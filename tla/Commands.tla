------------------------------ MODULE Commands ------------------------------
(***************************************************************************)
(* Commands that are saved with their response, for the one that edits a   *)
(* guest (moseby/services/guests.py, update).  It arrives over HTTP        *)
(* (gateway/writes.py) or from a tool of an agent (tools/execution.py,     *)
(* runtime/tool_writes.py).  Authority is resolved in a read transaction   *)
(* of its own; the staff member's role may change before the command gets  *)
(* the write lock.                                                         *)
(*                                                                         *)
(* A repeated command is another caller with the same key.  "now" is taken *)
(* before the lock over HTTP and the clock can be set: it is any time.     *)
(***************************************************************************)
EXTENDS Permissions

CONSTANTS
  Caller,       \* attempts at commands
  Request,      \* request keys (of one staff member and operation)
  Guest,
  Times,        \* timestamps; 0 is when the guests were created
  Concierge,    \* grants of the concierge role; other roles have none
  Required,     \* permissions that editing a guest requires
  Definitions,  \* grants an installed agent definition may have
  Ceilings,     \* grants that may have been saved with the thread
  None

ASSUME CommandsAssumption ==
  /\ Times \subseteq Nat \ {0}
  /\ Required # {}
  /\ Concierge \cup Required \cup UNION (Definitions \cup Ceilings) \subseteq Permission

VARIABLES
  concierge,   \* whether the staff member's role is concierge now
  definition,  \* grants of the thread's agent definition
  ceiling,     \* grants saved when the thread was created
  updated,     \* updated[g]: guest g's version timestamp
  ledger,      \* ledger[r]: accepted input and saved response
  call,        \* call[c]: progress of an attempt
  edits        \* history of the edits made, in order

vars == <<concierge, definition, ceiling, updated, ledger, call, edits>>
authority == <<concierge, definition, ceiling>>

-----------------------------------------------------------------------------
Input == [guest : Guest, expected : Times \cup {0}]
LedgerRow == [input : Input, response : Caller]  \* the edit that was answered with
EditRow == [by : Caller, key : Request, input : Input, read : Nat, at : Times]

\* read: the guest's last edit that the client had seen; entitled: whether the
\* role covered the command at some time since it (a tool's handler) began
CallRow ==
  [phase : {"http", "loaded", "running", "checked", "answered", "refused"},
   tool : BOOLEAN, key : Request, input : Input, read : Nat,
   context : BOOLEAN, entitled : BOOLEAN, answer : Caller \cup {None}]

ASSUME NoRowAssumption == None \notin CallRow \cup LedgerRow

EditsOf(g) == {i \in DOMAIN edits : edits[i].input.guest = g}

RowsOK ==
  /\ concierge \in BOOLEAN /\ definition \in Definitions /\ ceiling \in Ceilings
  /\ updated \in [Guest -> Times \cup {0}]
  /\ ledger \in [Request -> LedgerRow \cup {None}]
  /\ call \in [Caller -> CallRow \cup {None}]
  /\ edits \in Seq(EditRow)

(* Rows are well formed, and a saved command has the input and the         *)
(* response of an edit made under its key (save_response is called in the  *)
(* edit's own transaction).                                                *)
TypeOK ==
  /\ RowsOK
  /\ \A r \in Request : ledger[r] # None =>
       \E i \in DOMAIN edits :
         edits[i].key = r /\ ledger[r] = [input |-> edits[i].input, response |-> edits[i].by]

Init ==
  /\ concierge \in BOOLEAN /\ definition \in Definitions /\ ceiling \in Ceilings
  /\ updated = [g \in Guest |-> 0]
  /\ ledger = [r \in Request |-> None]
  /\ call = [c \in Caller |-> None]
  /\ edits = <<>>

-----------------------------------------------------------------------------
(* authority.resolve, and require_permission of the service on its result. *)
Grants == IF concierge THEN Concierge ELSE {}
MayEdit == AllowsAll(Grants, Required)

(* create_agent: the current role covers the whole thread, and the tool is *)
(* offered within both the agent's definition and the thread's ceiling.    *)
Offered ==
  /\ AllowsAll(Grants, ceiling)
  /\ AllowsAll(Intersection(definition, ceiling), Required)

Begin(c, phase, tool, r, g, read, context) ==
  /\ call[c] = None
  /\ read \in {0} \cup EditsOf(g)
  /\ call' = [call EXCEPT ![c] =
       [phase |-> phase, tool |-> tool, key |-> r,
        input |-> [guest |-> g,
                   expected |-> IF read = 0 THEN 0 ELSE edits[read].at],
        read |-> read, context |-> context, entitled |-> concierge, answer |-> None]]
  /\ UNCHANGED <<authority, updated, ledger, edits>>

To(c, phase) == [call EXCEPT ![c].phase = phase]

(* An HTTP request arrives and its dependencies resolve the caller.        *)
Receive(c, r, g, read) == Begin(c, "http", FALSE, r, g, read, MayEdit)

(* A tool worker loads the agent for a claimed job and execute_tool checks *)
(* the tool against it; a tool that is not offered is answered with that.  *)
LoadTool(c, r, g, read) ==
  Offered /\ Begin(c, "loaded", TRUE, r, g, read, MayEdit)

(* The tool's handler begins to write in a thread of its own.              *)
StartWrite(c) ==
  /\ call[c] # None /\ call[c].phase = "loaded"
  /\ call' = [To(c, "running") EXCEPT ![c].entitled = concierge]
  /\ UNCHANGED <<authority, updated, ledger, edits>>

\* Mutant: the authority of the loaded agent is used.
RecheckNothing(c) ==
  /\ call[c] # None /\ call[c].phase = "running"
  /\ call' = To(c, "checked")
  /\ UNCHANGED <<authority, updated, ledger, edits>>

(* claimed_write resolves the role again before its transaction.           *)
Recheck(c) ==
  /\ call[c] # None /\ call[c].phase = "running"
  /\ call' = To(c, IF AllowsAll(Grants, ceiling \cup Required) THEN "checked" ELSE "refused")
  /\ UNCHANGED <<authority, updated, ledger, edits>>

-----------------------------------------------------------------------------
(* The write transaction of a caller that was resolved.                    *)

Writing(c) == call[c] # None /\ call[c].phase \in {"http", "checked"}

\* Mutant: two edits may have the same timestamp.
FreshOrSameTime(input, now) ==
  updated[input.guest] = input.expected /\ now >= updated[input.guest]

(* check_updated_at: every accepted edit has a later timestamp.            *)
Fresh(input, now) ==
  updated[input.guest] = input.expected /\ now > updated[input.guest]

Answered(c, response) == [To(c, "answered") EXCEPT ![c].answer = response]

(* commands.execute, a new key: the edit and its response are saved.       *)
Apply(c, now) ==
  LET input == call[c].input IN
  /\ Writing(c) /\ call[c].context
  /\ ledger[call[c].key] = None /\ Fresh(input, now)
  /\ updated' = [updated EXCEPT ![input.guest] = now]
  /\ edits' = Append(edits, [by |-> c, key |-> call[c].key, input |-> input,
                             read |-> call[c].read, at |-> now])
  /\ ledger' = [ledger EXCEPT ![call[c].key] = [input |-> input, response |-> c]]
  /\ call' = Answered(c, c)
  /\ UNCHANGED authority

\* Mutant: the saved input is not compared.
ReplayAnyInput(c) ==
  LET saved == ledger[call[c].key] IN
  /\ Writing(c) /\ call[c].context
  /\ saved # None
  /\ call' = Answered(c, saved.response)
  /\ UNCHANGED <<authority, updated, ledger, edits>>

(* commands.execute, a key with a saved response and the same input.       *)
Replay(c) ==
  LET saved == ledger[call[c].key] IN
  /\ Writing(c) /\ call[c].context
  /\ saved # None /\ saved.input = call[c].input
  /\ call' = Answered(c, saved.response)
  /\ UNCHANGED <<authority, updated, ledger, edits>>

\* Mutant: the accepted key is not rolled back.
RefuseKeepingKey(c) ==
  /\ Writing(c)
  /\ call' = To(c, "refused")
  /\ ledger' = IF ledger[call[c].key] # None THEN ledger
               ELSE [ledger EXCEPT ![call[c].key] = [input |-> call[c].input, response |-> None]]
  /\ UNCHANGED <<authority, updated, edits>>

(* Everything that raises (no permission, other input, a stale version,    *)
(* an invalid guest, a lost claim) rolls back, the accepted key included.  *)
Refuse(c) ==
  /\ Writing(c)
  /\ call' = To(c, "refused")
  /\ UNCHANGED <<authority, updated, ledger, edits>>

-----------------------------------------------------------------------------
(* Somebody else changes the role of the staff member.                     *)
ChangeRole ==
  /\ concierge' = ~concierge
  /\ call' = [c \in Caller |->
                IF call[c] # None /\ call[c].phase \in {"http", "running", "checked"}
                THEN [call[c] EXCEPT !.entitled = @ \/ concierge']
                ELSE call[c]]
  /\ UNCHANGED <<definition, ceiling, updated, ledger, edits>>

Next ==
  \/ \E c \in Caller, r \in Request, g \in Guest : \E read \in {0} \cup EditsOf(g) :
       Receive(c, r, g, read) \/ LoadTool(c, r, g, read)
  \/ \E c \in Caller : StartWrite(c) \/ Recheck(c) \/ Replay(c) \/ Refuse(c)
  \/ \E c \in Caller, now \in Times : Apply(c, now)
  \/ ChangeRole

Spec == Init /\ [][Next]_vars

-----------------------------------------------------------------------------
Answers == {c \in Caller : call[c] # None /\ call[c].phase = "answered"}

Once == INSTANCE OnceOnly WITH
  Effect <- Caller \X Input,
  Nothing <- None,
  done <- [r \in Request |->
             {<<edits[i].by, edits[i].input>> :
               i \in {j \in DOMAIN edits : edits[j].key = r}}],
  told <- [c \in Caller |-> IF c \in Answers
                            THEN <<call[c].key, <<call[c].answer, call[c].input>>>> ELSE None]

(* However often a command is repeated, over HTTP or by a tool, the guest  *)
(* is edited at most once under its key, and every answer is of that edit  *)
(* and of the input that was sent: a key used again for something else is  *)
(* refused (operations/commands.execute, request_deduplication.accept).    *)
ImplementsOnceOnly == Once!Spec

(* No edit is made over an edit its client had not seen                    *)
(* (_writes.check_updated_at).                                             *)
NoLostUpdate ==
  \A i, j \in DOMAIN edits :
    j < i /\ edits[j].input.guest = edits[i].input.guest => j <= edits[i].read

(* Nobody is answered, not even from the ledger, whose role did not cover  *)
(* the command at some time after the request arrived or the tool's        *)
(* handler began to write; and a tool only where the agent's definition    *)
(* and the ceiling saved with the thread both allow it (services/authority *)
(* and access, tool_writes.claimed_write, agents/agent.create_agent).      *)
AnswersAreAuthorised ==
  \A c \in Answers :
    /\ call[c].entitled
    /\ call[c].tool => AllowsAll(definition, Required) /\ AllowsAll(ceiling, Required)

(* What the definition and the ceiling share allows exactly what both      *)
(* allow, and where the current role covers the ceiling, nothing that the  *)
(* role does not (agents/agent.create_agent: the thread's limits and       *)
(* today's role both hold); and a route's documented grants are the        *)
(* sufficient ones (contracts/route_metadata.py).                          *)
SharedGrantsAreExact ==
  \A p \in Concierge \cup Required \cup UNION (Definitions \cup Ceilings) :
    /\ Allows(Intersection(definition, ceiling), p)
         <=> Allows(definition, p) /\ Allows(ceiling, p)
    /\ AllowsAll(Grants, ceiling) /\ Allows(Intersection(definition, ceiling), p)
         => Allows(Grants, p)
    /\ CoveringGrantsSuffice(ceiling, p)

=============================================================================
