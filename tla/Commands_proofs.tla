-------------------------- MODULE Commands_proofs --------------------------
(***************************************************************************)
(* Proofs about Commands for every number of callers, request keys and     *)
(* guests, all timestamps, and any grants of the role, of the installed    *)
(* definitions and of the saved ceilings.                                  *)
(***************************************************************************)
EXTENDS Commands, Permissions_proofs

USE NoRowAssumption

(* Timestamps are numbers, and later than the guests' creation. *)
LEMMA TimesPositive == \A t \in Times : t \in Nat /\ t # 0
BY CommandsAssumption

-----------------------------------------------------------------------------
(* The facts about the history of edits that every proof below needs: it   *)
(* is a sequence of rows, and only an accepted edit makes it longer.       *)
LEMMA EditRows ==
  ASSUME RowsOK
  PROVE  /\ Len(edits) \in Nat /\ DOMAIN edits = 1 .. Len(edits)
         /\ \A i \in DOMAIN edits : edits[i] \in EditRow
BY DEF RowsOK

(* An accepted edit is appended to the rows there were. *)
LEMMA EditAppended ==
  ASSUME RowsOK, NEW row \in EditRow, edits' = Append(edits, row)
  PROVE  /\ edits' \in Seq(EditRow)
         /\ DOMAIN edits' = DOMAIN edits \cup {Len(edits) + 1}
         /\ edits'[Len(edits) + 1] = row
         /\ \A i \in DOMAIN edits : edits'[i] = edits[i] /\ i < Len(edits) + 1
BY AppendProperties DEF RowsOK

(* The row of the edit that a caller makes. *)
LEMMA RowApplied ==
  ASSUME RowsOK, NEW c \in Caller, NEW now \in Times, Apply(c, now)
  PROVE  /\ call[c] \in CallRow /\ call[c] # None
         /\ [by |-> c, key |-> call[c].key, input |-> call[c].input,
             read |-> call[c].read, at |-> now] \in EditRow
BY DEF RowsOK, Apply, Writing, CallRow, EditRow

(* Every step keeps the types. *)
LEMMA TypeStep ==
  ASSUME RowsOK, [Next]_vars
  PROVE  RowsOK'
<1>1. ASSUME NEW c \in Caller, NEW phase \in {"http", "loaded"}, NEW tool \in BOOLEAN,
             NEW r \in Request, NEW g \in Guest, NEW read \in {0} \cup EditsOf(g),
             Begin(c, phase, tool, r, g, read, MayEdit)
      PROVE RowsOK'
  <2>1. (IF read = 0 THEN 0 ELSE edits[read].at) \in Times \cup {0}
    BY EditRows DEF EditsOf, EditRow
  <2>2. read \in Nat /\ MayEdit \in BOOLEAN
    BY EditRows DEF EditsOf, MayEdit, AllowsAll
  <2>3. call'[c] \in CallRow
    BY <1>1, <2>1, <2>2 DEF Begin, CallRow, Input, RowsOK
  <2>4. QED
    BY <1>1, <2>3 DEF Begin, RowsOK, authority
<1>2. ASSUME NEW c \in Caller, StartWrite(c) PROVE RowsOK'
  <2>1. call[c] \in CallRow
    BY <1>2 DEF StartWrite, RowsOK
  <2>2. call' = [call EXCEPT ![c] = [call[c] EXCEPT !.phase = "running", !.entitled = concierge]]
    BY <1>2 DEF StartWrite, To, RowsOK
  <2>3. call'[c] \in CallRow
    BY <2>1, <2>2 DEF RowsOK, CallRow
  <2>4. QED
    BY <1>2, <2>2, <2>3 DEF StartWrite, RowsOK, authority
<1>3. ASSUME NEW c \in Caller, Recheck(c) PROVE RowsOK'
  BY <1>3 DEF Recheck, To, RowsOK, CallRow, authority
<1>4. ASSUME NEW c \in Caller, Replay(c) PROVE RowsOK'
  <2>1. call[c] \in CallRow /\ ledger[call[c].key] \in LedgerRow
    BY <1>4 DEF Replay, Writing, RowsOK, CallRow
  <2>2. QED
    BY <1>4, <2>1 DEF Replay, Answered, To, RowsOK, CallRow, LedgerRow, authority
<1>5. ASSUME NEW c \in Caller, Refuse(c) PROVE RowsOK'
  BY SMTT(30), <1>5 DEF Refuse, Writing, To, RowsOK, CallRow, authority
<1>6. ASSUME NEW c \in Caller, NEW now \in Times, Apply(c, now) PROVE RowsOK'
  <2>1. edits' \in Seq(EditRow)
    BY <1>6, RowApplied, EditAppended DEF Apply
  <2>2. call' \in [Caller -> CallRow \cup {None}]
    <3>1. call' = [call EXCEPT ![c] = [call[c] EXCEPT !.phase = "answered", !.answer = c]]
      BY <1>6 DEF Apply, Answered, To, RowsOK
    <3>2. call'[c] \in CallRow
      BY <1>6, <3>1, RowApplied DEF RowsOK, CallRow
    <3>3. QED
      BY <3>1, <3>2 DEF RowsOK
  <2>3. ledger' \in [Request -> LedgerRow \cup {None}]
    BY ZenonT(60), <1>6, RowApplied DEF Apply, RowsOK, CallRow, LedgerRow
  <2>4. updated' \in [Guest -> Times \cup {0}]
    BY <1>6 DEF Apply, RowsOK
  <2>5. QED
    BY <1>6, <2>1, <2>2, <2>3, <2>4 DEF Apply, RowsOK, authority
<1>7. ASSUME ChangeRole PROVE RowsOK'
  <2>1. ASSUME NEW c \in Caller PROVE call'[c] \in CallRow \cup {None}
    BY <1>7 DEF ChangeRole, RowsOK, CallRow
  <2>2. QED
    BY <1>7, <2>1 DEF ChangeRole, RowsOK
<1>8. CASE UNCHANGED vars
  BY <1>8 DEF vars, RowsOK
<1>9. QED
  BY <1>1, <1>2, <1>3, <1>4, <1>5, <1>6, <1>7, <1>8 DEF Next, Receive, LoadTool

(* Every row keeps its type.                                               *)
LEMMA RowsCorrect == Spec => []RowsOK
<1>1. Init => RowsOK
  BY DEF Init, RowsOK
<1>2. QED
  BY <1>1, TypeStep, PTL DEF Spec

-----------------------------------------------------------------------------
(* The inductive invariant has three parts.                                *)

(* No edit of a guest is later than its version timestamp, edits of a      *)
(* guest have later and later timestamps, and what a client expects is the *)
(* timestamp of the last edit it had seen.                                 *)
VersionCoversEdits == \A g \in Guest : \A i \in EditsOf(g) : edits[i].at <= updated[g]
TimestampsIncrease ==
  \A g \in Guest : \A i, j \in EditsOf(g) : j < i => edits[j].at < edits[i].at
ExpectedWasRead ==
  \A c \in Caller : call[c] # None =>
    IF call[c].read = 0 THEN call[c].input.expected = 0
    ELSE /\ call[c].read \in EditsOf(call[c].input.guest)
         /\ call[c].input.expected = edits[call[c].read].at

VersionsInv == VersionCoversEdits /\ TimestampsIncrease /\ ExpectedWasRead

(* A key has a saved command exactly when one edit was made under it, and  *)
(* it saved that edit's caller and input.                                  *)
LedgerHoldsTheEdit ==
  \A r \in Request :
    /\ ledger[r] = None => \A i \in DOMAIN edits : edits[i].key # r
    /\ ledger[r] # None =>
         \E i \in DOMAIN edits :
           edits[i].key = r /\ ledger[r] = [input |-> edits[i].input, response |-> edits[i].by]
KeysEditOnce == \A i, j \in DOMAIN edits : edits[i].key = edits[j].key => i = j

LedgerInv == LedgerHoldsTheEdit /\ KeysEditOnce

(* How far the command of a caller is authorised in each phase.            *)
PhaseIsAuthorised(c) ==
  LET phase == call[c].phase IN
  /\ phase = "http" /\ call[c].context => call[c].entitled
  /\ phase \in {"http", "running", "checked"} /\ concierge => call[c].entitled
  /\ phase \in {"checked", "answered"} => call[c].entitled
  /\ call[c].tool => AllowsAll(definition, Required) /\ AllowsAll(ceiling, Required)

AuthorityInv == \A c \in Caller : call[c] # None => PhaseIsAuthorised(c)

-----------------------------------------------------------------------------
(* What the steps have in common.  Only an accepted edit writes to the     *)
(* guests, the ledger and the history.                                     *)
LEMMA OnlyEditsWrite ==
  ASSUME [Next]_vars
  PROVE  \/ UNCHANGED <<updated, ledger, edits>>
         \/ \E c \in Caller, now \in Times : Apply(c, now)
BY DEF Next, vars, Receive, LoadTool, Begin, StartWrite, Recheck, Replay, Refuse, ChangeRole

(* A caller keeps what it asks for while it waits. *)
LEMMA CallsKeepTheirInput ==
  ASSUME RowsOK, [Next]_vars, NEW c \in Caller, call[c] # None
  PROVE  /\ call[c] \in CallRow /\ call'[c] \in CallRow /\ call'[c] # None
         /\ call'[c].key = call[c].key /\ call'[c].input = call[c].input
         /\ call'[c].read = call[c].read /\ call'[c].tool = call[c].tool
<1> DEFINE Kept(next) ==
      /\ next \in CallRow /\ next.key = call[c].key /\ next.input = call[c].input
      /\ next.read = call[c].read /\ next.tool = call[c].tool
<1>1. call[c] \in CallRow
  BY DEF RowsOK
<1>2. ASSUME NEW d \in Caller, NEW phase \in {"http", "loaded"}, NEW tool \in BOOLEAN,
             NEW r \in Request, NEW g \in Guest, NEW read \in {0} \cup EditsOf(g),
             Begin(d, phase, tool, r, g, read, MayEdit)
      PROVE Kept(call'[c])
  BY <1>1, <1>2 DEF Begin, RowsOK
<1>3. ASSUME NEW d \in Caller, StartWrite(d) \/ Recheck(d) \/ Replay(d) \/ Refuse(d)
                               \/ \E now \in Times : Apply(d, now)
      PROVE Kept(call'[c])
  <2>1. d = c \/ call'[c] = call[c]
    BY <1>3 DEF RowsOK, StartWrite, Recheck, Replay, Refuse, Apply, Answered, To
  <2>2. CASE d = c
    <3>1. CASE StartWrite(c)
      BY <1>1, <3>1 DEF StartWrite, To, RowsOK, CallRow
    <3>2. CASE Recheck(c)
      BY <1>1, <3>2 DEF Recheck, To, RowsOK, CallRow
    <3>3. CASE Refuse(c)
      BY <1>1, <3>3 DEF Refuse, To, RowsOK, CallRow
    <3>4. CASE Replay(c)
      BY <1>1, <3>4, TypeStep DEF Replay, Answered, To, RowsOK, CallRow
    <3>5. CASE \E now \in Times : Apply(c, now)
      <4>1. call' = [call EXCEPT ![c] = [call[c] EXCEPT !.phase = "answered", !.answer = c]]
        BY <3>5 DEF Apply, Answered, To, RowsOK
      <4>2. QED
        BY <1>1, <4>1 DEF RowsOK, CallRow
    <3>6. QED
      BY <1>3, <2>2, <3>1, <3>2, <3>3, <3>4, <3>5
  <2>3. QED
    BY <1>1, <2>1, <2>2
<1>4. CASE ChangeRole
  BY <1>1, <1>4 DEF ChangeRole, CallRow, RowsOK
<1>5. CASE UNCHANGED vars
  BY <1>1, <1>5 DEF vars
<1>6. Kept(call'[c])
  BY <1>2, <1>3, <1>4, <1>5 DEF Next, Receive, LoadTool
<1>7. QED
  BY <1>1, <1>6

(* A caller that appears has just read the guest, or was given nothing.    *)
LEMMA NewCallsHaveRead ==
  ASSUME RowsOK, [Next]_vars, NEW c \in Caller, call[c] = None, call'[c] # None
  PROVE  \E phase \in {"http", "loaded"}, tool \in BOOLEAN, r \in Request, g \in Guest :
           \E read \in {0} \cup EditsOf(g) :
             /\ Begin(c, phase, tool, r, g, read, MayEdit)
             /\ tool => phase = "loaded" /\ Offered
<1>1. ASSUME NEW d \in Caller, StartWrite(d) \/ Recheck(d) \/ Replay(d) \/ Refuse(d)
                               \/ \E now \in Times : Apply(d, now)
      PROVE FALSE
  BY <1>1 DEF RowsOK, StartWrite, Recheck, Replay, Refuse, Apply, Writing, Answered, To
<1>2. ~ChangeRole /\ ~UNCHANGED vars
  BY DEF ChangeRole, vars, RowsOK
<1>3. PICK d \in Caller, r \in Request, g \in Guest : \E read \in {0} \cup EditsOf(g) :
        Receive(d, r, g, read) \/ LoadTool(d, r, g, read)
  BY <1>1, <1>2 DEF Next
<1>4. d = c
  BY <1>3 DEF Receive, LoadTool, Begin, RowsOK
<1>5. QED
  BY <1>3, <1>4 DEF Receive, LoadTool

-----------------------------------------------------------------------------
(* A client's version of a guest is never newer than the guest's.          *)
LEMMA InitVersions == Init => VersionsInv
BY DEF Init, VersionsInv, VersionCoversEdits, TimestampsIncrease, ExpectedWasRead, EditsOf

(* An accepted edit was made over the guest's last edit, and the client    *)
(* had seen that one.                                                      *)
LEMMA AcceptedHasSeenTheLast ==
  ASSUME RowsOK, VersionsInv, NEW c \in Caller, NEW now \in Times, Apply(c, now)
  PROVE  LET g == call[c].input.guest IN
         /\ g \in Guest
         /\ \A j \in EditsOf(g) : j <= call[c].read /\ edits[j].at < now
<1> DEFINE g == call[c].input.guest
<1>1. call[c] \in CallRow /\ call[c] # None /\ g \in Guest
  BY RowApplied DEF CallRow, Input
<1>2. updated[g] = call[c].input.expected /\ now > updated[g]
  BY DEF Apply, Fresh
<1>3. ASSUME NEW j \in EditsOf(g) PROVE j <= call[c].read /\ edits[j].at < now
  <2>1. /\ \A i \in EditsOf(g) : i \in Nat
        /\ edits[j].at \in Nat /\ edits[j].at # 0 /\ updated[g] \in Nat /\ now \in Nat
    <3>1. \A i \in EditsOf(g) : i \in Nat /\ edits[i] \in EditRow
      BY EditRows DEF EditsOf
    <3>2. edits[j].at \in Times /\ updated[g] \in Times \cup {0}
      BY <1>1, <3>1 DEF EditRow, RowsOK
    <3>3. QED
      BY <3>1, <3>2, TimesPositive
  <2>2. edits[j].at <= updated[g]
    BY <1>1 DEF VersionsInv, VersionCoversEdits
  <2>3. call[c].read # 0
    BY <1>1, <1>2, <2>1, <2>2 DEF VersionsInv, ExpectedWasRead
  <2>4. call[c].read \in EditsOf(g) /\ edits[call[c].read].at = updated[g]
    BY <1>1, <1>2, <2>3 DEF VersionsInv, ExpectedWasRead
  <2>5. ~(call[c].read < j)
    BY <1>1, <2>1, <2>2, <2>4 DEF VersionsInv, TimestampsIncrease
  <2>6. QED
    BY <1>2, <2>1, <2>2, <2>4, <2>5
<1>4. QED
  BY <1>1, <1>3

(* Every step keeps the versions in order. *)
LEMMA StepVersions ==
  ASSUME RowsOK, VersionsInv, [Next]_vars
  PROVE  VersionsInv'
<1>1. CASE UNCHANGED <<updated, ledger, edits>>
  <2>1. \A g : EditsOf(g)' = EditsOf(g)
    BY <1>1 DEF EditsOf
  <2>2. VersionCoversEdits' /\ TimestampsIncrease'
    BY <1>1, <2>1 DEF VersionsInv, VersionCoversEdits, TimestampsIncrease
  <2>3. ASSUME NEW c \in Caller, call'[c] # None
        PROVE IF call'[c].read = 0 THEN call'[c].input.expected = 0
              ELSE /\ call'[c].read \in EditsOf(call'[c].input.guest)
                   /\ call'[c].input.expected = edits[call'[c].read].at
    <3>1. CASE call[c] # None
      BY <2>3, <3>1, CallsKeepTheirInput DEF VersionsInv, ExpectedWasRead
    <3>2. CASE call[c] = None
      <4>1. PICK phase \in {"http", "loaded"}, tool \in BOOLEAN, r \in Request, g \in Guest :
              \E read \in {0} \cup EditsOf(g) : Begin(c, phase, tool, r, g, read, MayEdit)
        BY <2>3, <3>2, NewCallsHaveRead
      <4>2. PICK read \in {0} \cup EditsOf(g) : Begin(c, phase, tool, r, g, read, MayEdit)
        BY <4>1
      <4>3. /\ call'[c].read = read
            /\ call'[c].input = [guest |-> g, expected |-> IF read = 0 THEN 0 ELSE edits[read].at]
        BY <4>2 DEF Begin, RowsOK
      <4>4. QED
        BY <4>3
    <3>3. QED
      BY <3>1, <3>2
  <2>4. ExpectedWasRead'
    BY <1>1, <2>1, <2>3 DEF ExpectedWasRead
  <2>5. QED
    BY <2>2, <2>4 DEF VersionsInv
<1>2. ASSUME NEW c \in Caller, NEW now \in Times, Apply(c, now) PROVE VersionsInv'
  <2> DEFINE n == Len(edits) + 1
             g == call[c].input.guest
             row == [by |-> c, key |-> call[c].key, input |-> call[c].input,
                     read |-> call[c].read, at |-> now]
  <2>1. row \in EditRow /\ edits' = Append(edits, row) /\ updated' = [updated EXCEPT ![g] = now]
    BY <1>2, RowApplied DEF Apply
  <2>2. /\ DOMAIN edits' = DOMAIN edits \cup {n} /\ edits'[n] = row
        /\ \A i \in DOMAIN edits : edits'[i] = edits[i] /\ i < n
    BY <2>1, EditAppended
  <2>3. \A h : EditsOf(h)' = EditsOf(h) \cup (IF h = g THEN {n} ELSE {})
    BY <2>2 DEF EditsOf
  <2>4. \A h : \A i \in EditsOf(h) :
          i \in DOMAIN edits /\ i \in Nat /\ i < n /\ edits'[i] = edits[i]
    BY <2>2, EditRows DEF EditsOf
  <2>5. g \in Guest /\ \A j \in EditsOf(g) : edits[j].at < now
    BY <1>2, AcceptedHasSeenTheLast
  <2>6. VersionCoversEdits'
    <3>1. ASSUME NEW h \in Guest, NEW i \in EditsOf(h)' PROVE edits'[i].at <= updated'[h]
      <4>1. CASE h # g
        BY <2>1, <2>3, <2>4, <3>1, <4>1 DEF VersionsInv, VersionCoversEdits, RowsOK
      <4>2. CASE h = g /\ i = n
        BY <2>1, <2>2, <2>5, <4>2, TimesPositive DEF RowsOK
      <4>3. CASE h = g /\ i \in EditsOf(g)
        <5>1. edits[i].at \in Nat /\ now \in Nat /\ edits[i].at < now
          BY <2>4, <2>5, <4>3, EditRows, TimesPositive DEF EditRow
        <5>2. QED
          BY <2>1, <2>4, <2>5, <4>3, <5>1 DEF RowsOK
      <4>4. QED
        BY <2>3, <3>1, <4>1, <4>2, <4>3
    <3>2. QED
      BY <3>1 DEF VersionCoversEdits
  <2>7. TimestampsIncrease'
    <3>1. ASSUME NEW h \in Guest, NEW i \in EditsOf(h)', NEW j \in EditsOf(h)', j < i
          PROVE edits'[j].at < edits'[i].at
      <4>1. j \in EditsOf(h)
        BY <2>3, <2>4, <3>1, EditRows
      <4>2. CASE i \in EditsOf(h)
        BY <2>4, <3>1, <4>1, <4>2 DEF VersionsInv, TimestampsIncrease
      <4>3. CASE i = n /\ h = g
        BY <2>2, <2>4, <2>5, <4>1, <4>3
      <4>4. QED
        BY <2>3, <4>2, <4>3
    <3>2. QED
      BY <3>1 DEF TimestampsIncrease
  <2>8. ExpectedWasRead'
    <3>1. ASSUME NEW d \in Caller, call'[d] # None
          PROVE /\ call[d] # None /\ call'[d].read = call[d].read
                /\ call'[d].input = call[d].input
      BY <1>2, <3>1, CallsKeepTheirInput DEF Apply, Writing, Answered, To, RowsOK
    <3>2. QED
      BY <2>3, <2>4, <3>1 DEF VersionsInv, ExpectedWasRead
  <2>9. QED
    BY <2>6, <2>7, <2>8 DEF VersionsInv
<1>3. QED
  BY <1>1, <1>2, OnlyEditsWrite

(* No edit is ever made over an edit its client had not seen.              *)
THEOREM NoUpdateIsLost == Spec => []NoLostUpdate
<1>1. Init => NoLostUpdate
  BY DEF Init, NoLostUpdate
<1>2. ASSUME RowsOK, VersionsInv, NoLostUpdate, [Next]_vars PROVE NoLostUpdate'
  <2>1. CASE UNCHANGED <<updated, ledger, edits>>
    BY <1>2, <2>1 DEF NoLostUpdate
  <2>2. ASSUME NEW c \in Caller, NEW now \in Times, Apply(c, now) PROVE NoLostUpdate'
    <3> DEFINE n == Len(edits) + 1
               row == [by |-> c, key |-> call[c].key, input |-> call[c].input,
                       read |-> call[c].read, at |-> now]
    <3>1. row \in EditRow /\ edits' = Append(edits, row)
      BY <1>2, <2>2, RowApplied DEF Apply
    <3>2. /\ DOMAIN edits' = DOMAIN edits \cup {n} /\ edits'[n] = row
          /\ \A i \in DOMAIN edits : edits'[i] = edits[i] /\ i < n /\ i \in Nat
      BY <1>2, <3>1, EditAppended, EditRows
    <3>3. \A j \in EditsOf(call[c].input.guest) : j <= call[c].read
      BY <1>2, <2>2, AcceptedHasSeenTheLast
    <3>4. ASSUME NEW i \in DOMAIN edits', NEW j \in DOMAIN edits', j < i,
                 edits'[j].input.guest = edits'[i].input.guest
          PROVE j <= edits'[i].read
      <4>1. j \in DOMAIN edits
        BY <1>2, <3>2, <3>4, EditRows
      <4>2. CASE i \in DOMAIN edits
        BY <1>2, <3>2, <3>4, <4>1, <4>2 DEF NoLostUpdate
      <4>3. CASE i = n
        BY <3>2, <3>3, <3>4, <4>1, <4>3 DEF EditsOf
      <4>4. QED
        BY <3>2, <4>2, <4>3
    <3>5. QED
      BY <3>4 DEF NoLostUpdate
  <2>3. QED
    BY <1>2, <2>1, <2>2, OnlyEditsWrite
<1>3. QED
  BY <1>1, <1>2, RowsCorrect, InitVersions, StepVersions, PTL DEF Spec

-----------------------------------------------------------------------------
(* The ledger and the history of edits say the same.                       *)
LEMMA InitLedger == Init => LedgerInv
BY DEF Init, LedgerInv, LedgerHoldsTheEdit, KeysEditOnce

(* An accepted edit saves its command, and no other step touches either. *)
LEMMA StepLedger ==
  ASSUME RowsOK, LedgerInv, [Next]_vars
  PROVE  LedgerInv'
<1>1. CASE UNCHANGED <<updated, ledger, edits>>
  BY <1>1 DEF LedgerInv, LedgerHoldsTheEdit, KeysEditOnce
<1>2. ASSUME NEW c \in Caller, NEW now \in Times, Apply(c, now) PROVE LedgerInv'
  <2> DEFINE n == Len(edits) + 1
             k == call[c].key
             row == [by |-> c, key |-> k, input |-> call[c].input,
                     read |-> call[c].read, at |-> now]
             saved == [input |-> call[c].input, response |-> c]
  <2>1. /\ row \in EditRow /\ edits' = Append(edits, row) /\ k \in Request
        /\ ledger[k] = None /\ ledger' = [ledger EXCEPT ![k] = saved]
    BY <1>2, RowApplied DEF Apply, CallRow
  <2>2. /\ DOMAIN edits' = DOMAIN edits \cup {n} /\ edits'[n] = row
        /\ \A i \in DOMAIN edits : edits'[i] = edits[i] /\ i # n
    BY <2>1, EditAppended, EditRows
  <2>3. \A i \in DOMAIN edits : edits[i].key # k
    BY <2>1 DEF LedgerInv, LedgerHoldsTheEdit
  <2>4. saved \in LedgerRow
    BY <1>2, RowApplied DEF CallRow, LedgerRow
  <2>5. ASSUME NEW r \in Request, r # k
        PROVE /\ ledger'[r] = None => \A i \in DOMAIN edits' : edits'[i].key # r
              /\ ledger'[r] # None =>
                   \E i \in DOMAIN edits' :
                     /\ edits'[i].key = r
                     /\ ledger'[r] = [input |-> edits'[i].input, response |-> edits'[i].by]
    <3>1. ledger'[r] = ledger[r]
      BY <2>1, <2>5 DEF RowsOK
    <3>2. CASE ledger[r] = None
      BY <2>2, <2>5, <3>1, <3>2 DEF LedgerInv, LedgerHoldsTheEdit
    <3>3. CASE ledger[r] # None
      <4>1. PICK i \in DOMAIN edits :
              edits[i].key = r /\ ledger[r] = [input |-> edits[i].input, response |-> edits[i].by]
        BY <3>3 DEF LedgerInv, LedgerHoldsTheEdit
      <4>2. i \in DOMAIN edits' /\ edits'[i] = edits[i]
        BY <2>2
      <4>3. QED
        BY <3>1, <3>3, <4>1, <4>2
    <3>4. QED
      BY <3>2, <3>3
  <2>6. /\ ledger'[k] # None
        /\ edits'[n].key = k /\ ledger'[k] = [input |-> edits'[n].input, response |-> edits'[n].by]
    BY <2>1, <2>2, <2>4 DEF RowsOK
  <2>7. LedgerHoldsTheEdit'
    BY <2>2, <2>5, <2>6 DEF LedgerHoldsTheEdit
  <2>8. KeysEditOnce'
    BY <2>2, <2>3 DEF LedgerInv, KeysEditOnce
  <2>9. QED
    BY <2>7, <2>8 DEF LedgerInv
<1>3. QED
  BY <1>1, <1>2, OnlyEditsWrite

(* Every variable keeps its type, and a saved command has the input and    *)
(* the response of an edit that was made under its key.                    *)
THEOREM TypeCorrect == Spec => []TypeOK
<1>1. RowsOK /\ LedgerInv => TypeOK
  BY DEF LedgerInv, LedgerHoldsTheEdit, TypeOK
<1>2. QED
  BY <1>1, RowsCorrect, InitLedger, StepLedger, PTL DEF Spec

(* What the abstraction sees: the effects of a key, and what callers were  *)
(* told.                                                                   *)
Done == [r \in Request |->
           {<<edits[i].by, edits[i].input>> : i \in {j \in DOMAIN edits : edits[j].key = r}}]
Told == [c \in Caller |-> IF c \in Answers
                          THEN <<call[c].key, <<call[c].answer, call[c].input>>>> ELSE None]

(* The step of the abstraction, written over these two. *)
Asks(c, r, e) ==
  /\ Told[c] = None
  /\ Done[r] = {} \/ Done[r] = {e}
  /\ Done' = [Done EXCEPT ![r] = {e}]
  /\ Told' = [Told EXCEPT ![c] = <<r, e>>]

(* A key without a saved command had no effect, a saved command is the one *)
(* effect of its key.                                                      *)
DoneFollowsLedger ==
  \A r \in Request :
    /\ ledger[r] = None => Done[r] = {}
    /\ ledger[r] # None => Done[r] = {<<ledger[r].response, ledger[r].input>>}

(* The ledger says which effects there were. *)
LEMMA LedgerTellsDone == LedgerInv => DoneFollowsLedger
<1> SUFFICES ASSUME LedgerInv, NEW r \in Request
             PROVE  /\ ledger[r] = None => Done[r] = {}
                    /\ ledger[r] # None => Done[r] = {<<ledger[r].response, ledger[r].input>>}
  BY DEF DoneFollowsLedger
<1> DEFINE at == {j \in DOMAIN edits : edits[j].key = r}
<1>1. ASSUME ledger[r] = None PROVE Done[r] = {}
  BY <1>1 DEF Done, LedgerInv, LedgerHoldsTheEdit
<1>2. ASSUME ledger[r] # None PROVE Done[r] = {<<ledger[r].response, ledger[r].input>>}
  <2>1. PICK i \in DOMAIN edits :
          edits[i].key = r /\ ledger[r] = [input |-> edits[i].input, response |-> edits[i].by]
    BY <1>2 DEF LedgerInv, LedgerHoldsTheEdit
  <2>2. at = {i}
    BY <2>1 DEF LedgerInv, KeysEditOnce
  <2>3. Done[r] = {<<edits[i].by, edits[i].input>>}
    BY <2>2 DEF Done
  <2>4. QED
    BY <1>2, <2>1, <2>3
<1>3. QED
  BY <1>1, <1>2

(* Answering a caller with a saved command is what OnceOnly allows.        *)
LEMMA AnswerIsAsk ==
  ASSUME RowsOK, LedgerInv, [Next]_vars, NEW c \in Caller, call[c] # None,
         call[c].phase # "answered",
         NEW response \in Caller,
         call' = [call EXCEPT ![c] = [call[c] EXCEPT !.phase = "answered", !.answer = response]],
         \/ ledger[call[c].key] = None /\ response = c
         \/ ledger[call[c].key] = [input |-> call[c].input, response |-> response],
         ledger' = [ledger EXCEPT ![call[c].key] = [input |-> call[c].input, response |-> response]]
  PROVE  Asks(c, call[c].key, <<response, call[c].input>>)
<1> DEFINE k == call[c].key
           e == <<response, call[c].input>>
<1>1. call[c] \in CallRow /\ k \in Request /\ e \in Caller \X Input
  BY DEF RowsOK, CallRow
<1>2. RowsOK' /\ DoneFollowsLedger /\ DoneFollowsLedger'
  <2>1. LedgerInv'
    BY StepLedger
  <2>2. (LedgerInv => DoneFollowsLedger)'
    BY LedgerTellsDone, PTL
  <2>3. QED
    BY <2>1, <2>2, TypeStep, LedgerTellsDone
<1>3. Told[c] = None
  BY DEF Told, Answers
<1>4. Done[k] = {} \/ Done[k] = {e}
  BY <1>1, <1>2, NoRowAssumption DEF DoneFollowsLedger
<1>5. Done' = [Done EXCEPT ![k] = {e}]
  <2>1. [input |-> call[c].input, response |-> response] \in LedgerRow
    BY <1>1 DEF CallRow, LedgerRow
  <2>2. ledger'[k] # None /\ ledger'[k].input = call[c].input /\ ledger'[k].response = response
    BY <1>1, <2>1 DEF RowsOK
  <2>3. Done'[k] = {e}
    BY <1>1, <1>2, <2>2 DEF DoneFollowsLedger
  <2>4. ASSUME NEW r \in Request \ {k} PROVE Done'[r] = Done[r]
    <3>1. ledger'[r] = ledger[r]
      BY <1>1 DEF RowsOK
    <3>2. QED
      BY <1>2, <3>1 DEF DoneFollowsLedger
  <2>5. QED
    BY <1>1, <2>3, <2>4 DEF Done
<1>6. Told' = [Told EXCEPT ![c] = <<k, e>>]
  <2>1. /\ c \in Answers' /\ call'[c].key = k /\ call'[c].answer = response
        /\ call'[c].input = call[c].input
    BY <1>1, <1>2, CallsKeepTheirInput DEF RowsOK, Answers, CallRow
  <2>2. \A d \in Caller \ {c} : call'[d] = call[d]
    BY DEF RowsOK
  <2>3. \A d \in Caller \ {c} : Told'[d] = Told[d]
    BY <2>2 DEF Told, Answers
  <2>4. Told'[c] = <<k, e>>
    BY <2>1 DEF Told
  <2>5. QED
    BY <2>3, <2>4 DEF Told
<1>7. QED
  BY <1>3, <1>4, <1>5, <1>6 DEF Asks

(* Nothing is done and nobody told at first. *)
LEMMA InitOnce == Init => Once!Init
BY DEF Init, Once!Init, Answers

(* Answering is a step of OnceOnly, and every other step a stutter. *)
LEMMA StepOnce ==
  ASSUME RowsOK, LedgerInv, [Next]_vars
  PROVE  [Once!Next]_Once!vars
<1> DEFINE Asked == \E c \in Caller, r \in Request, e \in Caller \X Input : Asks(c, r, e)
           Same == \A c \in Caller : Told'[c] = Told[c]
<1>1. ASSUME NEW c \in Caller, NEW response \in Caller, call[c] # None,
             Asks(c, call[c].key, <<response, call[c].input>>)
      PROVE Asked
  <2> DEFINE r == call[c].key
             e == <<response, call[c].input>>
  <2>1. r \in Request /\ e \in Caller \X Input
    BY <1>1 DEF RowsOK, CallRow
  <2>2. Asks(c, r, e)
    BY <1>1
  <2> HIDE DEF r, e
  <2>3. QED
    BY <2>1, <2>2
<1>2. ASSUME NEW c \in Caller, NEW now \in Times, Apply(c, now) PROVE Asked
  <2>1. /\ call[c] # None /\ call[c].phase # "answered"
        /\ call' = [call EXCEPT ![c] = [call[c] EXCEPT !.phase = "answered", !.answer = c]]
        /\ ledger[call[c].key] = None
        /\ ledger' = [ledger EXCEPT ![call[c].key] = [input |-> call[c].input, response |-> c]]
    BY <1>2 DEF Apply, Writing, Answered, To, RowsOK
  <2>2. Asks(c, call[c].key, <<c, call[c].input>>)
    BY <2>1, AnswerIsAsk
  <2>3. QED
    BY <1>1, <2>1, <2>2
<1>3. ASSUME NEW c \in Caller, Replay(c) PROVE Asked
  <2> DEFINE saved == ledger[call[c].key]
  <2>1. /\ call[c] # None /\ call[c].phase # "answered" /\ call[c].key \in Request
        /\ saved # None /\ saved.input = call[c].input /\ UNCHANGED ledger
    BY <1>3 DEF Replay, Writing, RowsOK, CallRow
  <2>2. saved \in LedgerRow
    BY <2>1 DEF RowsOK
  <2>3. saved.response \in Caller /\ saved = [input |-> call[c].input, response |-> saved.response]
    BY <2>1, <2>2 DEF LedgerRow
  <2>4. call' = [call EXCEPT ![c] =
          [call[c] EXCEPT !.phase = "answered", !.answer = saved.response]]
    BY <1>3 DEF Replay, Answered, To, RowsOK
  <2>5. ledger' = [ledger EXCEPT ![call[c].key] = saved]
    BY <2>1 DEF RowsOK
  <2>6. Asks(c, call[c].key, <<saved.response, call[c].input>>)
    BY <2>1, <2>3, <2>4, <2>5, AnswerIsAsk
  <2>7. QED
    BY <1>1, <2>1, <2>3, <2>6
<1>4. ASSUME NEW d \in Caller, NEW phase \in {"http", "loaded"}, NEW tool \in BOOLEAN,
             NEW r \in Request, NEW g \in Guest, NEW read \in {0} \cup EditsOf(g),
             Begin(d, phase, tool, r, g, read, MayEdit)
      PROVE Same /\ UNCHANGED edits
  BY <1>4 DEF Begin, RowsOK, Told, Answers
<1>5. ASSUME NEW d \in Caller, StartWrite(d) \/ Recheck(d) \/ Refuse(d)
      PROVE Same /\ UNCHANGED edits
  <2>1. call[d] # None /\ call[d].phase # "answered" /\ call[d] \in CallRow
    BY <1>5 DEF StartWrite, Recheck, Refuse, Writing, RowsOK
  <2>2. call'[d] # None /\ call'[d].phase # "answered"
    <3>1. call'[d] # None
      BY <2>1, CallsKeepTheirInput
    <3>2. QED
      BY <1>5, <2>1, <3>1 DEF StartWrite, Recheck, Refuse, To, RowsOK, CallRow
  <2>3. \A c \in Caller \ {d} : call'[c] = call[c]
    BY <1>5 DEF StartWrite, Recheck, Refuse, To, RowsOK
  <2>4. UNCHANGED edits
    BY <1>5 DEF StartWrite, Recheck, Refuse
  <2>5. QED
    BY <2>1, <2>2, <2>3, <2>4 DEF Told, Answers
<1>6. ASSUME ChangeRole PROVE Same /\ UNCHANGED edits
  <2>1. ASSUME NEW c \in Caller PROVE Told'[c] = Told[c]
    <3>1. CASE call[c] = None
      BY <1>6, <3>1 DEF ChangeRole, Told, Answers
    <3>2. CASE call[c] # None
      <4>1. call[c] \in CallRow /\ call'[c] # None
        BY <3>2, CallsKeepTheirInput
      <4>2. /\ call'[c].phase = call[c].phase /\ call'[c].answer = call[c].answer
            /\ call'[c].key = call[c].key /\ call'[c].input = call[c].input
        BY <1>6, <4>1 DEF ChangeRole, CallRow
      <4>3. QED
        BY <3>2, <4>1, <4>2 DEF Told, Answers
    <3>3. QED
      BY <3>1, <3>2
  <2>2. UNCHANGED edits
    BY <1>6 DEF ChangeRole
  <2>3. QED
    BY <2>1, <2>2
<1>7. ASSUME UNCHANGED vars PROVE Same /\ UNCHANGED edits
  BY <1>7 DEF vars, Told, Answers
<1>8. Asked \/ (Same /\ UNCHANGED edits)
  BY <1>2, <1>3, <1>4, <1>5, <1>6, <1>7 DEF Next, Receive, LoadTool
<1>9. CASE Asked
  BY <1>9 DEF Once!Next, Once!Ask, Asks, Done, Told
<1>10. CASE Same /\ UNCHANGED edits
  <2>1. Told' = Told
    BY <1>10 DEF Told
  <2>2. QED
    BY <1>10, <2>1 DEF Once!vars, Told
<1>11. QED
  BY <1>8, <1>9, <1>10

(* However often a command is repeated, the guest is edited at most once   *)
(* under its key and every answer is of that edit and of the input that    *)
(* was sent: the service implements OnceOnly.                              *)
THEOREM ServiceImplementsOnceOnly == Spec => ImplementsOnceOnly
BY RowsCorrect, InitLedger, StepLedger, InitOnce, StepOnce, PTL
   DEF Spec, ImplementsOnceOnly, Once!Spec

-----------------------------------------------------------------------------
(* Authority.  All grants and required permissions are permissions.        *)
LEMMA GrantsArePermissions ==
  ASSUME RowsOK
  PROVE  /\ definition \in SUBSET Permission /\ ceiling \in SUBSET Permission
         /\ Required \in SUBSET Permission
         /\ Concierge \cup Required \cup UNION (Definitions \cup Ceilings) \in SUBSET Permission
BY CommandsAssumption DEF RowsOK

(* Only the role of a concierge lets anyone edit a guest.                  *)
LEMMA OnlyConcierges ==
  ASSUME NEW required, Required \subseteq required, AllowsAll(Grants, required)
  PROVE  concierge
BY CommandsAssumption DEF AllowsAll, Allows, Grants

(* A tool is offered only where definition and ceiling both allow it.      *)
LEMMA OfferedByBoth ==
  ASSUME RowsOK, Offered
  PROVE  AllowsAll(definition, Required) /\ AllowsAll(ceiling, Required)
BY GrantsArePermissions, IntersectionIsExact DEF Offered, AllowsAll

(* Nobody has asked for anything. *)
LEMMA InitAuthority == Init => AuthorityInv
BY DEF Init, AuthorityInv

(* Every step keeps each caller as authorised as its phase requires.       *)
LEMMA StepAuthority ==
  ASSUME RowsOK, AuthorityInv, [Next]_vars
  PROVE  AuthorityInv'
<1> DEFINE Authorised(row) ==
      /\ row.phase = "http" /\ row.context => row.entitled
      /\ row.phase \in {"http", "running", "checked"} /\ concierge' => row.entitled
      /\ row.phase \in {"checked", "answered"} => row.entitled
      /\ row.tool => AllowsAll(definition, Required) /\ AllowsAll(ceiling, Required)
<1>1. UNCHANGED <<definition, ceiling>>
  BY DEF Next, vars, authority, Receive, LoadTool, Begin, StartWrite, Recheck, Replay, Refuse,
         Apply, ChangeRole
<1>2. ASSUME NEW c \in Caller, call[c] = None, call'[c] # None PROVE Authorised(call'[c])
  <2>1. PICK phase \in {"http", "loaded"}, tool \in BOOLEAN, r \in Request, g \in Guest :
          \E read \in {0} \cup EditsOf(g) :
            /\ Begin(c, phase, tool, r, g, read, MayEdit)
            /\ tool => phase = "loaded" /\ Offered
    BY <1>2, NewCallsHaveRead
  <2>2. /\ call'[c].phase = phase /\ call'[c].tool = tool /\ call'[c].context = MayEdit
        /\ call'[c].entitled = concierge /\ concierge' = concierge
        /\ tool => Offered
    BY <1>2, <2>1 DEF Begin, RowsOK, authority
  <2>3. MayEdit => concierge
    BY OnlyConcierges DEF MayEdit
  <2>4. QED
    BY <2>2, <2>3, OfferedByBoth
<1>3. ASSUME NEW c \in Caller, call[c] # None PROVE Authorised(call'[c])
  <2>1. /\ call[c] \in CallRow /\ PhaseIsAuthorised(c) /\ call'[c].tool = call[c].tool
    BY <1>3, CallsKeepTheirInput DEF AuthorityInv
  <2>2. ASSUME call'[c] = call[c], UNCHANGED concierge PROVE Authorised(call'[c])
    BY <2>1, <2>2 DEF PhaseIsAuthorised
  <2>3. ASSUME NEW d \in Caller, NEW phase \in {"http", "loaded"}, NEW tool \in BOOLEAN,
               NEW r \in Request, NEW g \in Guest, NEW read \in {0} \cup EditsOf(g),
               Begin(d, phase, tool, r, g, read, MayEdit)
        PROVE Authorised(call'[c])
    BY <1>3, <2>2, <2>3 DEF Begin, RowsOK, authority
  <2>4. ASSUME NEW d \in Caller, StartWrite(d) \/ Recheck(d) \/ Replay(d) \/ Refuse(d)
                                 \/ \E now \in Times : Apply(d, now)
        PROVE UNCHANGED concierge /\ (d = c \/ call'[c] = call[c])
    BY <2>4 DEF RowsOK, authority, StartWrite, Recheck, Replay, Refuse, Apply, Answered, To
  <2>5. CASE StartWrite(c)
    BY <2>1, <2>4, <2>5 DEF StartWrite, To, RowsOK, CallRow, PhaseIsAuthorised
  <2>6. CASE Recheck(c)
    <3>1. AllowsAll(Grants, ceiling \cup Required) => concierge
      BY OnlyConcierges
    <3>2. QED
      BY <2>1, <2>4, <2>6, <3>1 DEF Recheck, To, RowsOK, CallRow, PhaseIsAuthorised
  <2>7. CASE Refuse(c)
    BY <2>1, <2>4, <2>7 DEF Refuse, To, RowsOK, CallRow, PhaseIsAuthorised
  <2>8. CASE Replay(c) \/ \E now \in Times : Apply(c, now)
    <3>1. call[c].entitled
      BY <2>1, <2>8 DEF Replay, Apply, Writing, PhaseIsAuthorised
    <3>2. call'[c].phase = "answered" /\ call'[c].entitled = call[c].entitled
      <4>1. PICK answer : call' = Answered(c, answer)
        BY <2>8 DEF Replay, Apply
      <4>2. call' = [call EXCEPT ![c] = [call[c] EXCEPT !.phase = "answered", !.answer = answer]]
        BY <4>1 DEF Answered, To, RowsOK
      <4>3. QED
        BY <2>1, <4>2 DEF RowsOK, CallRow
    <3>3. QED
      BY <2>1, <3>1, <3>2 DEF PhaseIsAuthorised
  <2>9. ASSUME ChangeRole PROVE Authorised(call'[c])
    <3>1. CASE call[c].phase \in {"http", "running", "checked"}
      <4>1. call'[c] = [call[c] EXCEPT !.entitled = @ \/ concierge']
        BY <1>3, <2>9, <3>1 DEF ChangeRole
      <4>2. /\ call'[c].phase = call[c].phase /\ call'[c].context = call[c].context
            /\ call'[c].entitled = (call[c].entitled \/ concierge')
        BY <2>1, <4>1 DEF CallRow
      <4>3. QED
        BY <2>1, <4>2 DEF PhaseIsAuthorised
    <3>2. CASE call[c].phase \notin {"http", "running", "checked"}
      BY <2>1, <2>9, <3>2 DEF ChangeRole, PhaseIsAuthorised
    <3>3. QED
      BY <3>1, <3>2
  <2>10. CASE UNCHANGED vars
    BY <2>2, <2>10 DEF vars
  <2>11. QED
    BY <2>2, <2>3, <2>4, <2>5, <2>6, <2>7, <2>8, <2>9, <2>10 DEF Next, Receive, LoadTool
<1>4. ASSUME NEW c \in Caller, call'[c] # None PROVE PhaseIsAuthorised(c)'
  BY <1>1, <1>2, <1>3, <1>4 DEF PhaseIsAuthorised
<1>5. QED
  BY <1>4 DEF AuthorityInv

(* Nobody is answered whose role did not cover the command at some time    *)
(* since the request arrived or the tool's handler began to write, and     *)
(* nobody by a tool that definition and ceiling do not both allow.         *)
THEOREM AnswersAuthorised == Spec => []AnswersAreAuthorised
<1>1. AuthorityInv => AnswersAreAuthorised
  BY DEF AuthorityInv, PhaseIsAuthorised, AnswersAreAuthorised, Answers
<1>2. QED
  BY <1>1, RowsCorrect, InitAuthority, StepAuthority, PTL DEF Spec

(* The shared grants of any definition and ceiling allow exactly what both *)
(* allow, and nothing the role does not allow where it covers the ceiling; *)
(* and the documented grants of a route are the sufficient ones.           *)
THEOREM SharedGrantsExact == Spec => []SharedGrantsAreExact
<1>1. RowsOK => SharedGrantsAreExact
  <2> SUFFICES ASSUME RowsOK,
                      NEW p \in Concierge \cup Required \cup UNION (Definitions \cup Ceilings)
               PROVE  /\ Allows(Intersection(definition, ceiling), p)
                           <=> Allows(definition, p) /\ Allows(ceiling, p)
                      /\ AllowsAll(Grants, ceiling)
                         /\ Allows(Intersection(definition, ceiling), p)
                           => Allows(Grants, p)
                      /\ CoveringGrantsSuffice(ceiling, p)
    BY DEF SharedGrantsAreExact
  <2>1. /\ p \in Permission
        /\ definition \in SUBSET Permission /\ ceiling \in SUBSET Permission
        /\ Grants \in SUBSET Permission
    BY GrantsArePermissions DEF Grants
  <2>2. Allows(Intersection(definition, ceiling), p)
          <=> Allows(definition, p) /\ Allows(ceiling, p)
    BY <2>1, IntersectionIsExact
  <2>3. ASSUME AllowsAll(Grants, ceiling), Allows(Intersection(definition, ceiling), p)
        PROVE  Allows(Grants, p)
    <3>1. PICK q \in ceiling : Matches(q, p)
      BY <2>2, <2>3 DEF Allows
    <3>2. PICK g \in Grants : Matches(g, q)
      BY <2>3 DEF AllowsAll, Allows
    <3>3. QED
      BY <2>1, <3>1, <3>2, MatchesTransitive DEF Allows
  <2>4. QED
    BY <2>1, <2>2, <2>3, CoveringGrantsAreExact
<1>2. QED
  BY <1>1, RowsCorrect, PTL

=============================================================================
