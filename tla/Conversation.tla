---------------------------- MODULE Conversation ----------------------------
(***************************************************************************)
(* One thread of moseby and the processes that drive turns on it:          *)
(* runtime/loop.py run_turn with its store, the tool worker, and the       *)
(* operations on the database that they call.                              *)
(*                                                                         *)
(* Each database step is one write transaction; between two of them other  *)
(* processes run, and a process may die.  A record's ID is its position in *)
(* the thread's history.  A run's ID is the position of its user message,  *)
(* an inference request's that of its marker, and a tool call (with the    *)
(* job and the task saved for it) is named by the reply that made it and   *)
(* its index there.                                                        *)
(***************************************************************************)
EXTENDS Naturals, Sequences

CONSTANTS
  Process,     \* processes that call run_turn (CLI sessions)
  Request,     \* request IDs they submit, each with one text
  NoProcess,
  MaxTurns,    \* definition.max_turns
  MaxCalls,    \* bound on the tool calls of one reply
  Notes,       \* indices of the calls that save a note; others only write
  MaxLength    \* bound on the history, large enough never to be met

ASSUME ConversationAssumption ==
  /\ NoProcess \notin Process \cup Request
  /\ MaxTurns \in Nat /\ MaxCalls \in Nat /\ MaxLength \in Nat \ {0}
  /\ Notes \subseteq 1 .. MaxCalls

VARIABLES
  history,     \* thread_records of the thread
  projection,  \* threads.projection_sequence
  run,         \* run[i]: status of the run begun by record i
  inference,   \* inference[i]: status of the request marked by record i
  task,        \* task[c]: status of the call's task
  wrote,       \* wrote[c]: the call's handler committed its domain write
  ledger,      \* ledger[q]: run saved as response of threads.submit, or 0
  driver,      \* driver[p]: where the process stands in run_turn
  handler,     \* handler[c]: process whose thread runs the call's handler
  broken,      \* runs whose tool batch was cut short by an error
  lost         \* runs whose process died, or could not write their end

rows == <<history, projection, run, inference, task, wrote, ledger>>
vars == <<rows, driver, handler, broken, lost>>

-----------------------------------------------------------------------------
Position == 1 .. MaxLength
Call == Position \X (1 .. MaxCalls)
Ended == {"COMPLETED", "STOPPED"}  \* stopped: failed or cancelled
RunStatus == {"ABSENT", "RUNNING"} \cup Ended
InferenceStatus == {"NONE", "IN_FLIGHT", "SUCCEEDED", "FAILED"}
Away == {"idle", "refused"}
InTools == {"claim", "exec", "classify", "settle"}
InTry == {"loop", "prepare", "await", "accept", "finish"} \cup InTools
Busy == InTry \cup {"handle"}

Record ==
  [kind : {"CREATED", "USER", "ASK", "REPLY", "CLASSIFY", "DECISION", "RESULT", "FINISHED"},
   run : {0} \cup Position,        \* run_id
   source : {0} \cup Position,     \* source_record_id; of ASK, the last record seen
   n : 0 .. MaxCalls,              \* calls of a REPLY, the call a RESULT answers
   wrote : BOOLEAN]                \* of a RESULT: had its handler written by then

Driver ==
  [pc : Away \cup Busy \cup {"check", "begin", "read"},
   req : Request \cup {NoProcess},
   run : {0} \cup Position,
   turns : 0 .. MaxTurns,
   view : {0} \cup Position,       \* last record of the history read
   sent : {0} \cup Position,       \* inference_id of run_turn
   note : {0} \cup Position,       \* inference_id of the note being classified
   calls : 0 .. MaxCalls,          \* tool calls of the reply in hand
   todo : Seq(Call),               \* work not settled yet
   skip : BOOLEAN,                 \* cancelled: the rest of the batch is skipped
   outcome : {"NONE", "SUCCEEDED", "FAILED"},
   status : Ended \cup {"NONE"}]   \* how the run is going to end

Idle == [pc |-> "idle", req |-> NoProcess, run |-> 0, turns |-> 0, view |-> 0,
         sent |-> 0, note |-> 0, calls |-> 0, todo |-> <<>>, skip |-> FALSE,
         outcome |-> "NONE", status |-> "NONE"]

(* run_turn is over: it returned, or raised. *)
Leave(p) == [driver EXCEPT ![p] = Idle]
Refuse(p) == [driver EXCEPT ![p] = [Idle EXCEPT !.pc = "refused"]]

TypeOK ==
  /\ history \in Seq(Record)
  /\ projection \in Nat
  /\ run \in [Position -> RunStatus]
  /\ inference \in [Position -> InferenceStatus]
  /\ task \in [Call -> {"ABSENT", "READY", "RUNNING", "SUCCEEDED", "FAILED"}]
  /\ wrote \in [Call -> BOOLEAN]
  /\ ledger \in [Request -> {0} \cup Position]
  /\ driver \in [Process -> Driver]
  /\ handler \in [Call -> Process \cup {NoProcess}]
  /\ broken \subseteq Position /\ lost \subseteq Position

-----------------------------------------------------------------------------
(* Reading the history. *)

CallsIn(h) == {c \in (DOMAIN h) \X (1 .. MaxCalls) :
                 h[c[1]].kind = "REPLY" /\ c[2] <= h[c[1]].n}
AnsweredIn(h) == {<<h[i].source, h[i].n>> : i \in {k \in DOMAIN h : h[k].kind = "RESULT"}}

(* prepare_context's pending calls, which make it raise. *)
Pending(h) == CallsIn(h) \ AnsweredIn(h)

ActiveRun == {r \in Position : run[r] = "RUNNING"}

\* Mutant: nobody looks for an active run.
AlwaysFree == TRUE

(* find_active_by_thread_id finds nothing, so a run may be created. *)
Free == ActiveRun = {}

\* Mutant: the ledger never recognises a request.
NeverSeen(q) == FALSE

(* The request is in the ledger, with the run it started. *)
Seen(q) == ledger[q] # 0

\* Mutant: the claim is not looked at.
AnyClaim(c) == TRUE

(* guard: the task is running under the claim of its only attempt.  That   *)
(* the claim may also have run out shows in Raise and HandlerEnds.         *)
Claimed(c) == task[c] = "RUNNING"

(* append: the next record, with the projection advanced beside it. *)
NextPosition == Len(history) + 1
WithRecord(kind, r, source, n, w) ==
  Append(history, [kind |-> kind, run |-> r, source |-> source, n |-> n, wrote |-> w])
AppendRecord(kind, r, source, n, w) ==
  /\ projection = Len(history) /\ Len(history) < MaxLength
  /\ history' = WithRecord(kind, r, source, n, w)
  /\ projection' = NextPosition

(* require_running: no more work is accepted for a run that has ended.     *)
RequireRunning(r) == run[r] = "RUNNING"

\* Mutant: only run_turn's own questions are counted.
OwnUsageKnown(r) ==
  \A i \in DOMAIN history :
    history[i].kind = "ASK" /\ history[i].run = r => inference[i] = "SUCCEEDED"

(* token_usage is a number only if all questions of the run were answered. *)
UsageKnown(r) ==
  \A i \in DOMAIN history :
    history[i].kind \in {"ASK", "CLASSIFY"} /\ history[i].run = r => inference[i] = "SUCCEEDED"

(* prepare and start: a question of run r is saved and dispatched, under   *)
(* the marker that is about to be appended.                                *)
SendInference(r) ==
  /\ RequireRunning(r)
  /\ inference' = [inference EXCEPT ![NextPosition] = "IN_FLIGHT"]

(* finish: only a dispatched question can receive its one outcome.         *)
FinishInference(i, outcome) ==
  /\ inference[i] = "IN_FLIGHT"
  /\ inference' = [inference EXCEPT ![i] = outcome]

Init ==
  /\ history = <<[kind |-> "CREATED", run |-> 0, source |-> 0, n |-> 0, wrote |-> FALSE]>>
  /\ projection = 1
  /\ run = [i \in Position |-> "ABSENT"]
  /\ inference = [i \in Position |-> "NONE"]
  /\ task = [c \in Call |-> "ABSENT"]
  /\ wrote = [c \in Call |-> FALSE]
  /\ ledger = [q \in Request |-> 0]
  /\ driver = [p \in Process |-> Idle]
  /\ handler = [c \in Call |-> NoProcess]
  /\ broken = {}
  /\ lost = {}

-----------------------------------------------------------------------------
(* Beginning a turn. *)

(* External: run_turn is called. *)
Submit(p, q) ==
  /\ driver[p].pc \in Away
  /\ driver' = [driver EXCEPT ![p] = [Idle EXCEPT !.pc = "check", !.req = q]]
  /\ UNCHANGED <<rows, handler, broken, lost>>

(* An exchange left incomplete makes it refuse. *)
CheckExchange(p) ==
  /\ driver[p].pc = "check"
  /\ driver' = IF Pending(history) = {} THEN [driver EXCEPT ![p].pc = "begin"] ELSE Refuse(p)
  /\ UNCHANGED <<rows, handler, broken, lost>>

(* begin_turn: a request seen before names its run, a new one is refused   *)
(* while a run is active and else starts its own, all in one transaction.  *)
Begin(p) ==
  /\ driver[p].pc = "begin"
  /\ LET q == driver[p].req IN
     \/ /\ Seen(q)
        /\ driver' = [driver EXCEPT ![p].pc = "read", ![p].run = ledger[q]]
        /\ UNCHANGED rows
     \/ /\ ~Seen(q) /\ ~Free
        /\ driver' = Refuse(p)
        /\ UNCHANGED rows
     \/ /\ ~Seen(q) /\ Free
        /\ AppendRecord("USER", NextPosition, 0, 0, FALSE)
        /\ run' = [run EXCEPT ![NextPosition] = "RUNNING"]
        /\ ledger' = [ledger EXCEPT ![q] = NextPosition]
        /\ driver' = [driver EXCEPT ![p].pc = "loop", ![p].run = NextPosition]
        /\ UNCHANGED <<inference, task, wrote>>
  /\ UNCHANGED <<handler, broken, lost>>

(* _saved_result for a repeated request. *)
ReadSaved(p) ==
  /\ driver[p].pc = "read"
  /\ driver' = IF run[driver[p].run] = "RUNNING" THEN Refuse(p) ELSE Leave(p)
  /\ UNCHANGED <<rows, handler, broken, lost>>

-----------------------------------------------------------------------------
(* Asking the model. *)

(* The turn limit, or the token budget, ends the run.  Token counts are    *)
(* left out: before any turn the budget may turn out spent or unreported.  *)
Stop(p) ==
  /\ driver[p].pc = "loop"
  /\ driver' = [driver EXCEPT ![p].pc = "finish", ![p].status = "STOPPED"]
  /\ UNCHANGED <<rows, handler, broken, lost>>

\* Mutant: one turn too many.
TurnsLeftOrEqual(d) == d.turns <= MaxTurns

TurnsLeft(d) == d.turns < MaxTurns

\* Mutant: the exchange is only checked before the turn begins.
BuildContextUnchecked(p) ==
  /\ driver[p].pc = "loop"
  /\ TurnsLeft(driver[p])
  /\ UsageKnown(driver[p].run)
  /\ driver' = [driver EXCEPT ![p].pc = "prepare", ![p].view = Len(history)]
  /\ UNCHANGED <<rows, handler, broken, lost>>

(* prepare_context over the history read now. *)
BuildContext(p) ==
  /\ driver[p].pc = "loop"
  /\ TurnsLeft(driver[p])
  /\ UsageKnown(driver[p].run)
  /\ Pending(history) = {}
  /\ driver' = [driver EXCEPT ![p].pc = "prepare", ![p].view = Len(history)]
  /\ UNCHANGED <<rows, handler, broken, lost>>

(* store.prepare: the request, its marker and its dispatch. *)
Prepare(p) ==
  /\ driver[p].pc = "prepare"
  /\ SendInference(driver[p].run)
  /\ AppendRecord("ASK", driver[p].run, driver[p].view, 0, FALSE)
  /\ driver' = [driver EXCEPT ![p].pc = "await", ![p].sent = NextPosition, ![p].view = 0]
  /\ UNCHANGED <<run, task, wrote, ledger, handler, broken, lost>>

(* External: the provider replies with n tool calls. *)
Generate(p, n) ==
  /\ driver[p].pc = "await"
  /\ driver' = [driver EXCEPT ![p].pc = "accept", ![p].calls = n, ![p].turns = @ + 1]
  /\ UNCHANGED <<rows, handler, broken, lost>>

(* store.accept: the reply with a job and a ready task for every call. *)
Accept(p) ==
  /\ driver[p].pc = "accept"
  /\ LET d == driver[p] IN
     /\ FinishInference(d.sent, "SUCCEEDED")
     /\ RequireRunning(d.run)
     /\ AppendRecord("REPLY", d.run, d.sent, d.calls, FALSE)
     /\ task' = [c \in Call |-> IF c[1] = NextPosition /\ c[2] <= d.calls THEN "READY" ELSE task[c]]
     /\ driver' = [driver EXCEPT ![p] =
          [d EXCEPT !.sent = 0, !.calls = 0,
                    !.pc = IF d.calls = 0 THEN "finish" ELSE "claim",
                    !.status = IF d.calls = 0 THEN "COMPLETED" ELSE "NONE",
                    !.todo = [k \in 1 .. d.calls |-> <<NextPosition, k>>]]]
  /\ UNCHANGED <<run, wrote, ledger, handler, broken, lost>>

-----------------------------------------------------------------------------
(* The tool batch: calls in order, each claimed, executed and settled.     *)

(* The claim; a skipped call goes on without being executed. *)
ClaimCall(p) ==
  /\ driver[p].pc = "claim"
  /\ LET d == driver[p] c == Head(d.todo) IN
     /\ task[c] = "READY"
     /\ RequireRunning(d.run)
     /\ task' = [task EXCEPT ![c] = "RUNNING"]
     /\ driver' = [driver EXCEPT ![p].pc = IF d.skip THEN "settle" ELSE "exec",
                                 ![p].outcome = IF d.skip THEN "FAILED" ELSE "NONE"]
  /\ UNCHANGED <<history, projection, run, inference, wrote, ledger, handler, broken, lost>>

(* The handler hands its write to a thread (asyncio.to_thread). *)
StartHandler(p) ==
  /\ driver[p].pc = "exec"
  /\ LET c == Head(driver[p].todo) IN
     /\ c[2] \notin Notes
     /\ handler[c] = NoProcess
     /\ handler' = [handler EXCEPT ![c] = p]
  /\ UNCHANGED <<rows, driver, broken, lost>>

(* claimed_write in that thread, whether or not anyone still waits for it. *)
HandlerWrite(c) ==
  /\ handler[c] # NoProcess
  /\ ~wrote[c]
  /\ Claimed(c)
  /\ wrote' = [wrote EXCEPT ![c] = TRUE]
  /\ UNCHANGED <<history, projection, run, inference, task, ledger, driver, handler, broken, lost>>

(* The thread ends while the worker waits for it: with the tool's result,  *)
(* or with an error, which it can also meet after the write.               *)
HandlerReturns(p, o) ==
  /\ driver[p].pc = "exec"
  /\ LET c == Head(driver[p].todo) IN
     /\ handler[c] = p
     /\ o = "SUCCEEDED" => wrote[c]
     /\ handler' = [handler EXCEPT ![c] = NoProcess]
  /\ driver' = [driver EXCEPT ![p].pc = "settle", ![p].outcome = o]
  /\ UNCHANGED <<rows, broken, lost>>

(* The wait ends early: the 45 s timeout, or a cancellation (Ctrl-C), or a *)
(* tool that is refused before it saves anything, as a note is when the    *)
(* run's usage is not known or spent.  A thread cannot be stopped.         *)
Abandon(p, cancelled) ==
  /\ driver[p].pc = "exec"
  /\ driver' = [driver EXCEPT ![p].pc = "settle", ![p].outcome = "FAILED",
                              ![p].skip = cancelled]
  /\ UNCHANGED <<rows, handler, broken, lost>>

(* A thread nobody waits for ends. *)
HandlerEnds(c) ==
  /\ handler[c] # NoProcess
  /\ ~(driver[handler[c]].pc = "exec" /\ Head(driver[handler[c]].todo) = c)
  /\ handler' = [handler EXCEPT ![c] = NoProcess]
  /\ UNCHANGED <<rows, driver, broken, lost>>

(* A note is saved together with the question which guests it is about,    *)
(* unless the tokens the run has used are unknown (_prepare); see Abandon. *)
SaveNote(p) ==
  /\ driver[p].pc = "exec"
  /\ LET c == Head(driver[p].todo) IN
     /\ c[2] \in Notes
     /\ Claimed(c)
     /\ UsageKnown(driver[p].run)
     /\ SendInference(driver[p].run)
     /\ AppendRecord("CLASSIFY", driver[p].run, c[1], 0, FALSE)
     /\ wrote' = [wrote EXCEPT ![c] = TRUE]
     /\ driver' = [driver EXCEPT ![p].pc = "classify", ![p].note = NextPosition]
  /\ UNCHANGED <<run, task, ledger, handler, broken, lost>>

(* The wait for the classifier ends: it answered or failed, or the tool's  *)
(* timeout or a cancellation came first.                                   *)
Answers == {"answered", "failed", "timeout", "cancelled"}

(* The decision is saved with the inference's outcome.  A failed provider  *)
(* does not fail the tool.                                                 *)
Decide(p, a) ==
  /\ driver[p].pc = "classify"
  /\ Claimed(Head(driver[p].todo))
  /\ FinishInference(driver[p].note, IF a = "answered" THEN "SUCCEEDED" ELSE "FAILED")
  /\ AppendRecord("DECISION", driver[p].run, driver[p].note, 0, FALSE)
  /\ driver' = [driver EXCEPT ![p].pc = "settle", ![p].note = 0, ![p].skip = a = "cancelled",
       ![p].outcome = IF a \in {"answered", "failed"} THEN "SUCCEEDED" ELSE "FAILED"]
  /\ UNCHANGED <<run, task, wrote, ledger, handler, broken, lost>>

(* The decision is refused, say because access was revoked: the tool fails *)
(* with the question left open, and a cancellation is forgotten.           *)
LoseDecision(p) ==
  /\ driver[p].pc = "classify"
  /\ driver' = [driver EXCEPT ![p].pc = "settle", ![p].note = 0, ![p].outcome = "FAILED"]
  /\ UNCHANGED <<rows, handler, broken, lost>>

\* Mutant: a cancelled batch is left at once.
LeaveBatch(skip, rest) == IF skip THEN "handle" ELSE IF rest # <<>> THEN "claim" ELSE "loop"

(* The next call of the batch; after the last, CancelledError or the loop. *)
AfterCall(skip, rest) == IF rest # <<>> THEN "claim" ELSE IF skip THEN "handle" ELSE "loop"

(* The final transaction: task, job, delivery to the history and receipt.  *)
Settle(p) ==
  /\ driver[p].pc = "settle"
  /\ LET d == driver[p]
         c == Head(d.todo)
         rest == Tail(d.todo)
         next == AfterCall(d.skip, rest) IN
     /\ Claimed(c)
     /\ task' = [task EXCEPT ![c] = d.outcome]
     /\ AppendRecord("RESULT", history[c[1]].run, c[1], c[2], wrote[c])
     /\ driver' = [driver EXCEPT ![p] =
          [d EXCEPT !.todo = rest, !.outcome = "NONE", !.pc = next,
                    !.skip = d.skip /\ next = "claim",
                    !.status = IF next = "handle" THEN "STOPPED" ELSE "NONE"]]
  /\ UNCHANGED <<run, inference, wrote, ledger, handler, broken, lost>>

-----------------------------------------------------------------------------
(* Ending a run. *)

(* Any step of the try block may raise instead: the provider fails, access *)
(* was revoked, the clock was set back, a lease ran out (ClaimLost), an    *)
(* open call is found, or a second Ctrl-C arrives.  While a handler is     *)
(* being awaited only the last of these is not turned into an outcome.     *)
Raise(p) ==
  /\ driver[p].pc \in InTry
  /\ driver' = [driver EXCEPT ![p] =
       [@ EXCEPT !.pc = "handle", !.status = "STOPPED", !.todo = <<>>, !.skip = FALSE,
                 !.outcome = "NONE", !.calls = 0, !.view = 0, !.note = 0]]
  /\ broken' = IF driver[p].pc \in InTools THEN broken \cup {driver[p].run} ELSE broken
  /\ UNCHANGED <<rows, handler, lost>>

(* The except block first records that the open question got no reply. *)
FailInference(p) ==
  /\ driver[p].pc = "handle"
  /\ driver[p].sent # 0
  /\ FinishInference(driver[p].sent, "FAILED")
  /\ driver' = [driver EXCEPT ![p].sent = 0]
  /\ UNCHANGED <<history, projection, run, task, wrote, ledger, handler, broken, lost>>

\* Mutant: only the orderly ways out finish the run.
OrderlyEnd == {"finish"}

Ending == {"finish", "handle"}

(* finish_run: the status and the record of why; a finished run is kept.   *)
FinishRun(p) ==
  /\ driver[p].pc \in Ending
  /\ driver[p].sent = 0
  /\ LET d == driver[p] IN
     /\ \/ /\ run[d.run] = "RUNNING"
           /\ run' = [run EXCEPT ![d.run] = d.status]
           /\ AppendRecord("FINISHED", d.run, 0, 0, FALSE)
        \/ /\ run[d.run] # "RUNNING"
           /\ UNCHANGED <<run, history, projection>>
     /\ driver' = Leave(p)
  /\ UNCHANGED <<inference, task, wrote, ledger, handler, broken, lost>>

(* The writes of the except block are guarded by nothing: when one raises  *)
(* (the clock was set back, the database stays locked, Ctrl-C comes again, *)
(* the question turns out to be answered) the run is left as it is.        *)
LoseRun(p) ==
  /\ driver[p].pc = "handle"
  /\ driver' = Leave(p)
  /\ lost' = lost \cup {driver[p].run}
  /\ UNCHANGED <<rows, handler, broken>>

(* The process dies, with its threads; everything saved stays as it is.    *)
Crash(p) ==
  /\ driver[p] # Idle \/ \E c \in Call : handler[c] = p
  /\ driver' = Leave(p)
  /\ lost' = IF driver[p].pc \in Busy THEN lost \cup {driver[p].run} ELSE lost
  /\ handler' = [c \in Call |-> IF handler[c] = p THEN NoProcess ELSE handler[c]]
  /\ UNCHANGED <<rows, broken>>

(* What the process itself goes on to do once it has called run_turn. *)
Drive(p) ==
  \/ CheckExchange(p) \/ Begin(p) \/ ReadSaved(p)
  \/ Stop(p) \/ BuildContext(p) \/ Prepare(p)
  \/ \E n \in 0 .. MaxCalls : Generate(p, n)
  \/ Accept(p)
  \/ ClaimCall(p) \/ StartHandler(p)
  \/ \E o \in {"SUCCEEDED", "FAILED"} : HandlerReturns(p, o)
  \/ \E cancelled \in BOOLEAN : Abandon(p, cancelled)
  \/ SaveNote(p) \/ LoseDecision(p)
  \/ \E a \in Answers : Decide(p, a)
  \/ Settle(p)
  \/ Raise(p)
  \/ FailInference(p) \/ FinishRun(p)

Next ==
  \/ \E p \in Process, q \in Request : Submit(p, q)
  \/ \E p \in Process : Drive(p) \/ LoseRun(p) \/ Crash(p)
  \/ \E c \in Call : HandlerWrite(c) \/ HandlerEnds(c)

Spec == Init /\ [][Next]_vars

(* Every wait of a driver is bounded: SQLite's busy timeout, the provider's *)
(* 60 s, the tool's 45 s.  Nothing is assumed of users, threads, crashes   *)
(* or of what makes a write raise.                                         *)
FairSpec == Spec /\ \A p \in Process : WF_vars(Drive(p))

-----------------------------------------------------------------------------
(* Properties. *)

(* The results of a reply follow it in the order of its calls, one for     *)
(* each, with nothing in between but what those calls added themselves: no *)
(* other process's message, no other question (execute_tool_batch,         *)
(* deliver, guest_references.py).                                          *)
ResultsFollowTheirReply ==
  \A i \in DOMAIN history : history[i].kind = "RESULT" =>
    LET s == history[i].source
        between == {k \in DOMAIN history : s < k /\ k < i} IN
    /\ s < i /\ history[s].kind = "REPLY" /\ history[i].n <= history[s].n
    /\ history[s].run = history[i].run
    /\ \A k \in between : /\ history[k].kind \in {"RESULT", "CLASSIFY", "DECISION"}
                           /\ history[k].run = history[i].run
    /\ {history[k].n : k \in {l \in between : history[l].kind = "RESULT"}}
         = 1 .. (history[i].n - 1)

(* Between reading the history and saving the question nothing is added,   *)
(* so the model sees the whole thread, and no call in it is unanswered     *)
(* (loop.py 81-89, where the read and the save are separate transactions). *)
ContextIsWhole ==
  \A i \in DOMAIN history : history[i].kind = "ASK" =>
    /\ history[i].source = i - 1
    /\ Pending(SubSeq(history, 1, i - 1)) = {}

(* No question, of the loop or of a note, is put while the tokens used by  *)
(* the run are unknown: after a generation or a classification that failed *)
(* or was never settled the budget cannot be checked any more              *)
(* (token_usage, loop.py 71-79, guest_references.py 188-202).              *)
BudgetIsKnown ==
  \A i, k \in DOMAIN history :
    /\ {history[i].kind, history[k].kind} \subseteq {"ASK", "CLASSIFY"}
    /\ k < i /\ history[k].run = history[i].run
    => inference[k] = "SUCCEEDED"

(* A repeated request never drives the run again, and a run that is being  *)
(* driven is the thread's active one: two processes never work on one      *)
(* thread at the same time (loop.py 56-65, runs.create).                   *)
OneDriver ==
  \A p \in Process : driver[p].pc \in Busy =>
    /\ ActiveRun = {driver[p].run}
    /\ \A o \in Process \ {p} : driver[o].pc \notin Busy

(* A result is the last word on its call: the handler's thread, which a    *)
(* timeout or a cancellation leaves running, saves nothing once the result *)
(* is in the history, and a reported success has been saved before it      *)
(* (tool_worker.py 103-208, claimed_write).                                *)
NoWriteBehindResult ==
  \A i \in DOMAIN history : history[i].kind = "RESULT" =>
    /\ wrote[<<history[i].source, history[i].n>>] = history[i].wrote
    /\ task[<<history[i].source, history[i].n>>] = "SUCCEEDED" => history[i].wrote

(* However a run ends, it leaves no generation open, and unless an error cut *)
(* its tool batch short every call of it has its result, so that the next  *)
(* turn is not refused: also after a timeout, a cancellation, the turn     *)
(* limit or a failed provider (loop.py 114-123, tool_worker.py 50-60).     *)
FinishedRunsAreSettled ==
  \A r \in Position : run[r] \in Ended =>
    /\ \A i \in DOMAIN history :
         history[i].kind = "ASK" /\ history[i].run = r => inference[i] # "IN_FLIGHT"
    /\ r \notin broken => \A c \in Pending(history) : history[c[1]].run # r

(* A run that has begun is ended, unless the process driving it dies or a  *)
(* write of its except block raises in its turn ("Save the failure so this *)
(* run stops holding the thread open"); then it stays active (loop.py 65). *)
RunsEnd ==
  \A r \in Position : run[r] = "RUNNING" ~> run[r] \in Ended \/ r \in lost

(* Whatever processes do at the same time and wherever they die, the       *)
(* thread keeps the promises of ThreadTurns.                               *)
Turns == INSTANCE ThreadTurns WITH
  Nobody <- NoProcess,
  talk <- IF ActiveRun = {} THEN NoProcess
          ELSE CHOOSE q \in Request : ledger[q] \in ActiveRun,
  taken <- {q \in Request : ledger[q] # 0},
  waiting <- \E r \in ActiveRun : \E i \in DOMAIN history :
               history[i].kind = "ASK" /\ history[i].run = r /\ inference[i] = "IN_FLIGHT",
  current <- {c \in CallsIn(history) : history[c[1]].run \in ActiveRun},
  made <- CallsIn(history),
  answered <- AnsweredIn(history)

ImplementsThreadTurns == Turns!Spec

(* "A repeated request reads its saved outcome and never drives that run   *)
(* again" (loop.py 57): a request whose run has ended is never refused.    *)
RepeatReadsOutcome ==
  [][\A p \in Process :
       driver[p].pc # "refused" /\ driver'[p].pc = "refused" =>
         LET r == ledger[driver[p].req] IN r # 0 => run[r] = "RUNNING"]_vars

=============================================================================
