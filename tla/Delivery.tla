------------------------------ MODULE Delivery ------------------------------
(***************************************************************************)
(* The outcomes of thread-linked jobs and their way into the history of    *)
(* one thread (moseby/db/operations/job_completions.py,                    *)
(* moseby/db/repositories/completion_outbox.py).  An outcome waits in the  *)
(* outbox.  Whoever delivers it prepares a new summary of the thread from  *)
(* what it read, and commits entry, summary and receipt together.  The     *)
(* tool worker finishes and delivers in one transaction; job_completions   *)
(* promises the same to callers who come later, come twice or come         *)
(* together.  How tasks end before their job does is in WorkQueue.         *)
(***************************************************************************)
EXTENDS Pages

CONSTANTS
  Job, Outcome,
  Deliverer,   \* calls of deliver
  Message,     \* a record that is not about a job
  MaxHistory,  \* bound on the messages of the thread
  PageSize,    \* records a reader asks for at a time
  None

ASSUME DeliveryAssumption ==
  /\ MaxHistory \in Nat /\ PageSize \in Nat \ {0}
  /\ None \notin Outcome \cup Nat
  /\ Message \notin [job : Job, outcome : Outcome]

VARIABLES
  job,        \* job[j]: the outcome of a finished job
  outbox,     \* outbox[j]: payload and receipt of its completion
  history,    \* records of the thread; a record's ID is its position
  projection, \* the thread's summary: its position, and the history it describes
  deliverer,  \* deliverer[d]: progress of a call
  reading     \* a reader of the history

vars == <<job, outbox, history, projection, deliverer, reading>>

HistoryRow == [job : Job, outcome : Outcome] \cup {Message}
OutboxRow == [payload : Outcome, record : Nat \cup {None}]
DelivererRow ==
  [phase : {"reading", "prepared", "answered"}, job : Job, sequence : Nat, head : Nat,
   value : Seq(HistoryRow), record : Nat \cup {None}]

ASSUME NoRowAssumption == None \notin OutboxRow \cup DelivererRow

Init ==
  /\ job = [j \in Job |-> None]
  /\ outbox = [j \in Job |-> None]
  /\ history = <<Message>>  \* the thread's creation
  /\ projection = [sequence |-> 1, value |-> history]
  /\ deliverer = [d \in Deliverer |-> None]
  /\ reading = None

-----------------------------------------------------------------------------
(* conversations.append: read and write in one transaction.                *)
Say ==
  /\ Len(history) < MaxHistory
  /\ projection.sequence = Len(history)
  /\ history' = Append(history, Message)
  /\ projection' = [sequence |-> Len(history) + 1, value |-> Append(projection.value, Message)]
  /\ UNCHANGED <<job, outbox, deliverer, reading>>

(* job_completions.finish: the outcome and its outbox entry.  A repetition *)
(* with the same outcome changes nothing, with another one it is refused.  *)
Finish(j, o) ==
  /\ job[j] = None
  /\ job' = [job EXCEPT ![j] = o]
  /\ outbox' = [outbox EXCEPT ![j] = [payload |-> o, record |-> None]]
  /\ UNCHANGED <<history, projection, deliverer, reading>>

Record(j, payload) == [job |-> j, outcome |-> payload]

(* The last transaction of tool_worker.execute_queued_tool: finish, and    *)
(* deliver with the positions read in the same transaction.                *)
FinishTool(j, o) ==
  /\ job[j] = None
  /\ projection.sequence <= Len(history)
  /\ job' = [job EXCEPT ![j] = o]
  /\ history' = Append(history, Record(j, o))
  /\ projection' = [sequence |-> Len(history) + 1,
                    value |-> Append(projection.value, Record(j, o))]
  /\ outbox' = [outbox EXCEPT ![j] = [payload |-> o, record |-> Len(history) + 1]]
  /\ UNCHANGED <<deliverer, reading>>

-----------------------------------------------------------------------------
(* A delivery in steps of its own.                                         *)

Phase(d) == IF deliverer[d] = None THEN "idle" ELSE deliverer[d].phase

(* The saved summary is read ...                                           *)
ReadSummary(d, j) ==
  /\ Phase(d) = "idle" /\ outbox[j] # None
  /\ deliverer' = [deliverer EXCEPT ![d] =
       [phase |-> "reading", job |-> j, sequence |-> projection.sequence,
        head |-> 0, value |-> projection.value, record |-> None]]
  /\ UNCHANGED <<job, outbox, history, projection, reading>>

(* ... then the records after it, and a summary of both is prepared        *)
(* (ProjectionUpdate).                                                     *)
ReadRecords(d) ==
  /\ Phase(d) = "reading"
  /\ deliverer' = [deliverer EXCEPT
       ![d].phase = "prepared", ![d].head = Len(history),
       ![d].value = @ \o SubSeq(history, deliverer[d].sequence + 1, Len(history))]
  /\ UNCHANGED <<job, outbox, history, projection, reading>>

Delivered(d) == outbox[deliverer[d].job].record # None
Return(d, record) ==
  deliverer' = [deliverer EXCEPT ![d].phase = "answered", ![d].record = record]

(* deliver, once there is a receipt: the original record.                  *)
ReturnReceipt(d) ==
  /\ Phase(d) = "prepared" /\ Delivered(d)
  /\ Return(d, outbox[deliverer[d].job].record)
  /\ UNCHANGED <<job, outbox, history, projection, reading>>

\* Mutant: the prepared summary is not compared with the thread.
AtAnyTime(d) == ~Delivered(d)

(* No receipt yet, and the history and the summary are where they were     *)
(* (deliver, threads.save_projection).                                     *)
Current(d) ==
  /\ ~Delivered(d)
  /\ deliverer[d].head = Len(history) /\ deliverer[d].sequence = projection.sequence

(* deliver: the record, the summary and the receipt (mark_delivered).      *)
Deliver(d) ==
  LET j == deliverer[d].job
      record == Record(j, outbox[j].payload) IN
  /\ Phase(d) = "prepared" /\ Current(d)
  /\ history' = Append(history, record)
  /\ projection' = [sequence |-> deliverer[d].head + 1,
                    value |-> Append(deliverer[d].value, record)]
  /\ outbox' = [outbox EXCEPT ![j].record = Len(history) + 1]
  /\ Return(d, Len(history) + 1)
  /\ UNCHANGED <<job, reading>>

(* A refused delivery rolls back and may be prepared again; so may one     *)
(* whose process died before it.                                           *)
GiveUp(d) ==
  /\ Phase(d) \in {"reading", "prepared"}
  /\ deliverer' = [deliverer EXCEPT ![d] = None]
  /\ UNCHANGED <<job, outbox, history, projection, reading>>

-----------------------------------------------------------------------------
(* Readers of the history (read_sequence_page).                            *)

OpenHistory ==
  /\ reading = None
  /\ reading' = Opened(history)
  /\ UNCHANGED <<job, outbox, history, projection, deliverer>>

ReadHistory ==
  LET page == SequencePage(history, Len(reading.read), PageSize) IN
  /\ reading # None /\ ~reading.ended
  /\ reading' = [reading EXCEPT !.read = @ \o page.items, !.ended = page.next = 0]
  /\ UNCHANGED <<job, outbox, history, projection, deliverer>>

Next ==
  \/ \E j \in Job, o \in Outcome : Finish(j, o) \/ FinishTool(j, o)
  \/ \E d \in Deliverer : \/ \E j \in Job : ReadSummary(d, j)
                          \/ ReadRecords(d) \/ Deliver(d) \/ ReturnReceipt(d) \/ GiveUp(d)
  \/ Say \/ OpenHistory \/ ReadHistory

Spec == Init /\ [][Next]_vars

-----------------------------------------------------------------------------
Thread == INSTANCE Journal WITH
  Nothing <- None,
  outcome <- job,
  entries <- history,
  summary <- projection.value,
  told <- [d \in Deliverer |->
             IF Phase(d) = "answered" THEN <<deliverer[d].job, deliverer[d].record>> ELSE None]

(* However deliveries of the same and of different completions interleave  *)
(* with each other, with messages and with tool workers, every outcome is  *)
(* entered at most once, as it was saved, the summary is one of the whole  *)
(* history, and repeated deliveries are told of the original record        *)
(* (job_completions.deliver, completion_outbox.mark_delivered).            *)
ImplementsJournal == Thread!Spec

(* Pages of a history that grows join up to a prefix of it, which includes *)
(* what was there at the first page (pagination.read_sequence_page).       *)
PagesFollowTheHistory ==
  reading # None =>
    /\ IsPrefix(reading.read, history)
    /\ reading.ended => IsPrefix(reading.before, reading.read)

=============================================================================
