--------------------------- MODULE Delivery_proofs --------------------------
(***************************************************************************)
(* Proofs about Delivery for every number of jobs and deliverers, every    *)
(* bound on the history and every page size.                               *)
(***************************************************************************)
EXTENDS Delivery, Facts

-----------------------------------------------------------------------------
(* The inductive invariant.                                                *)
TypeOK ==
  /\ job \in [Job -> Outcome \cup {None}]
  /\ outbox \in [Job -> OutboxRow \cup {None}]
  /\ history \in Seq(HistoryRow)
  /\ deliverer \in [Deliverer -> DelivererRow \cup {None}]

(* The summary is of the whole history.                                    *)
SummaryIsWhole == projection = [sequence |-> Len(history), value |-> history]

(* A finished job has an outbox row with its outcome, and a receipt is the *)
(* position of a record of it.                                             *)
OutboxFollowsJobs ==
  \A j \in Job :
    IF job[j] = None THEN outbox[j] = None
    ELSE /\ outbox[j] # None /\ outbox[j].payload = job[j]
         /\ outbox[j].record # None =>
              /\ outbox[j].record \in DOMAIN history
              /\ history[outbox[j].record] = Record(j, job[j])

(* Every record of a job has its receipt, so it is the only one.           *)
RecordsHaveReceipts ==
  \A i \in DOMAIN history : history[i] # Message =>
    /\ outbox[history[i].job] # None
    /\ outbox[history[i].job].record = i

(* What a deliverer has read is still the beginning of the history, and    *)
(* what it was told is the receipt.                                        *)
DeliverersHaveRead ==
  \A d \in Deliverer : deliverer[d] # None =>
    LET row == deliverer[d] IN
    /\ outbox[row.job] # None
    /\ row.phase = "reading" =>
         row.sequence <= Len(history) /\ row.value = SubSeq(history, 1, row.sequence)
    /\ row.phase = "prepared" =>
         row.head <= Len(history) /\ row.value = SubSeq(history, 1, row.head)
    /\ row.phase = "answered" => row.record # None /\ row.record = outbox[row.job].record

IInv ==
  /\ SummaryIsWhole
  /\ OutboxFollowsJobs
  /\ RecordsHaveReceipts
  /\ DeliverersHaveRead

(* A reader has read a beginning of the history, and where it began is     *)
(* still one.                                                              *)
ReadingRow == [before : Seq(HistoryRow), read : Seq(HistoryRow), cursor : {NoCursor},
               ended : BOOLEAN]
ReadingInv ==
  reading # None =>
    /\ reading \in ReadingRow
    /\ IsPrefix(reading.read, history) /\ IsPrefix(reading.before, history)
    /\ reading.ended => IsPrefix(reading.before, reading.read)

-----------------------------------------------------------------------------
(* The rows that the actions write.                                        *)
LEMMA HistoryRows ==
  ASSUME TypeOK
  PROVE  /\ Len(history) \in Nat /\ DOMAIN history = 1 .. Len(history)
         /\ \A i \in DOMAIN history : history[i] \in HistoryRow
         /\ Message \in HistoryRow
         /\ \A j \in Job, o \in Outcome : Record(j, o) \in HistoryRow /\ Record(j, o) # Message
BY DeliveryAssumption DEF TypeOK, HistoryRow, Record

(* Deliverers and outbox rows that are there have their type. *)
LEMMA RowsThere ==
  ASSUME TypeOK
  PROVE  /\ \A d \in Deliverer : deliverer[d] # None => deliverer[d] \in DelivererRow
         /\ \A j \in Job : outbox[j] # None => outbox[j] \in OutboxRow
         /\ \A j \in Job : job[j] # None => job[j] \in Outcome
BY DEF TypeOK

(* A prepared call has a deliverer's row, and its job one in the outbox. *)
LEMMA PreparedRow ==
  ASSUME TypeOK, IInv, NEW d \in Deliverer, Phase(d) = "prepared"
  PROVE  /\ deliverer[d] \in DelivererRow /\ deliverer[d].job \in Job
         /\ deliverer[d].phase = "prepared"
         /\ outbox[deliverer[d].job] \in OutboxRow /\ outbox[deliverer[d].job] # None
         /\ job[deliverer[d].job] # None /\ job[deliverer[d].job] \in Outcome
         /\ outbox[deliverer[d].job].payload = job[deliverer[d].job]
<1>1. deliverer[d] # None /\ deliverer[d].phase = "prepared"
  BY DEF Phase
<1>2. deliverer[d] \in DelivererRow /\ deliverer[d].job \in Job
  BY <1>1, RowsThere DEF DelivererRow
<1>3. outbox[deliverer[d].job] # None
  BY <1>1 DEF IInv, DeliverersHaveRead
<1>4. job[deliverer[d].job] # None /\ outbox[deliverer[d].job].payload = job[deliverer[d].job]
  BY <1>2, <1>3 DEF IInv, OutboxFollowsJobs
<1>5. QED
  BY <1>1, <1>2, <1>3, <1>4, RowsThere

(* Every variable keeps its type. *)
LEMMA InitType == Init => TypeOK
BY DEF Init, TypeOK, HistoryRow

(* A step keeps every variable in its range.                               *)
LEMMA StepType ==
  ASSUME TypeOK, IInv, [Next]_vars
  PROVE  TypeOK'
<1> USE DEF TypeOK
<1>1. ASSUME NEW j \in Job, NEW o \in Outcome, Finish(j, o) PROVE TypeOK'
  BY <1>1 DEF Finish, OutboxRow
<1>2. ASSUME NEW j \in Job, NEW o \in Outcome, FinishTool(j, o) PROVE TypeOK'
  <2>1. Len(history) + 1 \in Nat /\ Record(j, o) \in HistoryRow
    BY HistoryRows
  <2>2. [payload |-> o, record |-> Len(history) + 1] \in OutboxRow
    BY <2>1 DEF OutboxRow
  <2>3. QED
    BY <1>2, <2>1, <2>2, AppendProperties DEF FinishTool
<1>3. ASSUME NEW d \in Deliverer, NEW j \in Job, ReadSummary(d, j) PROVE TypeOK'
  <2>1. projection.sequence \in Nat /\ projection.value \in Seq(HistoryRow)
    BY HistoryRows DEF IInv, SummaryIsWhole
  <2>2. QED
    BY <1>3, <2>1 DEF ReadSummary, DelivererRow
<1>4. ASSUME NEW d \in Deliverer, ReadRecords(d) PROVE TypeOK'
  <2> DEFINE row == deliverer[d]
             rest == SubSeq(history, row.sequence + 1, Len(history))
  <2>1. row \in DelivererRow
    BY <1>4, RowsThere DEF ReadRecords, Phase
  <2>2. row.sequence \in Nat /\ row.value \in Seq(HistoryRow)
    BY <2>1 DEF DelivererRow
  <2>3. rest \in Seq(HistoryRow)
    BY <2>2, HistoryRows, SubSeqProperties
  <2>4. row.value \o rest \in Seq(HistoryRow)
    BY <2>2, <2>3, ConcatProperties
  <2>5. deliverer' = [deliverer EXCEPT ![d] = [row EXCEPT !.phase = "prepared",
                        !.head = Len(history), !.value = row.value \o rest]]
    BY <1>4 DEF ReadRecords
  <2>6. [row EXCEPT !.phase = "prepared", !.head = Len(history), !.value = row.value \o rest]
          \in DelivererRow
    BY <2>1, <2>4, HistoryRows DEF DelivererRow
  <2>7. QED
    BY <1>4, <2>5, <2>6 DEF ReadRecords
<1>5. ASSUME NEW d \in Deliverer, NEW record \in Nat, Phase(d) = "prepared", Return(d, record)
      PROVE deliverer' \in [Deliverer -> DelivererRow \cup {None}]
  <2>1. deliverer' = [deliverer EXCEPT ![d] = [deliverer[d] EXCEPT !.phase = "answered",
                                                                  !.record = record]]
    BY <1>5 DEF Return
  <2>2. [deliverer[d] EXCEPT !.phase = "answered", !.record = record] \in DelivererRow
    <3>1. deliverer[d] \in DelivererRow
      BY <1>5, PreparedRow
    <3>2. QED
      BY <3>1 DEF DelivererRow
  <2>3. QED
    BY <2>1, <2>2
<1>6. ASSUME NEW d \in Deliverer, Deliver(d) PROVE TypeOK'
  <2> DEFINE j == deliverer[d].job
  <2>1. Phase(d) = "prepared" /\ Return(d, Len(history) + 1) /\ Len(history) + 1 \in Nat
    BY <1>6, HistoryRows DEF Deliver
  <2>2. j \in Job /\ outbox[j] \in OutboxRow /\ outbox[j].payload \in Outcome
    BY <2>1, PreparedRow DEF OutboxRow
  <2>3. history' \in Seq(HistoryRow)
    BY <1>6, <2>2, HistoryRows, AppendProperties DEF Deliver
  <2>4. outbox' \in [Job -> OutboxRow \cup {None}]
    BY <1>6, <2>1, <2>2 DEF Deliver, OutboxRow
  <2>5. QED
    BY <1>5, <1>6, <2>1, <2>3, <2>4 DEF Deliver
<1>7. ASSUME NEW d \in Deliverer, ReturnReceipt(d) PROVE TypeOK'
  <2>1. Phase(d) = "prepared" /\ outbox[deliverer[d].job].record \in Nat
    BY <1>7, PreparedRow DEF ReturnReceipt, Delivered, OutboxRow
  <2>2. QED
    BY <1>5, <1>7, <2>1 DEF ReturnReceipt
<1>8. ASSUME NEW d \in Deliverer, GiveUp(d) PROVE TypeOK'
  BY <1>8 DEF GiveUp
<1>9. CASE Say
  BY <1>9, HistoryRows, AppendProperties DEF Say
<1>10. CASE OpenHistory \/ ReadHistory \/ UNCHANGED vars
  BY <1>10 DEF OpenHistory, ReadHistory, vars
<1>11. QED
  BY <1>1, <1>2, <1>3, <1>4, <1>6, <1>7, <1>8, <1>9, <1>10 DEF Next

-----------------------------------------------------------------------------
(* Nothing has been written and nobody has read: the invariant holds.      *)
LEMMA InitIInv == Init => IInv
BY DEF Init, IInv, SummaryIsWhole, OutboxFollowsJobs, RecordsHaveReceipts, DeliverersHaveRead

(* What deliverers have read stays the beginning of a history that grows   *)
(* by a row, and receipts are only added.                                  *)
LEMMA ReadStaysRead ==
  ASSUME TypeOK, IInv, NEW e \in HistoryRow, history' = Append(history, e),
         \A j \in Job : outbox[j] # None =>
           /\ outbox'[j] # None
           /\ outbox[j].record # None => outbox'[j].record = outbox[j].record,
         NEW d \in Deliverer, deliverer[d] # None, deliverer'[d] = deliverer[d]
  PROVE  LET row == deliverer'[d] IN
         /\ outbox'[row.job] # None
         /\ row.phase = "reading" =>
              row.sequence <= Len(history') /\ row.value = SubSeq(history', 1, row.sequence)
         /\ row.phase = "prepared" =>
              row.head <= Len(history') /\ row.value = SubSeq(history', 1, row.head)
         /\ row.phase = "answered" => row.record # None /\ row.record = outbox'[row.job].record
<1> DEFINE row == deliverer[d]
<1>1. /\ row.job \in Job /\ row.sequence \in Nat /\ row.head \in Nat
      /\ history \in Seq(HistoryRow) /\ Len(history) \in Nat /\ Len(history') = Len(history) + 1
  BY RowsThere, HistoryRows, AppendProperties DEF DelivererRow, TypeOK
<1>2. \A n \in 0 .. Len(history) : SubSeq(history', 1, n) = SubSeq(history, 1, n)
  BY <1>1, SubSeqOfAppend
<1>3. /\ outbox[row.job] # None
      /\ row.phase = "reading" =>
           row.sequence <= Len(history) /\ row.value = SubSeq(history, 1, row.sequence)
      /\ row.phase = "prepared" =>
           row.head <= Len(history) /\ row.value = SubSeq(history, 1, row.head)
      /\ row.phase = "answered" => row.record # None /\ row.record = outbox[row.job].record
  BY DEF IInv, DeliverersHaveRead
<1>4. /\ row.phase = "reading" => row.sequence \in 0 .. Len(history)
      /\ row.phase = "prepared" => row.head \in 0 .. Len(history)
  BY <1>1, <1>3
<1>5. QED
  BY <1>1, <1>2, <1>3, <1>4

(* Entering the outcome of a job, with its receipt, keeps the outbox and   *)
(* the records in agreement.                                               *)
LEMMA EntryHasReceipt ==
  ASSUME TypeOK, IInv, NEW j \in Job, NEW o \in Outcome,
         outbox[j] = None \/ outbox[j].record = None, job'[j] = o,
         \A k \in Job \ {j} : job'[k] = job[k] /\ outbox'[k] = outbox[k],
         outbox'[j] = [payload |-> o, record |-> Len(history) + 1],
         history' = Append(history, Record(j, o))
  PROVE  OutboxFollowsJobs' /\ RecordsHaveReceipts'
<1> DEFINE n == Len(history) + 1
<1>1. /\ n \in Nat /\ DOMAIN history = 1 .. Len(history) /\ Len(history) \in Nat
      /\ Record(j, o) \in HistoryRow /\ Record(j, o) # Message
  BY HistoryRows
<1>2. /\ DOMAIN history' = DOMAIN history \cup {n} /\ history'[n] = Record(j, o)
      /\ \A i \in DOMAIN history : history'[i] = history[i]
  BY <1>1, AppendProperties DEF TypeOK
<1>3. outbox'[j] # None /\ outbox'[j].payload = o /\ outbox'[j].record = n
  BY <1>1, NoRowAssumption DEF OutboxRow
<1>4. OutboxFollowsJobs'
  <2>1. ASSUME NEW k \in Job \ {j}
        PROVE IF job'[k] = None THEN outbox'[k] = None
              ELSE /\ outbox'[k] # None /\ outbox'[k].payload = job'[k]
                   /\ outbox'[k].record # None =>
                        /\ outbox'[k].record \in DOMAIN history'
                        /\ history'[outbox'[k].record] = Record(k, job'[k])
    BY <1>2 DEF IInv, OutboxFollowsJobs
  <2>2. /\ job'[j] # None
        /\ outbox'[j].record \in DOMAIN history' /\ history'[outbox'[j].record] = Record(j, job'[j])
    BY <1>2, <1>3, DeliveryAssumption
  <2>3. QED
    BY <1>3, <2>1, <2>2 DEF OutboxFollowsJobs
<1>5. RecordsHaveReceipts'
  <2>1. ASSUME NEW i \in DOMAIN history, history[i] # Message
        PROVE outbox'[history[i].job] # None /\ outbox'[history[i].job].record = i
    <3>1. i # None /\ history[i].job \in Job
      BY <1>1, <2>1, HistoryRows, DeliveryAssumption DEF HistoryRow
    <3>2. outbox[history[i].job] # None /\ outbox[history[i].job].record = i
      BY <2>1 DEF IInv, RecordsHaveReceipts
    <3>3. history[i].job # j
      BY <3>1, <3>2
    <3>4. QED
      BY <3>1, <3>2, <3>3
  <2>2. history'[n].job = j
    BY <1>2 DEF Record
  <2>3. QED
    BY <1>2, <1>3, <2>1, <2>2 DEF RecordsHaveReceipts
<1>6. QED
  BY <1>4, <1>5

(* Every step keeps the invariant. *)
LEMMA StepIInv ==
  ASSUME TypeOK, IInv, [Next]_vars
  PROVE  IInv'
<1> USE DEF TypeOK
<1>1. ASSUME NEW j \in Job, NEW o \in Outcome, Finish(j, o) PROVE IInv'
  <2>1. /\ outbox[j] = None /\ [payload |-> o, record |-> None] \in OutboxRow
        /\ outbox'[j] = [payload |-> o, record |-> None] /\ job'[j] = o
        /\ \A k \in Job \ {j} : job'[k] = job[k] /\ outbox'[k] = outbox[k]
        /\ UNCHANGED <<history, projection, deliverer>>
    BY <1>1 DEF Finish, OutboxRow, IInv, OutboxFollowsJobs
  <2>2. outbox'[j] # None /\ o # None
    BY <2>1, NoRowAssumption, DeliveryAssumption
  <2>3. OutboxFollowsJobs'
    BY <2>1, <2>2 DEF IInv, OutboxFollowsJobs
  <2>4. RecordsHaveReceipts'
    <3>1. \A i \in DOMAIN history : history[i] # Message => history[i].job \in Job
      BY HistoryRows DEF HistoryRow
    <3>2. QED
      BY <2>1, <2>2, <3>1 DEF IInv, RecordsHaveReceipts
  <2>5. DeliverersHaveRead'
    <3>1. \A d \in Deliverer : deliverer[d] # None => deliverer[d].job \in Job \ {j}
      BY <2>1, RowsThere DEF IInv, DeliverersHaveRead, DelivererRow
    <3>2. QED
      BY <2>1, <3>1 DEF IInv, DeliverersHaveRead
  <2>6. QED
    BY <2>1, <2>3, <2>4, <2>5 DEF IInv, SummaryIsWhole
<1>2. ASSUME NEW j \in Job, NEW o \in Outcome, FinishTool(j, o) PROVE IInv'
  <2>1. /\ outbox[j] = None /\ Record(j, o) \in HistoryRow
        /\ outbox'[j] = [payload |-> o, record |-> Len(history) + 1] /\ job'[j] = o
        /\ \A k \in Job \ {j} : job'[k] = job[k] /\ outbox'[k] = outbox[k]
        /\ history' = Append(history, Record(j, o)) /\ UNCHANGED deliverer
    BY <1>2, HistoryRows DEF FinishTool, IInv, OutboxFollowsJobs
  <2>2. SummaryIsWhole'
    BY <1>2, <2>1, AppendProperties DEF FinishTool, IInv, SummaryIsWhole
  <2>3. OutboxFollowsJobs' /\ RecordsHaveReceipts'
    BY <2>1, EntryHasReceipt
  <2>4. DeliverersHaveRead'
    <3>1. \A k \in Job : outbox[k] # None => outbox'[k] = outbox[k]
      BY <2>1
    <3>2. QED
      BY <2>1, <3>1, ReadStaysRead DEF DeliverersHaveRead
  <2>5. QED
    BY <2>2, <2>3, <2>4 DEF IInv
<1>3. ASSUME NEW d \in Deliverer, NEW j \in Job, ReadSummary(d, j) PROVE IInv'
  <2> DEFINE row == [phase |-> "reading", job |-> j, sequence |-> projection.sequence,
                     head |-> 0, value |-> projection.value, record |-> None]
  <2>1. deliverer' = [deliverer EXCEPT ![d] = row] /\ UNCHANGED <<job, outbox, history, projection>>
    BY <1>3 DEF ReadSummary
  <2>2. row.sequence = Len(history) /\ row.value = SubSeq(history, 1, Len(history))
    BY SubSeqFull DEF IInv, SummaryIsWhole
  <2>3. DeliverersHaveRead'
    BY <1>3, <2>1, <2>2, HistoryRows DEF ReadSummary, IInv, DeliverersHaveRead
  <2>4. QED
    BY <2>1, <2>3 DEF IInv, SummaryIsWhole, OutboxFollowsJobs, RecordsHaveReceipts
<1>4. ASSUME NEW d \in Deliverer, ReadRecords(d) PROVE IInv'
  <2> DEFINE row == deliverer[d]
             rest == SubSeq(history, row.sequence + 1, Len(history))
             next == [row EXCEPT !.phase = "prepared", !.head = Len(history),
                                 !.value = row.value \o rest]
  <2>1. /\ row # None /\ row \in DelivererRow /\ row.phase = "reading"
        /\ deliverer' = [deliverer EXCEPT ![d] = next]
        /\ UNCHANGED <<job, outbox, history, projection>>
    BY <1>4 DEF ReadRecords, Phase
  <2>2. /\ row.sequence <= Len(history) /\ row.value = SubSeq(history, 1, row.sequence)
        /\ outbox[row.job] # None
    BY <2>1 DEF IInv, DeliverersHaveRead
  <2>3. row.sequence \in 0 .. Len(history) /\ Len(history) \in row.sequence .. Len(history)
    BY <2>1, <2>2, HistoryRows DEF DelivererRow
  <2>4. row.value \o rest = SubSeq(history, 1, Len(history))
    BY <2>2, <2>3, PrefixCompleted
  <2>5. /\ next.phase = "prepared" /\ next.head = Len(history) /\ next.job = row.job
        /\ next.value = SubSeq(history, 1, Len(history))
    BY <2>1, <2>4 DEF DelivererRow
  <2>6. DeliverersHaveRead'
    <3>1. Len(history) <= Len(history)
      BY HistoryRows
    <3>2. deliverer'[d] = next /\ \A e \in Deliverer \ {d} : deliverer'[e] = deliverer[e]
      BY <2>1
    <3> HIDE DEF next
    <3>3. QED
      BY <2>1, <2>2, <2>5, <3>1, <3>2 DEF IInv, DeliverersHaveRead
  <2>7. QED
    BY <2>1, <2>6 DEF IInv, SummaryIsWhole, OutboxFollowsJobs, RecordsHaveReceipts
<1>5. ASSUME NEW d \in Deliverer, Deliver(d) PROVE IInv'
  <2> DEFINE row == deliverer[d]
             j == row.job
             o == outbox[j].payload
             next == [row EXCEPT !.phase = "answered", !.record = Len(history) + 1]
  <2>1. /\ row \in DelivererRow /\ row # None /\ row.phase = "prepared" /\ j \in Job
        /\ outbox[j] \in OutboxRow /\ outbox[j] # None /\ job[j] = o /\ o \in Outcome
    BY <1>5, PreparedRow DEF Deliver, OutboxRow, Phase
  <2>2. /\ outbox[j].record = None /\ row.head = Len(history)
        /\ history' = Append(history, Record(j, o)) /\ UNCHANGED job
        /\ projection' = [sequence |-> row.head + 1, value |-> Append(row.value, Record(j, o))]
        /\ outbox' = [outbox EXCEPT ![j].record = Len(history) + 1]
        /\ deliverer' = [deliverer EXCEPT ![d] = next]
    BY <1>5 DEF Deliver, Current, Delivered, Return
  <2>3. /\ outbox'[j] = [payload |-> o, record |-> Len(history) + 1]
        /\ outbox'[j] \in OutboxRow
        /\ \A k \in Job \ {j} : outbox'[k] = outbox[k]
    <3>1. outbox'[j] = [outbox[j] EXCEPT !.record = Len(history) + 1]
      BY <2>1, <2>2
    <3>2. outbox'[j] = [payload |-> o, record |-> Len(history) + 1]
      BY <2>1, <3>1 DEF OutboxRow
    <3>3. [payload |-> o, record |-> Len(history) + 1] \in OutboxRow
      BY <2>1, HistoryRows DEF OutboxRow
    <3>4. QED
      BY <2>2, <3>2, <3>3
  <2>4. SummaryIsWhole'
    <3>1. row.value = history
      <4>1. row.value = SubSeq(history, 1, row.head)
        BY <2>1 DEF IInv, DeliverersHaveRead
      <4>2. QED
        BY <2>2, <4>1, SubSeqFull
    <3>2. Len(history') = Len(history) + 1
      BY <2>1, <2>2, HistoryRows, AppendProperties
    <3>3. QED
      BY <2>2, <3>1, <3>2 DEF SummaryIsWhole
  <2>5. OutboxFollowsJobs' /\ RecordsHaveReceipts'
    BY <2>1, <2>2, <2>3, EntryHasReceipt
  <2>6. ASSUME NEW k \in Job, outbox[k] # None
        PROVE /\ outbox'[k] # None
              /\ outbox[k].record # None => outbox'[k].record = outbox[k].record
    BY <2>2, <2>3, <2>6, NoRowAssumption
  <2>7. /\ next.phase = "answered" /\ next.record = Len(history) + 1 /\ next.job = j
        /\ Len(history) + 1 # None
    BY <2>1, HistoryRows, DeliveryAssumption DEF DelivererRow
  <2>8. DeliverersHaveRead'
    <3>1. ASSUME NEW e \in Deliverer \ {d}, deliverer[e] # None
          PROVE LET r == deliverer'[e] IN
                /\ outbox'[r.job] # None
                /\ r.phase = "reading" =>
                     r.sequence <= Len(history') /\ r.value = SubSeq(history', 1, r.sequence)
                /\ r.phase = "prepared" =>
                     r.head <= Len(history') /\ r.value = SubSeq(history', 1, r.head)
                /\ r.phase = "answered" => r.record # None /\ r.record = outbox'[r.job].record
      BY <2>1, <2>2, <2>6, <3>1, HistoryRows, ReadStaysRead
    <3>2. deliverer'[d] = next /\ \A e \in Deliverer \ {d} : deliverer'[e] = deliverer[e]
      BY <2>2
    <3>3. outbox'[j] # None /\ outbox'[j].record = Len(history) + 1
      BY <2>3, NoRowAssumption
    <3> HIDE DEF next
    <3>4. QED
      BY <2>7, <3>1, <3>2, <3>3 DEF DeliverersHaveRead
  <2>9. QED
    BY <2>4, <2>5, <2>8 DEF IInv
<1>6. ASSUME NEW d \in Deliverer, ReturnReceipt(d) PROVE IInv'
  <2> DEFINE row == deliverer[d]
             next == [row EXCEPT !.phase = "answered", !.record = outbox[row.job].record]
  <2>1. /\ row \in DelivererRow /\ row # None /\ outbox[row.job] # None
        /\ outbox[row.job].record # None
        /\ deliverer' = [deliverer EXCEPT ![d] = next]
        /\ UNCHANGED <<job, outbox, history, projection>>
    BY <1>6, PreparedRow DEF ReturnReceipt, Delivered, Return, Phase
  <2>2. next.phase = "answered" /\ next.record = outbox[row.job].record /\ next.job = row.job
    BY <2>1 DEF DelivererRow
  <2>3. DeliverersHaveRead'
    BY <2>1, <2>2 DEF IInv, DeliverersHaveRead
  <2>4. QED
    BY <2>1, <2>3 DEF IInv, SummaryIsWhole, OutboxFollowsJobs, RecordsHaveReceipts
<1>7. ASSUME NEW d \in Deliverer, GiveUp(d) PROVE IInv'
  BY <1>7 DEF GiveUp, IInv, SummaryIsWhole, OutboxFollowsJobs, RecordsHaveReceipts,
              DeliverersHaveRead
<1>8. CASE Say
  <2>1. /\ Message \in HistoryRow /\ history' = Append(history, Message)
        /\ UNCHANGED <<job, outbox, deliverer>>
    BY <1>8, HistoryRows DEF Say
  <2>2. /\ DOMAIN history' = DOMAIN history \cup {Len(history) + 1}
        /\ Len(history') = Len(history) + 1 /\ history'[Len(history) + 1] = Message
        /\ \A i \in DOMAIN history : history'[i] = history[i]
    BY <2>1, HistoryRows, AppendProperties
  <2>3. SummaryIsWhole'
    BY <1>8, <2>2 DEF Say, IInv, SummaryIsWhole
  <2>4. OutboxFollowsJobs'
    BY <2>1, <2>2 DEF IInv, OutboxFollowsJobs
  <2>5. RecordsHaveReceipts'
    BY <2>1, <2>2 DEF IInv, RecordsHaveReceipts
  <2>6. DeliverersHaveRead'
    BY <2>1, ReadStaysRead DEF DeliverersHaveRead
  <2>7. QED
    BY <2>3, <2>4, <2>5, <2>6 DEF IInv
<1>9. CASE OpenHistory \/ ReadHistory \/ UNCHANGED vars
  BY <1>9 DEF OpenHistory, ReadHistory, vars, IInv, SummaryIsWhole, OutboxFollowsJobs,
              RecordsHaveReceipts, DeliverersHaveRead
<1>10. QED
  BY <1>1, <1>2, <1>3, <1>4, <1>5, <1>6, <1>7, <1>8, <1>9 DEF Next

-----------------------------------------------------------------------------
(* The refinement of Journal.                                              *)
Told == [d \in Deliverer |->
           IF Phase(d) = "answered" THEN <<deliverer[d].job, deliverer[d].record>> ELSE None]

(* The deliveries start from an empty journal.                             *)
LEMMA InitJournal == Init => Thread!Init
BY DEF Init, Thread!Init, Phase

(* A step that changes neither outcomes nor history nor answers.           *)
LEMMA Unseen ==
  ASSUME UNCHANGED <<job, history, projection>>,
         \A d \in Deliverer : Told'[d] = Told[d]
  PROVE  UNCHANGED Thread!vars
<1>1. Told' = Told
  BY DEF Told
<1>2. QED
  BY <1>1 DEF Thread!vars, Told

(* Answering a deliverer. *)
LEMMA ToldAnswer ==
  ASSUME TypeOK, IInv, NEW d \in Deliverer, Phase(d) = "prepared",
         NEW record \in Nat, Return(d, record)
  PROVE  Told[d] = None /\ Told' = [Told EXCEPT ![d] = <<deliverer[d].job, record>>]
<1> DEFINE next == [deliverer[d] EXCEPT !.phase = "answered", !.record = record]
<1>1. deliverer[d] \in DelivererRow /\ deliverer[d] # None
  BY PreparedRow DEF Phase
<1>2. deliverer' = [deliverer EXCEPT ![d] = next]
  BY DEF Return
<1>3. next.phase = "answered" /\ next.job = deliverer[d].job /\ next.record = record
  BY <1>1 DEF DelivererRow
<1>4. next # None
  BY <1>1, NoRowAssumption DEF DelivererRow
<1>5. Told[d] = None
  BY DEF Told
<1>6. deliverer'[d] = next /\ \A e \in Deliverer \ {d} : deliverer'[e] = deliverer[e]
  BY <1>2 DEF TypeOK
<1> HIDE DEF next
<1>7. Told'[d] = <<deliverer[d].job, record>>
  BY <1>3, <1>4, <1>6 DEF Told, Phase
<1>8. \A e \in Deliverer \ {d} : Told'[e] = Told[e]
  BY <1>6 DEF Told, Phase
<1>9. QED
  BY <1>5, <1>7, <1>8 DEF Told

(* Every step is a step of the journal or leaves it alone.                 *)
LEMMA StepJournal ==
  ASSUME TypeOK, IInv, TypeOK', [Next]_vars
  PROVE  [Thread!Next]_Thread!vars
<1> USE DEF TypeOK
<1>1. ASSUME NEW j \in Job, NEW o \in Outcome, Finish(j, o) PROVE Thread!Next
  <2>1. Thread!Finish(j)
    BY <1>1 DEF Finish, Thread!Finish, Thread!KeepHistory, Phase
  <2>2. QED
    BY <2>1 DEF Thread!Next
<1>2. ASSUME NEW j \in Job, NEW o \in Outcome, FinishTool(j, o) PROVE Thread!Next
  <2>1. /\ job[j] = None /\ job' = [job EXCEPT ![j] = o] /\ job'[j] = o
        /\ history' = Append(history, Record(j, o)) /\ projection'.value = history'
        /\ UNCHANGED deliverer
    BY <1>2 DEF FinishTool, IInv, SummaryIsWhole
  <2>2. Thread!Enter(Thread!Entry(j))
    BY <2>1 DEF Thread!Enter, Thread!Entry, Record
  <2>3. Thread!Finish(j)
    BY <2>1, <2>2 DEF Thread!Finish, Phase
  <2>4. QED
    BY <2>3 DEF Thread!Next
<1>3. ASSUME NEW d \in Deliverer, NEW j \in Job, ReadSummary(d, j)
      PROVE UNCHANGED Thread!vars
  <2>1. Phase(d) # "answered" /\ Phase(d)' # "answered"
    BY <1>3 DEF ReadSummary, Phase
  <2>2. \A e \in Deliverer \ {d} : deliverer'[e] = deliverer[e]
    BY <1>3 DEF ReadSummary
  <2>3. \A e \in Deliverer : Told'[e] = Told[e]
    BY <2>1, <2>2 DEF Told, Phase
  <2>4. QED
    BY <1>3, <2>3, Unseen DEF ReadSummary
<1>4. ASSUME NEW d \in Deliverer, ReadRecords(d) \/ GiveUp(d) PROVE UNCHANGED Thread!vars
  <2>1. Phase(d) # "answered" /\ Phase(d)' # "answered"
    BY <1>4, RowsThere DEF ReadRecords, GiveUp, Phase, DelivererRow
  <2>2. \A e \in Deliverer \ {d} : deliverer'[e] = deliverer[e]
    BY <1>4 DEF ReadRecords, GiveUp
  <2>3. \A e \in Deliverer : Told'[e] = Told[e]
    BY <2>1, <2>2 DEF Told, Phase
  <2>4. QED
    BY <1>4, <2>3, Unseen DEF ReadRecords, GiveUp
<1>5. ASSUME NEW d \in Deliverer, Deliver(d) PROVE Thread!Next
  <2> DEFINE row == deliverer[d]
             n == Len(history) + 1
  <2> PICK j \in Job : j = row.job
    BY <1>5, PreparedRow DEF Deliver
  <2>1. /\ Phase(d) = "prepared" /\ row # None /\ row.phase = "prepared"
        /\ j \in Job /\ outbox[j].payload = job[j] /\ outbox[j] # None /\ job[j] # None
        /\ job[j] \in Outcome
    BY <1>5, PreparedRow DEF Deliver, Phase
  <2>2. /\ outbox[j].record = None /\ row.head = Len(history) /\ UNCHANGED job
        /\ history' = Append(history, Record(j, job[j]))
        /\ projection'.value = Append(row.value, Record(j, job[j]))
        /\ Return(d, n)
    BY <1>5, <2>1 DEF Deliver, Current, Delivered
  <2>3. row.value = history
    <3>1. row.value = SubSeq(history, 1, row.head)
      BY <2>1 DEF IInv, DeliverersHaveRead
    <3>2. QED
      BY <2>2, <3>1, SubSeqFull
  <2>4. ~Thread!Entered(j)
    <3>1. ASSUME NEW i \in DOMAIN history, history[i] # Message, history[i].job = j PROVE FALSE
      BY <2>2, <3>1, HistoryRows, DeliveryAssumption DEF IInv, RecordsHaveReceipts
    <3>2. QED
      BY <3>1 DEF Thread!Entered
  <2>5. Thread!Enter(Thread!Entry(j)) /\ Thread!Entry(j) = Record(j, job[j])
    BY <2>2, <2>3 DEF Thread!Enter, Thread!Entry, Record
  <2>6. n \in 1 .. Len(history') /\ history'[n] = Record(j, job[j])
    BY <2>1, <2>2, HistoryRows, AppendProperties
  <2>7. Told[d] = None /\ Told' = [Told EXCEPT ![d] = <<j, n>>]
    BY <2>1, <2>2, HistoryRows, ToldAnswer
  <2>8. Thread!Deliver(d, j)
    BY ZenonT(60), <2>1, <2>2, <2>4, <2>5, <2>6, <2>7 DEF Thread!Deliver, Told
  <2>9. QED
    BY <2>1, <2>8 DEF Thread!Next
<1>6. ASSUME NEW d \in Deliverer, ReturnReceipt(d) PROVE Thread!Next
  <2> DEFINE row == deliverer[d]
             n == outbox[row.job].record
  <2> PICK j \in Job : j = row.job
    BY <1>6, PreparedRow DEF ReturnReceipt
  <2>1. /\ Phase(d) = "prepared" /\ j \in Job /\ outbox[j] # None /\ job[j] # None
    BY <1>6, PreparedRow DEF ReturnReceipt
  <2>2. n # None /\ Return(d, n) /\ UNCHANGED <<job, history, projection>>
    BY <1>6 DEF ReturnReceipt, Delivered
  <2>3. n \in DOMAIN history /\ history[n] = Record(j, job[j])
    BY <2>1, <2>2 DEF IInv, OutboxFollowsJobs
  <2>4. Record(j, job[j]) # Message /\ Record(j, job[j]).job = j
    BY <2>1, HistoryRows, RowsThere DEF Record
  <2>5. Thread!Entered(j) /\ Thread!KeepHistory /\ Thread!Entry(j) = Record(j, job[j])
    BY <2>2, <2>3, <2>4 DEF Thread!Entered, Thread!KeepHistory, Thread!Entry, Record
  <2>6. n \in 1 .. Len(history') /\ history'[n] = Record(j, job[j])
    BY <2>2, <2>3, HistoryRows
  <2>7. Told[d] = None /\ Told' = [Told EXCEPT ![d] = <<j, n>>]
    BY <2>1, <2>2, <2>3, HistoryRows, ToldAnswer
  <2>8. Thread!Deliver(d, j)
    BY <2>1, <2>2, <2>5, <2>6, <2>7 DEF Thread!Deliver, Told
  <2>9. QED
    BY <2>1, <2>8 DEF Thread!Next
<1>7. CASE Say
  <2>1. Thread!Say
    BY <1>7 DEF Say, Thread!Say, Thread!Enter, IInv, SummaryIsWhole, Phase
  <2>2. QED
    BY <2>1 DEF Thread!Next
<1>8. CASE OpenHistory \/ ReadHistory \/ UNCHANGED vars
  <2>1. UNCHANGED <<job, history, projection, deliverer>>
    BY <1>8 DEF OpenHistory, ReadHistory, vars
  <2>2. QED
    BY <2>1, Unseen DEF Told, Phase
<1>9. QED
  BY <1>1, <1>2, <1>3, <1>4, <1>5, <1>6, <1>7, <1>8 DEF Next

(* However deliveries, messages and tool workers interleave, every outcome *)
(* is entered at most once, as it was saved, the summary is one of the     *)
(* whole history, and repeated deliveries are told of the original record. *)
THEOREM DeliveryImplementsJournal == Spec => ImplementsJournal
BY InitType, StepType, InitIInv, StepIInv, InitJournal, StepJournal, PTL
   DEF Spec, ImplementsJournal, Thread!Spec

-----------------------------------------------------------------------------
(* One page continues where the reader stopped.                            *)
LEMMA PageContinues ==
  ASSUME NEW read \in Seq(HistoryRow), NEW past \in Seq(HistoryRow), IsPrefix(read, past)
  PROVE  LET page == SequencePage(past, Len(read), PageSize)
             next == read \o page.items IN
         /\ next \in Seq(HistoryRow) /\ IsPrefix(next, past)
         /\ page.next = 0 => next = past
<1> DEFINE n == Len(read)
           last == IF n + PageSize <= Len(past) THEN n + PageSize ELSE Len(past)
           page == SequencePage(past, n, PageSize)
<1>1. n \in Nat /\ Len(past) \in Nat /\ n <= Len(past) /\ PageSize \in Nat /\ PageSize # 0
  BY DeliveryAssumption DEF IsPrefix
<1>2. n \in 0 .. Len(past) /\ last \in n .. Len(past) /\ last \in 0 .. Len(past)
  BY <1>1
<1>3. Min({n + PageSize, Len(past)}) = last
  BY <1>1, MinOfTwo
<1>4. /\ page.items = SubSeq(past, n + 1, last)
      /\ page.next = IF Len(past) > n + PageSize THEN last ELSE 0
  BY <1>3 DEF SequencePage
<1>5. read = SubSeq(past, 1, n)
  BY SubSeqFull DEF IsPrefix
<1>6. read \o page.items = SubSeq(past, 1, last)
  BY <1>2, <1>4, <1>5, PrefixCompleted
<1>7. SubSeq(past, 1, last) \in Seq(HistoryRow) /\ IsPrefix(SubSeq(past, 1, last), past)
  BY <1>2, PrefixSubSeq
<1>8. ASSUME page.next = 0 PROVE SubSeq(past, 1, last) = past
  <2>1. last = Len(past)
    BY <1>1, <1>4, <1>8
  <2>2. QED
    BY <2>1, SubSeqFull
<1>9. QED
  BY <1>6, <1>7, <1>8

(* The history only grows. *)
LEMMA HistoryGrows ==
  ASSUME TypeOK, IInv, [Next]_vars
  PROVE  UNCHANGED history \/ \E e \in HistoryRow : history' = Append(history, e)
<1>1. ASSUME NEW j \in Job, NEW o \in Outcome, FinishTool(j, o)
      PROVE \E e \in HistoryRow : history' = Append(history, e)
  BY <1>1, HistoryRows DEF FinishTool
<1>2. ASSUME NEW d \in Deliverer, Deliver(d)
      PROVE \E e \in HistoryRow : history' = Append(history, e)
  <2>1. Record(deliverer[d].job, outbox[deliverer[d].job].payload) \in HistoryRow
    BY <1>2, PreparedRow, HistoryRows DEF Deliver
  <2>2. QED
    BY <1>2, <2>1 DEF Deliver
<1>3. CASE Say
  BY <1>3, HistoryRows DEF Say
<1>4. QED
  BY <1>1, <1>2, <1>3 DEF Next, vars, Finish, ReadSummary, ReadRecords, ReturnReceipt, GiveUp,
                          OpenHistory, ReadHistory

(* A step keeps what a reader has been given a part of the history.        *)
LEMMA StepReading ==
  ASSUME TypeOK, IInv, TypeOK', ReadingInv, [Next]_vars
  PROVE  ReadingInv'
<1>1. history \in Seq(HistoryRow) /\ history' \in Seq(HistoryRow)
  BY DEF TypeOK
<1>2. CASE OpenHistory
  <2>1. reading' = Opened(history) /\ UNCHANGED history
    BY <1>2 DEF OpenHistory
  <2>2. reading'.before = history /\ reading'.read = <<>> /\ ~reading'.ended
    BY <2>1 DEF Opened
  <2>3. <<>> \in Seq(HistoryRow) /\ IsPrefix(<<>>, history) /\ IsPrefix(history, history)
    <3>1. <<>> \in Seq(HistoryRow) /\ Len(<<>>) = 0
      BY EmptySeq
    <3>2. SubSeq(<<>>, 1, 0) = <<>> /\ SubSeq(history, 1, 0) = <<>> /\ 0 <= Len(history)
      BY <1>1, SubSeqEmpty
    <3>3. IsPrefix(<<>>, history)
      BY <3>1, <3>2 DEF IsPrefix
    <3>4. IsPrefix(history, history)
      BY <1>1, PrefixReflexive
    <3>5. QED
      BY <3>1, <3>3, <3>4
  <2>4. QED
    BY <1>1, <2>1, <2>2, <2>3 DEF ReadingInv, ReadingRow, Opened
<1>3. CASE ReadHistory
  <2> DEFINE page == SequencePage(history, Len(reading.read), PageSize)
             next == reading.read \o page.items
  <2>1. /\ reading # None /\ UNCHANGED history
        /\ reading' = [reading EXCEPT !.read = next, !.ended = page.next = 0]
    BY <1>3 DEF ReadHistory
  <2>2. /\ next \in Seq(HistoryRow) /\ IsPrefix(next, history)
        /\ page.next = 0 => next = history
    BY <1>1, <2>1, PageContinues DEF ReadingInv, ReadingRow
  <2>3. reading \in ReadingRow /\ IsPrefix(reading.before, history)
    BY <2>1 DEF ReadingInv
  <2>4. /\ reading' \in ReadingRow /\ reading'.read = next /\ reading'.before = reading.before
        /\ reading'.ended <=> page.next = 0
    BY <2>1, <2>2, <2>3 DEF ReadingRow
  <2>5. QED
    BY <2>1, <2>2, <2>3, <2>4 DEF ReadingInv
<1>4. CASE UNCHANGED reading
  <2>1. ASSUME NEW s \in Seq(HistoryRow), IsPrefix(s, history) PROVE IsPrefix(s, history')
    BY <1>1, <2>1, HistoryGrows, PrefixOfAppend
  <2>2. QED
    BY <1>4, <2>1 DEF ReadingInv, ReadingRow
<1>5. QED
  BY <1>2, <1>3, <1>4 DEF Next, vars, Finish, FinishTool, ReadSummary, ReadRecords, ReturnReceipt,
                          Deliver, GiveUp, Say

(* Pages of the growing history join up to a prefix of it, which in the    *)
(* end includes what was there at the first page.                          *)
THEOREM PagesFollow == Spec => []PagesFollowTheHistory
<1>1. Init => ReadingInv
  BY DEF Init, ReadingInv
<1>2. ReadingInv => PagesFollowTheHistory
  BY DEF ReadingInv, PagesFollowTheHistory
<1>3. QED
  BY <1>1, <1>2, InitType, StepType, InitIInv, StepIInv, StepReading, PTL DEF Spec

=============================================================================
