------------------------- MODULE Conversation_proofs ------------------------
(***************************************************************************)
(* Proofs about Conversation: one process drives the thread at a time, the *)
(* results of a reply follow it, the model sees the whole thread, nothing  *)
(* is written behind a result, finished runs are settled, and the thread   *)
(* implements ThreadTurns.                                                 *)
(***************************************************************************)
EXTENDS Conversation, Facts, TLAPS

-----------------------------------------------------------------------------
(* What every step keeps.                                                  *)

(* Where a driver stands in run_turn says which of its variables are set.  *)
Shape(d) ==
  /\ d.pc \in InTools <=> d.todo # <<>>
  /\ d.pc \in {"await", "accept"} => d.sent # 0
  /\ d.sent # 0 => d.pc \in {"await", "accept", "handle"}
  /\ d.pc = "settle" <=> d.outcome # "NONE"
  /\ d.pc \in Ending => d.status \in Ended
  /\ d.pc \in Busy \cup {"read"} => d.run # 0
  /\ d.pc \in {"check", "begin"} => d.req \in Request
  /\ d.pc \in {"prepare", "await"} => d.turns < MaxTurns

(* The only question of a driven run that may be open is the driver's.     *)
OpenQuestionIsSent(d) ==
  /\ d.sent # 0 => /\ d.sent \in DOMAIN history
                   /\ history[d.sent].kind = "ASK" /\ history[d.sent].run = d.run
                   /\ inference[d.sent] = "IN_FLIGHT"
  /\ \A i \in DOMAIN history :
       history[i].kind = "ASK" /\ history[i].run = d.run /\ inference[i] = "IN_FLIGHT"
         => i = d.sent

(* Unless an error cut the batch short, every open call of a driven run is *)
(* in its driver's hands.                                                  *)
OpenCallsAreInHand(d) ==
  /\ d.pc # "handle" => d.run \notin broken
  /\ d.run \notin broken =>
       \A c \in Pending(history) :
         history[c[1]].run = d.run => \E k \in DOMAIN d.todo : d.todo[k] = c

(* The calls in hand are the last ones of one reply, and what followed the *)
(* reply are the results of the first ones and what those calls added.     *)
Batch(s, d) ==
  /\ s \in DOMAIN history /\ history[s].kind = "REPLY" /\ history[s].run = d.run
  /\ Len(d.todo) <= history[s].n
  /\ \A k \in DOMAIN d.todo : d.todo[k] = <<s, history[s].n - Len(d.todo) + k>>
  /\ \A k \in DOMAIN history : s < k =>
       history[k].kind \in {"RESULT", "CLASSIFY", "DECISION"} /\ history[k].run = d.run
  /\ {history[k].n : k \in {l \in DOMAIN history : s < l /\ history[l].kind = "RESULT"}}
       = 1 .. (history[s].n - Len(d.todo))

(* What the driver has read is still so when it acts on it.                *)
ReadingHolds(d) ==
  d.pc = "prepare" => d.view = Len(history) /\ Pending(history) = {} /\ UsageKnown(d.run)

(* A success is reported for a call that wrote.                            *)
SuccessHasWritten(d) ==
  d.outcome = "SUCCEEDED" \/ d.pc = "classify" => wrote[Head(d.todo)]

Stands(d) ==
  /\ Shape(d)
  /\ d.pc \in Busy =>
       /\ ActiveRun = {d.run}
       /\ OpenQuestionIsSent(d)
       /\ OpenCallsAreInHand(d)
       /\ d.todo # <<>> => Batch(d.todo[1][1], d)
       /\ ReadingHolds(d)
       /\ SuccessHasWritten(d)

DriversInv ==
  /\ \A p \in Process : Stands(driver[p])
  /\ \A p, o \in Process : driver[p].pc \in Busy /\ driver[o].pc \in Busy => p = o

(* The length is saved beside the history, and the history fits its bound. *)
HistoryFits == projection = Len(history) /\ Len(history) \in Position

(* Each request started at most one run, and each run was started by one.  *)
RunsAreRequested ==
  /\ \A r \in Position : run[r] # "ABSENT" => r <= Len(history)
  /\ \A r \in Position : run[r] # "ABSENT" => \E q \in Request : ledger[q] = r
  /\ \A q \in Request : ledger[q] # 0 => run[ledger[q]] # "ABSENT"
  /\ \A q, o \in Request : ledger[q] = ledger[o] /\ ledger[q] # 0 => q = o
  /\ \A i \in DOMAIN history : history[i].run <= Len(history)

(* A result answers a call of the history, whose task has ended.           *)
ResultsEndTasks ==
  \A i \in DOMAIN history : history[i].kind = "RESULT" =>
    /\ <<history[i].source, history[i].n>> \in CallsIn(history)
    /\ task[<<history[i].source, history[i].n>>] \in {"SUCCEEDED", "FAILED"}

RowsInv ==
  /\ HistoryFits
  /\ RunsAreRequested
  /\ ResultsEndTasks
  /\ ResultsFollowTheirReply
  /\ ContextIsWhole
  /\ BudgetIsKnown
  /\ NoWriteBehindResult
  /\ FinishedRunsAreSettled

IInv == TypeOK /\ RowsInv /\ DriversInv

-----------------------------------------------------------------------------
(* Histories that grow by one record.                                      *)

(* The records of a history keep their places. *)
LEMMA Longer ==
  ASSUME NEW h \in Seq(Record), NEW rec \in Record, NEW g, g = Append(h, rec)
  PROVE  /\ g \in Seq(Record) /\ Len(h) \in Nat /\ Len(g) = Len(h) + 1
         /\ DOMAIN h = 1 .. Len(h) /\ DOMAIN g = 1 .. Len(h) + 1
         /\ \A i \in DOMAIN h : i \in DOMAIN g /\ i <= Len(h) /\ g[i] = h[i] /\ h[i] \in Record
         /\ Len(h) + 1 \in DOMAIN g /\ g[Len(h) + 1] = rec
         /\ \A i \in DOMAIN g : i \in DOMAIN h \/ i = Len(h) + 1
<1>1. /\ g \in Seq(Record) /\ Len(g) = Len(h) + 1
      /\ \A i \in 1 .. Len(h) : g[i] = h[i]
      /\ g[Len(h) + 1] = rec
  BY AppendProperties
<1>2. Len(h) \in Nat /\ DOMAIN h = 1 .. Len(h)
  OBVIOUS
<1>3. \A i \in 1 .. Len(h) : h[i] \in Record
  BY ElementOfSeq
<1>4. DOMAIN g = 1 .. Len(h) + 1
  BY <1>1
<1>5. QED
  BY <1>1, <1>2, <1>3, <1>4

(* Only a reply adds calls. *)
LEMMA CallsOfLonger ==
  ASSUME NEW h \in Seq(Record), NEW rec \in Record, NEW g, g = Append(h, rec)
  PROVE  CallsIn(g) = CallsIn(h) \cup
           (IF rec.kind = "REPLY" THEN {<<Len(h) + 1, k>> : k \in 1 .. rec.n} ELSE {})
<1>1. /\ Len(h) \in Nat
      /\ DOMAIN h = 1 .. Len(h) /\ DOMAIN g = 1 .. Len(h) + 1
      /\ \A i \in DOMAIN h : i \in DOMAIN g /\ g[i] = h[i]
      /\ Len(h) + 1 \in DOMAIN g /\ g[Len(h) + 1] = rec
      /\ \A i \in DOMAIN g : i \in DOMAIN h \/ i = Len(h) + 1
  BY Longer
<1>2. rec.n \in 0 .. MaxCalls /\ MaxCalls \in Nat
  BY ConversationAssumption DEF Record
<1>3. ASSUME NEW c \in CallsIn(g)
      PROVE  c \in CallsIn(h) \/ (rec.kind = "REPLY" /\ \E k \in 1 .. rec.n : c = <<Len(h) + 1, k>>)
  <2>1. c \in (DOMAIN g) \X (1 .. MaxCalls) /\ g[c[1]].kind = "REPLY" /\ c[2] <= g[c[1]].n
    BY DEF CallsIn
  <2>2. CASE c[1] \in DOMAIN h
    BY <1>1, <2>1, <2>2 DEF CallsIn
  <2>3. CASE c[1] = Len(h) + 1
    <3>1. rec.kind = "REPLY" /\ c[2] \in 1 .. rec.n /\ c = <<Len(h) + 1, c[2]>>
      BY <1>1, <1>2, <2>1, <2>3
    <3>2. QED
      BY <3>1
  <2>4. QED
    BY <1>1, <2>1, <2>2, <2>3
<1>4. ASSUME NEW c \in CallsIn(h) PROVE c \in CallsIn(g)
  BY <1>1 DEF CallsIn
<1>5. ASSUME rec.kind = "REPLY", NEW k \in 1 .. rec.n
      PROVE  <<Len(h) + 1, k>> \in CallsIn(g)
  BY <1>1, <1>2, <1>5 DEF CallsIn
<1>6. QED
  BY <1>3, <1>4, <1>5

(* Only a result answers a call. *)
LEMMA AnswersOfLonger ==
  ASSUME NEW h \in Seq(Record), NEW rec \in Record, NEW g, g = Append(h, rec)
  PROVE  AnsweredIn(g) = AnsweredIn(h) \cup
           (IF rec.kind = "RESULT" THEN {<<rec.source, rec.n>>} ELSE {})
<1>1. /\ DOMAIN h = 1 .. Len(h) /\ DOMAIN g = 1 .. Len(h) + 1 /\ Len(h) \in Nat
      /\ \A i \in DOMAIN h : i \in DOMAIN g /\ g[i] = h[i]
      /\ Len(h) + 1 \in DOMAIN g /\ g[Len(h) + 1] = rec
      /\ \A i \in DOMAIN g : i \in DOMAIN h \/ i = Len(h) + 1
  BY Longer
<1>2. ASSUME NEW c \in AnsweredIn(g)
      PROVE  c \in AnsweredIn(h) \/ (rec.kind = "RESULT" /\ c = <<rec.source, rec.n>>)
  <2>1. PICK i \in DOMAIN g : g[i].kind = "RESULT" /\ c = <<g[i].source, g[i].n>>
    BY DEF AnsweredIn
  <2>2. QED
    BY <1>1, <2>1 DEF AnsweredIn
<1>3. AnsweredIn(h) \subseteq AnsweredIn(g)
  BY <1>1 DEF AnsweredIn
<1>4. rec.kind = "RESULT" => <<rec.source, rec.n>> \in AnsweredIn(g)
  BY <1>1 DEF AnsweredIn
<1>5. QED
  BY <1>2, <1>3, <1>4

-----------------------------------------------------------------------------
(* Drivers and those who stand by.                                         *)

(* A driver's step touches no other driver. *)
LEMMA Moved ==
  ASSUME TypeOK, NEW p \in Process, NEW d \in Driver, driver' = [driver EXCEPT ![p] = d]
  PROVE  /\ driver' \in [Process -> Driver] /\ driver'[p] = d
         /\ \A o \in Process : o # p => driver'[o] = driver[o]
BY DEF TypeOK

(* While one process is busy no other is. *)
LEMMA OthersAreAway ==
  ASSUME DriversInv, NEW p \in Process, driver[p].pc \in Busy
  PROVE  \A o \in Process : o # p => driver[o].pc \notin Busy
BY DEF DriversInv

(* What is asked of a driver that is not busy does not depend on the rows. *)
LEMMA AwayStands ==
  ASSUME NEW d, d.pc \notin Busy, Shape(d)
  PROVE  Stands(d) /\ Stands(d)'
BY DEF Stands, Shape

(* Where no row changes everybody stands as before. *)
LEMMA SameRowsStand ==
  ASSUME UNCHANGED rows, UNCHANGED broken, NEW d, Stands(d)
  PROVE  Stands(d)'
BY DEF rows, Stands, OpenQuestionIsSent, OpenCallsAreInHand, Batch, ReadingHolds,
       SuccessHasWritten, ActiveRun, Pending, CallsIn, AnsweredIn, UsageKnown

(* Where no row changes the rows are as they should be; that more batches  *)
(* are known to be broken asks less of them.                               *)
LEMMA SameRows ==
  ASSUME RowsInv, UNCHANGED rows, broken \subseteq broken'
  PROVE  RowsInv'
<1>1. UNCHANGED <<history, projection, run, inference, task, wrote, ledger>>
  BY DEF rows
<1>2. FinishedRunsAreSettled'
  BY <1>1 DEF RowsInv, FinishedRunsAreSettled, Pending, CallsIn, AnsweredIn
<1>3. ContextIsWhole'
  BY <1>1 DEF RowsInv, ContextIsWhole, Pending
<1>8. ResultsEndTasks'
  BY <1>1 DEF RowsInv, ResultsEndTasks, CallsIn
<1>4. HistoryFits' /\ RunsAreRequested'
  BY <1>1 DEF RowsInv, HistoryFits, RunsAreRequested
<1>5. ResultsFollowTheirReply'
  BY <1>1 DEF RowsInv, ResultsFollowTheirReply
<1>6. BudgetIsKnown' /\ NoWriteBehindResult'
  BY <1>1 DEF RowsInv, BudgetIsKnown, NoWriteBehindResult
<1>7. QED
  BY <1>2, <1>3, <1>4, <1>5, <1>6, <1>8 DEF RowsInv

(* A step of a busy driver, or one that sees nobody busy. *)
LEMMA OneMoves ==
  ASSUME DriversInv, NEW p \in Process, NEW d,
         \A o \in Process : o # p => driver[o].pc \notin Busy,
         driver'[p] = d, \A o \in Process : o # p => driver'[o] = driver[o],
         Stands(d)'
  PROVE  DriversInv'
<1>1. ASSUME NEW o \in Process, o # p PROVE Stands(driver[o])'
  <2>1. PICK e : e = driver[o]
    OBVIOUS
  <2>2. e.pc \notin Busy /\ Shape(e)
    BY <1>1, <2>1 DEF DriversInv, Stands
  <2>3. Stands(e)'
    BY <2>2, AwayStands
  <2>4. driver'[o] = e
    BY <1>1, <2>1
  <2>5. QED
    BY <2>3, <2>4 DEF Stands, Shape, OpenQuestionIsSent, OpenCallsAreInHand, Batch, ReadingHolds,
                      SuccessHasWritten
<1>2. QED
  BY <1>1 DEF DriversInv

-----------------------------------------------------------------------------
(* Steps that change no row.                                               *)

(* A step of a driver that changes no row, wherever it stands after it.    *)
LEMMA QuietStep ==
  ASSUME IInv, NEW p \in Process, NEW d \in Driver, driver' = [driver EXCEPT ![p] = d],
         UNCHANGED rows, broken \subseteq broken', broken' \subseteq Position,
         lost' \subseteq lost \cup Position,
         handler' \in [Call -> Process \cup {NoProcess}],
         d.pc \in Busy \/ broken' # broken => driver[p].pc \in Busy,
         Stands(d)'
  PROVE  IInv'
<1>1. /\ driver' \in [Process -> Driver] /\ driver'[p] = d
      /\ \A o \in Process : o # p => driver'[o] = driver[o]
  BY Moved DEF IInv
<1>2. TypeOK'
  BY <1>1 DEF IInv, TypeOK, rows
<1>3. RowsInv'
  BY SameRows DEF IInv
<1>4. CASE driver[p].pc \in Busy
  <2>1. \A o \in Process : o # p => driver[o].pc \notin Busy
    BY <1>4, OthersAreAway DEF IInv
  <2>2. DriversInv'
    BY <1>1, <2>1, OneMoves DEF IInv
  <2>3. QED
    BY <1>2, <1>3, <2>2 DEF IInv
<1>5. CASE driver[p].pc \notin Busy
  <2>1. d.pc \notin Busy /\ UNCHANGED broken
    BY <1>5
  <2>2. ASSUME NEW o \in Process, o # p PROVE Stands(driver[o])'
    <3>1. PICK e : e = driver[o]
      OBVIOUS
    <3>2. Stands(e)
      BY <3>1 DEF IInv, DriversInv
    <3>3. Stands(e)'
      BY <2>1, <3>2, SameRowsStand
    <3>4. driver'[o] = e
      BY <1>1, <2>2, <3>1
    <3>5. Shape(driver[o])'
      BY <3>3, <3>4 DEF Stands, Shape
    <3>6. /\ OpenQuestionIsSent(e)' => OpenQuestionIsSent(driver[o])'
          /\ OpenCallsAreInHand(e)' => OpenCallsAreInHand(driver[o])'
          /\ ReadingHolds(e)' => ReadingHolds(driver[o])'
          /\ SuccessHasWritten(e)' => SuccessHasWritten(driver[o])'
      BY <3>4 DEF OpenQuestionIsSent, OpenCallsAreInHand, ReadingHolds, SuccessHasWritten
    <3>7. Batch(e.todo[1][1], e)' => Batch(driver[o].todo[1][1], driver[o])'
      BY <3>4 DEF Batch
    <3>8. QED
      BY <3>3, <3>4, <3>5, <3>6, <3>7 DEF Stands
  <2>3. Stands(driver[p])'
    BY <1>1 DEF Stands, Shape, OpenQuestionIsSent, OpenCallsAreInHand, Batch,
                        ReadingHolds, SuccessHasWritten
  <2>4. \A o, q \in Process : driver'[o].pc \in Busy /\ driver'[q].pc \in Busy => o = q
    BY <1>1, <2>1 DEF IInv, DriversInv
  <2>5. DriversInv'
    BY <2>2, <2>3, <2>4 DEF DriversInv
  <2>6. QED
    BY <1>2, <1>3, <2>5 DEF IInv
<1>6. QED
  BY <1>4, <1>5

(* A step to a place where the process is not busy. *)
LEMMA AwayStep ==
  ASSUME IInv, NEW p \in Process, NEW d \in Driver, driver' = [driver EXCEPT ![p] = d],
         UNCHANGED <<rows, broken>>, lost' \subseteq lost \cup Position,
         handler' \in [Call -> Process \cup {NoProcess}], d.pc \notin Busy, Shape(d)
  PROVE  IInv'
<1>1. broken' \subseteq Position
  BY DEF IInv, TypeOK
<1>2. Stands(d)'
  BY AwayStands
<1>3. QED
  BY <1>1, <1>2, QuietStep

(* The places where nothing is in hand. *)
LEMMA AwayShapes ==
  /\ Idle \in Driver /\ Shape(Idle) /\ Idle.pc \notin Busy
  /\ [Idle EXCEPT !.pc = "refused"] \in Driver /\ Shape([Idle EXCEPT !.pc = "refused"])
  /\ [Idle EXCEPT !.pc = "refused"].pc \notin Busy
  /\ \A q \in Request : LET d == [Idle EXCEPT !.pc = "check", !.req = q] IN
       d \in Driver /\ Shape(d) /\ d.pc \notin Busy
<1>1. Idle \in Driver /\ Shape(Idle) /\ Idle.pc \notin Busy
  <2>1. 0 \in 0 .. MaxTurns /\ 0 \in 0 .. MaxCalls /\ <<>> \in Seq(Call)
    BY ConversationAssumption
  <2>2. QED
    BY <2>1 DEF Idle, Driver, Shape, Away, Busy, InTry, InTools, Ending
<1>2. PICK e : e = Idle
  OBVIOUS
<1>3. e \in Driver /\ e.todo = <<>> /\ e.sent = 0 /\ e.outcome = "NONE"
  BY <1>1, <1>2 DEF Idle
<1>4. LET d == [e EXCEPT !.pc = "refused"] IN d \in Driver /\ Shape(d) /\ d.pc \notin Busy
  <2>1. PICK d : d = [e EXCEPT !.pc = "refused"]
    OBVIOUS
  <2>2. d \in Driver /\ d.pc = "refused" /\ d.todo = <<>> /\ d.sent = 0 /\ d.outcome = "NONE"
    BY <1>3, <2>1 DEF Driver, Away
  <2>3. Shape(d) /\ d.pc \notin Busy
    BY <2>2 DEF Shape, Busy, InTry, InTools, Ending
  <2>4. QED
    BY <2>1, <2>2, <2>3
<1>5. ASSUME NEW q \in Request
      PROVE  LET d == [e EXCEPT !.pc = "check", !.req = q] IN
             d \in Driver /\ Shape(d) /\ d.pc \notin Busy
  <2>1. PICK d : d = [e EXCEPT !.pc = "check", !.req = q]
    OBVIOUS
  <2>2. d \in Driver /\ d.pc = "check" /\ d.req = q
        /\ d.todo = <<>> /\ d.sent = 0 /\ d.outcome = "NONE"
    BY <1>3, <2>1 DEF Driver
  <2>3. Shape(d) /\ d.pc \notin Busy
    BY <2>2 DEF Shape, Busy, InTry, InTools, Ending
  <2>4. QED
    BY <2>1, <2>2, <2>3
<1>6. QED
  BY <1>1, <1>2, <1>4, <1>5

(* Calling run_turn saves nothing. *)
LEMMA SubmitKeeps ==
  ASSUME IInv, NEW p \in Process, NEW q \in Request, Submit(p, q)
  PROVE  IInv'
<1>1. PICK d : d = [Idle EXCEPT !.pc = "check", !.req = q]
  OBVIOUS
<1>2. driver' = [driver EXCEPT ![p] = d] /\ UNCHANGED <<rows, handler, broken, lost>>
  BY <1>1 DEF Submit
<1>3. d \in Driver /\ Shape(d) /\ d.pc \notin Busy
  BY <1>1, AwayShapes
<1>4. handler' \in [Call -> Process \cup {NoProcess}]
  BY <1>2 DEF IInv, TypeOK
<1>5. QED
  BY <1>2, <1>3, <1>4, AwayStep

(* A process that returns or is refused takes its duties with it. *)
LEMMA LeavingKeeps ==
  ASSUME IInv, NEW p \in Process, driver' = Leave(p) \/ driver' = Refuse(p),
         UNCHANGED <<rows, broken>>, lost' \subseteq lost \cup Position,
         handler' \in [Call -> Process \cup {NoProcess}]
  PROVE  IInv'
<1>1. PICK d \in {Idle, [Idle EXCEPT !.pc = "refused"]} : driver' = [driver EXCEPT ![p] = d]
  BY DEF Leave, Refuse
<1>2. d \in Driver /\ Shape(d) /\ d.pc \notin Busy
  BY <1>1, AwayShapes
<1>3. QED
  BY <1>1, <1>2, AwayStep

(* The check for an incomplete exchange only decides where to go on. *)
LEMMA CheckExchangeKeeps ==
  ASSUME IInv, NEW p \in Process, CheckExchange(p)
  PROVE  IInv'
<1>1. UNCHANGED <<rows, handler, broken, lost>> /\ driver[p].pc = "check"
  BY DEF CheckExchange
<1>2. handler' \in [Call -> Process \cup {NoProcess}]
  BY <1>1 DEF IInv, TypeOK
<1>3. CASE driver' = Refuse(p)
  BY <1>1, <1>2, <1>3, LeavingKeeps
<1>4. CASE driver' = [driver EXCEPT ![p].pc = "begin"]
  <2>1. driver[p] \in Driver /\ Shape(driver[p])
    BY DEF IInv, TypeOK, DriversInv, Stands
  <2>2. PICK d : d = [driver[p] EXCEPT !.pc = "begin"]
    OBVIOUS
  <2>3. driver' = [driver EXCEPT ![p] = d]
    BY <1>4, <2>2 DEF IInv, TypeOK
  <2>4. d \in Driver /\ Shape(d) /\ d.pc \notin Busy
    BY <1>1, <2>1, <2>2 DEF Driver, Shape, Busy, InTry, InTools, Ending, Away
  <2>5. QED
    BY <1>1, <1>2, <2>3, <2>4, AwayStep
<1>5. QED
  BY <1>3, <1>4 DEF CheckExchange

(* A repeated request is answered or refused without a write. *)
LEMMA ReadSavedKeeps ==
  ASSUME IInv, NEW p \in Process, ReadSaved(p)
  PROVE  IInv'
<1>1. UNCHANGED <<rows, handler, broken, lost>> /\ (driver' = Refuse(p) \/ driver' = Leave(p))
  BY DEF ReadSaved
<1>2. handler' \in [Call -> Process \cup {NoProcess}]
  BY <1>1 DEF IInv, TypeOK
<1>3. QED
  BY <1>1, <1>2, LeavingKeeps

(* A busy driver's run is the thread's active one, and it has begun.       *)
LEMMA BusyRun ==
  ASSUME IInv, NEW p \in Process, driver[p].pc \in Busy
  PROVE  /\ driver[p].run \in Position /\ run[driver[p].run] = "RUNNING"
         /\ driver[p].run <= Len(history)
         /\ \A r \in Position : run[r] = "RUNNING" => r = driver[p].run
<1>1. ActiveRun = {driver[p].run}
  BY DEF IInv, DriversInv, Stands
<1>2. QED
  BY <1>1 DEF ActiveRun, IInv, RowsInv, RunsAreRequested

(* A crash loses what the process remembered, and nothing saved; a process *)
(* whose error handling fails leaves everything as it is, too.             *)
LEMMA CrashKeeps ==
  ASSUME IInv, NEW p \in Process, Crash(p) \/ LoseRun(p)
  PROVE  IInv'
<1>1. driver' = Leave(p) /\ UNCHANGED <<rows, broken>>
  BY DEF Crash, LoseRun
<1>2. handler' \in [Call -> Process \cup {NoProcess}]
  BY DEF Crash, LoseRun, IInv, TypeOK
<1>3. driver[p].pc \in Busy => driver[p].run \in Position
  BY BusyRun
<1>4. lost' \subseteq lost \cup Position
  BY <1>3 DEF Crash, LoseRun, Busy
<1>5. QED
  BY <1>1, <1>2, <1>4, LeavingKeeps

(* Nobody moves, but for a handler's thread. *)
LEMMA NobodyMoves ==
  ASSUME IInv, UNCHANGED <<rows, driver, broken, lost>>,
         handler' \in [Call -> Process \cup {NoProcess}]
  PROVE  IInv'
<1>1. TypeOK'
  BY DEF IInv, TypeOK, rows
<1>2. RowsInv'
  BY SameRows DEF IInv
<1>3. ASSUME NEW o \in Process PROVE Stands(driver[o])'
  <2>1. PICK e : e = driver[o]
    OBVIOUS
  <2>2. Stands(e)
    BY <2>1 DEF IInv, DriversInv
  <2>3. Stands(e)'
    BY <2>2, SameRowsStand
  <2>4. driver'[o] = e
    BY <2>1
  <2>5. QED
    BY <2>3, <2>4 DEF Stands, Shape, OpenQuestionIsSent, OpenCallsAreInHand, Batch,
                      ReadingHolds, SuccessHasWritten
<1>4. \A o, q \in Process : driver'[o].pc \in Busy /\ driver'[q].pc \in Busy => o = q
  BY DEF IInv, DriversInv
<1>5. QED
  BY <1>1, <1>2, <1>3, <1>4 DEF IInv, DriversInv

(* A thread starts, or one nobody waits for ends. *)
LEMMA ThreadsKeep ==
  ASSUME IInv, \/ \E p \in Process : StartHandler(p)
               \/ \E c \in Call : HandlerEnds(c)
  PROVE  IInv'
<1>1. UNCHANGED <<rows, driver, broken, lost>>
  BY DEF StartHandler, HandlerEnds
<1>2. handler' \in [Call -> Process \cup {NoProcess}]
  BY DEF StartHandler, HandlerEnds, IInv, TypeOK
<1>3. QED
  BY <1>1, <1>2, NobodyMoves

(* A driver that goes on with the same question and the same calls.        *)
LEMMA SameHand ==
  ASSUME NEW e, NEW d, Stands(e), e.pc \in Busy, d.pc \in Busy,
         d.run = e.run, d.sent = e.sent, d.todo = e.todo, e.pc # "handle" \/ d.pc = "handle",
         Shape(d), ReadingHolds(d), SuccessHasWritten(d)
  PROVE  Stands(d)
BY DEF Stands, OpenQuestionIsSent, OpenCallsAreInHand, Batch

(* Such a step of a busy driver. *)
LEMMA GoesOn ==
  ASSUME IInv, NEW p \in Process, NEW d \in Driver, driver' = [driver EXCEPT ![p] = d],
         UNCHANGED <<rows, broken, lost>>, handler' \in [Call -> Process \cup {NoProcess}],
         driver[p].pc \in Busy, d.pc \in Busy, driver[p].pc # "handle",
         d.run = driver[p].run, d.sent = driver[p].sent, d.todo = driver[p].todo,
         Shape(d), ReadingHolds(d), SuccessHasWritten(d)
  PROVE  IInv'
<1>1. PICK e : e = driver[p]
  OBVIOUS
<1>2. Stands(e)
  BY <1>1 DEF IInv, DriversInv
<1>3. Stands(d)
  BY <1>1, <1>2, SameHand
<1>4. Stands(d)'
  BY <1>3, SameRowsStand
<1>5. broken' \subseteq Position
  BY DEF IInv, TypeOK
<1>6. QED
  BY <1>4, <1>5, QuietStep

(* The calls of the history are within the bounds. *)
LEMMA CallsAreCalls ==
  ASSUME IInv
  PROVE  CallsIn(history) \subseteq Call
<1>1. Len(history) \in Position /\ DOMAIN history = 1 .. Len(history)
  BY DEF IInv, RowsInv, HistoryFits, TypeOK
<1>2. DOMAIN history \subseteq Position
  BY <1>1, ConversationAssumption DEF Position
<1>3. QED
  BY <1>2 DEF CallsIn, Call

(* What is known of a driver before its step. *)
LEMMA Standing ==
  ASSUME IInv, NEW p \in Process
  PROVE  driver[p] \in Driver /\ Shape(driver[p]) /\ Stands(driver[p])
BY DEF IInv, TypeOK, DriversInv, Stands

(* Reaching the limit of turns or tokens ends the loop. *)
LEMMA StopKeeps ==
  ASSUME IInv, NEW p \in Process, Stop(p)
  PROVE  IInv'
<1>1. PICK e : e = driver[p]
  OBVIOUS
<1>2. e \in Driver /\ Shape(e) /\ e.pc = "loop"
  BY <1>1, Standing DEF Stop
<1>3. PICK d : d = [e EXCEPT !.pc = "finish", !.status = "STOPPED"]
  OBVIOUS
<1>4. driver' = [driver EXCEPT ![p] = d] /\ UNCHANGED <<rows, handler, broken, lost>>
  BY <1>1, <1>3 DEF Stop, IInv, TypeOK
<1>5. /\ d \in Driver /\ d.pc = "finish" /\ d.status = "STOPPED" /\ d.outcome = e.outcome
      /\ d.run = e.run /\ d.sent = e.sent /\ d.todo = e.todo /\ d.turns = e.turns
  BY <1>2, <1>3 DEF Driver, Busy, InTry, Ended
<1>6. Shape(d) /\ ReadingHolds(d) /\ SuccessHasWritten(d) /\ e.pc \in Busy /\ d.pc \in Busy
  BY <1>2, <1>5 DEF Shape, ReadingHolds, SuccessHasWritten, Busy, InTry, InTools, Ending, Ended
<1>7. handler' \in [Call -> Process \cup {NoProcess}]
  BY <1>4 DEF IInv, TypeOK
<1>8. QED
  BY <1>1, <1>2, <1>4, <1>5, <1>6, <1>7, GoesOn

(* Building the context remembers how much history it covers. *)
LEMMA BuildContextKeeps ==
  ASSUME IInv, NEW p \in Process, BuildContext(p)
  PROVE  IInv'
<1>1. PICK e : e = driver[p]
  OBVIOUS
<1>2. /\ e \in Driver /\ Shape(e) /\ e.pc = "loop" /\ e.turns < MaxTurns
      /\ UsageKnown(e.run) /\ Pending(history) = {}
  BY <1>1, Standing DEF BuildContext, TurnsLeft
<1>3. PICK d : d = [e EXCEPT !.pc = "prepare", !.view = Len(history)]
  OBVIOUS
<1>4. driver' = [driver EXCEPT ![p] = d] /\ UNCHANGED <<rows, handler, broken, lost>>
  BY <1>1, <1>3 DEF BuildContext, IInv, TypeOK
<1>5. Len(history) \in Position
  BY DEF IInv, RowsInv, HistoryFits
<1>6. /\ d \in Driver /\ d.pc = "prepare" /\ d.view = Len(history) /\ d.outcome = e.outcome
      /\ d.run = e.run /\ d.sent = e.sent /\ d.todo = e.todo /\ d.turns = e.turns
  BY <1>2, <1>3, <1>5 DEF Driver, Busy, InTry
<1>7. Shape(d) /\ ReadingHolds(d) /\ SuccessHasWritten(d) /\ e.pc \in Busy /\ d.pc \in Busy
  BY <1>2, <1>6 DEF Shape, ReadingHolds, SuccessHasWritten, Busy, InTry, InTools, Ending
<1>8. handler' \in [Call -> Process \cup {NoProcess}]
  BY <1>4 DEF IInv, TypeOK
<1>9. QED
  BY <1>1, <1>2, <1>4, <1>6, <1>7, <1>8, GoesOn

(* The provider's reply is remembered before it is saved. *)
LEMMA GenerateKeeps ==
  ASSUME IInv, NEW p \in Process, NEW n \in 0 .. MaxCalls, Generate(p, n)
  PROVE  IInv'
<1>1. PICK e : e = driver[p]
  OBVIOUS
<1>2. e \in Driver /\ Shape(e) /\ e.pc = "await"
  BY <1>1, Standing DEF Generate
<1>3. PICK d : d = [e EXCEPT !.pc = "accept", !.calls = n, !.turns = e.turns + 1]
  OBVIOUS
<1>4. driver' = [driver EXCEPT ![p] = d] /\ UNCHANGED <<rows, handler, broken, lost>>
  BY <1>1, <1>3 DEF Generate, IInv, TypeOK
<1>5. e.turns + 1 \in 0 .. MaxTurns
  BY <1>2, ConversationAssumption DEF Shape, Driver
<1>6. /\ d \in Driver /\ d.pc = "accept" /\ d.outcome = e.outcome
      /\ d.run = e.run /\ d.sent = e.sent /\ d.todo = e.todo
  BY <1>2, <1>3, <1>5 DEF Driver, Busy, InTry
<1>7. Shape(d) /\ ReadingHolds(d) /\ SuccessHasWritten(d) /\ e.pc \in Busy /\ d.pc \in Busy
  BY <1>2, <1>6 DEF Shape, ReadingHolds, SuccessHasWritten, Busy, InTry, InTools, Ending
<1>8. handler' \in [Call -> Process \cup {NoProcess}]
  BY <1>4 DEF IInv, TypeOK
<1>9. QED
  BY <1>1, <1>2, <1>4, <1>6, <1>7, <1>8, GoesOn

(* A handler that returns in time leaves its outcome with its process. *)
LEMMA HandlerReturnsKeeps ==
  ASSUME IInv, NEW p \in Process, NEW o \in {"SUCCEEDED", "FAILED"}, HandlerReturns(p, o)
  PROVE  IInv'
<1>1. PICK e : e = driver[p]
  OBVIOUS
<1>2. /\ e \in Driver /\ Shape(e) /\ e.pc = "exec"
      /\ o = "SUCCEEDED" => wrote[Head(e.todo)]
  BY <1>1, Standing DEF HandlerReturns
<1>3. PICK d : d = [e EXCEPT !.pc = "settle", !.outcome = o]
  OBVIOUS
<1>4. driver' = [driver EXCEPT ![p] = d] /\ UNCHANGED <<rows, broken, lost>>
  BY <1>1, <1>3 DEF HandlerReturns, IInv, TypeOK
<1>5. /\ d \in Driver /\ d.pc = "settle" /\ d.outcome = o
      /\ d.run = e.run /\ d.sent = e.sent /\ d.todo = e.todo /\ d.turns = e.turns
  BY <1>2, <1>3 DEF Driver, Busy, InTry, InTools
<1>6. Shape(d) /\ ReadingHolds(d) /\ SuccessHasWritten(d) /\ e.pc \in Busy /\ d.pc \in Busy
  BY <1>2, <1>5 DEF Shape, ReadingHolds, SuccessHasWritten, Busy, InTry, InTools, Ending
<1>7. handler' \in [Call -> Process \cup {NoProcess}]
  BY DEF HandlerReturns, IInv, TypeOK
<1>8. QED
  BY <1>1, <1>2, <1>4, <1>5, <1>6, <1>7, GoesOn

(* A handler that timed out or was cancelled counts as failed. *)
LEMMA AbandonKeeps ==
  ASSUME IInv, NEW p \in Process, NEW cancelled \in BOOLEAN, Abandon(p, cancelled)
  PROVE  IInv'
<1>1. PICK e : e = driver[p]
  OBVIOUS
<1>2. e \in Driver /\ Shape(e) /\ e.pc = "exec"
  BY <1>1, Standing DEF Abandon
<1>3. PICK d : d = [e EXCEPT !.pc = "settle", !.outcome = "FAILED", !.skip = cancelled]
  OBVIOUS
<1>4. driver' = [driver EXCEPT ![p] = d] /\ UNCHANGED <<rows, handler, broken, lost>>
  BY <1>1, <1>3 DEF Abandon, IInv, TypeOK
<1>5. /\ d \in Driver /\ d.pc = "settle" /\ d.outcome = "FAILED"
      /\ d.run = e.run /\ d.sent = e.sent /\ d.todo = e.todo /\ d.turns = e.turns
  BY <1>2, <1>3 DEF Driver, Busy, InTry, InTools
<1>6. Shape(d) /\ ReadingHolds(d) /\ SuccessHasWritten(d) /\ e.pc \in Busy /\ d.pc \in Busy
  BY <1>2, <1>5 DEF Shape, ReadingHolds, SuccessHasWritten, Busy, InTry, InTools, Ending
<1>7. handler' \in [Call -> Process \cup {NoProcess}]
  BY <1>4 DEF IInv, TypeOK
<1>8. QED
  BY <1>1, <1>2, <1>4, <1>5, <1>6, <1>7, GoesOn

(* A decision that cannot be saved fails its call. *)
LEMMA LoseDecisionKeeps ==
  ASSUME IInv, NEW p \in Process, LoseDecision(p)
  PROVE  IInv'
<1>1. PICK e : e = driver[p]
  OBVIOUS
<1>2. e \in Driver /\ Shape(e) /\ e.pc = "classify"
  BY <1>1, Standing DEF LoseDecision
<1>3. PICK d : d = [e EXCEPT !.pc = "settle", !.note = 0, !.outcome = "FAILED"]
  OBVIOUS
<1>4. driver' = [driver EXCEPT ![p] = d] /\ UNCHANGED <<rows, handler, broken, lost>>
  BY <1>1, <1>3 DEF LoseDecision, IInv, TypeOK
<1>5. /\ d \in Driver /\ d.pc = "settle" /\ d.outcome = "FAILED"
      /\ d.run = e.run /\ d.sent = e.sent /\ d.todo = e.todo /\ d.turns = e.turns
  BY <1>2, <1>3 DEF Driver, Busy, InTry, InTools
<1>6. Shape(d) /\ ReadingHolds(d) /\ SuccessHasWritten(d) /\ e.pc \in Busy /\ d.pc \in Busy
  BY <1>2, <1>5 DEF Shape, ReadingHolds, SuccessHasWritten, Busy, InTry, InTools, Ending
<1>7. handler' \in [Call -> Process \cup {NoProcess}]
  BY <1>4 DEF IInv, TypeOK
<1>8. QED
  BY <1>1, <1>2, <1>4, <1>5, <1>6, <1>7, GoesOn

(* An error in the middle of a batch is remembered.                        *)
LEMMA RaiseKeeps ==
  ASSUME IInv, NEW p \in Process, Raise(p)
  PROVE  IInv'
<1>1. PICK e : e = driver[p]
  OBVIOUS
<1>2. e \in Driver /\ Shape(e) /\ Stands(e) /\ e.pc \in InTry /\ e.pc \in Busy /\ e.pc # "handle"
  BY <1>1, Standing DEF Raise, Busy, InTry, InTools
<1>3. PICK d : d = [e EXCEPT !.pc = "handle", !.status = "STOPPED", !.todo = <<>>,
                             !.skip = FALSE, !.outcome = "NONE", !.calls = 0, !.view = 0,
                             !.note = 0]
  OBVIOUS
<1>4. driver' = [driver EXCEPT ![p] = d] /\ UNCHANGED <<rows, handler, lost>>
  BY <1>1, <1>3 DEF Raise, IInv, TypeOK
<1>5. /\ d \in Driver /\ d.pc = "handle" /\ d.status = "STOPPED" /\ d.outcome = "NONE"
      /\ d.run = e.run /\ d.sent = e.sent /\ d.todo = <<>>
  <2>1. <<>> \in Seq(Call) /\ 0 \in 0 .. MaxCalls
    BY ConversationAssumption
  <2>2. QED
    BY <1>2, <1>3, <2>1 DEF Driver, Busy, Ended
<1>6. Shape(d) /\ d.pc \in Busy
  BY <1>2, <1>5 DEF Shape, Busy, InTry, InTools, Ending, Ended
<1>7. e.run \in Position
  BY <1>2 DEF Shape, Driver, Position
<1>8. /\ broken \subseteq broken' /\ broken' \subseteq Position
      /\ e.pc \in InTools => d.run \in broken'
  BY <1>1, <1>5, <1>7 DEF Raise, IInv, TypeOK
<1>9. UNCHANGED <<history, projection, run, inference, task, wrote, ledger>>
  BY <1>4 DEF rows
<1>10. Stands(d)'
  <2>1. ActiveRun' = {d.run}
    BY <1>2, <1>5, <1>9 DEF Stands, ActiveRun
  <2>2. OpenQuestionIsSent(d)'
    BY <1>2, <1>5, <1>9 DEF Stands, OpenQuestionIsSent
  <2>3. OpenCallsAreInHand(d)'
    <3>1. CASE e.pc \in InTools
      BY <1>5, <1>8, <3>1 DEF OpenCallsAreInHand
    <3>2. CASE e.pc \notin InTools
      <4>1. e.todo = <<>> /\ UNCHANGED broken
        BY <1>1, <1>2, <3>2 DEF Shape, Raise
      <4>2. Pending(history)' = Pending(history)
        BY <1>9
      <4>3. \A c \in Pending(history) : history[c[1]].run # d.run
        BY <1>2, <1>5, <4>1 DEF Stands, OpenCallsAreInHand
      <4>4. QED
        BY <1>5, <1>9, <4>2, <4>3 DEF OpenCallsAreInHand
    <3>3. QED
      BY <3>1, <3>2
  <2>4. ReadingHolds(d)' /\ SuccessHasWritten(d)'
    BY <1>5 DEF ReadingHolds, SuccessHasWritten
  <2>5. Shape(d)'
    BY <1>6 DEF Shape
  <2>6. QED
    BY <1>5, <1>6, <2>1, <2>2, <2>3, <2>4, <2>5 DEF Stands
<1>11. handler' \in [Call -> Process \cup {NoProcess}]
  BY <1>4 DEF IInv, TypeOK
<1>12. QED
  BY <1>1, <1>2, <1>4, <1>5, <1>6, <1>8, <1>10, <1>11, QuietStep

(* A handler's thread writes only for a call that has no result yet.       *)
LEMMA HandlerWriteKeeps ==
  ASSUME IInv, NEW c \in Call, HandlerWrite(c)
  PROVE  IInv'
<1>1. /\ task[c] = "RUNNING" /\ wrote' = [wrote EXCEPT ![c] = TRUE]
      /\ UNCHANGED <<history, projection, run, inference, task, ledger, driver, handler, broken, lost>>
  BY DEF HandlerWrite, Claimed
<1>2. TypeOK'
  BY <1>1 DEF IInv, TypeOK
<1>3. /\ \A k \in Call : k # c => wrote'[k] = wrote[k]
      /\ \A k : wrote[k] /\ k \in Call => wrote'[k]
  BY <1>1 DEF IInv, TypeOK
<1>4. NoWriteBehindResult'
  <2>1. ASSUME NEW i \in DOMAIN history, history[i].kind = "RESULT"
        PROVE  LET k == <<history[i].source, history[i].n>> IN wrote'[k] = wrote[k]
    <3>1. PICK k : k = <<history[i].source, history[i].n>>
      OBVIOUS
    <3>2. k \in CallsIn(history) /\ task[k] # "RUNNING"
      BY <2>1, <3>1 DEF IInv, RowsInv, ResultsEndTasks
    <3>3. wrote'[k] = wrote[k]
      BY <1>1, <1>3, <3>2, CallsAreCalls
    <3>4. QED
      BY <3>1, <3>3
  <2>2. QED
    BY <1>1, <2>1 DEF IInv, RowsInv, NoWriteBehindResult
<1>5. RowsInv'
  <2>1. FinishedRunsAreSettled'
    BY <1>1 DEF IInv, RowsInv, FinishedRunsAreSettled, Pending
  <2>2. ContextIsWhole' /\ HistoryFits' /\ RunsAreRequested'
    BY <1>1 DEF IInv, RowsInv, ContextIsWhole, HistoryFits, RunsAreRequested
  <2>3. ResultsEndTasks'
    BY <1>1 DEF IInv, RowsInv, ResultsEndTasks, CallsIn
  <2>4. ResultsFollowTheirReply' /\ BudgetIsKnown'
    BY <1>1 DEF IInv, RowsInv, ResultsFollowTheirReply, BudgetIsKnown
  <2>5. QED
    BY <1>4, <2>1, <2>2, <2>3, <2>4 DEF RowsInv
<1>6. ASSUME NEW o \in Process PROVE Stands(driver[o])'
  <2>1. PICK e : e = driver[o]
    OBVIOUS
  <2>2. Stands(e) /\ e \in Driver
    BY <2>1 DEF IInv, DriversInv, TypeOK
  <2>3. e.pc \in Busy => SuccessHasWritten(e)'
    <3> SUFFICES ASSUME e.pc \in Busy, e.outcome = "SUCCEEDED" \/ e.pc = "classify"
                 PROVE  wrote'[Head(e.todo)]
      BY DEF SuccessHasWritten
    <3>1. wrote[Head(e.todo)]
      BY <2>2 DEF Stands, SuccessHasWritten
    <3>2. e.todo # <<>> /\ e.todo \in Seq(Call)
      BY <2>2 DEF Stands, Shape, InTools, Driver
    <3>3. Head(e.todo) \in Call
      BY <3>2, HeadTailProperties
    <3>4. QED
      BY <1>3, <3>1, <3>3
  <2>4. Stands(e)'
    BY <1>1, <2>2, <2>3 DEF Stands, Shape, OpenQuestionIsSent, OpenCallsAreInHand, Batch,
                     ReadingHolds, ActiveRun, Pending, CallsIn, AnsweredIn, UsageKnown
  <2>5. driver'[o] = e
    BY <1>1, <2>1
  <2>6. QED
    BY <2>4, <2>5 DEF Stands, Shape, OpenQuestionIsSent, OpenCallsAreInHand, Batch,
                      ReadingHolds, SuccessHasWritten
<1>7. \A o, q \in Process : driver'[o].pc \in Busy /\ driver'[q].pc \in Busy => o = q
  BY <1>1 DEF IInv, DriversInv
<1>8. QED
  BY <1>2, <1>5, <1>6, <1>7 DEF IInv, DriversInv

-----------------------------------------------------------------------------
(* Steps that change a task or a question and leave the history alone.     *)

(* Claiming a call: it has no result yet. *)
LEMMA ClaimCallKeeps ==
  ASSUME IInv, NEW p \in Process, ClaimCall(p)
  PROVE  IInv'
<1>1. PICK e : e = driver[p]
  OBVIOUS
<1>2. e \in Driver /\ Shape(e) /\ Stands(e) /\ e.pc = "claim" /\ e.pc \in Busy /\ e.pc # "handle"
  BY <1>1, Standing DEF ClaimCall, Busy, InTry, InTools
<1>3. PICK d : d = [e EXCEPT !.pc = IF e.skip THEN "settle" ELSE "exec",
                             !.outcome = IF e.skip THEN "FAILED" ELSE "NONE"]
  OBVIOUS
<1>4. PICK c : c = Head(e.todo)
  OBVIOUS
<1>5. /\ driver' = [driver EXCEPT ![p] = d]
      /\ task[c] = "READY" /\ task' = [task EXCEPT ![c] = "RUNNING"]
      /\ UNCHANGED <<history, projection, run, inference, wrote, ledger, handler, broken, lost>>
  BY <1>1, <1>3, <1>4 DEF ClaimCall, IInv, TypeOK
<1>6. /\ d \in Driver /\ d.pc \in {"settle", "exec"} /\ d.outcome \in {"FAILED", "NONE"}
      /\ d.pc = "settle" <=> d.outcome = "FAILED"
      /\ d.run = e.run /\ d.sent = e.sent /\ d.todo = e.todo /\ d.turns = e.turns
  <2>1. PICK pc \in {"settle", "exec"} : pc = IF e.skip THEN "settle" ELSE "exec"
    OBVIOUS
  <2>2. PICK outcome \in {"FAILED", "NONE"} : outcome = IF e.skip THEN "FAILED" ELSE "NONE"
    OBVIOUS
  <2>3. d = [e EXCEPT !.pc = pc, !.outcome = outcome] /\ (pc = "settle" <=> outcome = "FAILED")
    BY <1>3, <2>1, <2>2
  <2>4. QED
    BY <1>2, <2>3 DEF Driver, Busy, InTry, InTools
<1>7. Shape(d) /\ ReadingHolds(d) /\ SuccessHasWritten(d) /\ d.pc \in Busy
  BY <1>2, <1>6 DEF Shape, ReadingHolds, SuccessHasWritten, Busy, InTry, InTools, Ending
<1>8. Stands(d)
  BY <1>2, <1>6, <1>7, SameHand
<1>9. Stands(d)'
  BY <1>5, <1>8 DEF Stands, Shape, OpenQuestionIsSent, OpenCallsAreInHand, Batch,
       ReadingHolds, SuccessHasWritten, ActiveRun, Pending, CallsIn, AnsweredIn, UsageKnown
<1>10. /\ driver' \in [Process -> Driver] /\ driver'[p] = d
       /\ \A o \in Process : o # p => driver'[o] = driver[o]
  BY <1>5, <1>6, Moved DEF IInv
<1>11. \A o \in Process : o # p => driver[o].pc \notin Busy
  BY <1>1, <1>2, OthersAreAway DEF IInv
<1>12. DriversInv'
  BY <1>9, <1>10, <1>11, OneMoves DEF IInv
<1>13. TypeOK'
  BY <1>5, <1>10 DEF IInv, TypeOK
<1>14. ASSUME NEW k \in CallsIn(history), task[k] \in {"SUCCEEDED", "FAILED"}
       PROVE  task'[k] = task[k]
  <2>1. k \in Call /\ k # c
    BY <1>5, <1>14, CallsAreCalls
  <2>2. QED
    BY <1>5, <2>1 DEF IInv, TypeOK
<1>15. ResultsEndTasks' /\ NoWriteBehindResult'
  <2>1. ResultsEndTasks'
    BY <1>5, <1>14 DEF IInv, RowsInv, ResultsEndTasks, CallsIn
  <2>2. NoWriteBehindResult'
    BY <1>5, <1>14 DEF IInv, RowsInv, ResultsEndTasks, NoWriteBehindResult
  <2>3. QED
    BY <2>1, <2>2
<1>16. RowsInv'
  <2>1. FinishedRunsAreSettled'
    BY <1>5 DEF IInv, RowsInv, FinishedRunsAreSettled, Pending
  <2>2. ContextIsWhole' /\ HistoryFits' /\ RunsAreRequested'
    BY <1>5 DEF IInv, RowsInv, ContextIsWhole, HistoryFits, RunsAreRequested
  <2>3. ResultsFollowTheirReply' /\ BudgetIsKnown'
    BY <1>5 DEF IInv, RowsInv, ResultsFollowTheirReply, BudgetIsKnown
  <2>4. QED
    BY <1>15, <2>1, <2>2, <2>3 DEF RowsInv
<1>17. QED
  BY <1>12, <1>13, <1>16 DEF IInv

(* The question that got no reply is closed. *)
LEMMA FailInferenceKeeps ==
  ASSUME IInv, NEW p \in Process, FailInference(p)
  PROVE  IInv'
<1>1. PICK e : e = driver[p]
  OBVIOUS
<1>2. e \in Driver /\ Shape(e) /\ Stands(e) /\ e.pc = "handle" /\ e.pc \in Busy /\ e.sent # 0
  BY <1>1, Standing DEF FailInference, Busy
<1>3. PICK d : d = [e EXCEPT !.sent = 0]
  OBVIOUS
<1>4. /\ driver' = [driver EXCEPT ![p] = d]
      /\ inference[e.sent] = "IN_FLIGHT"
      /\ inference' = [inference EXCEPT ![e.sent] = "FAILED"]
      /\ UNCHANGED <<history, projection, run, task, wrote, ledger, handler, broken, lost>>
  BY <1>1, <1>3 DEF FailInference, FinishInference, IInv, TypeOK
<1>5. /\ d \in Driver /\ d.sent = 0 /\ d.pc = e.pc /\ d.outcome = e.outcome /\ d.status = e.status
      /\ d.run = e.run /\ d.todo = e.todo /\ d.turns = e.turns
  BY <1>2, <1>3 DEF Driver
<1>6. Shape(d) /\ d.pc \in Busy /\ d.todo = <<>>
  BY <1>2, <1>5 DEF Shape, Busy, InTry, InTools, Ending
<1>7. \A i \in Position : /\ inference'[i] = "IN_FLIGHT" => i # e.sent /\ inference[i] = "IN_FLIGHT"
                          /\ inference[i] = "SUCCEEDED" => inference'[i] = "SUCCEEDED"
  BY <1>4 DEF IInv, TypeOK, InferenceStatus
<1>8. DOMAIN history \subseteq Position
  BY ConversationAssumption DEF IInv, TypeOK, RowsInv, HistoryFits, Position
<1>9. Stands(d)'
  <2>1. ActiveRun' = {d.run} /\ OpenCallsAreInHand(d)'
    BY <1>2, <1>4, <1>5 DEF Stands, ActiveRun, OpenCallsAreInHand, Pending
  <2>2. OpenQuestionIsSent(d)'
    BY <1>2, <1>4, <1>5, <1>7, <1>8 DEF Stands, OpenQuestionIsSent
  <2>3. ReadingHolds(d)' /\ SuccessHasWritten(d)' /\ Shape(d)'
    BY <1>2, <1>5, <1>6 DEF ReadingHolds, SuccessHasWritten, Shape
  <2>4. QED
    BY <1>6, <2>1, <2>2, <2>3 DEF Stands
<1>10. /\ driver' \in [Process -> Driver] /\ driver'[p] = d
       /\ \A o \in Process : o # p => driver'[o] = driver[o]
  BY <1>4, <1>5, Moved DEF IInv
<1>11. \A o \in Process : o # p => driver[o].pc \notin Busy
  BY <1>1, <1>2, OthersAreAway DEF IInv
<1>12. DriversInv'
  BY <1>9, <1>10, <1>11, OneMoves DEF IInv
<1>13. TypeOK'
  BY <1>4, <1>10 DEF IInv, TypeOK, InferenceStatus
<1>14. RowsInv'
  <2>1. FinishedRunsAreSettled'
    BY <1>4, <1>7, <1>8 DEF IInv, RowsInv, FinishedRunsAreSettled, Pending
  <2>2. ContextIsWhole' /\ HistoryFits' /\ RunsAreRequested'
    BY <1>4 DEF IInv, RowsInv, ContextIsWhole, HistoryFits, RunsAreRequested
  <2>3. ResultsFollowTheirReply' /\ NoWriteBehindResult'
    BY <1>4 DEF IInv, RowsInv, ResultsFollowTheirReply, NoWriteBehindResult
  <2>4. ResultsEndTasks'
    BY <1>4 DEF IInv, RowsInv, ResultsEndTasks, CallsIn
  <2>5. BudgetIsKnown'
    BY <1>4, <1>7, <1>8 DEF IInv, RowsInv, BudgetIsKnown
  <2>6. QED
    BY <2>1, <2>2, <2>3, <2>4, <2>5 DEF RowsInv
<1>15. QED
  BY <1>12, <1>13, <1>14 DEF IInv

-----------------------------------------------------------------------------
(* Steps that append a record: what was promised of the older records.     *)

Adds(rec) ==
  /\ projection = Len(history) /\ Len(history) < MaxLength
  /\ history' = Append(history, rec)
  /\ projection' = Len(history) + 1

(* The record takes the next place, within the bound. *)
LEMMA Added ==
  ASSUME IInv, NEW rec \in Record, Adds(rec)
  PROVE  /\ HistoryFits' /\ projection' \in Nat
         /\ history' \in Seq(Record) /\ Len(history) \in Nat /\ Len(history') = Len(history) + 1
         /\ Len(history) + 1 \in Position
         /\ DOMAIN history = 1 .. Len(history) /\ DOMAIN history' = 1 .. Len(history) + 1
         /\ DOMAIN history \subseteq Position
         /\ \A i \in DOMAIN history : /\ i \in DOMAIN history' /\ i <= Len(history)
                                      /\ history'[i] = history[i] /\ history[i] \in Record
         /\ Len(history) + 1 \in DOMAIN history' /\ history'[Len(history) + 1] = rec
         /\ \A i \in DOMAIN history' : i \in DOMAIN history \/ i = Len(history) + 1
<1>1. history \in Seq(Record) /\ history' = Append(history, rec)
  BY DEF IInv, TypeOK, Adds
<1>2. /\ history' \in Seq(Record) /\ Len(history) \in Nat /\ Len(history') = Len(history) + 1
      /\ DOMAIN history = 1 .. Len(history) /\ DOMAIN history' = 1 .. Len(history) + 1
      /\ \A i \in DOMAIN history : /\ i \in DOMAIN history' /\ i <= Len(history)
                                   /\ history'[i] = history[i] /\ history[i] \in Record
      /\ Len(history) + 1 \in DOMAIN history' /\ history'[Len(history) + 1] = rec
      /\ \A i \in DOMAIN history' : i \in DOMAIN history \/ i = Len(history) + 1
  BY <1>1, Longer
<1>3. Len(history) + 1 \in Position
  BY <1>2, ConversationAssumption DEF Adds, Position
<1>4. HistoryFits' /\ projection' \in Nat
  BY <1>2, <1>3 DEF Adds, HistoryFits
<1>5. DOMAIN history \subseteq Position
  BY <1>2, <1>3, ConversationAssumption DEF Position
<1>6. QED
  BY <1>2, <1>3, <1>4, <1>5

(* No run but the one of the record begins. *)
LEMMA RequestsStay ==
  ASSUME IInv, NEW rec \in Record, Adds(rec), rec.run <= Len(history), UNCHANGED ledger,
         \A r \in Position : run'[r] = "ABSENT" <=> run[r] = "ABSENT"
  PROVE  RunsAreRequested'
<1>1. \A i \in DOMAIN history' : history'[i].run <= Len(history')
  <2>1. \A i \in DOMAIN history : history[i].run <= Len(history) /\ history[i].run \in Nat
    BY Added DEF IInv, RowsInv, RunsAreRequested, Record, Position
  <2>2. rec.run \in Nat
    BY DEF Record, Position
  <2>3. QED
    BY <2>1, <2>2, Added
<1>2. \A r \in Position : run'[r] # "ABSENT" => r <= Len(history')
  BY Added DEF IInv, RowsInv, RunsAreRequested, Position
<1>3. \A q \in Request : ledger[q] # 0 => ledger[q] \in Position
  BY DEF IInv, TypeOK
<1>4. QED
  BY <1>1, <1>2, <1>3 DEF IInv, RowsInv, RunsAreRequested

(* What ResultsFollowTheirReply says of one result. *)
ResultFollows(h, i) ==
  LET s == h[i].source
      between == {k \in DOMAIN h : s < k /\ k < i} IN
  /\ s < i /\ h[s].kind = "REPLY" /\ h[i].n <= h[s].n
  /\ h[s].run = h[i].run
  /\ \A k \in between : /\ h[k].kind \in {"RESULT", "CLASSIFY", "DECISION"}
                         /\ h[k].run = h[i].run
  /\ {h[k].n : k \in {l \in between : h[l].kind = "RESULT"}} = 1 .. (h[i].n - 1)

(* The property, in terms of one result. *)
LEMMA ResultsFollowDef ==
  ResultsFollowTheirReply <=>
    \A i \in DOMAIN history : history[i].kind = "RESULT" => ResultFollows(history, i)
BY DEF ResultsFollowTheirReply, ResultFollows

(* Later records do not come between a reply and its results. *)
LEMMA OldResultFollows ==
  ASSUME NEW h \in Seq(Record), NEW rec \in Record, NEW g, g = Append(h, rec),
         NEW i \in DOMAIN h, <<h[i].source, h[i].n>> \in CallsIn(h), ResultFollows(h, i)
  PROVE  ResultFollows(g, i)
<1>1. /\ DOMAIN h = 1 .. Len(h) /\ DOMAIN g = 1 .. Len(h) + 1 /\ Len(h) \in Nat
      /\ \A k \in DOMAIN h : k \in DOMAIN g /\ g[k] = h[k]
  BY Longer
<1>2. PICK s : s = h[i].source
  OBVIOUS
<1>3. s \in DOMAIN h /\ s = g[i].source /\ g[s] = h[s] /\ g[i] = h[i]
  BY <1>1, <1>2 DEF CallsIn
<1>4. PICK between : between = {k \in DOMAIN h : s < k /\ k < i}
  OBVIOUS
<1>5. between = {k \in DOMAIN g : s < k /\ k < i} /\ \A k \in between : g[k] = h[k]
  BY <1>1, <1>4
<1>6. {g[k].n : k \in {l \in between : g[l].kind = "RESULT"}}
        = {h[k].n : k \in {l \in between : h[l].kind = "RESULT"}}
  BY <1>5
<1>7. /\ s < i /\ h[s].kind = "REPLY" /\ h[i].n <= h[s].n /\ h[s].run = h[i].run
      /\ \A k \in between : /\ h[k].kind \in {"RESULT", "CLASSIFY", "DECISION"}
                             /\ h[k].run = h[i].run
      /\ {h[k].n : k \in {l \in between : h[l].kind = "RESULT"}} = 1 .. (h[i].n - 1)
  BY <1>2, <1>4 DEF ResultFollows
<1>8. QED
  BY <1>3, <1>5, <1>6, <1>7 DEF ResultFollows

(* Results keep following their reply if an added one does. *)
LEMMA ResultsStay ==
  ASSUME IInv, NEW rec \in Record, Adds(rec),
         rec.kind = "RESULT" => ResultFollows(history', Len(history) + 1)
  PROVE  ResultsFollowTheirReply'
<1>1. ASSUME NEW i \in DOMAIN history, history[i].kind = "RESULT"
      PROVE  ResultFollows(history', i)
  <2>1. <<history[i].source, history[i].n>> \in CallsIn(history) /\ ResultFollows(history, i)
    BY <1>1, ResultsFollowDef DEF IInv, RowsInv, ResultsEndTasks
  <2>2. history \in Seq(Record) /\ history' = Append(history, rec)
    BY DEF IInv, TypeOK, Adds
  <2>3. QED
    BY <2>1, <2>2, OldResultFollows
<1>2. \A i \in DOMAIN history' : history'[i].kind = "RESULT" => ResultFollows(history', i)
  BY <1>1, Added
<1>3. QED
  BY <1>2 DEF ResultsFollowTheirReply, ResultFollows

(* Calls of older replies stay calls, and their tasks stay ended.          *)
LEMMA TasksStay ==
  ASSUME IInv, NEW rec \in Record, Adds(rec),
         \A c \in CallsIn(history) :
           task[c] \in {"SUCCEEDED", "FAILED"} => task'[c] = task[c],
         rec.kind = "RESULT" => /\ <<rec.source, rec.n>> \in CallsIn(history)
                                /\ task'[<<rec.source, rec.n>>] \in {"SUCCEEDED", "FAILED"}
  PROVE  ResultsEndTasks'
<1>1. CallsIn(history) \subseteq CallsIn(history')
  <2>1. history \in Seq(Record) /\ history' = Append(history, rec)
    BY DEF IInv, TypeOK, Adds
  <2>2. CallsIn(history') = CallsIn(history) \cup
          (IF rec.kind = "REPLY" THEN {<<Len(history) + 1, k>> : k \in 1 .. rec.n} ELSE {})
    BY <2>1, CallsOfLonger
  <2>3. QED
    BY <2>2
<1>2. ASSUME NEW i \in DOMAIN history', history'[i].kind = "RESULT"
      PROVE  LET c == <<history'[i].source, history'[i].n>> IN
             c \in CallsIn(history') /\ task'[c] \in {"SUCCEEDED", "FAILED"}
  <2>1. CASE i \in DOMAIN history
    <3>1. history'[i] = history[i]
      BY <2>1, Added
    <3>2. PICK c : c = <<history[i].source, history[i].n>>
      OBVIOUS
    <3>3. c \in CallsIn(history) /\ task[c] \in {"SUCCEEDED", "FAILED"}
      BY <1>2, <2>1, <3>1, <3>2 DEF IInv, RowsInv, ResultsEndTasks
    <3>4. QED
      BY <1>1, <3>1, <3>2, <3>3
  <2>2. CASE i = Len(history) + 1
    BY <1>1, <1>2, <2>2, Added
  <2>3. QED
    BY <2>1, <2>2, Added
<1>3. QED
  BY <1>2 DEF ResultsEndTasks, CallsIn

(* What the model had seen of the thread at an older question is as it was.*)
LEMMA ContextStays ==
  ASSUME IInv, NEW rec \in Record, Adds(rec),
         rec.kind = "ASK" => rec.source = Len(history) /\ Pending(history) = {}
  PROVE  ContextIsWhole'
<1>1. history \in Seq(Record) /\ history' = Append(history, rec)
  BY DEF IInv, TypeOK, Adds
<1>2. ASSUME NEW i \in DOMAIN history', history'[i].kind = "ASK"
      PROVE  history'[i].source = i - 1 /\ Pending(SubSeq(history', 1, i - 1)) = {}
  <2>1. i - 1 \in 0 .. Len(history)
    BY <1>2, Added
  <2>2. SubSeq(history', 1, i - 1) = SubSeq(history, 1, i - 1)
    BY <1>1, <2>1, SubSeqOfAppend
  <2>3. CASE i \in DOMAIN history
    <3>1. history[i].kind = "ASK" /\ history'[i] = history[i]
      BY <1>2, <2>3, Added
    <3>2. history[i].source = i - 1 /\ Pending(SubSeq(history, 1, i - 1)) = {}
      BY <2>3, <3>1 DEF IInv, RowsInv, ContextIsWhole
    <3>3. QED
      BY <2>2, <3>1, <3>2
  <2>4. CASE i = Len(history) + 1
    <3>1. i - 1 = Len(history) /\ rec.kind = "ASK" /\ history'[i] = rec
      BY <1>2, <2>4, Added
    <3>2. SubSeq(history, 1, i - 1) = history
      BY <1>1, <3>1, SubSeqFull
    <3>3. QED
      BY <2>2, <3>1, <3>2
  <2>5. QED
    BY <2>3, <2>4, Added
<1>3. QED
  BY <1>2 DEF ContextIsWhole, Pending

(* What was known of a run's usage at an older question is still known.    *)
LEMMA BudgetStays ==
  ASSUME IInv, NEW rec \in Record, Adds(rec),
         \A i \in DOMAIN history : inference[i] = "SUCCEEDED" => inference'[i] = "SUCCEEDED",
         rec.kind \in {"ASK", "CLASSIFY"} => UsageKnown(rec.run)
  PROVE  BudgetIsKnown'
<1>1. ASSUME NEW i \in DOMAIN history', NEW k \in DOMAIN history',
             history'[i].kind \in {"ASK", "CLASSIFY"}, history'[k].kind \in {"ASK", "CLASSIFY"},
             k < i, history'[k].run = history'[i].run
      PROVE  inference'[k] = "SUCCEEDED"
  <2>1. k \in DOMAIN history /\ history'[k] = history[k]
    BY <1>1, Added
  <2>2. CASE i \in DOMAIN history
    <3>1. history'[i] = history[i]
      BY <2>2, Added
    <3>2. inference[k] = "SUCCEEDED"
      BY <1>1, <2>1, <2>2, <3>1 DEF IInv, RowsInv, BudgetIsKnown
    <3>3. QED
      BY <2>1, <3>2
  <2>3. CASE i = Len(history) + 1
    BY <1>1, <2>1, <2>3, Added DEF UsageKnown
  <2>4. QED
    BY <2>2, <2>3, Added
<1>2. QED
  BY <1>1 DEF BudgetIsKnown

(* Nothing is written behind an older result. *)
LEMMA WritesStay ==
  ASSUME IInv, NEW rec \in Record, Adds(rec),
         \A c \in CallsIn(history) :
           task[c] \in {"SUCCEEDED", "FAILED"} => task'[c] = task[c] /\ wrote'[c] = wrote[c],
         rec.kind = "RESULT" => /\ wrote'[<<rec.source, rec.n>>] = rec.wrote
                                /\ task'[<<rec.source, rec.n>>] = "SUCCEEDED" => rec.wrote
  PROVE  NoWriteBehindResult'
<1>1. ASSUME NEW i \in DOMAIN history', history'[i].kind = "RESULT"
      PROVE  LET c == <<history'[i].source, history'[i].n>> IN
             /\ wrote'[c] = history'[i].wrote
             /\ task'[c] = "SUCCEEDED" => history'[i].wrote
  <2>1. CASE i \in DOMAIN history
    <3>1. history'[i] = history[i]
      BY <2>1, Added
    <3>2. PICK c : c = <<history[i].source, history[i].n>>
      OBVIOUS
    <3>3. c \in CallsIn(history) /\ task[c] \in {"SUCCEEDED", "FAILED"}
      BY <1>1, <2>1, <3>1, <3>2 DEF IInv, RowsInv, ResultsEndTasks
    <3>4. /\ wrote[c] = history[i].wrote
          /\ task[c] = "SUCCEEDED" => history[i].wrote
      BY <1>1, <2>1, <3>1, <3>2 DEF IInv, RowsInv, NoWriteBehindResult
    <3>5. QED
      BY <3>1, <3>2, <3>3, <3>4
  <2>2. CASE i = Len(history) + 1
    BY <1>1, <2>2, Added
  <2>3. QED
    BY <2>1, <2>2, Added
<1>2. QED
  BY <1>1 DEF NoWriteBehindResult

(* A reply opens its calls, a result closes one, no other record does      *)
(* either.                                                                 *)
LEMMA OpenCalls ==
  ASSUME IInv, NEW rec \in Record, Adds(rec)
  PROVE  /\ \A c \in Pending(history') :
              \/ c \in Pending(history)
              \/ rec.kind = "REPLY" /\ \E k \in 1 .. rec.n : c = <<Len(history) + 1, k>>
         /\ rec.kind = "RESULT" => <<rec.source, rec.n>> \notin Pending(history')
         /\ rec.kind \notin {"REPLY", "RESULT"} => Pending(history') = Pending(history)
         /\ \A c \in Pending(history) : c[1] \in DOMAIN history
<1>1. history \in Seq(Record) /\ history' = Append(history, rec)
  BY DEF IInv, TypeOK, Adds
<1>2. CallsIn(history') = CallsIn(history) \cup
        (IF rec.kind = "REPLY" THEN {<<Len(history) + 1, k>> : k \in 1 .. rec.n} ELSE {})
  BY <1>1, CallsOfLonger
<1>3. AnsweredIn(history') = AnsweredIn(history) \cup
        (IF rec.kind = "RESULT" THEN {<<rec.source, rec.n>>} ELSE {})
  BY <1>1, AnswersOfLonger
<1>4. \A c \in Pending(history) : c[1] \in DOMAIN history
  BY DEF Pending, CallsIn
<1>5. QED
  BY <1>2, <1>3, <1>4 DEF Pending

(* What FinishedRunsAreSettled says of one run. *)
RunSettled(r) ==
  /\ \A i \in DOMAIN history :
       history[i].kind = "ASK" /\ history[i].run = r => inference[i] # "IN_FLIGHT"
  /\ r \notin broken => \A c \in Pending(history) : history[c[1]].run # r

(* Runs that had ended stay settled: no question and no call is added to   *)
(* them.                                                                   *)
LEMMA SettledStay ==
  ASSUME IInv, NEW rec \in Record, Adds(rec), UNCHANGED broken,
         \A r \in Position : run'[r] \in Ended => RunSettled(r),
         \A i \in DOMAIN history : inference'[i] = "IN_FLIGHT" => inference[i] = "IN_FLIGHT",
         rec.kind \in {"ASK", "REPLY"} => run'[rec.run] \notin Ended
  PROVE  FinishedRunsAreSettled'
<1>1. ASSUME NEW r \in Position, run'[r] \in Ended
      PROVE  RunSettled(r)'
  <2>1. RunSettled(r) /\ (rec.kind \in {"ASK", "REPLY"} => rec.run # r)
    BY <1>1
  <2>2. ASSUME NEW i \in DOMAIN history', history'[i].kind = "ASK", history'[i].run = r
        PROVE  inference'[i] # "IN_FLIGHT"
    <3>1. i \in DOMAIN history /\ history'[i] = history[i]
      BY <2>1, <2>2, Added
    <3>2. QED
      BY <2>1, <2>2, <3>1 DEF RunSettled
  <2>3. ASSUME r \notin broken, NEW c \in Pending(history') PROVE history'[c[1]].run # r
    <3>1. CASE c \in Pending(history)
      <4>1. c[1] \in DOMAIN history /\ history[c[1]].run # r
        BY <2>1, <2>3, <3>1, OpenCalls DEF RunSettled
      <4>2. QED
        BY <4>1, Added
    <3>2. CASE rec.kind = "REPLY" /\ c[1] = Len(history) + 1
      BY <2>1, <3>2, Added
    <3>3. QED
      <4>1. \/ c \in Pending(history)
            \/ rec.kind = "REPLY" /\ \E k \in 1 .. rec.n : c = <<Len(history) + 1, k>>
        BY <2>3, OpenCalls
      <4>2. QED
        BY <3>1, <3>2, <4>1
  <2>4. QED
    BY <2>2, <2>3 DEF RunSettled
<1>2. QED
  BY <1>1 DEF FinishedRunsAreSettled, RunSettled

(* What IInv says of one run. *)
LEMMA SettledDef ==
  ASSUME IInv
  PROVE  \A r \in Position : run[r] \in Ended => RunSettled(r)
BY DEF IInv, RowsInv, FinishedRunsAreSettled, RunSettled

(* A question stays the driver's while other records are added.            *)
LEMMA QuestionStays ==
  ASSUME IInv, NEW rec \in Record, Adds(rec), rec.kind # "ASK",
         NEW e, NEW d, d.run = e.run, d.sent = 0, OpenQuestionIsSent(e),
         \A i \in DOMAIN history : inference'[i] = "IN_FLIGHT" =>
           inference[i] = "IN_FLIGHT" /\ i # e.sent
  PROVE  OpenQuestionIsSent(d)'
<1>1. ASSUME NEW i \in DOMAIN history', history'[i].kind = "ASK", history'[i].run = d.run,
             inference'[i] = "IN_FLIGHT"
      PROVE  FALSE
  <2>1. i \in DOMAIN history /\ history'[i] = history[i]
    BY <1>1, Added
  <2>2. QED
    BY <1>1, <2>1 DEF OpenQuestionIsSent
<1>2. QED
  BY <1>1 DEF OpenQuestionIsSent

(* What a call of the batch adds of its own: its question and its decision.*)
LEMMA SideRecordKeeps ==
  ASSUME IInv, NEW p \in Process, NEW d \in Driver, driver' = [driver EXCEPT ![p] = d],
         NEW rec \in Record, Adds(rec), rec.kind \in {"CLASSIFY", "DECISION"},
         rec.kind = "CLASSIFY" => UsageKnown(rec.run),
         driver[p].pc \in InTools, d.pc \in InTools,
         rec.run = driver[p].run, d.run = driver[p].run, d.todo = driver[p].todo,
         Shape(d), SuccessHasWritten(d)',
         UNCHANGED <<run, task, ledger, handler, broken, lost>>,
         inference' \in [Position -> InferenceStatus],
         \A i \in DOMAIN history : /\ inference'[i] = "IN_FLIGHT" => inference[i] = "IN_FLIGHT"
                                   /\ inference[i] = "SUCCEEDED" => inference'[i] = "SUCCEEDED",
         wrote' \in [Call -> BOOLEAN],
         \A c \in Call : task[c] \in {"SUCCEEDED", "FAILED"} => wrote'[c] = wrote[c]
  PROVE  IInv'
<1>1. PICK e : e = driver[p]
  OBVIOUS
<1>2. e \in Driver /\ Shape(e) /\ Stands(e) /\ e.pc \in Busy /\ d.pc \in Busy /\ d.pc # "handle"
      /\ e.pc # "handle" /\ d.pc # "prepare"
  BY <1>1, Standing DEF Busy, InTry, InTools
<1>3. e.sent = 0 /\ d.sent = 0 /\ e.todo # <<>>
  BY <1>1, <1>2 DEF Shape, InTools
<1>4. /\ driver' \in [Process -> Driver] /\ driver'[p] = d
      /\ \A o \in Process : o # p => driver'[o] = driver[o]
  BY Moved DEF IInv
<1>5. /\ e.run \in Position /\ run[e.run] = "RUNNING" /\ e.run <= Len(history)
  BY <1>1, <1>2, BusyRun
<1>6. TypeOK'
  BY <1>4, Added DEF IInv, TypeOK
<1>7. RowsInv'
  <2>1. HistoryFits'
    BY Added
  <2>2. RunsAreRequested'
    BY <1>1, <1>5, RequestsStay
  <2>3. ResultsFollowTheirReply' /\ ContextIsWhole' /\ BudgetIsKnown'
    BY ResultsStay, ContextStays, BudgetStays
  <2>4. ResultsEndTasks' /\ NoWriteBehindResult'
    BY TasksStay, WritesStay, CallsAreCalls
  <2>5. FinishedRunsAreSettled'
    BY SettledStay, SettledDef
  <2>6. QED
    BY <2>1, <2>2, <2>3, <2>4, <2>5 DEF RowsInv
<1>8. Stands(d)'
  <2>1. ActiveRun' = {d.run}
    BY <1>1, <1>2 DEF Stands, ActiveRun
  <2>2. OpenQuestionIsSent(d)'
    <3>1. OpenQuestionIsSent(e) /\ \A i \in DOMAIN history : i # e.sent
      BY <1>2, <1>3, Added DEF Stands
    <3>2. QED
      BY <1>1, <1>3, <3>1, QuestionStays
  <2>3. OpenCallsAreInHand(d)'
    <3>1. Pending(history)' = Pending(history)
      BY OpenCalls
    <3>2. \A c \in Pending(history) : history'[c[1]] = history[c[1]]
      BY OpenCalls, Added
    <3>3. QED
      BY <1>1, <1>2, <3>1, <3>2 DEF Stands, OpenCallsAreInHand
  <2>4. Batch(d.todo[1][1], d)'
    <3>1. PICK s : s = e.todo[1][1]
      OBVIOUS
    <3>2. Batch(s, e)
      BY <1>2, <1>3, <3>1 DEF Stands
    <3>3. s \in DOMAIN history /\ s \in DOMAIN history' /\ history'[s] = history[s]
      BY <3>2, Added DEF Batch
    <3>4. \A k \in DOMAIN history' : s < k =>
            history'[k].kind \in {"RESULT", "CLASSIFY", "DECISION"} /\ history'[k].run = d.run
      BY <1>1, <3>2, Added DEF Batch
    <3>5. {history'[k].n : k \in {l \in DOMAIN history' : s < l /\ history'[l].kind = "RESULT"}}
            = {history[k].n : k \in {l \in DOMAIN history : s < l /\ history[l].kind = "RESULT"}}
      <4>1. {l \in DOMAIN history' : s < l /\ history'[l].kind = "RESULT"}
              = {l \in DOMAIN history : s < l /\ history[l].kind = "RESULT"}
        BY Added
      <4>2. QED
        BY <4>1, Added
    <3>6. Batch(s, d)'
      BY <1>1, <3>2, <3>3, <3>4, <3>5 DEF Batch
    <3>7. QED
      BY <1>1, <3>1, <3>6
  <2>5. ReadingHolds(d)' /\ Shape(d)'
    BY <1>2 DEF ReadingHolds, Shape
  <2>6. QED
    BY <2>1, <2>2, <2>3, <2>4, <2>5 DEF Stands
<1>9. \A o \in Process : o # p => driver[o].pc \notin Busy
  BY <1>1, <1>2, OthersAreAway DEF IInv
<1>10. DriversInv'
  BY <1>4, <1>8, <1>9, OneMoves DEF IInv
<1>11. QED
  BY <1>6, <1>7, <1>10 DEF IInv

(* A note is saved with the question about it. *)
LEMMA SaveNoteKeeps ==
  ASSUME IInv, NEW p \in Process, SaveNote(p)
  PROVE  IInv'
<1>1. PICK e : e = driver[p]
  OBVIOUS
<1>2. e \in Driver /\ Shape(e) /\ e.pc = "exec" /\ e.todo # <<>> /\ e.pc \in InTools
  BY <1>1, Standing DEF SaveNote, Shape, InTools
<1>3. PICK c : c = Head(e.todo)
  OBVIOUS
<1>4. c \in Call
  BY <1>2, <1>3, HeadTailProperties DEF Driver
<1>5. PICK rec : rec = [kind |-> "CLASSIFY", run |-> e.run, source |-> c[1], n |-> 0,
                        wrote |-> FALSE]
  OBVIOUS
<1>6. rec \in Record
  BY <1>2, <1>4, <1>5, ConversationAssumption DEF Record, Driver, Call
<1>7. Adds(rec)
  BY <1>1, <1>3, <1>5 DEF SaveNote, AppendRecord, WithRecord, NextPosition, Adds
<1>8. PICK d : d = [e EXCEPT !.pc = "classify", !.note = Len(history) + 1]
  OBVIOUS
<1>9. /\ driver' = [driver EXCEPT ![p] = d]
      /\ task[c] = "RUNNING" /\ wrote' = [wrote EXCEPT ![c] = TRUE]
      /\ inference' = [inference EXCEPT ![Len(history) + 1] = "IN_FLIGHT"]
      /\ UNCHANGED <<run, task, ledger, handler, broken, lost>>
  BY <1>1, <1>3, <1>8 DEF SaveNote, SendInference, Claimed, NextPosition, IInv, TypeOK
<1>10. Len(history) + 1 \in Position /\ Len(history) + 1 \notin DOMAIN history
  BY <1>6, <1>7, Added
<1>11. /\ d \in Driver /\ d.pc = "classify" /\ d.outcome = e.outcome
       /\ d.run = e.run /\ d.sent = e.sent /\ d.todo = e.todo /\ d.turns = e.turns
  BY <1>2, <1>8, <1>10 DEF Driver, Busy, InTry, InTools
<1>12. Shape(d) /\ d.pc \in InTools
  BY <1>2, <1>11 DEF Shape, Busy, InTry, InTools, Ending
<1>13. /\ inference' \in [Position -> InferenceStatus]
       /\ \A i \in DOMAIN history : inference'[i] = inference[i]
  BY <1>6, <1>7, <1>9, <1>10, Added DEF IInv, TypeOK, InferenceStatus
<1>14. /\ wrote' \in [Call -> BOOLEAN] /\ wrote'[c]
       /\ \A k \in Call : task[k] \in {"SUCCEEDED", "FAILED"} => wrote'[k] = wrote[k]
  BY <1>4, <1>9 DEF IInv, TypeOK
<1>15. SuccessHasWritten(d)'
  BY <1>3, <1>11, <1>14 DEF SuccessHasWritten
<1>16. UsageKnown(rec.run)
  BY <1>1, <1>5 DEF SaveNote
<1>17. QED
  BY ZenonT(60), <1>1, <1>2, <1>5, <1>6, <1>7, <1>9, <1>11, <1>12, <1>13, <1>14,
     <1>15, <1>16, SideRecordKeeps

(* The decision closes the question about a note. *)
LEMMA DecideKeeps ==
  ASSUME IInv, NEW p \in Process, NEW a \in Answers, Decide(p, a)
  PROVE  IInv'
<1>1. PICK e : e = driver[p]
  OBVIOUS
<1>2. /\ e \in Driver /\ Shape(e) /\ Stands(e) /\ e.pc = "classify" /\ e.todo # <<>>
      /\ e.pc \in InTools /\ e.pc \in Busy
  BY <1>1, Standing DEF Decide, Shape, Busy, InTry, InTools
<1>3. PICK rec : rec = [kind |-> "DECISION", run |-> e.run, source |-> e.note, n |-> 0,
                        wrote |-> FALSE]
  OBVIOUS
<1>4. rec \in Record
  BY <1>2, <1>3, ConversationAssumption DEF Record, Driver
<1>5. Adds(rec)
  BY <1>1, <1>3 DEF Decide, AppendRecord, WithRecord, NextPosition, Adds
<1>6. PICK o \in {"SUCCEEDED", "FAILED"} :
        o = IF a \in {"answered", "failed"} THEN "SUCCEEDED" ELSE "FAILED"
  OBVIOUS
<1>7. PICK r \in {"SUCCEEDED", "FAILED"} : r = IF a = "answered" THEN "SUCCEEDED" ELSE "FAILED"
  OBVIOUS
<1>8. PICK skip \in BOOLEAN : skip = (a = "cancelled")
  OBVIOUS
<1>9. PICK d : d = [e EXCEPT !.pc = "settle", !.note = 0, !.skip = skip, !.outcome = o]
  OBVIOUS
<1>10. /\ driver' = [driver EXCEPT ![p] = d]
       /\ inference[e.note] = "IN_FLIGHT" /\ inference' = [inference EXCEPT ![e.note] = r]
       /\ UNCHANGED <<run, task, wrote, ledger, handler, broken, lost>>
  BY <1>1, <1>6, <1>7, <1>8, <1>9 DEF Decide, FinishInference, IInv, TypeOK
<1>11. /\ d \in Driver /\ d.pc = "settle" /\ d.outcome = o
       /\ d.run = e.run /\ d.sent = e.sent /\ d.todo = e.todo /\ d.turns = e.turns
  BY ZenonT(60), <1>2, <1>9 DEF Driver, Busy, InTry, InTools
<1>12. Shape(d) /\ d.pc \in InTools
  BY <1>2, <1>11 DEF Shape, Busy, InTry, InTools, Ending
<1>13. /\ inference' \in [Position -> InferenceStatus]
       /\ \A i \in DOMAIN history : /\ inference'[i] = "IN_FLIGHT" => inference[i] = "IN_FLIGHT"
                                    /\ inference[i] = "SUCCEEDED" => inference'[i] = "SUCCEEDED"
  BY <1>4, <1>5, <1>10, Added DEF IInv, TypeOK, InferenceStatus
<1>14. /\ wrote' \in [Call -> BOOLEAN]
       /\ \A k \in Call : task[k] \in {"SUCCEEDED", "FAILED"} => wrote'[k] = wrote[k]
  BY <1>10 DEF IInv, TypeOK
<1>15. SuccessHasWritten(d)'
  BY <1>2, <1>10, <1>11 DEF Stands, SuccessHasWritten
<1>16. QED
  BY <1>1, <1>2, <1>3, <1>4, <1>5, <1>10, <1>11, <1>12, <1>13, <1>14, <1>15, SideRecordKeeps

(* The first call in hand. *)
LEMMA CallInHand ==
  ASSUME IInv, NEW e, e \in Driver, Stands(e), e.pc \in Busy, e.todo # <<>>
  PROVE  LET c == Head(e.todo) IN
         /\ c \in Call /\ c = e.todo[1] /\ c = <<c[1], c[2]>> /\ Batch(c[1], e)
         /\ Len(e.todo) \in Nat /\ Len(e.todo) # 0 /\ DOMAIN e.todo = 1 .. Len(e.todo)
         /\ history[c[1]] \in Record /\ history[c[1]].n \in Nat
         /\ c[2] = history[c[1]].n - Len(e.todo) + 1
         /\ c \in CallsIn(history)
<1>1. PICK c : c = Head(e.todo)
  OBVIOUS
<1>2. /\ c = e.todo[1] /\ c \in Call /\ e.todo \in Seq(Call)
      /\ Len(e.todo) \in Nat /\ Len(e.todo) # 0 /\ DOMAIN e.todo = 1 .. Len(e.todo)
  BY <1>1, HeadTailProperties, EmptySeq, ElementOfSeq DEF Driver
<1>3. Batch(c[1], e)
  BY <1>2 DEF Stands
<1>4. c[1] \in DOMAIN history /\ history[c[1]].kind = "REPLY" /\ Len(e.todo) <= history[c[1]].n
  BY <1>3 DEF Batch
<1>5. history[c[1]] \in Record /\ history[c[1]].n \in Nat
  <2>1. history \in Seq(Record)
    BY DEF IInv, TypeOK
  <2>2. history[c[1]] \in Record
    BY <1>4, <2>1, ElementOfSeq
  <2>3. QED
    BY <2>2, ConversationAssumption DEF Record
<1>6. 1 \in DOMAIN e.todo
  BY <1>2
<1>7. c = <<c[1], history[c[1]].n - Len(e.todo) + 1>>
  BY <1>2, <1>3, <1>6 DEF Batch
<1>8. c[2] = history[c[1]].n - Len(e.todo) + 1 /\ c = <<c[1], c[2]>> /\ c[2] \in 1 .. MaxCalls
  BY <1>2, <1>7 DEF Call
<1>9. c \in CallsIn(history)
  <2>1. c[2] <= history[c[1]].n
    BY <1>2, <1>5, <1>8
  <2>2. c \in (DOMAIN history) \X (1 .. MaxCalls)
    BY <1>4, <1>8
  <2>3. QED
    BY <1>4, <2>1, <2>2 DEF CallsIn
<1>10. QED
  BY <1>1, <1>2, <1>3, <1>5, <1>8, <1>9

(* The result follows its reply, and the next call is in hand. *)
LEMMA SettleKeeps ==
  ASSUME IInv, NEW p \in Process, Settle(p)
  PROVE  IInv'
<1>1. PICK e : e = driver[p]
  OBVIOUS
<1>2. /\ e \in Driver /\ Shape(e) /\ Stands(e) /\ e.pc = "settle" /\ e.todo # <<>>
      /\ e.pc \in Busy /\ e.pc # "handle" /\ e.sent = 0 /\ e.outcome \in {"SUCCEEDED", "FAILED"}
  <2>1. e \in Driver /\ Shape(e) /\ Stands(e) /\ e.pc = "settle"
    BY <1>1, Standing DEF Settle
  <2>2. QED
    BY <2>1 DEF Shape, Busy, InTry, InTools, Driver
<1>3. PICK c : c = Head(e.todo)
  OBVIOUS
<1>4. PICK s : s = c[1]
  OBVIOUS
<1>5. /\ c \in Call /\ c = e.todo[1] /\ c = <<s, c[2]>> /\ Batch(s, e)
      /\ Len(e.todo) \in Nat /\ Len(e.todo) # 0 /\ DOMAIN e.todo = 1 .. Len(e.todo)
      /\ history[s] \in Record /\ history[s].n \in Nat
      /\ c[2] = history[s].n - Len(e.todo) + 1
      /\ c \in CallsIn(history)
  BY <1>2, <1>3, <1>4, CallInHand
<1>6. /\ s \in DOMAIN history /\ history[s].kind = "REPLY" /\ history[s].run = e.run
      /\ Len(e.todo) <= history[s].n /\ s \in Position /\ c[2] \in 1 .. MaxCalls
      /\ wrote[c] \in BOOLEAN
  BY <1>4, <1>5 DEF Batch, Call, IInv, TypeOK
<1>7. PICK rec : rec = [kind |-> "RESULT", run |-> e.run, source |-> s, n |-> c[2],
                        wrote |-> wrote[c]]
  OBVIOUS
<1>8. rec \in Record
  BY <1>2, <1>6, <1>7 DEF Record, Driver
<1>9. PICK rest : rest = Tail(e.todo)
  OBVIOUS
<1>10. PICK next \in {"claim", "handle", "loop"} :
         /\ next = AfterCall(e.skip, rest)
         /\ next = "claim" <=> rest # <<>>
  BY DEF AfterCall
<1>11. PICK skip \in BOOLEAN : skip = (e.skip /\ next = "claim")
  BY <1>2 DEF Driver
<1>12. PICK status \in {"STOPPED", "NONE"} : status = IF next = "handle" THEN "STOPPED" ELSE "NONE"
  OBVIOUS
<1>13. PICK d : d = [e EXCEPT !.todo = rest, !.outcome = "NONE", !.pc = next, !.skip = skip,
                              !.status = status]
  OBVIOUS
<1>14. /\ Adds(rec) /\ driver' = [driver EXCEPT ![p] = d]
       /\ task[c] = "RUNNING" /\ task' = [task EXCEPT ![c] = e.outcome]
       /\ UNCHANGED <<run, inference, wrote, ledger, handler, broken, lost>>
  <2>1. Adds(rec)
    BY <1>1, <1>3, <1>4, <1>6, <1>7
       DEF Settle, AppendRecord, WithRecord, NextPosition, Adds
  <2>2. driver' = [driver EXCEPT ![p] = d]
    BY <1>1, <1>9, <1>10, <1>11, <1>12, <1>13 DEF Settle
  <2>3. QED
    BY <1>1, <1>3, <2>1, <2>2 DEF Settle, Claimed
<1>15. /\ rest \in Seq(Call) /\ Len(rest) = Len(e.todo) - 1 /\ DOMAIN rest = 1 .. Len(e.todo) - 1
       /\ \A k \in DOMAIN rest : k + 1 \in DOMAIN e.todo /\ rest[k] = e.todo[k + 1]
       /\ Len(rest) # 0 => 1 \in DOMAIN rest
  <2>1. /\ rest \in Seq(Call) /\ Len(rest) = Len(e.todo) - 1 /\ DOMAIN rest = 1 .. Len(e.todo) - 1
        /\ \A k \in DOMAIN rest : rest[k] = e.todo[k + 1]
    BY <1>2, <1>9, HeadTailProperties, LenProperties DEF Driver
  <2>2. PICK m \in Nat : m = Len(e.todo) /\ m # 0 /\ DOMAIN e.todo = 1 .. m
    BY <1>5
  <2>3. DOMAIN rest = 1 .. m - 1 /\ Len(rest) = m - 1
    BY <2>1, <2>2
  <2>4. \A k \in 1 .. m - 1 : k + 1 \in 1 .. m
    BY <2>2
  <2>5. m - 1 # 0 => 1 \in 1 .. m - 1
    <3>1. m \in Nat /\ m # 0
      BY <2>2
    <3>2. m - 1 # 0 => 1 <= m - 1
      BY <3>1
    <3>3. QED
      BY <3>1, <3>2
  <2>6. QED
    BY <2>1, <2>2, <2>3, <2>4, <2>5
<1>16. /\ d \in Driver /\ d.pc = next /\ d.outcome = "NONE" /\ d.todo = rest
       /\ d.status = status /\ d.run = e.run /\ d.sent = 0
  <2>1. next \in Away \cup Busy \cup {"check", "begin", "read"}
    BY DEF Busy, InTry, InTools
  <2>2. status \in Ended \cup {"NONE"}
    BY DEF Ended
  <2>3. rest \in Seq(Call)
    BY <1>15
  <2>4. QED
    BY ZenonT(60), <1>2, <1>13, <2>1, <2>2, <2>3 DEF Driver
<1>17. Shape(d) /\ d.pc \in Busy
  BY <1>2, <1>10, <1>12, <1>16 DEF Shape, Busy, InTry, InTools, Ending, Ended
<1>18. /\ driver' \in [Process -> Driver] /\ driver'[p] = d
       /\ \A o \in Process : o # p => driver'[o] = driver[o]
  BY <1>14, <1>16, Moved DEF IInv
<1>19. /\ task'[c] = e.outcome /\ \A k \in Call : k # c => task'[k] = task[k]
       /\ \A k \in CallsIn(history) : task[k] \in {"SUCCEEDED", "FAILED"} => task'[k] = task[k]
  <2>1. task'[c] = e.outcome /\ \A k \in Call : k # c => task'[k] = task[k]
    BY <1>5, <1>14 DEF IInv, TypeOK
  <2>2. QED
    BY <1>14, <2>1, CallsAreCalls
<1>20. TypeOK'
  BY <1>2, <1>8, <1>14, <1>18, Added DEF IInv, TypeOK
<1>21. e.run \in Position /\ run[e.run] = "RUNNING" /\ e.run <= Len(history)
  BY <1>1, <1>2, BusyRun
<1>22. ResultFollows(history', Len(history) + 1)
  <2> DEFINE between == {k \in DOMAIN history' : s < k /\ k < Len(history) + 1}
             after == {k \in DOMAIN history : s < k}
  <2>1. between = after
    BY <1>8, <1>14, Added
  <2>2. \A k \in after : history'[k] = history[k]
    BY <1>8, <1>14, Added
  <2>3. /\ s < Len(history) + 1 /\ history'[s] = history[s] /\ history'[Len(history) + 1] = rec
    BY <1>6, <1>8, <1>14, Added
  <2>4. rec.n <= history[s].n /\ rec.n - 1 = history[s].n - Len(e.todo)
    BY <1>5, <1>7
  <2>5. \A k \in after : history[k].kind \in {"RESULT", "CLASSIFY", "DECISION"}
                         /\ history[k].run = e.run
    BY <1>5 DEF Batch
  <2>6. {history'[k].n : k \in {l \in between : history'[l].kind = "RESULT"}} = 1 .. (rec.n - 1)
    <3>1. {l \in between : history'[l].kind = "RESULT"}
            = {l \in DOMAIN history : s < l /\ history[l].kind = "RESULT"}
      BY <2>1, <2>2
    <3>2. {history'[k].n : k \in {l \in between : history'[l].kind = "RESULT"}}
            = {history[k].n : k \in {l \in DOMAIN history : s < l /\ history[l].kind = "RESULT"}}
      BY <2>2, <3>1
    <3>3. QED
      BY <1>5, <2>4, <3>2 DEF Batch
  <2>7. \A k \in between : history'[k].kind \in {"RESULT", "CLASSIFY", "DECISION"}
                           /\ history'[k].run = rec.run
    BY <1>7, <2>1, <2>2, <2>5
  <2> HIDE DEF after
  <2>8. rec.source = s /\ rec.run = e.run
    BY <1>7
  <2>9. QED
    BY <1>6, <2>3, <2>4, <2>6, <2>7, <2>8 DEF ResultFollows
<1>23. RowsInv'
  <2>1. HistoryFits' /\ RunsAreRequested'
    BY <1>7, <1>8, <1>14, <1>21, Added, RequestsStay
  <2>2. ResultsFollowTheirReply' /\ ContextIsWhole' /\ BudgetIsKnown'
    BY <1>7, <1>8, <1>14, <1>22, ResultsStay, ContextStays, BudgetStays
  <2>3. <<rec.source, rec.n>> = c
    BY <1>5, <1>7
  <2>4. ResultsEndTasks'
    BY <1>2, <1>5, <1>8, <1>14, <1>19, <2>3, TasksStay
  <2>5. NoWriteBehindResult'
    <3>1. e.outcome = "SUCCEEDED" => wrote[c]
      BY <1>2, <1>3 DEF Stands, SuccessHasWritten
    <3>2. rec.wrote = wrote[c]
      BY <1>7
    <3>3. QED
      BY <1>8, <1>14, <1>19, <2>3, <3>1, <3>2, WritesStay
  <2>6. FinishedRunsAreSettled'
    BY <1>7, <1>8, <1>14, SettledStay, SettledDef
  <2>7. QED
    BY <2>1, <2>2, <2>4, <2>5, <2>6 DEF RowsInv
<1>24. Stands(d)'
  <2>1. ActiveRun' = {d.run}
    BY <1>2, <1>14, <1>16 DEF Stands, ActiveRun
  <2>2. OpenQuestionIsSent(d)'
    <3>1. OpenQuestionIsSent(e) /\ \A i \in DOMAIN history : i # e.sent
      BY <1>2, <1>8, <1>14, Added DEF Stands
    <3>2. QED
      BY <1>7, <1>8, <1>14, <1>16, <3>1, QuestionStays
  <2>3. OpenCallsAreInHand(d)'
    <3>1. d.run \notin broken'
      BY <1>2, <1>14, <1>16 DEF Stands, OpenCallsAreInHand
    <3>2. ASSUME NEW k \in Pending(history'), history'[k[1]].run = d.run
          PROVE  \E j \in DOMAIN d.todo : d.todo[j] = k
      <4>1. k \in Pending(history) /\ k # c
        <5>1. <<rec.source, rec.n>> = c /\ rec.kind = "RESULT"
          BY <1>5, <1>7
        <5>2. QED
          BY <1>8, <1>14, <3>2, <5>1, OpenCalls
      <4>2. history[k[1]].run = e.run
        BY <1>8, <1>14, <1>16, <3>2, <4>1, OpenCalls, Added
      <4>3. PICK j \in DOMAIN e.todo : e.todo[j] = k
        BY <1>2, <4>1, <4>2 DEF Stands, OpenCallsAreInHand
      <4>4. j - 1 \in DOMAIN rest /\ (j - 1) + 1 = j
        BY SMTT(30), <1>5, <1>15, <4>1, <4>3
      <4>5. rest[j - 1] = k
        BY <1>15, <4>3, <4>4
      <4>6. QED
        BY <1>16, <4>4, <4>5
    <3>3. QED
      BY <3>1, <3>2 DEF OpenCallsAreInHand
  <2>4. ASSUME rest # <<>> PROVE Batch(rest[1][1], d)'
    <3>1. history'[s] = history[s] /\ s \in DOMAIN history'
      BY <1>6, <1>8, <1>14, Added
    <3>2. \A k \in DOMAIN rest : rest[k] = <<s, history[s].n - Len(rest) + k>>
      <4> SUFFICES ASSUME NEW k \in DOMAIN rest PROVE rest[k] = <<s, history[s].n - Len(rest) + k>>
        OBVIOUS
      <4>1. k + 1 \in DOMAIN e.todo /\ rest[k] = e.todo[k + 1]
        BY <1>15
      <4>2. e.todo[k + 1] = <<s, history[s].n - Len(e.todo) + (k + 1)>>
        BY <1>5, <4>1 DEF Batch
      <4>3. history[s].n - Len(e.todo) + (k + 1) = history[s].n - Len(rest) + k
        <5>1. /\ history[s].n \in Nat /\ Len(e.todo) \in Nat /\ Len(rest) = Len(e.todo) - 1
              /\ k \in Int
          BY <1>5, <1>15
        <5>2. QED
          BY SMTT(30), <5>1
      <4>4. QED
        BY <4>1, <4>2, <4>3
    <3>3. rest[1][1] = s
      <4>1. Len(rest) # 0
        BY <1>15, <2>4, EmptySeq
      <4>2. 1 \in DOMAIN rest
        BY <1>15, <4>1
      <4>3. rest[1] = <<s, history[s].n - Len(rest) + 1>>
        BY <3>2, <4>2
      <4>4. QED
        BY <4>3
    <3>4. \A k \in DOMAIN history' : s < k =>
            history'[k].kind \in {"RESULT", "CLASSIFY", "DECISION"} /\ history'[k].run = d.run
      BY <1>5, <1>7, <1>8, <1>14, <1>16, Added DEF Batch
    <3>5. {history'[k].n : k \in {l \in DOMAIN history' : s < l /\ history'[l].kind = "RESULT"}}
            = 1 .. (history[s].n - Len(rest))
      <4> DEFINE old == {l \in DOMAIN history : s < l /\ history[l].kind = "RESULT"}
                 new == {l \in DOMAIN history' : s < l /\ history'[l].kind = "RESULT"}
      <4>1. new = old \cup {Len(history) + 1}
        BY <1>6, <1>7, <1>8, <1>14, Added
      <4>2. \A l \in old : history'[l] = history[l]
        BY <1>8, <1>14, Added
      <4>3. history'[Len(history) + 1].n = c[2]
        BY <1>7, <1>8, <1>14, Added
      <4>4. {history[l].n : l \in old} = 1 .. (history[s].n - Len(e.todo))
        BY <1>5 DEF Batch
      <4> HIDE DEF old, new
      <4>5. {history'[k].n : k \in new} = {history[l].n : l \in old} \cup {c[2]}
        BY <4>1, <4>2, <4>3
      <4>6. 1 .. (history[s].n - Len(rest)) = 1 .. (history[s].n - Len(e.todo)) \cup {c[2]}
        BY <1>5, <1>6, <1>15
      <4>7. QED
        BY <4>4, <4>5, <4>6 DEF new
    <3>6. Len(rest) <= history[s].n
      BY <1>5, <1>6, <1>15
    <3>7. Batch(s, d)'
      BY <1>6, <1>16, <3>1, <3>2, <3>4, <3>5, <3>6 DEF Batch
    <3>8. QED
      BY <3>3, <3>7
  <2>5. ReadingHolds(d)' /\ SuccessHasWritten(d)' /\ Shape(d)'
    BY <1>10, <1>16, <1>17 DEF ReadingHolds, SuccessHasWritten, Shape
  <2>6. QED
    BY <1>16, <2>1, <2>2, <2>3, <2>4, <2>5 DEF Stands
<1>25. \A o \in Process : o # p => driver[o].pc \notin Busy
  BY <1>1, <1>2, OthersAreAway DEF IInv
<1>26. DriversInv'
  BY <1>18, <1>24, <1>25, OneMoves DEF IInv
<1>27. QED
  BY <1>20, <1>23, <1>26 DEF IInv

-----------------------------------------------------------------------------
(* Steps that ask, answer, begin and end.                                  *)

(* The question is saved after the last record its driver has seen, and it *)
(* is the only open one of the run.                                        *)
LEMMA PrepareKeeps ==
  ASSUME IInv, NEW p \in Process, Prepare(p)
  PROVE  IInv'
<1>1. PICK e : e = driver[p]
  OBVIOUS
<1>2. /\ e \in Driver /\ Shape(e) /\ Stands(e) /\ e.pc = "prepare" /\ e.pc \in Busy
      /\ e.sent = 0 /\ e.todo = <<>> /\ e.outcome = "NONE" /\ e.turns < MaxTurns
  <2>1. e \in Driver /\ Shape(e) /\ Stands(e) /\ e.pc = "prepare"
    BY <1>1, Standing DEF Prepare
  <2>2. QED
    BY <2>1 DEF Shape, Busy, InTry, InTools
<1>3. /\ e.view = Len(history) /\ Pending(history) = {} /\ UsageKnown(e.run)
      /\ ActiveRun = {e.run} /\ OpenQuestionIsSent(e) /\ e.run \notin broken
  BY <1>2 DEF Stands, ReadingHolds, OpenCallsAreInHand
<1>4. PICK rec : rec = [kind |-> "ASK", run |-> e.run, source |-> e.view, n |-> 0, wrote |-> FALSE]
  OBVIOUS
<1>5. rec \in Record
  BY <1>2, <1>4, ConversationAssumption DEF Record, Driver
<1>6. Adds(rec)
  BY <1>1, <1>4 DEF Prepare, AppendRecord, WithRecord, NextPosition, Adds
<1>7. /\ Len(history) + 1 \in Position /\ Len(history) + 1 \notin DOMAIN history
      /\ Len(history) + 1 # 0
  BY <1>5, <1>6, Added
<1>8. PICK d : d = [e EXCEPT !.pc = "await", !.sent = Len(history) + 1, !.view = 0]
  OBVIOUS
<1>9. /\ driver' = [driver EXCEPT ![p] = d]
      /\ inference' = [inference EXCEPT ![Len(history) + 1] = "IN_FLIGHT"]
      /\ UNCHANGED <<run, task, wrote, ledger, handler, broken, lost>>
  BY <1>1, <1>8 DEF Prepare, SendInference, NextPosition, IInv, TypeOK
<1>10. /\ d \in Driver /\ d.pc = "await" /\ d.sent = Len(history) + 1 /\ d.run = e.run
       /\ d.todo = <<>> /\ d.outcome = "NONE" /\ d.turns = e.turns
  BY ZenonT(60), <1>2, <1>7, <1>8 DEF Driver, Busy, InTry, InTools
<1>11. Shape(d) /\ d.pc \in Busy
  BY <1>2, <1>7, <1>10 DEF Shape, Busy, InTry, InTools, Ending
<1>12. /\ inference' \in [Position -> InferenceStatus]
       /\ \A i \in DOMAIN history : inference'[i] = inference[i]
       /\ inference'[Len(history) + 1] = "IN_FLIGHT"
  BY <1>5, <1>6, <1>7, <1>9, Added DEF IInv, TypeOK, InferenceStatus
<1>13. /\ driver' \in [Process -> Driver] /\ driver'[p] = d
       /\ \A o \in Process : o # p => driver'[o] = driver[o]
  BY <1>9, <1>10, Moved DEF IInv
<1>14. /\ e.run \in Position /\ run[e.run] = "RUNNING" /\ e.run <= Len(history)
  BY <1>1, <1>2, BusyRun
<1>15. TypeOK'
  BY <1>5, <1>6, <1>9, <1>12, <1>13, Added DEF IInv, TypeOK
<1>16. RowsInv'
  <2>1. HistoryFits' /\ RunsAreRequested'
    BY <1>4, <1>5, <1>6, <1>9, <1>14, Added, RequestsStay
  <2>2. ResultsFollowTheirReply' /\ ContextIsWhole'
    BY <1>3, <1>4, <1>5, <1>6, ResultsStay, ContextStays
  <2>3. BudgetIsKnown'
    BY <1>3, <1>4, <1>5, <1>6, <1>12, BudgetStays
  <2>4. ResultsEndTasks' /\ NoWriteBehindResult'
    BY <1>4, <1>5, <1>6, <1>9, TasksStay, WritesStay
  <2>5. FinishedRunsAreSettled'
    BY <1>4, <1>5, <1>6, <1>9, <1>12, <1>14, SettledStay, SettledDef DEF Ended
  <2>6. QED
    BY <2>1, <2>2, <2>3, <2>4, <2>5 DEF RowsInv
<1>17. Stands(d)'
  <2>1. ActiveRun' = {d.run}
    BY <1>3, <1>9, <1>10 DEF ActiveRun
  <2>2. OpenQuestionIsSent(d)'
    <3>1. ASSUME NEW i \in DOMAIN history', history'[i].kind = "ASK", history'[i].run = d.run,
                 inference'[i] = "IN_FLIGHT"
          PROVE  i = d.sent
      <4>1. CASE i \in DOMAIN history
        <5>1. history[i].kind = "ASK" /\ history[i].run = e.run /\ inference[i] = "IN_FLIGHT"
          BY <1>5, <1>6, <1>10, <1>12, <3>1, <4>1, Added
        <5>2. QED
          BY <1>2, <1>3, <4>1, <5>1 DEF UsageKnown
      <4>2. QED
        BY <1>5, <1>6, <1>10, <4>1, Added
    <3>2. d.sent \in DOMAIN history' /\ history'[d.sent] = rec
      BY <1>5, <1>6, <1>10, Added
    <3>3. QED
      BY <1>4, <1>10, <1>12, <3>1, <3>2 DEF OpenQuestionIsSent
  <2>3. OpenCallsAreInHand(d)'
    <3>1. Pending(history)' = {}
      BY <1>3, <1>4, <1>5, <1>6, OpenCalls
    <3>2. QED
      BY <1>3, <1>9, <1>10, <3>1 DEF OpenCallsAreInHand
  <2>4. ReadingHolds(d)' /\ SuccessHasWritten(d)' /\ Shape(d)'
    BY <1>10, <1>11 DEF ReadingHolds, SuccessHasWritten, Shape
  <2>5. QED
    BY <1>10, <2>1, <2>2, <2>3, <2>4 DEF Stands
<1>18. \A o \in Process : o # p => driver[o].pc \notin Busy
  BY <1>1, <1>2, OthersAreAway DEF IInv
<1>19. DriversInv'
  BY <1>13, <1>17, <1>18, OneMoves DEF IInv
<1>20. QED
  BY <1>15, <1>16, <1>19 DEF IInv

(* The reply closes its question, and its calls are the driver's.          *)
LEMMA AcceptKeeps ==
  ASSUME IInv, NEW p \in Process, Accept(p)
  PROVE  IInv'
<1>1. PICK e : e = driver[p]
  OBVIOUS
<1>2. /\ e \in Driver /\ Shape(e) /\ Stands(e) /\ e.pc = "accept" /\ e.pc \in Busy
      /\ e.sent # 0 /\ e.todo = <<>> /\ e.outcome = "NONE" /\ e.calls \in 0 .. MaxCalls
  <2>1. e \in Driver /\ Shape(e) /\ Stands(e) /\ e.pc = "accept"
    BY <1>1, Standing DEF Accept
  <2>2. QED
    BY <2>1 DEF Shape, Busy, InTry, InTools, Driver
<1>3. /\ ActiveRun = {e.run} /\ OpenQuestionIsSent(e) /\ OpenCallsAreInHand(e)
      /\ e.run \notin broken
      /\ e.sent \in DOMAIN history
  BY <1>2 DEF Stands, OpenCallsAreInHand, OpenQuestionIsSent
<1>4. PICK rec : rec = [kind |-> "REPLY", run |-> e.run, source |-> e.sent, n |-> e.calls,
                        wrote |-> FALSE]
  OBVIOUS
<1>5. rec \in Record
  BY <1>2, <1>4 DEF Record, Driver
<1>6. PICK next \in {"finish", "claim"} : next = IF e.calls = 0 THEN "finish" ELSE "claim"
  OBVIOUS
<1>7. PICK status \in {"COMPLETED", "NONE"} : status = IF e.calls = 0 THEN "COMPLETED" ELSE "NONE"
  OBVIOUS
<1>8. PICK todo : todo = [k \in 1 .. e.calls |-> <<Len(history) + 1, k>>]
  OBVIOUS
<1>9. PICK d : d = [e EXCEPT !.sent = 0, !.calls = 0, !.pc = next, !.status = status, !.todo = todo]
  OBVIOUS
<1>10. /\ Adds(rec) /\ driver' = [driver EXCEPT ![p] = d]
       /\ inference' = [inference EXCEPT ![e.sent] = "SUCCEEDED"]
       /\ task' = [c \in Call |->
            IF c[1] = Len(history) + 1 /\ c[2] <= e.calls THEN "READY" ELSE task[c]]
       /\ UNCHANGED <<run, wrote, ledger, handler, broken, lost>>
  <2>1. Adds(rec)
    BY <1>1, <1>4 DEF Accept, AppendRecord, WithRecord, NextPosition, Adds
  <2>2. driver' = [driver EXCEPT ![p] = d]
    BY <1>1, <1>6, <1>7, <1>8, <1>9 DEF Accept, NextPosition
  <2>3. QED
    BY <1>1, <2>1, <2>2 DEF Accept, FinishInference, NextPosition
<1>11. Len(history) + 1 \in Position /\ Len(history) + 1 \notin DOMAIN history
  BY <1>5, <1>10, Added
<1>12. /\ todo \in Seq(Call) /\ Len(todo) = e.calls /\ DOMAIN todo = 1 .. e.calls
       /\ \A k \in 1 .. e.calls : todo[k] = <<Len(history) + 1, k>>
       /\ todo = <<>> <=> e.calls = 0
  <2>1. e.calls \in Nat /\ \A k \in 1 .. e.calls : k \in 1 .. MaxCalls
    BY <1>2, ConversationAssumption
  <2>2. \A k \in 1 .. e.calls : <<Len(history) + 1, k>> \in Call
    BY <1>11, <2>1 DEF Call
  <2>3. todo \in Seq(Call)
    BY <1>8, <2>1, <2>2, IsASeq
  <2>4. Len(todo) = e.calls /\ DOMAIN todo = 1 .. e.calls
    BY <1>8, <2>1, <2>3, LenProperties
  <2>5. QED
    BY <1>8, <2>1, <2>3, <2>4, EmptySeq
<1>13. /\ d \in Driver /\ d.pc = next /\ d.status = status /\ d.sent = 0 /\ d.todo = todo
       /\ d.run = e.run /\ d.outcome = "NONE" /\ d.turns = e.turns
  <2>1. next \in Away \cup Busy \cup {"check", "begin", "read"}
    BY DEF Busy, InTry, InTools
  <2>2. status \in Ended \cup {"NONE"}
    BY DEF Ended
  <2>3. 0 \in 0 .. MaxCalls
    BY ConversationAssumption
  <2>4. QED
    BY <1>2, <1>9, <1>12, <2>1, <2>2, <2>3 DEF Driver
<1>14. Shape(d) /\ d.pc \in Busy /\ d.pc # "handle" /\ d.pc # "prepare" /\ d.pc # "classify"
  BY <1>2, <1>6, <1>7, <1>12, <1>13 DEF Shape, Busy, InTry, InTools, Ending, Ended
<1>15. /\ inference' \in [Position -> InferenceStatus]
       /\ \A i \in DOMAIN history :
            /\ inference'[i] = "IN_FLIGHT" => inference[i] = "IN_FLIGHT" /\ i # e.sent
            /\ inference[i] = "SUCCEEDED" => inference'[i] = "SUCCEEDED"
  BY <1>5, <1>10, Added DEF IInv, TypeOK, InferenceStatus
<1>16. /\ task' \in [Call -> {"ABSENT", "READY", "RUNNING", "SUCCEEDED", "FAILED"}]
       /\ \A c \in CallsIn(history) : task'[c] = task[c]
  <2>1. \A c \in CallsIn(history) : c \in Call /\ c[1] # Len(history) + 1
    BY <1>11, CallsAreCalls DEF CallsIn
  <2>2. QED
    BY <1>10, <2>1 DEF IInv, TypeOK
<1>17. /\ driver' \in [Process -> Driver] /\ driver'[p] = d
       /\ \A o \in Process : o # p => driver'[o] = driver[o]
  BY <1>10, <1>13, Moved DEF IInv
<1>18. /\ e.run \in Position /\ run[e.run] = "RUNNING" /\ e.run <= Len(history)
  BY <1>1, <1>2, BusyRun
<1>19. TypeOK'
  BY <1>5, <1>10, <1>15, <1>16, <1>17, Added DEF IInv, TypeOK
<1>20. RowsInv'
  <2>1. HistoryFits' /\ RunsAreRequested'
    BY <1>4, <1>5, <1>10, <1>18, Added, RequestsStay
  <2>2. ResultsFollowTheirReply' /\ ContextIsWhole' /\ BudgetIsKnown'
    BY <1>4, <1>5, <1>10, <1>15, ResultsStay, ContextStays, BudgetStays
  <2>3. ResultsEndTasks' /\ NoWriteBehindResult'
    BY <1>4, <1>5, <1>10, <1>16, TasksStay, WritesStay
  <2>4. FinishedRunsAreSettled'
    BY <1>4, <1>5, <1>10, <1>15, <1>18, SettledStay, SettledDef DEF Ended
  <2>5. QED
    BY <2>1, <2>2, <2>3, <2>4 DEF RowsInv
<1>21. Stands(d)'
  <2>1. ActiveRun' = {d.run}
    BY <1>3, <1>10, <1>13 DEF ActiveRun
  <2>2. OpenQuestionIsSent(d)'
    BY <1>3, <1>4, <1>5, <1>10, <1>13, <1>15, QuestionStays
  <2>3. OpenCallsAreInHand(d)'
    <3>1. ASSUME NEW c \in Pending(history'), history'[c[1]].run = d.run
          PROVE  \E k \in DOMAIN d.todo : d.todo[k] = c
      <4>1. CASE c \in Pending(history)
        <5>1. history[c[1]].run = e.run
          BY <1>5, <1>10, <1>13, <3>1, <4>1, OpenCalls, Added
        <5>2. \E k \in DOMAIN e.todo : e.todo[k] = c
          BY <1>3, <4>1, <5>1 DEF OpenCallsAreInHand
        <5>3. QED
          BY <1>2, <5>2
      <4>2. CASE \E k \in 1 .. rec.n : c = <<Len(history) + 1, k>>
        BY <1>4, <1>12, <1>13, <4>2
      <4>3. QED
        BY <1>5, <1>10, <3>1, <4>1, <4>2, OpenCalls
    <3>2. d.run \notin broken'
      BY <1>3, <1>10, <1>13
    <3>3. QED
      BY <3>1, <3>2 DEF OpenCallsAreInHand
  <2>4. ASSUME d.todo # <<>> PROVE Batch(d.todo[1][1], d)'
    <3>1. PICK s : s = Len(history) + 1
      OBVIOUS
    <3>2. /\ s \in DOMAIN history' /\ history'[s] = rec
          /\ \A k \in DOMAIN history' : ~(s < k)
      BY <1>5, <1>10, <3>1, Added
    <3>3. d.todo[1][1] = s
      <4>1. 1 \in 1 .. e.calls
        BY <1>2, <1>12, <1>13, <2>4
      <4>2. QED
        BY <1>12, <1>13, <3>1, <4>1
    <3>4. history'[s].n - Len(d.todo) = 0 /\ Len(d.todo) <= history'[s].n
      BY <1>2, <1>4, <1>12, <1>13, <3>2
    <3>5. \A k \in DOMAIN d.todo : d.todo[k] = <<s, history'[s].n - Len(d.todo) + k>>
      <4>1. \A k \in 1 .. e.calls : history'[s].n - Len(d.todo) + k = k
        BY <3>4
      <4>2. DOMAIN d.todo = 1 .. e.calls /\ \A k \in 1 .. e.calls : d.todo[k] = <<s, k>>
        BY <1>12, <1>13, <3>1
      <4>3. QED
        BY <4>1, <4>2
    <3>6. {history'[k].n : k \in {l \in DOMAIN history' : s < l /\ history'[l].kind = "RESULT"}}
            = 1 .. (history'[s].n - Len(d.todo))
      BY <3>2, <3>4
    <3>7. Batch(s, d)'
      BY <1>4, <1>13, <3>2, <3>4, <3>5, <3>6 DEF Batch
    <3>8. QED
      BY <3>3, <3>7
  <2>5. ReadingHolds(d)' /\ SuccessHasWritten(d)' /\ Shape(d)'
    BY <1>13, <1>14 DEF ReadingHolds, SuccessHasWritten, Shape
  <2>6. QED
    BY <2>1, <2>2, <2>3, <2>4, <2>5 DEF Stands
<1>22. \A o \in Process : o # p => driver[o].pc \notin Busy
  BY <1>1, <1>2, OthersAreAway DEF IInv
<1>23. DriversInv'
  BY <1>17, <1>21, <1>22, OneMoves DEF IInv
<1>24. QED
  BY <1>19, <1>20, <1>23 DEF IInv

(* The run ends with its question closed and, unless an error cut a batch  *)
(* short, with no call open; nobody drives it any more.                    *)
LEMMA FinishRunKeeps ==
  ASSUME IInv, NEW p \in Process, FinishRun(p)
  PROVE  IInv'
<1>1. PICK e : e = driver[p]
  OBVIOUS
<1>2. /\ e \in Driver /\ Shape(e) /\ Stands(e) /\ e.pc \in Ending /\ e.pc \in Busy
      /\ e.sent = 0 /\ e.todo = <<>> /\ e.status \in Ended
  <2>1. e \in Driver /\ Shape(e) /\ Stands(e) /\ e.pc \in Ending /\ e.sent = 0
    BY <1>1, Standing DEF FinishRun
  <2>2. QED
    BY <2>1 DEF Shape, Ending, Busy, InTry, InTools
<1>3. PICK rec : rec = [kind |-> "FINISHED", run |-> e.run, source |-> 0, n |-> 0, wrote |-> FALSE]
  OBVIOUS
<1>4. rec \in Record
  BY <1>2, <1>3, ConversationAssumption DEF Record, Driver
<1>5. e.run \in Position /\ run[e.run] = "RUNNING" /\ e.run <= Len(history)
  BY <1>1, <1>2, BusyRun
<1>6. /\ Adds(rec) /\ driver' = Leave(p)
      /\ run' = [run EXCEPT ![e.run] = e.status]
      /\ UNCHANGED <<inference, task, wrote, ledger, handler, broken, lost>>
  BY <1>1, <1>3, <1>5 DEF FinishRun, AppendRecord, WithRecord, NextPosition, Adds
<1>7. /\ run' \in [Position -> RunStatus]
      /\ \A r \in Position : run'[r] = IF r = e.run THEN e.status ELSE run[r]
  BY <1>2, <1>5, <1>6 DEF IInv, TypeOK, RunStatus
<1>8. \A r \in Position : run'[r] = "ABSENT" <=> run[r] = "ABSENT"
  BY <1>2, <1>5, <1>7 DEF Ended
<1>9. PICK d : d = Idle
  OBVIOUS
<1>10. d \in Driver /\ Shape(d) /\ d.pc \notin Busy /\ driver' = [driver EXCEPT ![p] = d]
  BY <1>6, <1>9, AwayShapes DEF Leave
<1>11. /\ driver' \in [Process -> Driver] /\ driver'[p] = d
       /\ \A o \in Process : o # p => driver'[o] = driver[o]
  BY <1>10, Moved DEF IInv
<1>12. TypeOK'
  BY <1>4, <1>6, <1>7, <1>11, Added DEF IInv, TypeOK
<1>13. \A r \in Position : run'[r] \in Ended => RunSettled(r)
  <2>1. RunSettled(e.run)
    <3>1. \A i \in DOMAIN history : i # 0
      BY <1>4, <1>6, Added DEF Position
    <3>2. \A i \in DOMAIN history :
            history[i].kind = "ASK" /\ history[i].run = e.run => inference[i] # "IN_FLIGHT"
      BY <1>2, <3>1 DEF Stands, OpenQuestionIsSent
    <3>3. e.run \notin broken => \A c \in Pending(history) : history[c[1]].run # e.run
      BY <1>2 DEF Stands, OpenCallsAreInHand
    <3>4. QED
      BY <3>2, <3>3 DEF RunSettled
  <2>2. QED
    BY <1>7, <2>1, SettledDef
<1>14. RowsInv'
  <2>1. HistoryFits' /\ RunsAreRequested'
    BY <1>3, <1>4, <1>5, <1>6, <1>8, Added, RequestsStay
  <2>2. ResultsFollowTheirReply' /\ ContextIsWhole' /\ BudgetIsKnown'
    BY <1>3, <1>4, <1>6, ResultsStay, ContextStays, BudgetStays
  <2>3. ResultsEndTasks' /\ NoWriteBehindResult'
    BY <1>3, <1>4, <1>6, TasksStay, WritesStay
  <2>4. FinishedRunsAreSettled'
    BY <1>3, <1>4, <1>6, <1>13, SettledStay
  <2>5. QED
    BY <2>1, <2>2, <2>3, <2>4 DEF RowsInv
<1>15. Stands(d)'
  BY <1>10, AwayStands
<1>16. \A o \in Process : o # p => driver[o].pc \notin Busy
  BY <1>1, <1>2, OthersAreAway DEF IInv
<1>17. DriversInv'
  BY <1>11, <1>15, <1>16, OneMoves DEF IInv
<1>18. QED
  BY <1>12, <1>14, <1>17 DEF IInv

(* Only a run that has begun can have had its tool batch cut short.        *)
BrokenRunsBegan == \A r \in broken : run[r] # "ABSENT"

(* At most one run of the thread is active, driven or not. *)
OneActiveRun == \A r, s \in Position : run[r] = "RUNNING" /\ run[s] = "RUNNING" => r = s

RunsInv == BrokenRunsBegan /\ OneActiveRun

(* The request's run is new: nothing in the history is its, and nobody is  *)
(* driving.                                                                *)
LEMMA BeginAnewKeeps ==
  ASSUME IInv, RunsInv, NEW p \in Process, Begin(p), ~Seen(driver[p].req), Free
  PROVE  IInv'
<1>1. PICK e : e = driver[p]
  OBVIOUS
<1>2. PICK q : q = e.req
  OBVIOUS
<1>3. PICK n : n = Len(history) + 1
  OBVIOUS
<1>4. /\ e \in Driver /\ Shape(e) /\ e.pc = "begin" /\ q \in Request
      /\ e.sent = 0 /\ e.todo = <<>> /\ e.outcome = "NONE"
  <2>1. e \in Driver /\ Shape(e) /\ e.pc = "begin"
    BY <1>1, Standing DEF Begin
  <2>2. QED
    BY <1>2, <2>1 DEF Shape, InTools
<1>5. PICK rec : rec = [kind |-> "USER", run |-> n, source |-> 0, n |-> 0, wrote |-> FALSE]
  OBVIOUS
<1>6. PICK d : d = [e EXCEPT !.pc = "loop", !.run = n]
  OBVIOUS
<1>7. /\ Adds(rec) /\ driver' = [driver EXCEPT ![p] = d]
      /\ run' = [run EXCEPT ![n] = "RUNNING"]
      /\ ledger[q] = 0 /\ ledger' = [ledger EXCEPT ![q] = n]
      /\ UNCHANGED <<inference, task, wrote, handler, broken, lost>>
  <2>1. Adds(rec)
    BY <1>1, <1>2, <1>3, <1>5 DEF Begin, AppendRecord, WithRecord, NextPosition, Adds
  <2>2. driver' = [driver EXCEPT ![p] = d]
    BY <1>1, <1>3, <1>6 DEF Begin, NextPosition, IInv, TypeOK
  <2>3. QED
    BY <1>1, <1>2, <1>3, <2>1, <2>2 DEF Begin, NextPosition, Seen
<1>8. n \in Position /\ rec \in Record
  <2>1. n \in Position
    BY <1>3, <1>7, ConversationAssumption DEF Adds, IInv, TypeOK, Position
  <2>2. QED
    BY <1>5, <2>1, ConversationAssumption DEF Record
<1>9. n \notin DOMAIN history /\ n # 0 /\ \A i \in Nat : i <= Len(history) => i # n /\ i <= n
  BY <1>3, <1>7, <1>8, Added
<1>10. /\ d \in Driver /\ d.pc = "loop" /\ d.run = n /\ d.sent = 0 /\ d.todo = <<>>
       /\ d.outcome = "NONE"
  BY <1>4, <1>6, <1>8 DEF Driver, Busy, InTry
<1>11. Shape(d) /\ d.pc \in Busy
  BY <1>9, <1>10 DEF Shape, Busy, InTry, InTools, Ending
<1>12. /\ driver' \in [Process -> Driver] /\ driver'[p] = d
       /\ \A o \in Process : o # p => driver'[o] = driver[o]
  BY <1>7, <1>10, Moved DEF IInv
<1>13. /\ run' \in [Position -> RunStatus] /\ run'[n] = "RUNNING"
       /\ \A r \in Position : r # n => run'[r] = run[r]
  BY <1>7, <1>8 DEF IInv, TypeOK, RunStatus
<1>14. /\ ledger' \in [Request -> {0} \cup Position] /\ ledger'[q] = n
       /\ \A o \in Request : o # q => ledger'[o] = ledger[o]
  BY <1>4, <1>7, <1>8 DEF IInv, TypeOK
<1>15. /\ \A r \in Position : run[r] # "ABSENT" => r # n /\ r <= n
       /\ \A o \in Request : ledger[o] # 0 => ledger[o] \in Position /\ ledger[o] # n
       /\ \A i \in DOMAIN history : history[i].run # n /\ history[i].run <= n
  <2>1. /\ \A r \in Position : r \in Nat
        /\ \A o \in Request : ledger[o] # 0 => ledger[o] \in Position
        /\ \A i \in DOMAIN history : history[i].run \in Nat
    <3>1. history \in Seq(Record) /\ ledger \in [Request -> {0} \cup Position]
      BY DEF IInv, TypeOK
    <3>2. \A r \in Position : r \in Nat
      BY DEF Position
    <3>3. \A i \in DOMAIN history : history[i] \in Record
      BY <3>1, ElementOfSeq
    <3>4. \A x \in Record : x.run \in Nat
      BY <3>2 DEF Record
    <3>5. QED
      BY <3>1, <3>2, <3>3, <3>4
  <2>2. \A r \in Position : run[r] # "ABSENT" => r # n /\ r <= n
    BY <1>9, <2>1 DEF IInv, RowsInv, RunsAreRequested
  <2>3. \A i \in DOMAIN history : history[i].run # n /\ history[i].run <= n
    BY <1>9, <2>1 DEF IInv, RowsInv, RunsAreRequested
  <2>4. QED
    BY <2>1, <2>2, <2>3 DEF IInv, RowsInv, RunsAreRequested
<1>16. TypeOK'
  BY <1>7, <1>8, <1>12, <1>13, <1>14, Added DEF IInv, TypeOK
<1>17. RunsAreRequested'
  <2>1. Len(history') = n
    BY <1>3, <1>7, <1>8, Added
  <2>2. \A r \in Position : run'[r] # "ABSENT" => r <= Len(history')
    BY <1>8, <1>13, <1>15, <2>1 DEF Position
  <2>3. ASSUME NEW r \in Position, run'[r] # "ABSENT" PROVE \E o \in Request : ledger'[o] = r
    <3>1. CASE r = n
      BY <1>4, <1>14, <3>1
    <3>2. CASE r # n
      <4>1. PICK o \in Request : ledger[o] = r
        BY <1>13, <2>3, <3>2 DEF IInv, RowsInv, RunsAreRequested
      <4>2. o # q
        BY <1>7, <4>1 DEF Position
      <4>3. QED
        BY <1>14, <4>1, <4>2
    <3>3. QED
      BY <3>1, <3>2
  <2>4. \A o \in Request : ledger'[o] # 0 => run'[ledger'[o]] # "ABSENT"
    BY <1>13, <1>14, <1>15 DEF IInv, RowsInv, RunsAreRequested
  <2>5. \A o, k \in Request : ledger'[o] = ledger'[k] /\ ledger'[o] # 0 => o = k
    BY <1>14, <1>15 DEF IInv, RowsInv, RunsAreRequested
  <2>6. \A i \in DOMAIN history' : history'[i].run <= Len(history')
    <3>1. rec.run <= n
      BY <1>5, <1>8 DEF Position
    <3>2. QED
      BY <1>7, <1>8, <1>15, <2>1, <3>1, Added
  <2>7. QED
    BY <2>2, <2>3, <2>4, <2>5, <2>6 DEF RunsAreRequested
<1>18. RowsInv'
  <2>1. HistoryFits'
    BY <1>7, <1>8, Added
  <2>2. ResultsFollowTheirReply' /\ ContextIsWhole' /\ BudgetIsKnown'
    BY <1>5, <1>7, <1>8, ResultsStay, ContextStays, BudgetStays
  <2>3. ResultsEndTasks' /\ NoWriteBehindResult'
    BY <1>5, <1>7, <1>8, TasksStay, WritesStay
  <2>4. FinishedRunsAreSettled'
    <3>1. \A r \in Position : run'[r] \in Ended => RunSettled(r)
      BY <1>13, SettledDef DEF Ended
    <3>2. QED
      BY <1>5, <1>7, <1>8, <3>1, SettledStay
  <2>5. QED
    BY <1>17, <2>1, <2>2, <2>3, <2>4 DEF RowsInv
<1>19. Stands(d)'
  <2>1. ActiveRun' = {d.run}
    BY <1>8, <1>10, <1>13 DEF Free, ActiveRun
  <2>2. OpenQuestionIsSent(d)'
    <3>1. \A i \in DOMAIN history' : history'[i].kind = "ASK" => history'[i].run # d.run
      BY <1>5, <1>7, <1>8, <1>10, <1>15, Added
    <3>2. QED
      BY <1>10, <3>1 DEF OpenQuestionIsSent
  <2>3. OpenCallsAreInHand(d)'
    <3>1. n \notin broken'
      BY <1>7, <1>8, <1>15 DEF RunsInv, BrokenRunsBegan
    <3>2. Pending(history') = Pending(history)
      BY <1>5, <1>7, <1>8, OpenCalls
    <3>3. \A c \in Pending(history) : history'[c[1]].run # n
      BY <1>7, <1>8, <1>15, OpenCalls, Added
    <3>4. QED
      BY <1>10, <3>1, <3>2, <3>3 DEF OpenCallsAreInHand
  <2>4. ReadingHolds(d)' /\ SuccessHasWritten(d)' /\ Shape(d)'
    BY <1>10, <1>11 DEF ReadingHolds, SuccessHasWritten, Shape
  <2>5. QED
    BY <1>10, <2>1, <2>2, <2>3, <2>4 DEF Stands
<1>20. \A o \in Process : o # p => driver[o].pc \notin Busy
  BY DEF Free, IInv, DriversInv, Stands
<1>21. DriversInv'
  BY <1>12, <1>19, <1>20, OneMoves DEF IInv
<1>22. QED
  BY <1>16, <1>18, <1>21 DEF IInv

(* A request seen before names its run, and a new one may be refused.      *)
LEMMA BeginKeeps ==
  ASSUME IInv, RunsInv, NEW p \in Process, Begin(p)
  PROVE  IInv'
<1>1. PICK e : e = driver[p]
  OBVIOUS
<1>2. /\ e \in Driver /\ Shape(e) /\ e.pc = "begin" /\ e.req \in Request
      /\ e.sent = 0 /\ e.todo = <<>> /\ e.outcome = "NONE"
  <2>1. e \in Driver /\ Shape(e) /\ e.pc = "begin"
    BY <1>1, Standing DEF Begin
  <2>2. QED
    BY <2>1 DEF Shape, InTools
<1>3. handler' \in [Call -> Process \cup {NoProcess}] /\ UNCHANGED <<broken, lost>>
  BY DEF Begin, IInv, TypeOK
<1>4. CASE Seen(e.req)
  <2>1. PICK r : r = ledger[e.req]
    OBVIOUS
  <2>2. r \in Position /\ r # 0
    BY <1>2, <1>4, <2>1 DEF Seen, IInv, TypeOK
  <2>3. PICK d : d = [e EXCEPT !.pc = "read", !.run = r]
    OBVIOUS
  <2>4. driver' = [driver EXCEPT ![p] = d] /\ UNCHANGED rows
    BY <1>1, <1>4, <2>1, <2>3 DEF Begin, IInv, TypeOK
  <2>5. /\ d \in Driver /\ d.pc = "read" /\ d.run = r /\ d.sent = 0 /\ d.todo = <<>>
        /\ d.outcome = "NONE"
    BY <1>2, <2>2, <2>3 DEF Driver
  <2>6. Shape(d) /\ d.pc \notin Busy
    BY <2>2, <2>5 DEF Shape, Busy, InTry, InTools, Ending
  <2>7. QED
    BY <1>3, <2>4, <2>5, <2>6, AwayStep
<1>5. CASE ~Seen(e.req) /\ ~Free
  <2>1. driver' = Refuse(p) /\ UNCHANGED rows
    BY <1>1, <1>5 DEF Begin
  <2>2. QED
    BY <1>3, <2>1, LeavingKeeps
<1>6. CASE ~Seen(e.req) /\ Free
  BY <1>1, <1>6, BeginAnewKeeps
<1>7. QED
  BY <1>4, <1>5, <1>6

-----------------------------------------------------------------------------
(* What holds of every reachable state.                                    *)

(* Every step of the system keeps the invariant. *)
LEMMA StepInv ==
  IInv /\ RunsInv /\ [Next]_vars => IInv'
<1> SUFFICES ASSUME IInv, RunsInv, [Next]_vars PROVE IInv'
  OBVIOUS
<1>1. CASE UNCHANGED vars
  <2>1. UNCHANGED <<rows, driver, broken, lost>> /\ handler' \in [Call -> Process \cup {NoProcess}]
    BY <1>1 DEF vars, IInv, TypeOK
  <2>2. QED
    BY <2>1, NobodyMoves
<1>2. ASSUME NEW p \in Process, NEW q \in Request, Submit(p, q) PROVE IInv'
  BY <1>2, SubmitKeeps
<1>3. ASSUME NEW p \in Process, Drive(p) PROVE IInv'
  <2>1. CASE CheckExchange(p) \/ Begin(p) \/ ReadSaved(p)
    BY <2>1, CheckExchangeKeeps, BeginKeeps, ReadSavedKeeps
  <2>2. CASE Stop(p) \/ BuildContext(p) \/ Prepare(p)
    BY <2>2, StopKeeps, BuildContextKeeps, PrepareKeeps
  <2>3. CASE (\E n \in 0 .. MaxCalls : Generate(p, n)) \/ Accept(p)
    BY <2>3, GenerateKeeps, AcceptKeeps
  <2>4. CASE ClaimCall(p) \/ StartHandler(p)
    BY <2>4, ClaimCallKeeps, ThreadsKeep
  <2>5. CASE \E o \in {"SUCCEEDED", "FAILED"} : HandlerReturns(p, o)
    BY <2>5, HandlerReturnsKeeps
  <2>6. CASE \E cancelled \in BOOLEAN : Abandon(p, cancelled)
    BY <2>6, AbandonKeeps
  <2>7. CASE SaveNote(p) \/ LoseDecision(p)
    BY <2>7, SaveNoteKeeps, LoseDecisionKeeps
  <2>8. CASE \E a \in Answers : Decide(p, a)
    BY <2>8, DecideKeeps
  <2>9. CASE Settle(p) \/ Raise(p)
    BY <2>9, SettleKeeps, RaiseKeeps
  <2>10. CASE FailInference(p) \/ FinishRun(p)
    BY <2>10, FailInferenceKeeps, FinishRunKeeps
  <2>11. QED
    BY <1>3, <2>1, <2>2, <2>3, <2>4, <2>5, <2>6, <2>7, <2>8, <2>9, <2>10 DEF Drive
<1>4. ASSUME NEW p \in Process, Crash(p) \/ LoseRun(p) PROVE IInv'
  BY <1>4, CrashKeeps
<1>5. ASSUME NEW c \in Call, HandlerWrite(c) \/ HandlerEnds(c) PROVE IInv'
  BY <1>5, HandlerWriteKeeps, ThreadsKeep
<1>6. QED
  BY <1>1, <1>2, <1>3, <1>4, <1>5 DEF Next

(* A run begins only while none is active, and no batch of another breaks. *)
LEMMA RunsStay ==
  IInv /\ RunsInv /\ [Next]_vars => RunsInv'
<1> SUFFICES ASSUME IInv, RunsInv, [Next]_vars PROVE RunsInv'
  OBVIOUS
<1>1. run \in [Position -> RunStatus] /\ broken \subseteq Position
  BY DEF IInv, TypeOK
<1>2. CASE UNCHANGED <<run, broken>>
  BY <1>2 DEF RunsInv, BrokenRunsBegan, OneActiveRun
<1>3. ASSUME NEW p \in Process, FinishRun(p) PROVE RunsInv'
  <2>1. driver[p].status \in Ended
    BY <1>3, Standing DEF FinishRun, Shape
  <2>2. driver[p].status \notin {"ABSENT", "RUNNING"}
    BY <2>1 DEF Ended
  <2>3. UNCHANGED broken /\ \A r \in Position : run'[r] \in {run[r], driver[p].status}
    BY <1>1, <1>3 DEF FinishRun
  <2>4. QED
    BY <1>1, <2>2, <2>3 DEF RunsInv, BrokenRunsBegan, OneActiveRun
<1>4. ASSUME NEW p \in Process, Raise(p) PROVE RunsInv'
  <2>1. driver[p].pc \in Busy
    BY <1>4 DEF Raise, Busy
  <2>2. UNCHANGED run /\ \A r \in broken' : r \in broken \/ run[r] = "RUNNING"
    BY <1>4, <2>1, BusyRun DEF Raise, rows
  <2>3. QED
    BY <1>1, <2>2 DEF RunsInv, BrokenRunsBegan, OneActiveRun
<1>5. ASSUME NEW p \in Process, Begin(p), ~UNCHANGED run PROVE RunsInv'
  <2>1. Free /\ UNCHANGED broken /\ run' = [run EXCEPT ![NextPosition] = "RUNNING"]
    BY <1>5 DEF Begin, rows
  <2>2. \A r \in Position : run[r] # "RUNNING"
    BY <2>1 DEF Free, ActiveRun
  <2>3. \A r \in Position : IF r = NextPosition THEN run'[r] = "RUNNING" ELSE run'[r] = run[r]
    BY <1>1, <2>1
  <2>4. QED
    BY <1>1, <2>1, <2>2, <2>3 DEF RunsInv, BrokenRunsBegan, OneActiveRun
<1>6. ASSUME NEW p \in Process, Drive(p), ~FinishRun(p), ~Raise(p), ~Begin(p)
      PROVE  UNCHANGED <<run, broken>>
  BY <1>6 DEF Drive, CheckExchange, ReadSaved, Stop, BuildContext, Prepare, Generate, Accept,
              ClaimCall, StartHandler, HandlerReturns, Abandon, SaveNote, LoseDecision, Decide,
              Settle, FailInference, rows
<1>7. ASSUME NEW p \in Process, Begin(p), UNCHANGED run PROVE UNCHANGED <<run, broken>>
  BY <1>7 DEF Begin
<1>8. ASSUME \/ UNCHANGED vars
             \/ \E p \in Process, q \in Request : Submit(p, q)
             \/ \E p \in Process : Crash(p) \/ LoseRun(p)
             \/ \E c \in Call : HandlerWrite(c) \/ HandlerEnds(c)
      PROVE  UNCHANGED <<run, broken>>
  BY <1>8 DEF Submit, Crash, LoseRun, HandlerWrite, HandlerEnds, rows, vars
<1>9. ASSUME NEW p \in Process, Drive(p) PROVE RunsInv'
  BY <1>2, <1>3, <1>4, <1>5, <1>6, <1>7, <1>9
<1>10. QED
  BY <1>2, <1>8, <1>9 DEF Next

(* The empty thread. *)
LEMMA InitInv ==
  Init => IInv /\ RunsInv
<1> SUFFICES ASSUME Init PROVE IInv /\ RunsInv
  OBVIOUS
<1>1. PICK rec : rec = [kind |-> "CREATED", run |-> 0, source |-> 0, n |-> 0, wrote |-> FALSE]
  OBVIOUS
<1>2. rec \in Record
  BY <1>1, ConversationAssumption DEF Record
<1>3. /\ history = <<rec>> /\ history \in Seq(Record) /\ Len(history) = 1
      /\ DOMAIN history = {1} /\ history[1] = rec
  BY <1>1, <1>2 DEF Init
<1>4. CallsIn(history) = {} /\ Pending(history) = {}
  BY <1>1, <1>3 DEF CallsIn, Pending
<1>5. TypeOK
  <2>1. \A p \in Process : driver[p] \in Driver
    BY AwayShapes DEF Init
  <2>2. driver \in [Process -> Driver]
    BY <2>1 DEF Init
  <2>3. QED
    BY <1>3, <2>2 DEF Init, TypeOK, RunStatus, InferenceStatus
<1>6. RowsInv
  <2>1. HistoryFits /\ RunsAreRequested
    BY <1>1, <1>3, ConversationAssumption DEF Init, HistoryFits, RunsAreRequested, Position
  <2>2. ResultsEndTasks /\ ResultsFollowTheirReply /\ NoWriteBehindResult
    BY <1>1, <1>3 DEF ResultsEndTasks, ResultsFollowTheirReply, NoWriteBehindResult
  <2>3. ContextIsWhole /\ BudgetIsKnown
    BY <1>1, <1>3 DEF ContextIsWhole, BudgetIsKnown
  <2>4. FinishedRunsAreSettled
    BY DEF Init, FinishedRunsAreSettled, Ended
  <2>5. QED
    BY <2>1, <2>2, <2>3, <2>4 DEF RowsInv
<1>7. DriversInv
  <2>1. \A p \in Process : driver[p] = Idle
    BY DEF Init
  <2>2. Stands(Idle) /\ Idle.pc \notin Busy
    BY AwayShapes, AwayStands
  <2>3. QED
    BY <2>1, <2>2 DEF DriversInv
<1>8. RunsInv
  BY DEF Init, RunsInv, BrokenRunsBegan, OneActiveRun
<1>9. QED
  BY <1>5, <1>6, <1>7, <1>8 DEF IInv

(* The invariant holds of every reachable state. *)
LEMMA Invariance ==
  Spec => [](IInv /\ RunsInv)
<1>1. Init => IInv /\ RunsInv
  BY InitInv
<1>2. IInv /\ RunsInv /\ [Next]_vars => (IInv /\ RunsInv)'
  BY StepInv, RunsStay
<1>3. QED
  BY <1>1, <1>2, PTL DEF Spec

(* Every variable of the thread and of its drivers keeps its type. *)
THEOREM TypeCorrect ==
  Spec => []TypeOK
<1>1. IInv => TypeOK
  BY DEF IInv
<1>2. QED
  BY <1>1, Invariance, PTL

(* execute_tool_batch and deliver: the results of a reply follow it in the *)
(* order of its calls, with nothing between but what those calls added,    *)
(* however many processes submit, die and repeat requests meanwhile.       *)
THEOREM ResultsFollow ==
  Spec => []ResultsFollowTheirReply
<1>1. IInv => ResultsFollowTheirReply
  BY DEF IInv, RowsInv
<1>2. QED
  BY <1>1, Invariance, PTL

(* loop.py 81-89: between the transaction that reads the history and the   *)
(* one that saves the question nothing is added, so the model is shown the *)
(* whole thread and no call in it is unanswered.                           *)
THEOREM ContextsAreWhole ==
  Spec => []ContextIsWhole
<1>1. IInv => ContextIsWhole
  BY DEF IInv, RowsInv
<1>2. QED
  BY <1>1, Invariance, PTL

(* loop.py 71-79 and guest_references.py 188-202: a question, of the loop  *)
(* or about a note, is only put while the run's token usage is known.      *)
THEOREM BudgetsAreKnown ==
  Spec => []BudgetIsKnown
<1>1. IInv => BudgetIsKnown
  BY DEF IInv, RowsInv
<1>2. QED
  BY <1>1, Invariance, PTL

(* loop.py 56-65 and runs.create: at most one process drives the thread,   *)
(* and what it drives is the thread's active run.                          *)
THEOREM OneDriverOnly ==
  Spec => []OneDriver
<1>1. IInv => OneDriver
  BY DEF IInv, DriversInv, Stands, OneDriver
<1>2. QED
  BY <1>1, Invariance, PTL

(* claimed_write: a handler's thread that was abandoned saves nothing once *)
(* the result of its call is in the history, and a success was saved       *)
(* before it was reported.                                                 *)
THEOREM NothingIsWrittenBehind ==
  Spec => []NoWriteBehindResult
<1>1. IInv => NoWriteBehindResult
  BY DEF IInv, RowsInv
<1>2. QED
  BY <1>1, Invariance, PTL

(* loop.py 114-123 and tool_worker.py 50-60: however a run ends, it leaves *)
(* no generation open, and unless an error cut its batch short no call.    *)
THEOREM FinishedAreSettled ==
  Spec => []FinishedRunsAreSettled
<1>1. IInv => FinishedRunsAreSettled
  BY DEF IInv, RowsInv
<1>2. QED
  BY <1>1, Invariance, PTL

-----------------------------------------------------------------------------
(* What becomes of a run that was lost.                                    *)

(* Such a run is active, and it keeps everybody from driving the thread.   *)
LostRunsStay ==
  \A r \in lost : run[r] = "RUNNING" /\ \A p \in Process : driver[p].pc \notin Busy

(* Where nobody is busy and a run is active, no step changes that.         *)
LEMMA StuckStays ==
  ASSUME IInv, [Next]_vars, NEW r \in Position, run[r] = "RUNNING",
         \A p \in Process : driver[p].pc \notin Busy
  PROVE  /\ UNCHANGED <<run, lost>>
         /\ \A p \in Process : driver'[p].pc \notin Busy
<1>1. ~Free
  BY DEF Free, ActiveRun
<1>2. driver \in [Process -> Driver]
  BY DEF IInv, TypeOK
<1>3. ASSUME NEW p \in Process, NEW pc, pc \notin Busy,
             \/ driver' = Leave(p) \/ driver' = Refuse(p)
             \/ driver' = [driver EXCEPT ![p].pc = pc]
             \/ \E k : driver' = [driver EXCEPT ![p].pc = pc, ![p].run = k]
             \/ \E q : driver' = [driver EXCEPT ![p] = [Idle EXCEPT !.pc = pc, !.req = q]]
      PROVE  \A o \in Process : driver'[o].pc \notin Busy
  <2>1. "idle" \notin Busy /\ "refused" \notin Busy
    BY DEF Busy, InTry, InTools
  <2>2. driver[p] \in Driver
    BY <1>2
  <2>3. driver'[p].pc \in {"idle", "refused", pc}
    <3>1. CASE driver' = Leave(p) \/ driver' = Refuse(p)
      BY <1>2, <3>1 DEF Leave, Refuse, Idle
    <3>2. CASE driver' = [driver EXCEPT ![p].pc = pc]
      BY <1>2, <2>2, <3>2 DEF Driver
    <3>3. ASSUME NEW k, driver' = [driver EXCEPT ![p].pc = pc, ![p].run = k]
          PROVE  driver'[p].pc = pc
      <4>1. PICK d : d = driver[p]
        OBVIOUS
      <4>2. driver'[p] = [d EXCEPT !.pc = pc, !.run = k]
        BY <1>2, <3>3, <4>1
      <4>3. QED
        BY <2>2, <4>1, <4>2 DEF Driver
    <3>4. ASSUME NEW q, driver' = [driver EXCEPT ![p] = [Idle EXCEPT !.pc = pc, !.req = q]]
          PROVE  driver'[p].pc = pc
      BY <1>2, <3>4 DEF Idle
    <3>5. QED
      BY <1>3, <3>1, <3>2, <3>3, <3>4
  <2>4. \A o \in Process : o # p => driver'[o] = driver[o]
    BY <1>2, <1>3 DEF Leave, Refuse
  <2>5. QED
    BY <1>3, <2>1, <2>3, <2>4
<1>4. {"check", "begin", "read"} \cap Busy = {}
  BY DEF Busy, InTry, InTools
<1>5. CASE \E p \in Process, q \in Request : Submit(p, q)
  BY <1>3, <1>4, <1>5 DEF Submit, rows
<1>6. CASE \E p \in Process : CheckExchange(p) \/ ReadSaved(p) \/ Crash(p)
  BY <1>3, <1>4, <1>6 DEF CheckExchange, ReadSaved, Crash, rows
<1>7. CASE \E p \in Process : Begin(p)
  BY <1>1, <1>3, <1>4, <1>7 DEF Begin, rows
<1>8. CASE \E c \in Call : HandlerWrite(c) \/ HandlerEnds(c)
  BY <1>8 DEF HandlerWrite, HandlerEnds, rows
<1>9. ASSUME NEW p \in Process, Drive(p) \/ LoseRun(p),
             ~CheckExchange(p), ~ReadSaved(p), ~Begin(p)
      PROVE  driver[p].pc \in Busy
  BY <1>9 DEF Drive, LoseRun, Stop, BuildContext, Prepare, Generate, Accept, ClaimCall,
              StartHandler, HandlerReturns, Abandon, SaveNote, LoseDecision, Decide, Settle,
              Raise, FailInference, FinishRun, Ending, Busy, InTry, InTools
<1>10. CASE UNCHANGED vars
  BY <1>10 DEF vars, rows
<1>11. QED
  BY <1>5, <1>6, <1>7, <1>8, <1>9, <1>10 DEF Next

(* No step takes up a lost run again, and a run is lost by its driver.     *)
LEMMA LostStay ==
  IInv /\ LostRunsStay /\ [Next]_vars => LostRunsStay'
<1> SUFFICES ASSUME IInv, LostRunsStay, [Next]_vars PROVE LostRunsStay'
  OBVIOUS
<1>1. lost \subseteq Position
  BY DEF IInv, TypeOK
<1>2. CASE lost # {}
  <2>1. UNCHANGED <<run, lost>> /\ \A p \in Process : driver'[p].pc \notin Busy
    BY <1>1, <1>2, StuckStays DEF LostRunsStay
  <2>2. QED
    BY <2>1 DEF LostRunsStay
<1>3. ASSUME NEW p \in Process, driver[p].pc \in Busy, Crash(p) \/ LoseRun(p), lost = {}
      PROVE  LostRunsStay'
  <2>1. lost' = {driver[p].run} /\ UNCHANGED run /\ driver' = Leave(p)
    BY <1>3 DEF Crash, LoseRun, rows
  <2>2. run[driver[p].run] = "RUNNING"
    BY <1>3, BusyRun
  <2>3. \A o \in Process : o # p => driver[o].pc \notin Busy
    BY <1>3, OthersAreAway DEF IInv
  <2>4. driver'[p] = Idle /\ \A o \in Process : o # p => driver'[o] = driver[o]
    BY <2>1 DEF Leave, IInv, TypeOK
  <2>5. Idle.pc \notin Busy
    BY AwayShapes
  <2>6. QED
    BY <2>1, <2>2, <2>3, <2>4, <2>5 DEF LostRunsStay
<1>4. ASSUME ~\E p \in Process : driver[p].pc \in Busy /\ (Crash(p) \/ LoseRun(p))
      PROVE  UNCHANGED lost
  <2>1. ASSUME NEW p \in Process, Drive(p) PROVE UNCHANGED lost
    BY <2>1 DEF Drive, CheckExchange, Begin, ReadSaved, Stop, BuildContext, Prepare, Generate,
                Accept, ClaimCall, StartHandler, HandlerReturns, Abandon, SaveNote, LoseDecision,
                Decide, Settle, Raise, FailInference, FinishRun
  <2>2. ASSUME NEW p \in Process, Crash(p) \/ LoseRun(p) PROVE UNCHANGED lost
    BY <1>4, <2>2 DEF Crash, LoseRun, Busy
  <2>3. ASSUME \/ UNCHANGED vars
               \/ \E p \in Process, q \in Request : Submit(p, q)
               \/ \E c \in Call : HandlerWrite(c) \/ HandlerEnds(c)
        PROVE  UNCHANGED lost
    BY <2>3 DEF Submit, HandlerWrite, HandlerEnds, vars
  <2>4. QED
    BY <2>1, <2>2, <2>3 DEF Next
<1>5. QED
  BY <1>2, <1>3, <1>4 DEF LostRunsStay

(* loop.py 65 and 114-123: nothing in the code ends the run of a process   *)
(* that died or could not write its end; it stays active for ever, and     *)
(* nobody drives the thread again.                                         *)
THEOREM LostRunsStayActive ==
  Spec => []LostRunsStay
<1>1. Init => LostRunsStay
  BY DEF Init, LostRunsStay
<1>2. QED
  BY <1>1, LostStay, Invariance, PTL DEF Spec

-----------------------------------------------------------------------------
(* The refinement of ThreadTurns.                                          *)

Talk == IF ActiveRun = {} THEN NoProcess ELSE CHOOSE q \in Request : ledger[q] \in ActiveRun
Taken == {q \in Request : ledger[q] # 0}
Waiting == \E r \in ActiveRun : \E i \in DOMAIN history :
             history[i].kind = "ASK" /\ history[i].run = r /\ inference[i] = "IN_FLIGHT"
Current == {c \in CallsIn(history) : history[c[1]].run \in ActiveRun}

TalkFits ==
  /\ ActiveRun = {} => Talk = NoProcess
  /\ ActiveRun # {} => Talk \in Request
  /\ \A q \in Request : ledger[q] \in ActiveRun => Talk = q

WaitingFits == \A p \in Process : driver[p].pc \in Busy => (Waiting <=> driver[p].sent # 0)

(* The thread is given to the one request that began its active run.       *)
LEMMA TalkIs ==
  IInv /\ RunsInv => TalkFits
<1> SUFFICES ASSUME IInv, RunsInv PROVE TalkFits
  OBVIOUS
<1>1. ActiveRun = {} => Talk = NoProcess
  BY DEF Talk
<1>2. ASSUME NEW q \in Request, ledger[q] \in ActiveRun
      PROVE  Talk \in Request /\ Talk = q
  <2>1. Talk = CHOOSE k \in Request : ledger[k] \in ActiveRun
    BY <1>2 DEF Talk
  <2>2. Talk \in Request /\ ledger[Talk] \in ActiveRun
    BY <1>2, <2>1
  <2>3. ledger[Talk] = ledger[q] /\ ledger[q] # 0
    BY <1>2, <2>2 DEF RunsInv, OneActiveRun, ActiveRun, Position
  <2>4. QED
    BY <2>2, <2>3 DEF IInv, RowsInv, RunsAreRequested
<1>3. ASSUME ActiveRun # {} PROVE Talk \in Request
  <2>1. PICK r \in Position : run[r] = "RUNNING"
    BY <1>3 DEF ActiveRun
  <2>2. PICK q \in Request : ledger[q] = r
    BY <2>1 DEF IInv, RowsInv, RunsAreRequested
  <2>3. QED
    BY <1>2, <2>1, <2>2 DEF ActiveRun
<1>4. QED
  BY <1>1, <1>2, <1>3 DEF TalkFits

(* It is given to that request after a step as well. *)
LEMMA TalkIsNext ==
  (IInv /\ RunsInv)' => TalkFits'
BY TalkIs, PTL

(* While the active run and the ledger stay, so does the request.          *)
LEMMA SameTalk ==
  ASSUME IInv, RunsInv, IInv', RunsInv', UNCHANGED ledger, ActiveRun' = ActiveRun
  PROVE  Talk' = Talk /\ Taken' = Taken
<1>1. /\ ActiveRun' = {} => Talk' = NoProcess
      /\ \A q \in Request : ledger'[q] \in ActiveRun' => Talk' = q
  BY TalkIsNext DEF TalkFits
<1>2. CASE ActiveRun = {}
  BY <1>1, <1>2, TalkIs DEF Taken, TalkFits
<1>3. CASE ActiveRun # {}
  <2>1. PICK r \in Position : run[r] = "RUNNING"
    BY <1>3 DEF ActiveRun
  <2>2. PICK q \in Request : ledger[q] = r
    BY <2>1 DEF IInv, RowsInv, RunsAreRequested
  <2>3. ledger[q] \in ActiveRun
    BY <2>1, <2>2 DEF ActiveRun
  <2>4. QED
    BY <1>1, <2>3, TalkIs DEF Taken, TalkFits
<1>4. QED
  BY <1>2, <1>3

(* A question of the active run is open just if its driver has one.        *)
LEMMA WaitingIs ==
  IInv => WaitingFits
<1> SUFFICES ASSUME IInv, NEW p \in Process, driver[p].pc \in Busy
             PROVE  Waiting <=> driver[p].sent # 0
  BY DEF WaitingFits
<1>1. PICK e : e = driver[p]
  OBVIOUS
<1>2. ActiveRun = {e.run} /\ OpenQuestionIsSent(e)
  BY <1>1 DEF IInv, DriversInv, Stands
<1>3. \A i \in DOMAIN history : i # 0
  BY LenProperties DEF IInv, TypeOK
<1>4. QED
  BY <1>1, <1>2, <1>3 DEF Waiting, OpenQuestionIsSent

(* So it is after a step. *)
LEMMA WaitingIsNext ==
  IInv' => WaitingFits'
BY WaitingIs, PTL

(* What a new record adds to the calls and to the answers.                 *)
LEMMA Grows ==
  ASSUME IInv, NEW rec \in Record, Adds(rec)
  PROVE  /\ CallsIn(history') = CallsIn(history) \cup
              (IF rec.kind = "REPLY" THEN {<<Len(history) + 1, k>> : k \in 1 .. rec.n} ELSE {})
         /\ AnsweredIn(history') = AnsweredIn(history) \cup
              (IF rec.kind = "RESULT" THEN {<<rec.source, rec.n>>} ELSE {})
         /\ \A c \in CallsIn(history) : history'[c[1]] = history[c[1]]
<1>1. history \in Seq(Record) /\ history' = Append(history, rec)
  BY DEF IInv, TypeOK, Adds
<1>2. \A c \in CallsIn(history) : c[1] \in DOMAIN history
  BY DEF CallsIn
<1>3. QED
  BY <1>1, <1>2, CallsOfLonger, AnswersOfLonger, Added

(* A step that shows in no row the thread is judged by.                    *)
LEMMA UnseenTurn ==
  ASSUME IInv, RunsInv, IInv', RunsInv', UNCHANGED <<history, run, inference, ledger>>
  PROVE  UNCHANGED Turns!vars
<1>1. ActiveRun' = ActiveRun
  BY DEF ActiveRun
<1>2. Talk' = Talk /\ Taken' = Taken
  BY <1>1, SameTalk
<1>3. CallsIn(history)' = CallsIn(history) /\ AnsweredIn(history)' = AnsweredIn(history)
  BY DEF CallsIn, AnsweredIn
<1>4. Waiting' = Waiting
  BY <1>1 DEF Waiting
<1>5. Current' = Current
  BY <1>1, <1>3 DEF Current
<1>6. QED
  BY <1>2, <1>3, <1>4, <1>5 DEF Turns!vars, Talk, Taken, Waiting, Current

(* A busy driver's step that keeps its run the active one.                 *)
LEMMA TurnGoesOn ==
  ASSUME IInv, RunsInv, IInv', RunsInv', NEW p \in Process, driver[p].pc \in Busy,
         UNCHANGED <<run, ledger>>, driver'[p].pc \in Busy
  PROVE  /\ ActiveRun = {driver[p].run} /\ ActiveRun' = ActiveRun
         /\ Talk' = Talk /\ Taken' = Taken /\ Talk # NoProcess
         /\ Waiting <=> driver[p].sent # 0
         /\ Waiting' <=> driver'[p].sent # 0
<1>1. ActiveRun = {driver[p].run} /\ ActiveRun' = ActiveRun
  BY DEF IInv, DriversInv, Stands, ActiveRun
<1>2. Talk' = Talk /\ Taken' = Taken /\ Talk # NoProcess
  BY <1>1, SameTalk, TalkIs, ConversationAssumption DEF TalkFits
<1>3. QED
  BY <1>1, <1>2, WaitingIs, WaitingIsNext DEF WaitingFits

(* A request begins its run. *)
LEMMA BeginIsTake ==
  ASSUME IInv, RunsInv, IInv', RunsInv', NEW p \in Process, Begin(p),
         ~Seen(driver[p].req), Free
  PROVE  Turns!Next
<1>1. PICK q : q = driver[p].req
  OBVIOUS
<1>2. PICK n : n = Len(history) + 1
  OBVIOUS
<1>3. PICK rec : rec = [kind |-> "USER", run |-> n, source |-> 0, n |-> 0, wrote |-> FALSE]
  OBVIOUS
<1>4. q \in Request
  BY <1>1, Standing DEF Begin, Shape
<1>5. /\ Adds(rec) /\ run' = [run EXCEPT ![n] = "RUNNING"]
      /\ ledger[q] = 0 /\ ledger' = [ledger EXCEPT ![q] = n] /\ UNCHANGED inference
  BY <1>1, <1>2, <1>3 DEF Begin, AppendRecord, WithRecord, NextPosition, Adds, Seen
<1>6. n \in Position /\ rec \in Record /\ n # 0
  <2>1. n \in Position /\ n # 0
    BY <1>2, <1>5, ConversationAssumption DEF Adds, IInv, TypeOK, Position
  <2>2. QED
    BY <1>3, <2>1, ConversationAssumption DEF Record
<1>7. ActiveRun = {} /\ ActiveRun' = {n}
  BY <1>5, <1>6 DEF Free, ActiveRun, IInv, TypeOK
<1>8. ledger'[q] = n /\ \A o \in Request : o # q => ledger'[o] = ledger[o]
  BY <1>4, <1>5 DEF IInv, TypeOK
<1>9. Talk = NoProcess /\ Talk' = q
  BY <1>4, <1>7, <1>8, TalkIs, TalkIsNext DEF TalkFits
<1>10. q \notin Taken /\ Taken' = Taken \cup {q}
  BY <1>4, <1>5, <1>6, <1>8 DEF Taken
<1>11. \A i \in DOMAIN history' : history'[i].run = n => i = n
  <2>1. \A i \in DOMAIN history : history[i].run # n
    BY <1>2, <1>5, <1>6, Added DEF IInv, RowsInv, RunsAreRequested, Record, Position
  <2>2. QED
    BY <1>2, <1>5, <1>6, <2>1, Added
<1>12. history'[n].kind = "USER"
  BY <1>2, <1>3, <1>5, <1>6, Added
<1>13. ~Waiting /\ ~Waiting'
  BY <1>7, <1>11, <1>12 DEF Waiting
<1>14. Current = {} /\ Current' = {}
  BY <1>7, <1>11, <1>12 DEF Current, CallsIn
<1>15. CallsIn(history)' = CallsIn(history) /\ AnsweredIn(history)' = AnsweredIn(history)
  BY <1>3, <1>5, <1>6, Grows
<1>16. Turns!Take(q)
  BY <1>9, <1>10, <1>13, <1>14, <1>15 DEF Turns!Take, Talk, Taken, Waiting, Current
<1>17. QED
  BY <1>4, <1>16 DEF Turns!Next

(* The question is put while no call is open. *)
LEMMA PrepareIsAsk ==
  ASSUME IInv, RunsInv, IInv', RunsInv', NEW p \in Process, Prepare(p)
  PROVE  Turns!Next
<1>1. PICK e : e = driver[p]
  OBVIOUS
<1>2. /\ e \in Driver /\ Stands(e) /\ e.pc = "prepare" /\ e.pc \in Busy /\ e.sent = 0
  <2>1. e \in Driver /\ Shape(e) /\ Stands(e) /\ e.pc = "prepare"
    BY <1>1, Standing DEF Prepare
  <2>2. QED
    BY <2>1 DEF Shape, Busy, InTry
<1>3. PICK rec : rec = [kind |-> "ASK", run |-> e.run, source |-> e.view, n |-> 0, wrote |-> FALSE]
  OBVIOUS
<1>4. rec \in Record
  BY <1>2, <1>3, ConversationAssumption DEF Record, Driver
<1>5. Adds(rec) /\ UNCHANGED <<run, ledger>>
  BY <1>1, <1>3 DEF Prepare, AppendRecord, WithRecord, NextPosition, Adds
<1>6. driver'[p].pc \in Busy /\ driver'[p].sent # 0
  <2>1. driver' = [driver EXCEPT ![p] =
          [e EXCEPT !.pc = "await", !.sent = Len(history) + 1, !.view = 0]]
    BY <1>1 DEF Prepare, NextPosition, IInv, TypeOK
  <2>2. Len(history) + 1 # 0
    BY <1>4, <1>5, Added
  <2>3. QED
    BY <1>2, <2>1, <2>2 DEF IInv, TypeOK, Busy, InTry, Driver
<1>7. /\ ActiveRun' = ActiveRun /\ Talk' = Talk /\ Taken' = Taken /\ Talk # NoProcess
      /\ ~Waiting /\ Waiting'
  BY <1>1, <1>2, <1>5, <1>6, TurnGoesOn
<1>8. CallsIn(history) = AnsweredIn(history)
  <2>1. CallsIn(history) \subseteq AnsweredIn(history)
    BY <1>2 DEF Stands, ReadingHolds, Pending
  <2>2. AnsweredIn(history) \subseteq CallsIn(history)
    BY DEF AnsweredIn, IInv, RowsInv, ResultsEndTasks
  <2>3. QED
    BY <2>1, <2>2
<1>9. CallsIn(history') = CallsIn(history) /\ AnsweredIn(history') = AnsweredIn(history)
  BY <1>3, <1>4, <1>5, Grows
<1>10. Current' = Current
  BY <1>4, <1>5, <1>7, <1>9, Grows DEF Current
<1>11. Turns!Ask
  BY <1>7, <1>8, <1>9, <1>10 DEF Turns!Ask, Talk, Taken, Waiting, Current
<1>12. QED
  BY <1>11 DEF Turns!Next

(* The reply brings its calls. *)
LEMMA AcceptIsReply ==
  ASSUME IInv, RunsInv, IInv', RunsInv', NEW p \in Process, Accept(p)
  PROVE  Turns!Next
<1>1. PICK e : e = driver[p]
  OBVIOUS
<1>2. e \in Driver /\ e.pc = "accept" /\ e.pc \in Busy /\ e.sent # 0
  <2>1. e \in Driver /\ Shape(e) /\ e.pc = "accept"
    BY <1>1, Standing DEF Accept
  <2>2. QED
    BY <2>1 DEF Shape, Busy, InTry
<1>3. PICK rec : rec = [kind |-> "REPLY", run |-> e.run, source |-> e.sent, n |-> e.calls,
                        wrote |-> FALSE]
  OBVIOUS
<1>4. rec \in Record
  BY <1>2, <1>3 DEF Record, Driver
<1>5. Adds(rec) /\ UNCHANGED <<run, ledger>>
  BY <1>1, <1>3 DEF Accept, AppendRecord, WithRecord, NextPosition, Adds
<1>6. driver'[p].pc \in Busy /\ driver'[p].sent = 0
  <2>1. PICK pc \in {"finish", "claim"} : pc = IF e.calls = 0 THEN "finish" ELSE "claim"
    OBVIOUS
  <2>2. driver'[p] = [e EXCEPT !.sent = 0, !.calls = 0, !.pc = pc,
                              !.status = IF e.calls = 0 THEN "COMPLETED" ELSE "NONE",
                              !.todo = [k \in 1 .. e.calls |-> <<Len(history) + 1, k>>]]
    BY <1>1, <2>1 DEF Accept, NextPosition, IInv, TypeOK
  <2>3. QED
    BY <1>2, <2>2 DEF Busy, InTry, InTools, Driver
<1>7. /\ ActiveRun = {e.run} /\ ActiveRun' = ActiveRun
      /\ Talk' = Talk /\ Taken' = Taken /\ Waiting /\ ~Waiting'
  BY <1>1, <1>2, <1>5, <1>6, TurnGoesOn
<1>8. PICK new : new = {<<Len(history) + 1, k>> : k \in 1 .. rec.n}
  OBVIOUS
<1>9. /\ CallsIn(history') = CallsIn(history) \cup new
      /\ AnsweredIn(history') = AnsweredIn(history)
  BY <1>3, <1>4, <1>5, <1>8, Grows
<1>10. CallsIn(history') \subseteq Call
  BY <1>4, <1>5, Added, ConversationAssumption DEF CallsIn, Call, Position
<1>11. \A c \in new : c \notin CallsIn(history) /\ history'[c[1]].run = e.run
  <2>1. \A c \in new : c[1] = Len(history) + 1
    BY <1>8
  <2>2. history'[Len(history) + 1] = rec /\ Len(history) + 1 \notin DOMAIN history
    BY <1>4, <1>5, Added
  <2>3. QED
    BY <1>3, <2>1, <2>2 DEF CallsIn
<1>12. Current' = Current \cup (CallsIn(history') \ CallsIn(history))
  <2>1. \A c \in CallsIn(history) : history'[c[1]] = history[c[1]]
    BY <1>4, <1>5, Grows
  <2>2. QED
    BY <1>7, <1>9, <1>11, <2>1 DEF Current
<1>13. Turns!Reply
  BY <1>7, <1>9, <1>10, <1>12 DEF Turns!Reply, Talk, Taken, Waiting, Current
<1>14. QED
  BY <1>13 DEF Turns!Next

(* The question got no reply. *)
LEMMA FailIsGiveUp ==
  ASSUME IInv, RunsInv, IInv', RunsInv', NEW p \in Process, FailInference(p)
  PROVE  Turns!Next
<1>1. PICK e : e = driver[p]
  OBVIOUS
<1>2. e \in Driver /\ e.pc = "handle" /\ e.pc \in Busy /\ e.sent # 0
  BY <1>1, Standing DEF FailInference, Busy
<1>3. UNCHANGED <<history, run, ledger>> /\ driver' = [driver EXCEPT ![p] = [e EXCEPT !.sent = 0]]
  BY <1>1 DEF FailInference, IInv, TypeOK
<1>4. driver'[p].pc \in Busy /\ driver'[p].sent = 0
  BY <1>2, <1>3 DEF IInv, TypeOK, Driver
<1>5. /\ ActiveRun' = ActiveRun /\ Talk' = Talk /\ Taken' = Taken /\ Waiting /\ ~Waiting'
  BY <1>1, <1>2, <1>3, <1>4, TurnGoesOn
<1>6. CallsIn(history)' = CallsIn(history) /\ AnsweredIn(history)' = AnsweredIn(history)
  BY <1>3 DEF CallsIn, AnsweredIn
<1>7. Current' = Current
  BY <1>3, <1>5, <1>6 DEF Current
<1>8. Turns!GiveUp
  BY <1>5, <1>6, <1>7 DEF Turns!GiveUp, Talk, Taken, Waiting, Current
<1>9. QED
  BY <1>8 DEF Turns!Next

(* What a call adds of its own changes nothing that ThreadTurns speaks of. *)
LEMMA SideRecordUnseen ==
  ASSUME IInv, RunsInv, IInv', RunsInv', NEW p \in Process,
         SaveNote(p) \/ \E a \in Answers : Decide(p, a)
  PROVE  UNCHANGED Turns!vars
<1>1. PICK e : e = driver[p]
  OBVIOUS
<1>2. e \in Driver /\ e.pc \in {"exec", "classify"} /\ e.pc \in Busy /\ e.sent = 0 /\ e.todo # <<>>
  <2>1. e \in Driver /\ Shape(e) /\ e.pc \in {"exec", "classify"}
    BY <1>1, Standing DEF SaveNote, Decide
  <2>2. QED
    BY <2>1 DEF Shape, Busy, InTry, InTools
<1>3. Head(e.todo)[1] \in Position
  BY <1>2, HeadTailProperties DEF Driver, Call
<1>4. PICK rec \in Record : Adds(rec) /\ rec.kind \notin {"REPLY", "RESULT"}
  <2>1. 0 \in 0 .. MaxCalls /\ e.run \in {0} \cup Position /\ e.note \in {0} \cup Position
    BY <1>2, ConversationAssumption DEF Driver
  <2>2. CASE SaveNote(p)
    <3>1. [kind |-> "CLASSIFY", run |-> e.run, source |-> Head(e.todo)[1], n |-> 0,
           wrote |-> FALSE] \in Record
      BY <1>3, <2>1 DEF Record
    <3>2. Adds([kind |-> "CLASSIFY", run |-> e.run, source |-> Head(e.todo)[1], n |-> 0,
                wrote |-> FALSE])
      BY <1>1, <2>2 DEF SaveNote, AppendRecord, WithRecord, NextPosition, Adds
    <3>3. QED
      BY <3>1, <3>2
  <2>3. CASE \E a \in Answers : Decide(p, a)
    <3>1. [kind |-> "DECISION", run |-> e.run, source |-> e.note, n |-> 0,
           wrote |-> FALSE] \in Record
      BY <2>1 DEF Record
    <3>2. Adds([kind |-> "DECISION", run |-> e.run, source |-> e.note, n |-> 0, wrote |-> FALSE])
      BY <1>1, <2>3 DEF Decide, AppendRecord, WithRecord, NextPosition, Adds
    <3>3. QED
      BY <3>1, <3>2
  <2>4. QED
    BY <2>2, <2>3
<1>5. driver'[p].pc \in Busy /\ driver'[p].sent = 0
  <2>1. CASE SaveNote(p)
    <3>1. driver' = [driver EXCEPT ![p] = [e EXCEPT !.pc = "classify", !.note = Len(history) + 1]]
      BY <1>1, <2>1 DEF SaveNote, NextPosition, IInv, TypeOK
    <3>2. QED
      BY <1>2, <3>1 DEF IInv, TypeOK, Driver, Busy, InTry, InTools
  <2>2. ASSUME NEW a \in Answers, Decide(p, a)
        PROVE  driver'[p].pc \in Busy /\ driver'[p].sent = 0
    <3>1. PICK o : o = IF a \in {"answered", "failed"} THEN "SUCCEEDED" ELSE "FAILED"
      OBVIOUS
    <3>2. driver' = [driver EXCEPT ![p] = [e EXCEPT !.pc = "settle", !.note = 0,
                                                    !.skip = a = "cancelled", !.outcome = o]]
      BY <1>1, <2>2, <3>1 DEF Decide, IInv, TypeOK
    <3>3. QED
      BY <1>2, <3>2 DEF IInv, TypeOK, Driver, Busy, InTry, InTools
  <2>3. QED
    BY <2>1, <2>2
<1>6. UNCHANGED <<run, ledger>>
  BY DEF SaveNote, Decide
<1>7. /\ ActiveRun' = ActiveRun /\ Talk' = Talk /\ Taken' = Taken /\ ~Waiting /\ ~Waiting'
  BY <1>1, <1>2, <1>5, <1>6, TurnGoesOn
<1>8. /\ CallsIn(history') = CallsIn(history) /\ AnsweredIn(history') = AnsweredIn(history)
      /\ \A c \in CallsIn(history) : history'[c[1]] = history[c[1]]
  BY <1>4, Grows
<1>9. Current' = Current
  BY <1>7, <1>8 DEF Current
<1>10. QED
  BY <1>7, <1>8, <1>9 DEF Turns!vars, Talk, Taken, Waiting, Current

(* A result answers a call of the active run that had no answer yet.       *)
LEMMA SettleIsAnswer ==
  ASSUME IInv, RunsInv, IInv', RunsInv', NEW p \in Process, Settle(p)
  PROVE  Turns!Next
<1>1. PICK e : e = driver[p]
  OBVIOUS
<1>2. /\ e \in Driver /\ Stands(e) /\ e.pc = "settle" /\ e.pc \in Busy /\ e.sent = 0
      /\ e.todo # <<>>
  <2>1. e \in Driver /\ Shape(e) /\ Stands(e) /\ e.pc = "settle"
    BY <1>1, Standing DEF Settle
  <2>2. QED
    BY <2>1 DEF Shape, Busy, InTry, InTools
<1>3. PICK c : c = Head(e.todo)
  OBVIOUS
<1>4. /\ c \in Call /\ c = <<c[1], c[2]>> /\ c \in CallsIn(history)
      /\ history[c[1]].run = e.run
  BY <1>2, <1>3, CallInHand DEF Batch
<1>5. PICK rec : rec = [kind |-> "RESULT", run |-> e.run, source |-> c[1], n |-> c[2],
                        wrote |-> wrote[c]]
  OBVIOUS
<1>6. rec \in Record
  BY <1>2, <1>4, <1>5, ConversationAssumption DEF Record, Driver, Call, IInv, TypeOK
<1>7. Adds(rec) /\ UNCHANGED <<run, ledger>> /\ task[c] = "RUNNING"
  BY <1>1, <1>3, <1>4, <1>5
     DEF Settle, AppendRecord, WithRecord, NextPosition, Adds, Claimed
<1>8. driver'[p].pc \in Busy /\ driver'[p].sent = 0
  <2>1. PICK next \in {"claim", "handle", "loop"} : next = AfterCall(e.skip, Tail(e.todo))
    BY DEF AfterCall
  <2>2. driver'[p] = [e EXCEPT !.todo = Tail(e.todo), !.outcome = "NONE", !.pc = next,
                               !.skip = e.skip /\ next = "claim",
                               !.status = IF next = "handle" THEN "STOPPED" ELSE "NONE"]
    BY <1>1, <2>1 DEF Settle, IInv, TypeOK
  <2>3. QED
    BY <1>2, <2>2 DEF Busy, InTry, InTools, Driver
<1>9. /\ ActiveRun = {e.run} /\ ActiveRun' = ActiveRun
      /\ Talk' = Talk /\ Taken' = Taken /\ ~Waiting /\ ~Waiting'
  BY <1>1, <1>2, <1>7, <1>8, TurnGoesOn
<1>10. /\ CallsIn(history') = CallsIn(history)
       /\ AnsweredIn(history') = AnsweredIn(history) \cup {c}
  BY <1>4, <1>5, <1>6, <1>7, Grows
<1>11. c \in Current /\ c \notin AnsweredIn(history)
  BY <1>4, <1>7, <1>9 DEF Current, AnsweredIn, IInv, RowsInv, ResultsEndTasks
<1>12. Current' = Current
  BY <1>6, <1>7, <1>9, <1>10, Grows DEF Current
<1>13. Turns!Answer(c)
  BY <1>9, <1>10, <1>11, <1>12 DEF Turns!Answer, Talk, Taken, Waiting, Current
<1>14. QED
  BY <1>4, <1>13 DEF Turns!Next

(* The run ends. *)
LEMMA FinishIsLeave ==
  ASSUME IInv, RunsInv, IInv', RunsInv', NEW p \in Process, FinishRun(p)
  PROVE  Turns!Next
<1>1. PICK e : e = driver[p]
  OBVIOUS
<1>2. e \in Driver /\ e.pc \in Busy /\ e.sent = 0 /\ e.status \in Ended
  <2>1. e \in Driver /\ Shape(e) /\ e.pc \in Ending /\ e.sent = 0
    BY <1>1, Standing DEF FinishRun
  <2>2. QED
    BY <2>1 DEF Shape, Ending, Busy, InTry
<1>3. PICK rec : rec = [kind |-> "FINISHED", run |-> e.run, source |-> 0, n |-> 0, wrote |-> FALSE]
  OBVIOUS
<1>4. rec \in Record
  BY <1>2, <1>3, ConversationAssumption DEF Record, Driver
<1>5. e.run \in Position /\ run[e.run] = "RUNNING"
  BY <1>1, <1>2, BusyRun
<1>6. Adds(rec) /\ run' = [run EXCEPT ![e.run] = e.status] /\ UNCHANGED ledger
  BY <1>1, <1>3, <1>5 DEF FinishRun, AppendRecord, WithRecord, NextPosition, Adds
<1>7. ActiveRun = {e.run} /\ ActiveRun' = {}
  <2>1. ActiveRun = {e.run}
    BY <1>1, <1>2, <1>5, BusyRun DEF ActiveRun
  <2>2. QED
    BY <1>2, <1>5, <1>6, <2>1 DEF ActiveRun, Ended, IInv, TypeOK
<1>8. Talk # NoProcess /\ Talk' = NoProcess /\ Taken' = Taken /\ ~Waiting /\ ~Waiting'
  <2>1. Talk # NoProcess
    BY <1>7, TalkIs, ConversationAssumption DEF TalkFits
  <2>2. ~Waiting
    BY <1>1, <1>2, WaitingIs DEF WaitingFits
  <2>3. QED
    BY <1>6, <1>7, <2>1, <2>2 DEF Talk, Taken, Waiting
<1>9. CallsIn(history)' = CallsIn(history) /\ AnsweredIn(history)' = AnsweredIn(history)
  BY <1>3, <1>4, <1>6, Grows
<1>10. Current' = {}
  BY <1>7 DEF Current
<1>11. Turns!Leave
  BY <1>8, <1>9, <1>10 DEF Turns!Leave, Talk, Taken, Waiting, Current
<1>12. QED
  BY <1>11 DEF Turns!Next

(* Every step is a step of the thread's turns or leaves them alone.        *)
LEMMA StepTurns ==
  IInv /\ RunsInv /\ IInv' /\ RunsInv' /\ [Next]_vars => [Turns!Next]_Turns!vars
<1> SUFFICES ASSUME IInv, RunsInv, IInv', RunsInv', [Next]_vars
             PROVE  Turns!Next \/ UNCHANGED Turns!vars
  OBVIOUS
<1>1. ASSUME NEW p \in Process, Begin(p) PROVE Turns!Next \/ UNCHANGED Turns!vars
  <2>1. CASE ~Seen(driver[p].req) /\ Free
    BY <1>1, <2>1, BeginIsTake
  <2>2. CASE Seen(driver[p].req) \/ ~Free
    <3>1. UNCHANGED <<history, run, inference, ledger>>
      BY <1>1, <2>2 DEF Begin, rows
    <3>2. QED
      BY <3>1, UnseenTurn
  <2>3. QED
    BY <2>1, <2>2
<1>2. ASSUME NEW p \in Process,
             \/ CheckExchange(p) \/ ReadSaved(p) \/ Stop(p) \/ BuildContext(p)
             \/ \E n \in 0 .. MaxCalls : Generate(p, n)
             \/ ClaimCall(p) \/ StartHandler(p)
             \/ \E o \in {"SUCCEEDED", "FAILED"} : HandlerReturns(p, o)
             \/ \E cancelled \in BOOLEAN : Abandon(p, cancelled)
             \/ LoseDecision(p) \/ Raise(p) \/ Crash(p) \/ LoseRun(p)
             \/ \E q \in Request : Submit(p, q)
      PROVE  UNCHANGED Turns!vars
  <2>1. UNCHANGED <<history, run, inference, ledger>>
    BY <1>2 DEF CheckExchange, ReadSaved, Stop, BuildContext, Generate, ClaimCall, StartHandler,
                HandlerReturns, Abandon, LoseDecision, Raise, Crash, LoseRun, Submit, rows
  <2>2. QED
    BY <2>1, UnseenTurn
<1>3. ASSUME NEW c \in Call, HandlerWrite(c) \/ HandlerEnds(c) PROVE UNCHANGED Turns!vars
  <2>1. UNCHANGED <<history, run, inference, ledger>>
    BY <1>3 DEF HandlerWrite, HandlerEnds, rows
  <2>2. QED
    BY <2>1, UnseenTurn
<1>4. ASSUME NEW p \in Process, Drive(p) PROVE Turns!Next \/ UNCHANGED Turns!vars
  BY <1>1, <1>2, <1>4, PrepareIsAsk, AcceptIsReply, FailIsGiveUp, SideRecordUnseen,
     SettleIsAnswer, FinishIsLeave DEF Drive
<1>5. CASE UNCHANGED vars
  BY <1>5, UnseenTurn DEF vars, rows
<1>6. QED
  BY <1>2, <1>3, <1>4, <1>5 DEF Next

(* The empty thread talks with nobody. *)
LEMMA InitTurns ==
  Init => Turns!Init
<1> SUFFICES ASSUME Init PROVE Turns!Init
  OBVIOUS
<1>1. ActiveRun = {}
  BY DEF Init, ActiveRun
<1>2. DOMAIN history = {1} /\ history[1].kind = "CREATED"
  BY DEF Init
<1>3. CallsIn(history) = {} /\ AnsweredIn(history) = {}
  BY <1>2 DEF CallsIn, AnsweredIn
<1>4. {q \in Request : ledger[q] # 0} = {}
  BY DEF Init
<1>5. QED
  BY <1>1, <1>3, <1>4 DEF Turns!Init

(* Whatever processes do at the same time and wherever they die, requests  *)
(* are taken one at a time and once each, the model is asked only when     *)
(* nothing it called for is open, and every call is answered at most once  *)
(* while its own request is being worked on.                               *)
THEOREM ConversationImplementsThreadTurns ==
  Spec => ImplementsThreadTurns
BY InitTurns, StepTurns, Invariance, PTL DEF Spec, ImplementsThreadTurns, Turns!Spec

=============================================================================
