-------------------------- MODULE WorkQueue_proofs --------------------------
(***************************************************************************)
(* Proofs about WorkQueue for every number of jobs, tasks, workers and     *)
(* runs, every clock bound and every number of attempts.                   *)
(***************************************************************************)
EXTENDS WorkQueue, TLAPS

USE WorkQueueAssumption DEF Time, JobOutcome, TaskOutcome

-----------------------------------------------------------------------------
(* Every variable keeps its type (the columns' CHECK constraints).         *)
THEOREM TypeCorrect == Spec => []TypeOK
<1> USE DEF TypeOK, Open, TaskState
<1>1. Init => TypeOK
  BY DEF Init
<1>2. TypeOK /\ [Next]_vars => TypeOK'
  <2> SUFFICES ASSUME TypeOK, [Next]_vars PROVE TypeOK'
    OBVIOUS
  <2> USE DEF Claim, Lease
  <2>1. ASSUME NEW j \in Job, NEW T \in SUBSET Task, AcceptJob(j, T) PROVE TypeOK'
    BY <2>1 DEF AcceptJob
  <2>2. ASSUME NEW t \in Task, NEW available \in Time, AddTask(t, available) PROVE TypeOK'
    BY <2>2 DEF AddTask, jobVars
  <2>3. ASSUME NEW w \in Worker, NEW t \in Task, NEW until \in Time, StartAttempt(w, t, until)
        PROVE TypeOK'
    BY <2>3 DEF StartAttempt, StartJob, FreshToken
  <2>4. ASSUME NEW w \in Worker, NEW until \in Time, Renew(w, until) PROVE TypeOK'
    BY <2>4 DEF Renew, Owns, jobVars, taskVars
  <2>5. ASSUME NEW w \in Worker, ProtectedWrite(w) PROVE TypeOK'
    BY <2>5 DEF ProtectedWrite, Owns, jobVars, taskVars
  <2>6. ASSUME NEW w \in Worker, NEW o \in TaskOutcome, FinishTask(w, o) PROVE TypeOK'
    BY <2>6 DEF FinishTask, Owns, jobVars
  <2>7. ASSUME NEW w \in Worker, NEW available \in Time, RetryTask(w, available) PROVE TypeOK'
    BY <2>7 DEF RetryTask, Owns, jobVars
  <2>8. ASSUME NEW w \in Worker, Forget(w) PROVE TypeOK'
    BY <2>8 DEF Forget, jobVars, taskVars
  <2>9. ASSUME NEW j \in Job, NEW o \in JobOutcome, FinishJob(j, o) PROVE TypeOK'
    BY <2>9 DEF FinishJob, taskVars
  <2>10. ASSUME NEW r \in Run, FinishRun(r) PROVE TypeOK'
    BY <2>10 DEF FinishRun, jobVars, taskVars
  <2>11. ASSUME NEW r \in Run, NEW s \in {"RUNNING", "WAITING", "STOPPING"}, SteerRun(r, s)
         PROVE TypeOK'
    BY <2>11 DEF SteerRun, jobVars, taskVars
  <2>12. ASSUME NEW now \in Time, SetClock(now) PROVE TypeOK'
    BY <2>12 DEF SetClock, jobVars, taskVars
  <2>13. CASE UNCHANGED vars
    BY <2>13 DEF vars, jobVars, taskVars
  <2>14. QED
    BY <2>1, <2>2, <2>3, <2>4, <2>5, <2>6, <2>7, <2>8, <2>9, <2>10, <2>11, <2>12, <2>13
       DEF Next, ClaimTask, ClaimNext
<1>3. QED
  BY <1>1, <1>2, PTL DEF Spec

-----------------------------------------------------------------------------
(* The inductive invariant.  ClaimFollowsAttempt alone says nothing of the *)
(* token a worker remembers or of work that does not exist yet; the last   *)
(* three conjuncts add that.                                               *)
LeaseHoldsItsToken == \A w \in Worker : lease[w] # NoLease => lease[w].token = lease[w].attempt
AbsentTasksAreFresh == \A t \in Task : taskStatus[t] = "ABSENT" => attempts[t] = 0
AbsentJobsHaveNoTasks ==
  \A t \in Task : jobStatus[JobOf[t]] = "ABSENT" => taskStatus[t] = "ABSENT"

IInv ==
  /\ ClaimFollowsAttempt
  /\ OutcomeCoversTasks
  /\ OutcomeHasDelivery
  /\ QueuedMeansUntouched
  /\ LeaseHoldsItsToken
  /\ AbsentTasksAreFresh
  /\ AbsentJobsHaveNoTasks

(* A worker that owns its task owns the latest attempt of it.              *)
LEMMA OwnerIsLatest ==
  ASSUME TypeOK, IInv, NEW w \in Worker, Owns(w)
  PROVE  /\ lease[w].task \in Task
         /\ lease[w].attempt = attempts[lease[w].task]
         /\ taskStatus[lease[w].task] = "RUNNING"
         /\ jobStatus[JobOf[lease[w].task]] = "RUNNING"
<1>1. lease[w] \in Lease
  BY DEF TypeOK, Owns
<1>2. lease[w].task \in Task /\ JobOf[lease[w].task] \in Job
  BY <1>1 DEF Lease
<1>3. claim[lease[w].task].token = attempts[lease[w].task]
  BY <1>2 DEF Owns, IInv, ClaimFollowsAttempt
<1>4. lease[w].attempt = attempts[lease[w].task]
  BY <1>3 DEF Owns, IInv, LeaseHoldsItsToken
<1>5. jobStatus[JobOf[lease[w].task]] # "QUEUED"
  BY <1>2 DEF Owns, IInv, QueuedMeansUntouched, TasksOf
<1>6. QED
  BY <1>2, <1>4, <1>5 DEF Owns, Open

(* The invariant holds initially: nothing exists. *)
LEMMA InitIInv == Init => IInv
BY DEF Init, IInv, ClaimFollowsAttempt, OutcomeCoversTasks, OutcomeHasDelivery, TasksOf,
       QueuedMeansUntouched, LeaseHoldsItsToken, AbsentTasksAreFresh, AbsentJobsHaveNoTasks, Open

(* Every step of the queue keeps it. *)
LEMMA StepIInv == TypeOK /\ IInv /\ [Next]_vars => IInv'
<1> SUFFICES ASSUME TypeOK, IInv, [Next]_vars PROVE IInv'
  OBVIOUS
<1> USE DEF Open
<1>1. ASSUME NEW j \in Job, NEW T \in SUBSET {t \in Task : JobOf[t] = j}, AcceptJob(j, T)
      PROVE IInv'
  <2> USE <1>1 DEF AcceptJob, TypeOK
  <2>1. \A t \in T : taskStatus[t] = "ABSENT" /\ attempts[t] = 0 /\ claim[t] = NoClaim
    BY DEF IInv, AbsentJobsHaveNoTasks, AbsentTasksAreFresh, ClaimFollowsAttempt
  <2>2. ClaimFollowsAttempt'
    BY <2>1 DEF IInv, ClaimFollowsAttempt
  <2>3. OutcomeCoversTasks'
    BY <2>1 DEF IInv, OutcomeCoversTasks, TasksOf
  <2>4. OutcomeHasDelivery'
    BY DEF IInv, OutcomeHasDelivery
  <2>5. QueuedMeansUntouched'
    BY <2>1 DEF IInv, QueuedMeansUntouched, TasksOf, AbsentJobsHaveNoTasks
  <2>6. LeaseHoldsItsToken' /\ AbsentTasksAreFresh' /\ AbsentJobsHaveNoTasks'
    BY DEF IInv, LeaseHoldsItsToken, AbsentTasksAreFresh, AbsentJobsHaveNoTasks
  <2>7. QED
    BY <2>2, <2>3, <2>4, <2>5, <2>6 DEF IInv
<1>2. ASSUME NEW t \in Task, NEW available \in Time, AddTask(t, available) PROVE IInv'
  <2> USE <1>2 DEF AddTask, jobVars, TypeOK
  <2>1. ClaimFollowsAttempt'
    BY DEF IInv, ClaimFollowsAttempt
  <2>2. OutcomeCoversTasks'
    BY DEF IInv, OutcomeCoversTasks, TasksOf
  <2>3. OutcomeHasDelivery'
    BY DEF IInv, OutcomeHasDelivery
  <2>4. QueuedMeansUntouched'
    BY DEF IInv, QueuedMeansUntouched, TasksOf, AbsentTasksAreFresh
  <2>5. LeaseHoldsItsToken' /\ AbsentTasksAreFresh' /\ AbsentJobsHaveNoTasks'
    BY DEF IInv, LeaseHoldsItsToken, AbsentTasksAreFresh, AbsentJobsHaveNoTasks
  <2>6. QED
    BY <2>1, <2>2, <2>3, <2>4, <2>5 DEF IInv
<1>3. ASSUME NEW w \in Worker, NEW t \in Task, NEW until \in Time, StartAttempt(w, t, until)
      PROVE IInv'
  <2> USE <1>3 DEF StartAttempt, StartJob, FreshToken, TypeOK
  <2>1. jobStatus[JobOf[t]] \in Open /\ taskStatus[t] \in {"READY", "RUNNING"}
    BY DEF Claimable, ClaimableJob
  <2>2. claim'[t] # NoClaim /\ claim'[t].token = attempts'[t]
    BY SentinelAssumption DEF Claim
  <2>3. lease'[w] # NoLease /\ lease'[w].token = lease'[w].attempt /\ lease'[w].task = t
        /\ lease'[w].attempt = attempts'[t]
    BY SentinelAssumption DEF Lease
  <2>4. ClaimFollowsAttempt'
    <3>1. ASSUME NEW u \in Task
          PROVE  /\ taskStatus'[u] = "RUNNING" =>
                      claim'[u] # NoClaim /\ claim'[u].token = attempts'[u]
                 /\ taskStatus'[u] \in {"ABSENT", "READY"} => claim'[u] = NoClaim
      BY <2>2 DEF IInv, ClaimFollowsAttempt
    <3>2. ASSUME NEW v \in Worker, lease'[v] # NoLease
          PROVE lease'[v].attempt <= attempts'[lease'[v].task]
      <4>1. CASE v = w
        BY <2>3, <4>1
      <4>2. CASE v # w
        <5>1. lease'[v] = lease[v] /\ lease[v] \in Lease
          BY <4>2, <3>2
        <5>2. lease[v].attempt <= attempts[lease[v].task]
          BY <5>1, <3>2 DEF IInv, ClaimFollowsAttempt
        <5>3. lease[v].task \in Task /\ lease[v].attempt \in Nat
          BY <5>1 DEF Lease
        <5>4. attempts[lease[v].task] <= attempts'[lease[v].task]
          BY <5>3
        <5>5. QED
          BY <5>1, <5>2, <5>3, <5>4
      <4>3. QED
        BY <4>1, <4>2
    <3>3. QED
      BY <3>1, <3>2 DEF ClaimFollowsAttempt
  <2>5. OutcomeCoversTasks'
    BY <2>1 DEF IInv, OutcomeCoversTasks, TasksOf
  <2>6. OutcomeHasDelivery'
    BY <2>1 DEF IInv, OutcomeHasDelivery
  <2>7. QueuedMeansUntouched'
    BY <2>1 DEF IInv, QueuedMeansUntouched, TasksOf
  <2>8. LeaseHoldsItsToken'
    BY <2>3 DEF IInv, LeaseHoldsItsToken
  <2>9. AbsentTasksAreFresh' /\ AbsentJobsHaveNoTasks'
    BY <2>1 DEF IInv, AbsentTasksAreFresh, AbsentJobsHaveNoTasks
  <2>10. QED
    BY <2>4, <2>5, <2>6, <2>7, <2>8, <2>9 DEF IInv
<1>4. ASSUME NEW w \in Worker, NEW until \in Time, Renew(w, until) PROVE IInv'
  <2> USE <1>4 DEF Renew, jobVars, taskVars, TypeOK
  <2> DEFINE t == lease[w].task
  <2>1. t \in Task /\ taskStatus[t] = "RUNNING"
    BY OwnerIsLatest
  <2>2. claim[t] \in Claim
    BY <2>1 DEF Owns
  <2>3. claim'[t] \in Claim /\ claim'[t].token = claim[t].token
    BY <2>1, <2>2 DEF Claim
  <2>4. ClaimFollowsAttempt'
    BY <2>1, <2>3, SentinelAssumption DEF IInv, ClaimFollowsAttempt
  <2>5. QED
    BY <2>4 DEF IInv, OutcomeCoversTasks, OutcomeHasDelivery, QueuedMeansUntouched, TasksOf,
                LeaseHoldsItsToken, AbsentTasksAreFresh, AbsentJobsHaveNoTasks
<1>5. ASSUME NEW w \in Worker, ProtectedWrite(w) PROVE IInv'
  BY <1>5 DEF ProtectedWrite, jobVars, taskVars, IInv, ClaimFollowsAttempt, OutcomeCoversTasks,
              OutcomeHasDelivery, QueuedMeansUntouched, TasksOf, LeaseHoldsItsToken,
              AbsentTasksAreFresh, AbsentJobsHaveNoTasks
<1>6. ASSUME NEW w \in Worker, NEW o \in TaskOutcome, FinishTask(w, o) PROVE IInv'
  <2> USE <1>6 DEF FinishTask, jobVars, TypeOK
  <2> DEFINE t == lease[w].task
  <2>1. t \in Task /\ taskStatus[t] = "RUNNING" /\ jobStatus[JobOf[t]] = "RUNNING"
    BY OwnerIsLatest
  <2>2. ClaimFollowsAttempt'
    BY <2>1 DEF IInv, ClaimFollowsAttempt
  <2>3. OutcomeCoversTasks' /\ QueuedMeansUntouched'
    BY <2>1 DEF IInv, OutcomeCoversTasks, QueuedMeansUntouched, TasksOf
  <2>4. OutcomeHasDelivery' /\ LeaseHoldsItsToken'
    BY DEF IInv, OutcomeHasDelivery, LeaseHoldsItsToken
  <2>5. AbsentTasksAreFresh' /\ AbsentJobsHaveNoTasks'
    BY <2>1 DEF IInv, AbsentTasksAreFresh, AbsentJobsHaveNoTasks
  <2>6. QED
    BY <2>2, <2>3, <2>4, <2>5 DEF IInv
<1>7. ASSUME NEW w \in Worker, NEW available \in Time, RetryTask(w, available) PROVE IInv'
  <2> USE <1>7 DEF RetryTask, jobVars, TypeOK
  <2> DEFINE t == lease[w].task
  <2>1. t \in Task /\ taskStatus[t] = "RUNNING" /\ jobStatus[JobOf[t]] = "RUNNING"
    BY OwnerIsLatest
  <2>2. ClaimFollowsAttempt'
    BY <2>1 DEF IInv, ClaimFollowsAttempt
  <2>3. OutcomeCoversTasks' /\ QueuedMeansUntouched'
    BY <2>1 DEF IInv, OutcomeCoversTasks, QueuedMeansUntouched, TasksOf
  <2>4. OutcomeHasDelivery' /\ LeaseHoldsItsToken'
    BY DEF IInv, OutcomeHasDelivery, LeaseHoldsItsToken
  <2>5. AbsentTasksAreFresh' /\ AbsentJobsHaveNoTasks'
    BY <2>1 DEF IInv, AbsentTasksAreFresh, AbsentJobsHaveNoTasks
  <2>6. QED
    BY <2>2, <2>3, <2>4, <2>5 DEF IInv
<1>8. ASSUME NEW w \in Worker, Forget(w) PROVE IInv'
  <2> USE <1>8 DEF Forget, jobVars, taskVars, TypeOK
  <2>1. ClaimFollowsAttempt' /\ LeaseHoldsItsToken'
    BY DEF IInv, ClaimFollowsAttempt, LeaseHoldsItsToken
  <2>2. QED
    BY <2>1 DEF IInv, OutcomeCoversTasks, OutcomeHasDelivery, QueuedMeansUntouched, TasksOf,
                AbsentTasksAreFresh, AbsentJobsHaveNoTasks
<1>9. ASSUME NEW j \in Job, NEW o \in {"SUCCEEDED", "FAILED", "CANCELLED"}, FinishJob(j, o)
      PROVE IInv'
  <2> USE <1>9 DEF FinishJob, taskVars, TypeOK
  <2>1. OutcomeCoversTasks'
    BY DEF IInv, OutcomeCoversTasks, TasksOf, Blocks
  <2>2. OutcomeHasDelivery'
    BY DEF IInv, OutcomeHasDelivery
  <2>3. QueuedMeansUntouched'
    BY DEF IInv, QueuedMeansUntouched, TasksOf
  <2>4. ClaimFollowsAttempt' /\ LeaseHoldsItsToken' /\ AbsentTasksAreFresh'
    BY DEF IInv, ClaimFollowsAttempt, LeaseHoldsItsToken, AbsentTasksAreFresh
  <2>5. AbsentJobsHaveNoTasks'
    BY DEF IInv, AbsentJobsHaveNoTasks
  <2>6. QED
    BY <2>1, <2>2, <2>3, <2>4, <2>5 DEF IInv
<1>10. CASE UNCHANGED <<jobVars, taskVars, claim, lease>>
  BY <1>10 DEF jobVars, taskVars, IInv, ClaimFollowsAttempt, OutcomeCoversTasks,
               OutcomeHasDelivery, QueuedMeansUntouched, TasksOf, LeaseHoldsItsToken,
               AbsentTasksAreFresh, AbsentJobsHaveNoTasks
<1>11. QED
  BY <1>1, <1>2, <1>3, <1>4, <1>5, <1>6, <1>7, <1>8, <1>9, <1>10
     DEF Next, vars, ClaimTask, ClaimNext, FinishRun, SteerRun, SetClock

(* The queue's invariants hold in every reachable state: claims follow     *)
(* attempts, outcomes cover their tasks and carry their delivery, and a    *)
(* queued job is untouched.                                                *)
THEOREM Invariance == Spec => []IInv
BY TypeCorrect, InitIInv, StepIInv, PTL DEF Spec

(* The claim row of a running task is its latest attempt's. *)
THEOREM ClaimsFollow == Spec => []ClaimFollowsAttempt
<1>1. IInv => ClaimFollowsAttempt
  BY DEF IInv
<1>2. QED
  BY <1>1, Invariance, PTL

(* A saved job outcome covers settled tasks only, for good. *)
THEOREM OutcomesCover == Spec => []OutcomeCoversTasks
<1>1. IInv => OutcomeCoversTasks
  BY DEF IInv
<1>2. QED
  BY <1>1, Invariance, PTL

(* A thread job's outcome and its outbox entry are saved together. *)
THEOREM OutcomesAreDelivered == Spec => []OutcomeHasDelivery
<1>1. IInv => OutcomeHasDelivery
  BY DEF IInv
<1>2. QED
  BY <1>1, Invariance, PTL

(* A queued job's tasks are as they were accepted: never attempted. *)
THEOREM QueuedAreUntouched == Spec => []QueuedMeansUntouched
<1>1. IInv => QueuedMeansUntouched
  BY DEF IInv
<1>2. QED
  BY <1>1, Invariance, PTL

-----------------------------------------------------------------------------
(* The refinement mapping shows a job as OPEN until it has an outcome.     *)
LEMMA InitRefines == Init => Abstract!Init
BY DEF Init, Abstract!Init, Open

(* Every step of the queue is a step of LeasedWork or leaves it alone.     *)
LEMMA StepRefines == TypeOK /\ IInv /\ [Next]_vars => [Abstract!Next]_Abstract!vars
<1> SUFFICES ASSUME TypeOK, IInv, [Next]_vars PROVE [Abstract!Next]_Abstract!vars
  OBVIOUS
<1> USE DEF Open
<1>1. ASSUME NEW j \in Job, NEW T \in SUBSET {t \in Task : JobOf[t] = j}, AcceptJob(j, T)
      PROVE Abstract!Next
  <2>1. Abstract!Accept(j, T)
    BY <1>1 DEF AcceptJob, Abstract!Accept, TypeOK
  <2>2. QED
    BY <2>1 DEF Abstract!Next
<1>2. ASSUME NEW t \in Task, NEW available \in Time, AddTask(t, available) PROVE Abstract!Next
  <2>1. Abstract!Add(t)
    BY <1>2 DEF AddTask, jobVars, Abstract!Add, TypeOK
  <2>2. QED
    BY <2>1 DEF Abstract!Next
<1>3. ASSUME NEW w \in Worker, NEW t \in Task, NEW until \in Time, StartAttempt(w, t, until)
      PROVE Abstract!Next
  <2>1. Abstract!Begin(t)
    BY <1>3 DEF StartAttempt, StartJob, Claimable, ClaimableJob, Abstract!Begin, TypeOK
  <2>2. QED
    BY <2>1 DEF Abstract!Next
<1>4. ASSUME NEW w \in Worker, ProtectedWrite(w) PROVE Abstract!Next
  <2>1. Abstract!Write(lease[w].task, "RUNNING")
    BY <1>4, OwnerIsLatest DEF ProtectedWrite, jobVars, taskVars, Abstract!Write, TypeOK
  <2>2. QED
    BY <1>4, <2>1, OwnerIsLatest DEF ProtectedWrite, Abstract!Next
<1>5. ASSUME NEW w \in Worker, NEW o \in {"SUCCEEDED", "FAILED"}, FinishTask(w, o)
      PROVE Abstract!Next
  <2>1. Abstract!Write(lease[w].task, o)
    BY <1>5, OwnerIsLatest DEF FinishTask, jobVars, Abstract!Write, TypeOK
  <2>2. QED
    BY <1>5, <2>1, OwnerIsLatest DEF FinishTask, Abstract!Next
<1>6. ASSUME NEW w \in Worker, NEW available \in Time, RetryTask(w, available)
      PROVE Abstract!Next
  <2>1. Abstract!Write(lease[w].task, "READY")
    BY <1>6, OwnerIsLatest DEF RetryTask, jobVars, Abstract!Write, TypeOK
  <2>2. QED
    BY <1>6, <2>1, OwnerIsLatest DEF RetryTask, Abstract!Next
<1>7. ASSUME NEW j \in Job, NEW o \in {"SUCCEEDED", "FAILED", "CANCELLED"}, FinishJob(j, o)
      PROVE Abstract!Next
  <2>1. \A t \in TasksOf(j) :
          taskStatus[t] \in IF o = "SUCCEEDED" THEN {"SUCCEEDED"} ELSE {"SUCCEEDED", "FAILED"}
    BY <1>7 DEF FinishJob, Blocks
  <2>2. Abstract!Close(j, o)
    BY <1>7, <2>1 DEF FinishJob, taskVars, TasksOf, Abstract!TasksOf, Abstract!Close, TypeOK
  <2>3. QED
    BY <2>2 DEF Abstract!Next
<1>8. CASE UNCHANGED <<jobVars, taskVars, lastWriter>>
  BY <1>8 DEF jobVars, taskVars, Abstract!vars
<1>9. QED
  BY <1>1, <1>2, <1>3, <1>4, <1>5, <1>6, <1>7, <1>8
     DEF Next, vars, ClaimTask, ClaimNext, Renew, Forget, FinishRun, SteerRun, SetClock

(* The queue implements LeasedWork: only the latest attempt's writes are   *)
(* ever saved, and outcomes are final, complete and announced.             *)
THEOREM Refinement == Spec => ImplementsLeasedWork
BY TypeCorrect, Invariance, InitRefines, StepRefines, PTL
   DEF Spec, ImplementsLeasedWork, Abstract!Spec

-----------------------------------------------------------------------------
(* No worker's live lease is taken over by another.                        *)
LEMMA StepKeepsLiveLease ==
  ASSUME TypeOK, IInv, [Next]_vars, NEW t \in Task,
         claim[t] # NoClaim, claim[t].expires > clock, claim'[t] # claim[t]
  PROVE  \/ /\ claim'[t] # NoClaim
            /\ claim'[t].token = claim[t].token
            /\ claim'[t].expires >= claim[t].expires
         \/ \E w \in Worker : /\ lease[w] # NoLease
                               /\ lease[w].task = t
                               /\ lease[w].attempt = attempts[t]
                               /\ taskStatus'[t] = "READY"
<1>1. ASSUME NEW w \in Worker, NEW u \in Task, NEW until \in Time, StartAttempt(w, u, until)
      PROVE FALSE
  BY <1>1 DEF StartAttempt, Claimable, ClaimedByOther, TypeOK
<1>2. ASSUME NEW w \in Worker, NEW until \in Time, Renew(w, until)
      PROVE /\ claim'[t] # NoClaim
            /\ claim'[t].token = claim[t].token
            /\ claim'[t].expires >= claim[t].expires
  <2>1. t = lease[w].task
    BY <1>2, OwnerIsLatest DEF Renew, TypeOK
  <2>2. claim[t] \in Claim
    BY DEF TypeOK
  <2>3. claim'[t] = [claim[t] EXCEPT !.heartbeat = clock, !.expires = until]
    BY <1>2, <2>1 DEF Renew, TypeOK
  <2>4. claim'[t] \in Claim
    BY <1>2, <2>2, <2>3 DEF Claim, TypeOK
  <2>5. until >= claim[t].expires
    BY <1>2, <2>1 DEF Renew
  <2>6. claim'[t].token = claim[t].token /\ claim'[t].expires = until
    BY <2>2, <2>3 DEF Claim
  <2>7. QED
    BY <2>4, <2>5, <2>6, SentinelAssumption
<1>3. ASSUME NEW w \in Worker, NEW available \in Time, RetryTask(w, available)
      PROVE \E v \in Worker : /\ lease[v] # NoLease
                              /\ lease[v].task = t
                              /\ lease[v].attempt = attempts[t]
                              /\ taskStatus'[t] = "READY"
  BY <1>3, OwnerIsLatest DEF RetryTask, Owns, TypeOK
<1>4. QED
  BY <1>1, <1>2, <1>3
     DEF Next, vars, ClaimTask, ClaimNext, AcceptJob, AddTask, ProtectedWrite, FinishTask,
         Forget, FinishJob, FinishRun, SteerRun, SetClock

(* A lease that has not run out only ever changes under its own token or   *)
(* by being handed back by the worker that holds the latest attempt.       *)
THEOREM LiveLeases == Spec => LiveLeaseIsKept
<1>1. TypeOK /\ IInv /\ [Next]_vars =>
        [\A t \in Task : claim[t] # NoClaim /\ claim[t].expires > clock
                        /\ claim'[t] # claim[t] =>
           \/ /\ claim'[t] # NoClaim
              /\ claim'[t].token = claim[t].token
              /\ claim'[t].expires >= claim[t].expires
           \/ \E w \in Worker : lease[w] # NoLease /\ lease[w].task = t
                                /\ lease[w].attempt = attempts[t]
                                /\ taskStatus'[t] = "READY"]_vars
  BY StepKeepsLiveLease
<1>2. QED
  BY <1>1, TypeCorrect, Invariance, PTL DEF Spec, LiveLeaseIsKept

-----------------------------------------------------------------------------
(* A claim is saved with a deadline after its heartbeat, so that a claim   *)
(* whose deadline has passed has no heartbeat still to come.               *)
ClaimsHaveTime == \A t \in Task : claim[t] # NoClaim => claim[t].heartbeat < claim[t].expires

(* Claiming and renewing both ask for a deadline that is still to come. *)
LEMMA StepKeepsClaimsHaveTime == TypeOK /\ ClaimsHaveTime /\ [Next]_vars => ClaimsHaveTime'
<1> SUFFICES ASSUME TypeOK, ClaimsHaveTime, [Next]_vars PROVE ClaimsHaveTime'
  OBVIOUS
<1>1. ASSUME NEW w \in Worker, NEW t \in Task, NEW until \in Time, StartAttempt(w, t, until)
      PROVE ClaimsHaveTime'
  BY <1>1 DEF StartAttempt, ClaimsHaveTime, TypeOK
<1>2. ASSUME NEW w \in Worker, NEW until \in Time, Renew(w, until) PROVE ClaimsHaveTime'
  <2>1. PICK u : u = lease[w].task
    OBVIOUS
  <2>2. u \in Task /\ claim[u] \in Claim
    BY <1>2, <2>1 DEF Renew, Owns, TypeOK, Lease
  <2>3. claim' = [claim EXCEPT ![u] = [claim[u] EXCEPT !.heartbeat = clock, !.expires = until]]
    BY <1>2, <2>1, <2>2 DEF Renew, TypeOK
  <2>4. claim'[u].heartbeat = clock /\ claim'[u].expires = until
    BY <2>2, <2>3 DEF Claim, TypeOK
  <2>5. clock < until
    BY <1>2 DEF Renew, TypeOK
  <2>6. QED
    BY <2>2, <2>3, <2>4, <2>5 DEF ClaimsHaveTime, TypeOK
<1>3. ASSUME NEW w \in Worker, NEW available \in Time, RetryTask(w, available)
      PROVE ClaimsHaveTime'
  BY <1>3 DEF RetryTask, ClaimsHaveTime, TypeOK
<1>4. CASE UNCHANGED claim
  BY <1>4 DEF ClaimsHaveTime
<1>5. QED
  BY <1>1, <1>2, <1>3, <1>4
     DEF Next, vars, ClaimTask, ClaimNext, AcceptJob, AddTask, ProtectedWrite, FinishTask,
         Forget, FinishJob, FinishRun, SteerRun, SetClock

(* What a step may do to the stamps of the rows that exist. *)
StampsKeep ==
  /\ \A j \in Job : jobStatus[j] # "ABSENT" => jobUpdated'[j] >= jobUpdated[j]
  /\ \A t \in Task : taskStatus[t] # "ABSENT" => taskUpdated'[t] >= taskUpdated[t]
  /\ \A t \in Task : claim[t] # NoClaim /\ claim'[t] # NoClaim =>
       claim'[t].heartbeat >= claim[t].heartbeat

(* No write of the queue stamps a row earlier than it was stamped.         *)
LEMMA StepKeepsStamps ==
  TypeOK /\ IInv /\ ClaimsHaveTime /\ [Next]_vars => [StampsKeep]_vars
<1> SUFFICES ASSUME TypeOK, IInv, ClaimsHaveTime, Next PROVE StampsKeep
  BY Zenon
<1>0. Time \subseteq Nat
  OBVIOUS
<1>1. \A j \in Job : jobUpdated[j] \in Nat
  BY <1>0 DEF TypeOK
<1>2. \A t \in Task : taskUpdated[t] \in Nat
  BY <1>0 DEF TypeOK
<1>3. \A t \in Task : claim[t] # NoClaim => claim[t] \in Claim /\ claim[t].heartbeat \in Nat
  BY <1>0 DEF Claim, TypeOK
<1> USE DEF TypeOK
<1>4. ASSUME NEW j \in Job, NEW T \in SUBSET {t \in Task : JobOf[t] = j}, AcceptJob(j, T)
      PROVE StampsKeep
  <2>1. \A t \in T : taskStatus[t] = "ABSENT"
    BY <1>4 DEF AcceptJob, IInv, AbsentJobsHaveNoTasks
  <2>2. QED
    BY <1>1, <1>2, <1>3, <1>4, <2>1 DEF AcceptJob, StampsKeep
<1>5. ASSUME NEW t \in Task, NEW available \in Time, AddTask(t, available) PROVE StampsKeep
  BY <1>1, <1>2, <1>3, <1>5 DEF AddTask, jobVars, StampsKeep
<1>6. ASSUME NEW w \in Worker, NEW t \in Task, NEW until \in Time, StartAttempt(w, t, until)
      PROVE StampsKeep
  <2>1. claim[t] # NoClaim => claim[t].heartbeat <= clock
    BY <1>6, <1>3 DEF StartAttempt, Claimable, ClaimedByOther, ClaimsHaveTime, Claim
  <2>2. claim'[t].heartbeat = clock
    BY <1>6 DEF StartAttempt
  <2>3. \A u \in Task : u # t => claim'[u] = claim[u]
    BY <1>6 DEF StartAttempt
  <2>4. \A u \in Task : claim[u] # NoClaim /\ claim'[u] # NoClaim =>
          claim'[u].heartbeat >= claim[u].heartbeat
    BY <1>3, <2>1, <2>2, <2>3
  <2>5. \A j \in Job : jobUpdated'[j] >= jobUpdated[j]
    BY <1>1, <1>6 DEF StartAttempt, StartJob, Claimable, ClaimableJob
  <2>6. \A u \in Task : taskUpdated'[u] >= taskUpdated[u]
    BY <1>2, <1>6 DEF StartAttempt, Claimable
  <2>7. QED
    BY <2>4, <2>5, <2>6 DEF StampsKeep
<1>7. ASSUME NEW w \in Worker, NEW until \in Time, Renew(w, until) PROVE StampsKeep
  <2>1. PICK u : u = lease[w].task
    OBVIOUS
  <2>2. u \in Task /\ claim[u] \in Claim /\ claim[u].heartbeat <= clock
    BY <1>7, <2>1 DEF Renew, Owns, Lease
  <2>3. claim' = [claim EXCEPT ![u] = [claim[u] EXCEPT !.heartbeat = clock, !.expires = until]]
    BY <1>7, <2>1, <2>2 DEF Renew
  <2>4. claim'[u].heartbeat = clock
    BY <2>2, <2>3 DEF Claim
  <2>5. \A t \in Task : claim[t] # NoClaim => claim'[t].heartbeat >= claim[t].heartbeat
    BY <1>3, <2>2, <2>3, <2>4
  <2>6. QED
    BY <1>1, <1>2, <1>7, <2>5 DEF Renew, jobVars, taskVars, StampsKeep
<1>8. ASSUME NEW w \in Worker, NEW o \in TaskOutcome, FinishTask(w, o) PROVE StampsKeep
  BY <1>1, <1>2, <1>3, <1>8 DEF FinishTask, Owns, jobVars, StampsKeep
<1>9. ASSUME NEW w \in Worker, NEW available \in Time, RetryTask(w, available)
      PROVE StampsKeep
  BY <1>1, <1>2, <1>3, <1>9 DEF RetryTask, Owns, jobVars, StampsKeep
<1>10. ASSUME NEW j \in Job, NEW o \in JobOutcome, FinishJob(j, o) PROVE StampsKeep
  BY <1>1, <1>2, <1>3, <1>10 DEF FinishJob, taskVars, StampsKeep
<1>11. CASE UNCHANGED <<jobVars, taskVars, claim>>
  BY <1>1, <1>2, <1>3, <1>11 DEF jobVars, taskVars, StampsKeep
<1>12. QED
  BY <1>4, <1>5, <1>6, <1>7, <1>8, <1>9, <1>10, <1>11
     DEF Next, vars, ClaimTask, ClaimNext, ProtectedWrite, Forget, FinishRun, SteerRun,
         SetClock

(* Saved rows are never stamped earlier than before, however the clock is  *)
(* set.                                                                    *)
THEOREM StampsAreMonotonic == Spec => StampsNeverGoBack
<1>1. Init => ClaimsHaveTime
  BY DEF Init, ClaimsHaveTime
<1>2. Spec => []ClaimsHaveTime
  BY <1>1, StepKeepsClaimsHaveTime, TypeCorrect, PTL DEF Spec
<1>3. QED
  BY <1>2, StepKeepsStamps, TypeCorrect, Invariance, PTL
     DEF Spec, StampsNeverGoBack, StampsKeep

=============================================================================
