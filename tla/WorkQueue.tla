----------------------------- MODULE WorkQueue ------------------------------
(***************************************************************************)
(* The durable work queue of moseby/db/repositories: jobs, their tasks,    *)
(* and the leases (rows of task_claims) that say which worker may save a   *)
(* task's outcome.  Every action is one write transaction (BEGIN IMMEDIATE *)
(* in db/connection.py), so steps of different workers interleave but      *)
(* never overlap.  A call that raises rolls its savepoint back and is      *)
(* therefore no step at all.                                               *)
(*                                                                         *)
(* Time is the wall clock the callers pass as "now".  It may be set back.  *)
(***************************************************************************)
EXTENDS Naturals

CONSTANTS
  Job,          \* job IDs
  Task,         \* task IDs
  Worker,       \* workers: CLI processes, tool threads, external workers
  Run,          \* agent runs that jobs may belong to
  JobOf,        \* tasks.job_id, fixed at insertion
  RunOf,        \* jobs.run_id, NoRun for independent work
  ThreadJob,    \* jobs with a thread_id: their outcome must reach a thread
  ToolJob,      \* jobs with a tool_call_id
  NoRun, NoClaim, NoLease,
  MaxTime,      \* bound on the clock
  MaxAttempts   \* bound on the attempts of one task

ASSUME WorkQueueAssumption ==
  /\ JobOf \in [Task -> Job]
  /\ RunOf \in [Job -> Run \cup {NoRun}]
  /\ NoRun \notin Run
  /\ MaxTime \in Nat /\ MaxAttempts \in Nat
  \* ck_job_run_thread and ck_job_tool_link of the jobs table
  /\ \A j \in Job : RunOf[j] # NoRun => j \in ThreadJob
  /\ \A j \in ToolJob : RunOf[j] # NoRun

VARIABLES
  clock,        \* the caller's now
  run,          \* run[r]: RUNNING, WAITING, STOPPING (stop requested), FINISHED
  jobStatus, jobUpdated,                           \* rows of jobs
  taskStatus, attempts, availableAt, taskUpdated,  \* rows of tasks
  claim,        \* claim[t]: the row of task_claims, NoClaim if there is none
  outbox,       \* outbox[j]: payload of the completion_outbox row, or NONE
  lease,        \* lease[w]: the claim worker w remembers, live or not
  lastWriter    \* lastWriter[t]: attempt whose protected write was saved last

taskVars == <<taskStatus, attempts, availableAt, taskUpdated>>
jobVars == <<jobStatus, jobUpdated, outbox>>
vars == <<clock, run, jobVars, taskVars, claim, lease, lastWriter>>

-----------------------------------------------------------------------------
Time == 0 .. MaxTime
Open == {"QUEUED", "RUNNING"}
JobOutcome == {"SUCCEEDED", "FAILED", "CANCELLED"}
TaskOutcome == {"SUCCEEDED", "FAILED"}
TaskState == {"ABSENT", "READY", "RUNNING"} \cup TaskOutcome
Claim == [token : Nat, heartbeat : Time, expires : Time]
Lease == [task : Task, attempt : Nat, token : Nat]

(* "No row" and "no lease" are not rows and leases. *)
ASSUME SentinelAssumption == NoClaim \notin Claim /\ NoLease \notin Lease

TypeOK ==
  /\ clock \in Time
  /\ run \in [Run -> {"RUNNING", "WAITING", "STOPPING", "FINISHED"}]
  /\ jobStatus \in [Job -> {"ABSENT"} \cup Open \cup JobOutcome]
  /\ jobUpdated \in [Job -> Time]
  /\ taskStatus \in [Task -> TaskState]
  /\ attempts \in [Task -> 0 .. MaxAttempts]
  /\ availableAt \in [Task -> Time]
  /\ taskUpdated \in [Task -> Time]
  /\ claim \in [Task -> Claim \cup {NoClaim}]
  /\ outbox \in [Job -> JobOutcome \cup {"NONE"}]
  /\ lease \in [Worker -> Lease \cup {NoLease}]
  /\ lastWriter \in [Task -> Nat]

Init ==
  /\ clock = 0
  /\ run = [r \in Run |-> "RUNNING"]
  /\ jobStatus = [j \in Job |-> "ABSENT"]
  /\ jobUpdated = [j \in Job |-> 0]
  /\ taskStatus = [t \in Task |-> "ABSENT"]
  /\ attempts = [t \in Task |-> 0]
  /\ availableAt = [t \in Task |-> 0]
  /\ taskUpdated = [t \in Task |-> 0]
  /\ claim = [t \in Task |-> NoClaim]
  /\ outbox = [j \in Job |-> "NONE"]
  /\ lease = [w \in Worker |-> NoLease]
  /\ lastWriter = [t \in Task |-> 0]

-----------------------------------------------------------------------------
(* Who may act: the predicates every write of the queue goes through.      *)

(* A run lets its jobs be attempted unless it ended or was asked to stop;  *)
(* while it waits, only its tool calls proceed.                            *)
Runnable(j) ==
  RunOf[j] # NoRun =>
    run[RunOf[j]] \in IF j \in ToolJob THEN {"RUNNING", "WAITING"} ELSE {"RUNNING"}

ClaimableJob(j) ==
  /\ jobStatus[j] \in Open
  /\ jobUpdated[j] <= clock
  /\ Runnable(j)

\* Mutant: a deadline counts as past one tick too early.
ExpiresSoon(t) == claim[t] # NoClaim /\ claim[t].expires > clock + 1

(* Another worker's lease has not run out yet. *)
ClaimedByOther(t) == claim[t] # NoClaim /\ claim[t].expires > clock

Claimable(t) ==
  /\ ClaimableJob(JobOf[t])
  /\ taskStatus[t] \in {"READY", "RUNNING"}
  /\ availableAt[t] <= clock
  /\ taskUpdated[t] <= clock
  /\ ~ClaimedByOther(t)

\* Mutants: a claim saved without its token; a takeover that keeps the old token.
MissingToken(t) == NoClaim
KeptToken(t) == 1

(* Tokens are drawn afresh for every attempt of a task. *)
FreshToken(t) == attempts[t] + 1

\* Mutant: ownership checked without comparing saved times with the clock.
OwnsAnyClock(w) ==
  /\ lease[w] # NoLease
  /\ LET t == lease[w].task IN
     /\ jobStatus[JobOf[t]] \in Open
     /\ taskStatus[t] = "RUNNING"
     /\ claim[t] # NoClaim
     /\ claim[t].token = lease[w].token
     /\ claim[t].expires > clock

(* The lease a worker remembers still owns its task. *)
Owns(w) ==
  /\ lease[w] # NoLease
  /\ LET t == lease[w].task IN
     /\ jobStatus[JobOf[t]] \in Open
     /\ taskStatus[t] = "RUNNING"
     /\ taskUpdated[t] <= clock
     /\ claim[t] # NoClaim
     /\ claim[t].token = lease[w].token
     /\ claim[t].heartbeat <= clock
     /\ claim[t].expires > clock

\* Mutant: only running tasks hold a job's outcome back.
RunningBlocks(t, o) == taskStatus[t] = "RUNNING" \/ taskUpdated[t] > clock

(* Unsettled tasks, or tasks saved at a later time, block a job's outcome. *)
Blocks(t, o) ==
  \/ taskStatus[t] \notin IF o = "SUCCEEDED" THEN {"SUCCEEDED"} ELSE TaskOutcome
  \/ taskUpdated[t] > clock

TasksOf(j) == {t \in Task : JobOf[t] = j /\ taskStatus[t] # "ABSENT"}

-----------------------------------------------------------------------------
(* Accepting work. *)

(* A job and its first tasks are saved in one transaction, for a run that  *)
(* is still running (conversations.accept_reply) or for no run.            *)
AcceptJob(j, T) ==
  /\ jobStatus[j] = "ABSENT"
  /\ RunOf[j] # NoRun => run[RunOf[j]] = "RUNNING"
  /\ jobStatus' = [jobStatus EXCEPT ![j] = "QUEUED"]
  /\ jobUpdated' = [jobUpdated EXCEPT ![j] = clock]
  /\ taskStatus' = [t \in Task |-> IF t \in T THEN "READY" ELSE taskStatus[t]]
  /\ availableAt' = [t \in Task |-> IF t \in T THEN clock ELSE availableAt[t]]
  /\ taskUpdated' = [t \in Task |-> IF t \in T THEN clock ELSE taskUpdated[t]]
  /\ UNCHANGED <<clock, run, outbox, attempts, claim, lease, lastWriter>>

(* A later phase adds a task to a job that has no outcome yet. *)
AddTask(t, available) ==
  /\ taskStatus[t] = "ABSENT"
  /\ jobStatus[JobOf[t]] \in Open
  /\ jobUpdated[JobOf[t]] <= clock
  /\ taskStatus' = [taskStatus EXCEPT ![t] = "READY"]
  /\ availableAt' = [availableAt EXCEPT ![t] = available]
  /\ taskUpdated' = [taskUpdated EXCEPT ![t] = clock]
  /\ UNCHANGED <<clock, run, jobVars, attempts, claim, lease, lastWriter>>

-----------------------------------------------------------------------------
(* Attempts. *)

\* Mutant: an attempt leaves its queued job as it is.
LeaveJob(j) == UNCHANGED <<jobStatus, jobUpdated>>

(* The first attempt moves a queued job into progress. *)
StartJob(j) ==
  /\ jobStatus' = [jobStatus EXCEPT ![j] = "RUNNING"]
  /\ jobUpdated' = [jobUpdated EXCEPT ![j] = IF jobStatus[j] = "QUEUED" THEN clock ELSE @]

(* One attempt: the task runs, its claim row is inserted or replaced under *)
(* a fresh token, and a queued job starts.                                 *)
StartAttempt(w, t, until) ==
  /\ lease[w] = NoLease
  /\ Claimable(t)
  /\ until > clock
  /\ attempts[t] < MaxAttempts
  /\ taskStatus' = [taskStatus EXCEPT ![t] = "RUNNING"]
  /\ taskUpdated' = [taskUpdated EXCEPT ![t] = clock]
  /\ attempts' = [attempts EXCEPT ![t] = @ + 1]
  /\ claim' = [claim EXCEPT ![t] =
       [token |-> FreshToken(t), heartbeat |-> clock, expires |-> until]]
  /\ lease' = [lease EXCEPT ![w] =
       [task |-> t, attempt |-> attempts[t] + 1, token |-> FreshToken(t)]]
  /\ StartJob(JobOf[t])
  /\ UNCHANGED <<clock, run, outbox, availableAt, lastWriter>>

(* claim: the caller names the task. *)
ClaimTask(w, t, until) == StartAttempt(w, t, until)

(* claim_next: the caller takes a task that has been due for longest; the  *)
(* tie-break by creation time and ID is left open.                         *)
ClaimNext(w, until) ==
  \E t \in Task :
    /\ \A u \in Task : Claimable(u) => availableAt[t] <= availableAt[u]
    /\ StartAttempt(w, t, until)

(* Renewal keeps the token and never brings the deadline forward. *)
Renew(w, until) ==
  /\ Owns(w)
  /\ LET t == lease[w].task IN
     /\ until > clock
     /\ until >= claim[t].expires
     /\ claim' = [claim EXCEPT ![t].heartbeat = clock, ![t].expires = until]
  /\ UNCHANGED <<clock, run, jobVars, taskVars, lease, lastWriter>>

(* guard: local writes protected by the worker's claim. *)
ProtectedWrite(w) ==
  /\ Owns(w)
  /\ lastWriter' = [lastWriter EXCEPT ![lease[w].task] = lease[w].attempt]
  /\ UNCHANGED <<clock, run, jobVars, taskVars, claim, lease>>

(* succeed, fail: save the attempt's final outcome.  The claim row stays.  *)
FinishTask(w, o) ==
  /\ Owns(w)
  /\ LET t == lease[w].task IN
     /\ taskStatus' = [taskStatus EXCEPT ![t] = o]
     /\ taskUpdated' = [taskUpdated EXCEPT ![t] = clock]
     /\ lastWriter' = [lastWriter EXCEPT ![t] = lease[w].attempt]
  /\ UNCHANGED <<clock, run, jobVars, attempts, availableAt, claim, lease>>

\* Mutant: the claim row survives the hand-back.
RetryKeepsClaim(w, available) ==
  /\ Owns(w)
  /\ available >= clock
  /\ LET t == lease[w].task IN
     /\ taskStatus' = [taskStatus EXCEPT ![t] = "READY"]
     /\ availableAt' = [availableAt EXCEPT ![t] = available]
     /\ taskUpdated' = [taskUpdated EXCEPT ![t] = clock]
     /\ lastWriter' = [lastWriter EXCEPT ![t] = lease[w].attempt]
  /\ UNCHANGED <<clock, run, jobVars, attempts, claim, lease>>

(* retry: hand the same task back for a later attempt, deleting the claim. *)
RetryTask(w, available) ==
  /\ Owns(w)
  /\ available >= clock
  /\ LET t == lease[w].task IN
     /\ taskStatus' = [taskStatus EXCEPT ![t] = "READY"]
     /\ availableAt' = [availableAt EXCEPT ![t] = available]
     /\ taskUpdated' = [taskUpdated EXCEPT ![t] = clock]
     /\ claim' = [claim EXCEPT ![t] = NoClaim]
     /\ lastWriter' = [lastWriter EXCEPT ![t] = lease[w].attempt]
  /\ UNCHANGED <<clock, run, jobVars, attempts, lease>>

(* A worker crashes, or drops a claim it is done with. *)
Forget(w) ==
  /\ lease[w] # NoLease
  /\ lease' = [lease EXCEPT ![w] = NoLease]
  /\ UNCHANGED <<clock, run, jobVars, taskVars, claim, lastWriter>>

-----------------------------------------------------------------------------
\* Mutant: the outcome is saved without its delivery.
FinishSilently(j, o) ==
  /\ jobStatus[j] \in Open
  /\ jobUpdated[j] <= clock
  /\ \A t \in TasksOf(j) : ~Blocks(t, o)
  /\ jobStatus' = [jobStatus EXCEPT ![j] = o]
  /\ jobUpdated' = [jobUpdated EXCEPT ![j] = clock]
  /\ UNCHANGED <<clock, run, taskVars, claim, lease, lastWriter, outbox>>

(* job_completions.finish: the outcome and, for a thread's job, the entry  *)
(* that will deliver it.  A repeat with the same outcome changes nothing,  *)
(* one with another outcome is refused.                                    *)
FinishJob(j, o) ==
  /\ jobStatus[j] \in Open
  /\ jobUpdated[j] <= clock
  /\ \A t \in TasksOf(j) : ~Blocks(t, o)
  /\ jobStatus' = [jobStatus EXCEPT ![j] = o]
  /\ jobUpdated' = [jobUpdated EXCEPT ![j] = clock]
  /\ outbox' = IF j \in ThreadJob THEN [outbox EXCEPT ![j] = o] ELSE outbox
  /\ UNCHANGED <<clock, run, taskVars, claim, lease, lastWriter>>

(* runs.finish, as far as the queue is concerned. *)
FinishRun(r) ==
  /\ run[r] # "FINISHED"
  /\ run' = [run EXCEPT ![r] = "FINISHED"]
  /\ UNCHANGED <<clock, jobVars, taskVars, claim, lease, lastWriter>>

(* External: operators pause a run, resume it or ask it to stop. *)
SteerRun(r, s) ==
  /\ run[r] \in {"RUNNING", "WAITING"}
  /\ s \in {"RUNNING", "WAITING", "STOPPING"}
  /\ run' = [run EXCEPT ![r] = s]
  /\ UNCHANGED <<clock, jobVars, taskVars, claim, lease, lastWriter>>

(* External: the wall clock moves on, or is set back. *)
SetClock(now) ==
  /\ clock' = now
  /\ UNCHANGED <<run, jobVars, taskVars, claim, lease, lastWriter>>

Next ==
  \/ \E j \in Job : \E T \in SUBSET {t \in Task : JobOf[t] = j} :
       T # {} /\ AcceptJob(j, T)
  \/ \E t \in Task, available \in Time : AddTask(t, available)
  \/ \E w \in Worker, t \in Task, until \in Time : ClaimTask(w, t, until)
  \/ \E w \in Worker, until \in Time : ClaimNext(w, until)
  \/ \E w \in Worker, until \in Time : Renew(w, until)
  \/ \E w \in Worker : ProtectedWrite(w)
  \/ \E w \in Worker, o \in TaskOutcome : FinishTask(w, o)
  \/ \E w \in Worker, available \in Time : RetryTask(w, available)
  \/ \E w \in Worker : Forget(w)
  \/ \E j \in Job, o \in JobOutcome : FinishJob(j, o)
  \/ \E r \in Run : FinishRun(r)
  \/ \E r \in Run, s \in {"RUNNING", "WAITING", "STOPPING"} : SteerRun(r, s)
  \/ \E now \in Time : SetClock(now)

Spec == Init /\ [][Next]_vars

-----------------------------------------------------------------------------
(* Properties. *)

(* The claim row always belongs to the latest attempt: a running task has  *)
(* one with that attempt's token, a ready task has none, and no worker     *)
(* remembers an attempt that was never started (task_claims._claim, retry).*)
ClaimFollowsAttempt ==
  /\ \A t \in Task : taskStatus[t] = "RUNNING" =>
       claim[t] # NoClaim /\ claim[t].token = attempts[t]
  /\ \A t \in Task : taskStatus[t] \in {"ABSENT", "READY"} => claim[t] = NoClaim
  /\ \A w \in Worker : lease[w] # NoLease => lease[w].attempt <= attempts[lease[w].task]

(* A job's outcome is never ahead of its tasks: once it is saved, each of  *)
(* its tasks is settled, was saved no later than the job, and succeeded if *)
(* the job did.  No late task or late attempt can slip in afterwards       *)
(* (jobs.finish, tasks.create, claimable_job_ids, claimed_task_ids).       *)
OutcomeCoversTasks ==
  \A j \in Job : jobStatus[j] \in JobOutcome =>
    \A t \in TasksOf(j) :
      /\ taskStatus[t] \in IF jobStatus[j] = "SUCCEEDED" THEN {"SUCCEEDED"} ELSE TaskOutcome
      /\ taskUpdated[t] <= jobUpdated[j]

(* A job's outcome and the entry that delivers it are saved together and   *)
(* agree; a standalone job has no delivery (job_completions.finish).       *)
OutcomeHasDelivery ==
  \A j \in Job : outbox[j] =
    IF j \in ThreadJob /\ jobStatus[j] \in JobOutcome THEN jobStatus[j] ELSE "NONE"

(* A job still QUEUED has never been attempted, so no task of it has been  *)
(* started behind its back (task_claims._claim).                           *)
QueuedMeansUntouched ==
  \A j \in Job : jobStatus[j] = "QUEUED" =>
    \A t \in TasksOf(j) : attempts[t] = 0 /\ taskStatus[t] = "READY"

(* A lease that has not run out is never taken over: its row only changes  *)
(* under the same token, or goes away because its own worker handed the    *)
(* task back (task_claims._claimable_tasks, renew, tasks.retry).           *)
LiveLeaseIsKept ==
  [][\A t \in Task : claim[t] # NoClaim /\ claim[t].expires > clock
                     /\ claim'[t] # claim[t] =>
       \/ /\ claim'[t] # NoClaim
          /\ claim'[t].token = claim[t].token
          /\ claim'[t].expires >= claim[t].expires
       \/ \E w \in Worker : lease[w] # NoLease /\ lease[w].task = t
                            /\ lease[w].attempt = attempts[t]
                            /\ taskStatus'[t] = "READY"]_vars

(* Although the wall clock may be set back, no saved row is ever stamped   *)
(* earlier than before: jobs, tasks and heartbeats only move forwards      *)
(* (the updated_at and heartbeat_at conditions of every write).            *)
StampsNeverGoBack ==
  [][/\ \A j \in Job : jobStatus[j] # "ABSENT" => jobUpdated'[j] >= jobUpdated[j]
     /\ \A t \in Task : taskStatus[t] # "ABSENT" => taskUpdated'[t] >= taskUpdated[t]
     /\ \A t \in Task : claim[t] # NoClaim /\ claim'[t] # NoClaim =>
          claim'[t].heartbeat >= claim[t].heartbeat]_vars

(* The queue implements LeasedWork: whatever workers remember and however  *)
(* the clock is set, only the latest attempt's writes are saved, outcomes  *)
(* are final, and jobs close over settled tasks and are announced at once. *)
Abstract == INSTANCE LeasedWork WITH
  Announced <- ThreadJob, task <- taskStatus, attempt <- attempts, writer <- lastWriter,
  job <- [j \in Job |-> IF jobStatus[j] \in Open THEN "OPEN" ELSE jobStatus[j]],
  announce <- outbox

ImplementsLeasedWork == Abstract!Spec

=============================================================================
