----------------------------- MODULE LeasedWork -----------------------------
(***************************************************************************)
(* What the durable work queue promises its callers, with tokens, leases   *)
(* and timestamps left out.  A task is attempted any number of times, only *)
(* its latest attempt may leave a trace in the database, it settles at     *)
(* most once, and a job is closed over settled tasks only, in the step     *)
(* that announces its outcome.  WorkQueue is shown to implement this.      *)
(***************************************************************************)
EXTENDS Naturals

CONSTANTS
  Job,      \* durable jobs
  Task,     \* the tasks they are split into
  JobOf,    \* the job each task belongs to
  Announced \* jobs whose outcome must be announced to a thread

VARIABLES
  task,     \* task[t]: ABSENT, READY, RUNNING, SUCCEEDED or FAILED
  attempt,  \* attempt[t]: how many attempts have begun
  writer,   \* writer[t]: the attempt that last left a trace, 0 if none
  job,      \* job[j]: ABSENT, OPEN, SUCCEEDED, FAILED or CANCELLED
  announce  \* announce[j]: the announced outcome, NONE before

vars == <<task, attempt, writer, job, announce>>

TasksOf(j) == {t \in Task : JobOf[t] = j /\ task[t] # "ABSENT"}

Init ==
  /\ task = [t \in Task |-> "ABSENT"]
  /\ attempt = [t \in Task |-> 0]
  /\ writer = [t \in Task |-> 0]
  /\ job = [j \in Job |-> "ABSENT"]
  /\ announce = [j \in Job |-> "NONE"]

(* A job arrives together with its first tasks. *)
Accept(j, T) ==
  /\ job[j] = "ABSENT"
  /\ \A t \in T : JobOf[t] = j
  /\ job' = [job EXCEPT ![j] = "OPEN"]
  /\ task' = [t \in Task |-> IF t \in T THEN "READY" ELSE task[t]]
  /\ UNCHANGED <<attempt, writer, announce>>

(* An open job may be given more work. *)
Add(t) ==
  /\ job[JobOf[t]] = "OPEN"
  /\ task[t] = "ABSENT"
  /\ task' = [task EXCEPT ![t] = "READY"]
  /\ UNCHANGED <<attempt, writer, job, announce>>

(* A new attempt replaces the one before it, if any. *)
Begin(t) ==
  /\ task[t] \in {"READY", "RUNNING"}
  /\ job[JobOf[t]] = "OPEN"
  /\ task' = [task EXCEPT ![t] = "RUNNING"]
  /\ attempt' = [attempt EXCEPT ![t] = @ + 1]
  /\ UNCHANGED <<writer, job, announce>>

(* The latest attempt writes; it may settle the task or hand it back.      *)
Write(t, s) ==
  /\ task[t] = "RUNNING"
  /\ job[JobOf[t]] = "OPEN"
  /\ s \in {"READY", "RUNNING", "SUCCEEDED", "FAILED"}
  /\ task' = [task EXCEPT ![t] = s]
  /\ writer' = [writer EXCEPT ![t] = attempt[t]]
  /\ UNCHANGED <<attempt, job, announce>>

(* An outcome is final, covers every task and is announced with it.        *)
Close(j, o) ==
  /\ job[j] = "OPEN"
  /\ o \in {"SUCCEEDED", "FAILED", "CANCELLED"}
  /\ \A t \in TasksOf(j) :
       task[t] \in IF o = "SUCCEEDED" THEN {"SUCCEEDED"} ELSE {"SUCCEEDED", "FAILED"}
  /\ job' = [job EXCEPT ![j] = o]
  /\ announce' = IF j \in Announced THEN [announce EXCEPT ![j] = o] ELSE announce
  /\ UNCHANGED <<task, attempt, writer>>

Next ==
  \/ \E j \in Job, T \in SUBSET Task : Accept(j, T)
  \/ \E t \in Task : Add(t) \/ Begin(t)
  \/ \E t \in Task, s \in {"READY", "RUNNING", "SUCCEEDED", "FAILED"} : Write(t, s)
  \/ \E j \in Job, o \in {"SUCCEEDED", "FAILED", "CANCELLED"} : Close(j, o)

Spec == Init /\ [][Next]_vars

=============================================================================
