\* One tool job with two tasks, two workers.
CONSTANTS
  w1 = w1
  w2 = w2
  r1 = r1
  a = a
  b = b
  NoRun = NoRun
  NoClaim = NoClaim
  NoLease = NoLease
  Worker = {w1, w2}
  Run = {r1}
  Job = {"tool"}
  Task = {a, b}
  JobOf <- MCJobOf
  RunOf <- MCRunOf
  ThreadJob = {"tool"}
  ToolJob = {"tool"}
  MaxTime = 2
  MaxAttempts = 2
SPECIFICATION Spec
SYMMETRY FullSymmetry
INVARIANTS TypeOK OutcomeCoversTasks OutcomeHasDelivery QueuedMeansUntouched
PROPERTIES ImplementsLeasedWork
