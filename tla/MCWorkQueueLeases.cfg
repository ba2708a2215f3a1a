\* One standalone task, two workers, room for three attempts and for
\* deadlines that are renewed, run out and are overtaken.
CONSTANTS
  w1 = w1
  w2 = w2
  r1 = r1
  a = a
  b = b
  NoRun = NoRun
  NoClaim = NoClaim
  NoLease = NoLease
  Worker = {w1, w2}
  Run = {}
  Job = {"alone"}
  Task = {a}
  JobOf <- MCJobOf
  RunOf <- AloneRunOf
  ThreadJob = {}
  ToolJob = {}
  MaxTime = 4
  MaxAttempts = 3
SPECIFICATION Spec
SYMMETRY WorkerSymmetry
INVARIANTS ClaimFollowsAttempt
PROPERTIES LiveLeaseIsKept StampsNeverGoBack
