\* Two processes that submit the same request; two turns of up to three calls, of which two save notes.
CONSTANTS
  p1 = p1
  p2 = p2
  q1 = q1
  q2 = q2
  NoProcess = NoProcess
  Process = {p1, p2}
  Request = {q1}
  MaxTurns = 2
  MaxCalls = 3
  Notes = {1, 3}
  MaxLength = 21
SPECIFICATION Spec
SYMMETRY Symmetry
INVARIANTS TypeOK BudgetIsKnown NoWriteBehindResult FinishedRunsAreSettled
