\* Two processes, two requests; one turn of at most one call each.
CONSTANTS
  p1 = p1
  p2 = p2
  q1 = q1
  q2 = q2
  NoProcess = NoProcess
  Process = {p1, p2}
  Request = {q1, q2}
  MaxTurns = 1
  MaxCalls = 1
  Notes = {1}
  MaxLength = 15
SPECIFICATION Spec
PROPERTIES RepeatReadsOutcome
