\* Two processes that submit the same request; one turn of up to two calls.
CONSTANTS
  p1 = p1
  p2 = p2
  q1 = q1
  q2 = q2
  NoProcess = NoProcess
  Process = {p1, p2}
  Request = {q1}
  MaxTurns = 1
  MaxCalls = 2
  Notes = {2}
  MaxLength = 9
SPECIFICATION FairSpec
PROPERTIES RunsEnd
