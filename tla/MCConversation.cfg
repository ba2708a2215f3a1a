\* Two processes, two requests; one turn of up to two calls each.
CONSTANTS
  p1 = p1
  p2 = p2
  q1 = q1
  q2 = q2
  NoProcess = NoProcess
  Process = {p1, p2}
  Request = {q1, q2}
  MaxTurns = 1
  MaxCalls = 2
  Notes = {2}
  MaxLength = 17
SPECIFICATION Spec
SYMMETRY Symmetry
INVARIANTS ResultsFollowTheirReply ContextIsWhole OneDriver
PROPERTIES ImplementsThreadTurns
