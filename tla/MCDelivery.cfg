SPECIFICATION Spec
CONSTANTS
  Job = {j1, j2}
  Outcome = {succeeded, failed}
  Deliverer = {d1, d2, d3}
  Message = Message
  MaxHistory = 3
  PageSize = 1
  None = None
SYMMETRY Anybody
INVARIANT PagesFollowTheHistory
PROPERTY ImplementsJournal
CHECK_DEADLOCK FALSE
