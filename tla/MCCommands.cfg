SPECIFICATION Spec
CONSTANTS
  Caller = {c1, c2, c3}
  Request = {r1, r2, r3}
  Guest = {g1, g2}
  Times = {1, 2}
  Concierge <- MCConcierge
  Required <- MCRequired
  Definitions <- MCDefinitions
  Ceilings <- MCCeilings
  None = None
SYMMETRY CallSymmetry
INVARIANT TypeOK NoLostUpdate AnswersAreAuthorised SharedGrantsAreExact
PROPERTY ImplementsOnceOnly
CHECK_DEADLOCK FALSE
