\* Two stays compete for two rooms; keys, no activities.
CONSTANTS
  family = family
  single = single
  None = None
  Unlimited = Unlimited
  Booking = {b1, b2}
  Guest = {g1, g2}
  Room = {family, single}
  Allocation = {a1, a2, a3}
  Key = {k1}
  Activity = {}
  Seat = {}
  Places <- MCPlaces
  MaxDate = 3
  Clock = {1}
  Ages = {0}
  Settings <- NoSettings
  MinGroup = 1
  MaxGroup = 1
  MaxRooms = 2
SPECIFICATION Spec
SYMMETRY RoomSymmetry
INVARIANTS TypeOK KeysNeverClash
PROPERTIES ImplementsCalendar NothingIsRevived BedsAreOnlyLostByAddingRooms
CHECK_DEADLOCK FALSE
