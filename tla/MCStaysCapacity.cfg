\* One stay is booked for its party and then gets another room.
CONSTANTS
  family = family
  single = single
  None = None
  Unlimited = Unlimited
  Booking = {b1}
  Guest = {g1, g2}
  Room = {family, single}
  Allocation = {a1, a2}
  Key = {}
  Activity = {}
  Seat = {}
  Places <- MCPlaces
  MaxDate = 3
  Clock = {1}
  Ages = {0}
  Settings <- NoSettings
  MinGroup = 1
  MaxGroup = 1
  MaxRooms = 1
SPECIFICATION Spec
INVARIANTS HousedThroughout
CHECK_DEADLOCK FALSE
