\* Guests of two stays compete for scarce places; stays change under them,
\* by commands whose times are out of order.
CONSTANTS
  family = family
  single = single
  None = None
  Unlimited = Unlimited
  Booking = {b1, b2}
  Guest = {g1, g2}
  Room = {r1, r2}
  Allocation = {a1, a2}
  Key = {}
  Activity = {tennis}
  Seat = {s1, s2}
  Places <- Doubles
  MaxDate = 2
  Clock <- BeforeAndAfter
  Ages = {0, 1}
  Settings <- MCSettings
  MinGroup = 1
  MaxGroup = 2
  MaxRooms = 1
SPECIFICATION Spec
SYMMETRY SeatSymmetry
INVARIANTS ReservedActivitiesAreCovered PlacesWithinCapacity OnePlacePerGuest CompletedStaysHaveEnded
PROPERTIES OnlyGuestEditsAdmitTheYoung
CHECK_DEADLOCK FALSE
