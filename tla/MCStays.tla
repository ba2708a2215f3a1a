------------------------------ MODULE MCStays -------------------------------
(* Small instances of Stays for TLC: a family room and a single room, or   *)
(* two doubles.                                                            *)
EXTENDS Stays

CONSTANTS family, single

MCPlaces == [r \in Room |-> IF r = family THEN 2 ELSE 1]
Doubles == [r \in Room |-> 2]
NoSettings == {}

(* A short event with a single place, and a longer one for the older.      *)
Event(d, places, age) == [min |-> d.min, max |-> d.max, capacity |-> places, minAge |-> age]
MCSettings ==
  {Event([min |-> 0, max |-> 1], 1, 0), Event([min |-> 0, max |-> 2], Unlimited, 1)}

(* Commands received before the first date, and after the first night. *)
BeforeAndAfter == {-1, 1}

RoomSymmetry ==
  Permutations(Booking) \cup Permutations(Guest) \cup Permutations(Allocation)
SeatSymmetry ==
  Permutations(Booking) \cup Permutations(Guest) \cup Permutations(Allocation)
    \cup Permutations(Seat) \cup Permutations(Room)

=============================================================================
