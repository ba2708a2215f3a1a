------------------------------ MODULE Calendar ------------------------------
(***************************************************************************)
(* What the hotel promises about its rooms, without bookings' histories,   *)
(* guests, keys or clocks: a calendar whose cells (a room at a moment)     *)
(* are free or held by one allocation of one stay.                         *)
(***************************************************************************)
CONSTANTS Room, Moment, Stay, Allocation

VARIABLE held   \* held[r][m]: the allocations of room r that count at moment m

(* A cell is free, or held by a single allocation. *)
Free == {}
HeldBy(s, a) == {<<s, a>>}
Cell == {Free} \cup {HeldBy(s, a) : s \in Stay, a \in Allocation}

Init == held = [r \in Room |-> [m \in Moment |-> Free]]

(* One stay takes free cells, gives up cells of its own, or both; it never *)
(* takes over a cell that is held.                                         *)
Arrange(s) ==
  /\ held' \in [Room -> [Moment -> Cell]]
  /\ \A r \in Room, m \in Moment :
       held'[r][m] # held[r][m] =>
         \E a \in Allocation : {held[r][m], held'[r][m]} = {Free, HeldBy(s, a)}

Next == \E s \in Stay : Arrange(s)

Spec == Init /\ [][Next]_held

=============================================================================
