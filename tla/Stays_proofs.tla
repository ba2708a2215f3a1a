---------------------------- MODULE Stays_proofs ----------------------------
(***************************************************************************)
(* Proofs about Stays: rows are never revived or moved to another owner,   *)
(* no room is booked twice, places in activities stay within bounds, beds  *)
(* are kept, and reserved activities lie within the stay.                  *)
(***************************************************************************)
EXTENDS Stays, Facts, FiniteSetTheorems, TLAPS

-----------------------------------------------------------------------------
(* Rows.                                                                   *)

(* Nothing saved is the sentinel. *)
LEMMA NoRowIsNone ==
  /\ \A row \in BookingRow : row # None
  /\ \A row \in GuestRow : row # None
  /\ \A row \in AllocationRow : row # None
  /\ \A row \in KeyRow : row # None
  /\ \A row \in SeatRow : row # None
BY NoRowAssumption

(* What is there is a row. *)
LEMMA RowsAreTyped ==
  ASSUME TypeOK
  PROVE  /\ \A b \in Booking : b \in Rows(booking) <=> booking[b] \in BookingRow
         /\ \A g \in Guest : g \in Rows(guest) <=> guest[g] \in GuestRow
         /\ \A a \in Allocation : a \in Rows(allocation) <=> allocation[a] \in AllocationRow
         /\ \A k \in Key : k \in Rows(key) <=> key[k] \in KeyRow
         /\ \A s \in Seat : s \in Rows(seat) <=> seat[s] \in SeatRow
         /\ Rows(booking) \subseteq Booking /\ Rows(guest) \subseteq Guest
         /\ Rows(allocation) \subseteq Allocation
         /\ Rows(key) \subseteq Key /\ Rows(seat) \subseteq Seat
BY NoRowIsNone DEF TypeOK, Rows

(* Dates are within their bound and not empty. *)
LEMMA DatesHold ==
  ASSUME NEW d \in Dates
  PROVE  d.min \in 0 .. MaxDate /\ d.max \in 0 .. MaxDate /\ d.min < d.max
BY DEF Dates, DateRange

(* A new allocation is a row with what was asked for. *)
LEMMA NewAllocationRow ==
  ASSUME NEW b \in Booking, NEW r \in Room, NEW now \in Clock, NEW d,
         d.min \in 0 .. MaxDate, d.max \in 0 .. MaxDate
  PROVE  /\ NewAllocation(b, r, d, now) \in AllocationRow
         /\ NewAllocation(b, r, d, now).booking = b /\ NewAllocation(b, r, d, now).room = r
         /\ NewAllocation(b, r, d, now).min = d.min /\ NewAllocation(b, r, d, now).max = d.max
         /\ ~NewAllocation(b, r, d, now).cancelled
BY DEF NewAllocation, AllocationRow

(* New dates leave the rest of their row, and all other rows, as they are. *)
LEMMA RedatedRows ==
  ASSUME TypeOK, NEW a \in Rows(allocation), NEW d \in Dates, NEW now \in Clock
  PROVE  LET after == Redated(a, d, now) IN
         /\ after \in [Allocation -> AllocationRow \cup {None}]
         /\ \A c \in Allocation : c # a => after[c] = allocation[c]
         /\ after[a] \in AllocationRow
         /\ after[a].booking = allocation[a].booking /\ after[a].room = allocation[a].room
         /\ after[a].cancelled = allocation[a].cancelled
         /\ after[a].min = d.min /\ after[a].max = d.max
<1> DEFINE row == [allocation[a] EXCEPT !.min = d.min, !.max = d.max, !.revised = now]
<1>1. a \in Allocation /\ allocation[a] \in AllocationRow
  BY RowsAreTyped
<1>2. /\ row \in AllocationRow
      /\ row.booking = allocation[a].booking /\ row.room = allocation[a].room
      /\ row.cancelled = allocation[a].cancelled /\ row.min = d.min /\ row.max = d.max
  BY <1>1, DatesHold DEF AllocationRow
<1>3. Redated(a, d, now) = [allocation EXCEPT ![a] = row]
  BY <1>1 DEF Redated, TypeOK
<1> HIDE DEF row
<1>4. QED
  BY <1>1, <1>2, <1>3 DEF TypeOK

(* A released allocation is cancelled; all other rows stay. *)
LEMMA ReleasedRows ==
  ASSUME NEW alloc \in [Allocation -> AllocationRow \cup {None}], NEW a \in Allocation,
         alloc[a] \in AllocationRow, NEW now \in Clock
  PROVE  LET after == Released(alloc, a, now) IN
         /\ after \in [Allocation -> AllocationRow \cup {None}]
         /\ \A c \in Allocation : c # a => after[c] = alloc[c]
         /\ after[a] \in AllocationRow
         /\ after[a].booking = alloc[a].booking /\ after[a].room = alloc[a].room
         /\ after[a].min = alloc[a].min /\ after[a].max = alloc[a].max
         /\ after[a].cancelled
<1> DEFINE row == [alloc[a] EXCEPT !.cancelled = TRUE, !.revised = now]
<1>2. /\ row \in AllocationRow
      /\ row.booking = alloc[a].booking /\ row.room = alloc[a].room
      /\ row.min = alloc[a].min /\ row.max = alloc[a].max /\ row.cancelled = TRUE
  BY DEF AllocationRow
<1>3. Released(alloc, a, now) = [alloc EXCEPT ![a] = row]
  BY DEF Released
<1> HIDE DEF row
<1>4. QED
  BY <1>2, <1>3

(* A move adds the new allocation and releases the old one. *)
LEMMA MovedRows ==
  ASSUME TypeOK, NEW b \in Booking, NEW old \in Rows(allocation), NEW new \in Allocation,
         allocation[new] = None, NEW r \in Room, NEW d \in Dates, NEW now \in Clock
  PROVE  LET after == Moved(b, old, new, r, d, now) IN
         /\ after \in [Allocation -> AllocationRow \cup {None}] /\ new # old
         /\ \A c \in Allocation : c # old /\ c # new => after[c] = allocation[c]
         /\ after[new] = NewAllocation(b, r, d, now)
         /\ after[old] \in AllocationRow
         /\ after[old].booking = allocation[old].booking
         /\ after[old].room = allocation[old].room
         /\ after[old].min = allocation[old].min /\ after[old].max = allocation[old].max
         /\ after[old].cancelled
<1>1. old \in Allocation /\ allocation[old] \in AllocationRow /\ old # new
  BY RowsAreTyped, NoRowIsNone
<1>2. PICK alloc : alloc = [allocation EXCEPT ![new] = NewAllocation(b, r, d, now)]
  OBVIOUS
<1>3. NewAllocation(b, r, d, now) \in AllocationRow
  BY NewAllocationRow, DatesHold
<1>4. /\ alloc \in [Allocation -> AllocationRow \cup {None}]
      /\ alloc[new] = NewAllocation(b, r, d, now)
      /\ \A c \in Allocation : c # new => alloc[c] = allocation[c]
  BY <1>2, <1>3 DEF TypeOK
<1>5. Moved(b, old, new, r, d, now) = Released(alloc, old, now)
  BY <1>2 DEF Moved
<1>6. QED
  BY <1>1, <1>4, <1>5, ReleasedRows

(* The rooms of a request take allocations that were free. *)
LEMMA WantedAreFresh ==
  ASSUME TypeOK, NEW wanted \in Requests
  PROVE  /\ DOMAIN wanted \subseteq Allocation
         /\ \A a \in DOMAIN wanted :
              /\ allocation[a] = None
              /\ wanted[a].room \in Room /\ wanted[a].min < wanted[a].max
              /\ wanted[a].min \in 0 .. MaxDate /\ wanted[a].max \in 0 .. MaxDate
<1>1. PICK A \in SUBSET Fresh(allocation) : wanted \in [A -> Request]
  BY DEF Requests
<1>2. \A a \in A : wanted[a] \in Request
  BY <1>1
<1>3. \A w \in Request : /\ w.room \in Room /\ w.min < w.max
                         /\ w.min \in 0 .. MaxDate /\ w.max \in 0 .. MaxDate
  BY DatesHold DEF Request
<1>4. QED
  BY <1>1, <1>2, <1>3 DEF Fresh, Rows, TypeOK

(* What a new stay's rooms are saved as. *)
LEMMA NewRoomsRows ==
  ASSUME TypeOK, NEW b \in Booking, NEW wanted \in Requests, NEW now \in Clock
  PROVE  LET after == NewRooms(b, wanted, now) IN
         /\ after \in [Allocation -> AllocationRow \cup {None}]
         /\ \A a \in Allocation : a \notin DOMAIN wanted => after[a] = allocation[a]
         /\ \A a \in DOMAIN wanted :
              /\ after[a] \in AllocationRow /\ after[a].booking = b
              /\ after[a].room = wanted[a].room /\ ~after[a].cancelled
              /\ after[a].min = wanted[a].min /\ after[a].max = wanted[a].max
<1>1. \A a \in DOMAIN wanted : NewAllocation(b, wanted[a].room, wanted[a], now) \in AllocationRow
  BY WantedAreFresh, NewAllocationRow
<1>2. QED
  BY <1>1, WantedAreFresh, NewAllocationRow DEF NewRooms, TypeOK

-----------------------------------------------------------------------------
(* What every step keeps of the rows that are there: their references, and *)
(* whatever has ended.                                                     *)
RowsStay ==
  /\ \A b \in Rows(booking) :
       b \in Rows(booking)' /\ (~Confirmed(b) => booking'[b] = booking[b])
  /\ \A g \in Rows(guest) : g \in Rows(guest)' /\ guest'[g].booking = guest[g].booking
  /\ \A a \in Rows(allocation) :
       /\ a \in Rows(allocation)' /\ allocation'[a].booking = allocation[a].booking
       /\ allocation'[a].room = allocation[a].room
       /\ allocation[a].cancelled => allocation'[a].cancelled
  /\ \A k \in Rows(key) :
       /\ k \in Rows(key)' /\ key'[k].allocation = key[k].allocation
       /\ key[k].revoked => key'[k].revoked
  /\ \A s \in Rows(seat) :
       /\ s \in Rows(seat)' /\ seat'[s].guest = seat[s].guest
       /\ seat'[s].activity = seat[s].activity
       /\ seat[s].cancelled => seat'[s].cancelled

(* Each kind of row keeps its type and its references, however the others  *)
(* change.                                                                 *)
BookingsTyped == booking \in [Booking -> BookingRow \cup {None}]
GuestsTyped ==
  /\ guest \in [Guest -> GuestRow \cup {None}]
  /\ \A g \in Rows(guest) : guest[g].booking \in Rows(booking)
AllocationsTyped ==
  /\ allocation \in [Allocation -> AllocationRow \cup {None}]
  /\ \A a \in Rows(allocation) : /\ allocation[a].booking \in Rows(booking)
                                 /\ allocation[a].min < allocation[a].max
KeysTyped ==
  /\ key \in [Key -> KeyRow \cup {None}]
  /\ \A k \in Rows(key) : key[k].allocation \in Rows(allocation)
ActivitiesTyped == activity \in [Activity -> ActivityRow]
SeatsTyped ==
  /\ seat \in [Seat -> SeatRow \cup {None}]
  /\ \A s \in Rows(seat) : seat[s].guest \in Rows(guest)

(* A table that is left alone keeps its type while rows are only added     *)
(* elsewhere.                                                              *)
LEMMA UntouchedStayTyped ==
  ASSUME TypeOK
  PROVE  /\ UNCHANGED booking => BookingsTyped'
         /\ Rows(booking) \subseteq Rows(booking)' /\ UNCHANGED guest => GuestsTyped'
         /\ Rows(booking) \subseteq Rows(booking)' /\ UNCHANGED allocation => AllocationsTyped'
         /\ Rows(allocation) \subseteq Rows(allocation)' /\ UNCHANGED key => KeysTyped'
         /\ UNCHANGED activity => ActivitiesTyped'
         /\ Rows(guest) \subseteq Rows(guest)' /\ UNCHANGED seat => SeatsTyped'
BY DEF TypeOK, BookingsTyped, GuestsTyped, AllocationsTyped, KeysTyped, ActivitiesTyped,
       SeatsTyped, Rows

(* Changed allocations are typed if the changed rows are.                  *)
LEMMA ChangedAllocationsAreTyped ==
  ASSUME TypeOK, Rows(booking) \subseteq Rows(booking)', NEW C \in SUBSET Allocation,
         allocation' \in [Allocation -> AllocationRow \cup {None}],
         \A c \in Allocation : c \notin C => allocation'[c] = allocation[c],
         \A c \in C : /\ allocation'[c] \in AllocationRow
                      /\ allocation'[c].booking \in Rows(booking)'
                      /\ allocation'[c].min < allocation'[c].max
  PROVE  AllocationsTyped' /\ Rows(allocation) \subseteq Rows(allocation)'
<1>1. DOMAIN allocation = Allocation /\ DOMAIN allocation' = Allocation
  BY DEF TypeOK
<1>2. \A c \in C : allocation'[c] # None
  BY NoRowIsNone
<1>3. Rows(allocation)' = Rows(allocation) \cup C
  BY <1>1, <1>2 DEF Rows
<1>4. ASSUME NEW a \in Rows(allocation)'
      PROVE  allocation'[a].booking \in Rows(booking)' /\ allocation'[a].min < allocation'[a].max
  BY <1>1, <1>3 DEF TypeOK, Rows
<1>5. QED
  BY <1>3, <1>4 DEF AllocationsTyped

-----------------------------------------------------------------------------
(* Each command keeps the types and the rows.                              *)

(* A new stay's rows are all new. *)
LEMMA CreateStayKeeps ==
  ASSUME TypeOK, NEW now \in Clock, NEW b \in Fresh(booking), NEW P \in SUBSET Fresh(guest),
         NEW wanted \in Requests, NEW people \in [P -> Ages], CreateStay(b, people, wanted, now)
  PROVE  TypeOK' /\ RowsStay
<1>1. b \in Booking /\ booking[b] = None
  BY DEF Fresh, Rows, TypeOK
<1>2. [status |-> "CONFIRMED", updated |-> now] \in BookingRow
  BY DEF BookingRow
<1>3. BookingsTyped' /\ Rows(booking)' = Rows(booking) \cup {b}
      /\ \A c \in Rows(booking) : booking'[c] = booking[c]
  BY <1>1, <1>2, NoRowIsNone DEF CreateStay, BookingsTyped, TypeOK, Rows
<1>4. \A g \in P : g \in Guest /\ guest[g] = None
  BY DEF Fresh, Rows, TypeOK
<1>5. \A g \in P : [booking |-> b, age |-> people[g], updated |-> now] \in GuestRow
  BY <1>1 DEF GuestRow
<1>6. /\ guest' \in [Guest -> GuestRow \cup {None}]
      /\ \A g \in Guest : g \notin P => guest'[g] = guest[g]
      /\ \A g \in P : guest'[g] \in GuestRow /\ guest'[g].booking = b
  BY <1>4, <1>5 DEF CreateStay, NewParty, TypeOK
<1>7. GuestsTyped' /\ \A g \in Rows(guest) : g \in Rows(guest)' /\ guest'[g] = guest[g]
  BY <1>3, <1>4, <1>6, NoRowIsNone DEF GuestsTyped, TypeOK, Rows
<1>8. allocation' = NewRooms(b, wanted, now)
  BY DEF CreateStay
<1>9. AllocationsTyped' /\ Rows(allocation) \subseteq Rows(allocation)'
  BY SMTT(30), <1>1, <1>3, <1>8, NewRoomsRows, WantedAreFresh, ChangedAllocationsAreTyped
<1>10. \A a \in Rows(allocation) : allocation'[a] = allocation[a]
  BY <1>1, <1>8, NewRoomsRows, WantedAreFresh, RowsAreTyped DEF Rows
<1>11. UNCHANGED <<key, activity, seat>>
  BY DEF CreateStay
<1>12. KeysTyped' /\ ActivitiesTyped' /\ SeatsTyped'
  BY <1>7, <1>9, <1>11, UntouchedStayTyped
<1>13. TypeOK'
  BY <1>3, <1>7, <1>9, <1>12 DEF TypeOK, BookingsTyped, GuestsTyped,
     AllocationsTyped, KeysTyped, ActivitiesTyped, SeatsTyped
<1>14. RowsStay
  BY <1>3, <1>7, <1>9, <1>10, <1>11 DEF RowsStay, Rows
<1>15. QED
  BY <1>13, <1>14

(* Commands that change allocations only. *)
LEMMA AllocationStepKeeps ==
  ASSUME TypeOK, NEW C \in SUBSET Allocation, UNCHANGED <<booking, guest, key, activity, seat>>,
         allocation' \in [Allocation -> AllocationRow \cup {None}],
         \A c \in Allocation : c \notin C => allocation'[c] = allocation[c],
         \A c \in C : /\ allocation'[c] \in AllocationRow
                      /\ allocation'[c].booking \in Rows(booking)
                      /\ allocation'[c].min < allocation'[c].max
                      /\ allocation[c] # None =>
                           /\ allocation'[c].booking = allocation[c].booking
                           /\ allocation'[c].room = allocation[c].room
                           /\ allocation[c].cancelled => allocation'[c].cancelled
  PROVE  TypeOK' /\ RowsStay
<1>1. Rows(booking)' = Rows(booking) /\ Rows(guest)' = Rows(guest)
      /\ Rows(key)' = Rows(key) /\ Rows(seat)' = Rows(seat)
  BY DEF Rows
<1>2. AllocationsTyped' /\ Rows(allocation) \subseteq Rows(allocation)'
  BY <1>1, ChangedAllocationsAreTyped
<1>3. BookingsTyped' /\ GuestsTyped' /\ KeysTyped' /\ ActivitiesTyped' /\ SeatsTyped'
  BY <1>1, <1>2, UntouchedStayTyped
<1>4. TypeOK'
  BY <1>2, <1>3 DEF TypeOK, BookingsTyped, GuestsTyped,
     AllocationsTyped, KeysTyped, ActivitiesTyped, SeatsTyped
<1>5. \A a \in Rows(allocation) : a \in Allocation /\ allocation[a] # None
  BY RowsAreTyped DEF Rows
<1>6. QED
  BY <1>1, <1>2, <1>4, <1>5 DEF RowsStay

(* A room is added to a confirmed booking. *)
LEMMA AddRoomKeeps ==
  ASSUME TypeOK, NEW now \in Clock, NEW b \in Booking, NEW a \in Allocation, NEW r \in Room,
         NEW d \in Dates, AddRoom(b, a, r, d, now)
  PROVE  TypeOK' /\ RowsStay
<1>1. b \in Rows(booking) /\ allocation[a] = None
  BY DEF AddRoom, AcceptsRoom, MayChangeRooms, Confirmed, Rows, TypeOK
<1>2. /\ NewAllocation(b, r, d, now) \in AllocationRow
      /\ NewAllocation(b, r, d, now).booking = b
      /\ NewAllocation(b, r, d, now).min < NewAllocation(b, r, d, now).max
  BY DatesHold, NewAllocationRow
<1>3. PICK row : row = NewAllocation(b, r, d, now)
  OBVIOUS
<1>4. /\ allocation' = [allocation EXCEPT ![a] = row]
      /\ UNCHANGED <<booking, guest, key, activity, seat>>
  BY <1>3 DEF AddRoom
<1>5. /\ allocation' \in [Allocation -> AllocationRow \cup {None}]
      /\ \A c \in Allocation : c \notin {a} => allocation'[c] = allocation[c]
      /\ allocation'[a] = row
  BY <1>2, <1>3, <1>4 DEF TypeOK
<1>6. PICK C \in SUBSET Allocation : C = {a}
  OBVIOUS
<1>7. \A c \in C : /\ allocation'[c] \in AllocationRow
                   /\ allocation'[c].booking \in Rows(booking)
                   /\ allocation'[c].min < allocation'[c].max /\ allocation[c] = None
  BY <1>1, <1>2, <1>3, <1>5, <1>6
<1>8. QED
  BY <1>4, <1>5, <1>6, <1>7, AllocationStepKeeps

(* An allocation gets other dates. *)
LEMMA ReviseKeeps ==
  ASSUME TypeOK, NEW now \in Clock, NEW a \in Allocation, NEW d \in Dates, Revise(a, d, now)
  PROVE  TypeOK' /\ RowsStay
<1>1. a \in Rows(allocation) /\ allocation[a].booking \in Rows(booking)
  BY DEF Revise, AcceptsDates, Accepts, Rows, TypeOK
<1>2. allocation' = Redated(a, d, now) /\ UNCHANGED <<booking, guest, key, activity, seat>>
  BY DEF Revise
<1>3. PICK C \in SUBSET Allocation : C = {a}
  OBVIOUS
<1>4. /\ allocation' \in [Allocation -> AllocationRow \cup {None}]
      /\ \A c \in Allocation : c \notin C => allocation'[c] = allocation[c]
  BY <1>1, <1>2, <1>3, RedatedRows
<1>5. \A c \in C : /\ allocation'[c] \in AllocationRow
                   /\ allocation'[c].booking = allocation[c].booking
                   /\ allocation'[c].booking \in Rows(booking)
                   /\ allocation'[c].min < allocation'[c].max
                   /\ allocation'[c].room = allocation[c].room
                   /\ allocation'[c].cancelled = allocation[c].cancelled
  BY <1>1, <1>2, <1>3, RedatedRows, DatesHold
<1>6. QED
  BY <1>2, <1>4, <1>5, AllocationStepKeeps

(* A stay moves to another room. *)
LEMMA MoveRoomKeeps ==
  ASSUME TypeOK, NEW now \in Clock, NEW old \in Allocation, NEW new \in Allocation,
         NEW r \in Room, NEW d \in Dates, MoveRoom(old, new, r, d, now)
  PROVE  TypeOK' /\ RowsStay
<1>1. PICK b : b = allocation[old].booking
  OBVIOUS
<1>2. /\ old \in Rows(allocation) /\ allocation[new] = None
      /\ b \in Rows(booking) /\ b \in Booking
      /\ allocation[old].min < allocation[old].max
  BY <1>1, RowsAreTyped DEF MoveRoom, Accepts, Rows, TypeOK
<1>3. /\ allocation' = Moved(b, old, new, r, d, now)
      /\ UNCHANGED <<booking, guest, key, activity, seat>>
  BY <1>1 DEF MoveRoom
<1>4. /\ allocation' \in [Allocation -> AllocationRow \cup {None}]
      /\ \A c \in Allocation : c \notin {old, new} => allocation'[c] = allocation[c]
  BY <1>2, <1>3, MovedRows
<1>5. /\ allocation'[new] \in AllocationRow /\ allocation'[new].booking = b
      /\ allocation'[new].min < allocation'[new].max
  BY <1>2, <1>3, MovedRows, NewAllocationRow, DatesHold
<1>6. /\ allocation'[old] \in AllocationRow /\ allocation'[old].booking = b
      /\ allocation'[old].min < allocation'[old].max
      /\ allocation'[old].room = allocation[old].room /\ allocation'[old].cancelled
  BY <1>1, <1>2, <1>3, MovedRows
<1>7. PICK C \in SUBSET Allocation : C = {old, new}
  OBVIOUS
<1>8. \A c \in C : /\ allocation'[c] \in AllocationRow
                   /\ allocation'[c].booking \in Rows(booking)
                   /\ allocation'[c].min < allocation'[c].max
                   /\ allocation[c] # None =>
                        /\ allocation'[c].booking = allocation[c].booking
                        /\ allocation'[c].room = allocation[c].room
                        /\ allocation[c].cancelled => allocation'[c].cancelled
  BY <1>1, <1>2, <1>5, <1>6, <1>7
<1>9. QED
  BY <1>3, <1>4, <1>7, <1>8, AllocationStepKeeps

(* A room is given up. *)
LEMMA CancelRoomKeeps ==
  ASSUME TypeOK, NEW now \in Clock, NEW a \in Allocation, CancelRoom(a, now)
  PROVE  TypeOK' /\ RowsStay
<1>1. /\ a \in Rows(allocation) /\ allocation[a] \in AllocationRow
      /\ allocation[a].booking \in Rows(booking) /\ allocation[a].min < allocation[a].max
  BY RowsAreTyped DEF CancelRoom, Accepts, Rows, TypeOK
<1>2. /\ allocation' = Released(allocation, a, now)
      /\ UNCHANGED <<booking, guest, key, activity, seat>>
  BY DEF CancelRoom
<1>3. /\ allocation' \in [Allocation -> AllocationRow \cup {None}]
      /\ \A c \in Allocation : c \notin {a} => allocation'[c] = allocation[c]
      /\ allocation'[a] \in AllocationRow
      /\ allocation'[a].booking = allocation[a].booking
      /\ allocation'[a].room = allocation[a].room
      /\ allocation'[a].min = allocation[a].min /\ allocation'[a].max = allocation[a].max
      /\ allocation'[a].cancelled
  BY <1>1, <1>2, ReleasedRows DEF TypeOK
<1>4. PICK C \in SUBSET Allocation : C = {a}
  OBVIOUS
<1>5. \A c \in C : /\ allocation'[c] \in AllocationRow
                   /\ allocation'[c].booking = allocation[c].booking
                   /\ allocation'[c].booking \in Rows(booking)
                   /\ allocation'[c].min < allocation'[c].max
                   /\ allocation'[c].room = allocation[c].room /\ allocation'[c].cancelled
  BY <1>1, <1>3, <1>4
<1>6. QED
  BY <1>2, <1>3, <1>4, <1>5, AllocationStepKeeps

(* A confirmed booking ends. *)
LEMMA FinishKeeps ==
  ASSUME TypeOK, NEW now \in Clock, NEW b \in Booking, NEW status \in {"CANCELLED", "COMPLETED"},
         Finish(b, status, now)
  PROVE  TypeOK' /\ RowsStay
<1>1. [status |-> status, updated |-> now] \in BookingRow
  BY DEF BookingRow
<1>2. PICK row \in BookingRow : row = [status |-> status, updated |-> now]
  BY <1>1
<1>3. /\ b \in Rows(booking) /\ Confirmed(b)
      /\ booking' = [booking EXCEPT ![b] = row]
      /\ UNCHANGED <<guest, allocation, key, activity, seat>>
  BY <1>2 DEF Finish, MayChangeRooms, Confirmed, Rows, TypeOK
<1>4. /\ BookingsTyped' /\ Rows(booking)' = Rows(booking)
      /\ \A c \in Rows(booking) : c # b => booking'[c] = booking[c]
  BY <1>3, NoRowIsNone DEF BookingsTyped, Rows, TypeOK
<1>5. Rows(guest)' = Rows(guest) /\ Rows(allocation)' = Rows(allocation)
      /\ Rows(key)' = Rows(key) /\ Rows(seat)' = Rows(seat)
  BY <1>3 DEF Rows
<1>6. GuestsTyped' /\ AllocationsTyped' /\ KeysTyped' /\ ActivitiesTyped' /\ SeatsTyped'
  BY <1>3, <1>4, <1>5, UntouchedStayTyped
<1>7. TypeOK'
  BY <1>4, <1>6 DEF TypeOK, BookingsTyped, GuestsTyped,
     AllocationsTyped, KeysTyped, ActivitiesTyped, SeatsTyped
<1>8. RowsStay
  BY <1>3, <1>4, <1>5 DEF RowsStay
<1>9. QED
  BY <1>7, <1>8

(* Commands that change guests only. *)
LEMMA GuestStepKeeps ==
  ASSUME TypeOK, NEW g \in Guest, NEW row \in GuestRow, row.booking \in Rows(booking),
         guest[g] # None => row.booking = guest[g].booking,
         guest' = [guest EXCEPT ![g] = row], UNCHANGED <<booking, allocation, key, activity, seat>>
  PROVE  TypeOK' /\ RowsStay
<1>1. Rows(booking)' = Rows(booking) /\ Rows(allocation)' = Rows(allocation)
      /\ Rows(key)' = Rows(key) /\ Rows(seat)' = Rows(seat)
  BY DEF Rows
<1>2. GuestsTyped' /\ Rows(guest)' = Rows(guest) \cup {g}
  BY <1>1, NoRowIsNone DEF GuestsTyped, Rows, TypeOK
<1>3. BookingsTyped' /\ AllocationsTyped' /\ KeysTyped' /\ ActivitiesTyped' /\ SeatsTyped'
  BY <1>1, <1>2, UntouchedStayTyped
<1>4. TypeOK'
  BY <1>2, <1>3 DEF TypeOK, BookingsTyped, GuestsTyped,
     AllocationsTyped, KeysTyped, ActivitiesTyped, SeatsTyped
<1>5. \A h \in Rows(guest) : h \in Guest /\ guest[h] # None /\ (h # g => guest'[h] = guest[h])
  BY DEF Rows, TypeOK
<1>6. guest'[g] = row
  BY DEF TypeOK
<1>7. QED
  BY <1>1, <1>2, <1>4, <1>5, <1>6 DEF RowsStay

(* A guest joins a confirmed booking. *)
LEMMA AddGuestKeeps ==
  ASSUME TypeOK, NEW now \in Clock, NEW g \in Guest, NEW b \in Booking, NEW age \in Ages,
         AddGuest(g, b, age, now)
  PROVE  TypeOK' /\ RowsStay
<1>1. b \in Rows(booking) /\ guest[g] = None
  BY DEF AddGuest, MayChangeRooms, Confirmed, Rows, TypeOK
<1>2. [booking |-> b, age |-> age, updated |-> now] \in GuestRow
  BY DEF GuestRow
<1>3. PICK row \in GuestRow : row = [booking |-> b, age |-> age, updated |-> now]
  BY <1>2
<1>4. guest' = [guest EXCEPT ![g] = row] /\ UNCHANGED <<booking, allocation, key, activity, seat>>
  BY <1>3 DEF AddGuest
<1>5. QED
  BY <1>1, <1>3, <1>4, GuestStepKeeps

(* A guest's details change, never the booking. *)
LEMMA UpdateGuestKeeps ==
  ASSUME TypeOK, NEW now \in Clock, NEW g \in Guest, NEW age \in Ages, UpdateGuest(g, age, now)
  PROVE  TypeOK' /\ RowsStay
<1>1. guest[g] \in GuestRow /\ guest[g].booking \in Rows(booking)
  BY RowsAreTyped DEF UpdateGuest, AcceptsEdit, Rows, TypeOK
<1>2. PICK row : row = [guest[g] EXCEPT !.age = age, !.updated = now]
  OBVIOUS
<1>3. row \in GuestRow /\ row.booking = guest[g].booking
  BY <1>1, <1>2 DEF GuestRow
<1>4. guest' = [guest EXCEPT ![g] = row] /\ UNCHANGED <<booking, allocation, key, activity, seat>>
  BY <1>2 DEF UpdateGuest, TypeOK
<1>5. QED
  BY <1>1, <1>3, <1>4, GuestStepKeeps

(* Commands that change keys only. *)
LEMMA KeyStepKeeps ==
  ASSUME TypeOK, NEW k \in Key, NEW row \in KeyRow, row.allocation \in Rows(allocation),
         key[k] # None => row.allocation = key[k].allocation /\ row.revoked,
         key' = [key EXCEPT ![k] = row], UNCHANGED <<booking, guest, allocation, activity, seat>>
  PROVE  TypeOK' /\ RowsStay
<1>1. Rows(booking)' = Rows(booking) /\ Rows(allocation)' = Rows(allocation)
      /\ Rows(guest)' = Rows(guest) /\ Rows(seat)' = Rows(seat)
  BY DEF Rows
<1>2. KeysTyped' /\ Rows(key)' = Rows(key) \cup {k}
  BY <1>1, NoRowIsNone DEF KeysTyped, Rows, TypeOK
<1>3. BookingsTyped' /\ AllocationsTyped' /\ GuestsTyped' /\ ActivitiesTyped' /\ SeatsTyped'
  BY <1>1, <1>2, UntouchedStayTyped
<1>4. TypeOK'
  BY <1>2, <1>3 DEF TypeOK, BookingsTyped, GuestsTyped,
     AllocationsTyped, KeysTyped, ActivitiesTyped, SeatsTyped
<1>5. \A h \in Rows(key) : h \in Key /\ key[h] # None /\ (h # k => key'[h] = key[h])
  BY DEF Rows, TypeOK
<1>6. key'[k] = row
  BY DEF TypeOK
<1>7. QED
  BY <1>1, <1>2, <1>4, <1>5, <1>6 DEF RowsStay

(* A key is issued. *)
LEMMA IssueKeyKeeps ==
  ASSUME TypeOK, NEW now \in Clock, NEW k \in Key, NEW a \in Allocation, IssueKey(k, a, now)
  PROVE  TypeOK' /\ RowsStay
<1>1. a \in Rows(allocation) /\ key[k] = None
  BY DEF IssueKey, AcceptsKey, Counts, Rows, TypeOK
<1>2. [allocation |-> a, issued |-> now, revoked |-> FALSE] \in KeyRow
  BY DEF KeyRow
<1>3. PICK row \in KeyRow : row = [allocation |-> a, issued |-> now, revoked |-> FALSE]
  BY <1>2
<1>4. key' = [key EXCEPT ![k] = row] /\ UNCHANGED <<booking, guest, allocation, activity, seat>>
  BY <1>3 DEF IssueKey
<1>5. QED
  BY <1>1, <1>3, <1>4, KeyStepKeeps

(* A key is revoked. *)
LEMMA RevokeKeyKeeps ==
  ASSUME TypeOK, NEW now \in Clock, NEW k \in Key, RevokeKey(k, now)
  PROVE  TypeOK' /\ RowsStay
<1>1. key[k] \in KeyRow /\ key[k].allocation \in Rows(allocation)
  BY RowsAreTyped DEF RevokeKey, AcceptsRevocation, Rows, TypeOK
<1>2. PICK row : row = [key[k] EXCEPT !.revoked = TRUE]
  OBVIOUS
<1>3. row \in KeyRow /\ row.allocation = key[k].allocation /\ row.revoked
  BY <1>1, <1>2 DEF KeyRow
<1>4. key' = [key EXCEPT ![k] = row] /\ UNCHANGED <<booking, guest, allocation, activity, seat>>
  BY <1>2 DEF RevokeKey, TypeOK
<1>5. QED
  BY <1>1, <1>3, <1>4, KeyStepKeeps

(* An activity is changed. *)
LEMMA UpdateActivityKeeps ==
  ASSUME TypeOK, NEW now \in Clock, NEW x \in Activity, NEW to \in Settings,
         UpdateActivity(x, to, now)
  PROVE  TypeOK' /\ RowsStay
<1>1. Scheduled(to, now) \in ActivityRow
  BY DEF ActivityRow
<1>2. /\ activity' = [activity EXCEPT ![x] = Scheduled(to, now)]
      /\ UNCHANGED <<booking, guest, allocation, key, seat>>
  BY DEF UpdateActivity
<1>3. ActivitiesTyped'
  BY <1>1, <1>2 DEF ActivitiesTyped, TypeOK
<1>4. Rows(booking)' = Rows(booking) /\ Rows(allocation)' = Rows(allocation)
      /\ Rows(guest)' = Rows(guest) /\ Rows(key)' = Rows(key) /\ Rows(seat)' = Rows(seat)
  BY <1>2 DEF Rows
<1>5. BookingsTyped' /\ AllocationsTyped' /\ GuestsTyped' /\ KeysTyped' /\ SeatsTyped'
  BY <1>2, <1>4, UntouchedStayTyped
<1>6. TypeOK'
  BY <1>3, <1>5 DEF TypeOK, BookingsTyped, GuestsTyped,
     AllocationsTyped, KeysTyped, ActivitiesTyped, SeatsTyped
<1>7. RowsStay
  BY <1>2, <1>4 DEF RowsStay
<1>8. QED
  BY <1>6, <1>7

(* Commands that change places in activities only. *)
LEMMA SeatStepKeeps ==
  ASSUME TypeOK, NEW S \in SUBSET Seat, UNCHANGED <<booking, guest, allocation, key, activity>>,
         seat' \in [Seat -> SeatRow \cup {None}],
         \A s \in Seat : s \notin S => seat'[s] = seat[s],
         \A s \in S : /\ seat'[s] \in SeatRow /\ seat'[s].guest \in Rows(guest)
                      /\ seat[s] # None => /\ seat'[s].guest = seat[s].guest
                                           /\ seat'[s].activity = seat[s].activity
                                           /\ seat'[s].cancelled
  PROVE  TypeOK' /\ RowsStay
<1>1. Rows(booking)' = Rows(booking) /\ Rows(allocation)' = Rows(allocation)
      /\ Rows(guest)' = Rows(guest) /\ Rows(key)' = Rows(key)
  BY DEF Rows
<1>2. \A s \in S : seat'[s] # None
  BY NoRowIsNone
<1>3. DOMAIN seat = Seat /\ DOMAIN seat' = Seat
  BY DEF TypeOK
<1>4. Rows(seat)' = Rows(seat) \cup S
  BY <1>2, <1>3 DEF Rows
<1>5. \A s \in Rows(seat) : s \in Seat /\ seat[s] # None /\ seat[s].guest \in Rows(guest)
  BY RowsAreTyped DEF Rows, TypeOK
<1>6. SeatsTyped'
  BY <1>1, <1>4, <1>5 DEF SeatsTyped
<1>7. BookingsTyped' /\ AllocationsTyped' /\ GuestsTyped' /\ KeysTyped' /\ ActivitiesTyped'
  BY <1>1, UntouchedStayTyped
<1>8. TypeOK'
  BY <1>6, <1>7 DEF TypeOK, BookingsTyped, GuestsTyped,
     AllocationsTyped, KeysTyped, ActivitiesTyped, SeatsTyped
<1>9. QED
  BY <1>1, <1>4, <1>5, <1>8 DEF RowsStay

(* What a reservation saves. *)
LEMMA ReservedRows ==
  ASSUME TypeOK, NEW now \in Clock, NEW x \in Activity, NEW S \in SUBSET Fresh(seat),
         NEW for \in [S -> Rows(guest)], Reserve(x, for, now)
  PROVE  /\ S \in SUBSET Seat /\ \A s \in S : seat[s] = None
         /\ seat' \in [Seat -> SeatRow \cup {None}]
         /\ \A s \in Seat : s \notin S => seat'[s] = seat[s]
         /\ \A s \in S : /\ seat'[s] \in SeatRow /\ seat'[s].guest = for[s]
                         /\ for[s] \in Rows(guest) /\ seat'[s].activity = x
                         /\ ~seat'[s].cancelled
         /\ UNCHANGED <<booking, guest, allocation, key, activity>>
<1>1. S \in SUBSET Seat /\ \A s \in S : seat[s] = None
  BY DEF Fresh, Rows, TypeOK
<1>2. \A s \in S : for[s] \in Rows(guest) /\ for[s] \in Guest
  BY RowsAreTyped
<1>3. \A s \in S : [guest |-> for[s], activity |-> x, cancelled |-> FALSE, reserved |-> now]
                     \in SeatRow
  BY <1>2 DEF SeatRow
<1>4. seat' = [s \in Seat |-> IF s \in S
                 THEN [guest |-> for[s], activity |-> x, cancelled |-> FALSE, reserved |-> now]
                 ELSE seat[s]]
  BY DEF Reserve
<1>5. QED
  BY <1>1, <1>2, <1>3, <1>4 DEF Reserve, TypeOK

(* A group gets its places. *)
LEMMA ReserveKeeps ==
  ASSUME TypeOK, NEW now \in Clock, NEW x \in Activity, NEW S \in SUBSET Fresh(seat),
         NEW for \in [S -> Rows(guest)], Reserve(x, for, now)
  PROVE  TypeOK' /\ RowsStay
<1>1. PICK C \in SUBSET Seat : C = S
  BY ReservedRows
<1>2. /\ UNCHANGED <<booking, guest, allocation, key, activity>>
      /\ seat' \in [Seat -> SeatRow \cup {None}]
      /\ \A s \in Seat : s \notin C => seat'[s] = seat[s]
      /\ \A s \in C : seat'[s] \in SeatRow /\ seat'[s].guest \in Rows(guest) /\ seat[s] = None
  BY <1>1, ReservedRows
<1>3. QED
  BY <1>2, SeatStepKeeps

(* What a cancellation saves. *)
LEMMA CancelledRows ==
  ASSUME TypeOK, NEW now \in Clock, NEW s \in Seat, CancelSeat(s, now)
  PROVE  /\ s \in Rows(seat) /\ seat[s] \in SeatRow
         /\ seat' \in [Seat -> SeatRow \cup {None}]
         /\ \A t \in Seat : t # s => seat'[t] = seat[t]
         /\ seat'[s] \in SeatRow /\ seat'[s].guest = seat[s].guest
         /\ seat'[s].activity = seat[s].activity /\ seat'[s].cancelled
         /\ UNCHANGED <<booking, guest, allocation, key, activity>>
<1>1. s \in Rows(seat) /\ seat[s] \in SeatRow
  BY RowsAreTyped DEF CancelSeat, AcceptsCancellation, Rows, TypeOK
<1>2. PICK row : row = [seat[s] EXCEPT !.cancelled = TRUE]
  OBVIOUS
<1>3. /\ row \in SeatRow /\ row.guest = seat[s].guest /\ row.activity = seat[s].activity
      /\ row.cancelled
  BY <1>1, <1>2 DEF SeatRow
<1>4. seat' = [seat EXCEPT ![s] = row]
  BY <1>2 DEF CancelSeat, TypeOK
<1>5. QED
  BY <1>1, <1>3, <1>4 DEF CancelSeat, TypeOK

(* A place is given up. *)
LEMMA CancelSeatKeeps ==
  ASSUME TypeOK, NEW now \in Clock, NEW s \in Seat, CancelSeat(s, now)
  PROVE  TypeOK' /\ RowsStay
<1>1. seat[s].guest \in Rows(guest)
  BY CancelledRows DEF TypeOK
<1>2. PICK C \in SUBSET Seat : C = {s}
  OBVIOUS
<1>3. /\ UNCHANGED <<booking, guest, allocation, key, activity>>
      /\ seat' \in [Seat -> SeatRow \cup {None}]
      /\ \A t \in Seat : t \notin C => seat'[t] = seat[t]
      /\ \A t \in C : /\ seat'[t] \in SeatRow /\ seat'[t].guest \in Rows(guest)
                      /\ seat'[t].guest = seat[t].guest
                      /\ seat'[t].activity = seat[t].activity /\ seat'[t].cancelled
  BY <1>1, <1>2, CancelledRows
<1>4. QED
  BY <1>3, SeatStepKeeps

(* Every step keeps the types and the rows. *)
LEMMA StepTypes == TypeOK /\ [Next]_vars => TypeOK' /\ RowsStay
<1> SUFFICES ASSUME TypeOK, [Next]_vars PROVE TypeOK' /\ RowsStay
  OBVIOUS
<1>1. CASE UNCHANGED vars
  <2>1. Rows(booking)' = Rows(booking) /\ Rows(allocation)' = Rows(allocation)
        /\ Rows(guest)' = Rows(guest) /\ Rows(key)' = Rows(key) /\ Rows(seat)' = Rows(seat)
    BY <1>1 DEF vars, Rows
  <2>2. TypeOK'
    BY <1>1, <2>1 DEF vars, TypeOK
  <2>3. RowsStay
    BY <1>1, <2>1 DEF vars, RowsStay
  <2>4. QED
    BY <2>2, <2>3
<1>2. CASE Next
  <2>1. PICK now \in Clock : NextAt(now)
    BY <1>2 DEF Next, NextAt
  <2>2. QED
    BY <2>1, CreateStayKeeps, AddRoomKeeps, ReviseKeeps, MoveRoomKeeps, CancelRoomKeeps,
       FinishKeeps, AddGuestKeeps, UpdateGuestKeeps, IssueKeyKeeps, RevokeKeyKeeps,
       UpdateActivityKeeps, ReserveKeeps, CancelSeatKeeps
       DEF NextAt, CancelStay, CompleteStay
<1>3. QED
  BY <1>1, <1>2

(* Nothing exists at first. *)
LEMMA InitTypes == Init => TypeOK
BY DEF Init, TypeOK, Rows, ActivityRow

(* Every reachable state is well typed: rows refer to rows that exist, and *)
(* dates are never empty.                                                  *)
THEOREM TypeCorrect == Spec => []TypeOK
BY InitTypes, StepTypes, PTL DEF Spec

-----------------------------------------------------------------------------
(* What has ended stays ended.                                             *)

(* A booking that is no longer confirmed never is again, and a cancelled   *)
(* one stays cancelled.                                                    *)
LEMMA EndedBookings ==
  ASSUME TypeOK, RowsStay, NEW b \in Rows(booking)
  PROVE  /\ booking'[b] # None
         /\ booking'[b].status = "CONFIRMED" => booking[b].status = "CONFIRMED"
         /\ booking'[b].status # "CANCELLED" => booking[b].status # "CANCELLED"
<1>1. booking[b] # None /\ booking'[b] # None /\ (~Confirmed(b) => booking'[b] = booking[b])
  BY DEF RowsStay, Rows
<1>2. QED
  BY <1>1 DEF Confirmed

(* An allocation that has stopped to count never counts again. *)
LEMMA EndedAllocations ==
  ASSUME TypeOK, RowsStay, NEW a \in Rows(allocation), NEW c, c = a, Counts(c)'
  PROVE  Counts(a)
<1>1. /\ allocation[a] # None /\ allocation'[a].booking = allocation[a].booking
      /\ allocation[a].booking \in Rows(booking)
      /\ allocation[a].cancelled => allocation'[a].cancelled
  BY DEF RowsStay, Rows, TypeOK
<1>2. ~allocation'[a].cancelled /\ booking'[allocation'[a].booking].status = "CONFIRMED"
  BY DEF Counts, Confirmed
<1>3. booking[allocation[a].booking].status = "CONFIRMED" /\ booking[allocation[a].booking] # None
  BY <1>1, <1>2, EndedBookings DEF Rows
<1>4. QED
  BY <1>1, <1>2, <1>3 DEF Counts, Confirmed

(* Nor does a place in an activity. *)
LEMMA EndedSeats ==
  ASSUME TypeOK, RowsStay, NEW s \in Rows(seat), NEW t, t = s, Effective(t)'
  PROVE  Effective(s)
<1>1. PICK g : g = seat[s].guest
  OBVIOUS
<1>2. /\ seat[s] # None /\ seat'[s].guest = g /\ g \in Rows(guest)
      /\ seat[s].cancelled => seat'[s].cancelled
  BY <1>1 DEF RowsStay, Rows, TypeOK
<1>3. guest'[g].booking = guest[g].booking /\ guest[g].booking \in Rows(booking)
  BY <1>2 DEF RowsStay, TypeOK
<1>4. PICK b : b = guest[g].booking
  OBVIOUS
<1>5. ~seat'[s].cancelled /\ booking'[b].status \in {"CONFIRMED", "COMPLETED"}
  BY <1>1, <1>2, <1>3, <1>4 DEF Effective
<1>6. booking[b] \in BookingRow /\ booking[b].status # "CANCELLED"
  BY <1>3, <1>4, <1>5, EndedBookings, RowsAreTyped
<1>7. booking[b].status \in {"CONFIRMED", "COMPLETED"}
  BY <1>6 DEF BookingRow
<1>8. QED
  BY <1>1, <1>2, <1>4, <1>5, <1>7 DEF Effective

(* What NothingIsRevived asks of a step. *)
NoneRevived ==
  /\ \A a \in Rows(allocation) : ~Counts(a) => ~Counts(a)'
  /\ \A s \in Rows(seat) : ~Effective(s) => ~Effective(s)'
  /\ \A k \in Rows(key) :
       key[k].revoked \/ ~Counts(key[k].allocation) => \A m \in Moment : ~Opens(k, m)'

(* No step revives anything. *)
LEMMA StepRevivesNothing == TypeOK /\ [Next]_vars => NoneRevived
<1> SUFFICES ASSUME TypeOK, [Next]_vars PROVE NoneRevived
  OBVIOUS
<1>1. RowsStay
  BY StepTypes
<1>2. \A a \in Rows(allocation) : ~Counts(a) => ~Counts(a)'
  BY <1>1, EndedAllocations
<1>3. \A s \in Rows(seat) : ~Effective(s) => ~Effective(s)'
  BY <1>1, EndedSeats
<1>4. ASSUME NEW k \in Rows(key), NEW m \in Moment, Opens(k, m)'
      PROVE  ~key[k].revoked /\ Counts(key[k].allocation)
  <2>1. /\ key[k].revoked => key'[k].revoked /\ key'[k].allocation = key[k].allocation
        /\ key[k].allocation \in Rows(allocation)
    BY <1>1 DEF RowsStay, TypeOK
  <2>2. PICK a : a = key[k].allocation
    OBVIOUS
  <2>3. ~key'[k].revoked /\ Counts(a)'
    BY <1>1, <1>4, <2>1, <2>2 DEF Opens, RowsStay, Counts, Confirmed
  <2>4. QED
    BY <1>1, <2>1, <2>2, <2>3, EndedAllocations
<1>5. QED
  BY <1>2, <1>3, <1>4 DEF NoneRevived

(* A cancelled allocation or place, a finished booking and a key without   *)
(* access never count again, in any order of commands and times.           *)
THEOREM NothingRevived == Spec => NothingIsRevived
<1>1. TypeOK /\ [Next]_vars => [NoneRevived]_vars
  BY StepRevivesNothing
<1>2. QED
  BY <1>1, TypeCorrect, PTL DEF Spec, NothingIsRevived, NoneRevived

-----------------------------------------------------------------------------
(* No room is booked twice.                                                *)

(* Allocations of one room that count are at different times.              *)
NoDoubleBooking ==
  \A a, c \in Allocation :
    a # c /\ Counts(a) /\ Counts(c) /\ allocation[a].room = allocation[c].room =>
      ~Overlaps(allocation[a], allocation[c])

(* Dates of a row are numbers. *)
LEMMA RowDates ==
  ASSUME NEW row \in AllocationRow
  PROVE  row.min \in Int /\ row.max \in Int /\ row.booking \in Booking /\ row.room \in Room
BY StaysAssumption DEF AllocationRow

(* An allocation counts only if it is there. *)
LEMMA CountsAreRows ==
  ASSUME TypeOK, NEW a \in Allocation, Counts(a)
  PROVE  a \in Rows(allocation) /\ allocation[a] \in AllocationRow
BY RowsAreTyped DEF Counts, Rows, TypeOK

(* An untouched allocation of an untouched booking counts as before. *)
LEMMA CountsAsBefore ==
  ASSUME TypeOK, NEW a \in Allocation, allocation'[a] = allocation[a],
         \A b \in Rows(booking) : booking'[b] = booking[b]
  PROVE  Counts(a)' <=> Counts(a)
<1>1. CASE allocation[a] = None
  BY <1>1 DEF Counts
<1>2. CASE allocation[a] # None
  <2>1. allocation[a].booking \in Rows(booking)
    BY <1>2 DEF TypeOK, Rows
  <2>2. booking'[allocation[a].booking] = booking[allocation[a].booking]
    BY <2>1
  <2>3. QED
    BY <2>2 DEF Counts, Confirmed
<1>3. QED
  BY <1>1, <1>2

(* What counts after each command that has to do with rooms.               *)

(* A new stay's allocations are new and its own. *)
LEMMA CreateStayCounts ==
  ASSUME TypeOK, NEW now \in Clock, NEW b \in Fresh(booking), NEW P \in SUBSET Fresh(guest),
         NEW wanted \in Requests, NEW people \in [P -> Ages], CreateStay(b, people, wanted, now)
  PROVE  /\ b \in Booking
         /\ \A a \in Allocation : a \notin DOMAIN wanted =>
              allocation'[a] = allocation[a] /\ (Counts(a)' <=> Counts(a))
         /\ \A a \in DOMAIN wanted :
              /\ a \in Allocation /\ ~Counts(a) /\ allocation'[a].booking = b
              /\ allocation'[a].room = wanted[a].room
              /\ allocation'[a].min = wanted[a].min /\ allocation'[a].max = wanted[a].max
<1>1. b \in Booking /\ booking[b] = None /\ allocation' = NewRooms(b, wanted, now)
  BY DEF Fresh, Rows, TypeOK, CreateStay
<1>2. \A c \in Rows(booking) : booking'[c] = booking[c]
  BY <1>1 DEF CreateStay, TypeOK, Rows
<1>3. \A a \in Allocation : a \notin DOMAIN wanted => allocation'[a] = allocation[a]
  BY <1>1, NewRoomsRows
<1>4. \A a \in Allocation : a \notin DOMAIN wanted => (Counts(a)' <=> Counts(a))
  BY <1>2, <1>3, CountsAsBefore
<1>5. \A a \in DOMAIN wanted : a \in Allocation /\ ~Counts(a)
  BY WantedAreFresh DEF Counts
<1>6. QED
  BY <1>1, <1>3, <1>4, <1>5, NewRoomsRows

(* An added room's allocation is new. *)
LEMMA AddRoomCounts ==
  ASSUME TypeOK, NEW now \in Clock, NEW b \in Booking, NEW a \in Allocation, NEW r \in Room,
         NEW d \in Dates, AddRoom(b, a, r, d, now)
  PROVE  /\ \A c \in Allocation : c # a =>
              allocation'[c] = allocation[c] /\ (Counts(c)' <=> Counts(c))
         /\ ~Counts(a) /\ allocation'[a].booking = b /\ allocation'[a].room = r
         /\ allocation'[a].min = d.min /\ allocation'[a].max = d.max
<1>1. \A c \in Allocation : c # a => allocation'[c] = allocation[c]
  BY DEF AddRoom, TypeOK
<1>2. booking' = booking /\ allocation[a] = None /\ allocation'[a] = NewAllocation(b, r, d, now)
  BY DEF AddRoom, TypeOK
<1>3. \A c \in Allocation : c # a => (Counts(c)' <=> Counts(c))
  BY <1>1, <1>2, CountsAsBefore
<1>4. QED
  BY <1>1, <1>2, <1>3, NewAllocationRow, DatesHold DEF Counts

(* A revised allocation keeps its room and its stay. *)
LEMMA ReviseCounts ==
  ASSUME TypeOK, NEW now \in Clock, NEW a \in Allocation, NEW d \in Dates, Revise(a, d, now)
  PROVE  /\ \A c \in Allocation : c # a =>
              allocation'[c] = allocation[c] /\ (Counts(c)' <=> Counts(c))
         /\ Counts(a) /\ allocation[a].booking \in Booking
         /\ allocation'[a].booking = allocation[a].booking
         /\ allocation'[a].room = allocation[a].room
         /\ allocation'[a].min = d.min /\ allocation'[a].max = d.max
<1>1. a \in Rows(allocation) /\ Counts(a)
  BY DEF Revise, AcceptsDates, Accepts, MayChangeRooms, Counts, Rows, TypeOK
<1>2. booking' = booking /\ allocation' = Redated(a, d, now)
  BY DEF Revise
<1>3. \A c \in Allocation : c # a => allocation'[c] = allocation[c]
  BY <1>1, <1>2, RedatedRows
<1>4. \A c \in Allocation : c # a => (Counts(c)' <=> Counts(c))
  BY <1>2, <1>3, CountsAsBefore
<1>5. QED
  BY <1>1, <1>2, <1>3, <1>4, RedatedRows, RowsAreTyped, RowDates

(* A move gives up one allocation and adds one in another room. *)
LEMMA MoveRoomCounts ==
  ASSUME TypeOK, NEW now \in Clock, NEW old \in Allocation, NEW new \in Allocation,
         NEW r \in Room, NEW d \in Dates, MoveRoom(old, new, r, d, now)
  PROVE  /\ \A c \in Allocation : c # old /\ c # new =>
              allocation'[c] = allocation[c] /\ (Counts(c)' <=> Counts(c))
         /\ old # new /\ ~Counts(old)' /\ ~Counts(new) /\ Counts(old)
         /\ allocation[old].booking \in Booking /\ allocation[old].room # r
         /\ allocation'[new].booking = allocation[old].booking /\ allocation'[new].room = r
         /\ allocation'[new].min = d.min /\ allocation'[new].max = d.max
<1>1. PICK b : b = allocation[old].booking
  OBVIOUS
<1>2. /\ old \in Rows(allocation) /\ allocation[new] = None /\ b \in Booking
      /\ Counts(old) /\ ~Counts(new) /\ allocation[old].room # r
  BY <1>1, RowsAreTyped, RowDates
     DEF MoveRoom, Accepts, MayChangeRooms, Counts, Rows, TypeOK
<1>3. booking' = booking /\ allocation' = Moved(b, old, new, r, d, now)
  BY <1>1 DEF MoveRoom
<1>4. /\ \A c \in Allocation : c # old /\ c # new => allocation'[c] = allocation[c]
      /\ allocation'[new] = NewAllocation(b, r, d, now) /\ allocation'[old].cancelled
      /\ old # new
  BY <1>2, <1>3, MovedRows
<1>5. \A c \in Allocation : c # old /\ c # new => (Counts(c)' <=> Counts(c))
  BY <1>3, <1>4, CountsAsBefore
<1>6. ~Counts(old)'
  BY <1>4 DEF Counts
<1>7. QED
  BY <1>1, <1>2, <1>4, <1>5, <1>6, NewAllocationRow, DatesHold

(* A released allocation no longer counts. *)
LEMMA CancelRoomCounts ==
  ASSUME TypeOK, NEW now \in Clock, NEW a \in Allocation, CancelRoom(a, now)
  PROVE  /\ \A c \in Allocation : c # a =>
              allocation'[c] = allocation[c] /\ (Counts(c)' <=> Counts(c))
         /\ ~Counts(a)' /\ allocation[a].booking \in Booking
<1>1. allocation[a] \in AllocationRow /\ booking' = booking
      /\ allocation' = Released(allocation, a, now)
  BY RowsAreTyped DEF CancelRoom, Accepts, Rows, TypeOK
<1>2. /\ \A c \in Allocation : c # a => allocation'[c] = allocation[c]
      /\ allocation'[a].cancelled
  BY <1>1, ReleasedRows DEF TypeOK
<1>3. \A c \in Allocation : c # a => (Counts(c)' <=> Counts(c))
  BY <1>1, <1>2, CountsAsBefore
<1>4. QED
  BY <1>1, <1>2, <1>3, RowDates DEF Counts

(* The allocations of a booking that ends no longer count. *)
LEMMA FinishCounts ==
  ASSUME TypeOK, NEW now \in Clock, NEW b \in Booking, NEW status \in {"CANCELLED", "COMPLETED"},
         Finish(b, status, now)
  PROVE  /\ allocation' = allocation
         /\ \A a \in Allocation : Counts(a)' => Counts(a)
         /\ \A a \in Allocation : Counts(a) /\ ~Counts(a)' => allocation[a].booking = b
<1>1. /\ allocation' = allocation
      /\ booking' = [booking EXCEPT ![b] = [status |-> status, updated |-> now]]
  BY DEF Finish
<1>2. \A a \in Allocation : Counts(a) => allocation[a].booking \in Booking
  BY CountsAreRows, RowDates
<1>3. \A c \in Booking : c # b => booking'[c] = booking[c]
  BY <1>1 DEF TypeOK
<1>4. TypeOK' /\ RowsStay
  BY FinishKeeps
<1>5. \A a \in Allocation : Counts(a)' => a \in Rows(allocation)
  BY <1>1 DEF Counts, Rows, TypeOK
<1>6. \A a \in Allocation : Counts(a)' => Counts(a)
  BY <1>4, <1>5, EndedAllocations
<1>7. QED
  BY <1>1, <1>2, <1>3, <1>6 DEF Counts, Confirmed

-----------------------------------------------------------------------------
(* The steps that have to do with rooms. *)
RoomStep(now) ==
  \/ \E b \in Fresh(booking), P \in SUBSET Fresh(guest), wanted \in Requests :
       \E people \in [P -> Ages] : CreateStay(b, people, wanted, now)
  \/ \E b \in Booking, a \in Allocation, r \in Room, d \in Dates : AddRoom(b, a, r, d, now)
  \/ \E a \in Allocation, d \in Dates : Revise(a, d, now)
  \/ \E a, c \in Allocation, r \in Room, d \in Dates : MoveRoom(a, c, r, d, now)
  \/ \E a \in Allocation : CancelRoom(a, now)
  \/ \E b \in Booking, status \in {"CANCELLED", "COMPLETED"} : Finish(b, status, now)

(* All others leave bookings and allocations alone. *)
LEMMA OtherSteps ==
  ASSUME [Next]_vars
  PROVE  UNCHANGED <<booking, allocation>> \/ \E now \in Clock : RoomStep(now)
<1>1. CASE UNCHANGED vars
  BY <1>1 DEF vars
<1>2. ASSUME NEW now \in Clock, NextAt(now)
      PROVE UNCHANGED <<booking, allocation>> \/ RoomStep(now)
  BY <1>2 DEF NextAt, RoomStep, CancelStay, CompleteStay, AddGuest, UpdateGuest, IssueKey,
              RevokeKey, UpdateActivity, Reserve, CancelSeat
<1>3. QED
  BY <1>1, <1>2 DEF Next

(* Two rows overlap, or not, whichever is named first. *)
LEMMA OverlapIsMutual ==
  ASSUME NEW d, NEW e, d.min \in Int, d.max \in Int, e.min \in Int, e.max \in Int
  PROVE  Overlaps(d, e) <=> Overlaps(e, d)
BY DEF Overlaps

(* Allocations stay apart if none of those that changed is in the way of   *)
(* another one that counts.                                                *)
LEMMA StayApart ==
  ASSUME TypeOK, TypeOK', NoDoubleBooking, NEW C \in SUBSET Allocation,
         \A c \in Allocation : c \notin C =>
           allocation'[c] = allocation[c] /\ (Counts(c)' => Counts(c)),
         \A c \in C, a \in Allocation :
           a # c /\ Counts(a)' /\ Counts(c)' /\ allocation'[a].room = allocation'[c].room =>
             ~Overlaps(allocation'[a], allocation'[c])
  PROVE  NoDoubleBooking'
<1>1. ASSUME NEW a \in Allocation, NEW c \in Allocation, a # c, Counts(a)', Counts(c)',
             allocation'[a].room = allocation'[c].room
      PROVE  ~Overlaps(allocation'[a], allocation'[c])
  <2>1. allocation'[a] \in AllocationRow /\ allocation'[c] \in AllocationRow
    BY <1>1, NoRowIsNone DEF TypeOK, Counts
  <2>2. Overlaps(allocation'[a], allocation'[c]) <=> Overlaps(allocation'[c], allocation'[a])
    BY <2>1, RowDates, OverlapIsMutual
  <2>3. CASE c \in C
    BY <1>1, <2>3
  <2>4. CASE a \in C
    BY <1>1, <2>2, <2>4
  <2>5. CASE a \notin C /\ c \notin C
    BY <1>1, <2>5 DEF NoDoubleBooking
  <2>6. QED
    BY <2>3, <2>4, <2>5
<1>2. QED
  BY <1>1 DEF NoDoubleBooking

(* Every command that gives a room to a stay has looked for others there.  *)
LEMMA StepKeepsApart == TypeOK /\ NoDoubleBooking /\ [Next]_vars => NoDoubleBooking'
<1> SUFFICES ASSUME TypeOK, NoDoubleBooking, [Next]_vars PROVE NoDoubleBooking'
  OBVIOUS
<1>0. TypeOK'
  BY StepTypes
<1>1. ASSUME NEW now \in Clock, NEW b \in Fresh(booking), NEW P \in SUBSET Fresh(guest),
             NEW wanted \in Requests, NEW people \in [P -> Ages],
             CreateStay(b, people, wanted, now)
      PROVE  NoDoubleBooking'
  <2>1. PICK C \in SUBSET Allocation : C = DOMAIN wanted
    BY WantedAreFresh
  <2>2. ASSUME NEW c \in C, NEW a \in Allocation, a # c, Counts(a)',
               allocation'[a].room = allocation'[c].room
        PROVE  ~Overlaps(allocation'[a], allocation'[c])
    <3>1. /\ allocation'[c].room = wanted[c].room
          /\ allocation'[c].min = wanted[c].min /\ allocation'[c].max = wanted[c].max
      BY <1>1, <2>1, CreateStayCounts
    <3>2. CASE a \in C
      <4>1. /\ allocation'[a].room = wanted[a].room
            /\ allocation'[a].min = wanted[a].min /\ allocation'[a].max = wanted[a].max
        BY <1>1, <2>1, <3>2, CreateStayCounts
      <4>2. ~Overlaps(wanted[a], wanted[c])
        BY <1>1, <2>1, <2>2, <3>1, <3>2, <4>1 DEF CreateStay
      <4>3. QED
        BY <3>1, <4>1, <4>2 DEF Overlaps
    <3>3. CASE a \notin C
      <4>1. allocation'[a] = allocation[a] /\ Counts(a)
        BY <1>1, <2>1, <2>2, <3>3, CreateStayCounts
      <4>2. ~Overlaps(allocation[a], wanted[c])
        BY <1>1, <2>1, <2>2, <3>1, <4>1 DEF CreateStay, Occupied
      <4>3. QED
        BY <3>1, <4>1, <4>2 DEF Overlaps
    <3>4. QED
      BY <3>2, <3>3
  <2>3. \A c \in Allocation : c \notin C =>
          allocation'[c] = allocation[c] /\ (Counts(c)' => Counts(c))
    BY <1>1, <2>1, CreateStayCounts
  <2>4. QED
    BY <1>0, <2>2, <2>3, StayApart
<1>2. ASSUME NEW now \in Clock, NEW b \in Booking, NEW n \in Allocation, NEW r \in Room,
             NEW d \in Dates, AddRoom(b, n, r, d, now)
      PROVE  NoDoubleBooking'
  <2>1. PICK C \in SUBSET Allocation : C = {n}
    OBVIOUS
  <2>2. ASSUME NEW c \in C, NEW a \in Allocation, a # c, Counts(a)',
               allocation'[a].room = allocation'[c].room
        PROVE  ~Overlaps(allocation'[a], allocation'[c])
    <3>1. allocation'[a] = allocation[a] /\ Counts(a) /\ allocation'[c].room = r
          /\ allocation'[c].min = d.min /\ allocation'[c].max = d.max
      BY <1>2, <2>1, <2>2, AddRoomCounts
    <3>2. ~Overlaps(allocation[a], d)
      BY <1>2, <2>2, <3>1 DEF AddRoom, AcceptsRoom, Occupied
    <3>3. QED
      BY <3>1, <3>2 DEF Overlaps
  <2>3. \A c \in Allocation : c \notin C =>
          allocation'[c] = allocation[c] /\ (Counts(c)' => Counts(c))
    BY <1>2, <2>1, AddRoomCounts
  <2>4. QED
    BY <1>0, <2>2, <2>3, StayApart
<1>3. ASSUME NEW now \in Clock, NEW n \in Allocation, NEW d \in Dates, Revise(n, d, now)
      PROVE  NoDoubleBooking'
  <2>1. PICK C \in SUBSET Allocation : C = {n}
    OBVIOUS
  <2>2. ASSUME NEW c \in C, NEW a \in Allocation, a # c, Counts(a)',
               allocation'[a].room = allocation'[c].room
        PROVE  ~Overlaps(allocation'[a], allocation'[c])
    <3>1. allocation'[a] = allocation[a] /\ Counts(a) /\ allocation'[c].room = allocation[c].room
          /\ allocation'[c].min = d.min /\ allocation'[c].max = d.max
      BY <1>3, <2>1, <2>2, ReviseCounts
    <3>2. ~Overlaps(allocation[a], d)
      BY <1>3, <2>1, <2>2, <3>1 DEF Revise, AcceptsDates, Occupied
    <3>3. QED
      BY <3>1, <3>2 DEF Overlaps
  <2>3. \A c \in Allocation : c \notin C =>
          allocation'[c] = allocation[c] /\ (Counts(c)' => Counts(c))
    BY <1>3, <2>1, ReviseCounts
  <2>4. QED
    BY <1>0, <2>2, <2>3, StayApart
<1>4. ASSUME NEW now \in Clock, NEW old \in Allocation, NEW new \in Allocation,
             NEW r \in Room, NEW d \in Dates, MoveRoom(old, new, r, d, now)
      PROVE  NoDoubleBooking'
  <2>1. PICK C \in SUBSET Allocation : C = {old, new}
    OBVIOUS
  <2>2. ASSUME NEW c \in C, NEW a \in Allocation, a # c, Counts(a)', Counts(c)',
               allocation'[a].room = allocation'[c].room
        PROVE  ~Overlaps(allocation'[a], allocation'[c])
    <3>1. c = new /\ a # old
      BY <1>4, <2>1, <2>2, MoveRoomCounts
    <3>2. allocation'[a] = allocation[a] /\ Counts(a) /\ allocation'[c].room = r
          /\ allocation'[c].min = d.min /\ allocation'[c].max = d.max
      BY <1>4, <2>2, <3>1, MoveRoomCounts
    <3>3. ~Overlaps(allocation[a], d)
      BY <1>4, <2>2, <3>2 DEF MoveRoom, AcceptsRoom, Occupied
    <3>4. QED
      BY <3>2, <3>3 DEF Overlaps
  <2>3. \A c \in Allocation : c \notin C =>
          allocation'[c] = allocation[c] /\ (Counts(c)' => Counts(c))
    BY <1>4, <2>1, MoveRoomCounts
  <2>4. QED
    BY <1>0, <2>2, <2>3, StayApart
<1>5. ASSUME NEW now \in Clock, NEW n \in Allocation, CancelRoom(n, now)
      PROVE  NoDoubleBooking'
  <2>1. PICK C \in SUBSET Allocation : C = {n}
    OBVIOUS
  <2>2. ~Counts(n)' /\ \A c \in Allocation : c \notin C =>
          allocation'[c] = allocation[c] /\ (Counts(c)' => Counts(c))
    BY <1>5, <2>1, CancelRoomCounts
  <2>3. \A c \in C : ~Counts(c)'
    BY <2>1, <2>2
  <2>4. QED
    BY <1>0, <2>2, <2>3, StayApart
<1>6. ASSUME NEW now \in Clock, NEW b \in Booking, NEW status \in {"CANCELLED", "COMPLETED"},
             Finish(b, status, now)
      PROVE  NoDoubleBooking'
  BY <1>6, FinishCounts DEF NoDoubleBooking
<1>7. CASE UNCHANGED <<booking, allocation>>
  BY <1>7 DEF NoDoubleBooking, Counts, Confirmed
<1>8. QED
  BY <1>1, <1>2, <1>3, <1>4, <1>5, <1>6, <1>7, OtherSteps DEF RoomStep

(* Rooms are never booked twice. *)
LEMMA Apart == Spec => []NoDoubleBooking
<1>1. Init => NoDoubleBooking
  BY DEF Init, NoDoubleBooking, Counts
<1>2. QED
  BY <1>1, StepKeepsApart, TypeCorrect, PTL DEF Spec

(* A key never opens a room that another stay has at that moment.          *)
THEOREM KeysDoNotClash == Spec => []KeysNeverClash
<1>1. TypeOK /\ NoDoubleBooking => KeysNeverClash
  <2> SUFFICES ASSUME TypeOK, NoDoubleBooking, NEW k \in Rows(key), NEW m \in Moment,
                      Opens(k, m),
                      NEW h \in Holders(allocation[key[k].allocation].room, m)
               PROVE  h[1] = allocation[key[k].allocation].booking
    BY DEF KeysNeverClash
  <2>1. PICK a : a = key[k].allocation
    OBVIOUS
  <2>2. a \in Allocation /\ Counts(a) /\ m \in Moments(allocation[a])
    BY <2>1, RowsAreTyped DEF Opens, TypeOK
  <2>3. PICK c \in Rows(allocation) :
          /\ h = <<allocation[c].booking, c>> /\ Counts(c)
          /\ allocation[c].room = allocation[a].room /\ m \in Moments(allocation[c])
    BY <2>1 DEF Holders
  <2>4. c \in Allocation /\ allocation[a] \in AllocationRow /\ allocation[c] \in AllocationRow
    BY <2>2, <2>3, CountsAreRows, RowsAreTyped
  <2>5. Overlaps(allocation[a], allocation[c])
    BY <2>2, <2>3, <2>4, RowDates DEF Overlaps, Moments
  <2>6. c = a
    BY <2>2, <2>3, <2>4, <2>5 DEF NoDoubleBooking
  <2>7. QED
    BY <2>1, <2>3, <2>6
<1>2. QED
  BY <1>1, TypeCorrect, Apart, PTL

-----------------------------------------------------------------------------
(* Completed stays.                                                        *)

(* Only allocations of a booking that is and stays confirmed change. *)
LEMMA ChangedRoomsAreOfConfirmed ==
  ASSUME TypeOK, [Next]_vars, NEW a \in Allocation, allocation'[a] # allocation[a],
         NEW b, b = allocation'[a].booking
  PROVE  Confirmed(b)'
<1>0. RowsStay /\ DOMAIN booking = Booking
  BY StepTypes DEF TypeOK
<1>1. a \in Rows(allocation) => b = allocation[a].booking
  BY <1>0 DEF RowsStay
<1>2. ASSUME NEW now \in Clock, NEW c \in Fresh(booking), NEW P \in SUBSET Fresh(guest),
             NEW wanted \in Requests, NEW people \in [P -> Ages],
             CreateStay(c, people, wanted, now)
      PROVE  Confirmed(b)'
  <2>1. b = c /\ c \in Booking
    BY <1>2, CreateStayCounts
  <2>2. booking'[c] = [status |-> "CONFIRMED", updated |-> now]
    BY <1>0, <1>2, <2>1 DEF CreateStay
  <2>3. [status |-> "CONFIRMED", updated |-> now] # None
    BY NoRowIsNone DEF BookingRow
  <2>4. QED
    BY <2>1, <2>2, <2>3 DEF Confirmed
<1>3. ASSUME NEW now \in Clock, NEW c \in Booking, NEW n \in Allocation, NEW r \in Room,
             NEW d \in Dates, AddRoom(c, n, r, d, now)
      PROVE  Confirmed(b)'
  <2>1. b = c
    BY <1>3, AddRoomCounts
  <2>2. Confirmed(c) /\ booking' = booking
    BY <1>3 DEF AddRoom, AcceptsRoom, MayChangeRooms
  <2>3. QED
    BY <2>1, <2>2 DEF Confirmed
<1>4. ASSUME NEW now \in Clock, NEW n \in Allocation, NEW d \in Dates, Revise(n, d, now)
      PROVE  Confirmed(b)'
  <2>1. a = n /\ b = allocation[n].booking
    BY <1>4, ReviseCounts
  <2>2. Confirmed(b) /\ booking' = booking
    BY <1>4, <2>1 DEF Revise, AcceptsDates, Accepts, MayChangeRooms
  <2>3. QED
    BY <2>2 DEF Confirmed
<1>5. ASSUME NEW now \in Clock, NEW old \in Allocation, NEW new \in Allocation,
             NEW r \in Room, NEW d \in Dates, MoveRoom(old, new, r, d, now)
      PROVE  Confirmed(b)'
  <2>1. a \in {old, new} /\ old \in Rows(allocation) /\ DOMAIN allocation = Allocation
    BY <1>5, MoveRoomCounts, CountsAreRows DEF TypeOK
  <2>2. b = allocation[old].booking
    BY <1>1, <1>5, <2>1, MoveRoomCounts
  <2>3. Confirmed(b) /\ booking' = booking
    BY <1>5, <2>2 DEF MoveRoom, Accepts, MayChangeRooms
  <2>4. QED
    BY <2>3 DEF Confirmed
<1>6. ASSUME NEW now \in Clock, NEW n \in Allocation, CancelRoom(n, now)
      PROVE  Confirmed(b)'
  <2>1. a = n /\ allocation[n] # None /\ n \in Rows(allocation)
    BY <1>6, CancelRoomCounts DEF CancelRoom, Accepts, Rows, TypeOK
  <2>2. b = allocation[n].booking
    BY <1>1, <2>1
  <2>3. Confirmed(b) /\ booking' = booking
    BY <1>6, <2>2 DEF CancelRoom, Accepts, MayChangeRooms
  <2>4. QED
    BY <2>3 DEF Confirmed
<1>7. QED
  BY <1>2, <1>3, <1>4, <1>5, <1>6, FinishCounts, OtherSteps DEF RoomStep

(* A booking is completed by the command that looks at all its rooms.      *)
LEMMA OnlyCompletionCompletes ==
  ASSUME TypeOK, [Next]_vars, NEW b \in Booking, booking'[b] # None, booking'[b] # booking[b],
         booking'[b].status = "COMPLETED"
  PROVE  \E now \in Clock : /\ CompleteStay(b, now) /\ allocation' = allocation
                            /\ booking'[b].updated = now
<1>1. PICK now \in Clock : NextAt(now)
  BY DEF Next, vars
<1>2. ASSUME NEW c \in Booking, NEW status \in {"CANCELLED", "COMPLETED"},
             Finish(c, status, now)
      PROVE  c = b /\ status = "COMPLETED" /\ allocation' = allocation /\ booking'[b].updated = now
  BY <1>2 DEF Finish, TypeOK
<1>3. ~(\E c \in Fresh(booking), P \in SUBSET Fresh(guest), wanted \in Requests :
          \E people \in [P -> Ages] : CreateStay(c, people, wanted, now))
  BY DEF CreateStay, Fresh, TypeOK
<1>4. \E c \in Booking : CancelStay(c, now) \/ CompleteStay(c, now)
  BY <1>1, <1>3 DEF NextAt, AddRoom, Revise, MoveRoom, CancelRoom, AddGuest, UpdateGuest,
     IssueKey, RevokeKey, UpdateActivity, Reserve, CancelSeat
<1>5. QED
  BY <1>2, <1>4 DEF CancelStay, CompleteStay

(* A completed stay stays as it was when it was completed. *)
LEMMA StepKeepsCompleted ==
  TypeOK /\ CompletedStaysHaveEnded /\ [Next]_vars => CompletedStaysHaveEnded'
<1> SUFFICES ASSUME TypeOK, CompletedStaysHaveEnded, [Next]_vars,
                    NEW b \in Rows(booking)', booking'[b].status = "COMPLETED",
                    NEW a \in RoomsOf(allocation, b)'
             PROVE  allocation'[a].max <= booking'[b].updated
  BY DEF CompletedStaysHaveEnded
<1>1. TypeOK' /\ RowsStay
  BY StepTypes
<1>2. /\ b \in Booking /\ booking'[b] # None
      /\ a \in Allocation /\ allocation'[a] # None
      /\ allocation'[a].booking = b /\ ~allocation'[a].cancelled
  BY <1>1 DEF Rows, RoomsOf, TypeOK
<1>3. allocation'[a] = allocation[a] /\ a \in RoomsOf(allocation, b)
  <2>1. allocation'[a] = allocation[a]
    BY <1>2, ChangedRoomsAreOfConfirmed DEF Confirmed
  <2>2. QED
    BY <1>2, <2>1 DEF RoomsOf, Rows, TypeOK
<1>4. CASE booking'[b] = booking[b]
  <2>1. b \in Rows(booking) /\ booking[b].status = "COMPLETED"
    BY <1>2, <1>4 DEF Rows, TypeOK
  <2>2. QED
    BY <1>3, <1>4, <2>1 DEF CompletedStaysHaveEnded
<1>5. CASE booking'[b] # booking[b]
  <2>1. PICK now \in Clock : CompleteStay(b, now) /\ booking'[b].updated = now
    BY <1>2, <1>5, OnlyCompletionCompletes
  <2>2. QED
    BY <1>3, <2>1 DEF CompleteStay
<1>6. QED
  BY <1>4, <1>5

(* A completed stay had ended when it was completed: nothing lengthens it  *)
(* afterwards, however old the time of a command is.                       *)
THEOREM CompletedHadEnded == Spec => []CompletedStaysHaveEnded
<1>1. Init => CompletedStaysHaveEnded
  BY DEF Init, CompletedStaysHaveEnded, Rows
<1>2. QED
  BY <1>1, StepKeepsCompleted, TypeCorrect, PTL DEF Spec

-----------------------------------------------------------------------------
(* The calendar of the hotel.                                              *)

(* Allocation a holds room r at moment m. *)
HoldsAt(a, r, m) == Counts(a) /\ allocation[a].room = r /\ m \in Moments(allocation[a])

(* Cells of different holders differ. *)
LEMMA CellsNameTheirHolder ==
  ASSUME NEW a, NEW c, a # c, NEW x, NEW y
  PROVE  {<<x, a>>} # {<<y, c>>}
<1>1. SUFFICES ASSUME {<<x, a>>} = {<<y, c>>} PROVE FALSE
  OBVIOUS
<1>2. <<x, a>> \in {<<y, c>>}
  BY <1>1
<1>3. <<x, a>> = <<y, c>>
  BY <1>2
<1>4. <<x, a>>[2] = <<y, c>>[2]
  BY <1>3
<1>5. QED
  BY <1>4

(* A cell of the calendar has one holder or none.                          *)
HoldersAreSingle ==
  \A r \in Room, m \in Moment :
    /\ \A a \in Allocation : HoldsAt(a, r, m) => Holders(r, m) = {<<allocation[a].booking, a>>}
    /\ (\A a \in Allocation : ~HoldsAt(a, r, m)) => Holders(r, m) = {}


(* While no room is booked twice. *)
LEMMA CellsAreSingle == TypeOK /\ NoDoubleBooking => HoldersAreSingle
<1> SUFFICES ASSUME TypeOK, NoDoubleBooking, NEW r \in Room, NEW m \in Moment
             PROVE  /\ \A a \in Allocation :
                         HoldsAt(a, r, m) => Holders(r, m) = {<<allocation[a].booking, a>>}
                    /\ (\A a \in Allocation : ~HoldsAt(a, r, m)) => Holders(r, m) = {}
  BY DEF HoldersAreSingle
<1>1. \A c \in Rows(allocation) : c \in Allocation
  BY RowsAreTyped
<1>2. ASSUME NEW a \in Allocation, HoldsAt(a, r, m), NEW c \in Allocation, HoldsAt(c, r, m)
      PROVE  a = c
  <2>1. allocation[a] \in AllocationRow /\ allocation[c] \in AllocationRow
    BY <1>2, CountsAreRows DEF HoldsAt
  <2>2. Overlaps(allocation[a], allocation[c])
    BY <1>2, <2>1, RowDates DEF HoldsAt, Overlaps, Moments
  <2>3. QED
    BY <1>2, <2>2 DEF HoldsAt, NoDoubleBooking
<1>3. ASSUME NEW a \in Allocation, HoldsAt(a, r, m)
      PROVE  Holders(r, m) = {<<allocation[a].booking, a>>}
  <2>1. a \in Rows(allocation)
    BY <1>3, CountsAreRows DEF HoldsAt
  <2>2. {c \in Rows(allocation) : HoldsAt(c, r, m)} = {a}
    BY <1>1, <1>2, <1>3, <2>1
  <2>3. Holders(r, m) = {<<allocation[c].booking, c>> :
                           c \in {c \in Rows(allocation) : HoldsAt(c, r, m)}}
    BY DEF Holders, HoldsAt
  <2>4. QED
    BY <2>2, <2>3
<1>4. (\A a \in Allocation : ~HoldsAt(a, r, m)) => Holders(r, m) = {}
  BY <1>1 DEF Holders, HoldsAt
<1>5. QED
  BY <1>3, <1>4

(* A command that changes allocations of one stay, and gives none of them  *)
(* a room that another one of them gives up, arranges that stay.           *)
LEMMA Arranges ==
  ASSUME TypeOK, TypeOK', NoDoubleBooking, NoDoubleBooking',
         NEW s \in Booking, NEW C \in SUBSET Allocation,
         \A a \in Allocation : a \notin C =>
           allocation'[a] = allocation[a] /\ (Counts(a)' <=> Counts(a)),
         \A a \in C : /\ Counts(a) => allocation[a].booking = s
                      /\ Counts(a)' => allocation'[a].booking = s,
         \A a, c \in C :
           a # c /\ Counts(a) /\ Counts(c)' => allocation[a].room # allocation'[c].room
  PROVE  Rooming!Arrange(s)
<1>1. HoldersAreSingle /\ HoldersAreSingle'
  BY CellsAreSingle, PTL
<1>2. ASSUME NEW a \in Allocation, a \notin C, NEW r \in Room, NEW m \in Moment
      PROVE  HoldsAt(a, r, m)' <=> HoldsAt(a, r, m)
  BY <1>2 DEF HoldsAt
<1>3. ASSUME NEW r \in Room, NEW m \in Moment
      PROVE  Holders(r, m)' \in Rooming!Cell
  <2>1. CASE \E a \in Allocation : HoldsAt(a, r, m)'
    <3>1. PICK a \in Allocation : HoldsAt(a, r, m)'
      BY <2>1
    <3>2. Holders(r, m)' = {<<allocation'[a].booking, a>>}
      BY <1>1, <3>1 DEF HoldersAreSingle
    <3>3. allocation'[a] \in AllocationRow
      BY <3>1, NoRowIsNone DEF HoldsAt, Counts, TypeOK
    <3>4. QED
      BY <3>2, <3>3, RowDates DEF Rooming!Cell, Rooming!HeldBy
  <2>2. CASE \A a \in Allocation : ~HoldsAt(a, r, m)'
    <3>1. Holders(r, m)' = {}
      BY <1>1, <2>2 DEF HoldersAreSingle
    <3>2. QED
      BY <3>1 DEF Rooming!Cell, Rooming!Free
  <2>3. QED
    BY <2>1, <2>2
<1>4. ASSUME NEW r \in Room, NEW m \in Moment, Holders(r, m)' # Holders(r, m)
      PROVE  \E a \in Allocation :
               {Holders(r, m), Holders(r, m)'} = {Rooming!Free, Rooming!HeldBy(s, a)}
  <2>1. ASSUME NEW a \in Allocation, HoldsAt(a, r, m)
        PROVE  /\ Holders(r, m) = Rooming!HeldBy(s, a) /\ Holders(r, m)' = Rooming!Free
    <3>1. Holders(r, m) = {<<allocation[a].booking, a>>}
      BY <1>1, <2>1 DEF HoldersAreSingle
    <3>2. a \in C
      <4>1. a \notin C => allocation'[a] = allocation[a] /\ HoldsAt(a, r, m)'
        BY <1>2, <2>1
      <4>2. HoldsAt(a, r, m)' => Holders(r, m)' = {<<allocation'[a].booking, a>>}
        BY <1>1 DEF HoldersAreSingle
      <4>3. QED
        BY <1>4, <3>1, <4>1, <4>2
    <3>3. allocation[a].booking = s
      BY <2>1, <3>2 DEF HoldsAt
    <3>4. ~HoldsAt(a, r, m)'
      <4>1. HoldsAt(a, r, m)' => Holders(r, m)' = {<<allocation'[a].booking, a>>}
        BY <1>1 DEF HoldersAreSingle
      <4>2. HoldsAt(a, r, m)' => allocation'[a].booking = s
        BY <3>2 DEF HoldsAt
      <4>3. QED
        BY <1>4, <3>1, <3>3, <4>1, <4>2
    <3>5. ASSUME NEW c \in Allocation, HoldsAt(c, r, m)' PROVE FALSE
      <4>1. c # a
        BY <3>4, <3>5
      <4>2. c \in C
        <5>1. c \notin C => HoldsAt(c, r, m)
          BY <1>2, <3>5
        <5>2. HoldsAt(c, r, m) => Holders(r, m) = {<<allocation[c].booking, c>>}
          BY <1>1 DEF HoldersAreSingle
        <5>3. {<<allocation[a].booking, a>>} # {<<allocation[c].booking, c>>}
          BY ZenonT(60), <4>1, CellsNameTheirHolder
        <5>4. QED
          BY <3>1, <5>1, <5>2, <5>3
      <4>3. QED
        BY <2>1, <3>2, <3>5, <4>1, <4>2 DEF HoldsAt
    <3>6. Holders(r, m)' = {}
      BY <1>1, <3>5 DEF HoldersAreSingle
    <3>7. QED
      BY <3>1, <3>3, <3>6 DEF Rooming!Free, Rooming!HeldBy
  <2>2. ASSUME \A a \in Allocation : ~HoldsAt(a, r, m)
        PROVE  \E c \in Allocation :
                 Holders(r, m) = Rooming!Free /\ Holders(r, m)' = Rooming!HeldBy(s, c)
    <3>1. Holders(r, m) = {}
      BY <1>1, <2>2 DEF HoldersAreSingle
    <3>2. PICK c \in Allocation : HoldsAt(c, r, m)'
      BY <1>1, <1>4, <3>1 DEF HoldersAreSingle
    <3>3. Holders(r, m)' = {<<allocation'[c].booking, c>>}
      BY <1>1, <3>2 DEF HoldersAreSingle
    <3>4. c \in C
      BY <1>2, <2>2, <3>2
    <3>5. allocation'[c].booking = s
      BY <3>2, <3>4 DEF HoldsAt
    <3>6. QED
      BY <3>1, <3>3, <3>5 DEF Rooming!Free, Rooming!HeldBy
  <2>3. QED
    BY <2>1, <2>2
<1>5. QED
  BY <1>3, <1>4 DEF Rooming!Arrange

(* Every command is one arrangement of one stay, or none. *)
LEMMA StepArranges ==
  TypeOK /\ NoDoubleBooking /\ [Next]_vars =>
    [Rooming!Next]_([r \in Room |-> [m \in Moment |-> Holders(r, m)]])
<1> SUFFICES ASSUME TypeOK, NoDoubleBooking, [Next]_vars
             PROVE  \/ \E s \in Booking : Rooming!Arrange(s)
                    \/ UNCHANGED [r \in Room |-> [m \in Moment |-> Holders(r, m)]]
  BY DEF Rooming!Next
<1>0. TypeOK' /\ NoDoubleBooking'
  BY StepTypes, StepKeepsApart
<1>1. ASSUME NEW now \in Clock, NEW b \in Fresh(booking), NEW P \in SUBSET Fresh(guest),
             NEW wanted \in Requests, NEW people \in [P -> Ages],
             CreateStay(b, people, wanted, now)
      PROVE  b \in Booking /\ Rooming!Arrange(b)
  <2>1. PICK C \in SUBSET Allocation : C = DOMAIN wanted
    BY WantedAreFresh
  <2>2. /\ b \in Booking
        /\ \A a \in Allocation : a \notin C =>
             allocation'[a] = allocation[a] /\ (Counts(a)' <=> Counts(a))
        /\ \A a \in C : ~Counts(a) /\ allocation'[a].booking = b
    BY <1>1, <2>1, CreateStayCounts
  <2>3. QED
    BY <1>0, <2>2, Arranges
<1>2. ASSUME NEW now \in Clock, NEW b \in Booking, NEW n \in Allocation, NEW r \in Room,
             NEW d \in Dates, AddRoom(b, n, r, d, now)
      PROVE  Rooming!Arrange(b)
  <2>1. PICK C \in SUBSET Allocation : C = {n}
    OBVIOUS
  <2>2. /\ \A a \in Allocation : a \notin C =>
             allocation'[a] = allocation[a] /\ (Counts(a)' <=> Counts(a))
        /\ \A a \in C : ~Counts(a) /\ allocation'[a].booking = b
    BY <1>2, <2>1, AddRoomCounts
  <2>3. QED
    BY <1>0, <2>2, Arranges
<1>3. ASSUME NEW now \in Clock, NEW n \in Allocation, NEW d \in Dates, Revise(n, d, now)
      PROVE  \E s \in Booking : Rooming!Arrange(s)
  <2>1. PICK C \in SUBSET Allocation : C = {n}
    OBVIOUS
  <2>2. PICK s \in Booking : s = allocation[n].booking
    BY <1>3, ReviseCounts
  <2>3. /\ \A a \in Allocation : a \notin C =>
             allocation'[a] = allocation[a] /\ (Counts(a)' <=> Counts(a))
        /\ \A a \in C : allocation[a].booking = s /\ allocation'[a].booking = s
        /\ \A a, c \in C : a = c
    BY <1>3, <2>1, <2>2, ReviseCounts
  <2>4. QED
    BY <1>0, <2>3, Arranges
<1>4. ASSUME NEW now \in Clock, NEW old \in Allocation, NEW new \in Allocation,
             NEW r \in Room, NEW d \in Dates, MoveRoom(old, new, r, d, now)
      PROVE  \E s \in Booking : Rooming!Arrange(s)
  <2>1. PICK C \in SUBSET Allocation : C = {old, new}
    OBVIOUS
  <2>2. PICK s \in Booking : s = allocation[old].booking
    BY <1>4, MoveRoomCounts
  <2>3. /\ \A a \in Allocation : a \notin C =>
             allocation'[a] = allocation[a] /\ (Counts(a)' <=> Counts(a))
        /\ allocation'[new].booking = s /\ ~Counts(new) /\ ~Counts(old)'
        /\ allocation[old].room # allocation'[new].room
    BY <1>4, <2>1, <2>2, MoveRoomCounts
  <2>4. /\ \A a \in C : /\ Counts(a) => allocation[a].booking = s
                        /\ Counts(a)' => allocation'[a].booking = s
        /\ \A a, c \in C :
             a # c /\ Counts(a) /\ Counts(c)' => allocation[a].room # allocation'[c].room
    BY <2>1, <2>2, <2>3
  <2>5. QED
    BY <1>0, <2>3, <2>4, Arranges
<1>5. ASSUME NEW now \in Clock, NEW n \in Allocation, CancelRoom(n, now)
      PROVE  \E s \in Booking : Rooming!Arrange(s)
  <2>1. PICK C \in SUBSET Allocation : C = {n}
    OBVIOUS
  <2>2. PICK s \in Booking : s = allocation[n].booking
    BY <1>5, CancelRoomCounts
  <2>3. ~Counts(n)' /\ \A a \in Allocation : a \notin C =>
             allocation'[a] = allocation[a] /\ (Counts(a)' <=> Counts(a))
    BY <1>5, <2>1, CancelRoomCounts
  <2>4. /\ \A a \in C : allocation[a].booking = s /\ ~Counts(a)'
    BY <2>1, <2>2, <2>3
  <2>5. QED
    BY <1>0, <2>3, <2>4, Arranges
<1>6. ASSUME NEW now \in Clock, NEW b \in Booking, NEW status \in {"CANCELLED", "COMPLETED"},
             Finish(b, status, now)
      PROVE  Rooming!Arrange(b)
  <2>1. PICK C \in SUBSET Allocation : C = {a \in Allocation : Counts(a) /\ ~Counts(a)'}
    OBVIOUS
  <2>2. \A a \in Allocation : a \notin C =>
          allocation'[a] = allocation[a] /\ (Counts(a)' <=> Counts(a))
    BY <1>6, <2>1, FinishCounts
  <2>3. \A a \in C : allocation[a].booking = b /\ ~Counts(a)'
    BY <1>6, <2>1, FinishCounts
  <2>4. QED
    BY <1>0, <2>2, <2>3, Arranges
<1>7. CASE UNCHANGED <<booking, allocation>>
  BY <1>7 DEF Holders, Counts, Confirmed, Rows
<1>8. QED
  BY <1>1, <1>2, <1>3, <1>4, <1>5, <1>6, <1>7, OtherSteps DEF RoomStep

(* The rooms of all stays together implement the hotel's calendar: every   *)
(* command exchanges free cells and cells of one stay.                     *)
THEOREM RefinesCalendar == Spec => ImplementsCalendar
<1>1. Init => Rooming!Init
  BY DEF Init, Rooming!Init, Rooming!Free, Holders, Rows
<1>2. QED
  BY <1>1, StepArranges, TypeCorrect, Apart, PTL DEF Spec, ImplementsCalendar, Rooming!Spec


-----------------------------------------------------------------------------
(* Places in activities.                                                   *)

(* The steps that add places: a group is let in. *)
LetsIn(x, S, for, now) ==
  /\ now \in Clock /\ x \in Activity /\ S \subseteq Fresh(seat) /\ for \in [S -> Rows(guest)]
  /\ Reserve(x, for, now)

(* All others leave the places as they are, but for the ones they cancel.  *)
LEMMA PlacesAreOnlyAddedByReserve ==
  ASSUME TypeOK, [Next]_vars, NEW s \in Rows(seat)', s \notin Rows(seat)
  PROVE  \E now, x, S, for : LetsIn(x, S, for, now)
<1>1. seat' # seat
  BY DEF Rows
<1>2. ASSUME NEW t \in Seat, NEW now \in Clock, CancelSeat(t, now) PROVE FALSE
  <2>1. seat[t] # None /\ DOMAIN seat = Seat
    BY <1>2 DEF CancelSeat, AcceptsCancellation, TypeOK
  <2>2. DOMAIN seat' = Seat /\ \A u \in Seat : u # t => seat'[u] = seat[u]
    BY <1>2, CancelledRows
  <2>3. QED
    BY <2>1, <2>2 DEF Rows
<1>3. PICK now \in Clock : NextAt(now)
  BY <1>1 DEF Next, vars
<1>4. \E x \in Activity, S \in SUBSET Fresh(seat) :
        \E for \in [S -> Rows(guest)] : Reserve(x, for, now)
  BY <1>1, <1>2, <1>3 DEF NextAt, CreateStay, AddRoom, Revise, MoveRoom, CancelRoom, CancelStay,
     CompleteStay, Finish, AddGuest, UpdateGuest, IssueKey, RevokeKey, UpdateActivity
<1>5. QED
  BY <1>4 DEF LetsIn

(* Whoever is named in a request that goes through is named once, and had  *)
(* no place in the activity.                                               *)
LEMMA GroupsAreNew ==
  ASSUME TypeOK, NEW now, NEW x, NEW S, NEW for, LetsIn(x, S, for, now)
  PROVE  /\ IsFiniteSet(S) /\ \A s, t \in S : s # t => for[s] # for[t]
         /\ \A s \in S : ~HasPlace(for[s], x) /\ Eligible(for[s], x, now)
         /\ HasRoomFor(x, Cardinality(S))
<1>1. PICK group : group = {for[s] : s \in S}
  OBVIOUS
<1>2. /\ for \in [S -> Rows(guest)] /\ DOMAIN for = S
      /\ Cardinality(group) = Cardinality(S) /\ AcceptsGroup(x, group, now)
  BY <1>1 DEF LetsIn, Reserve, AllFound
<1>3. IsFiniteSet(S)
  BY StaysAssumption, FS_Subset DEF LetsIn, Fresh, TypeOK
<1>4. for \in Surjection(S, group)
  BY <1>1, <1>2 DEF Surjection
<1>5. for \in Injection(S, group)
  BY <1>2, <1>3, <1>4, FS_SurjSameCardinalityImpliesInj
<1>6. \A s, t \in S : s # t => for[s] # for[t]
  BY <1>2, <1>5 DEF Injection, IsInjective
<1>7. \A s \in S : ~HasPlace(for[s], x) /\ Eligible(for[s], x, now)
  BY <1>1, <1>2 DEF AcceptsGroup
<1>8. QED
  BY <1>2, <1>3, <1>6, <1>7 DEF AcceptsGroup

(* What a request that goes through saves. *)
LEMMA LetInRows ==
  ASSUME TypeOK, NEW now, NEW x, NEW S, NEW for, LetsIn(x, S, for, now)
  PROVE  /\ x \in Activity /\ S \in SUBSET Seat /\ \A s \in S : seat[s] = None
         /\ \A s \in Seat : s \notin S => seat'[s] = seat[s]
         /\ \A s \in S : seat'[s].guest = for[s] /\ for[s] \in Rows(guest) /\ seat'[s].activity = x
         /\ UNCHANGED <<booking, guest, allocation, key, activity>>
BY ReservedRows DEF LetsIn

(* A place that counts after a step counted before it, or is new. *)
LEMMA PlacesCountOn ==
  ASSUME TypeOK, [Next]_vars, NEW s \in Rows(seat), NEW t, t = s, Effective(t)'
  PROVE  /\ Effective(s) /\ s \in Seat
         /\ seat'[s].guest = seat[s].guest /\ seat'[s].activity = seat[s].activity
BY StepTypes, EndedSeats, RowsAreTyped DEF RowsStay

(* A guest who has a place is refused another one. *)
LEMMA StepKeepsOnePlace == TypeOK /\ OnePlacePerGuest /\ [Next]_vars => OnePlacePerGuest'
<1> SUFFICES ASSUME TypeOK, OnePlacePerGuest, [Next]_vars,
                    NEW s \in Rows(seat)', NEW t \in Rows(seat)',
                    Effective(s)', Effective(t)', s # t,
                    seat'[s].guest = seat'[t].guest, seat'[s].activity = seat'[t].activity
             PROVE  FALSE
  BY DEF OnePlacePerGuest
<1>1. CASE s \in Rows(seat) /\ t \in Rows(seat)
  BY <1>1, PlacesCountOn DEF OnePlacePerGuest
<1>2. CASE ~(s \in Rows(seat) /\ t \in Rows(seat))
  <2>1. PICK now, x, S, for : LetsIn(x, S, for, now)
    BY <1>2, PlacesAreOnlyAddedByReserve
  <2>2. \A u \in Rows(seat)' : u \notin Rows(seat) => u \in S
    BY <2>1, LetInRows, StepTypes DEF Rows, TypeOK
  <2>3. \A u \in S : u \notin Rows(seat) /\ seat'[u].guest = for[u] /\ seat'[u].activity = x
    BY <2>1, LetInRows DEF Rows
  <2>4. ASSUME NEW u \in S, NEW v \in Rows(seat), Effective(v)'
        PROVE  seat'[v].guest # seat'[u].guest \/ seat'[v].activity # seat'[u].activity
    <3>1. Effective(v) /\ v \in Seat /\ seat'[v].guest = seat[v].guest
          /\ seat'[v].activity = seat[v].activity
      BY <2>4, PlacesCountOn
    <3>2. ~HasPlace(for[u], x)
      BY <2>1, GroupsAreNew
    <3>3. QED
      BY <2>3, <3>1, <3>2 DEF HasPlace, Attending
  <2>5. CASE s \in S /\ t \in S
    BY <2>1, <2>3, <2>5, GroupsAreNew
  <2>6. CASE s \in S /\ t \notin S
    BY <2>2, <2>4, <2>6
  <2>7. CASE s \notin S /\ t \in S
    BY <2>2, <2>4, <2>7
  <2>8. QED
    BY <1>2, <2>2, <2>5, <2>6, <2>7
<1>3. QED
  BY <1>1, <1>2

(* No guest has two places in an activity, however often a request names   *)
(* or repeats them.                                                        *)
THEOREM OnePlaceEach == Spec => []OnePlacePerGuest
<1>1. Init => OnePlacePerGuest
  BY DEF Init, OnePlacePerGuest, Rows
<1>2. QED
  BY <1>1, StepKeepsOnePlace, TypeCorrect, PTL DEF Spec

(* An activity that changes is the one the command names, and its new      *)
(* settings suit those who attend it.                                      *)
LEMMA ActivityChanges ==
  ASSUME TypeOK, [Next]_vars, NEW x \in Activity, activity'[x] # activity[x]
  PROVE  \E to \in Settings, now \in Clock :
           /\ UpdateActivity(x, to, now) /\ UNCHANGED <<booking, guest, seat>>
           /\ activity'[x] = Scheduled(to, now)
<1>1. PICK now \in Clock : NextAt(now)
  BY DEF Next, vars
<1>2. \E y \in Activity, to \in Settings : UpdateActivity(y, to, now)
  BY <1>1 DEF NextAt, CreateStay, AddRoom, Revise, MoveRoom, CancelRoom, CancelStay,
     CompleteStay, Finish, AddGuest, UpdateGuest, IssueKey, RevokeKey, Reserve, CancelSeat
<1>3. QED
  BY ZenonT(60), <1>2 DEF UpdateActivity, TypeOK

(* Those who attend an activity are finitely many. *)
LEMMA AttendanceIsFinite ==
  ASSUME NEW x
  PROVE  IsFiniteSet(Attending(x)) /\ Cardinality(Attending(x)) \in Nat
BY StaysAssumption, FS_Subset, FS_CardinalityType DEF Attending

(* Attendance grows by the places of a request that goes through, and by   *)
(* nothing else.                                                           *)
LEMMA AttendanceGrows ==
  ASSUME TypeOK, [Next]_vars, NEW x \in Activity
  PROVE  \/ Attending(x)' \subseteq Attending(x)
         \/ \E now, S, for :
              LetsIn(x, S, for, now) /\ Attending(x)' \subseteq Attending(x) \cup S
<1>1. ASSUME NEW s \in Attending(x)', s \in Rows(seat) PROVE s \in Attending(x)
  BY <1>1, PlacesCountOn DEF Attending
<1>2. CASE Attending(x)' \subseteq Rows(seat)
  BY <1>1, <1>2
<1>3. CASE ~(Attending(x)' \subseteq Rows(seat))
  <2>1. PICK s \in Attending(x)' : s \notin Rows(seat)
    BY <1>3
  <2>2. \A u \in Attending(x)' : u \in Seat /\ u \in Rows(seat)' /\ seat'[u].activity = x
    BY StepTypes DEF Attending, Effective, Rows, TypeOK
  <2>3. PICK now, y, S, for : LetsIn(y, S, for, now)
    BY <2>1, <2>2, PlacesAreOnlyAddedByReserve
  <2>4. \A u \in Rows(seat)' : u \notin Rows(seat) => u \in S /\ seat'[u].activity = y
    BY <2>3, LetInRows, StepTypes DEF Rows, TypeOK
  <2>5. y = x
    BY <2>1, <2>2, <2>4
  <2>6. Attending(x)' \subseteq Attending(x) \cup S
    BY <1>1, <2>2, <2>4
  <2>7. QED
    BY <2>3, <2>5, <2>6
<1>4. QED
  BY <1>2, <1>3

(* Reserving looks at the places that are left, editing at those taken.    *)
LEMMA StepKeepsCapacity ==
  TypeOK /\ PlacesWithinCapacity /\ [Next]_vars => PlacesWithinCapacity'
<1> SUFFICES ASSUME TypeOK, PlacesWithinCapacity, [Next]_vars,
                    NEW x \in Activity, activity'[x].capacity # Unlimited
             PROVE  Cardinality(Attending(x)') <= activity'[x].capacity
  BY DEF PlacesWithinCapacity
<1>1. \A X : X \subseteq Attending(x) =>
        IsFiniteSet(X) /\ Cardinality(X) \in Nat /\ Cardinality(X) <= Cardinality(Attending(x))
  BY AttendanceIsFinite, FS_Subset, FS_CardinalityType
<1>2. activity'[x].capacity \in Nat
  <2>1. activity'[x] \in ActivityRow
    BY StepTypes DEF TypeOK
  <2>2. QED
    BY <2>1, StaysAssumption DEF ActivityRow, Scheduled, Setting
<1>3. CASE activity'[x] # activity[x]
  <2>1. PICK to \in Settings, now \in Clock :
          UpdateActivity(x, to, now) /\ UNCHANGED <<booking, guest, seat>>
          /\ activity'[x] = Scheduled(to, now)
    BY <1>3, ActivityChanges
  <2>2. Attending(x)' = Attending(x)
    BY <2>1 DEF Attending, Effective
  <2>3. activity'[x].capacity >= Cardinality(Attending(x))
    BY <2>1 DEF UpdateActivity, Scheduled
  <2>4. QED
    BY <1>2, <2>2, <2>3, AttendanceIsFinite
<1>4. CASE activity'[x] = activity[x]
  <2>1. Cardinality(Attending(x)) <= activity[x].capacity
    BY <1>4 DEF PlacesWithinCapacity
  <2>2. CASE Attending(x)' \subseteq Attending(x)
    <3>1. PICK X : X = Attending(x)'
      OBVIOUS
    <3>2. Cardinality(X) \in Nat /\ Cardinality(X) <= Cardinality(Attending(x))
      BY <1>1, <2>2, <3>1
    <3>3. QED
      BY <1>2, <1>4, <2>1, <3>1, <3>2, AttendanceIsFinite
  <2>3. CASE \E now, S, for :
               LetsIn(x, S, for, now) /\ Attending(x)' \subseteq Attending(x) \cup S
    <3>1. PICK now, S, for :
            LetsIn(x, S, for, now) /\ Attending(x)' \subseteq Attending(x) \cup S
      BY <2>3
    <3>2. IsFiniteSet(S) /\ Cardinality(Attending(x)) + Cardinality(S) <= activity[x].capacity
      BY <1>4, <3>1, GroupsAreNew DEF HasRoomFor
    <3>3. PICK A : A = Attending(x)
      OBVIOUS
    <3>4. PICK X : X = Attending(x)'
      OBVIOUS
    <3>5. /\ IsFiniteSet(A \cup S) /\ Cardinality(A \cup S) \in Nat
          /\ Cardinality(A \cup S) <= Cardinality(A) + Cardinality(S)
      <4>1. IsFiniteSet(A) /\ IsFiniteSet(A \cap S)
        BY <3>3, AttendanceIsFinite, FS_Subset
      <4>2. /\ IsFiniteSet(A \cup S)
            /\ Cardinality(A \cup S) = Cardinality(A) + Cardinality(S) - Cardinality(A \cap S)
        BY <3>2, <4>1, FS_Union
      <4>3. /\ Cardinality(A) \in Nat /\ Cardinality(S) \in Nat
            /\ Cardinality(A \cap S) \in Nat /\ Cardinality(A \cup S) \in Nat
        BY <3>2, <4>1, <4>2, FS_CardinalityType
      <4>4. QED
        BY <4>2, <4>3
    <3>6. Cardinality(X) \in Nat /\ Cardinality(X) <= Cardinality(A \cup S)
      <4>1. X \in SUBSET (A \cup S)
        BY <3>1, <3>3, <3>4
      <4>2. QED
        BY <3>5, <4>1, FS_Subset, FS_CardinalityType
    <3>7. Cardinality(S) \in Nat /\ Cardinality(A) \in Nat
      BY <3>2, <3>3, AttendanceIsFinite, FS_CardinalityType
    <3>8. QED
      BY <1>2, <1>4, <3>2, <3>3, <3>4, <3>5, <3>6, <3>7
  <2>4. QED
    BY <2>2, <2>3, AttendanceGrows
<1>5. QED
  BY <1>3, <1>4

(* An activity is never overbooked: not by a group, not by repeating a     *)
(* guest in it, and not by lowering the capacity.                          *)
THEOREM CapacityHolds == Spec => []PlacesWithinCapacity
<1>1. Init => PlacesWithinCapacity
  <2> SUFFICES ASSUME Init, NEW x \in Activity, activity[x].capacity # Unlimited
               PROVE  Cardinality(Attending(x)) <= activity[x].capacity
    BY DEF PlacesWithinCapacity
  <2>1. Attending(x) = {}
    BY DEF Init, Attending, Effective
  <2>2. activity[x].capacity \in Nat
    BY StaysAssumption, InitTypes DEF TypeOK, ActivityRow, Scheduled, Setting
  <2>3. QED
    BY <2>1, <2>2, FS_EmptySet
<1>2. QED
  BY <1>1, StepKeepsCapacity, TypeCorrect, PTL DEF Spec

(* Ages and age limits can be compared. *)
LEMMA AgesAreNumbers ==
  /\ \A row \in GuestRow : row.age \in Int
  /\ \A to \in Settings : to.minAge \in Int
  /\ \A row \in ActivityRow : row.minAge \in Int
<1>1. Ages \subseteq Int
  BY StaysAssumption
<1>2. \A to \in Settings : to.minAge \in Int
  BY StaysAssumption DEF Setting
<1>3. \A row \in GuestRow : row.age \in Ages
  BY DEF GuestRow
<1>4. \A row \in ActivityRow : \E to \in Settings : row.minAge = to.minAge
  BY DEF ActivityRow, Scheduled
<1>5. QED
  BY <1>1, <1>2, <1>3, <1>4

(* What OnlyGuestEditsAdmitTheYoung asks of a step. *)
AdmitsNoneTooYoung ==
  \A s \in Seat : UnderAge(s)' =>
    UnderAge(s) \/ (seat[s] # None /\ guest'[seat[s].guest] # guest[seat[s].guest])

(* Reserving and editing the activity both look at the ages. *)
LEMMA StepAdmitsNoneTooYoung == TypeOK /\ [Next]_vars => AdmitsNoneTooYoung
<1> SUFFICES ASSUME TypeOK, [Next]_vars, NEW s \in Seat, UnderAge(s)',
                    ~(seat[s] # None /\ guest'[seat[s].guest] # guest[seat[s].guest])
             PROVE  UnderAge(s)
  BY DEF AdmitsNoneTooYoung
<1>0. TypeOK' /\ RowsStay
  BY StepTypes
<1>1. CASE s \in Rows(seat)
  <2>1. PICK g : g = seat[s].guest
    OBVIOUS
  <2>2. PICK x \in Activity : x = seat[s].activity
    BY <1>1, RowsAreTyped DEF SeatRow
  <2>3. Effective(s)'
    BY DEF UnderAge
  <2>4. Effective(s) /\ seat'[s].guest = g /\ seat'[s].activity = x
    BY <1>1, <2>1, <2>2, <2>3, PlacesCountOn
  <2>5. guest'[g] = guest[g] /\ guest[g] \in GuestRow
    BY <1>1, <2>1, RowsAreTyped DEF Rows, TypeOK
  <2>6. guest[g].age < activity'[x].minAge
    BY <2>4, <2>5 DEF UnderAge
  <2>7. CASE activity'[x] = activity[x]
    BY <2>1, <2>2, <2>4, <2>6, <2>7 DEF UnderAge
  <2>8. CASE activity'[x] # activity[x]
    <3>1. PICK to \in Settings, now \in Clock :
            UpdateActivity(x, to, now) /\ activity'[x] = Scheduled(to, now)
      BY <2>8, ActivityChanges
    <3>2. guest[g].age >= to.minAge /\ activity'[x].minAge = to.minAge
      BY <2>1, <2>2, <2>4, <3>1 DEF UpdateActivity, Attending, Scheduled
    <3>3. guest[g].age \in Int /\ to.minAge \in Int
      BY <2>5, AgesAreNumbers
    <3>4. QED
      BY <2>6, <3>2, <3>3
  <2>9. QED
    BY <2>7, <2>8
<1>2. CASE s \notin Rows(seat)
  <2>1. s \in Rows(seat)'
    BY <1>0 DEF UnderAge, Effective, Rows, TypeOK
  <2>2. PICK now, x, S, for : LetsIn(x, S, for, now)
    BY <1>2, <2>1, PlacesAreOnlyAddedByReserve
  <2>3. s \in S /\ x \in Activity
    BY <1>2, <2>1, <2>2, LetInRows DEF Rows, TypeOK
  <2>4. /\ seat'[s].guest = for[s] /\ seat'[s].activity = x /\ for[s] \in Rows(guest)
        /\ guest' = guest /\ activity' = activity
    BY <2>2, <2>3, LetInRows
  <2>5. guest[for[s]].age >= activity[x].minAge
    BY <2>2, <2>3, GroupsAreNew DEF Eligible
  <2>6. guest[for[s]].age < activity[x].minAge
    BY <2>4 DEF UnderAge
  <2>7. guest[for[s]] \in GuestRow /\ activity[x] \in ActivityRow
    BY <2>3, <2>4, RowsAreTyped DEF TypeOK
  <2>8. guest[for[s]].age \in Int /\ activity[x].minAge \in Int
    BY <2>7, AgesAreNumbers
  <2>9. QED
    BY <2>5, <2>6, <2>8
<1>3. QED
  BY <1>1, <1>2

(* No reservation and no edit of an activity lets in a guest who is too    *)
(* young: only an edit of that guest can.                                  *)
THEOREM OnlyEditsAdmitTheYoung == Spec => OnlyGuestEditsAdmitTheYoung
<1>1. TypeOK /\ [Next]_vars => [AdmitsNoneTooYoung]_vars
  BY StepAdmitsNoneTooYoung
<1>2. QED
  BY <1>1, TypeCorrect, PTL DEF Spec, OnlyGuestEditsAdmitTheYoung, AdmitsNoneTooYoung


-----------------------------------------------------------------------------
(* Beds for the party.                                                     *)

(* A moment between two boundaries lies between two successive ones. *)
LEMMA SuccessiveBoundaries ==
  ASSUME NEW B \in SUBSET Nat, NEW m \in Nat,
         NEW x \in B, x <= m, NEW y \in B, y > m
  PROVE  \E lo, hi \in B : lo <= m /\ hi > m /\ \A z \in B : z <= lo \/ z >= hi
<1>1. PICK hi \in {z \in B : z > m} : \A z \in {z \in B : z > m} : hi <= z
  BY LeastNumber
<1>2. PICK D \in SUBSET Nat : D = {k \in Nat : \E z \in B : z <= m /\ k = m - z}
  OBVIOUS
<1>3. m - x \in D
  BY <1>2
<1>4. PICK k \in D : \A l \in D : k <= l
  BY <1>3, LeastNumber
<1>5. PICK lo \in B : lo <= m /\ k = m - lo
  BY <1>2, <1>4
<1>6. ASSUME NEW z \in B, z <= m PROVE z <= lo
  <2>1. m - z \in D
    BY <1>2, <1>6
  <2>2. k <= m - z /\ z \in Nat /\ lo \in Nat
    BY <1>4, <2>1
  <2>3. QED
    BY <1>5, <2>2
<1>7. ASSUME NEW z \in B PROVE z <= lo \/ z >= hi
  <2>1. z \in Nat /\ hi \in Nat
    OBVIOUS
  <2>2. z > m => hi <= z
    BY <1>1
  <2>3. QED
    BY <1>6, <2>1, <2>2
<1>8. QED
  BY <1>1, <1>5, <1>7

(* Looking at successive arrivals and departures is looking at every       *)
(* moment.                                                                 *)
SleepersAreHoused == \A b \in Booking : Sleeps(allocation, guest, b) => Housed(b)

(* What is counted is what the moments need. *)
LEMMA SleepsIsHoused == TypeOK => SleepersAreHoused
<1> SUFFICES ASSUME TypeOK, NEW b \in Booking, Sleeps(allocation, guest, b)
             PROVE  Housed(b)
  BY DEF SleepersAreHoused
<1>1. PICK R : R = RoomsOf(allocation, b)
  OBVIOUS
<1>2. \A a \in R : /\ a \in Allocation /\ allocation[a].min \in 0 .. MaxDate
                   /\ allocation[a].max \in 0 .. MaxDate
  BY <1>1, RowsAreTyped DEF RoomsOf, AllocationRow
<1>3. 0 .. MaxDate \subseteq Nat
  BY StaysAssumption
<1>4. PICK B \in SUBSET Nat : B = Boundaries(RoomIntervals(allocation, b))
  <2>1. Boundaries(RoomIntervals(allocation, b)) \subseteq 0 .. MaxDate
    BY <1>1, <1>2 DEF Boundaries, RoomIntervals
  <2>2. QED
    BY <1>3, <2>1
<1>5. ASSUME NEW a \in R PROVE allocation[a].min \in B /\ allocation[a].max \in B
  <2>1. PICK d : d = [min |-> allocation[a].min, max |-> allocation[a].max]
    OBVIOUS
  <2>2. d \in RoomIntervals(allocation, b)
    BY <1>1, <2>1 DEF RoomIntervals
  <2>3. d.min \in B /\ d.max \in B
    BY <1>4, <2>2 DEF Boundaries
  <2>4. QED
    BY <2>1, <2>3
<1>6. ASSUME NEW m \in Moment, NEW x \in R, allocation[x].min <= m,
             NEW y \in R, allocation[y].max > m
      PROVE  BedsAt(b, m) >= Cardinality(Party(guest, b))
  <2>1. m \in Nat
    BY StaysAssumption DEF Moment
  <2>2. PICK lo, hi \in B : lo <= m /\ hi > m /\ \A z \in B : z <= lo \/ z >= hi
    BY <1>5, <1>6, <2>1, SuccessiveBoundaries
  <2>3. PICK p \in [min : B, max : B] : p.min = lo /\ p.max = hi
    <3>1. [min |-> lo, max |-> hi] \in [min : B, max : B]
      OBVIOUS
    <3>2. QED
      BY <3>1
  <2>4. lo \in Nat /\ hi \in Nat
    OBVIOUS
  <2>5. p \in Spans(RoomIntervals(allocation, b))
    BY <1>4, <2>1, <2>2, <2>3, <2>4 DEF Spans
  <2>6. Beds(allocation, {a \in R : allocation[a].min <= lo /\ allocation[a].max >= hi})
          >= Cardinality(Party(guest, b))
    BY <1>1, <2>3, <2>5 DEF Sleeps
  <2>7. ASSUME NEW a \in R
        PROVE  allocation[a].min <= lo /\ allocation[a].max >= hi <=> m \in Moments(allocation[a])
    <3>1. PICK i, o \in B : i = allocation[a].min /\ o = allocation[a].max
      BY <1>5
    <3>2. (i <= lo \/ i >= hi) /\ (o <= lo \/ o >= hi) /\ i \in Nat /\ o \in Nat
      BY <2>2
    <3>3. m \in Moments(allocation[a]) <=> i <= m /\ m < o
      BY <2>1, <3>1, <3>2 DEF Moments
    <3>4. QED
      BY <2>1, <2>2, <2>4, <3>1, <3>2, <3>3
  <2>8. {a \in R : allocation[a].min <= lo /\ allocation[a].max >= hi}
          = {a \in R : m \in Moments(allocation[a])}
    BY <2>7
  <2>9. QED
    BY <1>1, <2>6, <2>8 DEF BedsAt
<1>7. QED
  BY <1>1, <1>6 DEF Sleeps, Housed

(* A stay none of whose rooms and guests changes is housed as before. *)
LEMMA HousedAsBefore ==
  ASSUME TypeOK, TypeOK', NEW b \in Booking,
         \A a \in Allocation : allocation'[a] # allocation[a] =>
           /\ allocation[a] # None => allocation[a].booking # b
           /\ allocation'[a] # None => allocation'[a].booking # b,
         \A g \in Guest : (guest'[g] # None /\ guest'[g].booking = b)
                            <=> (guest[g] # None /\ guest[g].booking = b),
         Housed(b)
  PROVE  Housed(b)'
<1>1. DOMAIN allocation = Allocation /\ DOMAIN allocation' = Allocation
      /\ DOMAIN guest = Guest /\ DOMAIN guest' = Guest
  BY DEF TypeOK
<1>2. PICK R : R = RoomsOf(allocation, b)
  OBVIOUS
<1>3. RoomsOf(allocation, b)' = R /\ \A a \in R : allocation'[a] = allocation[a]
  BY <1>1, <1>2 DEF RoomsOf, Rows
<1>4. Party(guest, b)' = Party(guest, b)
  BY <1>1 DEF Party, Rows
<1>5. ASSUME NEW m \in Moment PROVE BedsAt(b, m)' = BedsAt(b, m)
  <2>1. PICK X : X = {a \in R : m \in Moments(allocation[a])}
    OBVIOUS
  <2>2. X = {a \in R : m \in Moments(allocation'[a])}
    BY <1>3, <2>1
  <2>3. [a \in X |-> Places[allocation'[a].room]] = [a \in X |-> Places[allocation[a].room]]
    BY <1>3, <2>1
  <2>4. BedsAt(b, m) = SumFunction([a \in X |-> Places[allocation[a].room]])
    BY <1>2, <2>1 DEF BedsAt, Beds
  <2>5. BedsAt(b, m)' = SumFunction([a \in X |-> Places[allocation'[a].room]])
    BY <1>3, <2>2 DEF BedsAt, Beds
  <2>6. QED
    BY <2>3, <2>4, <2>5
<1>6. QED
  BY <1>2, <1>3, <1>4, <1>5 DEF Housed

(* What BedsAreOnlyLostByAddingRooms asks of a step. *)
KeepsBeds ==
  \A b \in Booking :
    (booking[b] = None \/ (Confirmed(b) /\ Housed(b))) /\ Confirmed(b)' =>
      Housed(b)' \/ OnlyAddsRoom(b)

(* Whoever changes dates, rooms or guests has counted the beds; adding a   *)
(* room is the exception.                                                  *)
LEMMA StepKeepsBeds == TypeOK /\ [Next]_vars => KeepsBeds
<1> SUFFICES ASSUME TypeOK, [Next]_vars, NEW b \in Booking,
                    booking[b] = None \/ (Confirmed(b) /\ Housed(b)), Confirmed(b)'
             PROVE  Housed(b)' \/ OnlyAddsRoom(b)
  BY DEF KeepsBeds
<1>1. TypeOK' /\ RowsStay
  BY StepTypes
<1>2. Sleeps(allocation', guest', b) => Housed(b)'
  <2>1. SleepersAreHoused'
    BY <1>1, SleepsIsHoused, PTL
  <2>2. QED
    BY <2>1 DEF SleepersAreHoused
<1>3. booking'[b] # None
  BY DEF Confirmed
<1>4. ASSUME booking[b] # None,
             \A a \in Allocation : allocation'[a] # allocation[a] =>
               /\ allocation[a] # None => allocation[a].booking # b
               /\ allocation'[a] # None => allocation'[a].booking # b,
             \A g \in Guest : (guest'[g] # None /\ guest'[g].booking = b)
                                <=> (guest[g] # None /\ guest[g].booking = b)
      PROVE  Housed(b)'
  BY <1>1, <1>4, HousedAsBefore
<1>5. ASSUME NEW now \in Clock, NEW c \in Fresh(booking), NEW P \in SUBSET Fresh(guest),
             NEW wanted \in Requests, NEW people \in [P -> Ages],
             CreateStay(c, people, wanted, now)
      PROVE  Housed(b)'
  <2>1. CASE c = b
    BY <1>2, <1>5, <2>1 DEF CreateStay
  <2>2. CASE c # b
    <3>1. booking[b] # None
      BY <1>3, <1>5, <2>2 DEF CreateStay, TypeOK
    <3>2. \A a \in Allocation : allocation'[a] # allocation[a] =>
            allocation[a] = None /\ allocation'[a].booking = c
      BY <1>5, CreateStayCounts, WantedAreFresh
    <3>3. guest' = NewParty(c, people, now) /\ DOMAIN people = P
      BY <1>5 DEF CreateStay
    <3>4. \A g \in Guest : g \notin P => guest'[g] = guest[g]
      BY <3>3 DEF NewParty
    <3>5. \A g \in P : g \in Guest /\ guest[g] = None /\ guest'[g].booking = c
      BY <3>3 DEF NewParty, Fresh, Rows, TypeOK
    <3>6. QED
      BY <1>4, <2>2, <3>1, <3>2, <3>4, <3>5
  <2>3. QED
    BY <2>1, <2>2
<1>6. ASSUME NEW now \in Clock, NEW c \in Booking, NEW n \in Allocation, NEW r \in Room,
             NEW d \in Dates, AddRoom(c, n, r, d, now)
      PROVE  Housed(b)' \/ OnlyAddsRoom(b)
  <2>1. /\ \A a \in Allocation \ {n} : allocation'[a] = allocation[a]
        /\ allocation[n] = None /\ allocation'[n].booking = c
        /\ guest' = guest /\ booking' = booking
    <3>1. allocation[n] = None /\ guest' = guest /\ booking' = booking
      BY <1>6 DEF AddRoom
    <3>2. /\ allocation'[n].booking = c
          /\ \A a \in Allocation : a # n => allocation'[a] = allocation[a]
      BY <1>6, AddRoomCounts
    <3>3. QED
      BY <3>1, <3>2
  <2>2. booking[b] # None
    BY <1>3, <2>1
  <2>3. CASE c = b
    <3>1. allocation'[n] # None /\ n \in Fresh(allocation)
      <4>1. allocation'[n] = NewAllocation(c, r, d, now)
        BY <1>6 DEF AddRoom, TypeOK
      <4>2. NewAllocation(c, r, d, now) \in AllocationRow
        BY NewAllocationRow, DatesHold
      <4>3. QED
        BY <2>1, <4>1, <4>2, NoRowIsNone DEF Fresh, Rows, TypeOK
    <3>2. QED
      BY <2>1, <2>2, <2>3, <3>1 DEF OnlyAddsRoom
  <2>4. CASE c # b
    BY <1>4, <2>1, <2>2, <2>4
  <2>5. QED
    BY <2>3, <2>4
<1>7. ASSUME NEW now \in Clock, NEW n \in Allocation, NEW d \in Dates, Revise(n, d, now)
      PROVE  Housed(b)'
  <2>1. /\ \A a \in Allocation : a # n => allocation'[a] = allocation[a]
        /\ allocation'[n].booking = allocation[n].booking
        /\ guest' = guest /\ booking' = booking
        /\ Sleeps(allocation', guest', allocation[n].booking)
    BY <1>7, ReviseCounts DEF Revise, Serves
  <2>2. booking[b] # None
    BY <1>3, <2>1
  <2>3. CASE allocation[n].booking = b
    BY <1>2, <2>1, <2>3
  <2>4. CASE allocation[n].booking # b
    BY <1>4, <2>1, <2>2, <2>4
  <2>5. QED
    BY <2>3, <2>4
<1>8. ASSUME NEW now \in Clock, NEW old \in Allocation, NEW new \in Allocation,
             NEW r \in Room, NEW d \in Dates, MoveRoom(old, new, r, d, now)
      PROVE  Housed(b)'
  <2>1. PICK c : c = allocation[old].booking
    OBVIOUS
  <2>2. /\ \A a \in Allocation : a # old /\ a # new => allocation'[a] = allocation[a]
        /\ allocation'[new].booking = c /\ allocation[new] = None /\ old \in Rows(allocation)
        /\ guest' = guest /\ booking' = booking /\ Sleeps(allocation', guest', c)
    BY <1>8, <2>1, MoveRoomCounts DEF MoveRoom, Accepts, Serves, Rows, TypeOK
  <2>3. allocation'[old].booking = c
    BY <1>1, <2>1, <2>2 DEF RowsStay
  <2>4. booking[b] # None
    BY <1>3, <2>2
  <2>5. CASE c = b
    BY <1>2, <2>2, <2>5
  <2>6. CASE c # b
    BY <1>4, <2>1, <2>2, <2>3, <2>4, <2>6
  <2>7. QED
    BY <2>5, <2>6
<1>9. ASSUME NEW now \in Clock, NEW n \in Allocation, CancelRoom(n, now)
      PROVE  Housed(b)'
  <2>1. PICK c : c = allocation[n].booking
    OBVIOUS
  <2>2. /\ \A a \in Allocation : a # n => allocation'[a] = allocation[a]
        /\ n \in Rows(allocation) /\ guest' = guest /\ booking' = booking
        /\ Sleeps(allocation', guest', c)
    BY <1>9, <2>1, CancelRoomCounts DEF CancelRoom, Accepts, Serves, Rows, TypeOK
  <2>3. allocation'[n].booking = c
    BY <1>1, <2>1, <2>2 DEF RowsStay
  <2>4. booking[b] # None
    BY <1>3, <2>2
  <2>5. CASE c = b
    BY <1>2, <2>2, <2>5
  <2>6. CASE c # b
    BY <1>4, <2>1, <2>2, <2>3, <2>4, <2>6
  <2>7. QED
    BY <2>5, <2>6
<1>10. ASSUME NEW now \in Clock, NEW c \in Booking, NEW status \in {"CANCELLED", "COMPLETED"},
              Finish(c, status, now)
       PROVE  Housed(b)'
  <2>1. /\ booking' = [booking EXCEPT ![c] = [status |-> status, updated |-> now]]
        /\ UNCHANGED <<guest, allocation>>
    BY <1>10 DEF Finish
  <2>2. c # b
    BY <2>1 DEF Confirmed, TypeOK
  <2>3. booking[b] # None
    BY <1>3, <2>1, <2>2 DEF TypeOK
  <2>4. QED
    BY <1>4, <2>1, <2>3
<1>11. ASSUME NEW now \in Clock, NEW g \in Guest, NEW c \in Booking, NEW age \in Ages,
              AddGuest(g, c, age, now)
       PROVE  Housed(b)'
  <2>1. PICK row : row = [booking |-> c, age |-> age, updated |-> now]
    OBVIOUS
  <2>2. /\ guest' = [guest EXCEPT ![g] = row] /\ row.booking = c
        /\ guest[g] = None /\ UNCHANGED <<booking, allocation>>
        /\ RoomsOf(allocation, c) # {} => Sleeps(allocation', guest', c)
    BY <1>11, <2>1 DEF AddGuest
  <2>3. booking[b] # None
    BY <1>3, <2>2
  <2>4. CASE c = b
    <3>1. RoomsOf(allocation, b) # {}
      BY <2>3 DEF Housed
    <3>2. QED
      BY <1>2, <2>2, <2>4, <3>1
  <2>5. CASE c # b
    <3>1. guest'[g] = row /\ \A h \in Guest : h # g => guest'[h] = guest[h]
      BY <2>2 DEF TypeOK
    <3>2. QED
      BY <1>4, <2>2, <2>3, <2>5, <3>1
  <2>6. QED
    BY <2>4, <2>5
<1>12. ASSUME NEW now \in Clock, NEW g \in Guest, NEW age \in Ages, UpdateGuest(g, age, now)
       PROVE  Housed(b)'
  <2>1. PICK row : row = [guest[g] EXCEPT !.age = age, !.updated = now]
    OBVIOUS
  <2>2. /\ guest' = [guest EXCEPT ![g] = row] /\ guest[g] # None
        /\ UNCHANGED <<booking, allocation>>
    BY <1>12, <2>1 DEF UpdateGuest, AcceptsEdit, TypeOK
  <2>3. booking[b] # None
    BY <1>3, <2>2
  <2>4. g \in Rows(guest)
    BY <2>2 DEF Rows, TypeOK
  <2>5. guest'[g] # None /\ guest'[g].booking = guest[g].booking
    BY <1>1, <2>4 DEF RowsStay, Rows
  <2>6. \A h \in Guest : h # g => guest'[h] = guest[h]
    BY <2>2 DEF TypeOK
  <2>7. QED
    BY <1>4, <2>2, <2>3, <2>5, <2>6
<1>13. CASE UNCHANGED <<booking, guest, allocation>>
  <2>1. booking[b] # None
    BY <1>3, <1>13
  <2>2. QED
    BY <1>4, <1>13, <2>1
<1>14. CASE \E now \in Clock : NextAt(now)
  <2>1. PICK now \in Clock : NextAt(now)
    BY <1>14
  <2>2. QED
    BY <1>5, <1>6, <1>7, <1>8, <1>9, <1>10, <1>11, <1>12, <1>13, <2>1
       DEF NextAt, CancelStay, CompleteStay, IssueKey, RevokeKey, UpdateActivity, Reserve,
           CancelSeat
<1>15. QED
  BY <1>13, <1>14 DEF Next, vars

(* A stay that has beds for its party at every moment keeps them through   *)
(* every change but the addition of a room.                                *)
THEOREM BedsAreKept == Spec => BedsAreOnlyLostByAddingRooms
<1>1. TypeOK /\ [Next]_vars => [KeepsBeds]_vars
  BY StepKeepsBeds
<1>2. QED
  BY <1>1, TypeCorrect, PTL DEF Spec, BedsAreOnlyLostByAddingRooms, KeepsBeds


-----------------------------------------------------------------------------
(* The sweep over the ranges of a stay.                                    *)

AreRanges(ds) == IsFiniteSet(ds) /\ \A d \in ds : d.min \in Nat /\ d.max \in Nat

(* s lists the ranges by arrival. *)
Lists(s, ds) ==
  /\ s \in [1 .. Cardinality(ds) -> ds]
  /\ \A i, j \in DOMAIN s : i < j => s[i] # s[j] /\ s[i].min <= s[j].min

(* Putting the first range in front of a list of the others lists all. *)
LEMMA FirstThenListed ==
  ASSUME NEW ds, AreRanges(ds), NEW d \in ds, \A e \in ds : d.min <= e.min,
         NEW rest, Lists(rest, ds \ {d})
  PROVE  \E s : Lists(s, ds)
<1> DEFINE n == Cardinality(ds)
           s == [i \in 1 .. n |-> IF i = 1 THEN d ELSE rest[i - 1]]
<1>1. n \in Nat /\ Cardinality(ds \ {d}) = n - 1
  BY FS_RemoveElement, FS_CardinalityType DEF AreRanges
<1> HIDE DEF n
<1>2. /\ rest \in [1 .. n - 1 -> ds \ {d}]
      /\ \A i, j \in 1 .. n - 1 : i < j => rest[i] # rest[j] /\ rest[i].min <= rest[j].min
  BY <1>1 DEF Lists
<1>3. s \in [1 .. n -> ds]
  BY <1>1, <1>2
<1>4. ASSUME NEW i \in 1 .. n, NEW j \in 1 .. n, i < j
      PROVE  s[i] # s[j] /\ s[i].min <= s[j].min
  <2>1. j - 1 \in 1 .. n - 1 /\ s[j] = rest[j - 1]
    BY <1>1, <1>4
  <2>2. rest[j - 1] # d /\ rest[j - 1] \in ds
    BY <1>2, <2>1
  <2>3. CASE i = 1
    BY <2>1, <2>2, <2>3
  <2>4. CASE i # 1
    <3>1. i - 1 \in 1 .. n - 1 /\ s[i] = rest[i - 1] /\ i - 1 < j - 1
      BY <1>1, <1>4, <2>4
    <3>2. QED
      BY <1>2, <2>1, <3>1
  <2>5. QED
    BY <2>3, <2>4
<1>5. DOMAIN s = 1 .. n
  OBVIOUS
<1> HIDE DEF s
<1>6. QED
  BY <1>3, <1>4, <1>5 DEF Lists, n

(* Finitely many ranges can be listed by arrival. *)
LEMMA ListExists ==
  ASSUME NEW ds, AreRanges(ds)
  PROVE  \E s : Lists(s, ds)
<1> DEFINE Listed == {n \in Nat : \A es \in SUBSET ds : Cardinality(es) = n => \E s : Lists(s, es)}
<1>1. \A es \in SUBSET ds : AreRanges(es) /\ Cardinality(es) \in Nat
  BY FS_Subset, FS_CardinalityType DEF AreRanges
<1>2. 0 \in Listed
  <2> SUFFICES ASSUME NEW es \in SUBSET ds, Cardinality(es) = 0 PROVE Lists(<<>>, es)
    OBVIOUS
  <2>1. 1 .. 0 = {}
    OBVIOUS
  <2>2. QED
    BY <2>1 DEF Lists
<1>3. ASSUME NEW n \in Listed PROVE n + 1 \in Listed
  <2> SUFFICES ASSUME NEW es \in SUBSET ds, Cardinality(es) = n + 1
               PROVE  \E s : Lists(s, es)
    OBVIOUS
  <2>1. es # {} /\ AreRanges(es) /\ n \in Nat
    BY <1>1, FS_EmptySet
  <2>2. PICK d \in es : \A e \in es : d.min <= e.min
    <3>1. {e.min : e \in es} \subseteq Nat /\ {e.min : e \in es} # {}
      BY <2>1 DEF AreRanges
    <3>2. PICK m \in {e.min : e \in es} : \A k \in {e.min : e \in es} : m <= k
      BY <3>1, LeastNumber
    <3>3. QED
      BY <3>2
  <2>3. Cardinality(es \ {d}) = n /\ es \ {d} \in SUBSET ds
    <3>1. IsFiniteSet(es)
      BY <2>1 DEF AreRanges
    <3>2. Cardinality(es \ {d}) = Cardinality(es) - 1
      BY <3>1, FS_RemoveElement
    <3>3. QED
      BY <2>1, <3>2
  <2>4. PICK rest : Lists(rest, es \ {d})
    BY <2>3
  <2>5. QED
    BY <2>1, <2>2, <2>4, FirstThenListed
<1>4. Listed \subseteq Nat
  OBVIOUS
<1>5. Listed = Nat
  <2> HIDE DEF Listed
  <2>1. QED
    BY <1>2, <1>3, <1>4, SetInduction
<1>6. Cardinality(ds) \in Nat /\ ds \in SUBSET ds
  BY <1>1
<1>7. QED
  BY <1>5, <1>6

(* The list the sweep follows holds each range once. *)
LEMMA ByArrivalLists ==
  ASSUME NEW ds, AreRanges(ds)
  PROVE  /\ Lists(ByArrival(ds), ds)
         /\ \A d \in ds : \E i \in 1 .. Cardinality(ds) : ByArrival(ds)[i] = d
<1>1. PICK n \in Nat : n = Cardinality(ds)
  BY FS_CardinalityType DEF AreRanges
<1>2. PICK s : s = ByArrival(ds)
  OBVIOUS
<1>3. Lists(s, ds)
  BY <1>2, ListExists DEF Lists, ByArrival
<1>4. s \in [1 .. n -> ds] /\ \A i, j \in 1 .. n : i < j => s[i] # s[j]
  BY <1>1, <1>3 DEF Lists
<1>5. s \in Injection(1 .. n, ds)
  <2>1. \A i, j \in 1 .. n : i # j => i < j \/ j < i
    OBVIOUS
  <2>2. \A i, j \in 1 .. n : s[i] = s[j] => i = j
    BY <1>4, <2>1
  <2>3. QED
    BY <1>4, <2>2 DEF Injection, IsInjective
<1>6. IsFiniteSet(1 .. n) /\ Cardinality(1 .. n) = n
  BY FS_Interval
<1>7. s \in Surjection(1 .. n, ds)
  BY <1>1, <1>5, <1>6, FS_Injection DEF AreRanges
<1>8. QED
  BY <1>1, <1>2, <1>3, <1>7 DEF Surjection

(* The sweep's way: what is covered after each range of the list. *)
Follows(u, s, n, start) ==
  /\ u \in [0 .. n -> Int] /\ u[0] = start
  /\ \A i \in 1 .. n : u[i] = Extended(u[i - 1], s[i])

Ascending(s, n) == \A i, j \in 1 .. n : i < j => s[i].min <= s[j].min

(* The step of the sweep. *)
LEMMA ExtendedReaches ==
  ASSUME NEW until \in Int, NEW d, d.min \in Nat, d.max \in Nat
  PROVE  /\ Extended(until, d) \in Int /\ Extended(until, d) >= until
         /\ d.min <= until => Extended(until, d) >= d.max
         /\ d.min > until => Extended(until, d) = until
         /\ Extended(until, d) # until => Extended(until, d) = d.max /\ d.min <= until
BY DEF Extended

(* Such a way exists, and Sweep returns its end. *)
LEMMA SweepFollows ==
  ASSUME NEW ds, AreRanges(ds), NEW start \in Int, NEW n \in Nat, n = Cardinality(ds)
  PROVE  \E u : Follows(u, ByArrival(ds), n, start) /\ Sweep(ds, start) = u[n]
<1>2. PICK s : s = ByArrival(ds) /\ s \in [1 .. n -> ds]
  BY ByArrivalLists DEF Lists
<1>3. \A i \in 1 .. n : s[i].min \in Nat /\ s[i].max \in Nat
  BY <1>2 DEF AreRanges
<1> DEFINE Reached == {k \in Nat : k <= n => \E u : Follows(u, s, k, start)}
<1>4. 0 \in Reached
  <2>1. Follows([i \in 0 .. 0 |-> start], s, 0, start)
    BY DEF Follows
  <2>2. QED
    BY <2>1
<1>5. ASSUME NEW k \in Reached PROVE k + 1 \in Reached
  <2> SUFFICES ASSUME k + 1 <= n PROVE \E u : Follows(u, s, k + 1, start)
    OBVIOUS
  <2>1. k \in Nat /\ k <= n /\ k + 1 \in 1 .. n
    OBVIOUS
  <2>2. PICK u : Follows(u, s, k, start)
    BY <2>1
  <2>3. PICK e \in Int : e = Extended(u[k], s[k + 1])
    <3>1. u[k] \in Int
      BY <2>1, <2>2 DEF Follows
    <3>2. Extended(u[k], s[k + 1]) \in Int
      BY <1>3, <2>1, <3>1, ExtendedReaches
    <3>3. QED
      BY <3>2
  <2>4. PICK v : v = [i \in 0 .. k + 1 |-> IF i = k + 1 THEN e ELSE u[i]]
    OBVIOUS
  <2>5. /\ v \in [0 .. k + 1 -> Int] /\ v[k + 1] = e
        /\ \A i \in 0 .. k : v[i] = u[i]
    BY <2>1, <2>2, <2>4 DEF Follows
  <2>6. ASSUME NEW i \in 1 .. k + 1 PROVE v[i] = Extended(v[i - 1], s[i])
    <3>1. /\ i - 1 \in 0 .. k /\ (i = k + 1 => i - 1 = k)
          /\ (i # k + 1 => i \in 1 .. k /\ i \in 0 .. k)
      BY <2>1
    <3>2. QED
      BY <2>2, <2>3, <2>5, <3>1 DEF Follows
  <2>7. v[0] = start
    BY <2>1, <2>2, <2>5 DEF Follows
  <2>8. QED
    BY <2>5, <2>6, <2>7 DEF Follows
<1>6. PICK u : Follows(u, s, n, start)
  <2>1. Reached \subseteq Nat
    OBVIOUS
  <2> HIDE DEF Reached
  <2>2. Reached = Nat
    BY <1>4, <1>5, <2>1, SetInduction
  <2>3. QED
    BY <2>2 DEF Reached
<1> DEFINE Step(f) == [i \in 0 .. n |-> IF i = 0 THEN start ELSE Extended(f[i - 1], s[i])]
           until == CHOOSE f : f = Step(f)
<1>7. u = Step(u)
  <2>1. \A i \in 0 .. n : u[i] = IF i = 0 THEN start ELSE Extended(u[i - 1], s[i])
    BY <1>6 DEF Follows
  <2>2. QED
    BY <1>6, <2>1 DEF Follows
<1>8. until = Step(until)
  BY <1>7
<1>9. Sweep(ds, start) = until[n]
  BY <1>2 DEF Sweep
<1> HIDE DEF until
<1>10. \A i \in 0 .. n : until[i] = u[i]
  <2> DEFINE Same == {i \in Nat : i <= n => until[i] = u[i]}
  <2>1. 0 \in Same
    BY <1>6, <1>8 DEF Follows
  <2>2. ASSUME NEW k \in Same PROVE k + 1 \in Same
    <3> SUFFICES ASSUME k + 1 <= n PROVE until[k + 1] = u[k + 1]
      OBVIOUS
    <3>1. k \in Nat /\ k <= n /\ k + 1 \in 1 .. n /\ k + 1 \in 0 .. n /\ (k + 1) - 1 = k
          /\ k + 1 # 0
      OBVIOUS
    <3>2. until[k + 1] = Extended(until[k], s[k + 1])
      BY <1>8, <3>1
    <3>3. u[k + 1] = Extended(u[k], s[k + 1])
      BY <1>6, <3>1 DEF Follows
    <3>4. QED
      BY <3>1, <3>2, <3>3
  <2>3. Same \subseteq Nat
    OBVIOUS
  <2>4. Same = Nat
    <3> HIDE DEF Same
    <3>1. QED
      BY <2>1, <2>2, <2>3, SetInduction
  <2>5. QED
    BY <2>4
<1>11. QED
  BY <1>2, <1>6, <1>9, <1>10

(* What is covered never shrinks. *)
LEMMA SweepAdvances ==
  ASSUME NEW n \in Nat, NEW s, NEW u, NEW start \in Int, Follows(u, s, n, start),
         \A i \in 1 .. n : s[i].min \in Nat /\ s[i].max \in Nat,
         NEW i \in 0 .. n, NEW j \in i .. n
  PROVE  u[i] <= u[j]
<1> DEFINE Later == {k \in Nat : i + k <= n => u[i] <= u[i + k]}
<1>1. \A k \in 0 .. n : u[k] \in Int
  BY DEF Follows
<1>2. 0 \in Later
  BY <1>1
<1>3. ASSUME NEW k \in Later PROVE k + 1 \in Later
  <2> SUFFICES ASSUME i + (k + 1) <= n PROVE u[i] <= u[i + (k + 1)]
    OBVIOUS
  <2>1. PICK l \in Int : l = i + (k + 1)
    OBVIOUS
  <2>2. k \in Nat /\ i + k <= n /\ l \in 1 .. n /\ l - 1 = i + k /\ i + k \in 0 .. n
    BY <2>1
  <2>3. u[l] = Extended(u[l - 1], s[l])
    BY <2>2 DEF Follows
  <2>4. u[l] >= u[l - 1] /\ u[l] \in Int
    BY <1>1, <2>2, <2>3, ExtendedReaches
  <2>5. u[i] <= u[i + k] /\ u[i] \in Int /\ u[i + k] \in Int
    BY <1>1, <2>2
  <2>6. QED
    BY <2>1, <2>2, <2>4, <2>5
<1>4. Later \subseteq Nat
  OBVIOUS
<1>5. Later = Nat
  <2> HIDE DEF Later
  <2>1. QED
    BY <1>2, <1>3, <1>4, SetInduction
<1>6. j - i \in Nat /\ i + (j - i) = j /\ j <= n
  OBVIOUS
<1>7. QED
  BY <1>5, <1>6

(* What the sweep has passed is covered. *)
LEMMA SweptIsCovered ==
  ASSUME NEW ds, NEW n \in Nat, NEW s \in [1 .. n -> ds], NEW u, NEW start \in Int,
         Follows(u, s, n, start), \A d \in ds : d.min \in Nat /\ d.max \in Nat,
         NEW m \in Int, start <= m, m < u[n]
  PROVE  m \in MomentsOf(ds)
<1> DEFINE Covered == {k \in Nat : k <= n => (m < u[k] => m \in MomentsOf(ds))}
<1>1. \A k \in 0 .. n : u[k] \in Int
  BY DEF Follows
<1>2. 0 \in Covered
  <2>1. u[0] = start /\ ~(m < start)
    BY DEF Follows
  <2>2. QED
    BY <2>1
<1>3. ASSUME NEW k \in Covered PROVE k + 1 \in Covered
  <2> SUFFICES ASSUME k + 1 <= n, m < u[k + 1], ~(m < u[k]) PROVE m \in MomentsOf(ds)
    OBVIOUS
  <2>1. k \in Nat /\ k \in 0 .. n /\ k + 1 \in 1 .. n /\ k + 1 \in 0 .. n /\ (k + 1) - 1 = k
    OBVIOUS
  <2>2. PICK d \in ds : d = s[k + 1]
    BY <2>1
  <2>3. u[k + 1] = Extended(u[k], d)
    BY <2>1, <2>2 DEF Follows
  <2>4. u[k] \in Int /\ u[k + 1] \in Int /\ d.min \in Nat /\ d.max \in Nat
    BY <1>1, <2>1
  <2>5. u[k + 1] # u[k]
    BY <2>4
  <2>6. u[k + 1] = d.max /\ d.min <= u[k]
    BY <2>3, <2>4, <2>5, ExtendedReaches
  <2>7. m \in Moments(d)
    BY <2>4, <2>6 DEF Moments
  <2>8. QED
    BY <2>7 DEF MomentsOf
<1>4. Covered \subseteq Nat
  OBVIOUS
<1>5. Covered = Nat
  <2> HIDE DEF Covered
  <2>1. QED
    BY <1>2, <1>3, <1>4, SetInduction
<1>6. QED
  BY <1>5

(* Once a range begins after what is covered, nothing more is. *)
LEMMA SweepStops ==
  ASSUME NEW ds, NEW n \in Nat, NEW s \in [1 .. n -> ds], NEW u, NEW start \in Int,
         Follows(u, s, n, start), AreRanges(ds),
         Ascending(s, n), NEW i \in 1 .. n, s[i].min > u[i - 1]
  PROVE  u[n] = u[i - 1]
<1> DEFINE Stopped == {k \in Nat : (i - 1) + k <= n => u[(i - 1) + k] = u[i - 1]}
<1>1. \A k \in 0 .. n : u[k] \in Int
  BY DEF Follows
<1>2. 0 \in Stopped
  OBVIOUS
<1>3. ASSUME NEW k \in Stopped PROVE k + 1 \in Stopped
  <2> SUFFICES ASSUME (i - 1) + (k + 1) <= n PROVE u[(i - 1) + (k + 1)] = u[i - 1]
    OBVIOUS
  <2>1. PICK l \in Int : l = (i - 1) + (k + 1)
    OBVIOUS
  <2>2. /\ k \in Nat /\ (i - 1) + k <= n /\ l \in 1 .. n /\ l - 1 = (i - 1) + k
        /\ i <= l /\ i - 1 \in 0 .. n
    BY <2>1
  <2>3. u[l - 1] = u[i - 1]
    BY <2>2
  <2>4. s[i].min \in Nat /\ s[l].min \in Nat /\ s[l].max \in Nat /\ u[i - 1] \in Int
    BY <1>1, <2>2 DEF AreRanges
  <2>5. s[i].min <= s[l].min
    BY <2>2, <2>4 DEF Ascending
  <2>6. u[l] = Extended(u[i - 1], s[l])
    BY <2>2, <2>3 DEF Follows
  <2>7. u[l] = u[i - 1]
    BY <2>4, <2>5, <2>6, ExtendedReaches
  <2>8. QED
    BY <2>1, <2>7
<1>4. Stopped \subseteq Nat
  OBVIOUS
<1>5. Stopped = Nat
  <2> HIDE DEF Stopped
  <2>1. QED
    BY <1>2, <1>3, <1>4, SetInduction
<1>6. PICK k \in Nat : (i - 1) + k = n
  <2>1. n - (i - 1) \in Nat /\ (i - 1) + (n - (i - 1)) = n
    OBVIOUS
  <2>2. QED
    BY <2>1
<1>7. k \in Stopped
  BY <1>5
<1>8. u[(i - 1) + k] = u[i - 1]
  BY <1>6, <1>7
<1>9. QED
  BY <1>6, <1>8

(* The sweep of require_coverage accepts dates exactly when each of their  *)
(* moments lies in one of the stay's ranges.                               *)
THEOREM CoversIsExact ==
  ASSUME NEW ds, AreRanges(ds), NEW d, d.min \in Int, d.max \in Int
  PROVE  Covers(ds, d) <=> Moments(d) \subseteq MomentsOf(ds)
<1>0. PICK n \in Nat : n = Cardinality(ds)
  BY FS_CardinalityType DEF AreRanges
<1>1. PICK u : Follows(u, ByArrival(ds), n, d.min) /\ Sweep(ds, d.min) = u[n]
  BY <1>0, SweepFollows
<1>2. PICK s : s = ByArrival(ds)
  OBVIOUS
<1>3. /\ s \in [1 .. n -> ds] /\ \A i, j \in 1 .. n : i < j => s[i].min <= s[j].min
      /\ \A e \in ds : \E i \in 1 .. n : s[i] = e
  BY <1>0, <1>2, ByArrivalLists DEF Lists
<1>4. Follows(u, s, n, d.min) /\ \A e \in ds : e.min \in Nat /\ e.max \in Nat
  BY <1>1, <1>2 DEF AreRanges
<1>5. \A k \in 0 .. n : u[k] \in Int
  BY <1>4 DEF Follows
<1>6. \A i \in 0 .. n : \A j \in i .. n : u[i] <= u[j]
  BY <1>3, <1>4, SweepAdvances
<1>7. ASSUME u[n] >= d.max, NEW m \in Moments(d) PROVE m \in MomentsOf(ds)
  <2>1. m \in Int /\ d.min <= m /\ m < d.max
    BY DEF Moments
  <2>2. m < u[n]
    BY <1>5, <1>7, <2>1
  <2>3. QED
    BY <1>3, <1>4, <2>1, <2>2, SweptIsCovered
<1>8. ASSUME u[n] < d.max, Moments(d) \subseteq MomentsOf(ds) PROVE FALSE
  <2>1. u[n] \in Int /\ u[0] = d.min /\ u[0] <= u[n]
    BY <1>4, <1>5, <1>6 DEF Follows
  <2>2. u[n] \in Moments(d)
    BY <1>8, <2>1 DEF Moments
  <2>3. PICK e \in ds : u[n] \in Moments(e)
    BY <1>8, <2>2 DEF MomentsOf
  <2>4. PICK i \in 1 .. n : s[i] = e
    BY <1>3
  <2>5. e.min \in Nat /\ e.max \in Nat /\ e.min <= u[n] /\ u[n] < e.max
    BY <1>4, <2>1, <2>3 DEF Moments
  <2>6. i - 1 \in 0 .. n /\ i \in 0 .. n /\ n \in i .. n /\ u[i] = Extended(u[i - 1], e)
    BY <1>4, <2>4 DEF Follows
  <2>7. u[i - 1] \in Int /\ u[i] \in Int /\ u[i] <= u[n]
    BY <1>5, <1>6, <2>6
  <2>8. CASE e.min <= u[i - 1]
    <3>1. u[i] >= e.max
      BY <2>5, <2>6, <2>7, <2>8, ExtendedReaches
    <3>2. QED
      BY <2>1, <2>5, <2>7, <3>1
  <2>9. CASE e.min > u[i - 1]
    <3>1. s[i].min > u[i - 1]
      BY <2>4, <2>9
    <3>2. u[n] = u[i - 1]
      <4>1. PICK start \in Int : start = d.min
        OBVIOUS
      <4>2. Follows(u, s, n, start)
        BY <1>4, <4>1
      <4>3. s \in [1 .. n -> ds] /\ Ascending(s, n)
        BY <1>3 DEF Ascending
      <4>5. QED
        BY <2>4, <3>1, <4>2, <4>3, SweepStops
    <3>3. QED
      BY <2>5, <2>7, <2>9, <3>2
  <2>10. QED
    BY <2>5, <2>7, <2>8, <2>9
<1>9. u[n] \in Int
  BY <1>5
<1>10. QED
  BY <1>1, <1>7, <1>8, <1>9 DEF Covers

-----------------------------------------------------------------------------
(* Reserved activities lie within the stay.                                *)

Within(alloc, b, d) == Moments(d) \subseteq MomentsOf(RoomIntervals(alloc, b))

(* The rooms of a stay are finitely many, and their dates are numbers. *)
LEMMA IntervalsAreRanges ==
  ASSUME NEW alloc \in [Allocation -> AllocationRow \cup {None}], NEW b
  PROVE  AreRanges(RoomIntervals(alloc, b))
<1>1. /\ RoomsOf(alloc, b) \subseteq Allocation
      /\ \A a \in RoomsOf(alloc, b) : alloc[a] \in AllocationRow
  BY DEF RoomsOf, Rows
<1>2. IsFiniteSet(RoomsOf(alloc, b))
  BY <1>1, StaysAssumption, FS_Subset
<1>3. IsFiniteSet(RoomIntervals(alloc, b))
  <2>1. PICK f : f = [a \in RoomsOf(alloc, b) |-> [min |-> alloc[a].min, max |-> alloc[a].max]]
    OBVIOUS
  <2>2. f \in Surjection(RoomsOf(alloc, b), RoomIntervals(alloc, b))
    BY <2>1 DEF RoomIntervals, Surjection
  <2>3. QED
    BY <1>2, <2>2, FS_Surjection
<1>4. \A row \in AllocationRow : row.min \in Nat /\ row.max \in Nat
  <2>1. 0 .. MaxDate \subseteq Nat
    BY StaysAssumption
  <2>2. QED
    BY <2>1 DEF AllocationRow
<1>5. \A d \in RoomIntervals(alloc, b) : d.min \in Nat /\ d.max \in Nat
  BY <1>1, <1>4 DEF RoomIntervals
<1>6. QED
  BY <1>3, <1>5 DEF AreRanges

(* The dates of activities are numbers. *)
LEMMA ActivityDates ==
  ASSUME TypeOK, NEW x \in Activity
  PROVE  activity[x].min \in Int /\ activity[x].max \in Int
<1>1. activity[x] \in ActivityRow
  BY DEF TypeOK
<1>2. PICK to \in Settings, now \in Clock : activity[x] = Scheduled(to, now)
  BY <1>1 DEF ActivityRow
<1>3. to.min \in Int /\ to.max \in Int
  BY StaysAssumption DEF Setting
<1>4. QED
  BY <1>2, <1>3 DEF Scheduled

(* What require_coverage accepts is within the stay. *)
LEMMA AcceptedAreWithin ==
  ASSUME NEW alloc \in [Allocation -> AllocationRow \cup {None}], NEW b, NEW d,
         d.min \in Int, d.max \in Int, Covers(RoomIntervals(alloc, b), d)
  PROVE  Within(alloc, b, d)
BY IntervalsAreRanges, CoversIsExact DEF Within

(* Whoever changes or gives up a room of a stay has looked at its          *)
(* reserved activities.                                                    *)
LEMMA ChangedRoomsServe ==
  ASSUME TypeOK, [Next]_vars, NEW b, NEW a \in RoomsOf(allocation, b),
         allocation'[a] # allocation[a]
  PROVE  AreCovered(allocation', b) /\ activity' = activity
<1>0. a \in Allocation /\ allocation[a] # None /\ allocation[a].booking = b
  BY DEF RoomsOf, Rows, TypeOK
<1>1. ASSUME NEW now \in Clock, NEW c \in Fresh(booking), NEW P \in SUBSET Fresh(guest),
             NEW wanted \in Requests, NEW people \in [P -> Ages],
             CreateStay(c, people, wanted, now)
      PROVE  FALSE
  BY <1>0, <1>1, CreateStayCounts, WantedAreFresh
<1>2. ASSUME NEW now \in Clock, NEW c \in Booking, NEW n \in Allocation, NEW r \in Room,
             NEW d \in Dates, AddRoom(c, n, r, d, now)
      PROVE  FALSE
  <2>1. n = a
    BY <1>0, <1>2, AddRoomCounts
  <2>2. QED
    BY <1>0, <1>2, <2>1 DEF AddRoom
<1>3. ASSUME NEW now \in Clock, NEW n \in Allocation, NEW d \in Dates, Revise(n, d, now)
      PROVE  AreCovered(allocation', b) /\ activity' = activity
  <2>1. n = a
    BY <1>0, <1>3, ReviseCounts
  <2>2. QED
    BY <1>0, <1>3, <2>1 DEF Revise, Serves
<1>4. ASSUME NEW now \in Clock, NEW old \in Allocation, NEW new \in Allocation,
             NEW r \in Room, NEW d \in Dates, MoveRoom(old, new, r, d, now)
      PROVE  AreCovered(allocation', b) /\ activity' = activity
  <2>1. a \in {old, new} /\ allocation[new] = None
    BY <1>0, <1>4, MoveRoomCounts DEF MoveRoom
  <2>2. QED
    BY <1>0, <1>4, <2>1 DEF MoveRoom, Serves
<1>5. ASSUME NEW now \in Clock, NEW n \in Allocation, CancelRoom(n, now)
      PROVE  AreCovered(allocation', b) /\ activity' = activity
  <2>1. n = a
    BY <1>0, <1>5, CancelRoomCounts
  <2>2. QED
    BY <1>0, <1>5, <2>1 DEF CancelRoom, Serves
<1>6. QED
  BY <1>1, <1>2, <1>3, <1>4, <1>5, FinishCounts, OtherSteps DEF RoomStep

(* The dates of an activity with attendants stay. *)
LEMMA AttendedStay ==
  ASSUME TypeOK, [Next]_vars, NEW x \in Activity, NEW s \in Attending(x)
  PROVE  activity'[x].min = activity[x].min /\ activity'[x].max = activity[x].max
<1>1. CASE activity'[x] = activity[x]
  BY <1>1
<1>2. CASE activity'[x] # activity[x]
  <2>1. PICK to \in Settings, now \in Clock :
          UpdateActivity(x, to, now) /\ activity'[x] = Scheduled(to, now)
    BY <1>2, ActivityChanges
  <2>2. to.min = activity[x].min /\ to.max = activity[x].max
    BY <2>1 DEF UpdateActivity
  <2>3. QED
    BY <2>1, <2>2 DEF Scheduled
<1>3. QED
  BY <1>1, <1>2

(* A reserved activity stays within the stay. *)
LEMMA StepKeepsCovered ==
  TypeOK /\ ReservedActivitiesAreCovered /\ [Next]_vars => ReservedActivitiesAreCovered'
<1> SUFFICES ASSUME TypeOK, ReservedActivitiesAreCovered, [Next]_vars,
                    NEW s \in Rows(seat)', Effective(s)',
                    NEW x, x = seat'[s].activity, NEW g, g = seat'[s].guest,
                    NEW b, b = guest'[g].booking
             PROVE  Within(allocation', b, activity'[x])
  BY DEF ReservedActivitiesAreCovered, Within
<1>1. TypeOK' /\ RowsStay
  BY StepTypes
<1>2. CASE s \notin Rows(seat)
  <2>1. PICK now, y, S, for : LetsIn(y, S, for, now)
    BY <1>2, PlacesAreOnlyAddedByReserve
  <2>2. s \in S
    BY <1>1, <1>2, <2>1, LetInRows DEF Rows, TypeOK
  <2>3. /\ y = x /\ x \in Activity /\ for[s] = g
        /\ UNCHANGED <<guest, allocation, activity>>
    BY <2>1, <2>2, LetInRows
  <2>4. Eligible(g, x, now)
    BY <2>1, <2>2, <2>3, GroupsAreNew
  <2>5. Covers(RoomIntervals(allocation, b), activity[x])
    BY <2>3, <2>4 DEF Eligible
  <2>6. Within(allocation, b, activity[x])
    BY <2>3, <2>5, ActivityDates, AcceptedAreWithin DEF TypeOK
  <2>7. QED
    BY <2>3, <2>6
<1>3. CASE s \in Rows(seat)
  <2>1. Effective(s) /\ s \in Seat /\ g = seat[s].guest /\ x = seat[s].activity
    BY <1>3, PlacesCountOn
  <2>2. g \in Rows(guest) /\ x \in Activity
    BY <1>3, <2>1, RowsAreTyped DEF TypeOK, SeatRow
  <2>3. guest[g].booking = b
    BY <1>1, <2>2 DEF RowsStay
  <2>4. Within(allocation, b, activity[x])
    BY <1>3, <2>1, <2>3 DEF ReservedActivitiesAreCovered, Within
  <2>5. Moments(activity'[x]) = Moments(activity[x])
    BY <2>1, <2>2, AttendedStay DEF Attending, Moments
  <2>6. Within(allocation', b, activity[x])
    <3>1. CASE \A a \in RoomsOf(allocation, b) : allocation'[a] = allocation[a]
      <4>1. RoomsOf(allocation, b) \subseteq RoomsOf(allocation', b)
        BY <1>1, <3>1 DEF RoomsOf, Rows, TypeOK
      <4>2. RoomIntervals(allocation, b) \subseteq RoomIntervals(allocation', b)
        BY <3>1, <4>1 DEF RoomIntervals
      <4>3. QED
        BY <2>4, <4>2 DEF Within, MomentsOf
    <3>2. CASE \E a \in RoomsOf(allocation, b) : allocation'[a] # allocation[a]
      <4>1. AreCovered(allocation', b)
        BY <3>2, ChangedRoomsServe
      <4>2. x \in ReservedBy(b)
        BY <2>1, <2>3 DEF ReservedBy
      <4>3. Covers(RoomIntervals(allocation', b), activity[x])
        BY <4>1, <4>2 DEF AreCovered
      <4>4. QED
        BY <1>1, <2>2, <4>3, ActivityDates, AcceptedAreWithin DEF TypeOK
    <3>3. QED
      BY <3>1, <3>2
  <2>7. QED
    BY <2>5, <2>6 DEF Within
<1>4. QED
  BY <1>2, <1>3

(* Every moment of a reserved activity lies within the guest's stay,       *)
(* whatever becomes of its rooms, its dates and the activity.              *)
THEOREM ActivitiesStayCovered == Spec => []ReservedActivitiesAreCovered
<1>1. Init => ReservedActivitiesAreCovered
  BY DEF Init, ReservedActivitiesAreCovered, Rows
<1>2. QED
  BY <1>1, StepKeepsCovered, TypeCorrect, PTL DEF Spec

=============================================================================
