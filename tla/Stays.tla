-------------------------------- MODULE Stays -------------------------------
(***************************************************************************)
(* Stays of one hotel: bookings, their parties, rooms, keys and places in  *)
(* activities (moseby/services, moseby/db/operations/stays.py and the      *)
(* repositories under them).  Every action is one write transaction.  A    *)
(* refusal raises, rolls the transaction back and is no step.              *)
(*                                                                         *)
(* "now" is the time a command was received, taken before it waits for the *)
(* write lock: any order of times is possible.  Revision numbers and the   *)
(* replay of repeated commands are in Commands.                            *)
(***************************************************************************)
EXTENDS Coverage

CONSTANTS
  Booking, Guest, Room, Allocation, Key,  \* IDs; an allocation is a room reservation
  Activity, Seat,                         \* a seat is one guest's activity reservation
  None,                                   \* no such row yet
  Places,                                 \* Places[r]: sleeping places of r's beds
  MaxDate,                                \* bound on the dates of rooms
  Clock,                                  \* times at which commands are received
  Ages,                                   \* ages guests may have
  Settings,                               \* dates, capacity and age limit of activities
  Unlimited,                              \* the null capacity
  MinGroup, MaxGroup,                     \* group size accepted by activities
  MaxRooms                                \* bound on the rooms of one new stay

Dates == DateRange(0 .. MaxDate)
Setting == [min : Int, max : Int, capacity : Nat \cup {Unlimited}, minAge : Nat]

ASSUME StaysAssumption ==
  /\ Places \in [Room -> Nat]
  /\ MaxDate \in Nat /\ Clock \subseteq Int /\ Ages \subseteq Nat
  /\ Settings \subseteq Setting /\ \A x \in Settings : x.min < x.max
  /\ MinGroup \in Nat \ {0} /\ MaxGroup \in Nat /\ MaxRooms \in Nat
  /\ Unlimited \notin Nat
  /\ IsFiniteSet(Allocation) /\ IsFiniteSet(Seat)   \* IDs have a fixed length

VARIABLES booking, guest, allocation, key, activity, seat

rooms == <<booking, allocation>>
vars == <<booking, guest, allocation, key, activity, seat>>

-----------------------------------------------------------------------------
BookingRow == [status : {"CONFIRMED", "CANCELLED", "COMPLETED"}, updated : Clock]
GuestRow == [booking : Booking, age : Ages, updated : Clock]
AllocationRow == [booking : Booking, room : Room, min : 0 .. MaxDate, max : 0 .. MaxDate,
                  cancelled : BOOLEAN, created : Clock, revised : Clock]
KeyRow == [allocation : Allocation, issued : Clock, revoked : BOOLEAN]
SeatRow == [guest : Guest, activity : Activity, cancelled : BOOLEAN, reserved : Clock]

Scheduled(x, now) == [min |-> x.min, max |-> x.max, capacity |-> x.capacity,
                      minAge |-> x.minAge, updated |-> now]
ActivityRow == {Scheduled(x, now) : x \in Settings, now \in Clock}

ASSUME NoRowAssumption ==
  None \notin BookingRow \cup GuestRow \cup AllocationRow \cup KeyRow \cup SeatRow

Rows(t) == {i \in DOMAIN t : t[i] # None}
Fresh(t) == DOMAIN t \ Rows(t)

(* Rows refer to rows that exist, and dates are never empty.               *)
TypeOK ==
  /\ booking \in [Booking -> BookingRow \cup {None}]
  /\ guest \in [Guest -> GuestRow \cup {None}]
  /\ allocation \in [Allocation -> AllocationRow \cup {None}]
  /\ key \in [Key -> KeyRow \cup {None}]
  /\ seat \in [Seat -> SeatRow \cup {None}]
  /\ activity \in [Activity -> ActivityRow]
  /\ \A g \in Rows(guest) : guest[g].booking \in Rows(booking)
  /\ \A a \in Rows(allocation) : /\ allocation[a].booking \in Rows(booking)
                                 /\ allocation[a].min < allocation[a].max
  /\ \A k \in Rows(key) : key[k].allocation \in Rows(allocation)
  /\ \A s \in Rows(seat) : seat[s].guest \in Rows(guest)

Init ==
  /\ booking = [b \in Booking |-> None]
  /\ guest = [g \in Guest |-> None]
  /\ allocation = [a \in Allocation |-> None]
  /\ key = [k \in Key |-> None]
  /\ seat = [s \in Seat |-> None]
  /\ \E now \in Clock, setting \in [Activity -> Settings] :
       activity = [x \in Activity |-> Scheduled(setting[x], now)]

-----------------------------------------------------------------------------
(* Current state: what the latest revisions say.                           *)

Confirmed(b) == booking[b] # None /\ booking[b].status = "CONFIRMED"

(* An allocation holds its room: uncancelled, on a confirmed booking.      *)
Counts(a) ==
  /\ allocation[a] # None
  /\ ~allocation[a].cancelled
  /\ Confirmed(allocation[a].booking)

Occupied(r, d, others) ==
  \E a \in others : Counts(a) /\ allocation[a].room = r /\ Overlaps(allocation[a], d)

(* The party of a booking, and its uncancelled rooms in a proposed state.  *)
Party(people, b) == {g \in Rows(people) : people[g].booking = b}
RoomsOf(alloc, b) ==
  {a \in Rows(alloc) : alloc[a].booking = b /\ ~alloc[a].cancelled}
RoomIntervals(alloc, b) ==
  {[min |-> alloc[a].min, max |-> alloc[a].max] : a \in RoomsOf(alloc, b)}

(* A place counts until it or its booking is cancelled.                    *)
Effective(s) ==
  /\ seat[s] # None
  /\ ~seat[s].cancelled
  /\ booking[guest[seat[s].guest].booking].status \in {"CONFIRMED", "COMPLETED"}

Attending(x) == {s \in Seat : Effective(s) /\ seat[s].activity = x}
ReservedBy(b) ==
  {seat[s].activity : s \in {t \in Seat : Effective(t) /\ guest[seat[t].guest].booking = b}}

\* Mutant: a key follows the booking but not its own allocation.
OpensWhileConfirmed(k, m) ==
  LET a == key[k].allocation IN
  /\ ~key[k].revoked
  /\ Confirmed(allocation[a].booking)
  /\ m \in Moments(allocation[a])

(* Key k opens the room of its allocation at moment m.                     *)
Opens(k, m) ==
  LET a == key[k].allocation IN
  ~key[k].revoked /\ Counts(a) /\ m \in Moments(allocation[a])

-----------------------------------------------------------------------------
(* Checks that several operations share.                                   *)

AreCovered(alloc, b) ==
  /\ RoomsOf(alloc, b) # {}
  /\ \A x \in ReservedBy(b) : Covers(RoomIntervals(alloc, b), activity[x])

(* Sleeping places of the rooms of some allocations.                       *)
Beds(alloc, some) == SumFunction([a \in some |-> Places[alloc[a].room]])

\* Mutant: beds of different dates are added up.
SleepsInTotal(alloc, people, b) ==
  /\ RoomsOf(alloc, b) # {} /\ Party(people, b) # {}
  /\ Beds(alloc, RoomsOf(alloc, b)) >= Cardinality(Party(people, b))

(* Between successive arrivals and departures the rooms sleep the party.   *)
Sleeps(alloc, people, b) ==
  /\ RoomsOf(alloc, b) # {} /\ Party(people, b) # {}
  /\ \A p \in Spans(RoomIntervals(alloc, b)) :
       LET here == {a \in RoomsOf(alloc, b) : alloc[a].min <= p.min /\ alloc[a].max >= p.max}
       IN  Beds(alloc, here) >= Cardinality(Party(people, b))

(* Changes of an allocation must leave the stay whole.                     *)
Serves(alloc, b) == AreCovered(alloc, b) /\ Sleeps(alloc, guest, b)

MayChangeRooms(b, now) == Confirmed(b) /\ now >= booking[b].updated

(* room_reservations.create, revise and cancel, up to the proposed state.  *)
AcceptsRoom(b, r, d, now) == MayChangeRooms(b, now) /\ ~Occupied(r, d, Allocation)
Accepts(a, now) ==
  /\ allocation[a] # None /\ ~allocation[a].cancelled
  /\ now >= allocation[a].revised /\ MayChangeRooms(allocation[a].booking, now)
AcceptsDates(a, d, now) ==
  Accepts(a, now) /\ ~Occupied(allocation[a].room, d, Allocation \ {a})

NewAllocation(b, r, d, now) ==
  [booking |-> b, room |-> r, min |-> d.min, max |-> d.max,
   cancelled |-> FALSE, created |-> now, revised |-> now]

\* Mutant: arrival and departure are swapped.
RedatedSwapped(a, d, now) ==
  [allocation EXCEPT ![a].min = d.max, ![a].max = d.min, ![a].revised = now]

Redated(a, d, now) ==
  [allocation EXCEPT ![a].min = d.min, ![a].max = d.max, ![a].revised = now]

Released(alloc, a, now) == [alloc EXCEPT ![a].cancelled = TRUE, ![a].revised = now]

Moved(b, old, new, r, d, now) ==
  Released([allocation EXCEPT ![new] = NewAllocation(b, r, d, now)], old, now)

-----------------------------------------------------------------------------
(* Stays and their rooms.                                                  *)

(* services.stays.create: the booking, its party and all its rooms.  Later *)
(* rooms of the request are checked against the earlier ones.              *)
NewParty(b, people, now) ==
  [g \in Guest |-> IF g \in DOMAIN people
                   THEN [booking |-> b, age |-> people[g], updated |-> now] ELSE guest[g]]
NewRooms(b, wanted, now) ==
  [a \in Allocation |-> IF a \in DOMAIN wanted
                        THEN NewAllocation(b, wanted[a].room, wanted[a], now)
                        ELSE allocation[a]]

CreateStay(b, people, wanted, now) ==
  LET asked == DOMAIN wanted IN
  /\ booking[b] = None /\ DOMAIN people # {} /\ asked # {}
  /\ \A a \in asked : wanted[a].max > now
  /\ \A a \in asked : ~Occupied(wanted[a].room, wanted[a], Allocation)
  /\ \A a, c \in asked : a # c /\ wanted[a].room = wanted[c].room =>
                           ~Overlaps(wanted[a], wanted[c])
  /\ Sleeps(NewRooms(b, wanted, now), NewParty(b, people, now), b)
  /\ booking' = [booking EXCEPT ![b] = [status |-> "CONFIRMED", updated |-> now]]
  /\ guest' = NewParty(b, people, now)
  /\ allocation' = NewRooms(b, wanted, now)
  /\ UNCHANGED <<key, activity, seat>>

(* services.stays.add_room: availability is checked, capacity is not.      *)
AddRoom(b, a, r, d, now) ==
  /\ allocation[a] = None /\ d.max > now
  /\ AcceptsRoom(b, r, d, now)
  /\ allocation' = [allocation EXCEPT ![a] = NewAllocation(b, r, d, now)]
  /\ UNCHANGED <<booking, guest, key, activity, seat>>

\* Mutant: nobody looks whether the room was cancelled.
ReviseCancelled(a, d, now) ==
  /\ allocation[a] # None
  /\ now >= allocation[a].revised /\ MayChangeRooms(allocation[a].booking, now)
  /\ ~Occupied(allocation[a].room, d, Allocation \ {a})
  /\ allocation' = [Redated(a, d, now) EXCEPT ![a].cancelled = FALSE]
  /\ UNCHANGED <<booking, guest, key, activity, seat>>

(* services.stays.amend for the same room: other dates.                    *)
Revise(a, d, now) ==
  /\ AcceptsDates(a, d, now)
  /\ Serves(Redated(a, d, now), allocation[a].booking)
  /\ allocation' = Redated(a, d, now)
  /\ UNCHANGED <<booking, guest, key, activity, seat>>

(* services.stays.amend for another room: reserve it, then cancel the old. *)
MoveRoom(old, new, r, d, now) ==
  LET b == allocation[old].booking IN
  /\ Accepts(old, now) /\ allocation[new] = None
  /\ r # allocation[old].room /\ AcceptsRoom(b, r, d, now)
  /\ Serves(Moved(b, old, new, r, d, now), b)
  /\ allocation' = Moved(b, old, new, r, d, now)
  /\ UNCHANGED <<booking, guest, key, activity, seat>>

(* room_reservations.cancel on its own; the services only use it to move.  *)
CancelRoom(a, now) ==
  /\ Accepts(a, now) /\ Serves(Released(allocation, a, now), allocation[a].booking)
  /\ allocation' = Released(allocation, a, now)
  /\ UNCHANGED <<booking, guest, key, activity, seat>>

(* bookings._finish: only a confirmed booking ends.                        *)
Finish(b, status, now) ==
  /\ MayChangeRooms(b, now)
  /\ booking' = [booking EXCEPT ![b] = [status |-> status, updated |-> now]]
  /\ UNCHANGED <<guest, allocation, key, activity, seat>>

CancelStay(b, now) == Finish(b, "CANCELLED", now)

\* Mutant: the end of only one of the rooms is looked at.
CompleteStayEarly(b, now) ==
  /\ \E a \in RoomsOf(allocation, b) : allocation[a].max <= now
  /\ Finish(b, "COMPLETED", now)

CompleteStay(b, now) ==
  /\ \A a \in RoomsOf(allocation, b) : allocation[a].max <= now
  /\ Finish(b, "COMPLETED", now)

-----------------------------------------------------------------------------
(* Guests and keys.                                                        *)

(* guests.create: the capacity check follows the insertion.                *)
AddGuest(g, b, age, now) ==
  LET more == [guest EXCEPT ![g] = [booking |-> b, age |-> age, updated |-> now]] IN
  /\ guest[g] = None /\ MayChangeRooms(b, now)
  /\ RoomsOf(allocation, b) # {} => Sleeps(allocation, more, b)
  /\ guest' = more
  /\ UNCHANGED <<booking, allocation, key, activity, seat>>

(* guests.update_details: every edit has a later time than the last.       *)
AcceptsEdit(g, now) == guest[g] # None /\ now > guest[g].updated

(* services.guests.update, for the field other rules depend on.            *)
UpdateGuest(g, age, now) ==
  /\ AcceptsEdit(g, now)
  /\ guest' = [guest EXCEPT ![g].age = age, ![g].updated = now]
  /\ UNCHANGED <<booking, allocation, key, activity, seat>>

(* room_keys.issue: also for a stay that has not begun.                    *)
AcceptsKey(a, now) ==
  /\ Counts(a) /\ now < allocation[a].max
  /\ now >= allocation[a].created /\ now >= booking[allocation[a].booking].updated

IssueKey(k, a, now) ==
  /\ key[k] = None /\ AcceptsKey(a, now)
  /\ key' = [key EXCEPT ![k] = [allocation |-> a, issued |-> now, revoked |-> FALSE]]
  /\ UNCHANGED <<booking, guest, allocation, activity, seat>>

(* A repeated revocation returns the saved one or is refused.              *)
AcceptsRevocation(k, now) == key[k] # None /\ ~key[k].revoked /\ now >= key[k].issued

RevokeKey(k, now) ==
  /\ AcceptsRevocation(k, now)
  /\ key' = [key EXCEPT ![k].revoked = TRUE]
  /\ UNCHANGED <<booking, guest, allocation, activity, seat>>

-----------------------------------------------------------------------------
(* Activities and the places reserved in them.                             *)

(* activities.update_details.  The venue is part of the dates here.        *)
UpdateActivity(x, to, now) ==
  /\ now > activity[x].updated
  /\ to.capacity # Unlimited => to.capacity >= Cardinality(Attending(x))
  /\ Attending(x) # {} => to.min = activity[x].min /\ to.max = activity[x].max
  /\ \A s \in Attending(x) : guest[seat[s].guest].age >= to.minAge
  /\ activity' = [activity EXCEPT ![x] = Scheduled(to, now)]
  /\ UNCHANGED <<booking, guest, allocation, key, seat>>

HasPlace(g, x) == \E s \in Attending(x) : seat[s].guest = g

\* Mutant: the group is let in while any place is left.
HasRoomForOne(x, n) ==
  activity[x].capacity # Unlimited => Cardinality(Attending(x)) < activity[x].capacity

HasRoomFor(x, n) ==
  activity[x].capacity # Unlimited => Cardinality(Attending(x)) + n <= activity[x].capacity

\* Mutant: the guest's age is not compared with the limit.
EligibleAtAnyAge(g, x, now) ==
  LET b == guest[g].booking IN
  /\ Confirmed(b) /\ now >= booking[b].updated
  /\ now >= guest[g].updated /\ now >= activity[x].updated
  /\ Covers(RoomIntervals(allocation, b), activity[x])

Eligible(g, x, now) ==
  LET b == guest[g].booking IN
  /\ Confirmed(b) /\ now >= booking[b].updated
  /\ now >= guest[g].updated /\ now >= activity[x].updated
  /\ guest[g].age >= activity[x].minAge
  /\ Covers(RoomIntervals(allocation, b), activity[x])

\* Mutant: a guest who is named twice is found, so the request goes on.
FoundAnyway(for) == for # <<>>

(* Guests are found by ID: one who is named twice is found once.           *)
AllFound(for) ==
  Cardinality({for[s] : s \in DOMAIN for}) = Cardinality(DOMAIN for)

(* activity_reservations.reserve: the whole group or none of it.           *)
AcceptsGroup(x, group, now) ==
  /\ Cardinality(group) \in MinGroup .. MaxGroup
  /\ now < activity[x].min
  /\ \A g \in group : guest[g] # None /\ ~HasPlace(g, x)
  /\ HasRoomFor(x, Cardinality(group))
  /\ \A g \in group : Eligible(g, x, now)

(* "for" gives each new seat its guest.                                    *)
Reserve(x, for, now) ==
  /\ AllFound(for) /\ AcceptsGroup(x, {for[s] : s \in DOMAIN for}, now)
  /\ seat' = [s \in Seat |-> IF s \in DOMAIN for
                             THEN [guest |-> for[s], activity |-> x,
                                   cancelled |-> FALSE, reserved |-> now]
                             ELSE seat[s]]
  /\ UNCHANGED <<booking, guest, allocation, key, activity>>

(* activity_reservations.cancel, whatever became of the booking.           *)
AcceptsCancellation(s, now) ==
  seat[s] # None /\ ~seat[s].cancelled /\ now >= seat[s].reserved

CancelSeat(s, now) ==
  /\ AcceptsCancellation(s, now)
  /\ seat' = [seat EXCEPT ![s].cancelled = TRUE]
  /\ UNCHANGED <<booking, guest, allocation, key, activity>>

-----------------------------------------------------------------------------
Request == {[room |-> r, min |-> d.min, max |-> d.max] : r \in Room, d \in Dates}
Requests == UNION {[A -> Request] : A \in {S \in SUBSET Fresh(allocation) : Cardinality(S) <= MaxRooms}}

NextAt(now) ==
  \/ \E b \in Fresh(booking), P \in SUBSET Fresh(guest), wanted \in Requests :
       \E people \in [P -> Ages] : CreateStay(b, people, wanted, now)
  \/ \E b \in Booking, a \in Allocation, r \in Room, d \in Dates : AddRoom(b, a, r, d, now)
  \/ \E a \in Allocation, d \in Dates : Revise(a, d, now)
  \/ \E a, c \in Allocation, r \in Room, d \in Dates : MoveRoom(a, c, r, d, now)
  \/ \E a \in Allocation : CancelRoom(a, now)
  \/ \E b \in Booking : CancelStay(b, now) \/ CompleteStay(b, now)
  \/ \E g \in Guest, b \in Booking, age \in Ages : AddGuest(g, b, age, now)
  \/ \E g \in Guest, age \in Ages : UpdateGuest(g, age, now)
  \/ \E k \in Key, a \in Allocation : IssueKey(k, a, now)
  \/ \E k \in Key : RevokeKey(k, now)
  \/ \E x \in Activity, to \in Settings : UpdateActivity(x, to, now)
  \/ \E x \in Activity, S \in SUBSET Fresh(seat) :
       \E for \in [S -> Rows(guest)] : Reserve(x, for, now)
  \/ \E s \in Seat : CancelSeat(s, now)

Next == \E now \in Clock : NextAt(now)

Spec == Init /\ [][Next]_vars

-----------------------------------------------------------------------------
(* Properties, in terms of single moments rather than of ranges.           *)

Moment == 0 .. (MaxDate - 1)

Holders(r, m) ==
  {<<allocation[a].booking, a>> : a \in
     {c \in Rows(allocation) : Counts(c) /\ allocation[c].room = r
                               /\ m \in Moments(allocation[c])}}

Rooming == INSTANCE Calendar WITH
  Stay <- Booking,
  held <- [r \in Room |-> [m \in Moment |-> Holders(r, m)]]

(* Bookings, additions, moves, revisions and cancellations of any stays    *)
(* only ever exchange free cells of the hotel's calendar for cells held by *)
(* one allocation: no command books a room twice, not even for its own     *)
(* stay, or takes it from another stay (room_reservations._check_allocation,*)
(* _room_queries.overlapping_reservation).                                 *)
ImplementsCalendar == Rooming!Spec

(* A key never opens a room at a moment for which another stay holds that  *)
(* room, whatever became of the allocation it was issued for               *)
(* (room_keys._select).                                                    *)
KeysNeverClash ==
  \A k \in Rows(key) : \A m \in Moment :
    LET mine == allocation[key[k].allocation] IN
    Opens(k, m) => \A h \in Holders(mine.room, m) : h[1] = mine.booking

(* What has ended stays ended: a cancelled allocation or place, a finished *)
(* booking or a key that has lost its access for good never counts again   *)
(* (the terminal rules of bookings, room_reservations, room_keys and       *)
(* activity_reservations, and of the triggers of 0001_domain).             *)
NothingIsRevived ==
  [][/\ \A a \in Rows(allocation) : ~Counts(a) => ~Counts(a)'
     /\ \A s \in Rows(seat) : ~Effective(s) => ~Effective(s)'
     /\ \A k \in Rows(key) :
          key[k].revoked \/ ~Counts(key[k].allocation) =>
            \A m \in Moment : ~Opens(k, m)']_vars

(* At every moment between its first arrival and its last departure a stay *)
(* has beds for its whole party.                                           *)
BedsAt(b, m) ==
  Beds(allocation, {a \in RoomsOf(allocation, b) : m \in Moments(allocation[a])})

Housed(b) ==
  /\ RoomsOf(allocation, b) # {}
  /\ \A m \in Moment :
       (\E a \in RoomsOf(allocation, b) : allocation[a].min <= m)
         /\ (\E a \in RoomsOf(allocation, b) : allocation[a].max > m)
         => BedsAt(b, m) >= Cardinality(Party(guest, b))

(* The capacity of a stay is checked "throughout its reserved stay"        *)
(* (_stay_queries.check_room_capacity); docs/04-design-review.md:39        *)
(* requires it of stays.                                                   *)
HousedThroughout == \A b \in Booking : Confirmed(b) => Housed(b)

OnlyAddsRoom(b) ==
  /\ booking[b] # None
  /\ guest' = guest
  /\ \E a \in Fresh(allocation) :
       /\ allocation'[a] # None /\ allocation'[a].booking = b
       /\ \A c \in Allocation \ {a} : allocation'[c] = allocation[c]

(* A stay begins with beds for its party at every moment and keeps them    *)
(* through every change of its dates, rooms and guests, except that adding *)
(* a room may leave a gap (add_room does not call check_room_capacity).    *)
BedsAreOnlyLostByAddingRooms ==
  [][\A b \in Booking :
       (booking[b] = None \/ (Confirmed(b) /\ Housed(b))) /\ Confirmed(b)' =>
         Housed(b)' \/ OnlyAddsRoom(b)]_vars

(* A completed stay had ended, in all the rooms it kept, when it was       *)
(* completed, and nothing has extended it since (services.stays.complete). *)
CompletedStaysHaveEnded ==
  \A b \in Rows(booking) : booking[b].status = "COMPLETED" =>
    \A a \in RoomsOf(allocation, b) : allocation[a].max <= booking[b].updated

(* Every moment of a reserved activity lies within the guest's stay,       *)
(* through later changes of rooms, dates and activities                    *)
(* (_stay_queries.require_coverage and check_reserved_activities).         *)
ReservedActivitiesAreCovered ==
  \A s \in Rows(seat) : Effective(s) =>
    Moments(activity[seat[s].activity])
      \subseteq MomentsOf(RoomIntervals(allocation, guest[seat[s].guest].booking))

(* Effective places never exceed an activity's capacity, also after the    *)
(* capacity is edited (activity_reservations.reserve, update_details).     *)
PlacesWithinCapacity ==
  \A x \in Activity : activity[x].capacity # Unlimited =>
    Cardinality(Attending(x)) <= activity[x].capacity

(* A guest has at most one effective place in an activity                  *)
(* (activity_reservations.reserve).                                        *)
OnePlacePerGuest ==
  \A s, t \in Rows(seat) :
    Effective(s) /\ Effective(t) /\ s # t =>
      seat[s].guest # seat[t].guest \/ seat[s].activity # seat[t].activity

UnderAge(s) == Effective(s) /\ guest[seat[s].guest].age < activity[seat[s].activity].minAge

(* A guest too young for an activity holds a place in it only if that      *)
(* guest's recorded age was lowered afterwards: reserving and editing the  *)
(* activity both refuse it (reserve, update_details).                      *)
OnlyGuestEditsAdmitTheYoung ==
  [][\A s \in Seat : UnderAge(s)' =>
       UnderAge(s) \/ (seat[s] # None /\ guest'[seat[s].guest] # guest[seat[s].guest])]_vars

=============================================================================
