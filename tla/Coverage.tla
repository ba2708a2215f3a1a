------------------------------ MODULE Coverage ------------------------------
(***************************************************************************)
(* Arithmetic of half-open date ranges [min, max), as used by              *)
(* moseby/db/repositories/_room_queries.py and _stay_queries.py.           *)
(***************************************************************************)
EXTENDS Integers, SequencesExt

DateRange(times) == {d \in [min : times, max : times] : d.min < d.max}

(* The moments a range contains, and the moments a set of ranges contains. *)
Moments(d) == d.min .. (d.max - 1)
MomentsOf(ds) == UNION {Moments(d) : d \in ds}

\* Mutant: only a stay that is there on arrival is in the way.
OverlapsInside(d, e) == d.min <= e.min /\ d.max > e.min

(* A stay may begin at the moment the preceding stay ends. *)
Overlaps(d, e) == d.min < e.max /\ d.max > e.min

(* The ranges as the query returns them; the order of ties is open.        *)
ByArrival(ds) ==
  CHOOSE s \in [1 .. Cardinality(ds) -> ds] :
    \A i, j \in DOMAIN s : i < j => s[i] # s[j] /\ s[i].min <= s[j].min

\* Mutant: a gap between two ranges is not noticed.
ExtendedOverGap(until, d) == IF d.max > until THEN d.max ELSE until

(* What is covered so far grows by a range that begins within it. *)
Extended(until, d) == IF d.min <= until /\ d.max > until THEN d.max ELSE until

(* How far the ranges cover without a gap from start on: once one begins   *)
(* after the covered part so do the rest, which is where the code leaves   *)
(* its loop.                                                               *)
Sweep(ds, start) ==
  LET s == ByArrival(ds)
      until[i \in 0 .. Cardinality(ds)] ==
        IF i = 0 THEN start ELSE Extended(until[i - 1], s[i])
  IN  until[Cardinality(ds)]

(* require_coverage does not raise. *)
Covers(ds, d) == Sweep(ds, d.min) >= d.max

(* Every arrival and departure, and the intervals between successive ones. *)
Boundaries(ds) == {d.min : d \in ds} \cup {d.max : d \in ds}

Spans(ds) ==
  LET B == Boundaries(ds) IN
  {p \in [min : B, max : B] :
     p.min < p.max /\ \A b \in B : b <= p.min \/ b >= p.max}

=============================================================================
