-------------------------------- MODULE Pages -------------------------------
(***************************************************************************)
(* Forward pages over rows that others keep adding to                      *)
(* (moseby/db/pagination.py).  A row is a record with the fields it is     *)
(* ordered by; a cursor is the last row of the page before.  The binding   *)
(* of a cursor to its query is left out.                                   *)
(***************************************************************************)
EXTENDS Integers, SequencesExt, FiniteSetsExt

NoCursor == [created |-> -1, id |-> -1]

(* Rows are ordered by creation time, then ID.                             *)
Before(r, s) == r.created < s.created \/ (r.created = s.created /\ r.id < s.id)

InOrder(rows) ==
  CHOOSE found \in [1 .. Cardinality(rows) -> rows] :
    \A i, j \in DOMAIN found : i < j => Before(found[i], found[j])

\* Mutant: rows of the same time are skipped.
LaterOnly(cursor, r) == cursor.created < r.created

(* The rows of a page come after the cursor.                               *)
Follows(cursor, r) == Before(cursor, r)

(* One row more than the limit decides whether another page follows.       *)
Page(rows, cursor, limit) ==
  LET found == InOrder({r \in rows : Follows(cursor, r)})
      items == SubSeq(found, 1, Min({limit, Len(found)}))
  IN  [items |-> items, next |-> IF Len(found) > limit THEN Last(items) ELSE NoCursor]

(* A reader who follows the cursors from the first page on.  "before" is   *)
(* what was there when the reading began.                                  *)
Opened(rows) == [before |-> rows, read |-> <<>>, cursor |-> NoCursor, ended |-> FALSE]

Continued(reading, rows, limit) ==
  LET page == Page(rows, reading.cursor, limit) IN
  [reading EXCEPT !.read = @ \o page.items, !.cursor = page.next,
                  !.ended = page.next = NoCursor]

(* Sequence numbers of one thread have no gaps: a page is a part of its    *)
(* history and the cursor its last position (0 where no page follows).     *)
\* Mutant: the row at the cursor is read again.
SequencePageFrom(history, cursor, limit) ==
  LET last == Min({cursor + limit, Len(history)}) IN
  [items |-> SubSeq(history, IF cursor = 0 THEN 1 ELSE cursor, last),
   next |-> IF Len(history) > cursor + limit THEN last ELSE 0]

SequencePage(history, cursor, limit) ==
  LET last == Min({cursor + limit, Len(history)}) IN
  [items |-> SubSeq(history, cursor + 1, last),
   next |-> IF Len(history) > cursor + limit THEN last ELSE 0]

ReadOnce(reading) == IsInjective(reading.read)
ReadAll(reading) == reading.ended => reading.before \subseteq ToSet(reading.read)

=============================================================================
