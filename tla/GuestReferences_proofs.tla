----------------------- MODULE GuestReferences_proofs -----------------------
(***************************************************************************)
(* Proofs about GuestReferences: a note, its classifier call and its       *)
(* decision record agree, whoever dies when; each note is classified for   *)
(* one attempt; and references are about the guests that were asked about. *)
(***************************************************************************)
EXTENDS GuestReferences, Facts, FiniteSetTheorems, TLAPS

-----------------------------------------------------------------------------
(* What every step keeps.                                                  *)

(* Until a note is settled its row is as it was saved.                     *)
PendingNotesAreUntouched ==
  \A n \in Saved(note) : note[n].status = "PENDING" => note[n].updated = note[n].created

(* Receipts, attempts and decision records are about notes that were saved.*)
RecordsAreAboutNotes ==
  /\ \A r \in Request : receipt[r] # None => note[receipt[r]] # None
  /\ \A a \in Attempt : attempt[a] # None => note[attempt[a].note] # None
  /\ \A i \in DOMAIN decisions : note[decisions[i].note] # None

(* Only an attempt with a frozen list of guests waits for an answer.       *)
WaitingHasAsked ==
  \A a \in Attempt : Asking(a) => attempt[a].asked # None

IInv ==
  /\ PendingNotesAreUntouched
  /\ RecordsAreAboutNotes
  /\ WaitingHasAsked
  /\ NotesAgreeWithTheirRecords
  /\ EachNoteIsAskedOnce
  /\ ReturnedNotesAreSettled

-----------------------------------------------------------------------------
(* Rows.                                                                   *)

Decision == [status : Status \ {"PENDING"}, guests : SUBSET Guest]
DecisionRow == [note : Note, status : Status \ {"PENDING"}]

(* Nothing saved is the sentinel. *)
LEMMA RowsThere ==
  /\ \A row \in NoteRow \cup AttemptRow : row # None
  /\ \A list \in [Guest -> Details \cup {None}] : list # None
  /\ \A n \in Note : n # None /\ n \in Nat
  /\ \A t \in Times : t \in Nat
BY GuestReferencesAssumption, NoRowAssumption

(* A classifier's answer about candidates, compared with the party of the  *)
(* moment, is a decision.                                                  *)
LEMMA DecisionType ==
  ASSUME NEW a \in Attempt, NEW answers \in Answers, NEW unclear \in BOOLEAN
  PROVE  /\ Settled(a, Resolve(answers, unclear)) \in Decision
         /\ Settled(a, Resolve(answers, unclear)).status \in {"RESOLVED", "AMBIGUOUS"}
<1>1. PICK S \in SUBSET Guest : answers \in [S -> {"no", "unclear", "yes"}]
  BY DEF Answers
<1>2. DOMAIN answers \subseteq Guest
  BY <1>1
<1>3. Resolve(answers, unclear) \in Decision
      /\ Resolve(answers, unclear).status \in {"RESOLVED", "AMBIGUOUS"}
  BY <1>2 DEF Resolve, Decision, Status
<1>4. QED
  BY <1>3 DEF Settled, Decision, Status

(* What Finish leaves: the note's row is settled, the others are untouched.*)
LEMMA Finished ==
  ASSUME RowsOK, IInv,
         NEW a \in Attempt, NEW decision \in Decision, NEW end, NEW now \in Times,
         Asking(a), Finish(a, decision, end, now)
  PROVE  LET n == attempt[a].note IN
         /\ n \in Note /\ note[n] \in NoteRow /\ note[n].status = "PENDING"
         /\ note[n].guests = {}
         /\ note' \in [Note -> NoteRow \cup {None}]
         /\ note'[n] \in NoteRow
         /\ note'[n].status = decision.status
         /\ note'[n].guests = decision.guests
         /\ note'[n].created = note[n].created
         /\ note'[n].updated = now
         /\ now > note[n].created
         /\ \A m \in Note : m # n => note'[m] = note[m]
<1> DEFINE n == attempt[a].note
<1>1. attempt[a] \in AttemptRow /\ n \in Note /\ note[n] # None
  BY DEF RowsOK, Asking, AttemptRow, IInv, RecordsAreAboutNotes
<1>2. note[n] \in NoteRow /\ n \in Saved(note)
  BY <1>1 DEF RowsOK, Saved
<1>3. note[n].status = "PENDING" /\ note[n].guests = {} /\ note[n].updated = note[n].created
  BY <1>2 DEF Finish, RowsOK, IInv, PendingNotesAreUntouched
<1>4. now > note[n].updated
  BY DEF Finish
<1> HIDE DEF n
<1>5. note' = [note EXCEPT ![n] = [note[n] EXCEPT !.status = decision.status,
                                   !.guests = decision.guests, !.updated = now]]
  BY <1>1, <1>2 DEF Finish, n, RowsOK
<1> DEFINE row == [note[n] EXCEPT !.status = decision.status,
                                  !.guests = decision.guests, !.updated = now]
<1>6. /\ row \in NoteRow /\ row.status = decision.status /\ row.guests = decision.guests
      /\ row.created = note[n].created /\ row.updated = now
  BY <1>2 DEF NoteRow, Decision
<1> HIDE DEF row
<1>7. note' = [note EXCEPT ![n] = row]
  BY <1>5 DEF row
<1>8. /\ note' \in [Note -> NoteRow \cup {None}] /\ note'[n] = row
      /\ \A m \in Note : m # n => note'[m] = note[m]
  BY <1>1, <1>6, <1>7 DEF RowsOK
<1>9. QED
  BY <1>1, <1>2, <1>3, <1>4, <1>6, <1>8 DEF n

-----------------------------------------------------------------------------
(* Type correctness.                                                       *)

(* No note, receipt or attempt: every variable is in its range. *)
LEMMA InitType == Init => RowsOK
<1> SUFFICES ASSUME Init PROVE RowsOK
  OBVIOUS
<1>1. guest \in [Guest -> Details \cup {None}]
  BY DEF Init
<1>2. decisions \in Seq([note : Note, status : Status \ {"PENDING"}])
  BY DEF Init
<1>3. QED
  BY <1>1, <1>2 DEF Init, RowsOK, Saved

(* Every decision record is one. *)
LEMMA DecisionRows ==
  RowsOK => /\ decisions \in Seq(DecisionRow)
            /\ \A i \in DOMAIN decisions : decisions[i] \in DecisionRow
<1> SUFFICES ASSUME RowsOK PROVE \A i \in DOMAIN decisions : decisions[i] \in DecisionRow
  BY DEF RowsOK, DecisionRow
<1>1. decisions \in Seq(DecisionRow)
  BY DEF RowsOK, DecisionRow
<1>2. QED
  BY <1>1, LenProperties, ElementOfSeq

(* Leaving the phase of waiting keeps what the attempt asked. *)
LEMMA Left ==
  ASSUME RowsOK, NEW a \in Attempt, attempt[a] # None,
         NEW phase \in {"asking", "answered", "gone"}, Leave(a, phase)
  PROVE  /\ attempt' \in [Attempt -> AttemptRow \cup {None}]
         /\ attempt'[a] \in AttemptRow
         /\ attempt'[a].phase = phase
         /\ attempt'[a].note = attempt[a].note
         /\ attempt'[a].asked = attempt[a].asked
         /\ \A b \in Attempt : b # a => attempt'[b] = attempt[b]
<1> DEFINE row == [attempt[a] EXCEPT !.phase = phase]
<1>1. attempt[a] \in AttemptRow /\ attempt \in [Attempt -> AttemptRow \cup {None}]
  BY DEF RowsOK
<1>2. /\ row \in AttemptRow /\ row.phase = phase /\ row.note = attempt[a].note
      /\ row.asked = attempt[a].asked
  BY <1>1 DEF AttemptRow
<1>3. attempt' = [attempt EXCEPT ![a] = row]
  BY <1>1 DEF Leave
<1> HIDE DEF row
<1>4. QED
  BY <1>1, <1>2, <1>3

(* A new attempt takes its place among the others. *)
LEMMA Entered ==
  ASSUME RowsOK, NEW a \in Attempt, NEW row \in AttemptRow,
         attempt' = [attempt EXCEPT ![a] = row]
  PROVE  /\ attempt' \in [Attempt -> AttemptRow \cup {None}]
         /\ attempt'[a] = row
         /\ \A b \in Attempt : b # a => attempt'[b] = attempt[b]
BY DEF RowsOK

(* The rows a step writes when a command is new. *)
LEMMA Prepared ==
  ASSUME RowsOK, NEW a \in Attempt, NEW r \in Request, NEW n \in Note, NEW now \in Times,
         Prepare(a, r, n, now)
  PROVE  /\ note'[n] = [status |-> "PENDING", guests |-> {}, created |-> now, updated |-> now]
         /\ note'[n] \in NoteRow
         /\ note' \in [Note -> NoteRow \cup {None}]
         /\ \A m \in Note : m # n => note'[m] = note[m]
         /\ receipt'[r] = n /\ \A q \in Request : q # r => receipt'[q] = receipt[q]
         /\ receipt' \in [Request -> Note \cup {None}]
         /\ attempt'[a] = [phase |-> "asking", note |-> n, asked |-> guest]
         /\ attempt'[a] \in AttemptRow
         /\ attempt' \in [Attempt -> AttemptRow \cup {None}]
         /\ \A b \in Attempt : b # a => attempt'[b] = attempt[b]
<1> DEFINE row == [phase |-> "asking", note |-> n, asked |-> guest]
           new == [status |-> "PENDING", guests |-> {}, created |-> now, updated |-> now]
<1>1. row \in AttemptRow /\ new \in NoteRow
  BY DEF RowsOK, AttemptRow, NoteRow, Status
<1>2. attempt' = [attempt EXCEPT ![a] = row] /\ note' = [note EXCEPT ![n] = new]
      /\ receipt' = [receipt EXCEPT ![r] = n]
  BY DEF Prepare
<1> HIDE DEF row, new
<1>3. /\ attempt' \in [Attempt -> AttemptRow \cup {None}] /\ attempt'[a] = row
      /\ \A b \in Attempt : b # a => attempt'[b] = attempt[b]
  BY <1>1, <1>2, Entered
<1>4. /\ note' \in [Note -> NoteRow \cup {None}] /\ note'[n] = new
      /\ \A m \in Note : m # n => note'[m] = note[m]
  BY <1>1, <1>2 DEF RowsOK
<1>5. /\ receipt'[r] = n /\ \A q \in Request : q # r => receipt'[q] = receipt[q]
      /\ receipt' \in [Request -> Note \cup {None}]
  BY <1>2 DEF RowsOK
<1>6. QED
  BY <1>1, <1>3, <1>4, <1>5 DEF row, new

(* The attempt that finds a receipt. *)
LEMMA Repeated ==
  ASSUME RowsOK, NEW a \in Attempt, NEW r \in Request, Repeat(a, r)
  PROVE  /\ receipt[r] \in Note
         /\ attempt'[a] \in AttemptRow
         /\ attempt'[a].note = receipt[r] /\ attempt'[a].asked = None
         /\ attempt'[a].phase = IF note[receipt[r]].status = "PENDING" THEN "gone" ELSE "answered"
         /\ attempt' \in [Attempt -> AttemptRow \cup {None}]
         /\ \A b \in Attempt : b # a => attempt'[b] = attempt[b]
<1> DEFINE phase == IF note[receipt[r]].status = "PENDING" THEN "gone" ELSE "answered"
           row == [phase |-> phase, note |-> receipt[r], asked |-> None]
<1>1. receipt[r] \in Note /\ phase \in {"gone", "answered"}
  BY DEF Repeat, RowsOK
<1>2. attempt' = [attempt EXCEPT ![a] = row]
  BY DEF Repeat
<1> HIDE DEF phase
<1>3. row \in AttemptRow
  BY <1>1 DEF AttemptRow
<1>4. /\ attempt' \in [Attempt -> AttemptRow \cup {None}] /\ attempt'[a] = row
      /\ \A b \in Attempt : b # a => attempt'[b] = attempt[b]
  BY <1>2, <1>3, Entered
<1>5. QED
  BY <1>1, <1>3, <1>4 DEF phase

-----------------------------------------------------------------------------
(* Each action keeps the invariant.                                        *)

(* Saving a note. *)
LEMMA PrepareKeeps ==
  ASSUME RowsOK, IInv, NEW a \in Attempt, NEW r \in Request, NEW n \in Note,
         NEW now \in Times, Prepare(a, r, n, now)
  PROVE  RowsOK' /\ IInv'
<1> USE RowsThere
<1>0. /\ note'[n] = [status |-> "PENDING", guests |-> {}, created |-> now, updated |-> now]
      /\ note'[n] \in NoteRow
      /\ note' \in [Note -> NoteRow \cup {None}]
      /\ \A m \in Note : m # n => note'[m] = note[m]
      /\ receipt'[r] = n /\ \A q \in Request : q # r => receipt'[q] = receipt[q]
      /\ receipt' \in [Request -> Note \cup {None}]
      /\ attempt'[a] = [phase |-> "asking", note |-> n, asked |-> guest]
      /\ attempt'[a] \in AttemptRow
      /\ attempt' \in [Attempt -> AttemptRow \cup {None}]
      /\ \A b \in Attempt : b # a => attempt'[b] = attempt[b]
  BY Prepared
<1> USE <1>0
<1>1. /\ attempt[a] = None /\ receipt[r] = None /\ note[n] = None
      /\ inference' = [inference EXCEPT ![n] = "STARTED"]
      /\ UNCHANGED <<guest, decisions, reading>>
  BY DEF Prepare
<1>2. \A m \in Saved(note) : m \in Note /\ m # n /\ note'[m] = note[m] /\ m \in Saved(note')
  BY <1>1 DEF Saved, RowsOK
<1>3. \A m \in Saved(note') : m = n \/ m \in Saved(note)
  BY DEF Saved, RowsOK
<1>4. RowsOK'
  <2>1. inference' \in [Note -> {"STARTED", "SUCCEEDED", "FAILED", None}]
    BY <1>1 DEF RowsOK
  <2>2. \A m \in Saved(note') :
          /\ note'[m].status \in {"PENDING", "FAILED"} => note'[m].guests = {}
          /\ note'[m].updated > note'[m].created \/ note'[m].status = "PENDING"
    BY <1>2, <1>3 DEF RowsOK
  <2>3. QED
    BY <1>1, <2>1, <2>2 DEF RowsOK
<1>5. PendingNotesAreUntouched'
  BY <1>2, <1>3 DEF IInv, PendingNotesAreUntouched
<1>6. RecordsAreAboutNotes'
  <2>0. note'[n] # None /\ \A m \in Note : note[m] # None => note'[m] # None
    BY <1>1
  <2>1. \A q \in Request : receipt'[q] # None => note'[receipt'[q]] # None
    <3>1. \A q \in Request : receipt[q] # None => receipt[q] \in Note
      BY DEF RowsOK
    <3>2. QED
      BY <2>0, <3>1 DEF IInv, RecordsAreAboutNotes
  <2>2. \A b \in Attempt : attempt'[b] # None => note'[attempt'[b].note] # None
    <3>1. \A b \in Attempt : attempt[b] # None => attempt[b].note \in Note
      BY DEF RowsOK, AttemptRow
    <3>2. QED
      BY <2>0, <3>1 DEF IInv, RecordsAreAboutNotes
  <2>3. \A i \in DOMAIN decisions : note'[decisions[i].note] # None
    <3>1. \A i \in DOMAIN decisions : decisions[i].note \in Note
      BY DecisionRows DEF DecisionRow
    <3>2. QED
      BY <1>1, <3>1 DEF IInv, RecordsAreAboutNotes
  <2>4. QED
    BY <1>1, <2>1, <2>2, <2>3 DEF RecordsAreAboutNotes
<1>7. WaitingHasAsked'
  <2>1. guest # None
    BY DEF RowsOK
  <2>2. QED
    BY <2>1 DEF WaitingHasAsked, Asking, IInv
<1>8. NotesAgreeWithTheirRecords'
  <2>1. inference'[n] = "STARTED" /\ \A m \in Note : m # n => inference'[m] = inference[m]
    BY <1>1 DEF RowsOK
  <2>2. DecisionsOf(n) = {}
    BY <1>1 DEF DecisionsOf, IInv, RecordsAreAboutNotes
  <2>3. \A m : DecisionsOf(m)' = DecisionsOf(m)
    BY <1>1 DEF DecisionsOf
  <2>4. QED
    BY <1>1, <1>2, <1>3, <2>1, <2>2, <2>3
       DEF NotesAgreeWithTheirRecords, CallEndsAs, IInv
<1>9. EachNoteIsAskedOnce'
  <2>1. \A b \in Attempt : attempt[b] # None => attempt[b].note # n
    BY <1>1 DEF IInv, RecordsAreAboutNotes
  <2>2. \A b \in Saved(attempt') : b \in Attempt /\ (b # a => b \in Saved(attempt))
    BY DEF Saved, RowsOK
  <2>3. \A b \in Saved(attempt') : b # a => attempt'[b] = attempt[b] /\ attempt'[b].note # n
    BY <2>1, <2>2 DEF Saved
  <2>4. attempt'[a].note = n
    OBVIOUS
  <2>5. QED
    BY <2>2, <2>3, <2>4 DEF EachNoteIsAskedOnce, IInv
<1>10. ReturnedNotesAreSettled'
  <2>1. \A b \in Saved(attempt') : b \in Attempt /\ (b # a => b \in Saved(attempt))
    BY DEF Saved, RowsOK
  <2>2. \A b \in Saved(attempt) : note'[attempt[b].note] = note[attempt[b].note]
    <3>1. \A b \in Saved(attempt) : attempt[b].note \in Note /\ attempt[b].note # n
      BY <1>1 DEF Saved, RowsOK, AttemptRow, IInv, RecordsAreAboutNotes
    <3>2. QED
      BY <3>1
  <2>3. QED
    BY <2>1, <2>2 DEF ReturnedNotesAreSettled, IInv
<1>11. QED
  BY <1>4, <1>5, <1>6, <1>7, <1>8, <1>9, <1>10 DEF IInv

(* Repeating a command. *)
LEMMA RepeatKeeps ==
  ASSUME RowsOK, IInv, NEW a \in Attempt, NEW r \in Request, Repeat(a, r)
  PROVE  RowsOK' /\ IInv'
<1> USE Repeated, RowsThere
<1>1. /\ attempt[a] = None /\ receipt[r] # None
      /\ UNCHANGED <<guest, note, receipt, inference, decisions, reading>>
  BY DEF Repeat
<1>2. RowsOK'
  BY <1>1 DEF RowsOK
<1>3. note[receipt[r]] # None
  BY <1>1 DEF IInv, RecordsAreAboutNotes
<1>4. \A b \in Saved(attempt') : b \in Attempt /\ (b # a => b \in Saved(attempt))
  BY DEF Saved, RowsOK
<1>5. PendingNotesAreUntouched' /\ NotesAgreeWithTheirRecords'
  BY <1>1 DEF IInv, PendingNotesAreUntouched, NotesAgreeWithTheirRecords, DecisionsOf
<1>6. RecordsAreAboutNotes'
  BY <1>1, <1>3 DEF IInv, RecordsAreAboutNotes
<1>7. WaitingHasAsked'
  BY DEF IInv, WaitingHasAsked, Asking
<1>8. EachNoteIsAskedOnce'
  BY <1>4 DEF IInv, EachNoteIsAskedOnce
<1>9. ReturnedNotesAreSettled'
  BY <1>1, <1>4 DEF IInv, ReturnedNotesAreSettled
<1>10. QED
  BY <1>2, <1>5, <1>6, <1>7, <1>8, <1>9 DEF IInv

(* A note is settled with the call and the record. *)
LEMMA FinishKeeps ==
  ASSUME RowsOK, IInv,
         NEW a \in Attempt, NEW decision \in Decision, NEW now \in Times,
         NEW phase \in {"answered", "gone"}, Asking(a), Leave(a, phase),
         Finish(a, decision, CallEndsAs(decision.status), now),
         decision.status = "FAILED" => decision.guests = {}
  PROVE  RowsOK' /\ IInv'
<1> DEFINE end == CallEndsAs(decision.status)
<1>1. attempt[a] # None /\ attempt[a] \in AttemptRow
  BY DEF Asking, RowsOK
<1>0. PICK n \in Note : n = attempt[a].note
  BY Finished
<1>2. /\ n \in Note /\ note[n] \in NoteRow /\ note[n].status = "PENDING"
      /\ note' \in [Note -> NoteRow \cup {None}]
      /\ note'[n] \in NoteRow
      /\ note'[n].status = decision.status
      /\ note'[n].guests = decision.guests
      /\ note'[n].created = note[n].created
      /\ note'[n].updated = now
      /\ now > note[n].created
      /\ \A m \in Note : m # n => note'[m] = note[m]
  BY <1>0, Finished
<1>3. /\ attempt' \in [Attempt -> AttemptRow \cup {None}]
      /\ attempt'[a] \in AttemptRow
      /\ attempt'[a].phase = phase
      /\ attempt'[a].note = attempt[a].note
      /\ attempt'[a].asked = attempt[a].asked
      /\ \A b \in Attempt : b # a => attempt'[b] = attempt[b]
  BY <1>1, Left
<1>4. /\ inference' = [inference EXCEPT ![n] = end]
      /\ decisions' = Append(decisions, [note |-> n, status |-> decision.status])
      /\ UNCHANGED <<guest, receipt, reading>>
  BY <1>0 DEF Finish
<1>5. /\ decision.status \in Status \ {"PENDING"} /\ end \in {"SUCCEEDED", "FAILED"}
      /\ [note |-> n, status |-> decision.status] \in DecisionRow
  BY <1>2 DEF Decision, Status, CallEndsAs, DecisionRow
<1> HIDE DEF end
<1>6. decisions \in Seq(DecisionRow)
  BY DEF RowsOK, DecisionRow
<1>7. /\ decisions' \in Seq(DecisionRow)
      /\ DOMAIN decisions = 1 .. Len(decisions) /\ Len(decisions) \in Nat
      /\ DOMAIN decisions' = 1 .. (Len(decisions) + 1)
      /\ \A i \in DOMAIN decisions : decisions'[i] = decisions[i]
      /\ decisions'[Len(decisions) + 1] = [note |-> n, status |-> decision.status]
  BY <1>4, <1>5, <1>6, AppendProperties, LenProperties
<1>8. Saved(note') = Saved(note) /\ Saved(note) \subseteq Note /\ n \in Saved(note)
  BY <1>2, RowsThere DEF Saved, RowsOK
<1>9. Saved(attempt') = Saved(attempt) /\ Saved(attempt) \subseteq Attempt
  BY <1>1, <1>3, RowsThere DEF Saved, RowsOK
<1>10. \A b \in Attempt : attempt'[b].note = attempt[b].note /\ attempt'[b].asked = attempt[b].asked
  BY <1>3
<1>11. RowsOK'
  <2>1. inference' \in [Note -> {"STARTED", "SUCCEEDED", "FAILED", None}]
    BY <1>2, <1>4, <1>5 DEF RowsOK
  <2>2. \A m \in Saved(note') :
          /\ note'[m].status \in {"PENDING", "FAILED"} => note'[m].guests = {}
          /\ note'[m].updated > note'[m].created \/ note'[m].status = "PENDING"
    BY <1>2, <1>5, <1>8 DEF RowsOK
  <2>3. QED
    BY <1>2, <1>3, <1>4, <1>7, <2>1, <2>2 DEF RowsOK, DecisionRow
<1>12. PendingNotesAreUntouched'
  BY <1>2, <1>5, <1>8 DEF IInv, PendingNotesAreUntouched
<1>13. RecordsAreAboutNotes'
  <2>1. \A m \in Note : note[m] # None => note'[m] # None
    BY <1>2, RowsThere
  <2>2. \A q \in Request : receipt'[q] # None => note'[receipt'[q]] # None
    BY <1>4, <2>1 DEF IInv, RecordsAreAboutNotes, RowsOK
  <2>3. \A b \in Attempt : attempt'[b] # None => note'[attempt'[b].note] # None
    <3>1. \A b \in Attempt : attempt[b] # None => attempt[b].note \in Note
      BY DEF RowsOK, AttemptRow
    <3>2. \A b \in Attempt : attempt'[b] # None => attempt[b] # None
      BY <1>1, <1>3
    <3>3. QED
      BY <1>10, <2>1, <3>1, <3>2 DEF IInv, RecordsAreAboutNotes
  <2>4. \A i \in DOMAIN decisions' : note'[decisions'[i].note] # None
    <3>1. \A i \in DOMAIN decisions : decisions[i].note \in Note
      BY DecisionRows DEF DecisionRow
    <3>2. note'[n] # None
      BY <1>2, RowsThere
    <3>3. QED
      BY <1>7, <2>1, <3>1, <3>2 DEF IInv, RecordsAreAboutNotes
  <2>5. QED
    BY <2>2, <2>3, <2>4 DEF RecordsAreAboutNotes
<1>14. WaitingHasAsked'
  BY <1>3 DEF IInv, WaitingHasAsked, Asking
<1>15. NotesAgreeWithTheirRecords'
  <2>1. inference'[n] = end /\ \A m \in Note : m # n => inference'[m] = inference[m]
    BY <1>2, <1>4 DEF RowsOK
  <2>2. \A m : m # n => DecisionsOf(m)' = DecisionsOf(m)
    BY <1>7 DEF DecisionsOf
  <2>3. DecisionsOf(n) = {}
    BY <1>2, <1>8 DEF IInv, NotesAgreeWithTheirRecords
  <2>4. DecisionsOf(n)' = {Len(decisions) + 1}
    <3>1. /\ decisions'[Len(decisions) + 1].note = n
          /\ \A i \in DOMAIN decisions : decisions'[i].note # n
      BY <1>7, <2>3 DEF DecisionsOf
    <3>2. \A i \in DOMAIN decisions' : i \in DOMAIN decisions \/ i = Len(decisions) + 1
      BY <1>7
    <3>3. Len(decisions) + 1 \in DOMAIN decisions'
      BY <1>7
    <3>4. QED
      BY <3>1, <3>2, <3>3 DEF DecisionsOf
  <2>5. \A m \in Saved(note) : m # n =>
          /\ inference'[m] = CallEndsAs(note'[m].status)
          /\ IF note'[m].status = "PENDING" THEN DecisionsOf(m)' = {}
             ELSE \E i \in DOMAIN decisions' :
                    DecisionsOf(m)' = {i} /\ decisions'[i].status = note'[m].status
    BY <1>2, <1>7, <1>8, <2>1, <2>2 DEF IInv, NotesAgreeWithTheirRecords
  <2>6. /\ inference'[n] = CallEndsAs(note'[n].status) /\ note'[n].status # "PENDING"
        /\ \E i \in DOMAIN decisions' :
             DecisionsOf(n)' = {i} /\ decisions'[i].status = note'[n].status
    BY <1>2, <1>5, <1>7, <2>1, <2>4 DEF end
  <2>7. \A m \in Saved(note) :
          /\ inference'[m] = CallEndsAs(note'[m].status)
          /\ IF note'[m].status = "PENDING" THEN DecisionsOf(m)' = {}
             ELSE \E i \in DOMAIN decisions' :
                    DecisionsOf(m)' = {i} /\ decisions'[i].status = note'[m].status
    BY <2>5, <2>6
  <2>8. QED
    BY <1>8, <2>7 DEF NotesAgreeWithTheirRecords, DecisionsOf
<1>16. EachNoteIsAskedOnce'
  BY <1>9, <1>10 DEF IInv, EachNoteIsAskedOnce
<1>17. ReturnedNotesAreSettled'
  <2>1. \A m \in Note : note[m].status # "PENDING" => note'[m].status # "PENDING"
    BY <1>2, <1>5
  <2>2. \A b \in Saved(attempt) : attempt[b].note \in Note
    BY DEF Saved, RowsOK, AttemptRow
  <2>3. attempt[a].note = n /\ note'[n].status # "PENDING"
    BY <1>0, <1>2, <1>5
  <2>4. QED
    BY <1>3, <1>9, <2>1, <2>2, <2>3 DEF IInv, ReturnedNotesAreSettled
<1>18. QED
  BY <1>11, <1>12, <1>13, <1>14, <1>15, <1>16, <1>17 DEF IInv

(* An attempt gives up. *)
LEMMA AbandonKeeps ==
  ASSUME RowsOK, IInv, NEW a \in Attempt, Abandon(a)
  PROVE  RowsOK' /\ IInv'
<1>1. /\ Asking(a) /\ Leave(a, "gone") /\ attempt[a] # None /\ attempt[a].phase = "asking"
      /\ UNCHANGED <<guest, note, receipt, inference, decisions, reading>>
  BY DEF Abandon, Asking
<1>2. /\ attempt' \in [Attempt -> AttemptRow \cup {None}]
      /\ attempt'[a] \in AttemptRow
      /\ attempt'[a].phase = "gone"
      /\ attempt'[a].note = attempt[a].note
      /\ attempt'[a].asked = attempt[a].asked
      /\ \A b \in Attempt : b # a => attempt'[b] = attempt[b]
  BY <1>1, Left
<1>3. Saved(attempt') = Saved(attempt) /\ Saved(attempt) \subseteq Attempt
  BY <1>1, <1>2, RowsThere DEF Saved, RowsOK
<1>4. RowsOK'
  BY <1>1, <1>2 DEF RowsOK
<1>5. PendingNotesAreUntouched' /\ NotesAgreeWithTheirRecords'
  BY <1>1 DEF IInv, PendingNotesAreUntouched, NotesAgreeWithTheirRecords, DecisionsOf
<1>6. RecordsAreAboutNotes' /\ WaitingHasAsked'
  BY <1>1, <1>2 DEF IInv, RecordsAreAboutNotes, WaitingHasAsked, Asking
<1>7. EachNoteIsAskedOnce' /\ ReturnedNotesAreSettled'
  BY <1>1, <1>2, <1>3 DEF IInv, EachNoteIsAskedOnce, ReturnedNotesAreSettled
<1>8. QED
  BY <1>4, <1>5, <1>6, <1>7 DEF IInv

(* Only the party changes, or only the reader. *)
LEMMA PartyKeeps ==
  ASSUME RowsOK, IInv, guest' \in [Guest -> Details \cup {None}],
         UNCHANGED <<note, receipt, inference, decisions, attempt>>
  PROVE  RowsOK' /\ IInv'
BY DEF RowsOK, IInv, PendingNotesAreUntouched, RecordsAreAboutNotes, WaitingHasAsked, Asking,
       NotesAgreeWithTheirRecords, DecisionsOf, EachNoteIsAskedOnce, ReturnedNotesAreSettled

(* The two ways of settling a note, and that Finish is what they have in   *)
(* common.                                                                 *)
LEMMA SettleFinishes ==
  ASSUME RowsOK, NEW a \in Attempt, NEW now \in Times, Settle(a, now) \/ SettleFailed(a, now)
  PROVE  /\ Asking(a)
         /\ \E decision \in Decision, phase \in {"answered", "gone"} :
              /\ Finish(a, decision, CallEndsAs(decision.status), now)
              /\ Leave(a, phase)
              /\ decision.status = "FAILED" => decision.guests = {}
              /\ decision.guests # {} => guest = attempt[a].asked
<1>1. CASE Settle(a, now)
  <2>1. Asking(a) /\ Leave(a, "answered")
    BY <1>1 DEF Settle
  <2>2. PICK answers \in Answers, unclear \in BOOLEAN :
          Finish(a, Settled(a, Resolve(answers, unclear)), "SUCCEEDED", now)
    BY <1>1 DEF Settle
  <2>3. PICK decision : decision = Settled(a, Resolve(answers, unclear))
    OBVIOUS
  <2>4. decision \in Decision /\ decision.status \in {"RESOLVED", "AMBIGUOUS"}
    BY <2>3, DecisionType
  <2>5. decision.guests # {} => guest = attempt[a].asked
    BY <2>3 DEF Settled
  <2>6. CallEndsAs(decision.status) = "SUCCEEDED"
    BY <2>4 DEF CallEndsAs
  <2>7. Finish(a, decision, CallEndsAs(decision.status), now)
    BY <2>2, <2>3, <2>6
  <2>8. QED
    BY <2>1, <2>4, <2>5, <2>7
<1>2. CASE SettleFailed(a, now)
  <2>1. PICK decision : decision = [status |-> "FAILED", guests |-> {}]
    OBVIOUS
  <2>2. decision \in Decision /\ decision.guests = {} /\ CallEndsAs(decision.status) = "FAILED"
    BY <2>1 DEF Decision, Status, CallEndsAs
  <2>3. /\ Asking(a) /\ Finish(a, decision, CallEndsAs(decision.status), now)
        /\ Leave(a, "answered") \/ Leave(a, "gone")
    BY <1>2, <2>1, <2>2 DEF SettleFailed
  <2>4. QED
    BY <2>2, <2>3
<1>3. QED
  BY <1>1, <1>2

(* Nothing is saved: the invariant holds. *)
LEMMA InitIInv == Init => IInv
BY RowsThere DEF Init, IInv, PendingNotesAreUntouched, RecordsAreAboutNotes, WaitingHasAsked,
                 Asking, NotesAgreeWithTheirRecords, EachNoteIsAskedOnce,
                 ReturnedNotesAreSettled, Saved

(* A step, whoever takes it, keeps the invariant. *)
LEMMA StepInv ==
  ASSUME RowsOK, IInv, [Next]_vars
  PROVE  RowsOK' /\ IInv'
<1>1. ASSUME NEW a \in Attempt, NEW r \in Request, NEW n \in Note, NEW now \in Times,
             Prepare(a, r, n, now)
      PROVE  RowsOK' /\ IInv'
  BY <1>1, PrepareKeeps
<1>2. ASSUME NEW a \in Attempt, NEW r \in Request, Repeat(a, r)
      PROVE  RowsOK' /\ IInv'
  BY <1>2, RepeatKeeps
<1>3. ASSUME NEW a \in Attempt, NEW now \in Times, Settle(a, now) \/ SettleFailed(a, now)
      PROVE  RowsOK' /\ IInv'
  <2>1. PICK decision \in Decision, phase \in {"answered", "gone"} :
          /\ Finish(a, decision, CallEndsAs(decision.status), now)
          /\ Leave(a, phase)
          /\ decision.status = "FAILED" => decision.guests = {}
    BY <1>3, SettleFinishes
  <2>2. Asking(a)
    BY <1>3, SettleFinishes
  <2>3. QED
    BY <2>1, <2>2, FinishKeeps
<1>4. ASSUME NEW a \in Attempt, Abandon(a)
      PROVE  RowsOK' /\ IInv'
  BY <1>4, AbandonKeeps
<1>5. ASSUME NEW g \in Guest, NEW d \in Details, EditGuest(g, d) \/ AddGuest(g, d)
      PROVE  RowsOK' /\ IInv'
  <2>1. guest' \in [Guest -> Details \cup {None}]
    BY <1>5 DEF RowsOK, EditGuest, AddGuest
  <2>2. UNCHANGED <<note, receipt, inference, decisions, attempt>>
    BY <1>5 DEF EditGuest, AddGuest
  <2>3. QED
    BY <2>1, <2>2, PartyKeeps
<1>6. ASSUME OpenNotes \/ ReadNotes \/ UNCHANGED vars
      PROVE  RowsOK' /\ IInv'
  <2>1. UNCHANGED <<guest, note, receipt, inference, decisions, attempt>>
    BY <1>6 DEF OpenNotes, ReadNotes, vars
  <2>2. guest' \in [Guest -> Details \cup {None}]
    BY <2>1 DEF RowsOK
  <2>3. QED
    BY <2>1, <2>2, PartyKeeps
<1>7. QED
  BY <1>1, <1>2, <1>3, <1>4, <1>5, <1>6 DEF Next

(* The invariant holds throughout. *)
LEMMA Invariance == Spec => [](RowsOK /\ IInv)
<1>1. Init => RowsOK /\ IInv
  BY InitType, InitIInv
<1>2. (RowsOK /\ IInv) /\ [Next]_vars => (RowsOK /\ IInv)'
  BY StepInv
<1>3. QED
  BY <1>1, <1>2, PTL DEF Spec

(* A note, its classifier call and its decision record never disagree,     *)
(* for any number of notes, attempts and guests (_prepare, _finish).       *)
THEOREM NotesAndRecordsAgree == Spec => []NotesAgreeWithTheirRecords
<1>1. IInv => NotesAgreeWithTheirRecords
  BY DEF IInv
<1>2. QED
  BY <1>1, Invariance, PTL

(* However often a command is repeated, one attempt asks about its note    *)
(* (_prepare).                                                             *)
THEOREM AskedOnce == Spec => []EachNoteIsAskedOnce
<1>1. IInv => EachNoteIsAskedOnce
  BY DEF IInv
<1>2. QED
  BY <1>1, Invariance, PTL

(* No attempt returns a note whose references are still pending (record).  *)
THEOREM ReturnedAreSettled == Spec => []ReturnedNotesAreSettled
<1>1. IInv => ReturnedNotesAreSettled
  BY DEF IInv
<1>2. QED
  BY <1>1, Invariance, PTL

(* A step that changes whom a note refers to is the answer to a question   *)
(* about exactly the guests of the moment (_finish).                       *)
LEMMA StepReferences ==
  ASSUME RowsOK, IInv, [Next]_vars
  PROVE  \A n \in Saved(note) : note'[n].guests # note[n].guests =>
           \E a \in Attempt : Asking(a) /\ attempt[a].note = n /\ attempt[a].asked = guest'
<1> SUFFICES ASSUME NEW n \in Saved(note), note'[n].guests # note[n].guests
             PROVE  \E a \in Attempt :
                      Asking(a) /\ attempt[a].note = n /\ attempt[a].asked = guest'
  OBVIOUS
<1>1. n \in Note /\ note[n] # None
  BY DEF Saved, RowsOK
<1>2. ASSUME NEW a \in Attempt, NEW r \in Request, NEW m \in Note, NEW now \in Times,
             Prepare(a, r, m, now)
      PROVE  FALSE
  <2>1. note[m] = None
    BY <1>2 DEF Prepare
  <2>2. \A k \in Note : k # m => note'[k] = note[k]
    BY <1>2 DEF Prepare, RowsOK
  <2>3. QED
    BY <1>1, <2>1, <2>2
<1>3. CASE UNCHANGED note
  BY <1>3
<1>4. ASSUME NEW a \in Attempt, NEW now \in Times, Settle(a, now) \/ SettleFailed(a, now)
      PROVE  Asking(a) /\ attempt[a].note = n /\ attempt[a].asked = guest'
  <2>1. PICK decision \in Decision, phase \in {"answered", "gone"} :
          /\ Finish(a, decision, CallEndsAs(decision.status), now)
          /\ decision.guests # {} => guest = attempt[a].asked
    BY <1>4, SettleFinishes
  <2>2. Asking(a)
    BY <1>4, SettleFinishes
  <2>3. /\ note[attempt[a].note].guests = {}
        /\ note'[attempt[a].note].guests = decision.guests
        /\ \A m \in Note : m # attempt[a].note => note'[m] = note[m]
    BY <2>1, <2>2, Finished
  <2>4. attempt[a].note = n /\ decision.guests # {}
    BY <1>1, <2>3
  <2>5. guest' = guest
    BY <2>1 DEF Finish
  <2>6. QED
    BY <2>1, <2>2, <2>4, <2>5
<1>5. QED
  BY <1>2, <1>3, <1>4 DEF Next, vars, Repeat, Abandon, EditGuest, AddGuest, OpenNotes, ReadNotes

(* Nobody who joined or was renamed after the question is attached to a    *)
(* note, and nobody is attached on an outdated answer (_finish).           *)
THEOREM ReferencesAreSafe == Spec => ReferencesAreAboutTheAsked
<1>1. RowsOK /\ IInv /\ [Next]_vars =>
        [\A n \in Saved(note) : note'[n].guests # note[n].guests =>
           \E a \in Attempt : Asking(a) /\ attempt[a].note = n /\ attempt[a].asked = guest']_vars
  BY StepReferences
<1>2. QED
  BY <1>1, Invariance, PTL DEF Spec, ReferencesAreAboutTheAsked

-----------------------------------------------------------------------------
(* Rows in order.                                                          *)

Sorts(found, rows) ==
  /\ found \in [1 .. Cardinality(rows) -> rows]
  /\ \A i, j \in DOMAIN found : i < j => Before(found[i], found[j])

(* The order of rows is total and strict. *)
LEMMA BeforeIsAnOrder ==
  /\ \A r \in Row : ~Before(r, r)
  /\ \A r, s \in Row : r # s => Before(r, s) \/ Before(s, r)
  /\ \A r, s, t \in Row : Before(r, s) /\ Before(s, t) => Before(r, t)
BY RowsThere DEF Before, Row

(* Any rows have a first one. *)
LEMMA FirstRow ==
  ASSUME NEW rows \in SUBSET Row, rows # {}
  PROVE  \E r \in rows : \A s \in rows : s # r => Before(r, s)
<1>1. PICK c \in {r.created : r \in rows} : \A d \in {r.created : r \in rows} : c <= d
  <2>1. {r.created : r \in rows} \subseteq Nat /\ {r.created : r \in rows} # {}
    BY RowsThere DEF Row
  <2>2. QED
    BY <2>1, LeastNumber
<1> DEFINE earliest == {r \in rows : r.created = c}
<1>2. PICK k \in {r.id : r \in earliest} : \A l \in {r.id : r \in earliest} : k <= l
  <2>1. {r.id : r \in earliest} \subseteq Nat /\ {r.id : r \in earliest} # {}
    BY <1>1, RowsThere DEF Row
  <2>2. QED
    BY <2>1, LeastNumber
<1>3. PICK r \in earliest : r.id = k
  BY <1>2
<1>4. ASSUME NEW s \in rows, s # r PROVE Before(r, s)
  <2>1. s \in Row /\ r \in Row /\ r.created = c /\ c <= s.created
    BY <1>1
  <2>2. s.created = c => k <= s.id
    BY <1>2
  <2>3. s.created = r.created => s.id # r.id
    BY <1>4, <2>1 DEF Row
  <2>4. QED
    BY <1>3, <2>1, <2>2, <2>3, RowsThere DEF Before, Row
<1>5. QED
  BY <1>3, <1>4

(* Putting the first row in front of the others, sorted, sorts all.        *)
LEMMA FirstThenSorted ==
  ASSUME NEW rows \in SUBSET Row, IsFiniteSet(rows), NEW r \in rows,
         \A s \in rows : s # r => Before(r, s),
         NEW rest, Sorts(rest, rows \ {r})
  PROVE  \E found : Sorts(found, rows)
<1> DEFINE n == Cardinality(rows)
           found == [i \in 1 .. n |-> IF i = 1 THEN r ELSE rest[i - 1]]
<1>1. n \in Nat /\ Cardinality(rows \ {r}) = n - 1
  BY FS_RemoveElement, FS_CardinalityType
<1> HIDE DEF n
<1>2. /\ rest \in [1 .. n - 1 -> rows \ {r}]
      /\ \A i, j \in 1 .. n - 1 : i < j => Before(rest[i], rest[j])
  BY <1>1 DEF Sorts
<1>3. found \in [1 .. n -> rows]
  BY <1>1, <1>2
<1>4. \A i, j \in 1 .. n : i < j => Before(found[i], found[j])
  <2> SUFFICES ASSUME NEW i \in 1 .. n, NEW j \in 1 .. n, i < j
               PROVE  Before(found[i], found[j])
    OBVIOUS
  <2>1. j - 1 \in 1 .. n - 1 /\ found[j] = rest[j - 1]
    BY <1>1
  <2>2. CASE i = 1
    BY <1>2, <2>1, <2>2
  <2>3. CASE i # 1
    <3>1. i - 1 \in 1 .. n - 1 /\ found[i] = rest[i - 1] /\ i - 1 < j - 1
      BY <1>1, <2>3
    <3>2. QED
      BY <1>2, <2>1, <3>1
  <2>4. QED
    BY <2>2, <2>3
<1>5. DOMAIN found = 1 .. n
  OBVIOUS
<1> HIDE DEF found
<1>6. QED
  BY <1>3, <1>4, <1>5 DEF Sorts, n

(* Rows, as many as there are, can be sorted. *)
LEMMA SortExists ==
  ASSUME NEW rows \in SUBSET Row, IsFiniteSet(rows)
  PROVE  \E found : Sorts(found, rows)
<1> DEFINE Sizes == {n \in Nat : \E some \in SUBSET Row :
                        /\ IsFiniteSet(some) /\ Cardinality(some) = n
                        /\ ~ \E found : Sorts(found, some)}
<1>1. Sizes = {}
  <2> SUFFICES ASSUME Sizes # {} PROVE FALSE
    OBVIOUS
  <2>1. PICK n \in Sizes : \A m \in Sizes : n <= m
    <3>1. Sizes \subseteq Nat
      OBVIOUS
    <3> HIDE DEF Sizes
    <3>2. QED
      BY <3>1, LeastNumber
  <2>2. PICK some \in SUBSET Row : /\ IsFiniteSet(some) /\ Cardinality(some) = n
                                   /\ ~ \E found : Sorts(found, some)
    OBVIOUS
  <2>3. CASE some = {}
    <3>1. Cardinality(some) = 0
      BY <2>3, FS_EmptySet
    <3>2. Sorts(<<>>, some)
      BY <3>1 DEF Sorts
    <3>3. QED
      BY <2>2, <3>2
  <2>4. CASE some # {}
    <3>1. PICK r \in some : \A s \in some : s # r => Before(r, s)
      BY <2>4, FirstRow
    <3>2. IsFiniteSet(some \ {r}) /\ Cardinality(some \ {r}) = n - 1 /\ n - 1 \in Nat
      <4>1. n \in Nat /\ n # 0
        BY <2>2, <2>4, FS_EmptySet
      <4>2. IsFiniteSet(some \ {r}) /\ Cardinality(some \ {r}) = n - 1
        BY <2>2, FS_RemoveElement
      <4>3. QED
        BY <4>1, <4>2
    <3>3. n - 1 \notin Sizes
      BY <2>1, <3>2
    <3>4. PICK rest : Sorts(rest, some \ {r})
      BY <3>2, <3>3
    <3>5. \E found : Sorts(found, some)
      BY <2>2, <3>1, <3>4, FirstThenSorted
    <3>6. QED
      BY <2>2, <3>5
  <2>5. QED
    BY <2>3, <2>4
<1>2. Cardinality(rows) \in Nat
  BY FS_CardinalityType
<1>3. QED
  BY <1>1, <1>2

(* What InOrder returns: each of the rows, once, in order. *)
LEMMA InOrderSorts ==
  ASSUME NEW rows \in SUBSET Row, IsFiniteSet(rows)
  PROVE  /\ InOrder(rows) \in Seq(rows)
         /\ Len(InOrder(rows)) = Cardinality(rows)
         /\ \A i, j \in 1 .. Len(InOrder(rows)) :
              i < j => Before(InOrder(rows)[i], InOrder(rows)[j])
         /\ \A r \in rows : \E i \in 1 .. Len(InOrder(rows)) : InOrder(rows)[i] = r
<1> DEFINE n == Cardinality(rows)
<1>1. n \in Nat
  BY FS_CardinalityType
<1>2. PICK found : Sorts(found, rows)
  BY SortExists
<1>3. \E f \in [1 .. n -> rows] : \A i, j \in DOMAIN f : i < j => Before(f[i], f[j])
  BY <1>2 DEF Sorts
<1>4. /\ InOrder(rows) \in [1 .. n -> rows]
      /\ \A i, j \in DOMAIN InOrder(rows) : i < j => Before(InOrder(rows)[i], InOrder(rows)[j])
  BY <1>3 DEF InOrder
<1>5. PICK f : f = InOrder(rows)
  OBVIOUS
<1> HIDE DEF n
<1>6. f \in [1 .. n -> rows] /\ DOMAIN f = 1 .. n /\ f \in Seq(rows) /\ Len(f) = n
  BY <1>1, <1>4, <1>5
<1>7. \A i, j \in 1 .. n : i < j => Before(f[i], f[j])
  BY <1>4, <1>5, <1>6
<1>8. f \in Injection(1 .. n, rows)
  <2>1. \A i, j \in 1 .. n : f[i] = f[j] => i = j
    <3> SUFFICES ASSUME NEW i \in 1 .. n, NEW j \in 1 .. n, f[i] = f[j], i # j PROVE FALSE
      OBVIOUS
    <3>1. f[i] \in Row
      BY <1>6
    <3>2. i < j \/ j < i
      BY <1>1
    <3>3. QED
      BY <1>7, <3>1, <3>2, BeforeIsAnOrder
  <2>2. QED
    BY <1>6, <2>1 DEF Injection, IsInjective
<1>9. f \in Surjection(1 .. n, rows)
  <2>1. Cardinality(1 .. n) = n
    BY <1>1, FS_Interval
  <2>2. QED
    BY <1>8, <2>1, FS_Injection DEF n
<1>10. \A r \in rows : \E i \in 1 .. n : f[i] = r
  BY <1>9 DEF Surjection
<1>11. QED
  BY <1>5, <1>6, <1>7, <1>10 DEF n

(* What a reader keeps from page to page: the rows read are in order, the  *)
(* cursor is the last of them, and of the rows that were there at first    *)
(* none is left behind the cursor.                                         *)
ReadsOn(r, rows) ==
  /\ r \in [before : SUBSET rows, read : Seq(Row), cursor : Row \cup {NoCursor}, ended : BOOLEAN]
  /\ \A i, j \in 1 .. Len(r.read) : i < j => Before(r.read[i], r.read[j])
  /\ ~r.ended => r.cursor = IF r.read = <<>> THEN NoCursor ELSE r.read[Len(r.read)]
  /\ \A row \in r.before : r.ended \/ ~Follows(r.cursor, row) => row \in ToSet(r.read)

(* A reader who has only begun. *)
LEMMA OpenedReadsOn ==
  ASSUME NEW rows \in SUBSET Row
  PROVE  ReadsOn(Opened(rows), rows)
<1>1. \A row \in rows : Follows(NoCursor, row)
  BY RowsThere DEF Follows, Before, NoCursor, Row
<1>2. QED
  BY <1>1 DEF ReadsOn, Opened

(* Another page keeps it, with whatever rows are there by now. *)
LEMMA ContinuedReadsOn ==
  ASSUME NEW rows \in SUBSET Row, IsFiniteSet(rows), NEW limit \in Nat, limit # 0,
         NEW r, ReadsOn(r, rows), ~r.ended
  PROVE  ReadsOn(Continued(r, rows, limit), rows)
<1>1. /\ r \in [before : SUBSET rows, read : Seq(Row), cursor : Row \cup {NoCursor},
                ended : BOOLEAN]
      /\ Len(r.read) \in Nat /\ r.read \in Seq(Row)
      /\ \A i \in 1 .. Len(r.read) : r.read[i] \in Row
  BY ElementOfSeq DEF ReadsOn
<1> DEFINE later == {row \in rows : Follows(r.cursor, row)}
<1>2. PICK found : found = InOrder(later)
  OBVIOUS
<1>3. /\ found \in Seq(later) /\ found \in Seq(Row) /\ Len(found) \in Nat
      /\ \A i \in 1 .. Len(found) : found[i] \in later /\ found[i] \in Row
      /\ \A i, j \in 1 .. Len(found) : i < j => Before(found[i], found[j])
      /\ \A row \in later : \E i \in 1 .. Len(found) : found[i] = row
  <2>1. later \in SUBSET Row /\ IsFiniteSet(later)
    BY FS_Subset
  <2> HIDE DEF later
  <2>2. /\ found \in Seq(later) /\ found \in Seq(Row)
        /\ \A i, j \in 1 .. Len(found) : i < j => Before(found[i], found[j])
        /\ \A row \in later : \E i \in 1 .. Len(found) : found[i] = row
    BY <1>2, <2>1, InOrderSorts, SeqMonotonic
  <2>3. QED
    BY <2>2, ElementOfSeq
<1>4. PICK k \in Nat : k = IF limit <= Len(found) THEN limit ELSE Len(found)
  BY <1>3
<1>5. PICK items : items = SubSeq(found, 1, k)
  OBVIOUS
<1>6. /\ items \in Seq(Row) /\ Len(items) = k /\ k <= Len(found)
      /\ \A i \in 1 .. k : items[i] = found[i]
  <2>1. k \in 0 .. Len(found) /\ \A i \in 1 .. k : found[i] \in Row
    BY <1>3, <1>4
  <2>2. QED
    BY <1>4, <1>5, <2>1, SubSeqProperties
<1>7. PICK read : read = r.read \o items
  OBVIOUS
<1>8. /\ read \in Seq(Row) /\ Len(read) = Len(r.read) + k
      /\ \A i \in 1 .. Len(r.read) : read[i] = r.read[i]
      /\ \A i \in 1 .. k : read[Len(r.read) + i] = found[i]
  <2>1. /\ read \in Seq(Row) /\ Len(read) = Len(r.read) + k
        /\ \A i \in 1 .. Len(r.read) + k :
             read[i] = IF i <= Len(r.read) THEN r.read[i] ELSE items[i - Len(r.read)]
    <3>1. /\ read \in Seq(Row) /\ Len(read) = Len(r.read) + Len(items)
          /\ \A i \in 1 .. Len(r.read) + Len(items) :
               read[i] = IF i <= Len(r.read) THEN r.read[i] ELSE items[i - Len(r.read)]
      BY ZenonT(60), <1>1, <1>6, <1>7, ConcatProperties
    <3>2. Len(items) = k
      BY <1>6
    <3>3. QED
      BY <3>1, <3>2
  <2>2. ASSUME NEW i \in 1 .. k PROVE read[Len(r.read) + i] = found[i]
    <3>1. Len(r.read) + i \in 1 .. Len(r.read) + k /\ ~(Len(r.read) + i <= Len(r.read))
          /\ (Len(r.read) + i) - Len(r.read) = i
      BY <1>1
    <3>2. read[Len(r.read) + i] = items[(Len(r.read) + i) - Len(r.read)]
      BY <2>1, <3>1
    <3>3. QED
      BY <1>6, <3>1, <3>2
  <2>3. QED
    BY <1>1, <2>1, <2>2
<1>9. PICK next : next = IF Len(found) > limit THEN Last(items) ELSE NoCursor
  OBVIOUS
<1>10. Continued(r, rows, limit) =
         [r EXCEPT !.read = read, !.cursor = next, !.ended = next = NoCursor]
  <2>1. Min({limit, Len(found)}) = k
    <3>1. Len(found) \in Nat
      BY <1>3
    <3>2. Min({limit, Len(found)}) = IF limit <= Len(found) THEN limit ELSE Len(found)
      BY <3>1, MinOfTwo
    <3>3. QED
      BY <1>4, <3>1, <3>2
  <2>2. Page(rows, r.cursor, limit) = [items |-> items, next |-> next]
    BY <1>2, <1>5, <1>9, <2>1 DEF Page
  <2>3. QED
    BY <1>7, <2>2 DEF Continued
<1> HIDE DEF later
<1>11. PICK s : s = Continued(r, rows, limit)
  OBVIOUS
<1>12. /\ s.before = r.before /\ s.read = read /\ s.cursor = next /\ s.ended = (next = NoCursor)
       /\ s = [before |-> r.before, read |-> read, cursor |-> next, ended |-> next = NoCursor]
  BY <1>1, <1>10, <1>11
<1>13. Len(found) > limit => next = found[k] /\ k = limit /\ next \in Row /\ next # NoCursor
  <2> SUFFICES ASSUME Len(found) > limit
               PROVE  next = found[k] /\ k = limit /\ next \in Row /\ next # NoCursor
    OBVIOUS
  <2>1. k = limit /\ k \in 1 .. k /\ k \in 1 .. Len(found)
    BY <1>3, <1>4
  <2>2. next = found[k]
    BY <1>6, <1>9, <2>1 DEF Last
  <2>3. \A row \in Row : row # NoCursor
    BY RowsThere DEF Row, NoCursor
  <2>4. QED
    BY <1>3, <2>1, <2>2, <2>3
<1>14. s \in [before : SUBSET rows, read : Seq(Row), cursor : Row \cup {NoCursor}, ended : BOOLEAN]
  <2>1. next \in Row \cup {NoCursor}
    BY <1>9, <1>13
  <2>2. QED
    BY <1>1, <1>8, <1>12, <2>1
<1>15. ASSUME NEW i \in 1 .. Len(read), NEW j \in 1 .. Len(read), i < j
       PROVE  Before(read[i], read[j])
  <2>1. CASE j <= Len(r.read)
    <3>1. i \in 1 .. Len(r.read) /\ j \in 1 .. Len(r.read)
      BY <1>1, <1>15, <2>1
    <3>2. QED
      BY <1>8, <1>15, <3>1 DEF ReadsOn
  <2>2. CASE ~(j <= Len(r.read))
    <3>1. PICK q \in 1 .. k : j = Len(r.read) + q
      <4>1. j - Len(r.read) \in 1 .. k /\ j = Len(r.read) + (j - Len(r.read))
        BY <1>1, <1>8, <2>2
      <4>2. QED
        BY <4>1
    <3>2. read[j] = found[q] /\ q \in 1 .. Len(found)
      <4>1. q \in 1 .. Len(found)
        BY <1>3, <1>6
      <4>2. QED
        BY <1>8, <3>1, <4>1
    <3>3. CASE i <= Len(r.read)
      <4>1. i \in 1 .. Len(r.read) /\ read[i] = r.read[i] /\ r.read # <<>>
        BY <1>1, <1>8, <3>3
      <4>2. r.cursor = r.read[Len(r.read)] /\ Len(r.read) \in 1 .. Len(r.read)
        BY <1>1, <4>1 DEF ReadsOn
      <4>3. Before(r.cursor, found[q])
        BY <1>3, <3>2 DEF later, Follows
      <4>4. i = Len(r.read) \/ Before(r.read[i], r.cursor)
        BY <1>1, <4>1, <4>2 DEF ReadsOn
      <4>5. r.read[i] \in Row /\ r.cursor \in Row /\ found[q] \in Row
        BY <1>1, <1>3, <3>2, <4>1, <4>2
      <4>6. QED
        BY <3>2, <4>1, <4>2, <4>3, <4>4, <4>5, BeforeIsAnOrder
    <3>4. CASE ~(i <= Len(r.read))
      <4>1. PICK o \in 1 .. k : i = Len(r.read) + o
        <5>1. i - Len(r.read) \in 1 .. k /\ i = Len(r.read) + (i - Len(r.read))
          BY <1>1, <1>8, <3>4
        <5>2. QED
          BY <5>1
      <4>2. read[i] = found[o] /\ o \in 1 .. Len(found) /\ o < q
        <5>1. o \in 1 .. Len(found)
          BY <1>3, <1>6
        <5>2. o < q
          BY <1>1, <1>15, <3>1, <4>1
        <5>3. QED
          BY <1>8, <4>1, <5>1, <5>2
      <4>3. QED
        BY <1>3, <3>2, <4>2
    <3>5. QED
      BY <3>3, <3>4
  <2>3. QED
    BY <2>1, <2>2
<1>16. ~s.ended => s.cursor = IF s.read = <<>> THEN NoCursor ELSE s.read[Len(s.read)]
  <2> SUFFICES ASSUME ~s.ended PROVE s.cursor = IF read = <<>> THEN NoCursor ELSE read[Len(read)]
    BY <1>12
  <2>1. Len(found) > limit /\ k = limit /\ next = found[k]
    BY <1>9, <1>12, <1>13
  <2>2. k \in 1 .. k /\ read[Len(r.read) + k] = found[k] /\ Len(read) # 0
    BY <1>1, <1>8, <2>1
  <2>3. QED
    BY <1>8, <1>12, <2>1, <2>2
<1>17. ASSUME NEW row \in r.before, s.ended \/ ~Follows(next, row)
       PROVE  row \in ToSet(read)
  <2>0. DOMAIN read = 1 .. Len(read) /\ DOMAIN r.read = 1 .. Len(r.read)
    BY <1>1, <1>8
  <2>1. CASE ~Follows(r.cursor, row)
    <3>1. PICK i \in 1 .. Len(r.read) : r.read[i] = row
      BY <2>0, <2>1 DEF ReadsOn, ToSet
    <3>2. i \in 1 .. Len(read) /\ read[i] = row
      BY <1>1, <1>8, <3>1
    <3>3. QED
      BY <2>0, <3>2 DEF ToSet
  <2>2. CASE Follows(r.cursor, row)
    <3>1. PICK i \in 1 .. Len(found) : found[i] = row
      BY <1>1, <1>3, <2>2 DEF later
    <3>2. i <= k
      <4>1. CASE Len(found) > limit
        <5>1. k = limit /\ next = found[k] /\ ~Before(found[k], row) /\ k \in 1 .. Len(found)
          <6>1. k = limit /\ next = found[k] /\ ~s.ended
            BY <1>12, <1>13, <4>1
          <6>2. ~Before(found[k], row)
            BY <1>17, <6>1 DEF Follows
          <6>3. k \in 1 .. Len(found)
            BY <1>3, <1>6, <4>1, <6>1
          <6>4. QED
            BY <6>1, <6>2, <6>3
        <5>2. QED
          BY <1>3, <3>1, <5>1
      <4>2. CASE ~(Len(found) > limit)
        BY <1>3, <1>4, <4>2
      <4>3. QED
        BY <4>1, <4>2
    <3>3. i \in 1 .. k /\ Len(r.read) + i \in 1 .. Len(read) /\ read[Len(r.read) + i] = row
      BY <1>1, <1>8, <3>1, <3>2
    <3>4. QED
      BY <2>0, <3>3 DEF ToSet
  <2>3. QED
    BY <2>1, <2>2
<1>18. ReadsOn(s, rows)
  BY <1>12, <1>14, <1>15, <1>16, <1>17 DEF ReadsOn
<1>19. QED
  BY <1>11, <1>18

(* More rows do not disturb a reader. *)
LEMMA MoreRows ==
  ASSUME NEW rows, NEW more, rows \subseteq more, NEW r, ReadsOn(r, rows)
  PROVE  ReadsOn(r, more)
BY DEF ReadsOn

(* What a reader keeps says that no row is read twice and none is missed.  *)
LEMMA ReadsOnIsWhole ==
  ASSUME NEW rows, NEW r, ReadsOn(r, rows)
  PROVE  ReadOnce(r) /\ ReadAll(r)
<1>1. r.read \in Seq(Row) /\ Len(r.read) \in Nat /\ DOMAIN r.read = 1 .. Len(r.read)
      /\ \A i \in 1 .. Len(r.read) : r.read[i] \in Row
  BY ElementOfSeq DEF ReadsOn
<1>2. ASSUME NEW i \in 1 .. Len(r.read), NEW j \in 1 .. Len(r.read), r.read[i] = r.read[j], i # j
      PROVE  FALSE
  <2>1. i < j \/ j < i
    BY <1>1, <1>2
  <2>2. Before(r.read[i], r.read[j]) \/ Before(r.read[j], r.read[i])
    BY <2>1 DEF ReadsOn
  <2>3. QED
    BY <1>1, <1>2, <2>2, BeforeIsAnOrder
<1>3. ReadOnce(r)
  BY <1>1, <1>2 DEF ReadOnce, IsInjective
<1>4. ReadAll(r)
  BY DEF ReadAll, ReadsOn
<1>5. QED
  BY <1>3, <1>4

-----------------------------------------------------------------------------
(* The reader of a party's notes.                                          *)

ReaderInv ==
  /\ IsFiniteSet(Saved(note))
  /\ reading # None => ReadsOn(reading, NoteRows)

(* The rows of the notes so far. *)
LEMMA NoteRowsAreRows ==
  ASSUME RowsOK, IsFiniteSet(Saved(note))
  PROVE  NoteRows \in SUBSET Row /\ IsFiniteSet(NoteRows)
<1>1. \A n \in Saved(note) : n \in Note /\ note[n].created \in Times
  BY RowsThere DEF RowsOK, Saved, NoteRow
<1>2. NoteRows \in SUBSET Row
  BY <1>1 DEF NoteRows, Row
<1> DEFINE f == [n \in Saved(note) |-> [created |-> note[n].created, id |-> n]]
<1>3. f \in Surjection(Saved(note), NoteRows)
  BY DEF Surjection, NoteRows
<1>4. IsFiniteSet(NoteRows)
  BY <1>3, FS_Surjection
<1>5. QED
  BY <1>2, <1>4

(* A step adds at most one note and leaves the times of the others.        *)
LEMMA NotesOnlyGrow ==
  ASSUME RowsOK, IInv, [Next]_vars
  PROVE  /\ \E n : Saved(note') \subseteq Saved(note) \cup {n}
         /\ \A m \in Saved(note) : m \in Saved(note') /\ note'[m].created = note[m].created
<1>1. ASSUME NEW a \in Attempt, NEW r \in Request, NEW n \in Note, NEW now \in Times,
             Prepare(a, r, n, now)
      PROVE  /\ Saved(note') \subseteq Saved(note) \cup {n}
             /\ \A m \in Saved(note) : m \in Saved(note') /\ note'[m].created = note[m].created
  <2>1. note[n] = None /\ DOMAIN note = Note /\ DOMAIN note' = Note
        /\ \A m \in Note : m # n => note'[m] = note[m]
    BY <1>1 DEF Prepare, RowsOK
  <2>2. QED
    BY <2>1 DEF Saved
<1>2. ASSUME UNCHANGED note
      PROVE  /\ Saved(note') \subseteq Saved(note) \cup {None}
             /\ \A m \in Saved(note) : m \in Saved(note') /\ note'[m].created = note[m].created
  BY <1>2
<1>3. ASSUME NEW a \in Attempt, NEW now \in Times, Settle(a, now) \/ SettleFailed(a, now)
      PROVE  /\ Saved(note') \subseteq Saved(note) \cup {None}
             /\ \A m \in Saved(note) : m \in Saved(note') /\ note'[m].created = note[m].created
  <2>1. PICK decision \in Decision, phase \in {"answered", "gone"} :
          Finish(a, decision, CallEndsAs(decision.status), now)
    BY <1>3, SettleFinishes
  <2>2. Asking(a)
    BY <1>3, SettleFinishes
  <2>3. PICK n \in Note : n = attempt[a].note
    BY <2>1, <2>2, Finished
  <2>4. /\ note[n] \in NoteRow /\ note'[n] \in NoteRow
        /\ note'[n].created = note[n].created
        /\ note' \in [Note -> NoteRow \cup {None}]
        /\ \A m \in Note : m # n => note'[m] = note[m]
    BY <2>1, <2>2, <2>3, Finished
  <2>5. note[n] # None /\ note'[n] # None /\ DOMAIN note = Note /\ DOMAIN note' = Note
    BY <2>4, RowsThere DEF RowsOK
  <2>6. QED
    BY <2>4, <2>5 DEF Saved
<1>4. QED
  BY <1>1, <1>2, <1>3 DEF Next, vars, Repeat, Abandon, EditGuest, AddGuest, OpenNotes, ReadNotes

(* Nobody reads at first. *)
LEMMA InitReader == Init => ReaderInv
<1> SUFFICES ASSUME Init PROVE ReaderInv
  OBVIOUS
<1>1. Saved(note) = {} /\ reading = None
  BY DEF Init, Saved
<1>2. QED
  BY <1>1, FS_EmptySet DEF ReaderInv

(* A step, of the reader or of anybody else, keeps what the reader keeps.  *)
LEMMA StepReader ==
  ASSUME RowsOK, IInv, RowsOK', ReaderInv, [Next]_vars
  PROVE  ReaderInv'
<1>1. IsFiniteSet(Saved(note'))
  <2>1. PICK n : Saved(note') \subseteq Saved(note) \cup {n}
    BY NotesOnlyGrow
  <2>2. IsFiniteSet(Saved(note) \cup {n})
    BY FS_AddElement DEF ReaderInv
  <2>3. QED
    BY <2>1, <2>2, FS_Subset
<1>2. NoteRows \in SUBSET Row /\ IsFiniteSet(NoteRows)
  BY NoteRowsAreRows DEF ReaderInv
<1>3. NoteRows \subseteq NoteRows'
  <2>1. \A m \in Saved(note) : m \in Saved(note') /\ note'[m].created = note[m].created
    BY NotesOnlyGrow
  <2>2. QED
    BY <2>1 DEF NoteRows
<1>4. CASE OpenNotes
  <2>1. reading' = Opened(NoteRows)
    BY <1>4 DEF OpenNotes
  <2>2. ReadsOn(reading', NoteRows')
    BY <1>2, <1>3, <2>1, OpenedReadsOn, MoreRows
  <2>3. QED
    BY <1>1, <2>2 DEF ReaderInv
<1>5. CASE ReadNotes
  <2>1. reading' = Continued(reading, NoteRows, PageSize) /\ ReadsOn(reading, NoteRows)
        /\ ~reading.ended
    BY <1>5 DEF ReadNotes, ReaderInv
  <2>2. PageSize \in Nat /\ PageSize # 0
    BY GuestReferencesAssumption
  <2>3. ReadsOn(reading', NoteRows')
    BY <1>2, <1>3, <2>1, <2>2, ContinuedReadsOn, MoreRows
  <2>4. QED
    BY <1>1, <2>3 DEF ReaderInv
<1>6. CASE UNCHANGED reading
  <2>1. reading # None => ReadsOn(reading, NoteRows')
    BY <1>3, MoreRows DEF ReaderInv
  <2>2. QED
    BY <1>1, <1>6, <2>1 DEF ReaderInv
<1>7. ASSUME NEW a \in Attempt, NEW now \in Times, Settle(a, now) \/ SettleFailed(a, now)
      PROVE  UNCHANGED reading
  BY <1>7, SettleFinishes DEF Finish
<1>8. QED
  BY <1>4, <1>5, <1>6, <1>7 DEF Next, vars, Prepare, Repeat, Abandon, EditGuest, AddGuest

(* Whoever follows the cursors reads no note twice and misses none that    *)
(* was there when they began, with any number of notes saved in between,   *)
(* at equal times and with IDs in any order (pagination.read_page).        *)
THEOREM PagesWhole == Spec => []PagesAreWhole
<1>1. Init => ReaderInv
  BY InitReader
<1>2. RowsOK /\ IInv /\ RowsOK' /\ ReaderInv /\ [Next]_vars => ReaderInv'
  BY StepReader
<1>3. ReaderInv => PagesAreWhole
  BY ReadsOnIsWhole DEF ReaderInv, PagesAreWhole
<1>4. QED
  BY <1>1, <1>2, <1>3, Invariance, PTL DEF Spec

(* Every variable keeps its range, the rows a reader has seen and its      *)
(* cursor too; pending and failed notes refer to nobody, and settling a    *)
(* note gives it a later version (Note, save).                             *)
THEOREM TypeCorrect == Spec => []TypeOK
<1>1. Init => ReaderInv
  BY InitReader
<1>2. RowsOK /\ IInv /\ RowsOK' /\ ReaderInv /\ [Next]_vars => ReaderInv'
  BY StepReader
<1>3. RowsOK /\ ReaderInv => TypeOK
  <2>1. ASSUME RowsOK, ReaderInv, reading # None PROVE reading \in Reader
    BY <2>1, NoteRowsAreRows DEF ReaderInv, ReadsOn, Reader
  <2>2. QED
    BY <2>1 DEF TypeOK
<1>4. QED
  BY <1>1, <1>2, <1>3, Invariance, PTL DEF Spec

=============================================================================
