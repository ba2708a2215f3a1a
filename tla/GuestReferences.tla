--------------------------- MODULE GuestReferences --------------------------
(***************************************************************************)
(* Notes about one party and the guests they refer to                      *)
(* (moseby/runtime/guest_references.py).  An attempt of a tool job saves   *)
(* the note in one transaction, asks a classifier about a frozen list of   *)
(* the party's guests, and settles the note in a second transaction.       *)
(* Guests are edited in between, jobs are attempted again, and a reader    *)
(* pages through the notes (db/repositories/party_details.py, search).     *)
(*                                                                         *)
(* Only attempts that save something are steps of it.  A refused one saves *)
(* nothing: the claim and the token budget (Conversation, SaveNote), the   *)
(* authority and a repeated key with other input (Commands) can refuse it. *)
(***************************************************************************)
EXTENDS Pages

CONSTANTS
  Guest,
  Note,           \* note IDs, drawn in no particular order
  Request,        \* request keys of tool jobs
  Attempt,        \* attempts at a job
  Details,        \* names and ages a guest may have
  Times,          \* timestamps
  MaxCandidates,  \* largest party that is classified
  PageSize,       \* notes a reader asks for at a time
  None

ASSUME GuestReferencesAssumption ==
  /\ Note \subseteq Nat /\ Times \subseteq Nat
  /\ MaxCandidates \in Nat /\ PageSize \in Nat \ {0}
  /\ None \notin Details \cup Nat

VARIABLES
  guest,      \* guest[g]: details of a member of the party
  note,       \* note[n]: the note's row
  receipt,    \* receipt[r]: the note accepted under a request key
  inference,  \* inference[n]: the classifier call about note n
  decisions,  \* decision records in the thread, in order
  attempt,    \* attempt[a]: progress of an attempt
  reading     \* a reader of the party's notes

vars == <<guest, note, receipt, inference, decisions, attempt, reading>>

-----------------------------------------------------------------------------
Status == {"PENDING", "RESOLVED", "AMBIGUOUS", "FAILED"}
NoteRow == [status : Status, guests : SUBSET Guest, created : Times, updated : Times]
AttemptRow == [phase : {"asking", "answered", "gone"}, note : Note,
               asked : [Guest -> Details \cup {None}] \cup {None}]

ASSUME NoRowAssumption ==
  None \notin NoteRow \cup AttemptRow \cup [Guest -> Details \cup {None}]

Saved(t) == {i \in DOMAIN t : t[i] # None}
Candidates == Saved(guest)

(* What a page is ordered by, and a reader on the way through the pages.   *)
Row == [created : Times, id : Note]
Reader == [before : SUBSET Row, read : Seq(Row), cursor : Row \cup {NoCursor}, ended : BOOLEAN]

(* Pending and failed notes refer to nobody (GuestReferences).             *)
RowsOK ==
  /\ guest \in [Guest -> Details \cup {None}]
  /\ note \in [Note -> NoteRow \cup {None}]
  /\ \A n \in Saved(note) :
       /\ note[n].status \in {"PENDING", "FAILED"} => note[n].guests = {}
       /\ note[n].updated > note[n].created \/ note[n].status = "PENDING"
  /\ receipt \in [Request -> Note \cup {None}]
  /\ inference \in [Note -> {"STARTED", "SUCCEEDED", "FAILED", None}]
  /\ decisions \in Seq([note : Note, status : Status \ {"PENDING"}])
  /\ attempt \in [Attempt -> AttemptRow \cup {None}]

TypeOK == RowsOK /\ (reading = None \/ reading \in Reader)

Init ==
  /\ \E party \in SUBSET Guest, d \in Details :
       guest = [g \in Guest |-> IF g \in party THEN d ELSE None]
  /\ note = [n \in Note |-> None]
  /\ receipt = [r \in Request |-> None]
  /\ inference = [n \in Note |-> None]
  /\ decisions = <<>>
  /\ attempt = [a \in Attempt |-> None]
  /\ reading = None

-----------------------------------------------------------------------------
(* The first transaction.                                                  *)

Asking(a) == attempt[a] # None /\ attempt[a].phase = "asking"

(* _prepare, a new key: the note, its receipt and the classifier call.  A  *)
(* run whose tokens are unknown or spent is refused and changes nothing.   *)
Prepare(a, r, n, now) ==
  /\ attempt[a] = None /\ receipt[r] = None /\ note[n] = None
  /\ Cardinality(Candidates) <= MaxCandidates
  /\ note' = [note EXCEPT ![n] = [status |-> "PENDING", guests |-> {},
                                  created |-> now, updated |-> now]]
  /\ receipt' = [receipt EXCEPT ![r] = n]
  /\ inference' = [inference EXCEPT ![n] = "STARTED"]
  /\ attempt' = [attempt EXCEPT ![a] = [phase |-> "asking", note |-> n, asked |-> guest]]
  /\ UNCHANGED <<guest, decisions, reading>>

\* Mutants: a pending note is classified again; it is returned as it is.
RepeatAsks(a, r) ==
  /\ attempt[a] = None /\ receipt[r] # None
  /\ attempt' = [attempt EXCEPT ![a] =
       IF note[receipt[r]].status = "PENDING"
       THEN [phase |-> "asking", note |-> receipt[r], asked |-> guest]
       ELSE [phase |-> "answered", note |-> receipt[r], asked |-> None]]
  /\ UNCHANGED <<guest, note, receipt, inference, decisions, reading>>
RepeatAnswersPending(a, r) ==
  /\ attempt[a] = None /\ receipt[r] # None
  /\ attempt' = [attempt EXCEPT ![a] =
       [phase |-> "answered", note |-> receipt[r], asked |-> None]]
  /\ UNCHANGED <<guest, note, receipt, inference, decisions, reading>>

(* _prepare, a key with a receipt: its note if settled, or a conflict.     *)
Repeat(a, r) ==
  /\ attempt[a] = None /\ receipt[r] # None
  /\ attempt' = [attempt EXCEPT ![a] =
       [phase |-> IF note[receipt[r]].status = "PENDING" THEN "gone" ELSE "answered",
        note |-> receipt[r], asked |-> None]]
  /\ UNCHANGED <<guest, note, receipt, inference, decisions, reading>>

-----------------------------------------------------------------------------
(* The classifier's answer and the second transaction.                     *)

(* resolve: an answer for each candidate, and whether anyone else is meant.*)
Answers == UNION {[S -> {"no", "unclear", "yes"}] : S \in SUBSET Guest}
Resolve(answers, unclear) ==
  [status |-> IF unclear \/ \E g \in DOMAIN answers : answers[g] = "unclear"
              THEN "AMBIGUOUS" ELSE "RESOLVED",
   guests |-> {g \in DOMAIN answers : answers[g] = "yes"}]

\* Mutant: only the members of the party are compared, not their details.
SettledForMembers(a, decision) ==
  IF Candidates # {g \in Guest : attempt[a].asked[g] # None}
  THEN [status |-> "AMBIGUOUS", guests |-> {}] ELSE decision

(* Changed guests make the answer unsafe to attach.                        *)
Settled(a, decision) ==
  IF guest # attempt[a].asked
  THEN [status |-> "AMBIGUOUS", guests |-> {}] ELSE decision

\* Mutants: a failed classification leaves the note as it was; the note keeps
\* the version its pending row had.
FinishUnlessFailed(a, decision, end, now) ==
  LET n == attempt[a].note IN
  /\ note[n].status = "PENDING" /\ now > note[n].updated
  /\ note' = IF decision.status = "FAILED" THEN note
             ELSE [note EXCEPT ![n].status = decision.status,
                               ![n].guests = decision.guests, ![n].updated = now]
  /\ inference' = [inference EXCEPT ![n] = end]
  /\ decisions' = Append(decisions, [note |-> n, status |-> decision.status])
  /\ UNCHANGED <<guest, receipt, reading>>

FinishSameVersion(a, decision, end, now) ==
  LET n == attempt[a].note IN
  /\ note[n].status = "PENDING" /\ now > note[n].updated
  /\ note' = [note EXCEPT ![n].status = decision.status, ![n].guests = decision.guests]
  /\ inference' = [inference EXCEPT ![n] = end]
  /\ decisions' = Append(decisions, [note |-> n, status |-> decision.status])
  /\ UNCHANGED <<guest, receipt, reading>>

(* save_references, inference_requests.finish and the decision record.     *)
Finish(a, decision, end, now) ==
  LET n == attempt[a].note IN
  /\ note[n].status = "PENDING" /\ now > note[n].updated
  /\ note' = [note EXCEPT ![n].status = decision.status,
                          ![n].guests = decision.guests, ![n].updated = now]
  /\ inference' = [inference EXCEPT ![n] = end]
  /\ decisions' = Append(decisions, [note |-> n, status |-> decision.status])
  /\ UNCHANGED <<guest, receipt, reading>>

Leave(a, phase) == attempt' = [attempt EXCEPT ![a].phase = phase]

(* The party may have grown too large to be compared with the frozen list. *)
Settle(a, now) ==
  /\ Asking(a)
  /\ Cardinality(Candidates) <= MaxCandidates
  /\ \E answers \in Answers, unclear \in BOOLEAN :
       /\ DOMAIN answers = {g \in Guest : attempt[a].asked[g] # None}
       /\ Finish(a, Settled(a, Resolve(answers, unclear)), "SUCCEEDED", now)
  /\ Leave(a, "answered")

(* A provider error or an unusable answer returns the failed note; any     *)
(* other exception, a cancellation too, is raised again once it is saved.  *)
SettleFailed(a, now) ==
  /\ Asking(a)
  /\ Finish(a, [status |-> "FAILED", guests |-> {}], "FAILED", now)
  /\ Leave(a, "answered") \/ Leave(a, "gone")

(* The second transaction is refused (lost claim or authority, clock set   *)
(* back, a party grown too large) or the process dies: the note stays.     *)
Abandon(a) ==
  /\ Asking(a)
  /\ Leave(a, "gone")
  /\ UNCHANGED <<guest, note, receipt, inference, decisions, reading>>

-----------------------------------------------------------------------------
(* services.guests.update; guests.create.                                  *)
EditGuest(g, d) ==
  /\ guest[g] # None /\ guest[g] # d
  /\ guest' = [guest EXCEPT ![g] = d]
  /\ UNCHANGED <<note, receipt, inference, decisions, attempt, reading>>

AddGuest(g, d) ==
  /\ guest[g] = None
  /\ guest' = [guest EXCEPT ![g] = d]
  /\ UNCHANGED <<note, receipt, inference, decisions, attempt, reading>>

NoteRows == {[created |-> note[n].created, id |-> n] : n \in Saved(note)}

OpenNotes ==
  /\ reading = None
  /\ reading' = Opened(NoteRows)
  /\ UNCHANGED <<guest, note, receipt, inference, decisions, attempt>>

ReadNotes ==
  /\ reading # None /\ ~reading.ended
  /\ reading' = Continued(reading, NoteRows, PageSize)
  /\ UNCHANGED <<guest, note, receipt, inference, decisions, attempt>>

Next ==
  \/ \E a \in Attempt, r \in Request : \/ \E n \in Note, now \in Times : Prepare(a, r, n, now)
                                       \/ Repeat(a, r)
  \/ \E a \in Attempt, now \in Times : Settle(a, now) \/ SettleFailed(a, now)
  \/ \E a \in Attempt : Abandon(a)
  \/ \E g \in Guest, d \in Details : EditGuest(g, d) \/ AddGuest(g, d)
  \/ OpenNotes \/ ReadNotes

Spec == Init /\ [][Next]_vars

-----------------------------------------------------------------------------
(* Guest IDs are attached to a note only while every candidate is what the *)
(* classifier was told: nobody joined or was renamed in between (_finish). *)
ReferencesAreAboutTheAsked ==
  [][\A n \in Saved(note) : note'[n].guests # note[n].guests =>
       \E a \in Attempt : Asking(a) /\ attempt[a].note = n /\ attempt[a].asked = guest']_vars

(* The note, the classifier call and the thread's decision record never    *)
(* disagree about whether and how a note was settled, whoever dies or is   *)
(* cancelled when (_prepare, _finish).                                     *)
DecisionsOf(n) == {i \in DOMAIN decisions : decisions[i].note = n}
CallEndsAs(status) ==
  IF status = "PENDING" THEN "STARTED" ELSE IF status = "FAILED" THEN "FAILED" ELSE "SUCCEEDED"
NotesAgreeWithTheirRecords ==
  \A n \in Saved(note) :
    /\ inference[n] = CallEndsAs(note[n].status)
    /\ IF note[n].status = "PENDING" THEN DecisionsOf(n) = {}
       ELSE \E i \in DOMAIN decisions : DecisionsOf(n) = {i} /\ decisions[i].status = note[n].status

(* A note is sent to the classifier by one attempt only: repeating the     *)
(* command, while the first attempt waits or after it died, neither saves  *)
(* a second note nor pays for a second call (_prepare).                    *)
EachNoteIsAskedOnce ==
  \A a, b \in Saved(attempt) :
    attempt[a].asked # None /\ attempt[b].asked # None /\ a # b =>
      attempt[a].note # attempt[b].note

(* A tool returns only notes whose references are settled, also when it    *)
(* repeats a command that another attempt is still working on (record).    *)
ReturnedNotesAreSettled ==
  \A a \in Saved(attempt) :
    attempt[a].phase = "answered" => note[attempt[a].note].status # "PENDING"

(* Following the cursors returns no note twice and, by the end, every note *)
(* that was there when the reading began, however many are saved meanwhile *)
(* with equal times and IDs in any order (pagination.read_page).           *)
PagesAreWhole == reading # None => ReadOnce(reading) /\ ReadAll(reading)

=============================================================================
