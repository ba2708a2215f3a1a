SPECIFICATION Spec
CONSTANTS
  Guest = {g1}
  Note = {1, 2, 3}
  Request = {r1, r2, r3}
  Attempt = {a1, a2, a3}
  Details = {d1, d2}
  Times = {1, 2}
  MaxCandidates = 1
  PageSize = 1
  None = None
SYMMETRY Anybody
CONSTRAINT StillReading
INVARIANT TypeOK NotesAgreeWithTheirRecords EachNoteIsAskedOnce ReturnedNotesAreSettled PagesAreWhole
PROPERTY ReferencesAreAboutTheAsked
CHECK_DEADLOCK FALSE
