\* Two devices and a server share one skill, its card and a deck; their syncs are cut off.
SPECIFICATION Spec
CONSTANTS
  a = a
  b = b
  n = n
  k = k
  d = d
  p = p
  q = q
  Clients = {a, b}
  Notes = {n}
  Cards = {k}
  Decks = {d}
  NoteOf <- MCNoteOf
  Texts = {"t", "u"}
  Batches = {p, q}
  ChunkSize = 1
  Overtaken = FALSE
  MaxClock = 5
  MaxEdits = 2
  MaxFaults = 1
  MaxRevision = 2
  MaxBank = 1
  Gone = Gone
  None = None
  Refused = Refused
INVARIANTS  DeletedStaysDeleted SettledIsOnServer UnseenIsAsked
PROPERTY SkillsAdvance
SYMMETRY Symmetry
CHECK_DEADLOCK FALSE
