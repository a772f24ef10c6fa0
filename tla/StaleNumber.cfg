\* Another device finishes a sync between a device's meta and its start.
SPECIFICATION Spec
CONSTANTS
  a = a
  b = b
  n = n
  k = k
  d = d
  p = p
  q = q
  Clients = {a, b}
  Notes = {n}
  Cards = {k}
  Decks = {d}
  NoteOf <- MCNoteOf
  Texts = {"t", "u"}
  Batches = {p, q}
  ChunkSize = 1
  Overtaken = TRUE
  MaxClock = 5
  MaxEdits = 2
  MaxFaults = 0
  MaxRevision = 2
  MaxBank = 1
  Gone = Gone
  None = None
  Refused = Refused
INVARIANT UnseenIsAsked
SYMMETRY Symmetry
CHECK_DEADLOCK FALSE
