\* Two sibling cards and a skill note, in one open collection, across a day's end.
SPECIFICATION Spec
CONSTANTS
  UndoLimit = 2
  None = None
  Epoch = 100
  DayLength = 6
  Delays = {1, 5}
  Intervals = {1}
  Cards = {a, b}
  Notes = {s}
  a = a
  b = b
  n = n
  s = s
  NoteOf <- MCNoteOf
  LearnAhead = 3
  Settings <- MCSettings
  Times = {100, 101, 104, 106}
INVARIANTS TypeOK  CountsMatch ChangesAreSeen 
PROPERTIES RedoSucceeds IsHistory
CHECK_DEADLOCK FALSE
