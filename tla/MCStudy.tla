------------------------------ MODULE MCStudy ------------------------------
(* Small instances of Study: two sibling cards and a skill note.             *)
EXTENDS Study

CONSTANTS a, b, n, s

MCNoteOf == [id \in Cards |-> n]

Row(type, queue, due) ==
  [type |-> type, queue |-> queue, due |-> due, odue |-> 0, deck |-> "home",
   mtime |-> 0, flag |-> FALSE]

New == Row("new", "new", 1)
Learn == Row("learn", "learn", 101)
Review == Row("review", "review", 1)
Both(x, y) == [id \in Cards |-> IF id = a THEN x ELSE y]

AllKinds == {"new", "review", "interday"}

Setting(rows, buried, menu, operations) ==
  [rows |-> rows, buried |-> buried, menu |-> menu, operations |-> operations]

\* Cards are studied, with and without the burying of siblings, and in between flagged
\* while a delivery arrives.
Studying ==
  {Setting(Both(New, Review), {}, {"answer", "undo", "redo"}, 7),
   Setting(Both(New, Review), AllKinds, {"answer", "undo", "redo"}, 8),
   Setting(Both(New, New), {}, {"answer", "undo", "redo", "flag", "append"}, 5)}

\* Cards go to filtered decks and come back.
Filtering ==
  {Setting(Both(New, Review), {}, {"answer", "build", "empty", "bury", "undo"}, 4),
   Setting(Both(Learn, Review), {}, {"build", "answer", "empty", "suspend", "unbury"}, 4)}

\* Cards are buried, suspended, graded and scheduled by hand.
Scheduling ==
  {Setting(Both(New, New), AllKinds, {"answer", "setdue", "bury", "unbury", "decklist", "undo"}, 4),
   Setting(Both(New, Review), AllKinds, {"grade", "forget", "suspend", "undo", "redo"}, 3)}

\* Notes are edited, revised and delivered to, between backups.
Writing ==
  {Setting(Both(New, New), {}, {"note", "revise", "append", "reconnect", "skip", "custom",
                                "flag", "undo", "redo", "backup", "sync"}, 4),
   Setting(Both(New, New), {}, {"note", "append", "custom", "undo", "redo", "backup"}, 5)}

MCSettings == Studying \union Filtering \union Scheduling \union Writing
=============================================================================
