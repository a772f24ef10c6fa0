---------------------------- MODULE UndoManager ----------------------------
(* The undo manager of an open collection (rslib/src/undo/mod.rs) as a       *)
(* record: steps that can be undone, newest first, steps that can be redone, *)
(* newest last, and the step that an operation is recording.  A step's       *)
(* number matters only to the caller who asked for a custom step, so that    *)
(* step carries a mark instead.                                              *)
EXTENDS Integers, Sequences, SequencesExt, FiniteSetsExt

CONSTANTS
  UndoLimit,  \* UNDO_LIMIT
  None

\* The operations, by the names the steps have.
Ops == {"answer", "grade", "suspend", "bury", "unbury", "flag", "forget", "setdue", "build",
        "empty", "note", "revise", "skip", "custom"}

ASSUME UndoAssumption == UndoLimit \in Nat \ {0} /\ None \notin Ops

\* A step as it begins.
OpenStep(op) == [op |-> op, changes |-> <<>>, marked |-> FALSE]

\* No step is open.
NoStep == OpenStep(None)

NewManager ==
  [undo |-> <<>>, redo |-> <<>>, mode |-> "normal", current |-> NoStep, cache |-> None]

\* Mutant: room is made only when the limit is passed.
KeptToLimit(steps) == SubSeq(steps, 1, IF Len(steps) < UndoLimit THEN Len(steps) ELSE UndoLimit)

\* The steps that have room for one more before them.
Kept(steps) ==
  SubSeq(steps, 1, IF Len(steps) < UndoLimit THEN Len(steps) ELSE UndoLimit - 1)

BeginStep(u, op) ==
  IF op = None
  THEN [u EXCEPT !.cache = None, !.undo = <<>>, !.redo = <<>>, !.current = NoStep]
  ELSE [u EXCEPT !.redo = IF u.mode = "normal" THEN <<>> ELSE @,
                 !.current = OpenStep(op)]

SaveAll(u, changes) ==
  IF u.current.op = None THEN u ELSE [u EXCEPT !.current.changes = @ \o changes]

Save(u, change) == SaveAll(u, <<change>>)

HasChanges(u) ==
  /\ u.current.op # None
  /\ u.current.changes # <<>> \/ u.current.op = "custom"

EndStep(u) ==
  LET ended == [u EXCEPT !.current = NoStep]
  IN IF ~HasChanges(u) \/ u.current.op = "skip" THEN ended
     ELSE IF u.mode = "undoing" THEN [ended EXCEPT !.redo = Append(@, u.current)]
     ELSE [ended EXCEPT !.undo = <<u.current>> \o Kept(@)]

\* The caller keeps the number of this step, and forgets an earlier one.
AddCustomStep(u) ==
  LET forgot == [u EXCEPT !.undo = [i \in DOMAIN @ |-> [@[i] EXCEPT !.marked = FALSE]]]
      begun  == BeginStep(forgot, "custom")
  IN EndStep([begun EXCEPT !.current.marked = TRUE])

MergeTargets(u) == {i \in DOMAIN u.undo : u.undo[i].marked}

\* Steps newer than the target join it, the older ones first.
MergeUndoableOps(u, i) ==
  LET joined == FlattenSeq([j \in 1..(i - 1) |-> u.undo[i - j].changes])
      target == [u.undo[i] EXCEPT !.changes = @ \o joined]
  IN [u EXCEPT !.undo = <<target>> \o SubSeq(@, i + 1, Len(@))]

SavedSteps(u) == ToSet(u.undo) \union ToSet(u.redo)

NotesIn(steps) ==
  {c.id : c \in {d \in UNION {ToSet(step.changes) : step \in steps} : d.kind = "note"}}

\* Mutant: steps that can be redone are left out.
UndoableNoteUpdates(u) == NotesIn(ToSet(u.undo))

SavedNoteUpdates(u) == NotesIn(SavedSteps(u))

RetainCacheModifiedTime(u, time) ==
  [u EXCEPT !.cache = IF @ = None \/ @ < time THEN time ELSE @]

\* Mutant: the time is not moved past what was changed beside the steps.
ModifiedTimeAsProposed(u, proposed, previous) == proposed

ModifiedTimeWithCache(u, proposed, previous) ==
  IF u.cache = None THEN proposed ELSE Max({proposed, u.cache, previous + 1})
=============================================================================
