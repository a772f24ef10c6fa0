---------------------------- MODULE Transactions ----------------------------
(***************************************************************************)
(* Operations on an open collection (rslib/src/collection/transact.rs):    *)
(* each runs in a transaction, records what it changes for undo, and keeps *)
(* the study queues or drops them.  The collection is one record, and an   *)
(* operation maps it to the next; one that fails leaves the database as it *)
(* was.  Only what an operation changes in cards and notes is modelled.    *)
(***************************************************************************)
EXTENDS StudyQueues

CONSTANT Notes

VARIABLES
  col,  \* the collection: what the database holds and what is kept of it in memory
  now   \* the time in seconds

\* clock: operations so far; unburied: last_unburied_day.
Opened(cards) ==
  [cards |-> cards, notes |-> [n \in Notes |-> [text |-> 0, bank |-> 0]], linked |-> FALSE,
   unburied |-> Today(now), mod |-> 0, clock |-> 0,
   undo |-> NewManager, queues |-> None, failed |-> FALSE, panicked |-> FALSE]

\* The time in milliseconds: an undo, which may step the collection's time forward by
\* one for each operation it takes back, is over before the next operation.
Millis(c) == 100 * c.clock

Discarded(c) == [c EXCEPT !.undo = BeginStep(@, None), !.queues = None]

Change(kind, id, old) == [kind |-> kind, id |-> id, old |-> old]
SaveUndo(c, change) == [c EXCEPT !.undo = Save(@, change)]

UpdateCardUndoable(c, id, card) ==
  [SaveUndo(c, Change("card", id, c.cards[id])) EXCEPT !.cards[id] = card]

UpdateCard(c, id, card) == UpdateCardUndoable(c, id, [card EXCEPT !.mtime = now])

\* Each of the cards in the domain of `rows' is given its new row.
UpdateCards(c, rows) ==
  LET ids == SetToSeq(DOMAIN rows)
  IN [c EXCEPT !.undo = SaveAll(@, [i \in DOMAIN ids |-> Change("card", ids[i], c.cards[ids[i]])]),
               !.cards = [id \in Cards |-> IF id \in DOMAIN rows THEN [rows[id] EXCEPT !.mtime = now]
                                           ELSE @[id]]]

UpdateNote(c, id, note) ==
  [SaveUndo(c, Change("note", id, c.notes[id])) EXCEPT !.notes[id] = note]

SetModifiedTime(c, modified) ==
  [SaveUndo(c, Change("mod", None, c.mod)) EXCEPT !.mod = modified]

SetModified(c) == SetModifiedTime(c, ModifiedTimeWithCache(c.undo, Millis(c), c.mod))

Unburied(c) ==
  [c EXCEPT !.cards = [id \in Cards |-> IF @[id].queue = "buried" THEN Unshelved(@[id]) ELSE @[id]],
            !.unburied = Today(now)]

ClearIfDayChanged(c) ==
  IF c.queues # None /\ c.queues.day # Today(now) THEN Unburied(Discarded(c)) ELSE c

-----------------------------------------------------------------------------
(* Undoing one change.                                                       *)

\* The queues, if they are the ones the answer was given from.
OrInvalidated(c, build) ==
  LET fresh == ClearIfDayChanged(c)
  IN IF fresh.queues # None /\ fresh.queues.build = build THEN fresh
     ELSE [fresh EXCEPT !.queues = None]

UndoAnswer(c, update) ==
  LET valid == OrInvalidated(c, update.build)
  IN SaveUndo(IF valid.queues = None THEN valid
              ELSE [valid EXCEPT !.queues = Unanswered(@, update)],
              Change("unanswered", None, update))

RedoAnswer(c, update) ==
  LET valid == OrInvalidated(c, update.build)
  IN IF valid.queues # None /\ ~AtTop(valid.queues, update.entry.id)
     THEN [valid EXCEPT !.failed = TRUE]
     ELSE SaveUndo(IF valid.queues = None THEN valid
                   ELSE [valid EXCEPT !.queues = Reanswered(@, update)],
                   Change("answered", None, update))

UndoChange(change, c) ==
  IF c.failed THEN c
  ELSE CASE change.kind = "card"       -> UpdateCardUndoable(c, change.id, change.old)
         [] change.kind = "note"       -> UpdateNote(c, change.id, change.old)
         [] change.kind = "deck"       -> SaveUndo(c, change)
         [] change.kind = "mod"        ->
              SetModifiedTime(c, ModifiedTimeWithCache(c.undo, change.old, c.mod))
         [] change.kind = "answered"   -> UndoAnswer(c, change.old)
         [] change.kind = "unanswered" -> RedoAnswer(c, change.old)

\* The last change first.
UndoChanges(c, changes) ==
  LET after[i \in 0..Len(changes)] ==
        IF i = 0 THEN c ELSE UndoChange(changes[Len(changes) + 1 - i], after[i - 1])
  IN after[Len(changes)]

-----------------------------------------------------------------------------
(* Transactions.                                                             *)

KindsOf(changes) == {change.kind : change \in ToSet(changes)}

\* What an operation did to the cards or the decks the queues are built from.
RequiresRebuild(op, changes) ==
  ("card" \in KindsOf(changes) /\ op # "flag") \/ "deck" \in KindsOf(changes)

\* Two edits of one note in quick succession.
Coalesces(u, op, quick) ==
  /\ quick /\ op = "note"
  /\ u.undo # <<>> /\ u.undo[1].op = "note"
  /\ LET earlier == u.undo[1].changes
         later   == u.current.changes
     IN /\ Len(earlier) = 2 /\ Len(later) = 2
        /\ earlier[1].kind = "note" /\ later[1].kind = "note"
        /\ earlier[2].kind = "mod" /\ later[2].kind = "mod"
        /\ earlier[1].id = later[1].id

\* The operation succeeded: the undo step is closed, and the queues are dropped
\* unless they follow the answer.
Finished(c, op, quick) ==
  LET changes == c.undo.current.changes
      kept    == IF op # "answer" /\ RequiresRebuild(op, changes) THEN None ELSE c.queues
      merged  == IF Coalesces(c.undo, op, quick)
                 THEN [c.undo EXCEPT !.current.changes = <<>>] ELSE c.undo
  IN [c EXCEPT !.queues = kept, !.undo = EndStep(merged)]

Started(c) == [c EXCEPT !.clock = @ + 1]

Begun(c, op) == [Started(c) EXCEPT !.undo = BeginStep(@, op)]

\* The code panics when it finds no step to close.
Closed(before, after, op, quick) ==
  LET dirty == HasChanges(after.undo) /\ after.undo.mode = "normal"
      saved == IF dirty THEN SetModified(after) ELSE after
  IN IF after.failed THEN Discarded(Started(before))
     ELSE IF saved.undo.current.op = None THEN [saved EXCEPT !.panicked = TRUE]
     ELSE Finished(saved, op, quick)

Transact(c, op, quick, Func(_)) == Closed(c, Func(Begun(c, op)), op, quick)

InMode(c, mode) == [c EXCEPT !.undo.mode = mode]

UndoInner(c, step, mode, quick) ==
  LET Reverted(d) == UndoChanges(d, step.changes)
  IN InMode(Transact(InMode(c, mode), step.op, quick, Reverted), "normal")

UndoStep(c, quick) ==
  UndoInner([c EXCEPT !.undo.undo = Tail(@)], Head(c.undo.undo), "undoing", quick)

RedoStep(c, quick) ==
  UndoInner([c EXCEPT !.undo.redo = Front(@)], Last(c.undo.redo), "redoing", quick)

\* Work in the background that is no step of its own: the steps there are stay, and
\* remember that the collection changes beside them.
TimeBeside(c) == Millis(Started(c))

Alone(c) == [c EXCEPT !.undo = RetainCacheModifiedTime(NewManager, TimeBeside(c))]

Rejoined(c, done) == [done EXCEPT !.undo = RetainCacheModifiedTime(c.undo, TimeBeside(c))]

Beside(c, op, Func(_)) == Rejoined(c, Transact(Alone(c), op, FALSE, Func))
=============================================================================
