------------------------------- MODULE Study -------------------------------
(***************************************************************************)
(* A person studies, edits and undoes in one open collection while time    *)
(* passes, the companion's deliveries append exercises in the background,  *)
(* and backups are made.  One action for each operation of the backend     *)
(* they call; the two are serialised by the collection's lock.             *)
(***************************************************************************)
EXTENDS Transactions

CONSTANTS
  Times,    \* when something may happen
  Settings  \* first rows of the cards, the kinds of entries whose siblings the deck
            \* buries, the operations on offer, and the bound on their number

ASSUME StudyAssumption ==
  /\ Epoch \in Times /\ Times \subseteq Nat
  /\ \A t \in Times : DaysBelowEpoch(t)
  /\ \A s \in Settings :
       /\ s.rows \in [Cards -> CardRow] /\ \A id \in Cards : DueFits(s.rows[id])
       /\ s.buried \subseteq {"new", "review", "interday"} /\ s.operations \in Nat

VARIABLES
  setting,  \* of Settings
  shown,    \* the card the reviewer shows and the state it was shown in, or None
  backup    \* what the last backup holds and the time it goes by, or None

ui == <<shown, backup>>
vars == <<col, now, setting, shown, backup>>

Init ==
  /\ now = Epoch
  /\ setting \in Settings
  /\ col = Opened(setting.rows)
  /\ shown = None /\ backup = None

Busy == col.clock < setting.operations /\ ~col.panicked

\* What the reviewer shows is read again after an operation that calls for it.
Refreshed(op, after) ==
  IF op # "flag" /\ ~after.failed /\ after.cards # col.cards THEN None ELSE shown

Do(op, quick, Func(_)) ==
  /\ Busy /\ op \in setting.menu
  /\ col' = Transact(col, op, quick, Func)
  /\ shown' = Refreshed(op, col')
  /\ UNCHANGED <<now, setting, backup>>

-----------------------------------------------------------------------------
(* Answers.                                                                  *)

\* Siblings that would have been gathered before the answered card stay.
BuriedKinds(queue) ==
  {kind \in setting.buried : kind = "new" \/ GatherOrd(KindOf(queue)) <= GatherOrd(kind)}

BuryOrSuspend(c, ids, queue) ==
  LET put == {id \in ids : c.cards[id].queue \notin {queue, "suspended"}}
  IN UpdateCards(c, [id \in put |-> [c.cards[id] EXCEPT !.queue = queue]])

BurySiblings(c, id) ==
  BuryOrSuspend(c, {x \in Siblings(id) : KindOf(c.cards[x].queue) \in BuriedKinds(c.cards[id].queue)},
                "buried")

\* The answer was given to the card as it is.
AnswerInner(c, id, answer) ==
  UpdateCard(BurySiblings(c, id), id, Answered(c.cards[id], answer, now))

UpdateQueues(c, id, finished) ==
  IF c.queues = None THEN c
  ELSE IF ~AtTop(c.queues, id) THEN [c EXCEPT !.failed = TRUE]
  ELSE LET card == IF finished THEN None ELSE c.cards[id]
           next == AnsweredQueue(c.queues, id, card, now)
       IN [SaveUndo(c, Change("answered", None, next.update)) EXCEPT !.queues = next.queues]

Answer ==
  /\ shown # None
  /\ \E answer \in Answers(col.cards[shown.id]) :
       LET Func(c) ==
             IF StudyState(c.cards[shown.id], now) # shown.state THEN [c EXCEPT !.failed = TRUE]
             ELSE UpdateQueues(AnswerInner(c, shown.id, answer), shown.id,
                               answer.type = "preview" /\ answer.delay = 0)
       IN Do("answer", FALSE, Func)

GradeNow(id) ==
  \E answer \in Answers(col.cards[id]) :
    LET Func(c) == AnswerInner(c, id, answer) IN Do("grade", FALSE, Func)

\* The queues are built if need be, and the first card is shown.
Fetch ==
  /\ Busy /\ shown = None
  /\ \E order \in SetToSeqs(Cards) :
       LET c     == ClearIfDayChanged(col)
           built == IF c.queues # None THEN c
                    ELSE [c EXCEPT !.queues = Build(c.cards, now, setting.buried, order, c.clock + 1),
                                   !.clock = @ + 1]
           q     == CountsAsShown(built.queues, now)
           first == IF Shown(q) = <<>> THEN None ELSE Head(Shown(q)).id
       IN /\ col' = [built EXCEPT !.queues = q]
          /\ shown' = IF first = None THEN None
                      ELSE [id |-> first, state |-> StudyState(c.cards[first], now)]
  /\ UNCHANGED <<now, setting, backup>>

-----------------------------------------------------------------------------
(* Other operations on cards.                                                *)

Suspend(id) ==
  LET Func(c) == BuryOrSuspend(c, {id}, "suspended") IN Do("suspend", FALSE, Func)

Bury(id) == LET Func(c) == BuryOrSuspend(c, {id}, "buried") IN Do("bury", FALSE, Func)

UnburyUnsuspend(id) ==
  LET Func(c) ==
        IF c.cards[id].queue \in Shelved THEN UpdateCard(c, id, Unshelved(c.cards[id])) ELSE c
  IN Do("unbury", FALSE, Func)

\* Keeps the time of modification, so that the queues stay.
SetFlag(id) ==
  LET Func(c) == UpdateCardUndoable(c, id, [c.cards[id] EXCEPT !.flag = ~@])
  IN Do("flag", FALSE, Func)

SetForgotten(id) ==
  LET Func(c) == UpdateCard(c, id, ScheduledAsNew(c.cards[id], 1)) IN Do("forget", FALSE, Func)

SetDueDate(id) ==
  \E days \in Intervals \union {0} :
    LET Func(c) == UpdateCard(c, id, ScheduledAsReview(c.cards[id], Today(now) + days))
    IN Do("setdue", FALSE, Func)

ReturnAll(c) ==
  UpdateCards(c, [id \in {x \in Cards : c.cards[x].deck # "home"} |-> Returned(c.cards[id])])

\* Buried and suspended cards are never moved; the cards of the deck are returned first.
BuildFiltered(deck, found) ==
  LET Func(c) ==
        LET returned == ReturnAll(SaveUndo(c, Change("deck", None, None)))
            matching == {id \in found : returned.cards[id].queue \notin Shelved}
        IN IF matching = {} THEN [c EXCEPT !.failed = TRUE]
           ELSE UpdateCards(returned, [id \in matching |-> MovedInto(returned.cards[id], deck)])
  IN Do("build", FALSE, Func)

EmptyFiltered == Do("empty", FALSE, ReturnAll)

-----------------------------------------------------------------------------
(* Notes.                                                                    *)

EditNote(n, quick) ==
  LET Func(c) == UpdateNote(c, n, [c.notes[n] EXCEPT !.text = 1 - @])
  IN Do("note", quick, Func)

\* A download that revises a skill is a step of its own.
ReviseSkill(n) ==
  LET Func(c) == UpdateNote(c, n, [c.notes[n] EXCEPT !.text = 1 - @, !.bank = @ + 1])
  IN Do("revise", FALSE, Func)

\* One that only appends exercises is none, and waits while an undo or a redo could
\* bring back an older note.
AppendBank(n) ==
  LET Func(c) == UpdateNote(c, n, [c.notes[n] EXCEPT !.bank = @ + 1])
  IN /\ Busy /\ "append" \in setting.menu
     /\ n \notin SavedNoteUpdates(col.undo)
     /\ col' = Beside(col, "skip", Func)
     /\ UNCHANGED <<now, setting, ui>>

\* Skills are connected to the companion again, which changes no note's content.
Reconnect ==
  LET Func(c) == [c EXCEPT !.linked = TRUE, !.mod = Millis(c)]
  IN /\ Busy /\ "reconnect" \in setting.menu /\ ~col.linked
     /\ col' = Beside(col, "skip", Func)
     /\ UNCHANGED <<now, setting, ui>>

\* A deck is collapsed or opened: no step, but the steps to redo are gone.
Collapse == LET Func(c) == SaveUndo(c, Change("deck", None, None)) IN Do("skip", FALSE, Func)

-----------------------------------------------------------------------------
(* Undo, and what lies beside the operations.                                *)

Undo(quick) ==
  /\ Busy /\ "undo" \in setting.menu /\ col.undo.undo # <<>>
  /\ col' = UndoStep(col, quick)
  /\ shown' = Refreshed(Head(col.undo.undo).op, col')
  /\ UNCHANGED <<now, setting, backup>>

Redo(quick) ==
  /\ Busy /\ "redo" \in setting.menu /\ col.undo.redo # <<>>
  /\ col' = RedoStep(col, quick)
  /\ shown' = Refreshed(Last(col.undo.redo).op, col')
  /\ UNCHANGED <<now, setting, backup>>

StartCustomStep ==
  /\ Busy /\ "custom" \in setting.menu
  /\ col' = [col EXCEPT !.undo = AddCustomStep(@), !.clock = @ + 1]
  /\ UNCHANGED <<now, setting, ui>>

MergeIntoCustomStep ==
  /\ ~col.panicked
  /\ \E i \in MergeTargets(col.undo) : col' = [col EXCEPT !.undo = MergeUndoableOps(@, i)]
  /\ UNCHANGED <<now, setting, ui>>

\* What a person would miss.
Studied(card) == [Unshelved(card) EXCEPT !.mtime = 0,
                                         !.queue = IF card.queue = "suspended" THEN card.queue ELSE @]
Content == [cards |-> [id \in Cards |-> Studied(col.cards[id])], notes |-> col.notes,
            linked |-> col.linked]

\* A backup is made unless the collection's time is the last backup's.
BackUp ==
  /\ "backup" \in setting.menu /\ ~col.panicked
  /\ IF backup = None THEN TRUE ELSE backup.mod # col.mod
  /\ backup' = [mod |-> col.mod, content |-> Content]
  /\ UNCHANGED <<col, now, setting, shown>>

\* A sync, whatever it brings, starts without steps and queues.
Sync ==
  /\ Busy /\ "sync" \in setting.menu
  /\ col' = [Discarded(col) EXCEPT !.clock = @ + 1]
  /\ shown' = None
  /\ UNCHANGED <<now, setting, backup>>

OpenDeckList ==
  /\ "decklist" \in setting.menu /\ ~col.panicked
  /\ col.unburied < Today(now)
  /\ col' = Unburied(col)
  /\ UNCHANGED <<now, setting, ui>>

Tick ==
  /\ now' \in {t \in Times : t > now}
  /\ UNCHANGED <<col, setting, ui>>

CardNext ==
  \/ Fetch \/ Answer \/ EmptyFiltered
  \/ \E id \in Cards : GradeNow(id) \/ Suspend(id) \/ Bury(id) \/ UnburyUnsuspend(id)
                         \/ SetFlag(id) \/ SetForgotten(id) \/ SetDueDate(id)
  \/ \E found \in SUBSET Cards, deck \in {"preview", "filtered"} : BuildFiltered(deck, found)

NoteNext ==
  \/ \E n \in Notes : ReviseSkill(n) \/ AppendBank(n) \/ \E quick \in BOOLEAN : EditNote(n, quick)
  \/ Reconnect \/ Collapse

Next ==
  \/ CardNext \/ NoteNext
  \/ \E quick \in BOOLEAN : Undo(quick) \/ Redo(quick)
  \/ StartCustomStep \/ MergeIntoCustomStep
  \/ BackUp \/ Sync \/ OpenDeckList \/ Tick

Spec == Init /\ [][Next]_vars

-----------------------------------------------------------------------------
(* Properties.                                                               *)

QueueEntries == IF col.queues = None THEN {} ELSE ToSet(col.queues.main) \union ToSet(col.queues.learning)

TypeOK ==
  /\ now \in Nat
  /\ DOMAIN col.cards = Cards /\ DOMAIN col.notes = Notes
  /\ col.mod < Millis(col) + 100
  /\ col.undo.mode = "normal" /\ Len(col.undo.undo) <= UndoLimit
  /\ col.undo.current = NoStep
  /\ \A id \in Cards : col.cards[id].queue \in ToSet(GatherOrder) \union Shelved
       \union {"learn", "daylearn", "preview"}
  /\ shown = None \/ shown.id \in Cards

\* "bug: card modified without updating queue": no entry of the study queues is for
\* a card that has changed, or gone elsewhere, since the entry was made.
EntriesAreCurrent == \A e \in QueueEntries : IsCurrent(e, col.cards[e.id])

\* The counts beside the queues are what the entries add up to, whatever was
\* answered, undone, done again and shown in between.
CountsMatch == col.queues # None => CountsAreOf(col.queues)

\* A backup is not skipped when the collection has something the last one lacks: an
\* undo never brings back the time of a backup without its content.
ChangesAreSeen ==
  backup # None /\ Content # backup.content => col.mod # backup.mod

\* Through filtered decks, answers, burying and undo, a card keeps a due its queue
\* can read; while it is away, the one it goes home with.
DuesFit == \A id \in Cards : DueFits(col.cards[id])

\* What was undone can be done again: a card whose answer was taken back is on top of
\* the queues it came from, unless the day has ended since.
RedoSucceeds ==
  [][(\E quick \in BOOLEAN : Redo(quick)) =>
       col'.panicked \/ col'.undo.redo = Front(col.undo.redo)]_vars

\* The collection finds a step to close after every operation: "Must only be called in
\* a transaction, when an operation was passed to transact()" (undo/mod.rs).
NeverPanics == ~col.panicked

-----------------------------------------------------------------------------
(* The steps kept by the collection are a history of edits.                  *)

RowOf(card) == [card EXCEPT !.queue = IF @ = "buried" THEN RestoredQueue(card) ELSE @]

Parts == ({"card"} \X Cards) \union ({"note"} \X Notes)

PresentOf(c) ==
  [p \in Parts |-> IF p[1] = "card" THEN RowOf(c.cards[p[2]]) ELSE c.notes[p[2]]]

Present == PresentOf(col)

\* The changes of one part.
Changing(changes, p) == {i \in DOMAIN changes : <<changes[i].kind, changes[i].id>> = p}

\* What the part was before the first of them.
Before(changes, p) ==
  LET old == changes[Min(Changing(changes, p))].old
  IN IF p[1] = "card" THEN RowOf(old) ELSE old

\* What undoing the changes leads to.
Back(state, changes) ==
  [p \in Parts |-> IF Changing(changes, p) = {} THEN state[p] ELSE Before(changes, p)]

\* What undoing the steps one after the other leads to.
StatesBefore(state, steps) ==
  LET f[i \in 0..Len(steps)] == IF i = 0 THEN state ELSE Back(f[i - 1], steps[i].changes)
  IN [i \in DOMAIN steps |-> f[i]]

Past == StatesBefore(Present, col.undo.undo)
Future == StatesBefore(Present, Reverse(col.undo.redo))

History ==
  INSTANCE EditHistory WITH
    present <- Present, past <- Past, future <- Future,
    Parts <- Parts, Rewritable <- {"note"} \X Notes, Limit <- UndoLimit

\* Undo and redo bring back exactly what was there, however steps were coalesced,
\* merged, dropped at the limit, or kept while the background wrote beside them.
IsHistory == History!HistorySpec
=============================================================================
