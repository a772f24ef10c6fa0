----------------------------- MODULE StudyQueues -----------------------------
(***************************************************************************)
(* The queues of cards to study (rslib/src/scheduler/queue): the main one, *)
(* of new, review and interday learning cards, and the intraday learning   *)
(* one, ordered by the time the cards are due.  The queues are built from  *)
(* the cards and then follow the answers, with counts kept beside them.    *)
(* An entry is [id, mtime, kind, due]; a main entry has no due of its own. *)
(***************************************************************************)
EXTENDS CardSchedule, UndoManager

CONSTANTS
  Cards,
  NoteOf,      \* [Cards -> notes]; the cards of a note are siblings
  LearnAhead   \* learn_ahead_secs

ASSUME QueuesAssumption == IsFiniteSet(Cards)

\* The kind of entry a card's queue makes, in the order the kinds are gathered.
GatherOrder == <<"intraday", "interday", "review", "new">>
KindOf(queue) ==
  CASE queue \in {"learn", "preview"} -> "intraday"
    [] queue = "daylearn"             -> "interday"
    [] OTHER                          -> queue

GatherOrd(kind) ==
  IF kind \in ToSet(GatherOrder)
  THEN CHOOSE i \in DOMAIN GatherOrder : GatherOrder[i] = kind
  ELSE Len(GatherOrder) + 1

Entry(id, c) ==
  LET kind == KindOf(c.queue)
  IN [id |-> id, mtime |-> c.mtime, kind |-> kind, due |-> IF kind = "intraday" THEN c.due ELSE 0]

-----------------------------------------------------------------------------
(* Building.                                                                 *)

Siblings(id) == {x \in Cards \ {id} : NoteOf[x] = NoteOf[id]}

Due(c, now) ==
  CASE KindOf(c.queue) = "intraday"               -> c.due <= NextDayAt(now)
    [] KindOf(c.queue) \in {"interday", "review"} -> c.due <= Today(now)
    [] OTHER                                      -> c.queue = "new"

\* Mutant: a card is left out only when the sibling before it is in the queue itself
\* and of the same kind.
LeftOutByKind(cards, now, buried, order, id) ==
  /\ KindOf(cards[id].queue) \in buried
  /\ \E x \in Siblings(id) :
       /\ Due(cards[x], now) /\ KindOf(cards[x].queue) = KindOf(cards[id].queue)
       /\ \E i, j \in DOMAIN order : i < j /\ order[i] = x /\ order[j] = id

\* A sibling was gathered before, and the deck buries siblings of this kind.
LeftOut(cards, now, buried, order, id) ==
  /\ KindOf(cards[id].queue) \in buried
  /\ \E x \in Siblings(id) :
       /\ Due(cards[x], now)
       /\ LET mine == GatherOrd(KindOf(cards[id].queue))
              its  == GatherOrd(KindOf(cards[x].queue))
          IN its < mine \/ (its = mine /\ \E i, j \in DOMAIN order :
                                            i < j /\ order[i] = x /\ order[j] = id)

LearnAheadCutoff(q) == q.cutoff + LearnAhead

CountOf(entries, kind) == Len(SelectSeq(entries, LAMBDA e : e.kind = kind))

\* The sort orders and mixes of the decks' options make any order of main possible.
Build(cards, now, buried, order, time) ==
  LET Gathered(id) == Due(cards[id], now) /\ ~LeftOut(cards, now, buried, order, id)
      ids     == SelectSeq(order, Gathered)
      entries == [i \in DOMAIN ids |-> Entry(ids[i], cards[ids[i]])]
      main    == SelectSeq(entries, LAMBDA e : e.kind # "intraday")
      soon    == SelectSeq(entries, LAMBDA e : e.kind = "intraday" /\ e.due <= now + LearnAhead)
  IN [main |-> main,
      learning |-> SortSeq(SelectSeq(entries, LAMBDA e : e.kind = "intraday"),
                           LAMBDA d, e : d.due < e.due),
      new |-> CountOf(main, "new"), review |-> CountOf(main, "review"),
      learn |-> CountOf(main, "interday") + Len(soon),
      day |-> Today(now), build |-> time, cutoff |-> now]

-----------------------------------------------------------------------------
(* What is shown.                                                            *)

Shown(q) ==
  SelectSeq(q.learning, LAMBDA e : e.due <= q.cutoff)
    \o q.main
    \o SelectSeq(q.learning, LAMBDA e : e.due > q.cutoff /\ e.due <= LearnAheadCutoff(q))

UpdateCutoffAndCount(q, now) ==
  LET newly == SelectSeq(q.learning, LAMBDA e : /\ e.due > LearnAheadCutoff(q)
                                                /\ e.due <= now + LearnAhead)
  IN [q EXCEPT !.cutoff = now, !.learn = @ + Len(newly)]

CountsAsShown(q, now) ==
  IF q.new = 0 /\ q.learn = 0 /\ q.review = 0 THEN UpdateCutoffAndCount(q, now) ELSE q

-----------------------------------------------------------------------------
(* Answers, undone and done again.                                           *)

Less(n) == IF n = 0 THEN 0 ELSE n - 1

Place(q, id) ==
  {i \in DOMAIN q.learning : q.learning[i].id = id}

AtTop(q, id) == Place(q, id) # {} \/ (q.main # <<>> /\ Head(q.main).id = id)

Counted(q, kind, by) ==
  CASE kind = "new"    -> [q EXCEPT !.new = @ + by]
    [] kind = "review" -> [q EXCEPT !.review = @ + by]
    [] OTHER           -> [q EXCEPT !.learn = IF by < 0 THEN Less(@) ELSE @ + by]

TopEntry(q, id) ==
  IF Place(q, id) # {} THEN q.learning[CHOOSE i \in Place(q, id) : TRUE] ELSE Head(q.main)

\* Both need AtTop(q, id), without which the code refuses the card.
PopEntry(q, id) ==
  LET e == TopEntry(q, id)
  IN Counted(IF e.kind = "intraday"
             THEN [q EXCEPT !.learning = SelectSeq(@, LAMBDA f : f.id # id)]
             ELSE [q EXCEPT !.main = Tail(@)], e.kind, -1)

\* Mutant: the card goes to the end of the main queue.
PushEntryLast(q, e) ==
  Counted(IF e.kind = "intraday" THEN [q EXCEPT !.learning = <<e>> \o @]
          ELSE [q EXCEPT !.main = Append(@, e)], e.kind, 1)

PushEntry(q, e) ==
  Counted(IF e.kind = "intraday" THEN [q EXCEPT !.learning = <<e>> \o @]
          ELSE [q EXCEPT !.main = <<e>> \o @], e.kind, 1)

InsertLearning(q, e) ==
  LET before == SelectSeq(q.learning, LAMBDA f : f.due < e.due)
      after  == SelectSeq(q.learning, LAMBDA f : f.due >= e.due)
  IN [q EXCEPT !.learning = before \o <<e>> \o after,
               !.learn = IF e.due <= LearnAheadCutoff(q) THEN @ + 1 ELSE @]

RemoveLearning(q, id) ==
  IF Place(q, id) = {} THEN q
  ELSE [q EXCEPT !.learning = SelectSeq(@, LAMBDA f : f.id # id),
                 !.learn = IF TopEntry(q, id).due <= LearnAheadCutoff(q) THEN Less(@) ELSE @]

RequeuesLearning(c, now) == KindOf(c.queue) = "intraday" /\ c.due < NextDayAt(now)

\* A card that would be shown again at once waits for the next one.
Requeued(q, e) ==
  LET cutoff == LearnAheadCutoff(q)
      next   == Head(q.learning).due
  IN IF e.due <= cutoff /\ q.main = <<>> /\ q.learning # <<>> /\ next >= e.due /\ next + 1 < cutoff
     THEN [e EXCEPT !.due = next + 1]
     ELSE e

RestoreCutoff(q, update) == [q EXCEPT !.learn = update.learn, !.cutoff = update.cutoff]

\* What the queues and the undo step keep of an answer that leaves `c' in the
\* database (None if a preview of it has ended).
AnsweredQueue(q, id, c, now) ==
  LET popped  == PopEntry(q, id)
      again   == IF c = None \/ ~RequeuesLearning(c, now) THEN None
                 ELSE Requeued(popped, Entry(id, c))
      placed  == IF again = None THEN popped ELSE InsertLearning(popped, again)
  IN [queues |-> UpdateCutoffAndCount(placed, now),
      update |-> [entry |-> TopEntry(q, id), again |-> again, build |-> q.build,
                  learn |-> placed.learn, cutoff |-> placed.cutoff]]

Unanswered(q, update) ==
  LET restored == RestoreCutoff(q, update)
      without  == IF update.again = None THEN restored
                  ELSE RemoveLearning(restored, update.again.id)
  IN PushEntry(without, update.entry)

\* Mutant: the learning cutoff is left as it is.
ReansweredNow(q, update) ==
  LET popped == PopEntry(q, update.entry.id)
  IN [(IF update.again = None THEN popped ELSE InsertLearning(popped, update.again))
        EXCEPT !.learn = update.learn]

Reanswered(q, update) ==
  LET popped == PopEntry(q, update.entry.id)
      placed == IF update.again = None THEN popped ELSE InsertLearning(popped, update.again)
  IN RestoreCutoff(placed, update)

\* The counts shown are those of the entries.
CountsAreOf(q) ==
  /\ q.new = CountOf(q.main, "new") /\ q.review = CountOf(q.main, "review")
  /\ q.learn = CountOf(q.main, "interday")
       + Len(SelectSeq(q.learning, LAMBDA e : e.due <= LearnAheadCutoff(q)))

\* The card is still as it was when the entry was made.
IsCurrent(e, c) == e.mtime = c.mtime /\ e.kind = KindOf(c.queue)
=============================================================================
