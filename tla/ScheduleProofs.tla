--------------------------- MODULE ScheduleProofs ---------------------------
(***************************************************************************)
(* Every card keeps a due its queue can read (DuesFit of Study), for every *)
(* length of the day, every choice of steps and intervals, every set of    *)
(* cards and however much is done and undone: first what one operator does *)
(* to one card, then what undo keeps, what an operation does to the        *)
(* collection, and the steps of Study.                                     *)
(***************************************************************************)
EXTENDS Study, FiniteSetTheorems, SequenceTheorems, WellFoundedInduction, TLAPS

\* Days are counted from one, and the day ends after now.
LEMMA DayBounds ==
  ASSUME NEW time \in Nat, time >= Epoch
  PROVE  /\ Today(time) \in Nat \ {0}
         /\ NextDayAt(time) \in Nat /\ NextDayAt(time) > time
<1> DEFINE e == time - Epoch
<1>1. e \in Nat /\ DayLength \in Nat \ {0} /\ Epoch \in Nat
  BY ScheduleAssumption
<1>2. (e \div DayLength) \in Nat /\ DayLength * (e \div DayLength) <= e
      /\ e < DayLength * (e \div DayLength) + DayLength
  <2>1. (e \div DayLength) \in Nat
    BY <1>1
  <2>2. e = DayLength * (e \div DayLength) + (e % DayLength) /\ e % DayLength \in 0..(DayLength - 1)
    BY <1>1
  <2> QED BY <1>1, <2>1, <2>2
<1> DEFINE d == e \div DayLength
<1>3. DayLength * (1 + d) = DayLength + DayLength * d
  BY <1>1, <1>2
<1>4. Today(time) = 1 + d
  BY DEF Today
<1> QED BY <1>1, <1>2, <1>3, <1>4 DEF NextDayAt

\* A step that outlasts the day ends on a day that can still be told from a time.
LEMMA StepDays ==
  ASSUME NEW time \in Nat, time >= Epoch, NEW delay \in Delays, DaysBelowEpoch(time),
         delay >= NextDayAt(time) - time
  PROVE  LET days == 1 + (delay - (NextDayAt(time) - time)) \div DayLength
         IN days \in Nat \ {0} /\ Today(time) + days < Epoch
<1> DEFINE late == delay - (NextDayAt(time) - time)
<1>1. time >= Epoch /\ Epoch \in Nat /\ DayLength \in Nat \ {0} /\ delay \in Nat \ {0}
  BY ScheduleAssumption
<1>2. Today(time) \in Nat \ {0} /\ NextDayAt(time) \in Nat /\ NextDayAt(time) > time
  BY DayBounds
<1>3. late \in Nat /\ late < delay
  BY <1>1, <1>2
<1> HIDE DEF late
<1>4. (late \div DayLength) \in Nat /\ late \div DayLength <= late
  <2> DEFINE d == late \div DayLength
  <2>1. d \in Nat
    BY <1>1, <1>3
  <2>2. late = DayLength * d + (late % DayLength) /\ late % DayLength \in 0..(DayLength - 1)
    BY <1>1, <1>3
  <2> HIDE DEF d
  <2>3. DayLength * d = d + (DayLength - 1) * d /\ (DayLength - 1) * d \in Nat
    BY <1>1, <2>1
  <2>4. d <= late
    BY <1>1, <1>3, <2>1, <2>2, <2>3
  <2> QED BY <2>1, <2>4 DEF d
<1> DEFINE div == late \div DayLength
<1> HIDE DEF div
<1>5. div \in Nat /\ div < delay
  BY <1>1, <1>3, <1>4 DEF div
<1>6. Today(time) + delay < Epoch
  BY DEF DaysBelowEpoch
<1>7. 1 + div \in Nat \ {0} /\ Today(time) + (1 + div) < Epoch
  BY <1>1, <1>2, <1>5, <1>6
<1> QED BY <1>7 DEF div, late

\* Rows written out.
LEMMA HomeRow ==
  ASSUME NEW c \in CardRow, NEW due, NEW d,
         d = [c EXCEPT !.deck = "home", !.odue = 0, !.due = due]
  PROVE  d = [type |-> c.type, queue |-> c.queue, due |-> due, odue |-> 0,
              deck |-> "home", mtime |-> c.mtime, flag |-> c.flag]
  BY DEF CardRow

LEMMA ScheduledRow ==
  ASSUME NEW c \in CardRow, NEW type, NEW due, NEW d,
         d = [c EXCEPT !.type = type, !.queue = type, !.due = due]
  PROVE  d = [type |-> type, queue |-> type, due |-> due, odue |-> c.odue,
              deck |-> c.deck, mtime |-> c.mtime, flag |-> c.flag]
  BY DEF CardRow

-----------------------------------------------------------------------------
(* Moving into and out of filtered decks.                                    *)

\* A card that is moved into a filtered deck keeps the due it had for the way home.
THEOREM MovedIntoFits ==
  ASSUME NEW c \in CardRow, DueFits(c), NEW deck \in {"preview", "filtered"}
  PROVE  MovedInto(c, deck) \in CardRow /\ DueFits(MovedInto(c, deck))
<1>1. CASE c.odue # 0
  BY <1>1 DEF MovedInto
<1>2. CASE c.odue = 0
  <2> DEFINE moved == [type |-> c.type, queue |-> IF deck = "preview" THEN "review" ELSE c.queue,
                       due |-> Position, odue |-> c.due, deck |-> deck,
                       mtime |-> c.mtime, flag |-> c.flag]
  <2>1. c.deck = "home" /\ c.due > 0 /\ c.due \in Int
    BY <1>2 DEF DueFits, CardRow
  <2>2. MovedInto(c, deck) = moved
    BY <1>2, <2>1 DEF MovedInto, CardRow
  <2>3. moved \in CardRow
    BY <2>1 DEF CardRow, Position
  <2>4. moved.type \in {"new", "review"} => ~IsTimestamp(moved.odue)
    BY <2>1 DEF DueFits
  <2>5. [moved EXCEPT !.due = moved.odue].due = moved.odue
        /\ [moved EXCEPT !.due = moved.odue].type = moved.type
    OBVIOUS
  <2>6. DueFits(moved)
    BY <2>1, <2>4, <2>5 DEF DueFits
  <2> QED BY <2>2, <2>3, <2>6
<1> QED BY <1>1, <1>2

\* A card that comes home from a filtered deck has its own due and the queue that reads
\* it, whatever the deck made of either.
THEOREM ReturnedFits ==
  ASSUME NEW c \in CardRow, DueFits(c)
  PROVE  /\ Returned(c) \in CardRow /\ DueFits(Returned(c))
         /\ Returned(c).deck = "home" /\ Returned(c).due = StudyDue(c)
<1>1. CASE c.deck = "home"
  BY <1>1 DEF Returned, StudyDue
<1>2. CASE c.deck # "home"
  <2> DEFINE Home(q) == [type |-> c.type, queue |-> q, due |-> c.odue, odue |-> 0,
                         deck |-> "home", mtime |-> c.mtime, flag |-> c.flag]
             back == IF c.queue \in Shelved THEN c.queue ELSE RestoredQueue(Home(c.queue))
  <2>1. c.odue # 0 /\ c.odue > 0 /\ (c.type \in {"new", "review"} => ~IsTimestamp(c.odue))
    <3>1. [c EXCEPT !.due = c.odue].due = c.odue /\ [c EXCEPT !.due = c.odue].type = c.type
      BY DEF CardRow
    <3> QED BY <1>2, <3>1 DEF DueFits
  <2>2. [c EXCEPT !.deck = "home", !.odue = 0, !.due = c.odue] = Home(c.queue)
    BY HomeRow
  <2>3. \A q : [Home(c.queue) EXCEPT !.queue = q] = Home(q)
    OBVIOUS
  <2>4. Returned(c) = Home(back)
    BY <1>2, <2>1, <2>2, <2>3 DEF Returned
  <2>5. \A q : RestoredQueue(Home(q)) = RestoredQueue(Home(c.queue))
    BY DEF RestoredQueue
  <2>6. RestoredQueue(Home(c.queue)) \in {"new", "review", "learn", "daylearn"}
    BY DEF RestoredQueue
  <2>7. Home(back) \in CardRow
    BY <2>6 DEF CardRow
  <2>8. back \notin Shelved => back = RestoredQueue(Home(back))
    BY <2>5
  <2> HIDE DEF back
  <2>9. DueFits(Home(back))
    BY <2>1, <2>8 DEF DueFits
  <2> QED BY <1>2, <2>1, <2>4, <2>7, <2>9 DEF StudyDue
<1> QED BY <1>1, <1>2

\* Burying and suspending, and taking it back, leave the due to be read.
THEOREM UnshelvedFits ==
  ASSUME NEW c \in CardRow, DueFits(c), NEW queue \in Shelved
  PROVE  /\ Unshelved(c) \in CardRow /\ DueFits(Unshelved(c))
         /\ [c EXCEPT !.queue = queue] \in CardRow /\ DueFits([c EXCEPT !.queue = queue])
<1> DEFINE Put(q) == [type |-> c.type, queue |-> q, due |-> c.due, odue |-> c.odue,
                      deck |-> c.deck, mtime |-> c.mtime, flag |-> c.flag]
<1>1. \A q : [c EXCEPT !.queue = q] = Put(q)
  BY DEF CardRow
<1>2. \A q \in Shelved \union {RestoredQueue(c)} : Put(q) \in CardRow
  BY DEF CardRow, RestoredQueue, Shelved
<1>3. \A q \in Shelved \union {RestoredQueue(c)} : DueFits(Put(q))
  <2> TAKE q \in Shelved \union {RestoredQueue(c)}
  <2>1. RestoredQueue(Put(q)) = RestoredQueue(c)
    BY DEF RestoredQueue
  <2>2. CASE c.deck = "home"
    BY <2>1, <2>2 DEF DueFits
  <2>3. CASE c.deck # "home"
    <3>1. [c EXCEPT !.due = c.odue].due = c.odue /\ [c EXCEPT !.due = c.odue].type = c.type
      BY DEF CardRow
    <3>2. [Put(q) EXCEPT !.due = c.odue].due = c.odue
          /\ [Put(q) EXCEPT !.due = c.odue].type = c.type
      OBVIOUS
    <3> QED BY <2>3, <3>1, <3>2 DEF DueFits
  <2> QED BY <2>2, <2>3
<1>4. Unshelved(c) = c \/ Unshelved(c) = Put(RestoredQueue(c))
  BY <1>1 DEF Unshelved
<1> HIDE DEF Put
<1>5. Unshelved(c) \in CardRow /\ DueFits(Unshelved(c))
  BY <1>2, <1>3, <1>4
<1>6. [c EXCEPT !.queue = queue] \in CardRow /\ DueFits([c EXCEPT !.queue = queue])
  <2>1. [c EXCEPT !.queue = queue] = Put(queue)
    BY <1>1
  <2>2. Put(queue) \in CardRow /\ DueFits(Put(queue))
    BY <1>2, <1>3
  <2> QED BY <2>1, <2>2
<1> QED BY <1>5, <1>6

-----------------------------------------------------------------------------
(* Answers and cards scheduled by hand.                                      *)

LEMMA ReviewedFits ==
  ASSUME NEW c \in CardRow, DueFits(c), NEW time \in Nat, time >= Epoch, DaysBelowEpoch(time),
         NEW days \in Intervals \union {0}, NEW leech \in BOOLEAN
  PROVE  LET d == Suspended(Reviewed(RemovedBeforeReschedule(c), days, time), leech)
         IN d \in CardRow /\ DueFits(d)
<1>1. Today(time) \in Nat \ {0} /\ Today(time) + days < Epoch /\ days \in Nat /\ Epoch \in Nat
  BY DayBounds, ScheduleAssumption DEF DaysBelowEpoch
<1> DEFINE due == Today(time) + days
<1>2. due \in Int /\ due > 0 /\ due < Epoch
  BY <1>1
<1> HIDE DEF due
<1> DEFINE home == [type |-> "review", queue |-> IF leech THEN "suspended" ELSE "review",
                    due |-> due, odue |-> 0, deck |-> "home", mtime |-> c.mtime, flag |-> c.flag]
<1>3. Suspended(Reviewed(RemovedBeforeReschedule(c), days, time), leech) = home
  BY DEF Suspended, Reviewed, RemovedBeforeReschedule, DueFits, CardRow, due
<1>4. home \in CardRow /\ DueFits(home)
  BY <1>1, <1>2 DEF DueFits, CardRow, Shelved, IsTimestamp, RestoredQueue
<1> QED BY <1>3, <1>4

LEMMA LearningFits ==
  ASSUME NEW c \in CardRow, DueFits(c), NEW time \in Nat, time >= Epoch, DaysBelowEpoch(time),
         NEW delay \in Delays, NEW type \in {"learn", "relearn"}, NEW leech \in BOOLEAN
  PROVE  LET d == Rescheduled(Suspended(Learning(c, type, delay, time), leech))
         IN d \in CardRow /\ DueFits(d)
<1> DEFINE left == NextDayAt(time) - time
           days == 1 + (delay - left) \div DayLength
           due  == IF delay < left THEN time + delay ELSE Today(time) + days
           queue == IF delay < left THEN "learn" ELSE "daylearn"
           next == [type |-> type, queue |-> IF leech THEN "suspended" ELSE queue, due |-> due,
                    odue |-> IF c.deck = "home" THEN c.odue ELSE due, deck |-> c.deck,
                    mtime |-> c.mtime, flag |-> c.flag]
<1>1. Today(time) \in Nat \ {0} /\ NextDayAt(time) \in Nat /\ Epoch \in Nat /\ Epoch > 0
      /\ delay \in Nat \ {0}
  BY DayBounds, ScheduleAssumption
<1>2. delay >= left => days \in Nat \ {0} /\ Today(time) + days < Epoch
  BY StepDays
<1>3. Rescheduled(Suspended(Learning(c, type, delay, time), leech)) = next
  BY DEF Rescheduled, Suspended, Learning, CardRow
<1>4. due \in Int /\ due > 0 /\ (IsTimestamp(due) <=> delay < left)
  <2>1. CASE delay < left
    BY <1>1, <2>1 DEF IsTimestamp
  <2>2. CASE ~(delay < left)
    <3> HIDE DEF days
    <3>1. days \in Nat \ {0} /\ Today(time) + days < Epoch
      BY <1>1, <1>2, <2>2
    <3> QED BY <1>1, <2>2, <3>1 DEF IsTimestamp
  <2> QED BY <2>1, <2>2
<1> HIDE DEF due, left, days
<1>5. next \in CardRow
  BY <1>4 DEF CardRow, Shelved
<1>6. DueFits(next)
  BY <1>1, <1>4 DEF DueFits, CardRow, Shelved, RestoredQueue, queue
<1> QED BY <1>3, <1>5, <1>6

LEMMA PreviewedFits ==
  ASSUME NEW c \in CardRow, DueFits(c), c.deck = "preview", NEW time \in Nat,
         NEW delay \in Delays \union {0}
  PROVE  Previewed(c, delay, time) \in CardRow /\ DueFits(Previewed(c, delay, time))
<1>1. CASE delay = 0
  BY <1>1, ReturnedFits DEF Previewed
<1>2. CASE delay # 0
  <2> DEFINE again == [type |-> c.type, queue |-> "preview", due |-> time + delay,
                       odue |-> c.odue, deck |-> c.deck, mtime |-> c.mtime, flag |-> c.flag]
  <2>1. Previewed(c, delay, time) = again
    BY <1>2 DEF Previewed, CardRow
  <2>2. again \in CardRow
    BY <1>2, ScheduleAssumption DEF CardRow
  <2>3. [c EXCEPT !.due = c.odue].due = c.odue /\ [c EXCEPT !.due = c.odue].type = c.type
    BY DEF CardRow
  <2>4. [again EXCEPT !.due = c.odue].due = c.odue /\ [again EXCEPT !.due = c.odue].type = c.type
    OBVIOUS
  <2>5. DueFits(again)
    BY <2>3, <2>4 DEF DueFits
  <2> QED BY <2>1, <2>2, <2>5
<1> QED BY <1>1, <1>2

\* Whatever the answer, and in whatever deck it is given: learning steps within the day
\* and past its end, reviews, lapses, leeches, and showings of a preview.
THEOREM AnsweredFits ==
  ASSUME NEW c \in CardRow, DueFits(c), NEW time \in Nat, time >= Epoch, DaysBelowEpoch(time),
         NEW answer \in Answers(c)
  PROVE  Answered(c, answer, time) \in CardRow /\ DueFits(Answered(c, answer, time))
<1>1. CASE c.deck = "preview"
  <2>1. answer.type = "preview" /\ answer.delay \in Delays \union {0}
    BY <1>1 DEF Answers
  <2> QED BY <1>1, <2>1, PreviewedFits DEF Answered
<1>2. CASE c.deck # "preview"
  <2>1. /\ answer.leech \in BOOLEAN
        /\ \/ answer.type \in {"learn", "relearn"} /\ answer.delay \in Delays
           \/ answer.type = "review" /\ answer.delay \in Intervals
    BY <1>2 DEF Answers, LearningSteps, Graduation, Lapses, CardRow
  <2>2. CASE answer.type = "review"
    BY <2>1, <2>2, ReviewedFits DEF Answered
  <2>3. CASE answer.type # "review"
    <3>1. answer.type \in {"learn", "relearn"} /\ answer.delay \in Delays
      BY <2>1, <2>3
    <3>2. Answered(c, answer, time) =
            Rescheduled(Suspended(Learning(c, answer.type, answer.delay, time), answer.leech))
      BY <3>1 DEF Answered
    <3> QED BY <2>1, <3>1, <3>2, LearningFits
  <2> QED BY <2>2, <2>3
<1> QED BY <1>1, <1>2

\* A card made new again, or given a day by hand, leaves the filtered deck it was in.
THEOREM ScheduledFits ==
  ASSUME NEW c \in CardRow, DueFits(c), NEW due \in Nat \ {0}, due < Epoch
  PROVE  /\ ScheduledAsNew(c, due) \in CardRow /\ DueFits(ScheduledAsNew(c, due))
         /\ ScheduledAsReview(c, due) \in CardRow /\ DueFits(ScheduledAsReview(c, due))
<1> DEFINE Home(type) == [type |-> type, queue |-> type, due |-> due, odue |-> 0,
                          deck |-> "home", mtime |-> c.mtime, flag |-> c.flag]
<1>1. ScheduledAsNew(c, due) = Home("new") /\ ScheduledAsReview(c, due) = Home("review")
  <2> DEFINE c0 == RemovedBeforeReschedule(c)
  <2>1. c.deck = "home" <=> c.odue = 0
    BY DEF DueFits
  <2>2. c0 \in CardRow /\ c0.deck = "home" /\ c0.odue = 0 /\ c0.mtime = c.mtime /\ c0.flag = c.flag
    <3>1. c0 = [type |-> c.type, queue |-> c.queue, due |-> c.due, odue |-> 0,
                deck |-> "home", mtime |-> c.mtime, flag |-> c.flag]
      BY <2>1 DEF RemovedBeforeReschedule, CardRow
    <3> QED BY <3>1 DEF CardRow
  <2> HIDE DEF c0
  <2>3. ASSUME NEW type
        PROVE  [c0 EXCEPT !.type = type, !.queue = type, !.due = due] = Home(type)
    <3> DEFINE d == [c0 EXCEPT !.type = type, !.queue = type, !.due = due]
    <3>1. d = [type |-> type, queue |-> type, due |-> due, odue |-> c0.odue,
               deck |-> c0.deck, mtime |-> c0.mtime, flag |-> c0.flag]
      BY <2>2, ScheduledRow, Zenon
    <3> HIDE DEF d
    <3>2. d = Home(type)
      BY <2>2, <3>1
    <3> QED BY <3>2 DEF d
  <2> QED BY <2>3 DEF ScheduledAsNew, ScheduledAsReview, c0
<1>2. \A type \in {"new", "review"} : Home(type) \in CardRow
  BY DEF CardRow
<1>3. Home("new").deck = "home" /\ Home("review").deck = "home"
  OBVIOUS
<1>4. ~IsTimestamp(due)
  BY ScheduleAssumption DEF IsTimestamp
<1>5. RestoredQueue(Home("new")) = "new" /\ RestoredQueue(Home("review")) = "review"
  BY DEF RestoredQueue
<1>6. DueFits(Home("new")) /\ DueFits(Home("review"))
  BY <1>3, <1>4, <1>5 DEF DueFits
<1> QED BY <1>1, <1>2, <1>6

-----------------------------------------------------------------------------
(* What undo keeps.                                                          *)

Kinds == {"card", "note", "deck", "mod", "answered", "unanswered"}

FitRows == {row \in CardRow : DueFits(row)}

\* The row that taking the change back would bring is one to be read, and the note is
\* one there is.
FitChange(change) ==
  /\ change.kind \in Kinds
  /\ change.kind = "card" /\ change.id \in Cards => change.old \in FitRows
  /\ change.kind = "note" => change.id \in Notes

AllFit(S) == \A change \in S : FitChange(change)

Steps(S) == [op : Ops, changes : Seq(S), marked : BOOLEAN]

Managers(S) ==
  [undo : Seq(Steps(S)), redo : Seq(Steps(S)), mode : {"normal", "undoing", "redoing"},
   current : Steps(S) \union {NoStep}, cache : Int \union {None}]

\* The steps are made of changes that can be taken back.
FitManager(u) == \E S : AllFit(S) /\ u \in Managers(S)

LEMMA MoreChanges ==
  ASSUME NEW S, NEW T, S \subseteq T
  PROVE  /\ Seq(S) \subseteq Seq(T) /\ Steps(S) \subseteq Steps(T)
         /\ Managers(S) \subseteq Managers(T)
<1>1. Seq(S) \subseteq Seq(T)
  BY SeqMonotonic
<1>2. Steps(S) \subseteq Steps(T)
  BY <1>1 DEF Steps
<1>3. Seq(Steps(S)) \subseteq Seq(Steps(T))
  BY <1>2, SeqMonotonic
<1> QED BY <1>1, <1>2, <1>3 DEF Managers

\* An open step takes in more changes.
LEMMA SaveAllFits ==
  ASSUME NEW u, FitManager(u), NEW X, AllFit(X), NEW changes \in Seq(X)
  PROVE  FitManager(SaveAll(u, changes))
<1>1. PICK S : AllFit(S) /\ u \in Managers(S)
  BY DEF FitManager
<1> DEFINE T == S \union X
<1>2. AllFit(T) /\ u \in Managers(T) /\ changes \in Seq(T)
  BY <1>1, MoreChanges DEF AllFit
<1> HIDE DEF T
<1>3. CASE u.current.op = None
  BY <1>1, <1>3 DEF SaveAll, FitManager
<1>4. CASE u.current.op # None
  <2>1. u.current \in Steps(T)
    BY <1>2, <1>4 DEF Managers, NoStep, OpenStep
  <2>2. u.current.changes \o changes \in Seq(T)
    BY <1>2, <2>1, ConcatProperties DEF Steps
  <2>3. [u.current EXCEPT !.changes = @ \o changes] \in Steps(T)
    BY <2>1, <2>2 DEF Steps
  <2>4. SaveAll(u, changes) = [u EXCEPT !.current = [u.current EXCEPT !.changes = @ \o changes]]
    BY <1>2, <1>4 DEF SaveAll, Managers
  <2>5. SaveAll(u, changes) \in Managers(T)
    BY <1>2, <2>3, <2>4 DEF Managers
  <2> QED BY <1>2, <2>5 DEF FitManager
<1> QED BY <1>3, <1>4

LEMMA SaveFits ==
  ASSUME NEW u, FitManager(u), NEW change, FitChange(change)
  PROVE  FitManager(Save(u, change))
<1>1. <<change>> \in Seq({change}) /\ AllFit({change})
  BY DEF AllFit
<1> QED BY <1>1, SaveAllFits, Zenon DEF Save

LEMMA BeginStepFits ==
  ASSUME NEW u, FitManager(u), NEW op \in Ops \union {None}
  PROVE  FitManager(BeginStep(u, op))
<1>1. PICK S : AllFit(S) /\ u \in Managers(S)
  BY DEF FitManager
<1>2. << >> \in Seq(S) /\ << >> \in Seq(Steps(S))
  BY EmptySeq
<1>3. CASE op = None
  <2>1. BeginStep(u, op) \in Managers(S)
    BY <1>1, <1>2, <1>3, Zenon DEF BeginStep, Managers
  <2> QED BY <1>1, <2>1 DEF FitManager
<1>4. CASE op # None
  <2>1. OpenStep(op) \in Steps(S)
    BY <1>2, <1>4 DEF Steps, OpenStep
  <2>2. BeginStep(u, op) \in Managers(S)
    BY <1>1, <1>2, <1>4, <2>1 DEF BeginStep, Managers
  <2> QED BY <1>1, <2>2 DEF FitManager
<1> QED BY <1>3, <1>4

LEMMA EndStepFits ==
  ASSUME NEW u, FitManager(u)
  PROVE  FitManager(EndStep(u))
<1>1. PICK S : AllFit(S) /\ u \in Managers(S)
  BY DEF FitManager
<1> DEFINE ended == [u EXCEPT !.current = NoStep]
<1>2. ended \in Managers(S) /\ ended.undo = u.undo /\ ended.redo = u.redo
  BY <1>1 DEF Managers
<1>3. CASE ~HasChanges(u) \/ u.current.op = "skip"
  BY <1>1, <1>2, <1>3 DEF EndStep, FitManager
<1>4. CASE HasChanges(u) /\ u.current.op # "skip"
  <2>1. u.current \in Steps(S) /\ u.undo \in Seq(Steps(S)) /\ u.redo \in Seq(Steps(S))
    BY <1>1, <1>4 DEF HasChanges, Managers, NoStep, OpenStep
  <2>2. Append(u.redo, u.current) \in Seq(Steps(S))
    BY <2>1, AppendProperties
  <2>3. Kept(u.undo) \in Seq(Steps(S))
    <3> DEFINE n == IF Len(u.undo) < UndoLimit THEN Len(u.undo) ELSE UndoLimit - 1
    <3>1. n \in 0..Len(u.undo)
      BY <2>1, LenProperties, UndoAssumption
    <3>2. \A i \in 1..n : u.undo[i] \in Steps(S)
      BY <2>1, <3>1, LenProperties
    <3> HIDE DEF n
    <3>3. SubSeq(u.undo, 1, n) \in Seq(Steps(S))
      BY <3>1, <3>2, SubSeqProperties
    <3> QED BY <3>3 DEF Kept, n
  <2>4. <<u.current>> \o Kept(u.undo) \in Seq(Steps(S))
    <3>1. <<u.current>> \in Seq(Steps(S))
      BY <2>1
    <3> QED BY <2>3, <3>1, ConcatProperties
  <2>5. [ended EXCEPT !.redo = Append(@, u.current)] \in Managers(S)
        /\ [ended EXCEPT !.undo = <<u.current>> \o Kept(@)] \in Managers(S)
    BY <1>2, <2>2, <2>4 DEF Managers
  <2>6. EndStep(u) \in Managers(S)
    BY <1>4, <2>5 DEF EndStep
  <2> QED BY <1>1, <2>6 DEF FitManager
<1> QED BY <1>3, <1>4

-----------------------------------------------------------------------------
(* Induction: a nonempty set of numbers has a least one.                     *)

LEMMA LeastNumber ==
  ASSUME NEW T, T \subseteq Nat, T # {}
  PROVE  \E m \in T : \A k \in T : m <= k
<1> DEFINE R == OpToRel(<, Nat)
<1>1. \A k, m \in Nat : k < m => <<k, m>> \in R
  BY Zenon DEF OpToRel
<1>2. IsWellFoundedOn(R, Nat)
  BY NatLessThanWellFounded
<1> HIDE DEF R
<1>3. PICK m \in T : \A k \in T : <<k, m>> \notin R
  BY <1>2, WFMin
<1>4. ASSUME NEW k \in T PROVE m <= k
  <2>1. k \in Nat /\ m \in Nat
    BY <1>3
  <2>2. ~(k < m)
    BY <1>1, <1>3, <2>1, Zenon
  <2> QED BY <2>1, <2>2
<1> QED BY <1>3, <1>4

\* Sequences are put together from the first on.
LEMMA FlattenSteps ==
  ASSUME NEW S, NEW seqs \in Seq(Seq(S)), Len(seqs) # 0
  PROVE  \E g : /\ FlattenSeq(seqs) = g[Len(seqs)]
                /\ \A i \in 1..Len(seqs) :
                     /\ g[i] = IF i = 1 THEN seqs[1] ELSE g[i - 1] \o seqs[i]
                     /\ g[i] \in Seq(S)
<1> DEFINE n == Len(seqs)
           Step(g, i) == IF i = 1 THEN seqs[i] ELSE g[i-1] \o seqs[i]
           Joined(g, m) == g = [i \in 1..m |-> Step(g, i)]
           flatten == CHOOSE g : Joined(g, n)
<1>1. n \in Nat /\ \A i \in 1..n : seqs[i] \in Seq(S)
  BY LenProperties
<1>a. n # 0
  OBVIOUS
<1> HIDE DEF n
<1>2. ASSUME NEW m \in 1..n
      PROVE  \E g : Joined(g, m)
  <2> DEFINE T == {k \in 1..n : ~\E g : Joined(g, k)}
  <2>1. SUFFICES ASSUME T # {} PROVE FALSE
    OBVIOUS
  <2>2. T \subseteq Nat
    <3> HIDE DEF Joined
    <3> QED BY <1>1
  <2>3. PICK k \in T : \A j \in T : k <= j
    <3> HIDE DEF T
    <3> QED BY <2>1, <2>2, LeastNumber
  <2>4. k \in 1..n /\ ~\E g : Joined(g, k)
    BY <2>3
  <2>5. k # 1
    <3> DEFINE g == [i \in 1..1 |-> seqs[i]]
    <3>1. Joined(g, 1)
      OBVIOUS
    <3> QED BY <2>4, <3>1
  <2>6. k - 1 \in 1..n /\ k - 1 \notin T
    <3>1. k - 1 \in 1..n /\ ~(k <= k - 1)
      BY <1>1, <2>4, <2>5
    <3> HIDE DEF T
    <3> QED BY <2>3, <3>1
  <2>7. PICK g : Joined(g, k - 1)
    BY <2>6
  <2> DEFINE h == [i \in 1..k |-> Step(g, i)]
  <2>8. ASSUME NEW i \in 1..k PROVE Step(g, i) = Step(h, i)
    <3>1. CASE i = 1
      BY <3>1
    <3>2. CASE i # 1
      <4>1. i - 1 \in 1..(k - 1) /\ i - 1 \in 1..k
        BY <1>1, <2>4, <3>2
      <4>2. g[i-1] = Step(g, i-1)
        BY <2>7, <4>1
      <4>3. h[i-1] = Step(g, i-1)
        BY <4>1
      <4> HIDE DEF h
      <4> QED BY <4>2, <4>3
    <3> QED BY <3>1, <3>2
  <2>9. Joined(h, k)
    BY <2>8, Zenon
  <2> QED BY <2>4, <2>9
<1>3. n \in 1..n
  BY <1>1, <1>a
<1>4. Joined(flatten, n)
  BY <1>2, <1>3, Zenon
<1>5. FlattenSeq(seqs) = flatten[n]
  BY <1>a DEF FlattenSeq, n
<1> HIDE DEF flatten
<1> DEFINE T == {k \in 1..n : flatten[k] \notin Seq(S)}
<1>6. ASSUME T # {} PROVE FALSE
  <2>1. PICK k \in T : \A j \in T : k <= j
    <3>1. T \subseteq Nat
      BY <1>1
    <3> HIDE DEF T
    <3> QED BY <1>6, <3>1, LeastNumber
  <2>2. k \in 1..n /\ flatten[k] \notin Seq(S) /\ flatten[k] = Step(flatten, k)
    BY <1>4, <2>1
  <2>3. k # 1 => flatten[k - 1] \in Seq(S)
    <3>1. k # 1 => k - 1 \in 1..n /\ ~(k <= k - 1)
      BY <1>1, <2>2
    <3> QED BY <2>1, <3>1
  <2> QED BY <1>1, <2>2, <2>3, ConcatProperties
<1>7. ASSUME NEW i \in 1..n
      PROVE  /\ flatten[i] = IF i = 1 THEN seqs[1] ELSE flatten[i - 1] \o seqs[i]
             /\ flatten[i] \in Seq(S)
  BY <1>4, <1>6
<1> QED BY <1>5, <1>7 DEF n

\* Sequences put together hold what was in them.
LEMMA FlattenSeqType ==
  ASSUME NEW S, NEW seqs \in Seq(Seq(S))
  PROVE  FlattenSeq(seqs) \in Seq(S)
<1>1. CASE Len(seqs) = 0
  <2>1. seqs = << >>
    BY <1>1, EmptySeq
  <2> QED BY <1>1, <2>1, EmptySeq DEF FlattenSeq
<1>2. CASE Len(seqs) # 0
  <2>1. Len(seqs) \in 1..Len(seqs)
    BY <1>2, LenProperties
  <2> QED BY <1>2, <2>1, FlattenSteps
<1> QED BY <1>1, <1>2

-----------------------------------------------------------------------------
(* Steps begun by the caller, merged, and kept beside work that is no step.  *)

LEMMA NewManagerFits == FitManager(NewManager)
<1>1. << >> \in Seq(Steps({})) /\ AllFit({})
  BY EmptySeq DEF AllFit
<1>2. NewManager \in Managers({})
  BY <1>1 DEF NewManager, Managers
<1> QED BY <1>1, <1>2 DEF FitManager

LEMMA AddCustomStepFits ==
  ASSUME NEW u, FitManager(u)
  PROVE  FitManager(AddCustomStep(u))
<1> DEFINE unmarked == [i \in DOMAIN u.undo |-> [u.undo[i] EXCEPT !.marked = FALSE]]
           forgot == [u EXCEPT !.undo = unmarked]
           begun  == BeginStep(forgot, "custom")
           marked == [begun EXCEPT !.current.marked = TRUE]
           fresh == OpenStep("custom")
<1>1. PICK S : AllFit(S) /\ u \in Managers(S)
  BY DEF FitManager
<1>2. unmarked \in Seq(Steps(S))
  <2>1. u.undo \in Seq(Steps(S))
    BY <1>1 DEF Managers
  <2>2. Len(u.undo) \in Nat /\ DOMAIN u.undo = 1..Len(u.undo)
        /\ \A i \in DOMAIN u.undo : u.undo[i] \in Steps(S)
    BY <2>1, LenProperties
  <2>3. \A i \in DOMAIN u.undo : [u.undo[i] EXCEPT !.marked = FALSE] \in Steps(S)
    BY <2>2 DEF Steps
  <2> QED BY <2>2, <2>3
<1> HIDE DEF unmarked
<1>3. forgot \in Managers(S) /\ FitManager(forgot)
  BY <1>1, <1>2 DEF Managers, FitManager
<1> HIDE DEF forgot
<1>4. FitManager(begun)
  BY <1>3, BeginStepFits DEF Ops
<1>5. begun.current = fresh
  <2>1. "custom" # None
    BY UndoAssumption DEF Ops
  <2> DEFINE redo == IF forgot.mode = "normal" THEN <<>> ELSE forgot.redo
  <2>2. begun = [forgot EXCEPT !.redo = redo, !.current = fresh]
    BY <2>1 DEF BeginStep
  <2> HIDE DEF redo, fresh, begun
  <2> QED BY <1>3, <2>2 DEF Managers
<1>6. FitManager(marked)
  <2>1. PICK T : AllFit(T) /\ begun \in Managers(T)
    BY <1>4 DEF FitManager
  <2>2. fresh \in Steps(T)
    <3>1. << >> \in Seq(T)
      BY EmptySeq
    <3> QED BY <3>1 DEF Steps, Ops, OpenStep
  <2> HIDE DEF begun, fresh
  <2>3. [begun.current EXCEPT !.marked = TRUE] \in Steps(T)
    BY <1>5, <2>2 DEF Steps
  <2>4. marked = [begun EXCEPT !.current = [begun.current EXCEPT !.marked = TRUE]]
    BY <2>1 DEF Managers
  <2>5. marked \in Managers(T)
    BY <2>1, <2>3, <2>4 DEF Managers
  <2> QED BY <2>1, <2>5 DEF FitManager
<1>7. AddCustomStep(u) = EndStep(marked)
  BY DEF AddCustomStep, unmarked, forgot
<1> HIDE DEF marked
<1> QED BY <1>6, <1>7, EndStepFits

LEMMA MergeFits ==
  ASSUME NEW u, FitManager(u), NEW i \in MergeTargets(u)
  PROVE  FitManager(MergeUndoableOps(u, i))
<1> DEFINE before == [j \in 1..(i - 1) |-> u.undo[i - j].changes]
           joined == FlattenSeq(before)
           target == [u.undo[i] EXCEPT !.changes = @ \o joined]
           rest   == SubSeq(u.undo, i + 1, Len(u.undo))
<1>1. PICK S : AllFit(S) /\ u \in Managers(S)
  BY DEF FitManager
<1>2. /\ u.undo \in Seq(Steps(S)) /\ Len(u.undo) \in Nat /\ i \in 1..Len(u.undo)
      /\ \A j \in 1..Len(u.undo) : u.undo[j] \in Steps(S)
  <2>1. u.undo \in Seq(Steps(S))
    BY <1>1 DEF Managers
  <2> QED BY <2>1, LenProperties DEF MergeTargets
<1>3. before \in Seq(Seq(S))
  <2>1. \A j \in 1..(i - 1) : before[j] \in Seq(S)
    <3> TAKE j \in 1..(i - 1)
    <3>1. i - j \in 1..Len(u.undo)
      BY <1>2
    <3>2. u.undo[i - j].changes \in Seq(S)
      BY <1>2, <3>1 DEF Steps
    <3> QED BY <3>2
  <2>2. i - 1 \in Nat /\ DOMAIN before = 1..(i - 1) /\ before = [j \in 1..(i - 1) |-> before[j]]
    BY <1>2
  <2> HIDE DEF before
  <2> QED BY <2>1, <2>2
<1> HIDE DEF before
<1>4. joined \in Seq(S)
  BY <1>3, FlattenSeqType
<1> HIDE DEF joined
<1>5. target \in Steps(S)
  <2>1. u.undo[i].changes \o joined \in Seq(S)
    BY <1>2, <1>4, ConcatProperties DEF Steps
  <2> QED BY <1>2, <2>1 DEF Steps
<1>6. <<target>> \o rest \in Seq(Steps(S))
  <2>1. rest \in Seq(Steps(S))
    BY <1>2, SubSeqProperties
  <2>2. <<target>> \in Seq(Steps(S))
    BY <1>5
  <2> HIDE DEF target, rest
  <2> QED BY <2>1, <2>2, ConcatProperties
<1>7. MergeUndoableOps(u, i) = [u EXCEPT !.undo = <<target>> \o rest]
  BY DEF MergeUndoableOps, joined, before
<1> HIDE DEF target, rest
<1>8. MergeUndoableOps(u, i) \in Managers(S)
  BY <1>1, <1>6, <1>7 DEF Managers
<1> QED BY <1>1, <1>8 DEF FitManager

LEMMA RetainFits ==
  ASSUME NEW u, FitManager(u), NEW time \in Int
  PROVE  FitManager(RetainCacheModifiedTime(u, time))
<1>1. PICK S : AllFit(S) /\ u \in Managers(S)
  BY DEF FitManager
<1>2. RetainCacheModifiedTime(u, time) \in Managers(S)
  BY <1>1 DEF RetainCacheModifiedTime, Managers
<1> QED BY <1>1, <1>2 DEF FitManager

-----------------------------------------------------------------------------
(* The collection: what an operation may do to it.                           *)

Fields ==
  {"cards", "notes", "linked", "unburied", "mod", "clock", "undo", "queues", "failed", "panicked"}

FitCollection(c) ==
  /\ DOMAIN c = Fields
  /\ c.cards \in [Cards -> FitRows] /\ DOMAIN c.notes = Notes
  /\ c.clock \in Int
  /\ FitManager(c.undo)

\* The time and the flag of a card have no part in its due.
LEMMA SameDueFits ==
  ASSUME NEW c \in CardRow, DueFits(c), NEW d \in CardRow, d.type = c.type, d.queue = c.queue,
         d.due = c.due, d.odue = c.odue, d.deck = c.deck
  PROVE  DueFits(d)
<1>1. RestoredQueue(d) = RestoredQueue(c)
  BY DEF RestoredQueue
<1>2. [c EXCEPT !.due = c.odue].due = c.odue /\ [c EXCEPT !.due = c.odue].type = c.type
  BY DEF CardRow
<1>3. [d EXCEPT !.due = d.odue].due = d.odue /\ [d EXCEPT !.due = d.odue].type = d.type
  BY DEF CardRow
<1> QED BY <1>1, <1>2, <1>3 DEF DueFits

LEMMA StampedFits ==
  ASSUME NEW row \in FitRows, NEW time \in Int
  PROVE  [row EXCEPT !.mtime = time] \in FitRows /\ [row EXCEPT !.flag = ~@] \in FitRows
<1>1. row \in CardRow /\ DueFits(row)
  BY DEF FitRows
<1>2. [row EXCEPT !.mtime = time] \in FitRows
  <2> DEFINE d == [row EXCEPT !.mtime = time]
  <2>1. d \in CardRow /\ d.type = row.type /\ d.queue = row.queue /\ d.due = row.due
        /\ d.odue = row.odue /\ d.deck = row.deck
    BY <1>1 DEF CardRow
  <2> HIDE DEF d
  <2> QED BY <1>1, <2>1, SameDueFits DEF FitRows, d
<1>3. [row EXCEPT !.flag = ~@] \in FitRows
  <2> DEFINE d == [row EXCEPT !.flag = ~@]
  <2>1. d \in CardRow
    BY <1>1 DEF CardRow
  <2>2. d.type = row.type /\ d.queue = row.queue /\ d.due = row.due
        /\ d.odue = row.odue /\ d.deck = row.deck
    BY <1>1 DEF CardRow
  <2> HIDE DEF d
  <2> QED BY <1>1, <2>1, <2>2, SameDueFits DEF FitRows, d
<1> QED BY <1>2, <1>3

\* A part of the collection that has no bearing on the dues.
LEMMA SideFits ==
  ASSUME NEW c, FitCollection(c), NEW x
  PROVE  /\ FitCollection([c EXCEPT !.queues = x]) /\ FitCollection([c EXCEPT !.failed = x])
         /\ FitCollection([c EXCEPT !.panicked = x]) /\ FitCollection([c EXCEPT !.mod = x])
         /\ DOMAIN x = Notes => FitCollection([c EXCEPT !.notes = x])
  BY DEF FitCollection, Fields

LEMMA ClockFits ==
  ASSUME NEW c, FitCollection(c)
  PROVE  FitCollection([c EXCEPT !.clock = @ + 1]) /\ Millis(c) \in Int
  BY DEF FitCollection, Fields, Millis

LEMMA ManagerFits ==
  ASSUME NEW c, FitCollection(c), NEW u, FitManager(u)
  PROVE  FitCollection([c EXCEPT !.undo = u])
  BY DEF FitCollection, Fields

LEMMA SaveUndoFits ==
  ASSUME NEW c, FitCollection(c), NEW change, FitChange(change)
  PROVE  FitCollection(SaveUndo(c, change)) /\ SaveUndo(c, change).cards = c.cards
<1>1. FitManager(Save(c.undo, change))
  BY SaveFits DEF FitCollection
<1> QED BY <1>1, ManagerFits DEF SaveUndo, FitCollection, Fields

\* Only a change of a card or a note says what one was.
LEMMA OtherChange ==
  ASSUME NEW kind \in Kinds \ {"card"}, NEW id, NEW old, kind = "note" => id \in Notes
  PROVE  FitChange(Change(kind, id, old))
  BY DEF FitChange, Change

\* A card is given another row to be read; the queues may be for other cards.
LEMMA UpdateUndoableFits ==
  ASSUME NEW c, FitCollection(c), NEW id, NEW card, id \in Cards => card \in FitRows
  PROVE  FitCollection(UpdateCardUndoable(c, id, card))
<1> DEFINE change == Change("card", id, c.cards[id])
           saved  == SaveUndo(c, change)
<1>1. FitChange(change)
  BY DEF FitChange, Change, FitCollection, Kinds
<1>2. FitCollection(saved) /\ saved.cards = c.cards
  BY <1>1, SaveUndoFits
<1>3. UpdateCardUndoable(c, id, card) = [saved EXCEPT !.cards[id] = card]
  BY DEF UpdateCardUndoable
<1> HIDE DEF saved
<1>4. [saved.cards EXCEPT ![id] = card] \in [Cards -> FitRows]
  BY <1>2 DEF FitCollection
<1>5. [saved EXCEPT !.cards[id] = card] = [saved EXCEPT !.cards = [saved.cards EXCEPT ![id] = card]]
  BY <1>2 DEF FitCollection, Fields
<1>6. FitCollection([saved EXCEPT !.cards = [saved.cards EXCEPT ![id] = card]])
  BY <1>2, <1>4 DEF FitCollection, Fields
<1> QED BY <1>3, <1>5, <1>6

LEMMA UpdateFits ==
  ASSUME NEW c, FitCollection(c), NEW id, NEW card, id \in Cards => card \in FitRows, now \in Int
  PROVE  FitCollection(UpdateCard(c, id, card))
  BY UpdateUndoableFits, StampedFits DEF UpdateCard

-----------------------------------------------------------------------------
(* The steps of an operation.                                                *)

\* Many cards are given other rows: an enumeration of them, which leaves none out, and
\* one change for each.
LEMMA Enumeration ==
  ASSUME NEW D, IsFiniteSet(D)
  PROVE  /\ Cardinality(D) \in Nat /\ SetToSeq(D) \in [1..Cardinality(D) -> D]
         /\ \A id \in D : \E i \in 1..Cardinality(D) : SetToSeq(D)[i] = id
<1> DEFINE n == Cardinality(D)
           ids == SetToSeq(D)
<1>1. n \in Nat /\ ExistsBijection(1..n, D)
  BY FS_CardinalityType
<1>2. PICK f \in Bijection(1..n, D) : TRUE
  BY <1>1 DEF ExistsBijection
<1>3. f \in [1..n -> D] /\ IsInjective(f)
  BY <1>2 DEF Bijection, Injection, IsInjective
<1>4. \E g \in [1..n -> D] : IsInjective(g)
  BY <1>3
<1>5. ids \in [1..n -> D] /\ IsInjective(ids)
  BY <1>4, Zenon DEF SetToSeq
<1>6. ids \in Injection(1..n, D)
  BY <1>5 DEF Injection, IsInjective
<1>7. Cardinality(1..n) = n
  BY <1>1, FS_Interval
<1> HIDE DEF n, ids
<1>8. ids \in Surjection(1..n, D)
  BY <1>6, <1>7, FS_Injection DEF n
<1>9. \A id \in D : \E i \in 1..n : ids[i] = id
  BY <1>8 DEF Surjection
<1> QED BY <1>1, <1>5, <1>9 DEF n, ids

LEMMA UpdateCardsFits ==
  ASSUME NEW c, FitCollection(c), now \in Int, NEW D \in SUBSET Cards, NEW rows \in [D -> FitRows]
  PROVE  FitCollection(UpdateCards(c, rows))
<1> DEFINE ids == SetToSeq(D)
           X   == {Change("card", id, c.cards[id]) : id \in D}
           changes == [i \in DOMAIN ids |-> Change("card", ids[i], c.cards[ids[i]])]
           cards == [id \in Cards |-> IF id \in D THEN [rows[id] EXCEPT !.mtime = now] ELSE c.cards[id]]
<1>1. Cardinality(D) \in Nat /\ ids \in [1..Cardinality(D) -> D]
  BY Enumeration, QueuesAssumption, FS_Subset
<1>2. AllFit(X)
  <2> SUFFICES ASSUME NEW id \in D PROVE FitChange(Change("card", id, c.cards[id]))
    BY DEF AllFit
  <2> QED BY DEF FitChange, Change, FitCollection, Kinds
<1>3. changes \in Seq(X)
  <2> HIDE DEF ids
  <2>1. \A i \in 1..Cardinality(D) : changes[i] \in X
    BY <1>1
  <2>2. changes = [i \in 1..Cardinality(D) |-> changes[i]]
    BY <1>1
  <2> HIDE DEF changes, X
  <2> QED BY <1>1, <2>1, <2>2
<1>4. FitManager(SaveAll(c.undo, changes))
  <2> HIDE DEF changes, X
  <2> QED BY <1>2, <1>3, SaveAllFits DEF FitCollection
<1>5. cards \in [Cards -> FitRows]
  <2> SUFFICES ASSUME NEW id \in Cards
               PROVE  (IF id \in D THEN [rows[id] EXCEPT !.mtime = now] ELSE c.cards[id]) \in FitRows
    OBVIOUS
  <2>1. c.cards[id] \in FitRows
    BY DEF FitCollection
  <2>2. CASE id \in D
    <3>1. rows[id] \in FitRows
      BY <2>2
    <3>2. [rows[id] EXCEPT !.mtime = now] \in FitRows
      BY <3>1, StampedFits
    <3> QED BY <2>2, <3>2
  <2> QED BY <2>1, <2>2
<1>6. UpdateCards(c, rows) = [c EXCEPT !.undo = SaveAll(c.undo, changes), !.cards = cards]
  <2>1. DOMAIN rows = D
    OBVIOUS
  <2> QED BY <2>1 DEF UpdateCards
<1> HIDE DEF changes, cards
<1> QED BY <1>4, <1>5, <1>6 DEF FitCollection, Fields

LEMMA UpdateNoteFits ==
  ASSUME NEW c, FitCollection(c), NEW id \in Notes, NEW note
  PROVE  FitCollection(UpdateNote(c, id, note))
<1>1. FitCollection(SaveUndo(c, Change("note", id, c.notes[id])))
  BY SaveUndoFits, OtherChange DEF Kinds
<1> DEFINE saved == SaveUndo(c, Change("note", id, c.notes[id]))
<1>2. UpdateNote(c, id, note) = [saved EXCEPT !.notes[id] = note]
  BY DEF UpdateNote
<1> HIDE DEF saved
<1>3. [saved EXCEPT !.notes[id] = note] = [saved EXCEPT !.notes = [saved.notes EXCEPT ![id] = note]]
  BY <1>1 DEF FitCollection, Fields, saved
<1> DEFINE notes == [saved.notes EXCEPT ![id] = note]
<1>4. FitCollection([saved EXCEPT !.notes = notes])
  <2>1. DOMAIN notes = Notes /\ FitCollection(saved)
    BY <1>1 DEF FitCollection, saved
  <2> HIDE DEF notes
  <2> QED BY <2>1, SideFits
<1> QED BY <1>2, <1>3, <1>4

LEMMA SetModifiedTimeFits ==
  ASSUME NEW c, FitCollection(c), NEW time
  PROVE  FitCollection(SetModifiedTime(c, time))
<1>1. FitCollection(SaveUndo(c, Change("mod", None, c.mod)))
  BY SaveUndoFits, OtherChange DEF Kinds
<1> QED BY <1>1, SideFits DEF SetModifiedTime

LEMMA DiscardedFits ==
  ASSUME NEW c, FitCollection(c)
  PROVE  FitCollection(Discarded(c))
<1>1. FitManager(BeginStep(c.undo, None))
  BY BeginStepFits DEF FitCollection
<1>2. FitCollection([c EXCEPT !.undo = BeginStep(c.undo, None)])
  BY <1>1, ManagerFits
<1>3. Discarded(c) = [[c EXCEPT !.undo = BeginStep(c.undo, None)] EXCEPT !.queues = None]
  BY DEF Discarded, FitCollection, Fields
<1> DEFINE ended == [c EXCEPT !.undo = BeginStep(c.undo, None)]
<1>4. FitCollection([ended EXCEPT !.queues = None])
  <2> HIDE DEF ended
  <2> QED BY <1>2, SideFits, Zenon DEF ended
<1> QED BY <1>3, <1>4

LEMMA UnburiedFits ==
  ASSUME NEW c, FitCollection(c)
  PROVE  FitCollection(Unburied(c))
<1> DEFINE cards == [id \in Cards |-> IF c.cards[id].queue = "buried" THEN Unshelved(c.cards[id])
                                      ELSE c.cards[id]]
<1>1. cards \in [Cards -> FitRows]
  <2> SUFFICES ASSUME NEW id \in Cards
               PROVE  (IF c.cards[id].queue = "buried" THEN Unshelved(c.cards[id])
                       ELSE c.cards[id]) \in FitRows
    OBVIOUS
  <2>1. c.cards[id] \in FitRows
    BY DEF FitCollection
  <2>2. Unshelved(c.cards[id]) \in FitRows
    BY <2>1, UnshelvedFits DEF FitRows, Shelved
  <2> QED BY <2>1, <2>2
<1>2. Unburied(c) = [c EXCEPT !.cards = cards, !.unburied = Today(now)]
  BY DEF Unburied
<1> HIDE DEF cards
<1> QED BY <1>1, <1>2 DEF FitCollection, Fields

LEMMA ClearIfDayChangedFits ==
  ASSUME NEW c, FitCollection(c)
  PROVE  FitCollection(ClearIfDayChanged(c))
<1>1. FitCollection(Unburied(Discarded(c)))
  BY DiscardedFits, UnburiedFits
<1> QED BY <1>1 DEF ClearIfDayChanged

LEMMA OrInvalidatedFits ==
  ASSUME NEW c, FitCollection(c), NEW build
  PROVE  FitCollection(OrInvalidated(c, build))
<1> DEFINE fresh == ClearIfDayChanged(c)
<1>1. FitCollection(fresh)
  BY ClearIfDayChangedFits
<1>2. OrInvalidated(c, build) = fresh \/ OrInvalidated(c, build) = [fresh EXCEPT !.queues = None]
  BY DEF OrInvalidated
<1> HIDE DEF fresh
<1>3. FitCollection([fresh EXCEPT !.queues = None])
  BY <1>1, SideFits, Zenon
<1> QED BY <1>1, <1>2, <1>3

LEMMA UndoneAnswerFits ==
  ASSUME NEW c, FitCollection(c), NEW update
  PROVE  FitCollection(UndoAnswer(c, update)) /\ FitCollection(RedoAnswer(c, update))
<1> DEFINE valid == OrInvalidated(c, update.build)
<1>1. FitCollection(valid)
  BY OrInvalidatedFits
<1>2. \A kind \in {"answered", "unanswered"} : FitChange(Change(kind, None, update))
  BY OtherChange DEF Kinds
<1>3. \A d : FitCollection(d) => /\ FitCollection(SaveUndo(d, Change("unanswered", None, update)))
                                 /\ FitCollection(SaveUndo(d, Change("answered", None, update)))
  BY <1>2, SaveUndoFits
<1>4. FitCollection(UndoAnswer(c, update))
  <2> DEFINE back == [valid EXCEPT !.queues = Unanswered(valid.queues, update)]
  <2>1. FitCollection(back)
    BY <1>1, SideFits
  <2>2. \/ UndoAnswer(c, update) = SaveUndo(valid, Change("unanswered", None, update))
        \/ UndoAnswer(c, update) = SaveUndo(back, Change("unanswered", None, update))
    BY DEF UndoAnswer
  <2> HIDE DEF back, valid
  <2> QED BY <1>1, <1>3, <2>1, <2>2
<1>5. FitCollection(RedoAnswer(c, update))
  <2> DEFINE again == [valid EXCEPT !.queues = Reanswered(valid.queues, update)]
             stuck == [valid EXCEPT !.failed = TRUE]
  <2>1. FitCollection(again) /\ FitCollection(stuck)
    BY <1>1, SideFits
  <2>2. \/ RedoAnswer(c, update) = stuck
        \/ RedoAnswer(c, update) = SaveUndo(valid, Change("answered", None, update))
        \/ RedoAnswer(c, update) = SaveUndo(again, Change("answered", None, update))
    BY DEF RedoAnswer
  <2> HIDE DEF again, stuck, valid
  <2> QED BY <1>1, <1>3, <2>1, <2>2
<1> QED BY <1>4, <1>5

-----------------------------------------------------------------------------
(* Taking changes back, and closing an operation.                            *)

LEMMA UndoChangeFits ==
  ASSUME NEW c, FitCollection(c), NEW change, FitChange(change)
  PROVE  FitCollection(UndoChange(change, c))
<1>1. FitCollection(UpdateCardUndoable(c, change.id, change.old)) \/ change.kind # "card"
  BY UpdateUndoableFits DEF FitChange
<1>2. FitCollection(UpdateNote(c, change.id, change.old)) \/ change.kind # "note"
  BY UpdateNoteFits DEF FitChange
<1>3. FitCollection(SaveUndo(c, change))
  BY SaveUndoFits
<1>4. FitCollection(SetModifiedTime(c, ModifiedTimeWithCache(c.undo, change.old, c.mod)))
  BY SetModifiedTimeFits
<1>5. FitCollection(UndoAnswer(c, change.old)) /\ FitCollection(RedoAnswer(c, change.old))
  BY UndoneAnswerFits
<1>6. change.kind \in Kinds
  BY DEF FitChange
<1>7. \/ UndoChange(change, c) = c
      \/ change.kind = "card" /\ UndoChange(change, c) = UpdateCardUndoable(c, change.id, change.old)
      \/ change.kind = "note" /\ UndoChange(change, c) = UpdateNote(c, change.id, change.old)
      \/ UndoChange(change, c) = SaveUndo(c, change)
      \/ UndoChange(change, c) = SetModifiedTime(c, ModifiedTimeWithCache(c.undo, change.old, c.mod))
      \/ UndoChange(change, c) = UndoAnswer(c, change.old)
      \/ UndoChange(change, c) = RedoAnswer(c, change.old)
  BY <1>6 DEF UndoChange, Kinds
<1> QED BY <1>1, <1>2, <1>3, <1>4, <1>5, <1>7, Zenon

\* The changes are taken back one by one.
LEMMA OneByOne ==
  ASSUME NEW c, NEW S, NEW changes \in Seq(S)
  PROVE  \E after :
           /\ UndoChanges(c, changes) = after[Len(changes)] /\ after[0] = c
           /\ \A i \in 1..Len(changes) :
                after[i] = UndoChange(changes[Len(changes) + 1 - i], after[i - 1])
<1> DEFINE n == Len(changes)
           Step(g, i) == IF i = 0 THEN c ELSE UndoChange(changes[n + 1 - i], g[i - 1])
           Undone(g, m) == g = [i \in 0..m |-> Step(g, i)]
           after == CHOOSE g : Undone(g, n)
<1>1. n \in Nat
  BY LenProperties
<1>2. UndoChanges(c, changes) = after[n]
  BY DEF UndoChanges
<1> HIDE DEF n
<1>3. ASSUME NEW m \in 0..n
      PROVE  \E g : Undone(g, m)
  <2> DEFINE T == {k \in 0..n : ~\E g : Undone(g, k)}
  <2>1. SUFFICES ASSUME T # {} PROVE FALSE
    OBVIOUS
  <2>2. T \subseteq Nat
    <3> HIDE DEF Undone
    <3> QED BY <1>1
  <2>3. PICK k \in T : \A j \in T : k <= j
    <3> HIDE DEF T
    <3> QED BY <2>1, <2>2, LeastNumber
  <2>4. k \in 0..n /\ ~\E g : Undone(g, k)
    BY <2>3
  <2>5. k # 0
    <3> DEFINE g == [i \in 0..0 |-> c]
    <3>1. Undone(g, 0)
      OBVIOUS
    <3> QED BY <2>4, <3>1
  <2>6. k - 1 \in 0..n /\ k - 1 \notin T
    <3>1. k - 1 \in 0..n /\ ~(k <= k - 1)
      BY <1>1, <2>4, <2>5
    <3> HIDE DEF T
    <3> QED BY <2>3, <3>1
  <2>7. PICK g : Undone(g, k - 1)
    BY <2>6
  <2> DEFINE h == [i \in 0..k |-> Step(g, i)]
  <2>8. ASSUME NEW i \in 0..k PROVE Step(g, i) = Step(h, i)
    <3>1. CASE i = 0
      BY <3>1
    <3>2. CASE i # 0
      <4>1. i - 1 \in 0..(k - 1) /\ i - 1 \in 0..k
        BY <1>1, <2>4, <3>2
      <4>2. g[i-1] = Step(g, i-1)
        BY <2>7, <4>1
      <4>3. h[i-1] = Step(g, i-1)
        BY <4>1
      <4> HIDE DEF h
      <4> QED BY <4>2, <4>3
    <3> QED BY <3>1, <3>2
  <2>9. Undone(h, k)
    BY <2>8, Zenon
  <2> QED BY <2>4, <2>9
<1>4. Undone(after, n)
  <2>1. n \in 0..n
    BY <1>1
  <2> QED BY <1>3, <2>1
<1> HIDE DEF after
<1>5. after[0] = c /\ \A i \in 1..n : after[i] = UndoChange(changes[n + 1 - i], after[i - 1])
  <2>1. \A i \in 0..n : after[i] = Step(after, i)
    BY <1>4
  <2>2. 0 \in 0..n /\ \A i \in 1..n : i \in 0..n /\ i # 0
    BY <1>1
  <2> QED BY <2>1, <2>2
<1> QED BY <1>2, <1>5 DEF n

\* However many changes a step is made of.
LEMMA UndoChangesFits ==
  ASSUME NEW c, FitCollection(c), NEW S, AllFit(S), NEW changes \in Seq(S)
  PROVE  FitCollection(UndoChanges(c, changes))
<1> DEFINE n == Len(changes)
<1>1. n \in Nat /\ \A i \in 1..n : changes[i] \in S
  BY LenProperties
<1>2. PICK after : /\ UndoChanges(c, changes) = after[n] /\ after[0] = c
                   /\ \A i \in 1..n : after[i] = UndoChange(changes[n + 1 - i], after[i - 1])
  BY OneByOne
<1> HIDE DEF n
<1> DEFINE T == {k \in 0..n : ~FitCollection(after[k])}
<1>3. ASSUME T # {} PROVE FALSE
  <2>1. PICK k \in T : \A j \in T : k <= j
    <3>1. T \subseteq Nat
      BY <1>1
    <3> HIDE DEF T
    <3> QED BY <1>3, <3>1, LeastNumber
  <2>2. k \in 0..n /\ ~FitCollection(after[k])
    BY <2>1
  <2>3. k \in 1..n /\ k - 1 \in 0..n /\ ~(k <= k - 1) /\ n + 1 - k \in 1..n
    <3>1. k # 0
      BY <1>2, <2>2
    <3> QED BY <1>1, <2>2, <3>1
  <2>4. FitCollection(after[k - 1]) /\ FitChange(changes[n + 1 - k])
    BY <1>1, <2>1, <2>3 DEF AllFit
  <2>5. FitCollection(UndoChange(changes[n + 1 - k], after[k - 1]))
    BY <2>4, UndoChangeFits
  <2> QED BY <1>2, <2>2, <2>3, <2>5
<1>4. n \in 0..n
  BY <1>1
<1> QED BY <1>2, <1>3, <1>4

LEMMA FinishedFits ==
  ASSUME NEW c, FitCollection(c), c.undo.current.op # None, NEW op, NEW quick
  PROVE  FitCollection(Finished(c, op, quick))
<1> DEFINE u == c.undo
           emptied == [u EXCEPT !.current.changes = <<>>]
           merged  == IF Coalesces(u, op, quick) THEN emptied ELSE u
           kept    == IF op # "answer" /\ RequiresRebuild(op, u.current.changes) THEN None ELSE c.queues
<1>1. PICK S : AllFit(S) /\ u \in Managers(S)
  BY DEF FitCollection, FitManager
<1>2. FitManager(emptied)
  <2>1. u.current \in Steps(S) /\ << >> \in Seq(S)
    BY <1>1, EmptySeq DEF Managers, NoStep, OpenStep
  <2>2. [u.current EXCEPT !.changes = <<>>] \in Steps(S)
    BY <2>1 DEF Steps
  <2>3. emptied = [u EXCEPT !.current = [u.current EXCEPT !.changes = <<>>]]
    BY <1>1 DEF Managers
  <2>4. emptied \in Managers(S)
    BY <1>1, <2>2, <2>3 DEF Managers
  <2> QED BY <1>1, <2>4 DEF FitManager
<1>3. FitManager(EndStep(merged))
  <2>1. FitManager(merged)
    BY <1>2 DEF FitCollection
  <2> HIDE DEF merged
  <2> QED BY <2>1, EndStepFits
<1>4. Finished(c, op, quick) = [c EXCEPT !.queues = kept, !.undo = EndStep(merged)]
  BY DEF Finished
<1> HIDE DEF merged, kept
<1> QED BY <1>3, <1>4 DEF FitCollection, Fields

LEMMA BegunFits ==
  ASSUME NEW c, FitCollection(c), NEW op \in Ops
  PROVE  /\ FitCollection(Started(c))
         /\ FitCollection(Begun(c, op)) /\ Begun(c, op).cards = c.cards
<1> DEFINE started == Started(c)
<1>1. FitCollection(started) /\ started.undo = c.undo /\ started.cards = c.cards
  BY ClockFits DEF Started, FitCollection, Fields
<1>2. Begun(c, op) = [started EXCEPT !.undo = BeginStep(c.undo, op)] \/ Begun(c, op) = [started EXCEPT !.undo = BeginStep(started.undo, op)]
  BY DEF Begun
<1> HIDE DEF started
<1>3. FitManager(BeginStep(c.undo, op))
  BY BeginStepFits DEF FitCollection
<1> QED BY <1>1, <1>2, <1>3, ManagerFits DEF FitCollection, Fields, started

LEMMA ClosedFits ==
  ASSUME NEW before, FitCollection(before), NEW after, FitCollection(after), NEW op, NEW quick
  PROVE  FitCollection(Closed(before, after, op, quick))
<1> DEFINE saved == IF HasChanges(after.undo) /\ after.undo.mode = "normal" THEN SetModified(after)
                    ELSE after
<1>1. FitCollection(saved)
  BY SetModifiedTimeFits DEF SetModified
<1>2. FitCollection(Discarded(Started(before)))
  BY DiscardedFits, ClockFits DEF Started
<1>3. \/ Closed(before, after, op, quick) = Discarded(Started(before))
      \/ Closed(before, after, op, quick) = [saved EXCEPT !.panicked = TRUE]
      \/ saved.undo.current.op # None /\ Closed(before, after, op, quick) = Finished(saved, op, quick)
  BY DEF Closed
<1> HIDE DEF saved
<1>4. FitCollection([saved EXCEPT !.panicked = TRUE])
  BY <1>1, SideFits, Zenon
<1>5. saved.undo.current.op # None => FitCollection(Finished(saved, op, quick))
  BY <1>1, FinishedFits
<1> QED BY <1>2, <1>3, <1>4, <1>5

LEMMA InModeFits ==
  ASSUME NEW c, FitCollection(c), NEW mode \in {"normal", "undoing", "redoing"}
  PROVE  FitCollection(InMode(c, mode))
<1>1. PICK S : AllFit(S) /\ c.undo \in Managers(S)
  BY DEF FitCollection, FitManager
<1>2. [c.undo EXCEPT !.mode = mode] \in Managers(S)
  BY <1>1 DEF Managers
<1>3. InMode(c, mode) = [c EXCEPT !.undo = [c.undo EXCEPT !.mode = mode]]
  BY DEF InMode, FitCollection, Fields
<1>4. FitManager([c.undo EXCEPT !.mode = mode])
  BY <1>1, <1>2 DEF FitManager
<1> QED BY <1>3, <1>4, ManagerFits

LEMMA UndoInnerFits ==
  ASSUME NEW c, FitCollection(c), NEW S, AllFit(S), NEW step \in Steps(S),
         NEW mode \in {"undoing", "redoing"}, NEW quick
  PROVE  FitCollection(UndoInner(c, step, mode, quick))
<1> DEFINE m == InMode(c, mode)
           begun == Begun(m, step.op)
           reverted == UndoChanges(begun, step.changes)
<1>1. step.op \in Ops /\ step.changes \in Seq(S)
  BY DEF Steps
<1>2. FitCollection(m)
  BY InModeFits
<1>3. FitCollection(begun)
  <2> HIDE DEF m
  <2> QED BY <1>1, <1>2, BegunFits
<1>4. FitCollection(reverted)
  <2> HIDE DEF begun
  <2> QED BY <1>1, <1>3, UndoChangesFits
<1>5. FitCollection(Closed(m, reverted, step.op, quick))
  <2> HIDE DEF m, reverted
  <2> QED BY <1>2, <1>4, ClosedFits
<1>6. UndoInner(c, step, mode, quick) = InMode(Closed(m, reverted, step.op, quick), "normal")
  BY DEF UndoInner, Transact
<1> HIDE DEF m, reverted
<1> QED BY <1>5, <1>6, InModeFits

LEMMA UndoStepFits ==
  ASSUME NEW c, FitCollection(c), c.undo.undo # << >>, NEW quick
  PROVE  FitCollection(UndoStep(c, quick))
<1>1. PICK S : AllFit(S) /\ c.undo \in Managers(S)
  BY DEF FitCollection, FitManager
<1>2. Head(c.undo.undo) \in Steps(S) /\ Tail(c.undo.undo) \in Seq(Steps(S))
  <2>1. c.undo.undo \in Seq(Steps(S))
    BY <1>1 DEF Managers
  <2> QED BY <2>1, HeadTailProperties
<1> DEFINE u == [c.undo EXCEPT !.undo = Tail(c.undo.undo)]
           left == [c EXCEPT !.undo = u]
<1>3. u \in Managers(S)
  BY <1>1, <1>2 DEF Managers
<1>4. FitCollection(left)
  <2> HIDE DEF u
  <2> QED BY <1>1, <1>3, ManagerFits DEF FitManager
<1>5. [c EXCEPT !.undo.undo = Tail(@)] = left
  BY DEF FitCollection, Fields
<1>6. UndoStep(c, quick) = UndoInner(left, Head(c.undo.undo), "undoing", quick)
  <2> HIDE DEF left
  <2> QED BY <1>5 DEF UndoStep
<1> HIDE DEF left
<1> QED BY <1>1, <1>2, <1>4, <1>6, UndoInnerFits

LEMMA RedoStepFits ==
  ASSUME NEW c, FitCollection(c), c.undo.redo # << >>, NEW quick
  PROVE  FitCollection(RedoStep(c, quick))
<1>1. PICK S : AllFit(S) /\ c.undo \in Managers(S)
  BY DEF FitCollection, FitManager
<1>2. Last(c.undo.redo) \in Steps(S) /\ Front(c.undo.redo) \in Seq(Steps(S))
  <2> DEFINE redo == c.undo.redo
  <2>1. redo \in Seq(Steps(S)) /\ redo # << >>
    BY <1>1 DEF Managers
  <2> HIDE DEF redo
  <2>2. Len(redo) \in Nat \ {0} /\ \A i \in 1..Len(redo) : redo[i] \in Steps(S)
    BY <2>1, EmptySeq, ElementOfSeq
  <2>3. \A i \in 1..(Len(redo) - 1) : redo[i] \in Steps(S)
    BY <2>2
  <2>4. SubSeq(redo, 1, Len(redo) - 1) \in Seq(Steps(S))
    BY <2>2, <2>3, SubSeqProperties
  <2>5. redo[Len(redo)] \in Steps(S)
    BY <2>2
  <2> QED BY <2>4, <2>5 DEF Last, Front, redo
<1> DEFINE u == [c.undo EXCEPT !.redo = Front(c.undo.redo)]
           left == [c EXCEPT !.undo = u]
<1>3. u \in Managers(S)
  BY <1>1, <1>2 DEF Managers
<1>4. FitCollection(left)
  <2> HIDE DEF u
  <2> QED BY <1>1, <1>3, ManagerFits DEF FitManager
<1>5. [c EXCEPT !.undo.redo = Front(@)] = left
  BY DEF FitCollection, Fields
<1>6. RedoStep(c, quick) = UndoInner(left, Last(c.undo.redo), "redoing", quick)
  <2> HIDE DEF left
  <2> QED BY <1>5 DEF RedoStep
<1> HIDE DEF left
<1> QED BY <1>1, <1>2, <1>4, <1>6, UndoInnerFits

\* Work beside the steps starts from no steps, and gives those there were back.
LEMMA BesideFits ==
  ASSUME NEW c, FitCollection(c)
  PROVE  /\ FitCollection(Alone(c)) /\ Alone(c).cards = c.cards
         /\ \A done : FitCollection(done) => FitCollection(Rejoined(c, done))
<1>1. TimeBeside(c) \in Int
  BY ClockFits DEF TimeBeside, Started
<1> DEFINE time == TimeBeside(c)
           alone == RetainCacheModifiedTime(NewManager, time)
           kept == RetainCacheModifiedTime(c.undo, time)
<1> HIDE DEF time
<1>2. FitManager(alone) /\ FitManager(kept)
  BY <1>1, NewManagerFits, RetainFits DEF FitCollection, time
<1>3. Alone(c) = [c EXCEPT !.undo = alone]
  BY DEF Alone, time
<1>4. \A done : Rejoined(c, done) = [done EXCEPT !.undo = kept]
  BY DEF Rejoined, time
<1> HIDE DEF alone, kept
<1>5. FitCollection([c EXCEPT !.undo = alone]) /\ [c EXCEPT !.undo = alone].cards = c.cards
  BY <1>2, ManagerFits DEF FitCollection, Fields
<1>6. \A done : FitCollection(done) => FitCollection([done EXCEPT !.undo = kept])
  BY <1>2, ManagerFits
<1> QED BY <1>3, <1>4, <1>5, <1>6

-----------------------------------------------------------------------------
(* The operations.                                                           *)

LEMMA BuryOrSuspendFits ==
  ASSUME NEW c, FitCollection(c), now \in Int, NEW ids \in SUBSET Cards, NEW queue \in Shelved
  PROVE  FitCollection(BuryOrSuspend(c, ids, queue))
<1> DEFINE put  == {id \in ids : c.cards[id].queue \notin {queue, "suspended"}}
           rows == [id \in put |-> [c.cards[id] EXCEPT !.queue = queue]]
<1>1. rows \in [put -> FitRows]
  <2> SUFFICES ASSUME NEW id \in put PROVE [c.cards[id] EXCEPT !.queue = queue] \in FitRows
    OBVIOUS
  <2>1. c.cards[id] \in FitRows
    BY DEF FitCollection
  <2> QED BY <2>1, UnshelvedFits DEF FitRows
<1>2. put \in SUBSET Cards
  OBVIOUS
<1>3. BuryOrSuspend(c, ids, queue) = UpdateCards(c, rows)
  BY DEF BuryOrSuspend
<1> HIDE DEF put, rows
<1> QED BY <1>1, <1>2, <1>3, UpdateCardsFits

\* The card that is answered and the siblings that are buried with it.
LEMMA AnswerInnerFits ==
  ASSUME NEW c, FitCollection(c), now \in Nat, now >= Epoch, DaysBelowEpoch(now),
         NEW id, NEW answer \in Answers(c.cards[id])
  PROVE  FitCollection(AnswerInner(c, id, answer))
<1>1. FitCollection(BurySiblings(c, id))
  BY BuryOrSuspendFits DEF BurySiblings, Siblings, Shelved
<1>2. id \in Cards => Answered(c.cards[id], answer, now) \in FitRows
  <2> SUFFICES ASSUME id \in Cards PROVE Answered(c.cards[id], answer, now) \in FitRows
    OBVIOUS
  <2>1. c.cards[id] \in CardRow /\ DueFits(c.cards[id])
    BY DEF FitCollection, FitRows
  <2> QED BY <2>1, AnsweredFits DEF FitRows
<1> QED BY <1>1, <1>2, UpdateFits DEF AnswerInner

LEMMA UpdateQueuesFits ==
  ASSUME NEW c, FitCollection(c), NEW id, NEW finished
  PROVE  FitCollection(UpdateQueues(c, id, finished))
<1> DEFINE card == IF finished THEN None ELSE c.cards[id]
           next == AnsweredQueue(c.queues, id, card, now)
           saved == SaveUndo(c, Change("answered", None, next.update))
<1>1. FitCollection(saved)
  BY SaveUndoFits, OtherChange DEF Kinds
<1>2. \/ UpdateQueues(c, id, finished) = c
      \/ UpdateQueues(c, id, finished) = [c EXCEPT !.failed = TRUE]
      \/ UpdateQueues(c, id, finished) = [saved EXCEPT !.queues = next.queues]
  BY DEF UpdateQueues
<1> HIDE DEF next, saved
<1>3. FitCollection([saved EXCEPT !.queues = next.queues])
  BY <1>1, SideFits, Zenon
<1>4. FitCollection([c EXCEPT !.failed = TRUE])
  BY SideFits, Zenon
<1> QED BY <1>2, <1>3, <1>4

\* Every card that is away comes home, and the ones found go into the deck.
LEMMA ReturnAllFits ==
  ASSUME NEW c, FitCollection(c), now \in Int
  PROVE  FitCollection(ReturnAll(c))
<1> DEFINE away == {id \in Cards : c.cards[id].deck # "home"}
           rows == [id \in away |-> Returned(c.cards[id])]
<1>1. rows \in [away -> FitRows]
  <2> SUFFICES ASSUME NEW id \in away PROVE Returned(c.cards[id]) \in FitRows
    OBVIOUS
  <2>1. c.cards[id] \in FitRows
    BY DEF FitCollection
  <2> QED BY <2>1, ReturnedFits DEF FitRows
<1>2. away \in SUBSET Cards
  OBVIOUS
<1>3. ReturnAll(c) = UpdateCards(c, rows)
  BY DEF ReturnAll
<1> HIDE DEF away, rows
<1> QED BY <1>1, <1>2, <1>3, UpdateCardsFits

LEMMA MovedFits ==
  ASSUME NEW c, FitCollection(c), now \in Int, NEW ids \in SUBSET Cards,
         NEW deck \in {"preview", "filtered"}
  PROVE  FitCollection(UpdateCards(c, [id \in ids |-> MovedInto(c.cards[id], deck)]))
<1> DEFINE rows == [id \in ids |-> MovedInto(c.cards[id], deck)]
<1>1. rows \in [ids -> FitRows]
  <2> SUFFICES ASSUME NEW id \in ids PROVE MovedInto(c.cards[id], deck) \in FitRows
    OBVIOUS
  <2>1. c.cards[id] \in FitRows
    BY DEF FitCollection
  <2> QED BY <2>1, MovedIntoFits DEF FitRows
<1> HIDE DEF rows
<1>2. FitCollection(UpdateCards(c, rows))
  BY <1>1, UpdateCardsFits
<1> QED BY <1>2 DEF rows

-----------------------------------------------------------------------------
(* The invariant.                                                            *)

\* Every card, and every row of a card that undo or redo would bring back, has a due
\* its queue can read.
ScheduleInv ==
  /\ FitCollection(col)
  /\ now \in Times /\ now >= Epoch

LEMMA Clock ==
  ASSUME ScheduleInv
  PROVE  /\ now \in Nat /\ now \in Int /\ DaysBelowEpoch(now)
         /\ Epoch \in Nat /\ 1 < Epoch /\ Today(now) \in Nat \ {0}
<1>1. now \in Nat /\ now >= Epoch /\ DaysBelowEpoch(now)
  BY StudyAssumption DEF ScheduleInv
<1>2. Epoch \in Nat /\ DayLength \in Nat \ {0} /\ Epoch > DayLength
  BY ScheduleAssumption
<1>3. Today(now) \in Nat \ {0}
  BY <1>1, DayBounds
<1> QED BY <1>1, <1>2, <1>3

LEMMA InitFits == Init => ScheduleInv
<1> SUFFICES ASSUME Init PROVE ScheduleInv
  OBVIOUS
<1>1. setting \in Settings /\ col = Opened(setting.rows) /\ now = Epoch
  BY DEF Init
<1>2. setting.rows \in [Cards -> FitRows]
  <2>1. setting.rows \in [Cards -> CardRow] /\ \A id \in Cards : DueFits(setting.rows[id])
    BY <1>1, StudyAssumption
  <2>2. \A id \in Cards : setting.rows[id] \in FitRows
    BY <2>1 DEF FitRows
  <2> QED BY <2>1, <2>2
<1>3. FitCollection(Opened(setting.rows))
  BY <1>2, NewManagerFits DEF FitCollection, Opened, Fields
<1>4. Epoch \in Times /\ Epoch >= Epoch
  BY StudyAssumption, ScheduleAssumption
<1> QED BY <1>1, <1>3, <1>4 DEF ScheduleInv

\* An operation keeps what its steps keep.
LEMMA DoneFits ==
  ASSUME ScheduleInv, NEW done, FitCollection(done), NEW op, NEW quick,
         col' = Closed(col, done, op, quick)
  PROVE  FitCollection(col')
  BY ClosedFits DEF ScheduleInv

LEMMA BegunHere ==
  ASSUME ScheduleInv, NEW op \in Ops
  PROVE  FitCollection(Begun(col, op)) /\ Begun(col, op).cards = col.cards
  BY BegunFits DEF ScheduleInv

LEMMA AnswersFit ==
  ASSUME ScheduleInv, Answer \/ \E id \in Cards : GradeNow(id)
  PROVE  FitCollection(col')
<1>1. CASE Answer
  <2>1. PICK answer \in Answers(col.cards[shown.id]) :
          LET begun == Begun(col, "answer")
              done == IF StudyState(begun.cards[shown.id], now) # shown.state
                      THEN [begun EXCEPT !.failed = TRUE]
                      ELSE UpdateQueues(AnswerInner(begun, shown.id, answer), shown.id,
                                        answer.type = "preview" /\ answer.delay = 0)
          IN col' = Closed(col, done, "answer", FALSE)
    BY <1>1 DEF Answer, Do, Transact
  <2> DEFINE begun == Begun(col, "answer")
             failed == [begun EXCEPT !.failed = TRUE]
             done == UpdateQueues(AnswerInner(begun, shown.id, answer), shown.id,
                                  answer.type = "preview" /\ answer.delay = 0)
  <2>2. FitCollection(begun) /\ begun.cards = col.cards
    BY BegunHere DEF Ops
  <2>3. col' = Closed(col, failed, "answer", FALSE) \/ col' = Closed(col, done, "answer", FALSE)
    BY <2>1
  <2> HIDE DEF begun
  <2>4. FitCollection(failed)
    BY <2>2, SideFits, Zenon
  <2>5. FitCollection(AnswerInner(begun, shown.id, answer))
    BY <2>2, AnswerInnerFits, Clock DEF ScheduleInv
  <2>6. FitCollection(done)
    BY <2>5, UpdateQueuesFits
  <2> HIDE DEF failed, done
  <2> QED BY <2>3, <2>4, <2>6, DoneFits
<1>2. CASE \E id \in Cards : GradeNow(id)
  <2>0. PICK id \in Cards : GradeNow(id)
    BY <1>2
  <2>1. PICK answer \in Answers(col.cards[id]) :
          col' = Closed(col, AnswerInner(Begun(col, "grade"), id, answer), "grade", FALSE)
    BY <2>0 DEF GradeNow, Do, Transact
  <2> DEFINE begun == Begun(col, "grade")
  <2>2. FitCollection(begun) /\ begun.cards = col.cards
    BY BegunHere DEF Ops
  <2> HIDE DEF begun
  <2>3. FitCollection(AnswerInner(begun, id, answer))
    BY <2>2, AnswerInnerFits, Clock DEF ScheduleInv
  <2> QED BY <2>1, <2>3, DoneFits DEF begun
<1> QED BY <1>1, <1>2

\* Cards are shelved and taken back, flagged, and scheduled by hand.
LEMMA CardsFit ==
  ASSUME ScheduleInv, NEW id \in Cards,
         Suspend(id) \/ Bury(id) \/ UnburyUnsuspend(id) \/ SetFlag(id)
           \/ SetForgotten(id) \/ SetDueDate(id)
  PROVE  FitCollection(col')
<1> DEFINE begun(op) == Begun(col, op)
           card == col.cards[id]
<1>1. \A op \in Ops : FitCollection(begun(op)) /\ begun(op).cards = col.cards
  BY BegunHere
<1>2. card \in FitRows /\ card \in CardRow /\ DueFits(card)
  BY DEF ScheduleInv, FitCollection, FitRows
<1>3. now \in Int
  BY Clock
<1> HIDE DEF begun
<1>4. CASE Suspend(id) \/ Bury(id)
  <2>1. \/ col' = Closed(col, BuryOrSuspend(begun("suspend"), {id}, "suspended"), "suspend", FALSE)
        \/ col' = Closed(col, BuryOrSuspend(begun("bury"), {id}, "buried"), "bury", FALSE)
    BY <1>4 DEF Suspend, Bury, Do, Transact, begun
  <2>2. /\ FitCollection(BuryOrSuspend(begun("suspend"), {id}, "suspended"))
        /\ FitCollection(BuryOrSuspend(begun("bury"), {id}, "buried"))
    BY <1>1, <1>3, BuryOrSuspendFits DEF Ops, Shelved
  <2> QED BY <2>1, <2>2, DoneFits
<1>5. CASE UnburyUnsuspend(id)
  <2> DEFINE b == begun("unbury")
  <2>1. FitCollection(b) /\ b.cards = col.cards
    BY <1>1 DEF Ops
  <2>2. col' = Closed(col, b, "unbury", FALSE)
        \/ col' = Closed(col, UpdateCard(b, id, Unshelved(b.cards[id])), "unbury", FALSE)
    BY <1>5 DEF UnburyUnsuspend, Do, Transact, begun
  <2> HIDE DEF b
  <2>3. Unshelved(b.cards[id]) \in FitRows
    BY <1>2, <2>1, UnshelvedFits DEF FitRows, Shelved
  <2>4. FitCollection(UpdateCard(b, id, Unshelved(b.cards[id])))
    BY <1>3, <2>1, <2>3, UpdateFits
  <2> QED BY <2>1, <2>2, <2>4, DoneFits
<1>6. CASE SetFlag(id)
  <2> DEFINE b == begun("flag")
  <2>1. FitCollection(b) /\ b.cards = col.cards
    BY <1>1 DEF Ops
  <2>2. col' = Closed(col, UpdateCardUndoable(b, id, [b.cards[id] EXCEPT !.flag = ~@]), "flag", FALSE)
    BY <1>6 DEF SetFlag, Do, Transact, begun
  <2> HIDE DEF b
  <2>3. [b.cards[id] EXCEPT !.flag = ~@] \in FitRows
    BY <1>2, <1>3, <2>1, StampedFits
  <2>4. FitCollection(UpdateCardUndoable(b, id, [b.cards[id] EXCEPT !.flag = ~@]))
    BY <2>1, <2>3, UpdateUndoableFits
  <2> QED BY <2>2, <2>4, DoneFits
<1>7. CASE SetForgotten(id)
  <2> DEFINE b == begun("forget")
  <2>1. FitCollection(b) /\ b.cards = col.cards
    BY <1>1 DEF Ops
  <2>2. col' = Closed(col, UpdateCard(b, id, ScheduledAsNew(b.cards[id], 1)), "forget", FALSE)
    BY <1>7 DEF SetForgotten, Do, Transact, begun
  <2> HIDE DEF b
  <2>3. ScheduledAsNew(b.cards[id], 1) \in FitRows
    BY <1>2, <2>1, ScheduledFits, Clock DEF FitRows
  <2>4. FitCollection(UpdateCard(b, id, ScheduledAsNew(b.cards[id], 1)))
    BY <1>3, <2>1, <2>3, UpdateFits
  <2> QED BY <2>2, <2>4, DoneFits
<1>8. CASE SetDueDate(id)
  <2> DEFINE b == begun("setdue")
  <2>1. FitCollection(b) /\ b.cards = col.cards
    BY <1>1 DEF Ops
  <2>2. PICK days \in Intervals \union {0} :
          col' = Closed(col, UpdateCard(b, id, ScheduledAsReview(b.cards[id], Today(now) + days)),
                        "setdue", FALSE)
    BY <1>8 DEF SetDueDate, Do, Transact, begun
  <2> HIDE DEF b
  <2> DEFINE due == Today(now) + days
  <2>3. due \in Nat \ {0} /\ due < Epoch
    BY Clock, ScheduleAssumption DEF DaysBelowEpoch
  <2> HIDE DEF due
  <2>4. ScheduledAsReview(b.cards[id], due) \in FitRows
    BY <1>2, <2>1, <2>3, ScheduledFits DEF FitRows
  <2>5. FitCollection(UpdateCard(b, id, ScheduledAsReview(b.cards[id], due)))
    BY <1>3, <2>1, <2>4, UpdateFits
  <2> QED BY <2>2, <2>5, DoneFits DEF due
<1> QED BY <1>4, <1>5, <1>6, <1>7, <1>8

\* Filtered decks are built and emptied.
LEMMA DecksFit ==
  ASSUME ScheduleInv,
         EmptyFiltered \/ \E found \in SUBSET Cards, deck \in {"preview", "filtered"} :
                            BuildFiltered(deck, found)
  PROVE  FitCollection(col')
<1>1. CASE EmptyFiltered
  <2>1. col' = Closed(col, ReturnAll(Begun(col, "empty")), "empty", FALSE)
    BY <1>1 DEF EmptyFiltered, Do, Transact
  <2>2. FitCollection(Begun(col, "empty"))
    BY BegunHere DEF Ops
  <2>3. FitCollection(ReturnAll(Begun(col, "empty")))
    BY <2>2, ReturnAllFits, Clock
  <2> QED BY <2>1, <2>3, DoneFits
<1>2. ASSUME NEW found \in SUBSET Cards, NEW deck \in {"preview", "filtered"},
             BuildFiltered(deck, found)
      PROVE  FitCollection(col')
  <2> DEFINE b == Begun(col, "build")
             noted == SaveUndo(b, Change("deck", None, None))
             returned == ReturnAll(noted)
             matching == {id \in found : returned.cards[id].queue \notin Shelved}
             moved == UpdateCards(returned, [id \in matching |-> MovedInto(returned.cards[id], deck)])
             none == [b EXCEPT !.failed = TRUE]
  <2>1. col' = Closed(col, none, "build", FALSE) \/ col' = Closed(col, moved, "build", FALSE)
    BY <1>2 DEF BuildFiltered, Do, Transact
  <2>2. FitCollection(b)
    BY BegunHere DEF Ops
  <2> HIDE DEF b
  <2>3. FitCollection(none)
    BY <2>2, SideFits, Zenon
  <2>4. FitCollection(noted)
    BY <2>2, SaveUndoFits, OtherChange DEF Kinds
  <2> HIDE DEF noted
  <2>5. FitCollection(returned)
    BY <2>4, ReturnAllFits, Clock
  <2>6. matching \in SUBSET Cards
    OBVIOUS
  <2> HIDE DEF returned, matching
  <2>7. FitCollection(moved)
    BY <2>5, <2>6, MovedFits, Clock
  <2> HIDE DEF none, moved
  <2> QED BY <2>1, <2>3, <2>7, DoneFits
<1> QED BY <1>1, <1>2

\* Notes, and what is appended to them beside the steps.
LEMMA NotesFit ==
  ASSUME ScheduleInv, NoteNext
  PROVE  FitCollection(col')
<1>1. \A op \in Ops, id \in Notes : \A note : FitCollection(UpdateNote(Begun(col, op), id, note))
  BY BegunHere, UpdateNoteFits
<1>2. ASSUME NEW n \in Notes, NEW quick, ReviseSkill(n) \/ EditNote(n, quick)
      PROVE  FitCollection(col')
  <2>1. \/ \E note : col' = Closed(col, UpdateNote(Begun(col, "revise"), n, note), "revise", FALSE)
        \/ \E note : col' = Closed(col, UpdateNote(Begun(col, "note"), n, note), "note", quick)
    BY <1>2 DEF ReviseSkill, EditNote, Do, Transact
  <2>2. \A note : /\ FitCollection(UpdateNote(Begun(col, "revise"), n, note))
                  /\ FitCollection(UpdateNote(Begun(col, "note"), n, note))
    BY <1>1 DEF Ops
  <2> QED BY <2>1, <2>2, DoneFits
<1> DEFINE alone == Alone(col)
           begun == Begun(alone, "skip")
<1>3. FitCollection(alone) /\ \A done : FitCollection(done) => FitCollection(Rejoined(col, done))
  BY BesideFits DEF ScheduleInv
<1>4. FitCollection(begun)
  <2> HIDE DEF alone
  <2> QED BY <1>3, BegunFits DEF Ops
<1>5. \A done : FitCollection(done) => FitCollection(Rejoined(col, Closed(alone, done, "skip", FALSE)))
  <2> HIDE DEF alone
  <2> QED BY <1>3, ClosedFits
<1>6. ASSUME NEW n \in Notes, AppendBank(n)
      PROVE  FitCollection(col')
  <2>1. \E note : col' = Rejoined(col, Closed(alone, UpdateNote(begun, n, note), "skip", FALSE))
    BY <1>6 DEF AppendBank, Beside, Transact
  <2> HIDE DEF begun, alone
  <2>2. \A note : FitCollection(UpdateNote(begun, n, note))
    BY <1>4, UpdateNoteFits
  <2> QED BY <1>5, <2>1, <2>2
<1>7. CASE Reconnect
  <2> DEFINE linked == [begun EXCEPT !.linked = TRUE, !.mod = Millis(begun)]
  <2>1. col' = Rejoined(col, Closed(alone, linked, "skip", FALSE))
    BY <1>7 DEF Reconnect, Beside, Transact
  <2> HIDE DEF begun, alone
  <2>2. FitCollection(linked)
    BY <1>4 DEF FitCollection, Fields
  <2> QED BY <1>5, <2>1, <2>2
<1>8. CASE Collapse
  <2>1. col' = Closed(col, SaveUndo(Begun(col, "skip"), Change("deck", None, None)), "skip", FALSE)
    BY <1>8 DEF Collapse, Do, Transact
  <2>2. FitCollection(Begun(col, "skip"))
    BY BegunHere DEF Ops
  <2>3. FitCollection(SaveUndo(Begun(col, "skip"), Change("deck", None, None)))
    BY <2>2, SaveUndoFits, OtherChange DEF Kinds
  <2> QED BY <2>1, <2>3, DoneFits
<1> QED BY <1>2, <1>6, <1>7, <1>8 DEF NoteNext

\* The queues are built and shown, and a new day takes the cards out that were buried.
LEMMA FetchFits ==
  ASSUME ScheduleInv, Fetch
  PROVE  FitCollection(col')
<1> DEFINE c == ClearIfDayChanged(col)
<1>1. FitCollection(c)
  BY ClearIfDayChangedFits DEF ScheduleInv
<1>2. \E built, q : /\ built = c \/ \E x : built = [c EXCEPT !.queues = x, !.clock = @ + 1]
                    /\ col' = [built EXCEPT !.queues = q]
  <2>1. PICK order \in SetToSeqs(Cards) :
          LET built == IF c.queues # None THEN c
                       ELSE [c EXCEPT !.queues = Build(c.cards, now, setting.buried, order, c.clock + 1),
                                      !.clock = @ + 1]
          IN col' = [built EXCEPT !.queues = CountsAsShown(built.queues, now)]
    BY DEF Fetch
  <2> HIDE DEF c
  <2> QED BY <2>1
<1> HIDE DEF c
<1>3. \A x : FitCollection([c EXCEPT !.queues = x, !.clock = @ + 1])
  BY <1>1 DEF FitCollection, Fields
<1>4. PICK built, q : /\ built = c \/ \E x : built = [c EXCEPT !.queues = x, !.clock = @ + 1]
                      /\ col' = [built EXCEPT !.queues = q]
  BY <1>2
<1>5. FitCollection(built)
  BY <1>1, <1>3, <1>4
<1>6. FitCollection([built EXCEPT !.queues = q])
  BY <1>5, SideFits, Zenon
<1> QED BY <1>4, <1>6

\* Steps taken back and done again, begun and merged by the caller, and dropped.
LEMMA StepsFit ==
  ASSUME ScheduleInv,
         \/ \E quick \in BOOLEAN : Undo(quick) \/ Redo(quick)
         \/ StartCustomStep \/ MergeIntoCustomStep \/ Sync \/ OpenDeckList
  PROVE  FitCollection(col')
<1>1. FitCollection(col) /\ FitManager(col.undo)
  BY DEF ScheduleInv, FitCollection
<1>2. CASE \E quick \in BOOLEAN : Undo(quick) \/ Redo(quick)
  <2>1. PICK quick \in BOOLEAN : Undo(quick) \/ Redo(quick)
    BY <1>2
  <2>2. \/ col.undo.undo # <<>> /\ col' = UndoStep(col, quick)
        \/ col.undo.redo # <<>> /\ col' = RedoStep(col, quick)
    BY <2>1 DEF Undo, Redo
  <2> QED BY <1>1, <2>2, UndoStepFits, RedoStepFits
<1>3. CASE StartCustomStep
  <2> DEFINE u == AddCustomStep(col.undo)
  <2>1. col' = [col EXCEPT !.undo = u, !.clock = @ + 1] /\ FitManager(u)
    BY <1>1, <1>3, AddCustomStepFits DEF StartCustomStep
  <2> HIDE DEF u
  <2> QED BY <1>1, <2>1 DEF FitCollection, Fields
<1>4. CASE MergeIntoCustomStep
  <2>1. PICK i \in MergeTargets(col.undo) : col' = [col EXCEPT !.undo = MergeUndoableOps(col.undo, i)]
    BY <1>4 DEF MergeIntoCustomStep
  <2>2. FitManager(MergeUndoableOps(col.undo, i))
    BY <1>1, MergeFits
  <2> QED BY <1>1, <2>1, <2>2, ManagerFits
<1>5. CASE Sync
  <2> DEFINE ended == Discarded(col)
  <2>1. col' = [ended EXCEPT !.clock = @ + 1] /\ FitCollection(ended)
    BY <1>1, <1>5, DiscardedFits DEF Sync
  <2> HIDE DEF ended
  <2> QED BY <2>1, ClockFits
<1>6. CASE OpenDeckList
  BY <1>1, <1>6, UnburiedFits DEF OpenDeckList
<1> QED BY <1>2, <1>3, <1>4, <1>5, <1>6

LEMMA NextFits ==
  ASSUME ScheduleInv, [Next]_vars
  PROVE  ScheduleInv'
<1>1. CASE Tick \/ BackUp \/ UNCHANGED vars
  <2>1. col' = col
    BY <1>1 DEF Tick, BackUp, vars
  <2>2. now' = now \/ (now' \in Times /\ now' > now)
    BY <1>1 DEF Tick, BackUp, vars
  <2>3. now' \in Times
    BY <2>2 DEF ScheduleInv
  <2>4. now' >= Epoch
    <3>1. now' \in Nat
      BY <2>3, StudyAssumption
    <3> QED BY <2>2, <3>1, Clock DEF ScheduleInv
  <2> QED BY <2>1, <2>3, <2>4 DEF ScheduleInv
<1>2. CASE CardNext \/ NoteNext
  <2>1. FitCollection(col')
    BY <1>2, AnswersFit, CardsFit, DecksFit, FetchFits, NotesFit DEF CardNext
  <2>2. now' = now
    BY <1>2, Zenon DEF CardNext, NoteNext, Fetch, Answer, EmptyFiltered, GradeNow, Suspend, Bury,
                UnburyUnsuspend, SetFlag, SetForgotten, SetDueDate, BuildFiltered, ReviseSkill,
                AppendBank, EditNote, Reconnect, Collapse, Do
  <2> QED BY <2>1, <2>2 DEF ScheduleInv
<1>3. CASE \/ \E quick \in BOOLEAN : Undo(quick) \/ Redo(quick)
           \/ StartCustomStep \/ MergeIntoCustomStep \/ Sync \/ OpenDeckList
  <2>1. FitCollection(col')
    BY <1>3, StepsFit
  <2>2. now' = now
    BY <1>3 DEF Undo, Redo, StartCustomStep, MergeIntoCustomStep, Sync, OpenDeckList
  <2> QED BY <2>1, <2>2 DEF ScheduleInv
<1> QED BY <1>1, <1>2, <1>3 DEF Next

\* In every reachable state, the rows of the cards and the rows kept for undo and redo
\* have dues their queues can read.
THEOREM ScheduleInductive == Spec => []ScheduleInv
<1>1. ScheduleInv /\ [Next]_vars => ScheduleInv'
  BY NextFits
<1> QED BY InitFits, <1>1, PTL DEF Spec

\* Answers, filtered decks, burying, scheduling by hand, undo and redo leave every card a
\* due that its queue can read, at home or for the way home.
THEOREM DuesFitHolds == Spec => []DuesFit
<1>1. ScheduleInv => DuesFit
  BY DEF ScheduleInv, FitCollection, FitRows, DuesFit
<1> QED BY ScheduleInductive, <1>1, PTL
=============================================================================
