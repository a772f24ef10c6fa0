---------------------------- MODULE CardSchedule ----------------------------
(***************************************************************************)
(* What the scheduler does to one card's row.  As in the database, the due *)
(* of a card is a time for the learning queues, a day for the others, and  *)
(* the place in line for a new card or one moved into a filtered deck; the *)
(* filtered deck shows cards ahead ("preview") or reschedules them         *)
(* ("filtered").  A card's row: [type, queue, due, odue, deck, mtime, flag].*)
(***************************************************************************)
EXTENDS Integers

CONSTANTS
  Epoch,      \* the first second; dues up to it are days or places
  DayLength,  \* seconds in a day
  Delays,     \* learning steps, in seconds
  Intervals   \* intervals of reviews, in days

ASSUME ScheduleAssumption ==
  /\ Epoch \in Nat /\ DayLength \in Nat \ {0} /\ Epoch > DayLength
  /\ Delays \subseteq Nat \ {0} /\ Intervals \subseteq Nat \ {0}

Shelved == {"suspended", "buried"}
Position == -9  \* a place in line in a filtered deck

CardRow ==
  [type : {"new", "learn", "review", "relearn"},
   queue : {"new", "learn", "daylearn", "review", "preview"} \union Shelved,
   due : Int, odue : Int, deck : {"home", "preview", "filtered"}, mtime : Int, flag : BOOLEAN]

Today(now) == 1 + (now - Epoch) \div DayLength
NextDayAt(now) == Epoch + DayLength * Today(now)
IsTimestamp(due) == due > Epoch

\* The days an answer can reach are numbered below the first second: in the code, a
\* due above a thousand million is a time.
DaysBelowEpoch(now) ==
  \A days \in Delays \union Intervals \union {0} : Today(now) + days < Epoch

RestoredQueue(c) ==
  CASE c.type = "new"    -> "new"
    [] c.type = "review" -> "review"
    [] OTHER             -> IF IsTimestamp(c.due) THEN "learn" ELSE "daylearn"

Unshelved(c) == IF c.queue \in Shelved THEN [c EXCEPT !.queue = RestoredQueue(c)] ELSE c

-----------------------------------------------------------------------------
(* Filtered decks.                                                           *)

MovedInto(c, deck) ==
  IF c.odue # 0 THEN c
  ELSE [c EXCEPT !.deck = deck, !.odue = c.due,
                 !.queue = IF deck = "preview" THEN "review" ELSE @,
                 !.due = IF @ > 0 THEN Position ELSE @]

RemovedBeforeReschedule(c) ==
  IF c.deck = "home" THEN c ELSE [c EXCEPT !.deck = "home", !.odue = 0]

\* Mutant: the queue is restored from the due the card had in the filtered deck.
ReturnedWithItsQueue(c) ==
  IF c.deck = "home" THEN c
  ELSE [c EXCEPT !.deck = "home", !.odue = 0,
                 !.due = IF c.odue # 0 THEN c.odue ELSE @,
                 !.queue = IF @ \in Shelved THEN @ ELSE RestoredQueue(c)]

Returned(c) ==
  LET home == [c EXCEPT !.deck = "home", !.odue = 0,
                        !.due = IF c.odue # 0 THEN c.odue ELSE @]
  IN IF c.deck = "home" THEN c
     ELSE IF c.queue \in Shelved THEN home
     ELSE [home EXCEPT !.queue = RestoredQueue(home)]

-----------------------------------------------------------------------------
(* Answers.  An answer is the state the card goes to: a type with the delay  *)
(* or the interval, or, in a preview, a further showing or the end of it.    *)

\* The due an answer is worked out from.
StudyDue(c) == IF c.deck # "home" /\ c.odue # 0 THEN c.odue ELSE c.due

\* What an answer is compared with: the state the card was in when it was shown.
StudyState(c, now) ==
  LET late == Today(now) - StudyDue(c)
  IN [deck |-> c.deck,
      type |-> IF c.deck = "preview" THEN "preview" ELSE c.type,
      at   |-> IF c.deck = "preview" THEN 0
               ELSE CASE c.type = "new"    -> StudyDue(c)
                      [] c.type = "review" -> IF c.deck = "home" /\ late < 0 THEN 0 ELSE late
                      [] OTHER             -> 0]

LearningSteps(type) == [type : {type}, delay : Delays, leech : {FALSE}]
Graduation == [type : {"review"}, delay : Intervals, leech : {FALSE}]
Lapses ==
  [type : {"relearn"}, delay : Delays, leech : BOOLEAN]
    \union [type : {"review"}, delay : Intervals, leech : BOOLEAN]

Answers(c) ==
  IF c.deck = "preview"
  THEN [type : {"preview"}, delay : Delays \union {0}, leech : {FALSE}]
  ELSE CASE c.type \in {"new", "learn"} -> LearningSteps("learn") \union Graduation
         [] c.type = "review"           -> Lapses
         [] OTHER                       -> LearningSteps("relearn") \union Graduation

\* A step that does not end before the day does is counted in days.
Learning(c, type, delay, now) ==
  LET left == NextDayAt(now) - now
      days == 1 + (delay - left) \div DayLength
  IN IF delay < left
     THEN [c EXCEPT !.type = type, !.queue = "learn", !.due = now + delay]
     ELSE [c EXCEPT !.type = type, !.queue = "daylearn", !.due = Today(now) + days]

Reviewed(c, interval, now) ==
  [c EXCEPT !.type = "review", !.queue = "review", !.due = Today(now) + interval]

Previewed(c, delay, now) ==
  IF delay = 0 THEN Returned(c) ELSE [c EXCEPT !.queue = "preview", !.due = now + delay]

Suspended(c, leech) == IF leech THEN [c EXCEPT !.queue = "suspended"] ELSE c

\* A card that stays in a filtered deck takes its new due home.
Rescheduled(c) == IF c.deck = "home" THEN c ELSE [c EXCEPT !.odue = c.due]

Answered(c, answer, now) ==
  CASE answer.type = "preview" -> Previewed(c, answer.delay, now)
    [] answer.type = "review"  ->
         Suspended(Reviewed(RemovedBeforeReschedule(c), answer.delay, now), answer.leech)
    [] OTHER ->
         Rescheduled(Suspended(Learning(c, answer.type, answer.delay, now), answer.leech))

-----------------------------------------------------------------------------
(* Cards scheduled by hand.                                                  *)

ScheduledAsNew(c, position) ==
  [RemovedBeforeReschedule(c) EXCEPT !.type = "new", !.queue = "new", !.due = position]

ScheduledAsReview(c, due) ==
  [RemovedBeforeReschedule(c) EXCEPT !.type = "review", !.queue = "review", !.due = due]

\* What is due is kept in the form its queue reads, at home or for the way home.
DueFits(c) ==
  LET home == IF c.deck = "home" THEN c ELSE [c EXCEPT !.due = c.odue]
  IN /\ c.deck = "home" <=> c.odue = 0
     /\ home.due > 0
     /\ home.type \in {"new", "review"} => ~IsTimestamp(home.due)
     /\ c.deck = "home" /\ c.queue \notin Shelved => c.queue = RestoredQueue(c)
=============================================================================
