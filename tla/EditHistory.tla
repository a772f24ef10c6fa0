---------------------------- MODULE EditHistory ----------------------------
(* What undo and redo promise: the parts of a collection have a present, and *)
(* each undo brings back exactly what was there before the edit it undoes.   *)
EXTENDS Integers, Sequences

CONSTANTS
  Parts,        \* what a user can edit separately
  Rewritable,   \* the parts whose quick successive edits count as one
  Limit         \* edits that can be undone, at least one

VARIABLES
  present,  \* [Parts -> values]
  past,     \* what was there before each edit that can be undone, newest first
  future    \* what was there before each undo that can be redone, newest first

historyVars == <<present, past, future>>

Capped(states) == SubSeq(states, 1, IF Len(states) < Limit THEN Len(states) ELSE Limit)

\* The last edit and a change to `next' are of the same rewritable part.
Continues(next) ==
  /\ past # <<>>
  /\ \E p \in Rewritable : \A q \in Parts \ {p} :
       past[1][q] = present[q] /\ next[q] = present[q]

Recorded(next) ==
  \/ past' = Capped(<<present>> \o past)
  \/ Continues(next) /\ past' = past

\* An edit, which may change nothing and then may leave no trace.
Edit ==
  /\ future' = <<>>
  /\ Recorded(present') \/ (present' = present /\ past' = past)

Undo ==
  /\ past # <<>>
  /\ present' = past[1] /\ past' = Tail(past) /\ future' = <<present>> \o future

Redo ==
  /\ future # <<>>
  /\ present' = future[1] /\ future' = Tail(future) /\ Recorded(future[1])

\* The newest edits become one.
Merge ==
  /\ \E k \in 1..(Len(past) - 1) : past' = SubSeq(past, k + 1, Len(past))
  /\ UNCHANGED <<present, future>>

\* A part no remembered edit touches changes in all remembered states alike.
Aside ==
  \E p \in Parts :
    LET Moved(states) == [i \in DOMAIN states |-> [states[i] EXCEPT ![p] = present'[p]]]
    IN /\ \A i \in DOMAIN past : past[i][p] = present[p]
       /\ \A i \in DOMAIN future : future[i][p] = present[p]
       /\ present' = [present EXCEPT ![p] = present'[p]]
       /\ past' = Moved(past) /\ future' = Moved(future)

\* The history is given up, perhaps in the middle of an undo or a redo.
Forget ==
  /\ past' = <<>> /\ future' = <<>>
  /\ \/ present' = present
     \/ past # <<>> /\ present' = past[1]
     \/ future # <<>> /\ present' = future[1]

HistoryNext == Edit \/ Undo \/ Redo \/ Merge \/ Aside \/ Forget

HistorySpec == past = <<>> /\ future = <<>> /\ [][HistoryNext]_historyVars
=============================================================================
