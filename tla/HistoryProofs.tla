---------------------------- MODULE HistoryProofs ----------------------------
(***************************************************************************)
(* The collection with its undo manager implements EditHistory (IsHistory  *)
(* of Study).  A step of the manager is a list of changes, and what taking *)
(* it back leads to is told by the first change of each part.  The proof   *)
(* follows a change from the place where it is recorded: what an operation *)
(* records leads back to where the operation began (Records, Follows);     *)
(* closing the operation puts its step on the list that the manager's mode *)
(* says, or joins it to the step before; taking a step back leads to the   *)
(* state it led from and records the opposite step; so the lists of the    *)
(* manager always lead through the states of the history.                  *)
(***************************************************************************)
EXTENDS ScheduleProofs

-----------------------------------------------------------------------------
(* The first of some numbers.                                                *)

\* A nonempty set of numbers has its least one in it.
LEMMA MinIs ==
  ASSUME NEW T, T \subseteq Nat, T # {}
  PROVE  Min(T) \in T /\ \A k \in T : Min(T) <= k
<1>1. PICK m \in T : \A k \in T : m <= k
  BY LeastNumber
<1> QED BY <1>1 DEF Min

\* A number of the set that none is below is the least one.
LEMMA MinOf ==
  ASSUME NEW T, T \subseteq Nat, NEW m \in T, \A k \in T : m <= k
  PROVE  Min(T) = m
<1>1. Min(T) \in T /\ Min(T) <= m /\ m <= Min(T)
  BY MinIs
<1>2. Min(T) \in Nat /\ m \in Nat
  BY <1>1
<1> QED BY <1>1, <1>2

-----------------------------------------------------------------------------
(* What undoing some changes leads to.                                       *)

\* The part that a change is of.
PartOf(change) == <<change.kind, change.id>>

\* What undoing a change gives its part back.
OldOf(change) == IF change.kind = "card" THEN RowOf(change.old) ELSE change.old

\* The changes of one part are found among the changes by where they stand.
LEMMA ChangingIs ==
  ASSUME NEW S, NEW changes \in Seq(S), NEW p
  PROVE  /\ Changing(changes, p) = {i \in 1..Len(changes) : PartOf(changes[i]) = p}
         /\ Changing(changes, p) \subseteq Nat
  BY LenProperties DEF Changing, PartOf

\* The first change of a part remembers what the part was before all of them.
LEMMA BeforeIs ==
  ASSUME NEW S, NEW changes \in Seq(S), NEW p, NEW m \in Changing(changes, p),
         \A k \in Changing(changes, p) : m <= k
  PROVE  Before(changes, p) = OldOf(changes[m])
<1>1. Min(Changing(changes, p)) = m
  BY ChangingIs, MinOf
<1>2. PartOf(changes[m]) = p
  BY ChangingIs
<1>3. p[1] = changes[m].kind
  BY <1>2 DEF PartOf
<1> QED BY <1>1, <1>3 DEF Before, OldOf

\* Changes are taken back the last one first.
LEMMA BackConcat ==
  ASSUME NEW S, NEW a \in Seq(S), NEW b \in Seq(S), NEW s
  PROVE  Back(s, a \o b) = Back(Back(s, b), a)
<1> DEFINE ab == a \o b
           k == Len(a)
<1>1. /\ ab \in Seq(S) /\ k \in Nat /\ Len(b) \in Nat /\ Len(ab) = k + Len(b)
      /\ \A i \in 1..k : ab[i] = a[i]
      /\ \A i \in 1..Len(b) : ab[k + i] = b[i]
  BY ConcatProperties, LenProperties
<1> HIDE DEF ab, k
<1>2. SUFFICES ASSUME NEW p \in Parts
               PROVE  (IF Changing(ab, p) = {} THEN s[p] ELSE Before(ab, p))
                        = (IF Changing(a, p) = {}
                           THEN IF Changing(b, p) = {} THEN s[p] ELSE Before(b, p)
                           ELSE Before(a, p))
  BY Zenon DEF Back, ab
<1>3. /\ Changing(ab, p) = {i \in 1..Len(ab) : PartOf(ab[i]) = p}
      /\ Changing(a, p) = {i \in 1..k : PartOf(a[i]) = p}
      /\ Changing(b, p) = {i \in 1..Len(b) : PartOf(b[i]) = p}
  BY <1>1, ChangingIs DEF k
<1>4. \A i \in 1..k : i \in Changing(ab, p) <=> i \in Changing(a, p)
  BY <1>1, <1>3
<1>5. \A i \in 1..Len(b) : k + i \in Changing(ab, p) <=> i \in Changing(b, p)
  BY <1>1, <1>3
<1>6. CASE Changing(a, p) # {}
  <2> DEFINE m == Min(Changing(a, p))
  <2>1. m \in Changing(a, p) /\ \A i \in Changing(a, p) : m <= i
    BY <1>6, ChangingIs, MinIs
  <2> HIDE DEF m
  <2>2. m \in 1..k /\ m \in Changing(ab, p)
    BY <1>3, <1>4, <2>1
  <2>3. \A i \in Changing(ab, p) : m <= i
    BY <1>1, <1>3, <1>4, <2>1, <2>2
  <2>4. Before(ab, p) = OldOf(ab[m]) /\ Before(a, p) = OldOf(a[m])
    BY <1>1, <2>1, <2>2, <2>3, BeforeIs, Zenon
  <2> QED BY <1>1, <1>6, <2>2, <2>4
<1>7. CASE Changing(a, p) = {} /\ Changing(b, p) = {}
  <2>1. Changing(ab, p) = {}
    <3> SUFFICES ASSUME NEW i \in Changing(ab, p) PROVE FALSE
      OBVIOUS
    <3>1. i \in 1..Len(ab) /\ i \notin 1..k
      BY <1>3, <1>4, <1>7
    <3>2. i - k \in 1..Len(b) /\ k + (i - k) = i
      BY <1>1, <3>1
    <3> QED BY <1>5, <1>7, <3>2
  <2> QED BY <1>7, <2>1
<1>8. CASE Changing(a, p) = {} /\ Changing(b, p) # {}
  <2> DEFINE m == Min(Changing(b, p))
  <2>1. m \in Changing(b, p) /\ \A i \in Changing(b, p) : m <= i
    BY <1>8, ChangingIs, MinIs
  <2> HIDE DEF m
  <2>2. m \in 1..Len(b) /\ k + m \in Changing(ab, p)
    BY <1>3, <1>5, <2>1
  <2>3. \A i \in Changing(ab, p) : k + m <= i
    <3> TAKE i \in Changing(ab, p)
    <3>1. i \in 1..Len(ab) /\ i \notin 1..k
      BY <1>3, <1>4, <1>8
    <3>2. i - k \in 1..Len(b) /\ k + (i - k) = i
      BY <1>1, <3>1
    <3>3. m <= i - k
      BY <1>5, <2>1, <3>2
    <3> QED BY <1>1, <2>2, <3>1, <3>3
  <2>4. Before(ab, p) = OldOf(ab[k + m]) /\ Before(b, p) = OldOf(b[m])
    BY <1>1, <2>1, <2>2, <2>3, BeforeIs, Zenon
  <2> QED BY <1>1, <1>8, <2>2, <2>4
<1> QED BY <1>6, <1>7, <1>8

\* One change gives its part back what it was.
LEMMA BackOne ==
  ASSUME NEW x, NEW s
  PROVE  Back(s, <<x>>) = [p \in Parts |-> IF p = PartOf(x) THEN OldOf(x) ELSE s[p]]
<1>1. <<x>> \in Seq({x}) /\ Len(<<x>>) = 1 /\ <<x>>[1] = x
  OBVIOUS
<1>2. SUFFICES ASSUME NEW p \in Parts
               PROVE  (IF Changing(<<x>>, p) = {} THEN s[p] ELSE Before(<<x>>, p))
                        = IF p = PartOf(x) THEN OldOf(x) ELSE s[p]
  BY Zenon DEF Back
<1>3. Changing(<<x>>, p) = {i \in 1..1 : PartOf(x) = p}
  <2>1. Changing(<<x>>, p) = {i \in 1..Len(<<x>>) : PartOf(<<x>>[i]) = p}
    BY <1>1, ChangingIs
  <2> QED BY <1>1, <2>1
<1>4. CASE p = PartOf(x)
  <2>1. 1 \in Changing(<<x>>, p) /\ \A k \in Changing(<<x>>, p) : 1 <= k
    BY <1>3, <1>4
  <2>2. Before(<<x>>, p) = OldOf(<<x>>[1])
    BY <1>1, <2>1, BeforeIs
  <2> QED BY <1>1, <1>4, <2>1, <2>2
<1>5. CASE p # PartOf(x)
  BY <1>3, <1>5
<1> QED BY <1>4, <1>5

\* A state says what every part is, and nothing else.
IsState(s) == s = [p \in Parts |-> s[p]]

\* Where there is nothing to undo, nothing is undone.
LEMMA BackNone ==
  ASSUME NEW s, IsState(s)
  PROVE  Back(s, <<>>) = s
<1>1. \A p \in Parts : Changing(<<>>, p) = {}
  BY DEF Changing
<1> QED BY <1>1, Zenon DEF Back, IsState

-----------------------------------------------------------------------------
(* What undoing steps one after the other leads to.                          *)

\* Each state is what undoing one more step leads to.
LEMMA StatesStep ==
  ASSUME NEW T, NEW steps \in Seq(T), NEW s
  PROVE  LET states == StatesBefore(s, steps)
         IN /\ Len(steps) \in Nat /\ states = [i \in 1..Len(steps) |-> states[i]]
            /\ Len(states) = Len(steps) /\ DOMAIN states = 1..Len(steps)
            /\ \A i \in 1..Len(steps) :
                 states[i] = Back(IF i = 1 THEN s ELSE states[i - 1], steps[i].changes)
<1> DEFINE n == Len(steps)
           Step(g, i) == IF i = 0 THEN s ELSE Back(g[i - 1], steps[i].changes)
           Undone(g, m) == g = [i \in 0..m |-> Step(g, i)]
           f == CHOOSE g : Undone(g, n)
           states == StatesBefore(s, steps)
<1>1. n \in Nat /\ DOMAIN steps = 1..n
  BY LenProperties
<1>2. states = [i \in 1..n |-> f[i]]
  BY <1>1, Zenon DEF StatesBefore
<1> HIDE DEF n
<1>3. ASSUME NEW m \in 0..n
      PROVE  \E g : Undone(g, m)
  <2> DEFINE T0 == {k \in 0..n : ~\E g : Undone(g, k)}
  <2>1. SUFFICES ASSUME T0 # {} PROVE FALSE
    OBVIOUS
  <2>2. T0 \subseteq Nat
    <3> HIDE DEF Undone
    <3> QED BY <1>1
  <2>3. PICK k \in T0 : \A j \in T0 : k <= j
    <3> HIDE DEF T0
    <3> QED BY <2>1, <2>2, LeastNumber
  <2>4. k \in 0..n /\ ~\E g : Undone(g, k)
    BY <2>3
  <2>5. k # 0
    <3> DEFINE g == [i \in 0..0 |-> s]
    <3>1. Undone(g, 0)
      OBVIOUS
    <3> QED BY <2>4, <3>1
  <2>6. k - 1 \in 0..n /\ k - 1 \notin T0
    <3>1. k - 1 \in 0..n /\ ~(k <= k - 1)
      BY <1>1, <2>4, <2>5
    <3> HIDE DEF T0
    <3> QED BY <2>3, <3>1
  <2>7. PICK g : Undone(g, k - 1)
    BY <2>6
  <2> DEFINE h == [i \in 0..k |-> Step(g, i)]
  <2>8. ASSUME NEW i \in 0..k PROVE Step(g, i) = Step(h, i)
    <3>1. CASE i = 0
      BY <3>1
    <3>2. CASE i # 0
      <4>1. i - 1 \in 0..(k - 1) /\ i - 1 \in 0..k
        BY <1>1, <2>4, <3>2
      <4>2. g[i-1] = Step(g, i-1)
        BY <2>7, <4>1
      <4>3. h[i-1] = Step(g, i-1)
        BY <4>1
      <4> HIDE DEF h
      <4> QED BY <4>2, <4>3
    <3> QED BY <3>1, <3>2
  <2>9. Undone(h, k)
    BY <2>8, Zenon
  <2> QED BY <2>4, <2>9
<1>4. n \in 0..n
  BY <1>1
<1>5. Undone(f, n)
  BY <1>3, <1>4
<1> HIDE DEF f, states
<1>6. \A i \in 0..n : f[i] = Step(f, i)
  BY <1>5
<1>7. DOMAIN states = 1..n /\ \A i \in 1..n : states[i] = f[i]
  BY <1>2
<1>8. states = [i \in 1..n |-> states[i]] /\ Len(states) = n
  BY <1>1, <1>2
<1>9. ASSUME NEW i \in 1..n
      PROVE  states[i] = Back(IF i = 1 THEN s ELSE states[i - 1], steps[i].changes)
  <2>1. i \in 0..n /\ i # 0 /\ states[i] = Back(f[i - 1], steps[i].changes)
    BY <1>1, <1>6, <1>7
  <2>2. CASE i = 1
    <3>1. i - 1 = 0 /\ f[0] = s
      BY <1>1, <1>6, <2>2
    <3> QED BY <2>1, <2>2, <3>1
  <2>3. CASE i # 1
    <3>1. i - 1 \in 1..n
      BY <1>1, <2>3
    <3> QED BY <1>7, <2>1, <2>3, <3>1
  <2> QED BY <2>2, <2>3
<1> QED BY <1>1, <1>7, <1>8, <1>9 DEF n, states

\* States that undo the same steps from the same start are the same.
LEMMA StatesFollow ==
  ASSUME NEW T, NEW steps \in Seq(T), NEW s, NEW g,
         \A i \in 1..Len(steps) : g[i] = Back(IF i = 1 THEN s ELSE g[i - 1], steps[i].changes)
  PROVE  \A i \in 1..Len(steps) : StatesBefore(s, steps)[i] = g[i]
<1> DEFINE n == Len(steps)
           states == StatesBefore(s, steps)
           T0 == {k \in 1..n : states[k] # g[k]}
<1>1. /\ n \in Nat
      /\ \A i \in 1..n : states[i] = Back(IF i = 1 THEN s ELSE states[i - 1], steps[i].changes)
  BY StatesStep
<1> HIDE DEF n, states
<1>2. ASSUME T0 # {} PROVE FALSE
  <2>1. PICK k \in T0 : \A j \in T0 : k <= j
    <3>1. T0 \subseteq Nat
      BY <1>1
    <3> HIDE DEF T0
    <3> QED BY <1>2, <3>1, LeastNumber
  <2>2. k \in 1..n /\ states[k] # g[k]
    BY <2>1
  <2>3. k # 1 => states[k - 1] = g[k - 1]
    <3>1. k # 1 => k - 1 \in 1..n /\ ~(k <= k - 1)
      BY <1>1, <2>2
    <3> QED BY <2>1, <3>1
  <2>4. g[k] = Back(IF k = 1 THEN s ELSE g[k - 1], steps[k].changes)
    BY <2>2 DEF n
  <2> QED BY <1>1, <2>2, <2>3, <2>4
<1> QED BY <1>2 DEF n, states

\* The first steps lead to the first states.
LEMMA StatesPrefix ==
  ASSUME NEW T, NEW steps \in Seq(T), NEW s, NEW k \in 0..Len(steps)
  PROVE  StatesBefore(s, SubSeq(steps, 1, k)) = SubSeq(StatesBefore(s, steps), 1, k)
<1> DEFINE first == SubSeq(steps, 1, k)
           states == StatesBefore(s, steps)
<1>1. /\ Len(steps) \in Nat /\ Len(states) = Len(steps)
      /\ \A i \in 1..Len(steps) :
           states[i] = Back(IF i = 1 THEN s ELSE states[i - 1], steps[i].changes)
  BY StatesStep
<1>2. first \in Seq(T) /\ Len(first) = k /\ \A i \in 1..k : first[i] = steps[i]
  BY <1>1
<1>3. SubSeq(states, 1, k) = [i \in 1..k |-> states[i]]
  BY <1>1
<1> HIDE DEF first, states
<1>4. \A i \in 1..k : states[i] = Back(IF i = 1 THEN s ELSE states[i - 1], first[i].changes)
  BY <1>1, <1>2
<1>5. \A i \in 1..k : StatesBefore(s, first)[i] = states[i]
  BY <1>2, <1>4, StatesFollow
<1>6. StatesBefore(s, first) = [i \in 1..k |-> StatesBefore(s, first)[i]]
  BY <1>2, StatesStep
<1> QED BY <1>3, <1>5, <1>6 DEF first, states

\* The steps after one of them lead from its state to the later states.
LEMMA StatesSuffix ==
  ASSUME NEW T, NEW steps \in Seq(T), NEW s, NEW k \in 1..Len(steps)
  PROVE  StatesBefore(StatesBefore(s, steps)[k], SubSeq(steps, k + 1, Len(steps)))
           = SubSeq(StatesBefore(s, steps), k + 1, Len(steps))
<1> DEFINE n == Len(steps)
           rest == SubSeq(steps, k + 1, n)
           states == StatesBefore(s, steps)
           later == StatesBefore(states[k], rest)
           g == [i \in 1..(n - k) |-> states[k + i]]
<1>1. /\ n \in Nat /\ Len(states) = n
      /\ \A i \in 1..n : states[i] = Back(IF i = 1 THEN s ELSE states[i - 1], steps[i].changes)
  BY StatesStep
<1>2. rest \in Seq(T) /\ Len(rest) = n - k /\ \A i \in 1..(n - k) : rest[i] = steps[k + i]
  BY <1>1
<1>3. SubSeq(states, k + 1, n) = g
  BY <1>1
<1> HIDE DEF rest, states, n
<1>4. ASSUME NEW i \in 1..(n - k)
      PROVE  g[i] = Back(IF i = 1 THEN states[k] ELSE g[i - 1], rest[i].changes)
  <2>1. k + i \in 1..n /\ k + i # 1 /\ (k + i) - 1 = k + (i - 1)
    BY <1>1 DEF n
  <2>2. states[k + i] = Back(states[k + (i - 1)], rest[i].changes)
    BY <1>1, <1>2, <2>1
  <2>3. k + (i - 1) = IF i = 1 THEN k ELSE k + (i - 1)
    BY <1>1 DEF n
  <2>4. i # 1 => g[i - 1] = states[k + (i - 1)]
    BY <1>1
  <2> HIDE DEF g
  <2>5. g[i] = states[k + i]
    BY DEF g
  <2> QED BY <2>2, <2>3, <2>4, <2>5
<1> HIDE DEF g
<1>5. \A i \in 1..(n - k) : later[i] = g[i]
  BY <1>2, <1>4, StatesFollow
<1>6. later = [i \in 1..(n - k) |-> later[i]]
  BY <1>2, StatesStep
<1>7. g = [i \in 1..(n - k) |-> g[i]]
  BY DEF g
<1> QED BY <1>3, <1>5, <1>6, <1>7 DEF rest, states, n, later

\* A step before the others.
LEMMA StatesCons ==
  ASSUME NEW T, NEW x \in T, NEW steps \in Seq(T), NEW s
  PROVE  StatesBefore(s, <<x>> \o steps)
           = <<Back(s, x.changes)>> \o StatesBefore(Back(s, x.changes), steps)
<1> DEFINE all == <<x>> \o steps
           states == StatesBefore(s, all)
           next == Back(s, x.changes)
           n == Len(steps)
<1>1. all \in Seq(T) /\ n \in Nat /\ Len(all) = n + 1 /\ all[1] = x /\ SubSeq(all, 2, n + 1) = steps
  <2>1. all \in Seq(T) /\ n \in Nat /\ Len(all) = n + 1 /\ all[1] = x
        /\ \A i \in 1..n : all[i + 1] = steps[i]
    BY LenProperties
  <2>2. Len(SubSeq(all, 2, n + 1)) = n /\ \A i \in 1..n : SubSeq(all, 2, n + 1)[i] = all[i + 1]
    BY <2>1
  <2>3. SubSeq(all, 2, n + 1) = steps
    <3>1. SubSeq(all, 2, n + 1) \in Seq(T)
      BY <2>1
    <3> HIDE DEF all
    <3> QED BY <2>1, <2>2, <3>1, SeqEqual
  <2> QED BY <2>1, <2>3
<1> HIDE DEF all, n
<1>2. /\ Len(states) = n + 1 /\ states[1] = next
      /\ states = [i \in 1..(n + 1) |-> states[i]]
  <2>1. /\ Len(states) = n + 1 /\ states = [i \in 1..(n + 1) |-> states[i]]
        /\ \A i \in 1..(n + 1) : states[i] = Back(IF i = 1 THEN s ELSE states[i - 1], all[i].changes)
    BY <1>1, StatesStep
  <2> HIDE DEF states
  <2>2. states[1] = Back(s, all[1].changes)
    <3>1. 1 \in 1..(n + 1)
      BY <1>1
    <3>2. states[1] = Back(IF 1 = 1 THEN s ELSE states[1 - 1], all[1].changes)
      BY <2>1, <3>1, Zenon
    <3> QED BY <3>2
  <2> QED BY <1>1, <2>1, <2>2
<1>3. StatesBefore(states[1], SubSeq(all, 2, n + 1)) = SubSeq(states, 2, n + 1)
  BY <1>1, StatesSuffix
<1> HIDE DEF states, next
<1>4. states = <<states[1]>> \o SubSeq(states, 2, n + 1)
  BY <1>1, <1>2
<1> QED BY <1>1, <1>2, <1>3, <1>4 DEF all, states, next, n

-----------------------------------------------------------------------------
(* What an operation records is what leads back to where it started.         *)

\* What a collection holds is a state, and so is what undoing changes leads to.
LEMMA PresentIs ==
  ASSUME NEW c
  PROVE  IsState(PresentOf(c)) /\ \A s, changes : IsState(Back(s, changes))
  BY DEF IsState, PresentOf, Back

\* A part is a card or a note.
LEMMA PartsAre ==
  ASSUME NEW p \in Parts
  PROVE  \/ \E id \in Cards : p = <<"card", id>> /\ \A c : PresentOf(c)[p] = RowOf(c.cards[id])
         \/ \E id \in Notes : p = <<"note", id>> /\ \A c : PresentOf(c)[p] = c.notes[id]
<1>1. CASE \E id \in Cards : p = <<"card", id>>
  <2>1. PICK id \in Cards : p = <<"card", id>>
    BY <1>1
  <2>2. p[1] = "card" /\ p[2] = id
    BY <2>1
  <2> QED BY <2>1, <2>2 DEF PresentOf
<1>2. CASE \E id \in Notes : p = <<"note", id>>
  <2>1. PICK id \in Notes : p = <<"note", id>>
    BY <1>2
  <2>2. p[1] = "note" /\ p[2] = id
    BY <2>1
  <2> QED BY <2>1, <2>2 DEF PresentOf
<1> QED BY <1>1, <1>2 DEF Parts

\* Two collections with the same cards, but for their times, and the same notes are in one
\* state.
LEMMA PresentSame ==
  ASSUME NEW c, NEW d, \A id \in Cards : RowOf(d.cards[id]) = RowOf(c.cards[id]),
         \A id \in Notes : d.notes[id] = c.notes[id]
  PROVE  PresentOf(d) = PresentOf(c)
<1>1. \A p \in Parts : PresentOf(d)[p] = PresentOf(c)[p]
  BY PartsAre
<1> QED BY <1>1, PresentIs DEF IsState

\* The changes `new' that d has recorded since c.
Records(c, d, new) ==
  /\ d.undo = SaveAll(c.undo, new) /\ d.failed = c.failed
  /\ PresentOf(c) = Back(PresentOf(d), new)

\* What the collection d has changed since c is recorded, whatever it was.
Follows(c, d) == \E X, new : AllFit(X) /\ new \in Seq(X) /\ Records(c, d, new)

\* Recording nothing leaves the manager as it is.
LEMMA SaveNothing ==
  ASSUME NEW u, FitManager(u)
  PROVE  SaveAll(u, <<>>) = u
<1>1. PICK S : AllFit(S) /\ u \in Managers(S)
  BY DEF FitManager
<1>2. CASE u.current.op # None
  <2>1. u.current \in Steps(S)
    BY <1>1, <1>2 DEF Managers, NoStep, OpenStep
  <2>2. u.current.changes \o <<>> = u.current.changes
    BY <2>1, ConcatEmptySeq DEF Steps
  <2>3. SaveAll(u, <<>>) = [u EXCEPT !.current = [u.current EXCEPT !.changes = u.current.changes]]
    BY <1>1, <1>2, <2>2 DEF SaveAll, Managers
  <2>4. [u.current EXCEPT !.changes = u.current.changes] = u.current
    BY <2>1 DEF Steps
  <2> QED BY <1>1, <2>3, <2>4 DEF Managers
<1> QED BY <1>2 DEF SaveAll

\* Changes recorded one after the other are recorded together.
LEMMA SaveTwice ==
  ASSUME NEW u, FitManager(u), NEW X, NEW a \in Seq(X), NEW b \in Seq(X)
  PROVE  SaveAll(SaveAll(u, a), b) = SaveAll(u, a \o b)
<1>1. PICK S : AllFit(S) /\ u \in Managers(S)
  BY DEF FitManager
<1>2. CASE u.current.op # None
  <2> DEFINE step == u.current
             more == [step EXCEPT !.changes = @ \o a]
             w == [u EXCEPT !.current = more]
  <2>1. step \in Steps(S)
    BY <1>1, <1>2 DEF Managers, NoStep, OpenStep
  <2>2. step.changes \in Seq(S \union X) /\ a \in Seq(S \union X) /\ b \in Seq(S \union X)
    BY <2>1, SeqMonotonic DEF Steps
  <2>3. (step.changes \o a) \o b = step.changes \o (a \o b)
    <3> DEFINE s == step.changes
               U == S \union X
    <3>1. s \in Seq(U) /\ a \in Seq(U) /\ b \in Seq(U)
      BY <2>2
    <3> HIDE DEF s, U
    <3>2. (s \o a) \o b = s \o (a \o b)
      BY <3>1, ConcatAssociative
    <3> QED BY <3>2 DEF s
  <2>4. SaveAll(u, a) = w /\ SaveAll(u, a \o b) = [u EXCEPT !.current = [step EXCEPT !.changes = @ \o (a \o b)]]
    BY <1>1, <1>2 DEF SaveAll, Managers
  <2>5. more.op = step.op /\ more.changes = step.changes \o a /\ w.current = more
    BY <1>1, <2>1 DEF Steps, Managers
  <2>6. SaveAll(w, b) = [w EXCEPT !.current = [more EXCEPT !.changes = @ \o b]]
    BY <1>1, <1>2, <2>5 DEF SaveAll, Managers
  <2>7. [more EXCEPT !.changes = @ \o b] = [step EXCEPT !.changes = @ \o (a \o b)]
    BY <2>1, <2>3 DEF Steps
  <2>8. \A x : [w EXCEPT !.current = x] = [u EXCEPT !.current = x]
    BY <1>1 DEF Managers
  <2> QED BY <2>4, <2>6, <2>7, <2>8, Zenon
<1> QED BY <1>2 DEF SaveAll

\* What is recorded in two parts of an operation.
LEMMA RecordsMore ==
  ASSUME NEW c, FitManager(c.undo), NEW d, NEW e, NEW X, NEW a \in Seq(X), NEW b \in Seq(X),
         Records(c, d, a), Records(d, e, b)
  PROVE  Records(c, e, a \o b)
<1>1. e.undo = SaveAll(c.undo, a \o b)
  BY SaveTwice DEF Records
<1>2. PresentOf(c) = Back(PresentOf(e), a \o b)
  BY BackConcat DEF Records
<1> QED BY <1>1, <1>2 DEF Records

\* The changes of two operations, one after the other, are all recorded.
LEMMA FollowsMore ==
  ASSUME NEW c, FitManager(c.undo), NEW d, NEW e, Follows(c, d), Follows(d, e)
  PROVE  Follows(c, e)
<1>1. PICK X, a : AllFit(X) /\ a \in Seq(X) /\ Records(c, d, a)
  BY DEF Follows
<1>2. PICK Y, b : AllFit(Y) /\ b \in Seq(Y) /\ Records(d, e, b)
  BY DEF Follows
<1> DEFINE Z == X \union Y
<1>3. AllFit(Z) /\ a \in Seq(Z) /\ b \in Seq(Z)
  BY <1>1, <1>2, SeqMonotonic DEF AllFit
<1> HIDE DEF Z
<1>4. Records(c, e, a \o b) /\ a \o b \in Seq(Z)
  BY <1>1, <1>2, <1>3, RecordsMore, ConcatProperties
<1> QED BY <1>3, <1>4 DEF Follows

\* Where nothing has changed, nothing is to be recorded.
LEMMA RecordsNothing ==
  ASSUME NEW c, FitManager(c.undo), NEW d, d.undo = c.undo, d.failed = c.failed,
         PresentOf(d) = PresentOf(c)
  PROVE  Records(c, d, <<>>) /\ Follows(c, d)
<1>1. Records(c, d, <<>>)
  BY SaveNothing, PresentIs, BackNone DEF Records
<1>2. <<>> \in Seq({}) /\ AllFit({})
  BY DEF AllFit
<1> QED BY <1>1, <1>2 DEF Follows

\* One change, of which d has the new value.
LEMMA RecordsOne ==
  ASSUME NEW c, NEW d, NEW x, FitChange(x), d.undo = Save(c.undo, x), d.failed = c.failed,
         \A p \in Parts : PresentOf(c)[p] = IF p = PartOf(x) THEN OldOf(x) ELSE PresentOf(d)[p]
  PROVE  Records(c, d, <<x>>) /\ Follows(c, d)
<1>1. PresentOf(c) = Back(PresentOf(d), <<x>>)
  BY BackOne, PresentIs DEF IsState
<1>2. Records(c, d, <<x>>)
  BY <1>1 DEF Records, Save
<1>3. <<x>> \in Seq({x}) /\ AllFit({x})
  BY DEF AllFit
<1> QED BY <1>2, <1>3 DEF Follows

\* Changes that are of no card and no note change no part.
LEMMA RecordsOther ==
  ASSUME NEW c, NEW d, NEW x, FitChange(x), x.kind \notin {"card", "note"},
         d.undo = Save(c.undo, x), d.failed = c.failed, PresentOf(d) = PresentOf(c)
  PROVE  Records(c, d, <<x>>) /\ Follows(c, d)
<1>1. \A p \in Parts : p # PartOf(x)
  BY DEF Parts, PartOf
<1> QED BY <1>1, RecordsOne

\* Recording a change touches the manager alone.
LEMMA SaveUndoRecords ==
  ASSUME NEW c, FitCollection(c), NEW x, FitChange(x)
  PROVE  /\ SaveUndo(c, x).undo = Save(c.undo, x) /\ SaveUndo(c, x).failed = c.failed
         /\ SaveUndo(c, x).queues = c.queues /\ SaveUndo(c, x).notes = c.notes
         /\ SaveUndo(c, x).cards = c.cards /\ PresentOf(SaveUndo(c, x)) = PresentOf(c)
<1>1. /\ SaveUndo(c, x).undo = Save(c.undo, x) /\ SaveUndo(c, x).failed = c.failed
      /\ SaveUndo(c, x).notes = c.notes /\ SaveUndo(c, x).cards = c.cards
      /\ SaveUndo(c, x).queues = c.queues
  BY DEF SaveUndo, FitCollection, Fields
<1> QED BY <1>1, PresentSame

\* A card that is given another row leaves its old row behind.
LEMMA UpdateUndoableRecords ==
  ASSUME NEW c, FitCollection(c), NEW id, NEW card
  PROVE  LET x == Change("card", id, c.cards[id])
             d == UpdateCardUndoable(c, id, card)
         IN /\ Records(c, d, <<x>>) /\ Follows(c, d) /\ FitChange(x)
            /\ \A y : y.kind = "card" /\ y.id = id /\ y.old = card
                        => PresentOf(d) = Back(PresentOf(c), <<y>>)
<1> DEFINE x == Change("card", id, c.cards[id])
           saved == SaveUndo(c, x)
           d == UpdateCardUndoable(c, id, card)
<1>1. FitChange(x) /\ x.kind = "card" /\ x.id = id /\ x.old = c.cards[id]
  BY DEF FitChange, Change, FitCollection, Kinds
<1>2. /\ FitCollection(saved) /\ saved.undo = Save(c.undo, x) /\ saved.failed = c.failed
      /\ saved.notes = c.notes /\ saved.cards = c.cards
  BY <1>1, SaveUndoFits, SaveUndoRecords
<1> HIDE DEF saved, x
<1>3. d = [saved EXCEPT !.cards = [saved.cards EXCEPT ![id] = card]]
  BY <1>2 DEF UpdateCardUndoable, FitCollection, Fields, saved, x
<1>4. /\ d.undo = Save(c.undo, x) /\ d.failed = c.failed /\ d.notes = c.notes
      /\ \A k \in Cards : d.cards[k] = IF k = id THEN card ELSE c.cards[k]
  BY <1>2, <1>3 DEF FitCollection, Fields
<1> HIDE DEF d
<1>5. ASSUME NEW p \in Parts
      PROVE  /\ PresentOf(c)[p] = IF p = PartOf(x) THEN OldOf(x) ELSE PresentOf(d)[p]
             /\ PresentOf(d)[p] = IF p = <<"card", id>> THEN RowOf(card) ELSE PresentOf(c)[p]
  BY <1>1, <1>4, PartsAre, SMTT(30) DEF PartOf, OldOf
<1>6. \A y : y.kind = "card" /\ y.id = id /\ y.old = card => PresentOf(d) = Back(PresentOf(c), <<y>>)
  BY <1>5, BackOne, PresentIs DEF IsState, PartOf, OldOf
<1> QED BY <1>1, <1>4, <1>5, <1>6, RecordsOne DEF d, x

\* A note that is given another text leaves its old text behind.
LEMMA UpdateNoteRecords ==
  ASSUME NEW c, FitCollection(c), NEW id \in Notes, NEW note
  PROVE  LET x == Change("note", id, c.notes[id])
             d == UpdateNote(c, id, note)
         IN /\ Records(c, d, <<x>>) /\ Follows(c, d) /\ FitChange(x)
            /\ \A y : y.kind = "note" /\ y.id = id /\ y.old = note
                        => PresentOf(d) = Back(PresentOf(c), <<y>>)
<1> DEFINE x == Change("note", id, c.notes[id])
           saved == SaveUndo(c, x)
           d == UpdateNote(c, id, note)
<1>1. FitChange(x) /\ x.kind = "note" /\ x.id = id /\ x.old = c.notes[id]
  BY DEF FitChange, Change, Kinds
<1>2. /\ FitCollection(saved) /\ saved.undo = Save(c.undo, x) /\ saved.failed = c.failed
      /\ saved.notes = c.notes /\ saved.cards = c.cards
  BY <1>1, SaveUndoFits, SaveUndoRecords
<1> HIDE DEF saved, x
<1>3. d = [saved EXCEPT !.notes = [saved.notes EXCEPT ![id] = note]]
  BY <1>2 DEF UpdateNote, FitCollection, Fields, saved, x
<1>4. /\ d.undo = Save(c.undo, x) /\ d.failed = c.failed /\ d.cards = c.cards
      /\ \A k \in Notes : d.notes[k] = IF k = id THEN note ELSE c.notes[k]
  BY <1>2, <1>3 DEF FitCollection, Fields
<1> HIDE DEF d
<1>5. ASSUME NEW p \in Parts
      PROVE  /\ PresentOf(c)[p] = IF p = PartOf(x) THEN OldOf(x) ELSE PresentOf(d)[p]
             /\ PresentOf(d)[p] = IF p = <<"note", id>> THEN note ELSE PresentOf(c)[p]
  BY <1>1, <1>4, PartsAre, SMTT(30) DEF PartOf, OldOf
<1>6. \A y : y.kind = "note" /\ y.id = id /\ y.old = note => PresentOf(d) = Back(PresentOf(c), <<y>>)
  BY <1>5, BackOne, PresentIs DEF IsState, PartOf, OldOf
<1> QED BY <1>1, <1>4, <1>5, <1>6, RecordsOne DEF d, x

\* So do many cards at once, each of them once.
LEMMA UpdateCardsRecords ==
  ASSUME NEW c, FitCollection(c), NEW D \in SUBSET Cards, NEW rows \in [D -> FitRows]
  PROVE  Follows(c, UpdateCards(c, rows))
<1> DEFINE ids == SetToSeq(D)
           n   == Cardinality(D)
           X   == {Change("card", id, c.cards[id]) : id \in D}
           changes == [i \in DOMAIN ids |-> Change("card", ids[i], c.cards[ids[i]])]
           d == UpdateCards(c, rows)
<1>1. /\ n \in Nat /\ ids \in [1..n -> D]
      /\ \A id \in D : \E i \in 1..n : ids[i] = id
  BY Enumeration, QueuesAssumption, FS_Subset
<1>2. AllFit(X)
  <2> SUFFICES ASSUME NEW id \in D PROVE FitChange(Change("card", id, c.cards[id]))
    BY DEF AllFit
  <2> QED BY DEF FitChange, Change, FitCollection, Kinds
<1>3. /\ changes \in Seq(X) /\ Len(changes) = n
      /\ \A i \in 1..n : changes[i] = Change("card", ids[i], c.cards[ids[i]])
  <2> HIDE DEF ids, n
  <2>1. \A i \in 1..n : changes[i] \in X /\ changes[i] = Change("card", ids[i], c.cards[ids[i]])
    BY <1>1
  <2>2. changes = [i \in 1..n |-> changes[i]]
    BY <1>1
  <2> HIDE DEF changes, X
  <2> QED BY <1>1, <2>1, <2>2, SMTT(30)
<1>4. /\ d.undo = SaveAll(c.undo, changes) /\ d.failed = c.failed /\ d.notes = c.notes
      /\ \A id \in Cards : d.cards[id] = IF id \in D THEN [rows[id] EXCEPT !.mtime = now] ELSE c.cards[id]
  <2> DEFINE cards == [id \in Cards |-> IF id \in D THEN [rows[id] EXCEPT !.mtime = now] ELSE c.cards[id]]
  <2>1. d = [c EXCEPT !.undo = SaveAll(c.undo, changes), !.cards = cards]
    BY DEF UpdateCards
  <2>2. d.undo = SaveAll(c.undo, changes) /\ d.failed = c.failed /\ d.notes = c.notes /\ d.cards = cards
    <3> HIDE DEF cards, changes, d
    <3> QED BY <2>1 DEF FitCollection, Fields
  <2> QED BY <2>2
<1> HIDE DEF changes, d, ids, n
<1>5. ASSUME NEW p \in Parts
      PROVE  PresentOf(c)[p] = Back(PresentOf(d), changes)[p]
  <2>1. Back(PresentOf(d), changes)[p]
          = IF Changing(changes, p) = {} THEN PresentOf(d)[p] ELSE Before(changes, p)
    BY DEF Back
  <2>2. Changing(changes, p) = {i \in 1..n : <<"card", ids[i]>> = p}
    <3>1. Changing(changes, p) = {i \in 1..n : PartOf(changes[i]) = p}
      BY <1>3, ChangingIs
    <3>2. \A i \in 1..n : PartOf(changes[i]) = <<"card", ids[i]>>
      BY <1>3 DEF PartOf, Change
    <3> QED BY <3>1, <3>2
  <2>3. ASSUME NEW id \in Notes, p = <<"note", id>>, \A e : PresentOf(e)[p] = e.notes[id]
        PROVE  PresentOf(c)[p] = Back(PresentOf(d), changes)[p]
    <3>1. \A k : <<"card", k>> # p
      BY <2>3
    <3>2. Changing(changes, p) = {}
      BY <2>2, <3>1
    <3>3. Back(PresentOf(d), changes)[p] = PresentOf(d)[p]
      BY <2>1, <3>2
    <3>4. PresentOf(d)[p] = d.notes[id] /\ PresentOf(c)[p] = c.notes[id]
      BY <2>3
    <3> QED BY <1>4, <3>3, <3>4
  <2>4. ASSUME NEW id \in Cards, p = <<"card", id>>, \A e : PresentOf(e)[p] = RowOf(e.cards[id])
        PROVE  PresentOf(c)[p] = Back(PresentOf(d), changes)[p]
    <3>1. CASE id \notin D
      <4>1. Changing(changes, p) = {}
        BY <1>1, <2>2, <2>4, <3>1
      <4> QED BY <1>4, <2>1, <2>4, <3>1, <4>1
    <3>2. CASE id \in D
      <4> DEFINE m == Min(Changing(changes, p))
      <4>1. Changing(changes, p) # {}
        BY <1>1, <2>2, <2>4, <3>2
      <4>2. m \in Changing(changes, p) /\ \A k \in Changing(changes, p) : m <= k
        BY <1>3, <4>1, ChangingIs, MinIs
      <4> HIDE DEF m
      <4>3. Before(changes, p) = OldOf(changes[m])
        BY <1>3, <4>2, BeforeIs
      <4>4. m \in 1..n /\ ids[m] = id
        BY <2>2, <2>4, <4>2
      <4>5. OldOf(changes[m]) = RowOf(c.cards[id])
        BY <1>3, <4>4 DEF OldOf, Change
      <4> QED BY <2>1, <2>4, <4>1, <4>3, <4>5
    <3> QED BY <3>1, <3>2
  <2> QED BY <2>3, <2>4, PartsAre
<1>6. PresentOf(c) = Back(PresentOf(d), changes)
  BY <1>5, PresentIs DEF IsState
<1>7. Records(c, d, changes)
  BY <1>4, <1>6 DEF Records
<1> HIDE DEF X
<1> QED BY <1>2, <1>3, <1>7 DEF Follows, d

-----------------------------------------------------------------------------
(* A new day: nothing is lost but the steps.                                 *)

\* Cards that come back from their burial are the cards they were: RowOf, what a step
\* remembers of a card, is told without it.
LEMMA UnburiedPresent ==
  ASSUME NEW c, FitCollection(c)
  PROVE  /\ PresentOf(Unburied(c)) = PresentOf(c) /\ Unburied(c).undo = c.undo
         /\ Unburied(c).failed = c.failed /\ Unburied(c).panicked = c.panicked
<1> DEFINE cards == [id \in Cards |-> IF c.cards[id].queue = "buried" THEN Unshelved(c.cards[id])
                                      ELSE c.cards[id]]
           d == Unburied(c)
<1>1. d = [c EXCEPT !.cards = cards, !.unburied = Today(now)]
  BY DEF Unburied
<1>2. ASSUME NEW id \in Cards PROVE RowOf(cards[id]) = RowOf(c.cards[id])
  <2> DEFINE row == c.cards[id]
             back == [row EXCEPT !.queue = RestoredQueue(row)]
  <2>1. row \in CardRow
    BY DEF FitCollection, FitRows
  <2> HIDE DEF row
  <2>2. CASE row.queue = "buried"
    <3>1. RestoredQueue(row) # "buried"
      BY <2>1 DEF RestoredQueue, CardRow
    <3>2. back.queue = RestoredQueue(row)
      BY <2>1 DEF CardRow
    <3>3. RowOf(row) = back
      BY <2>2 DEF RowOf
    <3>4. RowOf(back) = [back EXCEPT !.queue = back.queue]
      BY <3>1, <3>2 DEF RowOf
    <3>5. [back EXCEPT !.queue = back.queue] = back
      BY <2>1 DEF CardRow
    <3>6. Unshelved(row) = back /\ cards[id] = Unshelved(row)
      BY <2>2 DEF Unshelved, Shelved, row
    <3> QED BY <3>3, <3>4, <3>5, <3>6 DEF row
  <2>3. CASE row.queue # "buried"
    BY <2>3 DEF row
  <2> QED BY <2>2, <2>3
<1> HIDE DEF cards, d
<1>3. d.cards = cards /\ d.notes = c.notes /\ d.undo = c.undo /\ d.failed = c.failed
      /\ d.panicked = c.panicked
  BY <1>1 DEF FitCollection, Fields
<1>4. PresentOf(d) = PresentOf(c)
  BY <1>2, <1>3, PresentSame
<1> QED BY <1>3, <1>4 DEF d

\* No steps are left, and none is open.
Dropped(u) == u.undo = <<>> /\ u.redo = <<>> /\ u.current = NoStep

\* Without an open step nothing is recorded.
LEMMA DroppedSaves ==
  ASSUME NEW u, Dropped(u), NEW changes
  PROVE  SaveAll(u, changes) = u
  BY DEF Dropped, SaveAll, NoStep, OpenStep

\* A discarded history leaves the collection as it is.
LEMMA DiscardedDrops ==
  ASSUME NEW c, FitCollection(c)
  PROVE  /\ PresentOf(Discarded(c)) = PresentOf(c) /\ Dropped(Discarded(c).undo)
         /\ Discarded(c).undo.mode = c.undo.mode
         /\ Discarded(c).failed = c.failed /\ Discarded(c).panicked = c.panicked
<1> DEFINE d == Discarded(c)
           u == BeginStep(c.undo, None)
<1>1. PICK S : AllFit(S) /\ c.undo \in Managers(S)
  BY DEF FitCollection, FitManager
<1>2. Dropped(u) /\ u.mode = c.undo.mode
  BY <1>1 DEF Dropped, BeginStep, Managers
<1> HIDE DEF u
<1>3. d.cards = c.cards /\ d.notes = c.notes /\ d.undo = u /\ d.failed = c.failed
      /\ d.panicked = c.panicked
  BY DEF Discarded, FitCollection, Fields, u
<1> HIDE DEF d
<1>4. PresentOf(d) = PresentOf(c)
  BY <1>3, PresentSame
<1> QED BY <1>2, <1>3, <1>4 DEF d

\* A new day drops the steps, if it does anything, and leaves the collection as it is.
LEMMA ClearIfDayChangedDrops ==
  ASSUME NEW c, FitCollection(c)
  PROVE  LET d == ClearIfDayChanged(c)
         IN /\ PresentOf(d) = PresentOf(c) /\ d.failed = c.failed /\ d.panicked = c.panicked
            /\ d.undo = c.undo \/ (Dropped(d.undo) /\ d.undo.mode = c.undo.mode)
<1>1. CASE ClearIfDayChanged(c) = c
  BY <1>1
<1>2. CASE ClearIfDayChanged(c) = Unburied(Discarded(c))
  <2>1. FitCollection(Discarded(c))
    BY DiscardedFits
  <2> QED BY <1>2, <2>1, DiscardedDrops, UnburiedPresent
<1> QED BY <1>1, <1>2 DEF ClearIfDayChanged

-----------------------------------------------------------------------------
(* The operations record what they do.                                       *)

\* The time of the last modification is recorded and is no part of the state.
LEMMA SetModifiedTimeRecords ==
  ASSUME NEW c, FitCollection(c), NEW time
  PROVE  LET x == Change("mod", None, c.mod)
             d == SetModifiedTime(c, time)
         IN /\ Records(c, d, <<x>>) /\ Follows(c, d) /\ FitChange(x)
            /\ PresentOf(d) = PresentOf(c)
<1> DEFINE x == Change("mod", None, c.mod)
           saved == SaveUndo(c, x)
           d == SetModifiedTime(c, time)
<1>1. FitChange(x) /\ x.kind = "mod"
  BY OtherChange DEF Kinds, Change
<1>2. /\ FitCollection(saved) /\ saved.undo = Save(c.undo, x) /\ saved.failed = c.failed
      /\ saved.notes = c.notes /\ saved.cards = c.cards
  BY <1>1, SaveUndoFits, SaveUndoRecords
<1>3. d = [saved EXCEPT !.mod = time]
  BY DEF SetModifiedTime
<1> HIDE DEF saved, x, d
<1>4. d.undo = Save(c.undo, x) /\ d.failed = c.failed /\ d.notes = c.notes /\ d.cards = c.cards
  BY <1>2, <1>3 DEF FitCollection, Fields
<1>5. PresentOf(d) = PresentOf(c)
  BY <1>4, PresentSame
<1> QED BY <1>1, <1>4, <1>5, RecordsOther DEF d, x

\* A card that is changed and stamped.
LEMMA UpdateRecords ==
  ASSUME NEW c, FitCollection(c), NEW id, NEW card
  PROVE  Follows(c, UpdateCard(c, id, card))
  BY UpdateUndoableRecords DEF UpdateCard

\* Cards that are put on a shelf.
LEMMA BuryOrSuspendRecords ==
  ASSUME NEW c, FitCollection(c), NEW ids \in SUBSET Cards, NEW queue \in Shelved
  PROVE  Follows(c, BuryOrSuspend(c, ids, queue))
<1> DEFINE put  == {id \in ids : c.cards[id].queue \notin {queue, "suspended"}}
           rows == [id \in put |-> [c.cards[id] EXCEPT !.queue = queue]]
<1>1. rows \in [put -> FitRows]
  <2> SUFFICES ASSUME NEW id \in put PROVE [c.cards[id] EXCEPT !.queue = queue] \in FitRows
    OBVIOUS
  <2>1. c.cards[id] \in FitRows
    BY DEF FitCollection
  <2> QED BY <2>1, UnshelvedFits DEF FitRows
<1>2. put \in SUBSET Cards
  OBVIOUS
<1>3. BuryOrSuspend(c, ids, queue) = UpdateCards(c, rows)
  BY DEF BuryOrSuspend
<1> HIDE DEF put, rows
<1> QED BY <1>1, <1>2, <1>3, UpdateCardsRecords

\* An answer: the siblings are buried first, and the answered card is written after.
LEMMA AnswerInnerRecords ==
  ASSUME NEW c, FitCollection(c), now \in Int, NEW id, NEW answer
  PROVE  Follows(c, AnswerInner(c, id, answer))
<1> DEFINE buried == BurySiblings(c, id)
<1>1. Follows(c, buried) /\ FitCollection(buried)
  BY BuryOrSuspendRecords, BuryOrSuspendFits DEF BurySiblings, Siblings, Shelved
<1>2. FitManager(c.undo)
  BY DEF FitCollection
<1>3. AnswerInner(c, id, answer) = UpdateCard(buried, id, Answered(c.cards[id], answer, now))
  BY DEF AnswerInner
<1> HIDE DEF buried
<1>4. Follows(buried, AnswerInner(c, id, answer))
  BY <1>1, <1>3, UpdateRecords
<1> QED BY <1>1, <1>2, <1>4, FollowsMore

\* The queues that an answer moves are no part of the state.
LEMMA UpdateQueuesRecords ==
  ASSUME NEW c, FitCollection(c), NEW id, NEW finished
  PROVE  UpdateQueues(c, id, finished).failed \/ Follows(c, UpdateQueues(c, id, finished))
<1> DEFINE card == IF finished THEN None ELSE c.cards[id]
           next == AnsweredQueue(c.queues, id, card, now)
           x == Change("answered", None, next.update)
           saved == SaveUndo(c, x)
           d == [saved EXCEPT !.queues = next.queues]
<1>1. FitChange(x) /\ x.kind = "answered"
  BY OtherChange DEF Kinds, Change
<1>2. \/ UpdateQueues(c, id, finished) = c
      \/ UpdateQueues(c, id, finished) = [c EXCEPT !.failed = TRUE]
      \/ UpdateQueues(c, id, finished) = d
  BY DEF UpdateQueues
<1>3. /\ FitCollection(saved) /\ saved.undo = Save(c.undo, x) /\ saved.failed = c.failed
      /\ saved.notes = c.notes /\ saved.cards = c.cards
  BY <1>1, SaveUndoFits, SaveUndoRecords
<1> HIDE DEF next, saved, x
<1>4. d.undo = Save(c.undo, x) /\ d.failed = c.failed /\ d.notes = c.notes /\ d.cards = c.cards
  BY <1>3 DEF FitCollection, Fields
<1> HIDE DEF d
<1>5. PresentOf(d) = PresentOf(c)
  BY <1>4, PresentSame
<1>6. Follows(c, d)
  BY <1>1, <1>4, <1>5, RecordsOther
<1>7. [c EXCEPT !.failed = TRUE].failed = TRUE
  BY DEF FitCollection, Fields
<1>8. Follows(c, c)
  BY RecordsNothing DEF FitCollection
<1> QED BY <1>2, <1>6, <1>7, <1>8

\* Cards that go back to their home deck.
LEMMA ReturnAllRecords ==
  ASSUME NEW c, FitCollection(c)
  PROVE  Follows(c, ReturnAll(c))
<1> DEFINE away == {id \in Cards : c.cards[id].deck # "home"}
           rows == [id \in away |-> Returned(c.cards[id])]
<1>1. rows \in [away -> FitRows]
  <2> SUFFICES ASSUME NEW id \in away PROVE Returned(c.cards[id]) \in FitRows
    OBVIOUS
  <2>1. c.cards[id] \in FitRows
    BY DEF FitCollection
  <2> QED BY <2>1, ReturnedFits DEF FitRows
<1>2. away \in SUBSET Cards
  OBVIOUS
<1>3. ReturnAll(c) = UpdateCards(c, rows)
  BY DEF ReturnAll
<1> HIDE DEF away, rows
<1> QED BY <1>1, <1>2, <1>3, UpdateCardsRecords

\* Cards that are gathered in a filtered deck.
LEMMA MovedRecords ==
  ASSUME NEW c, FitCollection(c), NEW ids \in SUBSET Cards, NEW deck \in {"preview", "filtered"}
  PROVE  Follows(c, UpdateCards(c, [id \in ids |-> MovedInto(c.cards[id], deck)]))
<1> DEFINE rows == [id \in ids |-> MovedInto(c.cards[id], deck)]
<1>1. rows \in [ids -> FitRows]
  <2> SUFFICES ASSUME NEW id \in ids PROVE MovedInto(c.cards[id], deck) \in FitRows
    OBVIOUS
  <2>1. c.cards[id] \in FitRows
    BY DEF FitCollection
  <2> QED BY <2>1, MovedIntoFits DEF FitRows
<1> HIDE DEF rows
<1>2. Follows(c, UpdateCards(c, rows))
  BY <1>1, UpdateCardsRecords
<1> QED BY <1>2 DEF rows

-----------------------------------------------------------------------------
(* Taking changes back.                                                      *)

\* A change that is of no card and no note gives nothing back.
LEMMA BackOther ==
  ASSUME NEW x, x.kind \notin {"card", "note"}, NEW s, IsState(s)
  PROVE  Back(s, <<x>>) = s
<1>1. \A p \in Parts : p # PartOf(x)
  BY DEF Parts, PartOf
<1> QED BY <1>1, BackOne DEF IsState

\* The answer is recorded again, unless a new day has dropped the steps.
Reopened(c, d) ==
  /\ PresentOf(d) = PresentOf(c) /\ d.failed = c.failed
  /\ \/ Dropped(d.undo)
     \/ \E y : FitChange(y) /\ y.kind \notin {"card", "note"} /\ Records(c, d, <<y>>)

\* Queues that are out of date are thrown away, and with a new day the steps.
LEMMA OrInvalidatedDrops ==
  ASSUME NEW c, FitCollection(c), NEW build
  PROVE  LET d == OrInvalidated(c, build)
         IN /\ PresentOf(d) = PresentOf(c) /\ d.failed = c.failed
            /\ d.undo = c.undo \/ Dropped(d.undo)
<1> DEFINE fresh == ClearIfDayChanged(c)
           without == [fresh EXCEPT !.queues = None]
<1>1. /\ FitCollection(fresh) /\ PresentOf(fresh) = PresentOf(c) /\ fresh.failed = c.failed
      /\ fresh.undo = c.undo \/ Dropped(fresh.undo)
  BY ClearIfDayChangedFits, ClearIfDayChangedDrops
<1>2. OrInvalidated(c, build) = fresh \/ OrInvalidated(c, build) = without
  BY DEF OrInvalidated
<1> HIDE DEF fresh
<1>3. without.cards = fresh.cards /\ without.notes = fresh.notes /\ without.undo = fresh.undo
      /\ without.failed = fresh.failed
  BY <1>1 DEF FitCollection, Fields
<1> HIDE DEF without
<1>4. PresentOf(without) = PresentOf(fresh)
  BY <1>3, PresentSame
<1> QED BY <1>1, <1>2, <1>3, <1>4

\* The answer that is taken back is recorded for the redo.
LEMMA SavedReopened ==
  ASSUME NEW c, FitCollection(c), NEW v, FitCollection(v), NEW y, FitChange(y),
         PresentOf(v) = PresentOf(c), v.failed = c.failed, v.undo = c.undo \/ Dropped(v.undo),
         y.kind \notin {"card", "note"}, NEW queues
  PROVE  /\ Reopened(c, SaveUndo(v, y))
         /\ Reopened(c, SaveUndo([v EXCEPT !.queues = queues], y))
<1> DEFINE w == [v EXCEPT !.queues = queues]
<1>1. /\ FitCollection(w) /\ w.cards = v.cards /\ w.notes = v.notes /\ w.undo = v.undo
      /\ w.failed = v.failed
  BY DEF FitCollection, Fields
<1> HIDE DEF w
<1>2. PresentOf(w) = PresentOf(c)
  BY <1>1, PresentSame
<1>3. ASSUME NEW e, FitCollection(e), e.undo = v.undo, e.failed = v.failed,
             PresentOf(e) = PresentOf(c)
      PROVE  Reopened(c, SaveUndo(e, y))
  <2> DEFINE d == SaveUndo(e, y)
  <2>1. d.undo = Save(v.undo, y) /\ d.failed = c.failed /\ PresentOf(d) = PresentOf(c)
    BY <1>3, SaveUndoRecords
  <2> HIDE DEF d
  <2>2. CASE Dropped(v.undo)
    BY <2>1, <2>2, DroppedSaves DEF Reopened, Save, d
  <2>3. CASE v.undo = c.undo
    BY <2>1, <2>3, RecordsOther DEF Reopened, d
  <2> QED BY <2>2, <2>3
<1> QED BY <1>1, <1>2, <1>3 DEF w

\* An answer taken back, or given again.
LEMMA AnswersReopen ==
  ASSUME NEW c, FitCollection(c), NEW update
  PROVE  /\ Reopened(c, UndoAnswer(c, update))
         /\ RedoAnswer(c, update).failed \/ Reopened(c, RedoAnswer(c, update))
<1> DEFINE valid == OrInvalidated(c, update.build)
           back == [valid EXCEPT !.queues = Unanswered(valid.queues, update)]
           again == [valid EXCEPT !.queues = Reanswered(valid.queues, update)]
           stuck == [valid EXCEPT !.failed = TRUE]
           x == Change("unanswered", None, update)
           y == Change("answered", None, update)
<1>1. /\ FitChange(x) /\ x.kind \notin {"card", "note"}
      /\ FitChange(y) /\ y.kind \notin {"card", "note"}
  BY OtherChange DEF Kinds, Change
<1>2. FitCollection(valid) /\ PresentOf(valid) = PresentOf(c) /\ valid.failed = c.failed
      /\ (valid.undo = c.undo \/ Dropped(valid.undo))
  BY OrInvalidatedFits, OrInvalidatedDrops
<1>3. UndoAnswer(c, update) = SaveUndo(valid, x) \/ UndoAnswer(c, update) = SaveUndo(back, x)
  BY DEF UndoAnswer
<1>4. \/ RedoAnswer(c, update) = stuck
      \/ RedoAnswer(c, update) = SaveUndo(valid, y) \/ RedoAnswer(c, update) = SaveUndo(again, y)
  BY DEF RedoAnswer
<1> HIDE DEF valid, x, y
<1>5. Reopened(c, SaveUndo(valid, x)) /\ Reopened(c, SaveUndo(back, x))
      /\ Reopened(c, SaveUndo(valid, y)) /\ Reopened(c, SaveUndo(again, y))
  BY <1>1, <1>2, SavedReopened
<1>6. stuck.failed
  BY <1>2 DEF FitCollection, Fields
<1> QED BY <1>3, <1>4, <1>5, <1>6, Zenon

\* A change taken back gives its part back what it was, and is recorded again.
TakenBack(c, d, change) ==
  /\ ~d.failed /\ PresentOf(d) = Back(PresentOf(c), <<change>>)
  /\ \/ Dropped(d.undo)
     \/ \E y : /\ FitChange(y) /\ Records(c, d, <<y>>)
               /\ y.kind = "note" <=> change.kind = "note"

\* Every kind of change is taken back as it was recorded, or the operation fails.
LEMMA UndoChangeRecords ==
  ASSUME NEW c, FitCollection(c), NEW change, FitChange(change), ~c.failed
  PROVE  UndoChange(change, c).failed \/ TakenBack(c, UndoChange(change, c), change)
<1> DEFINE d == UndoChange(change, c)
<1>1. change.kind \in Kinds
  BY DEF FitChange
<1>2. CASE change.kind = "card"
  <2> DEFINE x == Change("card", change.id, c.cards[change.id])
  <2>1. d = UpdateCardUndoable(c, change.id, change.old)
    BY <1>2 DEF UndoChange
  <2>2. x.kind = "card"
    BY DEF Change
  <2>3. Records(c, d, <<x>>) /\ FitChange(x) /\ PresentOf(d) = Back(PresentOf(c), <<change>>)
    BY <1>2, <2>1, UpdateUndoableRecords
  <2> HIDE DEF x, d
  <2>4. ~d.failed
    BY <2>3 DEF Records
  <2> QED BY <1>2, <2>2, <2>3, <2>4 DEF TakenBack, d
<1>3. CASE change.kind = "note"
  <2> DEFINE x == Change("note", change.id, c.notes[change.id])
  <2>1. d = UpdateNote(c, change.id, change.old)
    BY <1>3 DEF UndoChange
  <2>2. x.kind = "note"
    BY DEF Change
  <2>3. Records(c, d, <<x>>) /\ FitChange(x) /\ PresentOf(d) = Back(PresentOf(c), <<change>>)
    <3>1. change.id \in Notes
      BY <1>3 DEF FitChange
    <3> QED BY <1>3, <2>1, <3>1, UpdateNoteRecords
  <2> HIDE DEF x, d
  <2>4. ~d.failed
    BY <2>3 DEF Records
  <2> QED BY <1>3, <2>2, <2>3, <2>4 DEF TakenBack, d
<1>4. CASE change.kind \notin {"card", "note"}
  <2>1. Back(PresentOf(c), <<change>>) = PresentOf(c)
    BY <1>4, BackOther, PresentIs
  <2>2. CASE change.kind = "deck"
    <3>1. d = SaveUndo(c, change)
      BY <2>2 DEF UndoChange
    <3>2. d.undo = Save(c.undo, change) /\ d.failed = c.failed /\ PresentOf(d) = PresentOf(c)
      BY <3>1, SaveUndoRecords
    <3> HIDE DEF d
    <3>3. Records(c, d, <<change>>)
      BY <1>4, <3>2, RecordsOther
    <3> QED BY <2>1, <3>2, <3>3 DEF TakenBack, d
  <2>3. CASE change.kind = "mod"
    <3> DEFINE x == Change("mod", None, c.mod)
               time == ModifiedTimeWithCache(c.undo, change.old, c.mod)
    <3>1. d = SetModifiedTime(c, time)
      BY <2>3 DEF UndoChange
    <3> HIDE DEF time
    <3>2. x.kind = "mod"
      BY DEF Change
    <3>3. Records(c, d, <<x>>) /\ FitChange(x) /\ PresentOf(d) = PresentOf(c)
      BY <3>1, SetModifiedTimeRecords
    <3> HIDE DEF x, d
    <3>4. ~d.failed
      BY <3>3 DEF Records
    <3> QED BY <1>4, <2>1, <3>2, <3>3, <3>4 DEF TakenBack, d
  <2>4. CASE change.kind \in {"answered", "unanswered"}
    <3>1. d = UndoAnswer(c, change.old) \/ d = RedoAnswer(c, change.old)
      BY <2>4 DEF UndoChange
    <3>2. d.failed \/ Reopened(c, d)
      BY <3>1, AnswersReopen, Zenon
    <3> HIDE DEF d
    <3> QED BY <1>4, <2>1, <3>2 DEF Reopened, TakenBack, d
  <2> QED BY <1>1, <1>4, <2>2, <2>3, <2>4 DEF Kinds
<1> QED BY <1>2, <1>3, <1>4

\* What is so at the start and after each change that is taken back, is so at the end.
LEMMA UndoChangesRecords ==
  ASSUME NEW c, FitCollection(c), ~c.failed, NEW S, AllFit(S), NEW changes \in Seq(S)
  PROVE  LET d == UndoChanges(c, changes)
         IN \/ d.failed
            \/ /\ ~d.failed /\ PresentOf(d) = Back(PresentOf(c), changes)
               /\ \/ Dropped(d.undo)
                  \/ \E X, new : /\ AllFit(X) /\ new \in Seq(X) /\ Records(c, d, new)
                                 /\ Len(new) = Len(changes)
                                 /\ \A k \in 1..Len(changes) :
                                      new[k].kind = "note" <=> changes[Len(changes) + 1 - k].kind = "note"
<1> DEFINE n == Len(changes)
           last(i) == SubSeq(changes, n + 1 - i, n)
           Again(d, i) == \E X, new : /\ AllFit(X) /\ new \in Seq(X) /\ Records(c, d, new) /\ Len(new) = i
                                 /\ \A k \in 1..i : new[k].kind = "note" <=> changes[n + 1 - k].kind = "note"
           Good(d, i) == \/ d.failed
                         \/ /\ ~d.failed /\ PresentOf(d) = Back(PresentOf(c), last(i))
                            /\ Dropped(d.undo) \/ Again(d, i)
<1>1. n \in Nat /\ \A i \in 1..n : changes[i] \in S
  BY LenProperties
<1>2. PICK after :
        /\ UndoChanges(c, changes) = after[n] /\ after[0] = c
        /\ \A i \in 1..n : after[i] = UndoChange(changes[n + 1 - i], after[i - 1])
  BY OneByOne
<1>3. FitManager(c.undo)
  BY DEF FitCollection
<1>4. FitCollection(after[0]) /\ Good(after[0], 0)
  <2>1. last(0) = <<>>
    BY <1>1, SubSeqEmpty
  <2>2. Records(c, c, <<>>) /\ PresentOf(c) = Back(PresentOf(c), <<>>)
    BY <1>3, RecordsNothing, PresentIs, BackNone
  <2>3. <<>> \in Seq({}) /\ AllFit({}) /\ Len(<<>>) = 0
    BY DEF AllFit
  <2> HIDE DEF n
  <2>4. Again(c, 0)
    <3>1. 1..0 = {}
      OBVIOUS
    <3> WITNESS {}, <<>>
    <3> QED BY <2>2, <2>3, <3>1
  <2> HIDE DEF Again, last
  <2> QED BY <1>2, <2>1, <2>2, <2>4
<1>5. ASSUME NEW i \in 1..n, FitCollection(after[i - 1]), Good(after[i - 1], i - 1)
      PROVE  FitCollection(after[i]) /\ Good(after[i], i)
  <2> DEFINE d == after[i - 1]
             e == after[i]
             x == changes[n + 1 - i]
  <2>1. n + 1 - i \in 1..n /\ FitChange(x) /\ e = UndoChange(x, d)
    BY <1>1, <1>2 DEF AllFit
  <2>2. FitCollection(e)
    BY <1>5, <2>1, UndoChangeFits
  <2>3. d.failed \/ e.failed \/ TakenBack(d, e, x)
    BY <1>5, <2>1, UndoChangeRecords
  <2>4. d.failed => e.failed
    BY <2>1 DEF UndoChange
  <2>5. last(i) = <<x>> \o last(i - 1) /\ last(i - 1) \in Seq(S) /\ <<x>> \in Seq(S)
    <3>1. last(i) = <<x>> \o SubSeq(changes, (n + 1 - i) + 1, n)
      <4>1. n \in (n + 1 - i)..Len(changes)
        BY <1>1, <2>1
      <4> QED BY <2>1, <4>1, SubSeqRecursiveFirst
    <3>2. (n + 1 - i) + 1 = n + 1 - (i - 1)
      BY <1>1
    <3>3. last(i - 1) \in Seq(S)
      <4>1. n + 1 - (i - 1) \in Int /\ \A k \in (n + 1 - (i - 1))..n : changes[k] \in S
        BY <1>1
      <4> QED BY <1>1, <4>1, SubSeqProperties
    <3>4. x \in S
      BY <1>1, <2>1
    <3> QED BY <3>1, <3>2, <3>3, <3>4
  <2> HIDE DEF last, x, d, e, n
  <2>6. ASSUME ~d.failed, TakenBack(d, e, x)
        PROVE  Good(e, i)
    <3>1. PresentOf(d) = Back(PresentOf(c), last(i - 1)) /\ (Dropped(d.undo) \/ Again(d, i - 1))
      BY <1>5, <2>6 DEF d
    <3>2. PresentOf(e) = Back(PresentOf(c), last(i))
      <4>1. Back(PresentOf(c), <<x>> \o last(i - 1)) = Back(Back(PresentOf(c), last(i - 1)), <<x>>)
        BY <2>5, BackConcat
      <4> QED BY <2>5, <2>6, <3>1, <4>1 DEF TakenBack
    <3>3. Dropped(e.undo) \/ Again(e, i)
      <4>1. CASE Dropped(e.undo)
        BY <4>1
      <4>2. CASE Dropped(d.undo)
        BY <2>6, <4>2, DroppedSaves DEF TakenBack, Records
      <4>3. ASSUME NEW y, FitChange(y), Records(d, e, <<y>>), y.kind = "note" <=> x.kind = "note",
                   Again(d, i - 1)
            PROVE  Again(e, i)
        <5>1. PICK X, new : /\ AllFit(X) /\ new \in Seq(X) /\ Records(c, d, new) /\ Len(new) = i - 1
                            /\ \A k \in 1..(i - 1) : new[k].kind = "note" <=> changes[n + 1 - k].kind = "note"
          BY <4>3
        <5> DEFINE Y == X \union {y}
                   more == new \o <<y>>
        <5>2. AllFit(Y) /\ new \in Seq(Y) /\ <<y>> \in Seq(Y)
          BY <4>3, <5>1, SeqMonotonic DEF AllFit
        <5> HIDE DEF Y
        <5>3. Records(c, e, more)
          BY <1>3, <4>3, <5>1, <5>2, RecordsMore
        <5>4. more \in Seq(Y) /\ Len(more) = i /\ \A k \in 1..i : more[k] = IF k <= i - 1 THEN new[k] ELSE y
          <6>1. i \in Nat /\ 1 <= i /\ Len(<<y>>) = 1 /\ <<y>>[1] = y
            BY <1>1 DEF n
          <6> QED BY <5>1, <5>2, <6>1, ConcatProperties
        <5> HIDE DEF more
        <5>5. \A k \in 1..i : more[k].kind = "note" <=> changes[n + 1 - k].kind = "note"
          <6> TAKE k \in 1..i
          <6>1. CASE k <= i - 1
            <7>1. k \in 1..(i - 1)
              BY <1>1, <6>1 DEF n
            <7> QED BY <5>1, <5>4, <6>1, <7>1
          <6>2. CASE ~(k <= i - 1)
            <7>1. k = i
              BY <1>1, <6>2 DEF n
            <7> QED BY <4>3, <5>4, <6>2, <7>1 DEF x
          <6> QED BY <6>1, <6>2
        <5> QED BY <5>2, <5>3, <5>4, <5>5
      <4> HIDE DEF Again
      <4> QED BY <2>6, <3>1, <4>1, <4>2, <4>3 DEF TakenBack
    <3> HIDE DEF Again
    <3> QED BY <2>6, <3>2, <3>3 DEF TakenBack
  <2> QED BY <2>2, <2>3, <2>4, <2>6 DEF d, e
<1> DEFINE T == {k \in 0..n : ~(FitCollection(after[k]) /\ Good(after[k], k))}
<1> HIDE DEF Good
<1>6. ASSUME T # {} PROVE FALSE
  <2>1. PICK k \in T : \A j \in T : k <= j
    <3>1. T \subseteq Nat
      BY <1>1
    <3> HIDE DEF T
    <3> QED BY <1>6, <3>1, LeastNumber
  <2>2. k \in 1..n
    BY <1>1, <1>4, <2>1
  <2>3. FitCollection(after[k - 1]) /\ Good(after[k - 1], k - 1)
    <3>1. k - 1 \in 0..n /\ ~(k <= k - 1)
      BY <1>1, <2>2
    <3> QED BY <2>1, <3>1
  <2> QED BY <1>5, <2>1, <2>2, <2>3
<1>7. Good(after[n], n)
  <2>1. n \in 0..n
    BY <1>1
  <2> QED BY <1>6, <2>1
<1>8. last(n) = changes
  <2>1. n + 1 - n = 1
    BY <1>1
  <2> QED BY <2>1, SubSeqFull
<1> HIDE DEF last
<1> QED BY <1>2, <1>7, <1>8 DEF Good

-----------------------------------------------------------------------------
(* Steps, and the states they lead back to.                                  *)

\* Steps with the same changes lead to the same states: marks and names say nothing.
LEMMA StatesAlike ==
  ASSUME NEW T, NEW a \in Seq(T), NEW U, NEW b \in Seq(U), Len(a) = Len(b),
         \A i \in 1..Len(a) : a[i].changes = b[i].changes, NEW s
  PROVE  StatesBefore(s, a) = StatesBefore(s, b)
<1> DEFINE states == StatesBefore(s, b)
           n == Len(a)
<1>1. /\ n \in Nat /\ states = [i \in 1..n |-> states[i]]
      /\ \A i \in 1..n : states[i] = Back(IF i = 1 THEN s ELSE states[i - 1], b[i].changes)
  BY StatesStep
<1> HIDE DEF states
<1>2. \A i \in 1..n : states[i] = Back(IF i = 1 THEN s ELSE states[i - 1], a[i].changes)
  BY <1>1
<1>3. \A i \in 1..n : StatesBefore(s, a)[i] = states[i]
  BY <1>2, StatesFollow
<1>4. StatesBefore(s, a) = [i \in 1..n |-> StatesBefore(s, a)[i]]
  BY StatesStep
<1> QED BY <1>1, <1>3, <1>4 DEF states

\* Two states that the first step leads back to the same one.
LEMMA StatesMeet ==
  ASSUME NEW T, NEW steps \in Seq(T), steps # <<>>, NEW s, NEW t,
         Back(s, steps[1].changes) = Back(t, steps[1].changes)
  PROVE  StatesBefore(s, steps) = StatesBefore(t, steps)
<1> DEFINE states == StatesBefore(t, steps)
           n == Len(steps)
<1>1. /\ n \in Nat /\ states = [i \in 1..n |-> states[i]]
      /\ \A i \in 1..n : states[i] = Back(IF i = 1 THEN t ELSE states[i - 1], steps[i].changes)
  BY StatesStep
<1> HIDE DEF states
<1>2. \A i \in 1..n : states[i] = Back(IF i = 1 THEN s ELSE states[i - 1], steps[i].changes)
  <2> TAKE i \in 1..n
  <2>1. CASE i = 1
    BY <1>1, <2>1
  <2>2. CASE i # 1
    BY <1>1, <2>2
  <2> QED BY <2>1, <2>2
<1>3. \A i \in 1..n : StatesBefore(s, steps)[i] = states[i]
  BY <1>2, StatesFollow
<1>4. StatesBefore(s, steps) = [i \in 1..n |-> StatesBefore(s, steps)[i]]
  BY StatesStep
<1> QED BY <1>1, <1>3, <1>4 DEF states

\* No steps lead nowhere.
LEMMA StatesNone ==
  ASSUME NEW s
  PROVE  StatesBefore(s, <<>>) = <<>>
<1>1. <<>> \in Seq({})
  OBVIOUS
<1>2. Len(StatesBefore(s, <<>>)) = 0
      /\ StatesBefore(s, <<>>) = [i \in 1..0 |-> StatesBefore(s, <<>>)[i]]
  BY <1>1, StatesStep
<1> QED BY <1>2

\* The states are a sequence.
LEMMA StatesSeq ==
  ASSUME NEW T, NEW steps \in Seq(T), NEW s
  PROVE  \E V : StatesBefore(s, steps) \in Seq(V)
<1> DEFINE states == StatesBefore(s, steps)
           n == Len(steps)
           V == {states[i] : i \in 1..n}
<1>1. n \in Nat /\ states = [i \in 1..n |-> states[i]]
  BY StatesStep
<1> HIDE DEF states, n
<1>2. states \in Seq(V)
  BY <1>1
<1> QED BY <1>2 DEF states

\* Keeping some of the first after a new one is keeping one more of all.
LEMMA FirstKept ==
  ASSUME NEW V, NEW s \in Seq(V), NEW x, NEW k \in 0..Len(s)
  PROVE  <<x>> \o SubSeq(s, 1, k) = SubSeq(<<x>> \o s, 1, k + 1)
<1> DEFINE W == V \union {x}
           all == <<x>> \o s
           some == SubSeq(s, 1, k)
<1>1. /\ all \in Seq(W) /\ Len(all) = Len(s) + 1 /\ Len(s) \in Nat /\ all[1] = x
      /\ \A i \in 1..Len(s) : all[i + 1] = s[i]
  <2>1. <<x>> \in Seq(W) /\ s \in Seq(W) /\ Len(<<x>>) = 1 /\ <<x>>[1] = x
    BY SeqMonotonic
  <2> HIDE DEF W
  <2> QED BY <2>1, ConcatProperties, LenProperties
<1>2. some \in Seq(W) /\ Len(some) = k /\ \A i \in 1..k : some[i] = s[i]
  <2>1. s \in Seq(W)
    BY SeqMonotonic
  <2>2. \A i \in 1..k : s[i] \in W
    BY <2>1, <1>1, LenProperties
  <2> HIDE DEF W, all
  <2> QED BY <1>1, <2>1, <2>2, SubSeqProperties
<1>3. /\ <<x>> \o some \in Seq(W) /\ Len(<<x>> \o some) = k + 1 /\ (<<x>> \o some)[1] = x
      /\ \A i \in 1..k : (<<x>> \o some)[i + 1] = some[i]
  <2>1. <<x>> \in Seq(W) /\ Len(<<x>>) = 1 /\ <<x>>[1] = x
    OBVIOUS
  <2> HIDE DEF W, some
  <2> QED BY <1>2, <2>1, ConcatProperties, LenProperties
<1>4. SubSeq(all, 1, k + 1) \in Seq(W) /\ Len(SubSeq(all, 1, k + 1)) = k + 1
      /\ \A i \in 1..(k + 1) : SubSeq(all, 1, k + 1)[i] = all[i]
  <2>1. \A i \in 1..(k + 1) : all[i] \in W
    <3> HIDE DEF all, W
    <3> QED BY <1>1, ElementOfSeq
  <2> HIDE DEF all, W
  <2> QED BY <1>1, <2>1, SubSeqProperties
<1> HIDE DEF all, some, W
<1>5. ASSUME NEW i \in 1..(k + 1)
      PROVE  (<<x>> \o some)[i] = SubSeq(all, 1, k + 1)[i]
  <2>1. CASE i = 1
    BY <1>1, <1>3, <1>4, <2>1
  <2>2. CASE i # 1
    <3>1. i - 1 \in 1..k /\ i - 1 \in 1..Len(s) /\ (i - 1) + 1 = i
      BY <1>1, <2>2
    <3>2. (<<x>> \o some)[i] = some[i - 1] /\ all[i] = s[i - 1]
      BY <1>1, <1>3, <3>1
    <3> QED BY <1>2, <1>4, <3>1, <3>2
  <2> QED BY <2>1, <2>2
<1> QED BY <1>3, <1>4, <1>5, SeqEqual DEF all, some

\* At most as many as can be undone.
AtLimit(states) ==
  SubSeq(states, 1, IF Len(states) < UndoLimit THEN Len(states) ELSE UndoLimit)

\* The steps that are kept with a new one.
AddedTo(steps, step, more) ==
  /\ Len(steps) <= UndoLimit => Len(more) <= UndoLimit
  /\ \A i \in 1..Len(more) : more[i] = step \/ \E j \in 1..Len(steps) : more[i] = steps[j]

\* A step is recorded, and the oldest one makes room at the limit.
LEMMA StepRecorded ==
  ASSUME NEW T, NEW steps \in Seq(T), NEW step \in T, NEW s, NEW t, s = Back(t, step.changes)
  PROVE  /\ StatesBefore(t, <<step>> \o Kept(steps)) = AtLimit(<<s>> \o StatesBefore(s, steps))
         /\ <<step>> \o Kept(steps) \in Seq(T)
         /\ AddedTo(steps, step, <<step>> \o Kept(steps))
<1> DEFINE n == Len(steps)
           k == IF n < UndoLimit THEN n ELSE UndoLimit - 1
           states == StatesBefore(s, steps)
           past == <<s>> \o states
           room == SubSeq(steps, 1, k)
<1>1. n \in Nat /\ UndoLimit \in Nat \ {0} /\ k \in 0..n
  BY UndoAssumption, LenProperties
<1>2. room = Kept(steps)
  BY DEF Kept
<1> HIDE DEF k
<1>3. room \in Seq(T) /\ Len(room) = k /\ \A i \in 1..k : room[i] = steps[i]
  <2>1. \A i \in 1..k : steps[i] \in T
    BY <1>1, ElementOfSeq
  <2> QED BY <1>1, <2>1, SubSeqProperties
<1>4. StatesBefore(t, <<step>> \o room) = <<s>> \o StatesBefore(s, room)
  <2> HIDE DEF room
  <2> QED BY <1>3, StatesCons
<1>5. StatesBefore(s, room) = SubSeq(states, 1, k)
  BY <1>1, StatesPrefix
<1>6. Len(states) = n /\ \E V : states \in Seq(V)
  BY StatesStep, StatesSeq
<1> HIDE DEF states, room
<1>7. <<s>> \o SubSeq(states, 1, k) = SubSeq(past, 1, k + 1)
  BY <1>1, <1>6, FirstKept DEF n
<1>8. Len(past) = n + 1
  <2>1. PICK V : states \in Seq(V)
    BY <1>6
  <2>2. states \in Seq(V \union {s}) /\ <<s>> \in Seq(V \union {s}) /\ Len(<<s>>) = 1
    BY <2>1, SeqMonotonic
  <2>3. Len(past) = 1 + Len(states)
    BY <2>2, ConcatProperties
  <2> QED BY <1>1, <1>6, <2>3
<1> HIDE DEF past
<1>9. k + 1 = IF Len(past) < UndoLimit THEN Len(past) ELSE UndoLimit
  BY <1>1, <1>8 DEF k
<1>10. /\ <<step>> \o room \in Seq(T) /\ Len(<<step>> \o room) = k + 1
       /\ (<<step>> \o room)[1] = step
       /\ \A i \in 1..k : (<<step>> \o room)[i + 1] = room[i]
  <2>1. <<step>> \in Seq(T) /\ Len(<<step>>) = 1 /\ <<step>>[1] = step
    OBVIOUS
  <2> QED BY <1>1, <1>3, <2>1, ConcatProperties
<1>11. n <= UndoLimit => k + 1 <= UndoLimit
  BY <1>1 DEF k
<1>12. ASSUME NEW i \in 1..(k + 1)
       PROVE  (<<step>> \o room)[i] = step \/ \E j \in 1..n : (<<step>> \o room)[i] = steps[j]
  <2>1. CASE i = 1
    BY <1>10, <2>1
  <2>2. CASE i # 1
    <3>1. i - 1 \in 1..k /\ i - 1 \in 1..n /\ (i - 1) + 1 = i
      BY <1>1, <2>2
    <3>2. (<<step>> \o room)[i] = steps[i - 1]
      BY <1>3, <1>10, <3>1
    <3> QED BY <3>1, <3>2
  <2> QED BY <2>1, <2>2
<1>13. StatesBefore(t, <<step>> \o room) = AtLimit(past)
  BY <1>4, <1>5, <1>7, <1>9 DEF AtLimit
<1>14. AddedTo(steps, step, <<step>> \o room)
  BY <1>10, <1>11, <1>12 DEF AddedTo, n
<1> QED BY <1>2, <1>10, <1>13, <1>14 DEF past, states

\* The step to be done again first is the last one.
LEMMA RedoOrder ==
  ASSUME NEW T, NEW redo \in Seq(T)
  PROVE  /\ Reverse(redo) \in Seq(T) /\ Len(Reverse(redo)) = Len(redo)
         /\ \A x \in T : Reverse(Append(redo, x)) = <<x>> \o Reverse(redo)
<1> DEFINE n == Len(redo)
           back == Reverse(redo)
<1>1. n \in Nat /\ \A i \in 1..n : redo[i] \in T
  BY LenProperties
<1>2. back = [i \in 1..n |-> redo[(n - i) + 1]]
  BY DEF Reverse
<1> HIDE DEF n
<1>3. \A i \in 1..n : (n - i) + 1 \in 1..n /\ back[i] = redo[(n - i) + 1]
  BY <1>1, <1>2
<1>4. back \in Seq(T) /\ Len(back) = n
  <2>1. \A i \in 1..n : back[i] \in T
    BY <1>1, <1>3
  <2> HIDE DEF back
  <2> QED BY <1>1, <1>2, <2>1
<1> HIDE DEF back
<1>5. ASSUME NEW x \in T
      PROVE  Reverse(Append(redo, x)) = <<x>> \o back
  <2> DEFINE more == Append(redo, x)
             all == <<x>> \o back
             other == Reverse(more)
  <2>1. /\ more \in Seq(T) /\ Len(more) = n + 1 /\ more[n + 1] = x
        /\ \A i \in 1..n : more[i] = redo[i]
    BY AppendProperties DEF n
  <2>2. /\ all \in Seq(T) /\ Len(all) = n + 1 /\ all[1] = x
        /\ \A i \in 1..n : all[i + 1] = back[i]
    <3>1. <<x>> \in Seq(T) /\ Len(<<x>>) = 1 /\ <<x>>[1] = x
      OBVIOUS
    <3> QED BY <1>1, <1>4, <3>1, ConcatProperties
  <2>3. other = [i \in 1..(n + 1) |-> more[((n + 1) - i) + 1]]
    <3> HIDE DEF more
    <3> QED BY <2>1 DEF Reverse
  <2>4. \A i \in 1..(n + 1) : other[i] = more[((n + 1) - i) + 1]
    BY <2>3
  <2> HIDE DEF more, all, other
  <2>5. ASSUME NEW i \in 1..(n + 1)
        PROVE  other[i] = all[i]
    <3>1. CASE i = 1
      <4>1. ((n + 1) - 1) + 1 = n + 1
        BY <1>1
      <4> QED BY <2>1, <2>2, <2>4, <3>1, <4>1
    <3>2. CASE i # 1
      <4>1. i - 1 \in 1..n /\ (i - 1) + 1 = i /\ ((n + 1) - i) + 1 = (n - (i - 1)) + 1
        BY <1>1, <3>2
      <4>2. all[i] = back[i - 1] /\ back[i - 1] = redo[(n - (i - 1)) + 1]
        BY <1>3, <2>2, <4>1
      <4>3. (n - (i - 1)) + 1 \in 1..n
        BY <1>3, <4>1
      <4> QED BY <2>1, <2>4, <4>1, <4>2, <4>3
    <3> QED BY <3>1, <3>2
  <2>6. other \in Seq(T) /\ Len(other) = n + 1
    <3>1. \A i \in 1..(n + 1) : other[i] \in T
      BY <2>2, <2>5, ElementOfSeq
    <3> QED BY <1>1, <2>3, <3>1
  <2> QED BY <2>2, <2>5, <2>6, SeqEqual DEF other, all, more
<1> QED BY <1>4, <1>5 DEF n, back

\* The step to be done again first, apart from the others.
LEMMA RedoSplits ==
  ASSUME NEW T, NEW redo \in Seq(T), redo # <<>>
  PROVE  /\ Front(redo) \in Seq(T) /\ Last(redo) \in T
         /\ Reverse(redo) = <<Last(redo)>> \o Reverse(Front(redo))
         /\ Last(redo) = redo[Len(redo)] /\ Len(redo) \in Nat \ {0}
         /\ Len(Front(redo)) = Len(redo) - 1
         /\ \A i \in 1..(Len(redo) - 1) : Front(redo)[i] = redo[i]
<1> DEFINE n == Len(redo)
           front == SubSeq(redo, 1, n - 1)
           x == redo[n]
<1>1. n \in Nat \ {0} /\ \A i \in 1..n : redo[i] \in T
  BY EmptySeq, LenProperties
<1>2. front = Front(redo) /\ x = Last(redo)
  BY DEF Front, Last
<1> HIDE DEF n
<1>3. front \in Seq(T) /\ Len(front) = n - 1 /\ \A i \in 1..(n - 1) : front[i] = redo[i]
  BY <1>1, SubSeqProperties
<1> HIDE DEF front
<1>4. Append(front, x) \in Seq(T) /\ Len(Append(front, x)) = n /\ Append(front, x)[n] = x
      /\ \A i \in 1..(n - 1) : Append(front, x)[i] = front[i]
  BY <1>1, <1>3, AppendProperties
<1>5. Append(front, x) = redo
  <2>1. \A i \in 1..n : Append(front, x)[i] = redo[i]
    <3> TAKE i \in 1..n
    <3>1. CASE i = n
      BY <1>4, <3>1
    <3>2. CASE i # n
      <4>1. i \in 1..(n - 1)
        BY <1>1, <3>2
      <4> QED BY <1>3, <1>4, <4>1
    <3> QED BY <3>1, <3>2
  <2> QED BY <1>4, <2>1, SeqEqual DEF n
<1>6. Reverse(redo) = <<x>> \o Reverse(front)
  <2>1. x \in T
    BY <1>1
  <2> HIDE DEF x
  <2>2. Reverse(Append(front, x)) = <<x>> \o Reverse(front)
    BY <1>3, <2>1, RedoOrder
  <2> QED BY <1>5, <2>2
<1> QED BY <1>1, <1>2, <1>3, <1>6 DEF n

-----------------------------------------------------------------------------
(* A step is begun, filled and closed.                                       *)

\* A step as an operation leaves it.
StepOf(op, changes) == [op |-> op, changes |-> changes, marked |-> FALSE]

\* A step leaves a trace.
Lasting(step) == step.op # "skip" /\ (step.changes # <<>> \/ step.op = "custom")

\* The steps to redo, once another operation has begun.
RedoLeft(u) == IF u.mode = "normal" THEN <<>> ELSE u.redo

\* An operation begins: its step is open and empty, and the steps to redo are gone unless
\* an undo or a redo is what begins.
LEMMA BegunIs ==
  ASSUME NEW c, FitCollection(c), NEW op \in Ops
  PROVE  LET b == Begun(c, op)
         IN /\ FitCollection(b) /\ PresentOf(b) = PresentOf(c) /\ b.failed = c.failed
            /\ b.cards = c.cards /\ b.notes = c.notes
            /\ b.undo.undo = c.undo.undo /\ b.undo.mode = c.undo.mode
            /\ b.undo.redo = RedoLeft(c.undo) /\ b.undo.current = StepOf(op, <<>>)
<1> DEFINE started == Started(c)
           b == Begun(c, op)
           u == c.undo
<1>1. /\ started.cards = c.cards /\ started.notes = c.notes /\ started.failed = c.failed
      /\ started.undo = u /\ FitCollection(started)
  BY ClockFits DEF Started, FitCollection, Fields
<1> HIDE DEF started
<1>2. b = [started EXCEPT !.undo = BeginStep(u, op)]
  BY <1>1 DEF Begun, started
<1>3. PICK S : u \in Managers(S)
  BY DEF FitCollection, FitManager
<1>4. BeginStep(u, op) = [u EXCEPT !.redo = RedoLeft(u), !.current = OpenStep(op)]
  BY UndoAssumption DEF BeginStep, RedoLeft
<1>5. /\ BeginStep(u, op).undo = u.undo /\ BeginStep(u, op).mode = u.mode
      /\ BeginStep(u, op).redo = RedoLeft(u) /\ BeginStep(u, op).current = OpenStep(op)
  <2> HIDE DEF u
  <2> QED BY <1>3, <1>4 DEF Managers
<1> HIDE DEF b, u
<1>6. b.undo = BeginStep(u, op) /\ b.cards = c.cards /\ b.notes = c.notes /\ b.failed = c.failed
  BY <1>1, <1>2 DEF FitCollection, Fields
<1>7. PresentOf(b) = PresentOf(c)
  BY <1>6, PresentSame
<1>8. FitCollection(b)
  BY BegunFits DEF b
<1> QED BY <1>5, <1>6, <1>7, <1>8 DEF b, u, StepOf, OpenStep

\* What is recorded goes into the open step.
LEMMA SavedIs ==
  ASSUME NEW u, FitManager(u), NEW op \in Ops, NEW some, u.current = StepOf(op, some),
         NEW changes
  PROVE  LET v == SaveAll(u, changes)
         IN /\ v.undo = u.undo /\ v.redo = u.redo /\ v.mode = u.mode
            /\ v.current = StepOf(op, some \o changes)
<1>1. PICK S : u \in Managers(S)
  BY DEF FitManager
<1>2. u.current.op = op /\ u.current.changes = some /\ op # None
  BY UndoAssumption DEF StepOf
<1> DEFINE next == StepOf(op, some \o changes)
           v == [u EXCEPT !.current = next]
<1>3. [u.current EXCEPT !.changes = u.current.changes \o changes] = next
  <2>1. ASSUME NEW x PROVE [StepOf(op, some) EXCEPT !.changes = x] = StepOf(op, x)
    <3> DEFINE step == StepOf(op, some)
               more == [step EXCEPT !.changes = x]
    <3>1. step \in [op : {op}, changes : {some}, marked : {FALSE}]
      BY DEF StepOf
    <3> HIDE DEF step
    <3>2. more \in [op : {op}, changes : {x}, marked : {FALSE}]
      BY <3>1
    <3> HIDE DEF more
    <3>3. more = [op |-> op, changes |-> x, marked |-> FALSE]
      BY <3>2
    <3> QED BY <3>3 DEF StepOf, more, step
  <2> QED BY <1>2, <2>1, Zenon
<1>4. SaveAll(u, changes) = [u EXCEPT !.current = [u.current EXCEPT !.changes = u.current.changes \o changes]]
  BY <1>1, <1>2 DEF SaveAll, Managers
<1> HIDE DEF next
<1>5. v.undo = u.undo /\ v.redo = u.redo /\ v.mode = u.mode /\ v.current = next
  BY <1>1 DEF Managers
<1> QED BY <1>3, <1>4, <1>5 DEF next

\* What becomes of a manager's steps when it closes the step it has open.
Closing(u, v, step) ==
  /\ v.mode = u.mode /\ v.current = NoStep
  /\ \/ ~Lasting(step) /\ v.undo = u.undo /\ v.redo = u.redo
     \/ Lasting(step) /\ u.mode = "undoing" /\ v.undo = u.undo /\ v.redo = Append(u.redo, step)
     \/ Lasting(step) /\ u.mode # "undoing" /\ v.undo = <<step>> \o Kept(u.undo) /\ v.redo = u.redo

\* The open step goes where the mode sends it, if it is worth keeping.
LEMMA EndStepIs ==
  ASSUME NEW u, FitManager(u), NEW op \in Ops, NEW changes, NEW marked,
         u.current = [op |-> op, changes |-> changes, marked |-> marked]
  PROVE  Closing(u, EndStep(u), u.current)
<1> DEFINE ended == [u EXCEPT !.current = NoStep]
           step == u.current
<1>1. PICK S : u \in Managers(S)
  BY DEF FitManager
<1>2. ended.undo = u.undo /\ ended.redo = u.redo /\ ended.mode = u.mode /\ ended.current = NoStep
      /\ ended \in Managers(S)
  BY <1>1 DEF Managers
<1>3. Lasting(step) <=> HasChanges(u) /\ step.op # "skip"
  BY UndoAssumption DEF HasChanges, Lasting
<1> HIDE DEF ended
<1>4. CASE ~Lasting(step)
  <2>1. EndStep(u) = ended
    BY <1>3, <1>4 DEF EndStep, ended
  <2> QED BY <1>2, <1>4, <2>1 DEF Closing
<1>5. CASE Lasting(step) /\ u.mode = "undoing"
  <2>1. EndStep(u) = [ended EXCEPT !.redo = Append(u.redo, step)]
    BY <1>2, <1>3, <1>5 DEF EndStep, ended
  <2> HIDE DEF step
  <2> QED BY <1>2, <1>5, <2>1 DEF Closing, Managers, step
<1>6. CASE Lasting(step) /\ u.mode # "undoing"
  <2>1. EndStep(u) = [ended EXCEPT !.undo = <<step>> \o Kept(u.undo)]
    BY <1>2, <1>3, <1>6 DEF EndStep, ended
  <2> HIDE DEF step
  <2> QED BY <1>2, <1>6, <2>1 DEF Closing, Managers, step
<1> QED BY <1>4, <1>5, <1>6

\* The open step is an edit of the note that the last step edited.
Joins(steps, op, later) ==
  /\ op = "note" /\ steps # <<>>
  /\ LET earlier == steps[1].changes
     IN /\ Len(earlier) = 2 /\ Len(later) = 2
        /\ earlier[1].kind = "note" /\ later[1].kind = "note"
        /\ earlier[2].kind = "mod" /\ later[2].kind = "mod"
        /\ earlier[1].id = later[1].id

\* The end of an operation: its step is closed, or joins the one before it.
LEMMA FinishedIs ==
  ASSUME NEW c, FitCollection(c), NEW op \in Ops, NEW all, c.undo.current = StepOf(op, all),
         NEW quick
  PROVE  LET d == Finished(c, op, quick)
         IN /\ PresentOf(d) = PresentOf(c) /\ d.failed = c.failed
            /\ \/ Closing(c.undo, d.undo, StepOf(op, all))
               \/ /\ Joins(c.undo.undo, op, all)
                  /\ d.undo.undo = c.undo.undo /\ d.undo.redo = c.undo.redo
                  /\ d.undo.mode = c.undo.mode /\ d.undo.current = NoStep
<1> DEFINE u == c.undo
           emptied == [u EXCEPT !.current.changes = <<>>]
           merged  == IF Coalesces(u, op, quick) THEN emptied ELSE u
           kept    == IF op # "answer" /\ RequiresRebuild(op, u.current.changes) THEN None ELSE c.queues
           d == Finished(c, op, quick)
<1>1. d = [c EXCEPT !.queues = kept, !.undo = EndStep(merged)]
  BY DEF Finished
<1>2. d.cards = c.cards /\ d.notes = c.notes /\ d.failed = c.failed /\ d.undo = EndStep(merged)
  <2> HIDE DEF merged, kept, d
  <2> QED BY <1>1 DEF FitCollection, Fields
<1> HIDE DEF d
<1>3. PresentOf(d) = PresentOf(c)
  BY <1>2, PresentSame
<1>4. CASE ~Coalesces(u, op, quick)
  <2>1. Closing(u, EndStep(u), u.current)
    BY EndStepIs DEF FitCollection, StepOf
  <2>2. d.undo = EndStep(u)
    BY <1>2, <1>4
  <2> QED BY <1>2, <1>3, <2>1, <2>2 DEF d
<1>5. CASE Coalesces(u, op, quick)
  <2>1. Joins(u.undo, op, all)
    BY <1>5 DEF Coalesces, Joins, StepOf
  <2>2. op = "note"
    BY <2>1 DEF Joins
  <2>3. PICK S : AllFit(S) /\ u \in Managers(S)
    BY DEF FitCollection, FitManager
  <2>4. u.current \in Steps(S) /\ u.current.op = op
    <3>1. u.current # NoStep
      BY UndoAssumption DEF NoStep, OpenStep, StepOf
    <3> QED BY <2>3, <3>1 DEF Managers, StepOf
  <2> DEFINE step == [u.current EXCEPT !.changes = <<>>]
  <2>5. step \in Steps(S) /\ step.op = op /\ step.changes = <<>>
    <3>1. <<>> \in Seq(S)
      BY EmptySeq
    <3> QED BY <2>4, <3>1 DEF Steps
  <2> HIDE DEF step
  <2>6. emptied = [u EXCEPT !.current = step]
    BY <2>3 DEF Managers, step
  <2> HIDE DEF emptied
  <2>7. emptied \in Managers(S) /\ emptied.current = step /\ emptied.undo = u.undo
        /\ emptied.redo = u.redo /\ emptied.mode = u.mode
    BY <2>3, <2>5, <2>6 DEF Managers
  <2>8. FitManager(emptied)
    BY <2>3, <2>7 DEF FitManager
  <2>9. step = [op |-> op, changes |-> <<>>, marked |-> step.marked]
    BY <2>5 DEF Steps
  <2>10. Closing(emptied, EndStep(emptied), step)
    BY <2>7, <2>8, <2>9, EndStepIs
  <2>11. ~Lasting(step)
    BY <2>2, <2>5 DEF Lasting
  <2>12. d.undo = EndStep(emptied)
    BY <1>2, <1>5
  <2> QED BY <1>2, <1>3, <2>1, <2>7, <2>10, <2>11, <2>12 DEF Closing, d
<1> QED BY <1>4, <1>5

\* What an operation that changed `all' since c leaves of its step.
Closes(c, d, op, all) ==
  LET step == StepOf(op, all)
      redo == RedoLeft(c.undo)
  IN /\ ~d.failed /\ d.undo.mode = c.undo.mode /\ d.undo.current = NoStep
     /\ \/ /\ ~Lasting(step) \/ Joins(c.undo.undo, op, all)
           /\ d.undo.undo = c.undo.undo /\ d.undo.redo = redo
        \/ /\ Lasting(step) /\ c.undo.mode = "undoing"
           /\ d.undo.undo = c.undo.undo /\ d.undo.redo = Append(redo, step)
        \/ /\ Lasting(step) /\ c.undo.mode # "undoing"
           /\ d.undo.undo = <<step>> \o Kept(c.undo.undo) /\ d.undo.redo = redo

\* The time of modification, if any, is recorded last.
Dated(mode, new, all) ==
  \/ all = new
  \/ mode = "normal" /\ Len(all) = Len(new) + 1 /\ \A i \in 1..Len(new) : all[i] = new[i]

\* An operation that succeeded: what it recorded leads back to where it began.
LEMMA ClosedIs ==
  ASSUME NEW c, FitCollection(c), ~c.failed, NEW op \in Ops, NEW quick, NEW e, FitCollection(e),
         NEW X, AllFit(X), NEW new \in Seq(X), Records(Begun(c, op), e, new)
  PROVE  LET d == Closed(c, e, op, quick)
         IN /\ PresentOf(d) = PresentOf(e)
            /\ \E Y, all : /\ AllFit(Y) /\ all \in Seq(Y) /\ Dated(c.undo.mode, new, all)
                           /\ PresentOf(c) = Back(PresentOf(d), all) /\ Closes(c, d, op, all)
<1> DEFINE b == Begun(c, op)
           dirty == HasChanges(e.undo) /\ e.undo.mode = "normal"
           saved == IF dirty THEN SetModified(e) ELSE e
           d == Closed(c, e, op, quick)
<1>1. /\ FitCollection(b) /\ PresentOf(b) = PresentOf(c) /\ b.failed = c.failed
      /\ b.undo.undo = c.undo.undo /\ b.undo.mode = c.undo.mode
      /\ b.undo.redo = RedoLeft(c.undo) /\ b.undo.current = StepOf(op, <<>>)
  BY BegunIs
<1>2. FitManager(b.undo) /\ FitManager(e.undo) /\ Records(b, e, new)
  BY <1>1 DEF FitCollection
<1> HIDE DEF b
<1>3. /\ e.undo.undo = c.undo.undo /\ e.undo.redo = RedoLeft(c.undo) /\ e.undo.mode = c.undo.mode
      /\ e.undo.current = StepOf(op, new) /\ ~e.failed
  <2>1. <<>> \o new = new
    BY ConcatEmptySeq
  <2>2. e.undo = SaveAll(b.undo, new) /\ ~e.failed
    BY <1>1, <1>2 DEF Records
  <2>3. /\ e.undo.undo = b.undo.undo /\ e.undo.redo = b.undo.redo /\ e.undo.mode = b.undo.mode
        /\ e.undo.current = StepOf(op, <<>> \o new)
    <3> DEFINE u == b.undo
               none == <<>>
    <3>1. FitManager(u) /\ u.current = StepOf(op, none)
      BY <1>1, <1>2
    <3> HIDE DEF u, none
    <3>2. /\ SaveAll(u, new).undo = u.undo /\ SaveAll(u, new).redo = u.redo
          /\ SaveAll(u, new).mode = u.mode /\ SaveAll(u, new).current = StepOf(op, none \o new)
      BY <3>1, SavedIs
    <3> QED BY <2>2, <3>2 DEF u, none
  <2> QED BY <1>1, <2>1, <2>2, <2>3
<1>4. \E Y, all : /\ AllFit(Y) /\ all \in Seq(Y) /\ Dated(c.undo.mode, new, all)
                  /\ FitCollection(saved) /\ ~saved.failed /\ PresentOf(saved) = PresentOf(e)
                  /\ Records(b, saved, all)
                  /\ saved.undo.undo = c.undo.undo /\ saved.undo.redo = RedoLeft(c.undo)
                  /\ saved.undo.mode = c.undo.mode /\ saved.undo.current = StepOf(op, all)
  <2>1. CASE ~dirty
    <3>1. saved = e
      BY <2>1
    <3> HIDE DEF saved, dirty
    <3> QED BY <1>2, <1>3, <3>1 DEF Dated
  <2>2. CASE dirty
    <3> DEFINE x == Change("mod", None, e.mod)
               Y == X \union {x}
               all == new \o <<x>>
    <3>1. saved = SetModifiedTime(e, ModifiedTimeWithCache(e.undo, Millis(e), e.mod))
      BY <2>2 DEF SetModified
    <3>2. e.undo.mode = "normal"
      BY <2>2
    <3> HIDE DEF saved, dirty, x
    <3>3. /\ FitCollection(saved) /\ Records(e, saved, <<x>>) /\ FitChange(x)
          /\ PresentOf(saved) = PresentOf(e)
      BY <3>1, SetModifiedTimeFits, SetModifiedTimeRecords DEF x
    <3>4. AllFit(Y) /\ new \in Seq(Y) /\ <<x>> \in Seq(Y)
      BY <3>3, SeqMonotonic DEF AllFit
    <3> HIDE DEF Y
    <3>5. Records(b, saved, all)
      BY <1>2, <3>3, <3>4, RecordsMore
    <3>6. /\ all \in Seq(Y) /\ Len(all) = Len(new) + 1 /\ \A i \in 1..Len(new) : all[i] = new[i]
      <4>1. Len(<<x>>) = 1
        OBVIOUS
      <4> QED BY <3>4, <4>1, ConcatProperties
    <3>7. saved.undo = SaveAll(e.undo, <<x>>) /\ ~saved.failed
      BY <1>3, <3>3 DEF Records
    <3>8. /\ saved.undo.undo = c.undo.undo /\ saved.undo.redo = RedoLeft(c.undo)
          /\ saved.undo.mode = c.undo.mode /\ saved.undo.current = StepOf(op, all)
      BY <1>2, <1>3, <3>7, SavedIs
    <3> HIDE DEF all
    <3> QED BY <1>3, <3>2, <3>3, <3>4, <3>5, <3>6, <3>7, <3>8 DEF Dated
  <2> QED BY <2>1, <2>2
<1>5. saved.undo.current.op # None => d = Finished(saved, op, quick)
  BY <1>3 DEF Closed
<1> HIDE DEF saved, d
<1>6. PICK Y, all : /\ AllFit(Y) /\ all \in Seq(Y) /\ Dated(c.undo.mode, new, all)
                    /\ FitCollection(saved) /\ ~saved.failed /\ PresentOf(saved) = PresentOf(e)
                    /\ Records(b, saved, all)
                    /\ saved.undo.undo = c.undo.undo /\ saved.undo.redo = RedoLeft(c.undo)
                    /\ saved.undo.mode = c.undo.mode /\ saved.undo.current = StepOf(op, all)
  BY <1>4
<1>7. d = Finished(saved, op, quick)
  <2>1. saved.undo.current.op # None
    BY <1>6, UndoAssumption DEF StepOf
  <2> QED BY <1>5, <2>1
<1>8. /\ PresentOf(d) = PresentOf(saved) /\ d.failed = saved.failed
      /\ \/ Closing(saved.undo, d.undo, StepOf(op, all))
         \/ /\ Joins(saved.undo.undo, op, all)
            /\ d.undo.undo = saved.undo.undo /\ d.undo.redo = saved.undo.redo
            /\ d.undo.mode = saved.undo.mode /\ d.undo.current = NoStep
  BY <1>6, <1>7, FinishedIs
<1>9. PresentOf(c) = Back(PresentOf(d), all)
  BY <1>1, <1>6, <1>8 DEF Records
<1>10. Closes(c, d, op, all)
  BY <1>6, <1>8 DEF Closing, Closes
<1> QED BY <1>6, <1>8, <1>9, <1>10 DEF d

\* An operation that failed, or whose step a new day dropped.
LEMMA NotClosed ==
  ASSUME NEW c, FitCollection(c), NEW op \in Ops, NEW quick, NEW e, FitCollection(e)
  PROVE  LET d == Closed(c, e, op, quick)
         IN /\ e.failed => /\ PresentOf(d) = PresentOf(c) /\ Dropped(d.undo) /\ d.failed = c.failed
                           /\ d.undo.mode = c.undo.mode
            /\ ~e.failed /\ Dropped(e.undo)
                 => PresentOf(d) = PresentOf(e) /\ Dropped(d.undo) /\ ~d.failed
<1> DEFINE d == Closed(c, e, op, quick)
           started == Started(c)
           panicked == [e EXCEPT !.panicked = TRUE]
<1>1. ASSUME e.failed
      PROVE  /\ PresentOf(d) = PresentOf(c) /\ Dropped(d.undo) /\ d.failed = c.failed
             /\ d.undo.mode = c.undo.mode
  <2>1. d = Discarded(started)
    BY <1>1 DEF Closed
  <2>2. FitCollection(started) /\ started.cards = c.cards /\ started.notes = c.notes
        /\ started.failed = c.failed /\ started.undo = c.undo
    BY ClockFits DEF Started, FitCollection, Fields
  <2> HIDE DEF started, d
  <2>3. PresentOf(started) = PresentOf(c)
    BY <2>2, PresentSame
  <2> QED BY <2>1, <2>2, <2>3, DiscardedDrops
<1>2. ASSUME ~e.failed, Dropped(e.undo)
      PROVE  PresentOf(d) = PresentOf(e) /\ Dropped(d.undo) /\ ~d.failed
  <2>1. e.undo.current.op = None /\ ~HasChanges(e.undo)
    BY <1>2 DEF Dropped, HasChanges, NoStep, OpenStep
  <2>2. d = panicked
    BY <1>2, <2>1 DEF Closed
  <2>3. panicked.cards = e.cards /\ panicked.notes = e.notes /\ panicked.undo = e.undo
        /\ panicked.failed = e.failed
    BY DEF FitCollection, Fields
  <2> HIDE DEF panicked, d
  <2>4. PresentOf(panicked) = PresentOf(e)
    BY <2>3, PresentSame
  <2> QED BY <1>2, <2>2, <2>3, <2>4
<1> QED BY <1>1, <1>2

-----------------------------------------------------------------------------
(* The history of a collection, and when the collection is at rest.          *)

\* The history of a collection, as Past and Future of Study tell it of col.
PastOf(c) == StatesBefore(PresentOf(c), c.undo.undo)
FutureOf(c) == StatesBefore(PresentOf(c), Reverse(c.undo.redo))

\* A step is worth undoing, and the changes of an edited note are recorded in the order
\* they were made in; what redoing it takes back, in the other.
Undoable(step) == Lasting(step) /\ (step.op = "note" => step.changes[1].kind = "note")
Redoable(step) ==
  Lasting(step) /\ (step.op = "note" => step.changes[Len(step.changes)].kind = "note")

\* Between operations.
Rests(u) ==
  /\ u.current = NoStep /\ Len(u.undo) <= UndoLimit
  /\ \A i \in 1..Len(u.undo) : Undoable(u.undo[i])
  /\ \A i \in 1..Len(u.redo) : Redoable(u.redo[i])

\* No operation is under way, and none has failed half-way.
AtRest(c) == ~c.failed /\ c.undo.mode = "normal" /\ Rests(c.undo)

-----------------------------------------------------------------------------
(* The moves of the history, from one collection to the next.                *)

\* The state after a further edit of the note that the last step edited.
Rewrites(state, past, next) ==
  /\ past # <<>>
  /\ \E p \in {"note"} \X Notes : \A q \in Parts \ {p} :
       past[1][q] = state[q] /\ next[q] = state[q]

\* The state before is added to the past, or is skipped there when two edits join.
RecordedAs(c, d) ==
  LET past == <<PresentOf(c)>> \o PastOf(c)
  IN \/ PastOf(d) = AtLimit(past)
     \/ Rewrites(PresentOf(c), PastOf(c), PresentOf(d)) /\ PastOf(d) = PastOf(c)

\* An edit, or an operation that is no step: nothing is left to redo.
Edited(c, d) ==
  /\ d.undo.redo = <<>>
  /\ RecordedAs(c, d) \/ (PresentOf(d) = PresentOf(c) /\ PastOf(d) = PastOf(c))

\* The end of the steps, with or without what the operation was to do.
Forgotten(c, d) ==
  /\ Dropped(d.undo)
  /\ \/ PresentOf(d) = PresentOf(c)
     \/ PastOf(c) # <<>> /\ PresentOf(d) = PastOf(c)[1]
     \/ FutureOf(c) # <<>> /\ PresentOf(d) = FutureOf(c)[1]

-----------------------------------------------------------------------------
(* Edits.                                                                    *)

\* An edit of a note, undone.
LEMMA EditBack ==
  ASSUME NEW S, NEW changes \in Seq(S), Len(changes) = 2, changes[1].kind = "note",
         changes[2].kind = "mod", NEW s
  PROVE  Back(s, changes)
           = [q \in Parts |-> IF q = <<"note", changes[1].id>> THEN changes[1].old ELSE s[q]]
<1>1. SUFFICES ASSUME NEW q \in Parts
               PROVE  (IF Changing(changes, q) = {} THEN s[q] ELSE Before(changes, q))
                        = IF q = <<"note", changes[1].id>> THEN changes[1].old ELSE s[q]
  BY Zenon DEF Back
<1>2. Changing(changes, q) = {i \in 1..2 : PartOf(changes[i]) = q}
  BY ChangingIs
<1>3. PartOf(changes[2]) # q /\ PartOf(changes[1]) = <<"note", changes[1].id>>
  BY DEF PartOf, Parts
<1>4. CASE q = <<"note", changes[1].id>>
  <2>1. 1 \in Changing(changes, q) /\ \A k \in Changing(changes, q) : 1 <= k
    BY <1>2, <1>3, <1>4
  <2>2. Before(changes, q) = OldOf(changes[1])
    BY <2>1, BeforeIs
  <2>3. OldOf(changes[1]) = changes[1].old
    BY DEF OldOf
  <2> QED BY <1>4, <2>1, <2>2, <2>3
<1>5. CASE q # <<"note", changes[1].id>>
  <2>1. Changing(changes, q) = {}
    BY <1>2, <1>3, <1>5
  <2> QED BY <1>5, <2>1
<1> QED BY <1>4, <1>5

\* Two edits of one note in quick succession leave the states before the first.
LEMMA JoinedStates ==
  ASSUME NEW S, NEW steps \in Seq(Steps(S)), NEW Y, AllFit(Y), NEW later \in Seq(Y), NEW op,
         Joins(steps, op, later), NEW s, NEW t, IsState(t), s = Back(t, later)
  PROVE  /\ StatesBefore(t, steps) = StatesBefore(s, steps)
         /\ Rewrites(s, StatesBefore(s, steps), t)
<1> DEFINE earlier == steps[1].changes
           id == later[1].id
           p == <<"note", id>>
           states == StatesBefore(s, steps)
<1>1. /\ steps # <<>> /\ Len(earlier) = 2 /\ Len(later) = 2
      /\ earlier[1].kind = "note" /\ later[1].kind = "note"
      /\ earlier[2].kind = "mod" /\ later[2].kind = "mod" /\ earlier[1].id = id
  BY DEF Joins
<1>2. 1 \in 1..Len(steps) /\ earlier \in Seq(S)
  <2>1. 1 \in 1..Len(steps)
    BY <1>1, EmptySeq, LenProperties
  <2>2. steps[1] \in Steps(S)
    BY <2>1, ElementOfSeq
  <2> QED BY <2>1, <2>2 DEF Steps
<1>3. id \in Notes
  <2>1. later[1] \in Y
    <3>1. 1 \in 1..Len(later)
      BY <1>1
    <3> QED BY <3>1, ElementOfSeq
  <2> QED BY <1>1, <2>1 DEF AllFit, FitChange
<1>4. s = [q \in Parts |-> IF q = p THEN later[1].old ELSE t[q]]
  BY <1>1, EditBack
<1> HIDE DEF earlier, states, id
<1>5. \A r : Back(r, earlier) = [q \in Parts |-> IF q = p THEN earlier[1].old ELSE r[q]]
  BY <1>1, <1>2, EditBack
<1>6. Back(s, earlier) = Back(t, earlier)
  <2>1. \A q \in Parts : Back(s, earlier)[q] = Back(t, earlier)[q]
    BY <1>4, <1>5
  <2>2. IsState(Back(s, earlier)) /\ IsState(Back(t, earlier))
    BY PresentIs
  <2> QED BY <2>1, <2>2 DEF IsState
<1>7. StatesBefore(t, steps) = states
  BY <1>1, <1>6, StatesMeet DEF earlier, states
<1>8. states[1] = Back(s, earlier) /\ states # <<>>
  <2>1. Len(states) = Len(steps) /\ Len(states) # 0
        /\ states[1] = Back(IF 1 = 1 THEN s ELSE states[1 - 1], steps[1].changes)
    BY <1>2, StatesStep DEF states
  <2> QED BY <2>1 DEF earlier
<1>9. \A q \in Parts \ {p} : states[1][q] = s[q] /\ t[q] = s[q]
  BY <1>4, <1>5, <1>8
<1> QED BY <1>3, <1>7, <1>8, <1>9 DEF Rewrites, states

\* A step goes onto the others: the state before it comes first.
LEMMA StepAdded ==
  ASSUME NEW c, FitCollection(c), Rests(c.undo), NEW d, NEW Y, NEW step \in Steps(Y),
         Undoable(step), PresentOf(c) = Back(PresentOf(d), step.changes),
         d.undo.undo = <<step>> \o Kept(c.undo.undo)
  PROVE  /\ RecordedAs(c, d) /\ Len(d.undo.undo) <= UndoLimit
         /\ \A i \in 1..Len(d.undo.undo) : Undoable(d.undo.undo[i])
<1>1. PICK S : AllFit(S) /\ c.undo \in Managers(S)
  BY DEF FitCollection, FitManager
<1> DEFINE Z == Steps(S \union Y)
           steps == c.undo.undo
           more == <<step>> \o Kept(steps)
<1>2. steps \in Seq(Z) /\ step \in Z
  <2>1. steps \in Seq(Steps(S))
    BY <1>1 DEF Managers
  <2>2. Steps(S) \subseteq Z /\ Steps(Y) \subseteq Z
    BY MoreChanges
  <2> HIDE DEF steps, Z
  <2> QED BY <2>1, <2>2, SeqMonotonic
<1> HIDE DEF Z
<1>3. /\ StatesBefore(PresentOf(d), more)
           = AtLimit(<<PresentOf(c)>> \o StatesBefore(PresentOf(c), steps))
      /\ AddedTo(steps, step, more)
  <2> HIDE DEF steps
  <2> QED BY <1>2, StepRecorded
<1>4. RecordedAs(c, d)
  BY <1>3 DEF RecordedAs, PastOf
<1> HIDE DEF more
<1>5. Len(more) <= UndoLimit /\ \A i \in 1..Len(more) : Undoable(more[i])
  BY <1>3 DEF Rests, AddedTo
<1> QED BY <1>4, <1>5 DEF more

\* An operation of a person's is an edit.
LEMMA EditCloses ==
  ASSUME NEW c, FitCollection(c), AtRest(c), NEW op \in Ops \ {"skip", "custom"}, NEW quick,
         NEW e, FitCollection(e),
         \/ e.failed
         \/ \E X, new : /\ AllFit(X) /\ new \in Seq(X) /\ Records(Begun(c, op), e, new)
                        /\ op = "note" => new # <<>> /\ new[1].kind = "note"
  PROVE  LET d == Closed(c, e, op, quick) IN AtRest(d) /\ (Edited(c, d) \/ Forgotten(c, d))
<1> DEFINE d == Closed(c, e, op, quick)
<1>1. CASE e.failed
  <2>1. PresentOf(d) = PresentOf(c) /\ Dropped(d.undo) /\ ~d.failed /\ d.undo.mode = "normal"
    BY <1>1, NotClosed DEF AtRest
  <2> HIDE DEF d
  <2>2. Len(<<>>) = 0 /\ 1..0 = {} /\ 0 <= UndoLimit
    BY UndoAssumption
  <2>3. AtRest(d)
    BY <2>1, <2>2 DEF AtRest, Rests, Dropped
  <2> QED BY <2>1, <2>3 DEF Forgotten, d
<1>2. ASSUME NEW X, NEW new, AllFit(X), new \in Seq(X), Records(Begun(c, op), e, new),
             op = "note" => new # <<>> /\ new[1].kind = "note"
      PROVE  AtRest(d) /\ Edited(c, d)
  <2>1. PICK Y, all : /\ AllFit(Y) /\ all \in Seq(Y) /\ Dated(c.undo.mode, new, all)
                      /\ PresentOf(c) = Back(PresentOf(d), all) /\ Closes(c, d, op, all)
    BY <1>2, ClosedIs DEF AtRest
  <2> HIDE DEF d
  <2> DEFINE step == StepOf(op, all)
  <2>2. RedoLeft(c.undo) = <<>> /\ c.undo.mode = "normal" /\ Rests(c.undo)
    BY DEF AtRest, RedoLeft
  <2>3. d.undo.redo = <<>> /\ ~d.failed /\ d.undo.mode = "normal" /\ d.undo.current = NoStep
    BY <2>1, <2>2 DEF Closes
  <2>4. op = "note" => all[1].kind = "note"
    <3>1. op = "note" => 1 \in 1..Len(new)
      BY <1>2, EmptySeq, LenProperties
    <3> QED BY <1>2, <2>1, <3>1 DEF Dated
  <2>5. Len(<<>>) = 0 /\ 1..0 = {}
    OBVIOUS
  <2>6. CASE (~Lasting(step) \/ Joins(c.undo.undo, op, all)) /\ d.undo.undo = c.undo.undo
    <3>1. AtRest(d)
      BY <2>2, <2>3, <2>5, <2>6 DEF AtRest, Rests
    <3>2. CASE ~Lasting(step)
      <4>1. all = <<>>
        BY <3>2 DEF Lasting, StepOf
      <4>2. PresentOf(d) = PresentOf(c)
        BY <2>1, <4>1, PresentIs, BackNone
      <4> QED BY <2>3, <2>6, <3>1, <4>2 DEF Edited, PastOf
    <3>3. CASE Joins(c.undo.undo, op, all)
      <4>1. PICK S : c.undo \in Managers(S)
        BY DEF FitCollection, FitManager
      <4>2. c.undo.undo \in Seq(Steps(S))
        BY <4>1 DEF Managers
      <4>3. /\ StatesBefore(PresentOf(d), c.undo.undo) = StatesBefore(PresentOf(c), c.undo.undo)
            /\ Rewrites(PresentOf(c), StatesBefore(PresentOf(c), c.undo.undo), PresentOf(d))
        BY <2>1, <3>3, <4>2, PresentIs, JoinedStates
      <4> QED BY <2>3, <2>6, <3>1, <4>3 DEF Edited, RecordedAs, PastOf
    <3> QED BY <2>6, <3>2, <3>3
  <2>7. CASE Lasting(step) /\ d.undo.undo = <<step>> \o Kept(c.undo.undo)
    <3>1. step.changes = all /\ Undoable(step) /\ step \in Steps(Y)
      BY <2>1, <2>4, <2>7 DEF StepOf, Undoable, Steps
    <3> HIDE DEF step
    <3>2. /\ RecordedAs(c, d) /\ Len(d.undo.undo) <= UndoLimit
          /\ \A i \in 1..Len(d.undo.undo) : Undoable(d.undo.undo[i])
      BY <2>1, <2>2, <2>7, <3>1, StepAdded
    <3>3. AtRest(d)
      BY <2>3, <2>5, <3>2 DEF AtRest, Rests
    <3> QED BY <2>3, <3>2, <3>3 DEF Edited
  <2> QED BY <2>1, <2>2, <2>6, <2>7 DEF Closes
<1> QED BY <1>1, <1>2

-----------------------------------------------------------------------------
(* Undo and redo.                                                            *)

\* The state before comes back, and the present is kept for the redo.
Undone(c, d) ==
  /\ PastOf(c) # <<>> /\ PresentOf(d) = PastOf(c)[1] /\ PastOf(d) = Tail(PastOf(c))
  /\ FutureOf(d) = <<PresentOf(c)>> \o FutureOf(c)

\* The state that was undone comes back, and the present is kept for the undo.
Redone(c, d) ==
  /\ FutureOf(c) # <<>> /\ PresentOf(d) = FutureOf(c)[1] /\ FutureOf(d) = Tail(FutureOf(c))
  /\ RecordedAs(c, d)

\* The mode of the manager says nothing of the collection.
LEMMA InModeIs ==
  ASSUME NEW c, FitCollection(c), NEW mode \in {"normal", "undoing", "redoing"}
  PROVE  LET d == InMode(c, mode)
         IN /\ PresentOf(d) = PresentOf(c) /\ d.failed = c.failed
            /\ d.undo.undo = c.undo.undo /\ d.undo.redo = c.undo.redo
            /\ d.undo.current = c.undo.current /\ d.undo.mode = mode
<1> DEFINE d == InMode(c, mode)
           u == [c.undo EXCEPT !.mode = mode]
<1>1. PICK S : AllFit(S) /\ c.undo \in Managers(S)
  BY DEF FitCollection, FitManager
<1>2. u.undo = c.undo.undo /\ u.redo = c.undo.redo /\ u.current = c.undo.current /\ u.mode = mode
  BY <1>1 DEF Managers
<1> HIDE DEF u
<1>3. d = [c EXCEPT !.undo = u]
  BY DEF InMode, FitCollection, Fields, u
<1> HIDE DEF d
<1>4. d.cards = c.cards /\ d.notes = c.notes /\ d.failed = c.failed /\ d.undo = u
  BY <1>3 DEF FitCollection, Fields
<1>5. PresentOf(d) = PresentOf(c)
  BY <1>4, PresentSame
<1> QED BY <1>2, <1>4, <1>5 DEF d

\* Taking the changes `old' back has recorded `new', the last of them first.
Mirrors(new, old) ==
  /\ Len(new) = Len(old)
  /\ \A k \in 1..Len(old) : new[k].kind = "note" <=> old[Len(old) + 1 - k].kind = "note"

\* The steps of the manager when a step has been taken back or done again.
Reclosed(u, v, mode, step) ==
  /\ v.mode = "normal" /\ v.current = NoStep
  /\ \/ /\ ~Lasting(step) \/ Joins(u.undo, step.op, step.changes)
        /\ v.undo = u.undo /\ v.redo = u.redo
     \/ Lasting(step) /\ mode = "undoing" /\ v.undo = u.undo /\ v.redo = Append(u.redo, step)
     \/ Lasting(step) /\ mode = "redoing" /\ v.undo = <<step>> \o Kept(u.undo) /\ v.redo = u.redo

\* A step taken back, in either direction: the state it led from comes back and its
\* opposite is recorded, or a new day, a failure or stale queues end the history.
LEMMA UndoInnerIs ==
  ASSUME NEW c, FitCollection(c), ~c.failed, NEW S, AllFit(S), NEW step \in Steps(S),
         NEW mode \in {"undoing", "redoing"}, NEW quick
  PROVE  LET d == UndoInner(c, step, mode, quick)
         IN /\ ~d.failed /\ d.undo.mode = "normal"
            /\ \/ /\ Dropped(d.undo)
                  /\ \/ PresentOf(d) = PresentOf(c)
                     \/ PresentOf(d) = Back(PresentOf(c), step.changes)
               \/ \E X, new :
                    /\ AllFit(X) /\ new \in Seq(X) /\ Mirrors(new, step.changes)
                    /\ PresentOf(d) = Back(PresentOf(c), step.changes)
                    /\ PresentOf(c) = Back(PresentOf(d), new)
                    /\ Reclosed(c.undo, d.undo, mode, StepOf(step.op, new))
<1> DEFINE m == InMode(c, mode)
           op == step.op
           b == Begun(m, op)
           e == UndoChanges(b, step.changes)
           w == Closed(m, e, op, quick)
           d == UndoInner(c, step, mode, quick)
<1>1. op \in Ops /\ step.changes \in Seq(S)
  BY DEF Steps
<1>2. /\ FitCollection(m) /\ ~m.failed /\ PresentOf(m) = PresentOf(c)
      /\ m.undo.undo = c.undo.undo /\ m.undo.redo = c.undo.redo /\ m.undo.mode = mode
  BY InModeFits, InModeIs, SMTT(30)
<1>3. d = InMode(w, "normal")
  BY DEF UndoInner, Transact
<1> HIDE DEF m, d
<1>4. /\ FitCollection(b) /\ ~b.failed /\ PresentOf(b) = PresentOf(c)
  BY <1>1, <1>2, BegunIs
<1> HIDE DEF b
<1>5. FitCollection(e)
  BY <1>1, <1>4, UndoChangesFits
<1>6. \/ e.failed
      \/ /\ ~e.failed /\ PresentOf(e) = Back(PresentOf(c), step.changes)
         /\ \/ Dropped(e.undo)
            \/ \E X, new : AllFit(X) /\ new \in Seq(X) /\ Records(b, e, new)
                           /\ Mirrors(new, step.changes)
  BY <1>1, <1>4, UndoChangesRecords DEF Mirrors
<1> HIDE DEF e
<1>7. FitCollection(w)
  BY <1>2, <1>5, ClosedFits
<1> HIDE DEF w
<1>8. /\ PresentOf(d) = PresentOf(w) /\ d.failed = w.failed /\ d.undo.undo = w.undo.undo
      /\ d.undo.redo = w.undo.redo /\ d.undo.current = w.undo.current /\ d.undo.mode = "normal"
  BY <1>3, <1>7, InModeIs
<1> HIDE DEF op
<1>9. CASE e.failed
  <2>1. PresentOf(w) = PresentOf(m) /\ Dropped(w.undo) /\ w.failed = m.failed
    BY <1>1, <1>2, <1>5, <1>9, NotClosed DEF w
  <2> QED BY <1>2, <1>8, <2>1 DEF Dropped, d
<1>10. CASE ~e.failed /\ PresentOf(e) = Back(PresentOf(c), step.changes) /\ Dropped(e.undo)
  <2>1. PresentOf(w) = PresentOf(e) /\ Dropped(w.undo) /\ ~w.failed
    BY <1>1, <1>2, <1>5, <1>10, NotClosed DEF w
  <2> QED BY <1>8, <1>10, <2>1 DEF Dropped, d
<1>11. ASSUME PresentOf(e) = Back(PresentOf(c), step.changes),
              NEW X, NEW new, AllFit(X), new \in Seq(X), Records(b, e, new),
              Mirrors(new, step.changes)
       PROVE  /\ ~d.failed
              /\ PresentOf(d) = Back(PresentOf(c), step.changes)
              /\ PresentOf(c) = Back(PresentOf(d), new)
              /\ Reclosed(c.undo, d.undo, mode, StepOf(op, new))
  <2>1. /\ PresentOf(w) = PresentOf(e)
        /\ \E Y, all : /\ AllFit(Y) /\ all \in Seq(Y) /\ Dated(m.undo.mode, new, all)
                       /\ PresentOf(m) = Back(PresentOf(w), all) /\ Closes(m, w, op, all)
    BY <1>1, <1>2, <1>5, <1>11, ClosedIs DEF w, b
  <2>2. PICK all : /\ Dated(mode, new, all)
                   /\ PresentOf(c) = Back(PresentOf(w), all) /\ Closes(m, w, op, all)
    BY <1>2, <2>1
  <2>3. all = new
    BY <2>2 DEF Dated
  <2>4. RedoLeft(m.undo) = c.undo.redo
    BY <1>2 DEF RedoLeft
  <2> DEFINE made == StepOf(op, new)
  <2>5. made.op = op /\ made.changes = new
    BY DEF StepOf
  <2>6. /\ ~w.failed /\ w.undo.current = NoStep
        /\ \/ /\ ~Lasting(made) \/ Joins(c.undo.undo, op, new)
              /\ w.undo.undo = c.undo.undo /\ w.undo.redo = c.undo.redo
           \/ /\ Lasting(made) /\ mode = "undoing"
              /\ w.undo.undo = c.undo.undo /\ w.undo.redo = Append(c.undo.redo, made)
           \/ /\ Lasting(made) /\ mode # "undoing"
              /\ w.undo.undo = <<made>> \o Kept(c.undo.undo) /\ w.undo.redo = c.undo.redo
    BY <1>2, <2>2, <2>3, <2>4, Zenon DEF Closes
  <2> HIDE DEF made
  <2>7. Reclosed(c.undo, d.undo, mode, made)
    BY <1>8, <2>5, <2>6 DEF Reclosed
  <2> QED BY <1>8, <1>11, <2>1, <2>2, <2>3, <2>6, <2>7 DEF made
<1> QED BY <1>6, <1>8, <1>9, <1>10, <1>11 DEF d, op

\* A sequence with one more in front.
LEMMA FirstThenRest ==
  ASSUME NEW V, NEW s \in Seq(V), NEW x \in V
  PROVE  /\ <<x>> \o s # <<>> /\ (<<x>> \o s)[1] = x /\ Tail(<<x>> \o s) = s
         /\ <<x>> \o s \in Seq(V) /\ Len(<<x>> \o s) = Len(s) + 1
<1> DEFINE all == <<x>> \o s
<1>1. /\ all \in Seq(V) /\ Len(all) = Len(s) + 1 /\ all[1] = x /\ Len(s) \in Nat
      /\ \A i \in 1..Len(s) : all[i + 1] = s[i]
  <2>1. <<x>> \in Seq(V) /\ Len(<<x>>) = 1 /\ <<x>>[1] = x
    OBVIOUS
  <2> QED BY <2>1, ConcatProperties, LenProperties
<1> HIDE DEF all
<1>2. all # <<>>
  BY <1>1
<1>3. Tail(all) \in Seq(V) /\ Len(Tail(all)) = Len(s) /\ \A i \in 1..Len(s) : Tail(all)[i] = s[i]
  <2>1. /\ Tail(all) \in Seq(V) /\ Len(Tail(all)) = Len(all) - 1
        /\ \A i \in 1..Len(Tail(all)) : Tail(all)[i] = all[i + 1]
    BY <1>1, <1>2, HeadTailProperties
  <2> QED BY <1>1, <2>1
<1>4. Tail(all) = s
  BY <1>3, SeqEqual
<1> QED BY <1>1, <1>2, <1>4 DEF all

\* A sequence taken apart at its head.
LEMMA HeadThenTail ==
  ASSUME NEW V, NEW s \in Seq(V), s # <<>>
  PROVE  /\ s = <<Head(s)>> \o Tail(s) /\ Head(s) = s[1] /\ Head(s) \in V /\ Tail(s) \in Seq(V)
         /\ Len(s) \in Nat \ {0} /\ Len(Tail(s)) = Len(s) - 1
         /\ \A i \in 1..Len(Tail(s)) : Tail(s)[i] = s[i + 1] /\ i + 1 \in 1..Len(s)
<1> DEFINE x == Head(s)
           rest == Tail(s)
           all == <<x>> \o rest
<1>1. /\ x \in V /\ rest \in Seq(V) /\ Len(s) \in Nat \ {0} /\ Len(rest) = Len(s) - 1
      /\ \A i \in 1..Len(rest) : rest[i] = s[i + 1]
  <2>1. Len(s) \in Nat \ {0}
    BY EmptySeq, LenProperties
  <2> QED BY <2>1, HeadTailProperties
<1>2. x = s[1]
  BY <1>1
<1> HIDE DEF x, rest
<1>3. /\ all \in Seq(V) /\ Len(all) = Len(s) /\ all[1] = x
      /\ \A i \in 1..Len(rest) : all[i + 1] = rest[i]
  <2>1. <<x>> \in Seq(V) /\ Len(<<x>>) = 1 /\ <<x>>[1] = x
    BY <1>1
  <2> QED BY <1>1, <2>1, ConcatProperties, LenProperties
<1> HIDE DEF all
<1>4. ASSUME NEW i \in 1..Len(s) PROVE all[i] = s[i]
  <2>1. CASE i = 1
    BY <1>2, <1>3, <2>1
  <2>2. CASE i # 1
    <3>1. i - 1 \in 1..Len(rest) /\ (i - 1) + 1 = i
      BY <1>1, <2>2
    <3> QED BY <1>1, <1>3, <3>1
  <2> QED BY <2>1, <2>2
<1>5. all = s
  BY <1>3, <1>4, SeqEqual
<1>6. \A i \in 1..Len(rest) : i + 1 \in 1..Len(s)
  BY <1>1
<1> QED BY <1>1, <1>2, <1>5, <1>6 DEF all, x, rest

\* The step that is taken back or done again is the first of the states there are.
LEMMA StatesFirst ==
  ASSUME NEW T, NEW x \in T, NEW steps \in Seq(T), NEW s
  PROVE  LET states == StatesBefore(s, <<x>> \o steps)
         IN /\ states # <<>> /\ states[1] = Back(s, x.changes)
            /\ Tail(states) = StatesBefore(Back(s, x.changes), steps)
<1> DEFINE first == Back(s, x.changes)
           rest == StatesBefore(first, steps)
           states == StatesBefore(s, <<x>> \o steps)
<1>1. states = <<first>> \o rest
  BY StatesCons
<1>2. PICK V : rest \in Seq(V)
  BY StatesSeq
<1>3. rest \in Seq(V \union {first})
  BY <1>2, SeqMonotonic
<1> HIDE DEF first, rest, states
<1>4. states # <<>> /\ states[1] = first /\ Tail(states) = rest
  <2>1. first \in V \union {first}
    OBVIOUS
  <2> QED BY <1>1, <1>3, <2>1, FirstThenRest, Zenon
<1> QED BY <1>4 DEF first, rest, states

\* An undo brings back what was there before the edit, or the history is given up.
LEMMA UndoIs ==
  ASSUME NEW c, FitCollection(c), AtRest(c), c.undo.undo # <<>>, NEW quick
  PROVE  LET d == UndoStep(c, quick) IN AtRest(d) /\ (Undone(c, d) \/ Forgotten(c, d))
<1> DEFINE steps == c.undo.undo
           rest == Tail(steps)
           x == Head(steps)
           u == [c.undo EXCEPT !.undo = rest]
           left == [c EXCEPT !.undo = u]
           d == UndoStep(c, quick)
           s == PresentOf(c)
<1>1. PICK S : AllFit(S) /\ c.undo \in Managers(S)
  BY DEF FitCollection, FitManager
<1>2. steps \in Seq(Steps(S)) /\ c.undo.redo \in Seq(Steps(S))
  BY <1>1 DEF Managers
<1>3. /\ steps = <<x>> \o rest /\ x = steps[1] /\ x \in Steps(S) /\ rest \in Seq(Steps(S))
      /\ Len(steps) \in Nat \ {0} /\ Len(rest) = Len(steps) - 1
      /\ \A i \in 1..Len(rest) : rest[i] = steps[i + 1] /\ i + 1 \in 1..Len(steps)
  <2> HIDE DEF steps
  <2> QED BY <1>2, HeadThenTail DEF steps
<1>4. /\ Undoable(x) /\ \A i \in 1..Len(rest) : Undoable(rest[i])
      /\ Len(rest) <= UndoLimit /\ \A i \in 1..Len(c.undo.redo) : Redoable(c.undo.redo[i])
  <2>1. 1 \in 1..Len(steps) /\ Len(steps) <= UndoLimit
    BY <1>3 DEF AtRest, Rests
  <2>2. \A i \in 1..Len(steps) : Undoable(steps[i])
    BY DEF AtRest, Rests
  <2> HIDE DEF steps, rest, x
  <2> QED BY <1>3, <2>1, <2>2, UndoAssumption DEF AtRest, Rests
<1>5. PastOf(c) # <<>> /\ PastOf(c)[1] = Back(s, x.changes)
      /\ Tail(PastOf(c)) = StatesBefore(Back(s, x.changes), rest)
  <2> HIDE DEF x, rest, s
  <2>1. PastOf(c) = StatesBefore(s, <<x>> \o rest)
    BY <1>3 DEF PastOf, s
  <2> QED BY <1>3, <2>1, StatesFirst
<1>6. /\ left.undo.undo = rest /\ left.undo.redo = c.undo.redo /\ PresentOf(left) = s
      /\ FitCollection(left) /\ ~left.failed
  <2>1. u.undo = rest /\ u.redo = c.undo.redo /\ u \in Managers(S)
    <3> HIDE DEF rest
    <3> QED BY <1>1, <1>3 DEF Managers
  <2> HIDE DEF u
  <2>2. FitCollection(left)
    BY <1>1, <2>1, ManagerFits DEF FitManager
  <2>3. left.undo = u /\ left.cards = c.cards /\ left.notes = c.notes /\ left.failed = c.failed
    BY DEF FitCollection, Fields
  <2> HIDE DEF left
  <2>4. PresentOf(left) = PresentOf(c)
    BY <2>3, PresentSame
  <2> QED BY <2>1, <2>2, <2>3, <2>4 DEF AtRest
<1>7. d = UndoInner(left, x, "undoing", quick)
  <2>1. [c EXCEPT !.undo.undo = Tail(@)] = left
    BY DEF FitCollection, Fields
  <2> HIDE DEF left
  <2> QED BY <2>1 DEF UndoStep
<1> HIDE DEF left, u, d, x, rest, steps, s
<1>8. /\ ~d.failed /\ d.undo.mode = "normal"
      /\ \/ Dropped(d.undo) /\ (PresentOf(d) = s \/ PresentOf(d) = Back(s, x.changes))
         \/ \E X, new : /\ AllFit(X) /\ new \in Seq(X) /\ Mirrors(new, x.changes)
                        /\ PresentOf(d) = Back(s, x.changes)
                        /\ s = Back(PresentOf(d), new)
                        /\ Reclosed(left.undo, d.undo, "undoing", StepOf(x.op, new))
  BY <1>1, <1>3, <1>6, <1>7, UndoInnerIs
<1>9. CASE Dropped(d.undo) /\ (PresentOf(d) = s \/ PresentOf(d) = Back(s, x.changes))
  <2>1. Len(<<>>) = 0 /\ 1..0 = {} /\ 0 <= UndoLimit
    BY UndoAssumption
  <2>2. AtRest(d)
    BY <1>8, <1>9, <2>1 DEF AtRest, Rests, Dropped
  <2> QED BY <1>5, <1>9, <2>2 DEF Forgotten, d, s
<1>10. ASSUME NEW X, NEW new, AllFit(X), new \in Seq(X), Mirrors(new, x.changes),
              PresentOf(d) = Back(s, x.changes), s = Back(PresentOf(d), new),
              Reclosed(left.undo, d.undo, "undoing", StepOf(x.op, new))
       PROVE  AtRest(d) /\ Undone(c, d)
  <2> DEFINE made == StepOf(x.op, new)
             n == Len(x.changes)
  <2>1. x.op \in Ops /\ x.changes \in Seq(S) /\ n \in Nat
    BY <1>3, LenProperties DEF Steps
  <2>2. made.op = x.op /\ made.changes = new /\ made \in Steps(X)
    BY <1>10, <2>1 DEF StepOf, Steps
  <2>3. Lasting(made)
    <3>1. x.op # "custom" => new # <<>>
      <4>1. x.op # "custom" => Len(new) # 0
        BY <1>4, <1>10, <2>1, EmptySeq DEF Undoable, Lasting, Mirrors
      <4> QED BY <4>1
    <3> QED BY <1>4, <2>2, <3>1 DEF Undoable, Lasting
  <2>4. x.op = "note" => n \in 1..n /\ new[n].kind = "note"
    <3>1. x.op = "note" => n # 0 /\ x.changes[1].kind = "note"
      BY <1>4, <2>1, EmptySeq DEF Undoable, Lasting
    <3>2. \A k \in 1..n : new[k].kind = "note" <=> x.changes[n + 1 - k].kind = "note"
      BY <1>10 DEF Mirrors
    <3>3. n + 1 - n = 1 /\ (n # 0 => n \in 1..n)
      BY <2>1
    <3> HIDE DEF n
    <3> QED BY <3>1, <3>2, <3>3
  <2>5. Redoable(made)
    BY <1>10, <2>2, <2>3, <2>4 DEF Redoable, Mirrors
  <2>6. ~Joins(left.undo.undo, made.op, made.changes)
    <3> SUFFICES ASSUME Joins(left.undo.undo, made.op, made.changes) PROVE FALSE
      OBVIOUS
    <3>1. made.op = "note" /\ Len(new) = 2 /\ new[2].kind = "mod"
      BY <2>2 DEF Joins
    <3>2. n = 2
      BY <1>10, <3>1 DEF Mirrors
    <3> QED BY <2>2, <2>4, <3>1, <3>2
  <2> HIDE DEF made, n
  <2>7. /\ d.undo.mode = "normal" /\ d.undo.current = NoStep
        /\ d.undo.undo = rest /\ d.undo.redo = Append(c.undo.redo, made)
    BY <1>6, <1>10, <2>3, <2>6 DEF Reclosed, made
  <2>8. PastOf(d) = Tail(PastOf(c))
    BY <1>5, <1>10, <2>7 DEF PastOf
  <2>9. FutureOf(d) = <<s>> \o FutureOf(c)
    <3> DEFINE T == Steps(S \union X)
               redo == c.undo.redo
    <3>1. redo \in Seq(T) /\ made \in T
      <4>1. Steps(S) \subseteq T /\ Steps(X) \subseteq T
        BY MoreChanges
      <4> HIDE DEF T
      <4> QED BY <1>2, <2>2, <4>1, SeqMonotonic
    <3> HIDE DEF T
    <3>2. Reverse(d.undo.redo) = <<made>> \o Reverse(redo) /\ Reverse(redo) \in Seq(T)
      BY <2>7, <3>1, RedoOrder
    <3> HIDE DEF redo
    <3>3. StatesBefore(PresentOf(d), <<made>> \o Reverse(redo))
            = <<Back(PresentOf(d), made.changes)>> \o StatesBefore(Back(PresentOf(d), made.changes), Reverse(redo))
      BY <3>1, <3>2, StatesCons
    <3> QED BY <1>10, <2>2, <3>2, <3>3 DEF FutureOf, s, redo
  <2>10. AtRest(d)
    <3>1. /\ Len(d.undo.redo) = Len(c.undo.redo) + 1
          /\ \A i \in 1..Len(c.undo.redo) : d.undo.redo[i] = c.undo.redo[i]
          /\ d.undo.redo[Len(c.undo.redo) + 1] = made /\ Len(c.undo.redo) \in Nat
      <4> DEFINE T == Steps(S \union X)
                 redo == c.undo.redo
      <4>1. redo \in Seq(T) /\ made \in T
        <5>1. Steps(S) \subseteq T /\ Steps(X) \subseteq T
          BY MoreChanges
        <5> HIDE DEF T
        <5> QED BY <1>2, <2>2, <5>1, SeqMonotonic
      <4> HIDE DEF T, redo
      <4> QED BY <2>7, <4>1, AppendProperties, LenProperties DEF redo
    <3>2. \A i \in 1..Len(d.undo.redo) : Redoable(d.undo.redo[i])
      <4> TAKE i \in 1..Len(d.undo.redo)
      <4>1. i \in 1..Len(c.undo.redo) \/ i = Len(c.undo.redo) + 1
        BY <3>1
      <4> QED BY <1>4, <2>5, <3>1, <4>1
    <3> QED BY <1>4, <1>8, <2>7, <3>2 DEF AtRest, Rests
  <2> QED BY <1>5, <1>10, <2>8, <2>9, <2>10 DEF Undone, s
<1> QED BY <1>8, <1>9, <1>10 DEF d

\* A redo brings back what was there before the undo, or the history is given up.
LEMMA RedoIs ==
  ASSUME NEW c, FitCollection(c), AtRest(c), c.undo.redo # <<>>, NEW quick
  PROVE  LET d == RedoStep(c, quick) IN AtRest(d) /\ (Redone(c, d) \/ Forgotten(c, d))
<1> DEFINE redo == c.undo.redo
           rest == Front(redo)
           x == Last(redo)
           u == [c.undo EXCEPT !.redo = rest]
           left == [c EXCEPT !.undo = u]
           d == RedoStep(c, quick)
           s == PresentOf(c)
           n == Len(x.changes)
<1>1. PICK S : AllFit(S) /\ c.undo \in Managers(S)
  BY DEF FitCollection, FitManager
<1>2. redo \in Seq(Steps(S)) /\ c.undo.undo \in Seq(Steps(S))
  BY <1>1 DEF Managers
<1>3. /\ rest \in Seq(Steps(S)) /\ x \in Steps(S)
      /\ Reverse(redo) = <<x>> \o Reverse(rest) /\ x = redo[Len(redo)]
      /\ Len(redo) \in Nat \ {0} /\ Len(rest) = Len(redo) - 1
      /\ \A i \in 1..(Len(redo) - 1) : rest[i] = redo[i]
  <2> HIDE DEF redo
  <2> QED BY <1>2, RedoSplits DEF redo
<1>4. Redoable(x) /\ \A i \in 1..Len(rest) : Redoable(rest[i])
  <2>1. \A i \in 1..Len(redo) : Redoable(redo[i])
    BY DEF AtRest, Rests
  <2> HIDE DEF redo, rest, x
  <2>2. Len(redo) \in 1..Len(redo) /\ \A i \in 1..Len(rest) : i \in 1..Len(redo)
    BY <1>3
  <2> QED BY <1>3, <2>1, <2>2
<1>5. /\ FutureOf(c) # <<>> /\ FutureOf(c)[1] = Back(s, x.changes)
      /\ Tail(FutureOf(c)) = StatesBefore(Back(s, x.changes), Reverse(rest))
  <2>1. Reverse(rest) \in Seq(Steps(S))
    <3> HIDE DEF rest
    <3> QED BY <1>3, RedoOrder
  <2>2. FutureOf(c) = StatesBefore(s, <<x>> \o Reverse(rest))
    BY <1>3 DEF FutureOf
  <2> HIDE DEF x, rest, s
  <2> QED BY <1>3, <2>1, <2>2, StatesFirst
<1>6. /\ left.undo.redo = rest /\ left.undo.undo = c.undo.undo /\ PresentOf(left) = s
      /\ FitCollection(left) /\ ~left.failed
  <2>1. u.redo = rest /\ u.undo = c.undo.undo /\ u \in Managers(S)
    <3> HIDE DEF rest
    <3> QED BY <1>1, <1>3 DEF Managers
  <2> HIDE DEF u
  <2>2. FitCollection(left)
    BY <1>1, <2>1, ManagerFits DEF FitManager
  <2>3. left.undo = u /\ left.cards = c.cards /\ left.notes = c.notes /\ left.failed = c.failed
    BY DEF FitCollection, Fields
  <2> HIDE DEF left
  <2>4. PresentOf(left) = PresentOf(c)
    BY <2>3, PresentSame
  <2> QED BY <2>1, <2>2, <2>3, <2>4 DEF AtRest
<1>7. d = UndoInner(left, x, "redoing", quick)
  <2>1. [c EXCEPT !.undo.redo = Front(@)] = left
    BY DEF FitCollection, Fields
  <2> HIDE DEF left
  <2> QED BY <2>1 DEF RedoStep
<1> HIDE DEF left, u, d, x, rest, redo, s
<1>8. /\ ~d.failed /\ d.undo.mode = "normal"
      /\ \/ Dropped(d.undo) /\ (PresentOf(d) = s \/ PresentOf(d) = Back(s, x.changes))
         \/ \E X, new : /\ AllFit(X) /\ new \in Seq(X) /\ Mirrors(new, x.changes)
                        /\ PresentOf(d) = Back(s, x.changes)
                        /\ s = Back(PresentOf(d), new)
                        /\ Reclosed(left.undo, d.undo, "redoing", StepOf(x.op, new))
  BY <1>1, <1>3, <1>6, <1>7, UndoInnerIs
<1>9. CASE Dropped(d.undo) /\ (PresentOf(d) = s \/ PresentOf(d) = Back(s, x.changes))
  <2>1. Len(<<>>) = 0 /\ 1..0 = {} /\ 0 <= UndoLimit
    BY UndoAssumption
  <2>2. AtRest(d)
    BY <1>8, <1>9, <2>1 DEF AtRest, Rests, Dropped
  <2> QED BY <1>5, <1>9, <2>2 DEF Forgotten, d, s
<1>10. ASSUME NEW X, NEW new, AllFit(X), new \in Seq(X), Mirrors(new, x.changes),
              PresentOf(d) = Back(s, x.changes), s = Back(PresentOf(d), new),
              Reclosed(left.undo, d.undo, "redoing", StepOf(x.op, new))
       PROVE  AtRest(d) /\ Redone(c, d)
  <2> DEFINE made == StepOf(x.op, new)
  <2>1. x.op \in Ops /\ x.changes \in Seq(S) /\ n \in Nat
    BY <1>3, LenProperties DEF Steps
  <2>2. made.op = x.op /\ made.changes = new /\ made \in Steps(X)
    BY <1>10, <2>1 DEF StepOf, Steps
  <2>3. Lasting(made)
    <3>1. x.op # "custom" => new # <<>>
      <4>1. x.op # "custom" => Len(new) # 0
        BY <1>4, <1>10, <2>1, EmptySeq DEF Redoable, Lasting, Mirrors
      <4> QED BY <4>1
    <3> QED BY <1>4, <2>2, <3>1 DEF Redoable, Lasting
  <2>4. x.op = "note" => new[1].kind = "note"
    <3>1. x.op = "note" => n # 0 /\ x.changes[n].kind = "note"
      BY <1>4, <2>1, EmptySeq DEF Redoable, Lasting
    <3>2. \A k \in 1..n : new[k].kind = "note" <=> x.changes[n + 1 - k].kind = "note"
      BY <1>10 DEF Mirrors
    <3>3. n + 1 - 1 = n /\ (n # 0 => 1 \in 1..n)
      BY <2>1
    <3> HIDE DEF n
    <3> QED BY <3>1, <3>2, <3>3
  <2>5. Undoable(made)
    BY <2>2, <2>3, <2>4 DEF Undoable
  <2> HIDE DEF made, n
  <2>6. d.undo.mode = "normal" /\ d.undo.current = NoStep /\ d.undo.redo = rest
    BY <1>6, <1>10 DEF Reclosed
  <2>7. FutureOf(d) = Tail(FutureOf(c))
    BY <1>5, <1>10, <2>6 DEF FutureOf
  <2>8. /\ RecordedAs(c, d) /\ Len(d.undo.undo) <= UndoLimit
        /\ \A i \in 1..Len(d.undo.undo) : Undoable(d.undo.undo[i])
    <3>1. Rests(c.undo)
      BY DEF AtRest
    <3>2. CASE Joins(c.undo.undo, made.op, made.changes) /\ d.undo.undo = c.undo.undo
      <4>1. /\ StatesBefore(PresentOf(d), c.undo.undo) = StatesBefore(s, c.undo.undo)
            /\ Rewrites(s, StatesBefore(s, c.undo.undo), PresentOf(d))
        BY <1>2, <1>10, <2>2, <3>2, PresentIs, JoinedStates
      <4> QED BY <3>1, <3>2, <4>1 DEF RecordedAs, PastOf, s, Rests
    <3>3. CASE d.undo.undo = <<made>> \o Kept(c.undo.undo)
      <4>1. PresentOf(c) = Back(PresentOf(d), made.changes)
        BY <1>10, <2>2 DEF s
      <4> QED BY <2>2, <2>5, <3>1, <3>3, <4>1, StepAdded
    <3> QED BY <1>6, <1>10, <2>3, <3>2, <3>3 DEF Reclosed, made
  <2>9. AtRest(d)
    BY <1>4, <1>8, <2>6, <2>8 DEF AtRest, Rests
  <2> QED BY <1>5, <1>10, <2>7, <2>8, <2>9 DEF Redone, s
<1> QED BY <1>8, <1>9, <1>10 DEF d

-----------------------------------------------------------------------------
(* Operations that are no step.                                              *)

\* An operation that is no step changes nothing, and the steps to redo are gone.
LEMMA SkipIs ==
  ASSUME NEW c, FitCollection(c), AtRest(c), NEW x, FitChange(x), x.kind \notin {"card", "note"},
         NEW quick
  PROVE  LET d == Closed(c, SaveUndo(Begun(c, "skip"), x), "skip", quick)
         IN AtRest(d) /\ Edited(c, d)
<1> DEFINE b == Begun(c, "skip")
           e == SaveUndo(b, x)
           d == Closed(c, e, "skip", quick)
<1>1. "skip" \in Ops
  BY DEF Ops
<1>2. FitCollection(b) /\ PresentOf(b) = PresentOf(c)
  BY <1>1, BegunIs
<1>3. FitCollection(e) /\ PresentOf(e) = PresentOf(b) /\ Follows(b, e)
  <2> HIDE DEF b
  <2>1. /\ FitCollection(e) /\ PresentOf(e) = PresentOf(b) /\ e.undo = Save(b.undo, x)
        /\ e.failed = b.failed
    BY <1>2, SaveUndoFits, SaveUndoRecords
  <2> HIDE DEF e
  <2> QED BY <2>1, RecordsOther
<1>4. PICK X, new : AllFit(X) /\ new \in Seq(X) /\ Records(b, e, new)
  BY <1>3 DEF Follows
<1> HIDE DEF e
<1>5. PICK all : PresentOf(d) = PresentOf(e) /\ Closes(c, d, "skip", all)
  BY <1>1, <1>3, <1>4, ClosedIs DEF AtRest
<1> HIDE DEF d, b
<1>6. /\ d.undo.undo = c.undo.undo /\ d.undo.redo = <<>> /\ ~d.failed
      /\ d.undo.mode = "normal" /\ d.undo.current = NoStep
  <2>1. ~Lasting(StepOf("skip", all)) /\ ~Joins(c.undo.undo, "skip", all)
    BY DEF Lasting, StepOf, Joins
  <2>2. RedoLeft(c.undo) = <<>> /\ c.undo.mode = "normal"
    BY DEF RedoLeft, AtRest
  <2> QED BY <1>5, <2>1, <2>2 DEF Closes
<1>7. Len(<<>>) = 0 /\ 1..0 = {}
  OBVIOUS
<1>8. AtRest(d)
  BY <1>6, <1>7 DEF AtRest, Rests
<1>9. Edited(c, d)
  BY <1>2, <1>3, <1>5, <1>6 DEF Edited, PastOf
<1> QED BY <1>8, <1>9 DEF d, e, b

-----------------------------------------------------------------------------
(* Steps begun by the caller.                                                *)

\* A step of the caller is empty, and the marks of the others are forgotten.
LEMMA CustomStepIs ==
  ASSUME NEW u, FitManager(u), u.mode = "normal", Rests(u)
  PROVE  LET v == AddCustomStep(u)
         IN \E S, forgot, step :
              /\ u.undo \in Seq(Steps(S)) /\ forgot \in Seq(Steps(S)) /\ Len(forgot) = Len(u.undo)
              /\ \A i \in 1..Len(forgot) :
                   forgot[i].op = u.undo[i].op /\ forgot[i].changes = u.undo[i].changes
              /\ step \in Steps(S) /\ Undoable(step) /\ step.changes = <<>>
              /\ v.undo = <<step>> \o Kept(forgot) /\ v.redo = <<>>
              /\ v.mode = "normal" /\ v.current = NoStep
<1> DEFINE unmarked == [i \in DOMAIN u.undo |-> [u.undo[i] EXCEPT !.marked = FALSE]]
           forgot == [u EXCEPT !.undo = unmarked]
           begun  == BeginStep(forgot, "custom")
           marked == [begun EXCEPT !.current.marked = TRUE]
           step == [op |-> "custom", changes |-> <<>>, marked |-> TRUE]
<1>1. PICK S : AllFit(S) /\ u \in Managers(S)
  BY DEF FitManager
<1>2. /\ u.undo \in Seq(Steps(S)) /\ unmarked \in Seq(Steps(S)) /\ Len(unmarked) = Len(u.undo)
      /\ \A i \in 1..Len(unmarked) :
           unmarked[i].op = u.undo[i].op /\ unmarked[i].changes = u.undo[i].changes
  <2>1. u.undo \in Seq(Steps(S))
    BY <1>1 DEF Managers
  <2>2. Len(u.undo) \in Nat /\ DOMAIN u.undo = 1..Len(u.undo)
        /\ \A i \in DOMAIN u.undo : u.undo[i] \in Steps(S)
    BY <2>1, LenProperties
  <2>3. \A i \in DOMAIN u.undo :
          LET x == [u.undo[i] EXCEPT !.marked = FALSE]
          IN x \in Steps(S) /\ x.op = u.undo[i].op /\ x.changes = u.undo[i].changes
    BY <2>2 DEF Steps
  <2>4. unmarked \in Seq(Steps(S)) /\ Len(unmarked) = Len(u.undo)
    BY <2>2, <2>3
  <2> QED BY <2>1, <2>2, <2>3, <2>4
<1> HIDE DEF unmarked
<1>3. forgot \in Managers(S) /\ FitManager(forgot) /\ forgot.undo = unmarked /\ forgot.mode = "normal"
  BY <1>1, <1>2 DEF Managers, FitManager
<1> HIDE DEF forgot
<1>4. /\ begun \in Managers(S) /\ begun.undo = unmarked /\ begun.redo = <<>>
      /\ begun.mode = "normal" /\ begun.current = OpenStep("custom")
  <2>1. "custom" # None
    BY UndoAssumption DEF Ops
  <2> DEFINE fresh == OpenStep("custom")
             none == <<>>
  <2>2. begun = [forgot EXCEPT !.redo = none, !.current = fresh]
    BY <1>3, <2>1 DEF BeginStep
  <2>3. none \in Seq(Steps(S)) /\ fresh \in Steps(S)
    BY EmptySeq DEF Steps, Ops, OpenStep
  <2> HIDE DEF fresh, begun, none
  <2>4. /\ begun \in Managers(S) /\ begun.undo = forgot.undo /\ begun.redo = none
        /\ begun.mode = forgot.mode /\ begun.current = fresh
    BY <1>3, <2>2, <2>3 DEF Managers
  <2> QED BY <1>3, <2>4 DEF fresh, none
<1>5. step \in Steps(S) /\ Undoable(step) /\ Lasting(step)
  <2>1. <<>> \in Seq(S) /\ "custom" \in Ops
    BY EmptySeq DEF Ops
  <2> QED BY <2>1 DEF Steps, Undoable, Lasting
<1>6. /\ FitManager(marked) /\ marked.undo = unmarked /\ marked.redo = <<>>
      /\ marked.mode = "normal" /\ marked.current = step
  <2>1. [begun.current EXCEPT !.marked = TRUE] = step
    <3> DEFINE empty == <<>>
               fresh == [op |-> "custom", changes |-> empty, marked |-> FALSE]
               closed == [op |-> "custom", changes |-> empty, marked |-> TRUE]
    <3>1. begun.current = fresh /\ step = closed
      BY <1>4 DEF OpenStep
    <3> HIDE DEF empty, begun, step
    <3>2. [fresh EXCEPT !.marked = TRUE] = closed
      <4> DEFINE opened == [fresh EXCEPT !.marked = TRUE]
      <4>1. fresh \in [op : {"custom"}, changes : {empty}, marked : BOOLEAN]
        OBVIOUS
      <4> HIDE DEF fresh
      <4>2. opened \in [op : {"custom"}, changes : {empty}, marked : {TRUE}]
        BY <4>1
      <4> HIDE DEF opened
      <4>3. opened = closed
        BY <4>2
      <4> QED BY <4>3 DEF opened
    <3> QED BY <3>1, <3>2
  <2> HIDE DEF begun, step
  <2>2. marked = [begun EXCEPT !.current = [begun.current EXCEPT !.marked = TRUE]]
    BY <1>4 DEF Managers
  <2>3. marked = [begun EXCEPT !.current = step]
    BY <2>1, <2>2
  <2> HIDE DEF marked
  <2>4. /\ marked \in Managers(S) /\ marked.undo = begun.undo /\ marked.redo = begun.redo
        /\ marked.mode = begun.mode /\ marked.current = step
    BY <1>4, <1>5, <2>3 DEF Managers
  <2> QED BY <1>1, <1>4, <2>4 DEF FitManager
<1>7. AddCustomStep(u) = EndStep(marked)
  BY DEF AddCustomStep, unmarked, forgot
<1> HIDE DEF marked, begun
<1>8. Closing(marked, EndStep(marked), step)
  <2>1. "custom" \in Ops
    BY DEF Ops
  <2> QED BY <1>6, <2>1, EndStepIs
<1> HIDE DEF step
<1> DEFINE v == AddCustomStep(u)
<1>9. /\ v.undo = <<step>> \o Kept(unmarked) /\ v.redo = <<>>
      /\ v.mode = "normal" /\ v.current = NoStep
  BY <1>5, <1>6, <1>7, <1>8 DEF Closing
<1>10. step.changes = <<>>
  BY DEF step
<1> HIDE DEF v
<1> QED BY <1>2, <1>5, <1>9, <1>10 DEF v

\* A step of the caller's is an edit that changes nothing yet.
LEMMA CustomIs ==
  ASSUME NEW c, FitCollection(c), AtRest(c), NEW clock
  PROVE  LET d == [c EXCEPT !.undo = AddCustomStep(@), !.clock = clock]
         IN AtRest(d) /\ Edited(c, d)
<1> DEFINE u == c.undo
           v == AddCustomStep(u)
           d == [c EXCEPT !.undo = v, !.clock = clock]
           s == PresentOf(c)
<1>1. FitManager(u) /\ u.mode = "normal" /\ Rests(u)
  BY DEF FitCollection, AtRest
<1>2. PICK S, forgot, step :
        /\ u.undo \in Seq(Steps(S)) /\ forgot \in Seq(Steps(S)) /\ Len(forgot) = Len(u.undo)
        /\ \A i \in 1..Len(forgot) :
             forgot[i].op = u.undo[i].op /\ forgot[i].changes = u.undo[i].changes
        /\ step \in Steps(S) /\ Undoable(step) /\ step.changes = <<>>
        /\ v.undo = <<step>> \o Kept(forgot) /\ v.redo = <<>>
        /\ v.mode = "normal" /\ v.current = NoStep
  <2> HIDE DEF u
  <2> QED BY <1>1, CustomStepIs
<1>3. d.undo = v /\ d.failed = c.failed /\ PresentOf(d) = s
  <2> HIDE DEF v
  <2>1. d.undo = v /\ d.failed = c.failed /\ d.cards = c.cards /\ d.notes = c.notes
    BY DEF FitCollection, Fields
  <2> HIDE DEF d
  <2> QED BY <2>1, PresentSame
<1> HIDE DEF v, d
<1>4. s = Back(s, step.changes)
  BY <1>2, PresentIs, BackNone
<1>5. StatesBefore(s, forgot) = StatesBefore(s, u.undo)
  <2> HIDE DEF u, s
  <2> QED BY <1>2, StatesAlike
<1>6. /\ StatesBefore(s, v.undo) = AtLimit(<<s>> \o StatesBefore(s, u.undo))
      /\ AddedTo(forgot, step, v.undo)
  <2> HIDE DEF u, s
  <2> QED BY <1>2, <1>4, <1>5, StepRecorded
<1>7. \A i \in 1..Len(forgot) : Undoable(forgot[i])
  <2>1. ASSUME NEW i \in 1..Len(forgot) PROVE Undoable(forgot[i])
    <3>1. Undoable(u.undo[i])
      BY <1>1, <1>2 DEF Rests
    <3> QED BY <1>2, <3>1 DEF Undoable, Lasting
  <2> QED BY <2>1
<1>8. Len(v.undo) <= UndoLimit /\ \A i \in 1..Len(v.undo) : Undoable(v.undo[i])
  <2>1. Len(forgot) <= UndoLimit
    BY <1>1, <1>2 DEF Rests
  <2> QED BY <1>2, <1>6, <1>7, <2>1 DEF AddedTo
<1>9. Len(<<>>) = 0 /\ 1..0 = {}
  OBVIOUS
<1>10. AtRest(d)
  BY <1>2, <1>3, <1>8, <1>9 DEF AtRest, Rests
<1>11. Edited(c, d)
  BY <1>2, <1>3, <1>6 DEF Edited, RecordedAs, PastOf, s, u
<1> QED BY <1>10, <1>11 DEF d, v, u

-----------------------------------------------------------------------------
(* Steps merged.                                                             *)

\* Taking back what the steps newer than one hold leads to the state after that one.
LEMMA JoinedBack ==
  ASSUME NEW S, NEW steps \in Seq(Steps(S)), NEW s, IsState(s), NEW i \in 1..Len(steps)
  PROVE  LET joined == FlattenSeq([j \in 1..(i - 1) |-> steps[i - j].changes])
         IN /\ joined \in Seq(S)
            /\ Back(s, joined) = IF i = 1 THEN s ELSE StatesBefore(s, steps)[i - 1]
<1> DEFINE before == [j \in 1..(i - 1) |-> steps[i - j].changes]
           joined == FlattenSeq(before)
           states == StatesBefore(s, steps)
           X(k) == IF k = 0 THEN s ELSE states[k]
<1>1. /\ Len(steps) \in Nat /\ \A k \in 1..Len(steps) : steps[k].changes \in Seq(S)
      /\ \A k \in 1..Len(steps) : X(k) = Back(X(k - 1), steps[k].changes)
  <2>1. /\ Len(steps) \in Nat
        /\ \A k \in 1..Len(steps) :
             states[k] = Back(IF k = 1 THEN s ELSE states[k - 1], steps[k].changes)
    BY StatesStep
  <2> HIDE DEF states
  <2>2. ASSUME NEW k \in 1..Len(steps) PROVE X(k) = Back(X(k - 1), steps[k].changes)
    <3>1. k # 0 /\ (k - 1 = 0 <=> k = 1)
      BY <2>1
    <3> QED BY <2>1, <3>1
  <2>3. \A k \in 1..Len(steps) : steps[k].changes \in Seq(S)
    <3>1. \A k \in 1..Len(steps) : steps[k] \in Steps(S)
      BY ElementOfSeq
    <3> QED BY <3>1 DEF Steps
  <2> QED BY <2>1, <2>2, <2>3
<1> HIDE DEF states
<1>2. i \in Nat /\ i - 1 \in Nat /\ i - 1 \in 0..Len(steps)
  BY <1>1
<1>3. before \in Seq(Seq(S)) /\ Len(before) = i - 1
  <2>1. \A j \in 1..(i - 1) : before[j] \in Seq(S)
    <3> TAKE j \in 1..(i - 1)
    <3>1. i - j \in 1..Len(steps)
      BY <1>1
    <3>2. steps[i - j].changes \in Seq(S)
      BY <1>1, <3>1
    <3> QED BY <3>2
  <2>2. i - 1 \in Nat /\ DOMAIN before = 1..(i - 1) /\ before = [j \in 1..(i - 1) |-> before[j]]
    BY <1>2
  <2> HIDE DEF before
  <2> QED BY <2>1, <2>2
<1>4. joined \in Seq(S)
  <2> HIDE DEF before
  <2> QED BY <1>3, FlattenSeqType
<1>5. CASE i = 1
  <2>1. before = <<>>
    <3> HIDE DEF before
    <3> QED BY <1>3, <1>5, EmptySeq
  <2>2. joined = <<>>
    <3> HIDE DEF before
    <3>1. Len(before) = 0
      BY <1>3, <1>5
    <3> QED BY <2>1, <3>1 DEF FlattenSeq
  <2> HIDE DEF joined
  <2>3. Back(s, joined) = s
    BY <2>2, BackNone
  <2> QED BY <1>4, <1>5, <2>3 DEF joined
<1>6. CASE i # 1
  <2>1. Len(before) # 0 /\ i - 1 \in 1..(i - 1) /\ i - 1 # 0
    <3> HIDE DEF before
    <3> QED BY <1>2, <1>3, <1>6
  <2>2. PICK g : /\ joined = g[i - 1]
                 /\ \A k \in 1..(i - 1) :
                      /\ g[k] = IF k = 1 THEN before[1] ELSE g[k - 1] \o before[k]
                      /\ g[k] \in Seq(S)
    <3> HIDE DEF before
    <3>1. \E g : /\ FlattenSeq(before) = g[Len(before)]
                 /\ \A k \in 1..Len(before) :
                      /\ g[k] = IF k = 1 THEN before[1] ELSE g[k - 1] \o before[k]
                      /\ g[k] \in Seq(S)
      BY <1>3, <2>1, FlattenSteps
    <3> QED BY <1>3, <3>1
  <2> HIDE DEF joined
  <2> DEFINE Fine(k) == Back(X(i - 1 - k), g[k]) = X(i - 1)
             T == {k \in 1..(i - 1) : ~Fine(k)}
  <2>3. ASSUME T # {} PROVE FALSE
    <3>1. PICK k \in T : \A j \in T : k <= j
      <4>1. T \subseteq Nat
        <5> HIDE DEF Fine
        <5> QED BY <1>2
      <4> HIDE DEF T
      <4> QED BY <2>3, <4>1, LeastNumber
    <3>2. k \in 1..(i - 1) /\ ~Fine(k)
      <4> HIDE DEF Fine
      <4> QED BY <3>1
    <3>3. /\ k \in Nat /\ i - k \in 1..Len(steps) /\ i - k - 1 = i - 1 - k /\ i - 1 - (k - 1) = i - k
          /\ before[k] = steps[i - k].changes
      BY <1>1, <1>2, <3>2
    <3> HIDE DEF before
    <3>4. X(i - k) = Back(X(i - 1 - k), before[k]) /\ before[k] \in Seq(S)
      <4> HIDE DEF X
      <4> QED BY <1>1, <3>3
    <3>5. k # 1
      <4> SUFFICES ASSUME k = 1 PROVE FALSE
        OBVIOUS
      <4>1. g[k] = before[k] /\ i - k = i - 1
        BY <2>2, <3>2
      <4> HIDE DEF X
      <4> QED BY <3>2, <3>4, <4>1
    <3>6. k - 1 \in 1..(i - 1) /\ ~(k <= k - 1)
      BY <1>2, <3>2, <3>5
    <3>7. Fine(k - 1)
      <4> HIDE DEF Fine
      <4> QED BY <3>1, <3>6
    <3>8. Back(X(i - k), g[k - 1]) = X(i - 1)
      <4> HIDE DEF X
      <4> QED BY <3>3, <3>7
    <3>9. g[k] = g[k - 1] \o before[k] /\ g[k - 1] \in Seq(S)
      BY <2>2, <3>2, <3>5, <3>6
    <3> HIDE DEF X
    <3>10. Back(X(i - 1 - k), g[k - 1] \o before[k]) = Back(X(i - k), g[k - 1])
      BY <3>4, <3>9, BackConcat
    <3> QED BY <3>2, <3>8, <3>9, <3>10
  <2>4. Fine(i - 1)
    <3> HIDE DEF Fine
    <3> QED BY <2>1, <2>3
  <2>5. i - 1 - (i - 1) = 0
    BY <1>2
  <2>6. Back(s, joined) = states[i - 1]
    BY <2>1, <2>2, <2>4, <2>5
  <2> QED BY <1>4, <1>6, <2>6 DEF joined, states
<1> QED BY <1>5, <1>6

\* From the i-th on: the i-th and those after it.
LEMMA FromThere ==
  ASSUME NEW V, NEW s \in Seq(V), NEW i \in 1..Len(s)
  PROVE  <<s[i]>> \o SubSeq(s, i + 1, Len(s)) = SubSeq(s, i, Len(s))
<1> DEFINE n == Len(s)
           x == s[i]
           rest == SubSeq(s, i + 1, n)
           a == <<x>> \o rest
           b == SubSeq(s, i, n)
<1>1. n \in Nat /\ x \in V /\ i \in Nat
  <2>1. n \in Nat
    BY LenProperties
  <2> QED BY <2>1, ElementOfSeq
<1>2. \A k \in i..n : s[k] \in V
  <2>1. \A k \in i..n : k \in 1..Len(s)
    BY <1>1
  <2> QED BY <2>1, ElementOfSeq
<1>3. \A k \in (i + 1)..n : s[k] \in V
  BY <1>1, <1>2
<1>4. b \in Seq(V) /\ Len(b) = n - i + 1 /\ \A k \in 1..(n - i + 1) : b[k] = s[i + k - 1]
  <2>1. i <= n + 1 /\ i \in 1..(n + 1)
    BY <1>1
  <2> HIDE DEF n
  <2> QED BY <1>1, <1>2, <2>1, SubSeqProperties
<1>5. rest \in Seq(V) /\ Len(rest) = n - i /\ \A k \in 1..(n - i) : rest[k] = s[i + k]
  <2>1. i + 1 \in 1..(n + 1) /\ n - (i + 1) + 1 = n - i
    BY <1>1
  <2>2. \A k \in 1..(n - i) : (i + 1) + k - 1 = i + k
    BY <1>1
  <2> HIDE DEF n
  <2> QED BY <1>1, <1>3, <2>1, <2>2, SubSeqProperties
<1> HIDE DEF rest, x, b
<1>6. /\ a \in Seq(V) /\ Len(a) = n - i + 1 /\ a[1] = x
      /\ \A k \in 1..(n - i) : a[k + 1] = rest[k]
  <2>1. <<x>> \in Seq(V) /\ Len(<<x>>) = 1 /\ <<x>>[1] = x
    BY <1>1
  <2>2. n - i \in Nat
    BY <1>1
  <2> HIDE DEF n
  <2> QED BY <1>5, <2>1, <2>2, ConcatProperties
<1> HIDE DEF a
<1>7. ASSUME NEW k \in 1..(n - i + 1) PROVE a[k] = b[k]
  <2>1. CASE k = 1
    <3>1. b[k] = s[i] /\ a[k] = x
      BY <1>1, <1>4, <1>6, <2>1
    <3> QED BY <3>1 DEF x
  <2>2. CASE k # 1
    <3>1. k - 1 \in 1..(n - i) /\ (k - 1) + 1 = k /\ i + k - 1 = i + (k - 1)
      BY <1>1, <2>2
    <3> HIDE DEF n
    <3> QED BY <1>4, <1>5, <1>6, <3>1
  <2> QED BY <2>1, <2>2
<1> HIDE DEF n
<1>8. a = b
  BY <1>4, <1>6, <1>7, SeqEqual
<1> QED BY <1>8 DEF a, b, x, rest, n

\* Some of the states there were can no longer be gone back to.
Merged(c, d) ==
  /\ PresentOf(d) = PresentOf(c) /\ FutureOf(d) = FutureOf(c)
  /\ \E i \in 1..Len(PastOf(c)) : PastOf(d) = SubSeq(PastOf(c), i, Len(PastOf(c)))

\* The steps that join another are undone with it.
LEMMA MergeIs ==
  ASSUME NEW c, FitCollection(c), AtRest(c), NEW i \in MergeTargets(c.undo)
  PROVE  LET d == [c EXCEPT !.undo = MergeUndoableOps(@, i)] IN AtRest(d) /\ Merged(c, d)
<1> DEFINE steps == c.undo.undo
           joined == FlattenSeq([j \in 1..(i - 1) |-> steps[i - j].changes])
           first == steps[i].changes
           target == [steps[i] EXCEPT !.changes = @ \o joined]
           rest == SubSeq(steps, i + 1, Len(steps))
           more == <<target>> \o rest
           v == [c.undo EXCEPT !.undo = more]
           d == [c EXCEPT !.undo = v]
           s == PresentOf(c)
           states == StatesBefore(s, steps)
<1>1. PICK S : AllFit(S) /\ c.undo \in Managers(S)
  BY DEF FitCollection, FitManager
<1>2. /\ steps \in Seq(Steps(S)) /\ Len(steps) \in Nat /\ i \in 1..Len(steps) /\ i \in Nat
      /\ \A j \in 1..Len(steps) : steps[j] \in Steps(S)
  <2>1. steps \in Seq(Steps(S))
    BY <1>1 DEF Managers
  <2> QED BY <2>1, LenProperties DEF MergeTargets
<1>3. Rests(c.undo) /\ c.undo.mode = "normal" /\ ~c.failed /\ IsState(s)
  BY PresentIs DEF AtRest
<1>4. /\ joined \in Seq(S)
      /\ Back(s, joined) = IF i = 1 THEN s ELSE states[i - 1]
  <2> HIDE DEF steps, s
  <2> QED BY <1>2, <1>3, JoinedBack
<1> HIDE DEF joined
<1>5. /\ target \in Steps(S) /\ target.op = steps[i].op /\ target.changes = first \o joined
      /\ first \in Seq(S)
  <2>1. steps[i] \in Steps(S) /\ first \in Seq(S)
    BY <1>2 DEF Steps
  <2>2. first \o joined \in Seq(S)
    BY <1>4, <2>1, ConcatProperties
  <2> QED BY <2>1, <2>2 DEF Steps
<1>6. Undoable(target)
  <2>1. Undoable(steps[i])
    BY <1>2, <1>3 DEF Rests
  <2>2. first # <<>> => target.changes # <<>> /\ target.changes[1] = first[1]
    <3> HIDE DEF first, target
    <3>1. Len(first) \in Nat /\ Len(joined) \in Nat /\ (first # <<>> => Len(first) # 0)
      BY <1>4, <1>5, LenProperties, EmptySeq
    <3>2. /\ Len(first \o joined) = Len(first) + Len(joined)
          /\ Len(first) # 0 => (first \o joined)[1] = first[1]
      BY <1>4, <1>5, <3>1, ConcatProperties
    <3>3. Len(<<>>) = 0
      OBVIOUS
    <3> QED BY <1>5, <3>1, <3>2, <3>3
  <2>3. steps[i].op = "note" => first # <<>>
    BY <2>1 DEF Undoable, Lasting
  <2> HIDE DEF target
  <2> QED BY <1>5, <2>1, <2>2, <2>3 DEF Undoable, Lasting
<1> HIDE DEF target
<1>7. rest \in Seq(Steps(S)) /\ Len(rest) = Len(steps) - i
      /\ \A k \in 1..Len(rest) : rest[k] = steps[i + k] /\ i + k \in 1..Len(steps)
  <2>1. \A k \in (i + 1)..Len(steps) : steps[k] \in Steps(S)
    BY <1>2
  <2> HIDE DEF steps
  <2>2. /\ rest \in Seq(Steps(S))
        /\ Len(rest) = IF i + 1 <= Len(steps) THEN Len(steps) - (i + 1) + 1 ELSE 0
        /\ \A k \in 1..(Len(steps) - (i + 1) + 1) : rest[k] = steps[i + 1 + k - 1]
    BY <1>2, <2>1, SubSeqProperties
  <2> HIDE DEF rest
  <2> QED BY <1>2, <2>2
<1>8. /\ Len(more) = Len(rest) + 1 /\ more[1] = target
      /\ \A k \in 1..Len(rest) : more[k + 1] = rest[k]
      /\ more \in Seq(Steps(S)) /\ Len(rest) \in Nat
  <2>1. /\ <<target>> \in Seq(Steps(S)) /\ Len(<<target>>) = 1
        /\ <<target>>[1] = target
    BY <1>5
  <2> HIDE DEF rest
  <2> QED BY <1>7, <2>1, ConcatProperties, LenProperties
<1>9. Len(more) <= UndoLimit /\ \A k \in 1..Len(more) : Undoable(more[k])
  <2>1. Len(steps) <= UndoLimit /\ \A k \in 1..Len(steps) : Undoable(steps[k])
    BY <1>3 DEF Rests
  <2> HIDE DEF steps, more, rest
  <2>2. Len(more) <= UndoLimit
    BY <1>2, <1>7, <1>8, <2>1, UndoAssumption
  <2>3. ASSUME NEW k \in 1..Len(more) PROVE Undoable(more[k])
    <3>1. CASE k = 1
      BY <1>6, <1>8, <3>1
    <3>2. CASE k # 1
      <4>1. k - 1 \in 1..Len(rest) /\ (k - 1) + 1 = k
        BY <1>8, <3>2
      <4>2. more[k] = steps[i + (k - 1)] /\ i + (k - 1) \in 1..Len(steps)
        BY <1>7, <1>8, <4>1
      <4> QED BY <2>1, <4>2
    <3> QED BY <3>1, <3>2
  <2> QED BY <2>2, <2>3
<1>10. /\ states[i] = Back(s, target.changes) /\ Len(states) = Len(steps)
       /\ \E V : states \in Seq(V)
  <2>1. /\ Len(states) = Len(steps)
        /\ states[i] = Back(IF i = 1 THEN s ELSE states[i - 1], first)
    <3> HIDE DEF steps, s
    <3> QED BY <1>2, StatesStep
  <2>2. Back(s, first \o joined) = Back(Back(s, joined), first)
    BY <1>4, <1>5, BackConcat
  <2>3. \E V : states \in Seq(V)
    <3> HIDE DEF steps, s
    <3> QED BY <1>2, StatesSeq
  <2> QED BY <1>4, <1>5, <2>1, <2>2, <2>3
<1>11. StatesBefore(s, more) = SubSeq(states, i, Len(states))
  <2> HIDE DEF steps, s
  <2>1. StatesBefore(s, more) = <<states[i]>> \o StatesBefore(states[i], rest)
    <3> HIDE DEF rest, states
    <3>1. target \in Steps(S) /\ rest \in Seq(Steps(S))
      BY <1>5, <1>7
    <3>2. StatesBefore(s, <<target>> \o rest)
            = <<Back(s, target.changes)>> \o StatesBefore(Back(s, target.changes), rest)
      BY <3>1, StatesCons
    <3> QED BY <1>10, <3>2
  <2>2. StatesBefore(states[i], rest) = SubSeq(states, i + 1, Len(steps))
    BY <1>2, StatesSuffix
  <2> HIDE DEF states
  <2> QED BY <1>2, <1>10, <2>1, <2>2, FromThere
<1> HIDE DEF more
<1>12. MergeUndoableOps(c.undo, i) = v
  BY DEF MergeUndoableOps, joined, target, more
<1>13. /\ v.undo = more /\ v.redo = c.undo.redo /\ v.mode = "normal" /\ v.current = NoStep
  BY <1>1, <1>3 DEF Managers, Rests
<1> HIDE DEF v
<1>14. d.undo = v /\ d.failed = c.failed /\ PresentOf(d) = s
  <2>1. d.undo = v /\ d.failed = c.failed /\ d.cards = c.cards /\ d.notes = c.notes
    BY DEF FitCollection, Fields
  <2> HIDE DEF d
  <2> QED BY <2>1, PresentSame
<1>15. d = [c EXCEPT !.undo = MergeUndoableOps(@, i)]
  BY <1>12
<1> HIDE DEF d
<1>16. AtRest(d)
  BY <1>3, <1>9, <1>13, <1>14 DEF AtRest, Rests
<1>17. Merged(c, d)
  <2>1. PastOf(c) = states /\ PastOf(d) = StatesBefore(s, more) /\ FutureOf(d) = FutureOf(c)
    BY <1>13, <1>14 DEF PastOf, FutureOf
  <2>2. i \in 1..Len(states)
    BY <1>2, <1>10
  <2> HIDE DEF states, s, steps
  <2> QED BY <1>11, <1>14, <2>1, <2>2 DEF Merged, s
<1> QED BY <1>15, <1>16, <1>17

-----------------------------------------------------------------------------
(* Work beside the steps.                                                    *)

\* A state in which one part is another.
With(s, p, v) == [s EXCEPT ![p] = v]
Moved(states, p, v) == [i \in DOMAIN states |-> With(states[i], p, v)]

\* A part that no change is of is left alone, whatever it is.
LEMMA BackAside ==
  ASSUME NEW changes, NEW p \in Parts, Changing(changes, p) = {}, NEW s, IsState(s), NEW v
  PROVE  /\ Back(s, changes)[p] = s[p]
         /\ Back(With(s, p, v), changes) = With(Back(s, changes), p, v)
<1> DEFINE t == With(s, p, v)
           a == Back(t, changes)
           b == With(Back(s, changes), p, v)
<1>1. Back(s, changes)[p] = s[p]
  BY DEF Back
<1>2. DOMAIN s = Parts
  BY DEF IsState
<1>3. \A q \in Parts : t[q] = IF q = p THEN v ELSE s[q]
  BY <1>2 DEF With
<1> HIDE DEF t
<1>4. \A q \in Parts : a[q] = IF Changing(changes, q) = {} THEN t[q] ELSE Before(changes, q)
  BY DEF Back
<1>5. \A q \in Parts : Back(s, changes)[q] = IF Changing(changes, q) = {} THEN s[q] ELSE Before(changes, q)
  BY DEF Back
<1>6. IsState(a) /\ IsState(b)
  <2>1. IsState(a) /\ IsState(Back(s, changes))
    BY PresentIs
  <2> QED BY <2>1 DEF IsState, With
<1>7. \A q \in Parts : b[q] = IF q = p THEN v ELSE Back(s, changes)[q]
  <2>1. IsState(Back(s, changes))
    BY PresentIs
  <2> QED BY <2>1 DEF IsState, With
<1> HIDE DEF a, b
<1>8. \A q \in Parts : a[q] = b[q]
  BY <1>3, <1>4, <1>5, <1>7
<1>9. a = b
  BY <1>6, <1>8 DEF IsState
<1> QED BY <1>1, <1>9 DEF a, b, t

\* So it is with the states there were.
LEMMA StatesAside ==
  ASSUME NEW T, NEW steps \in Seq(T), NEW p \in Parts, NEW s, IsState(s), NEW v,
         \A i \in 1..Len(steps) : Changing(steps[i].changes, p) = {}
  PROVE  LET states == StatesBefore(s, steps)
         IN /\ \A i \in DOMAIN states : states[i][p] = s[p]
            /\ StatesBefore(With(s, p, v), steps) = Moved(states, p, v)
<1> DEFINE n == Len(steps)
           t == With(s, p, v)
           states == StatesBefore(s, steps)
           moved == StatesBefore(t, steps)
           g == [i \in 1..n |-> With(states[i], p, v)]
           Prior(i) == IF i = 1 THEN s ELSE states[i - 1]
<1>1. /\ n \in Nat /\ DOMAIN states = 1..n
      /\ \A i \in 1..n : states[i] = Back(Prior(i), steps[i].changes)
  <2> HIDE DEF t
  <2> QED BY StatesStep
<1>2. moved = [i \in 1..n |-> moved[i]]
  <2> HIDE DEF t
  <2> QED BY StatesStep
<1> HIDE DEF states, moved
<1>3. \A i \in 1..n : IsState(Prior(i)) /\ IsState(states[i])
  <2> TAKE i \in 1..n
  <2>1. IsState(states[i])
    <3> HIDE DEF Prior
    <3> QED BY <1>1, PresentIs
  <2>2. i # 1 => i - 1 \in 1..n
    BY <1>1
  <2>3. i # 1 => IsState(states[i - 1])
    <3> HIDE DEF Prior
    <3> QED BY <1>1, <2>2, PresentIs
  <2> QED BY <2>1, <2>3
<1>4. \A i \in 1..n : /\ states[i][p] = Prior(i)[p]
                      /\ Back(With(Prior(i), p, v), steps[i].changes) = With(states[i], p, v)
  <2> HIDE DEF Prior
  <2> TAKE i \in 1..n
  <2> DEFINE changes == steps[i].changes
             r == Prior(i)
  <2>1. Changing(changes, p) = {} /\ IsState(r) /\ states[i] = Back(r, changes)
    BY <1>1, <1>3
  <2> HIDE DEF changes, r
  <2>2. /\ Back(r, changes)[p] = r[p]
        /\ Back(With(r, p, v), changes) = With(Back(r, changes), p, v)
    BY <2>1, BackAside
  <2> QED BY <2>1, <2>2 DEF changes, r
<1>5. \A i \in 1..n : states[i][p] = s[p]
  <2> DEFINE Z == {k \in 1..n : states[k][p] # s[p]}
  <2>1. SUFFICES ASSUME Z # {} PROVE FALSE
    OBVIOUS
  <2>2. PICK k \in Z : \A j \in Z : k <= j
    <3>1. Z \subseteq Nat
      BY <1>1
    <3> HIDE DEF Z
    <3> QED BY <2>1, <3>1, LeastNumber
  <2>3. k \in 1..n /\ states[k][p] # s[p] /\ states[k][p] = Prior(k)[p]
    <3> HIDE DEF Prior
    <3> QED BY <1>4, <2>2
  <2>4. k # 1
    BY <2>3
  <2>5. k - 1 \in 1..n /\ ~(k <= k - 1)
    BY <1>1, <2>3, <2>4
  <2>6. states[k - 1][p] = s[p]
    BY <2>2, <2>5
  <2> QED BY <2>3, <2>4, <2>6
<1>6. \A i \in 1..n : g[i] = Back(IF i = 1 THEN t ELSE g[i - 1], steps[i].changes)
  <2> TAKE i \in 1..n
  <2>1. i # 1 => i - 1 \in 1..n
    BY <1>1
  <2>2. (IF i = 1 THEN t ELSE g[i - 1]) = With(Prior(i), p, v)
    BY <2>1
  <2> HIDE DEF Prior, t
  <2> QED BY <1>4, <2>2
<1> HIDE DEF t
<1>7. \A i \in 1..n : moved[i] = g[i]
  <2> HIDE DEF g
  <2> QED BY <1>6, StatesFollow DEF moved
<1>8. moved = g
  BY <1>2, <1>7
<1>9. g = Moved(states, p, v)
  BY <1>1 DEF Moved
<1> HIDE DEF g
<1> QED BY <1>1, <1>5, <1>8, <1>9 DEF moved, states, t

\* Work beside the steps begins on the collection as it is, with a manager of its own.
LEMMA AloneIs ==
  ASSUME NEW c, FitCollection(c), AtRest(c)
  PROVE  LET b == Begun(Alone(c), "skip")
         IN /\ FitCollection(Alone(c)) /\ ~Alone(c).failed
            /\ FitCollection(b) /\ PresentOf(b) = PresentOf(c) /\ b.notes = c.notes
<1>1. FitCollection(Alone(c))
  BY BesideFits
<1>2. /\ Alone(c).cards = c.cards /\ Alone(c).notes = c.notes /\ Alone(c).failed = c.failed
  BY DEF Alone, FitCollection, Fields
<1>3. PresentOf(Alone(c)) = PresentOf(c)
  BY <1>2, PresentSame
<1>4. "skip" \in Ops
  BY DEF Ops
<1> HIDE DEF Alone
<1> QED BY <1>1, <1>2, <1>3, <1>4, BegunIs DEF AtRest

\* Work beside the steps leaves them as they were.
LEMMA BesideIs ==
  ASSUME NEW c, FitCollection(c), AtRest(c), NEW e, FitCollection(e),
         Follows(Begun(Alone(c), "skip"), e), NEW quick
  PROVE  LET d == Rejoined(c, Closed(Alone(c), e, "skip", quick))
         IN /\ AtRest(d) /\ PresentOf(d) = PresentOf(e)
            /\ d.undo.undo = c.undo.undo /\ d.undo.redo = c.undo.redo
<1> DEFINE a == Alone(c)
           w == Closed(a, e, "skip", quick)
           u == RetainCacheModifiedTime(c.undo, TimeBeside(c))
           d == Rejoined(c, w)
<1>1. FitCollection(a) /\ ~a.failed
  BY AloneIs
<1>2. PICK X, new : AllFit(X) /\ new \in Seq(X) /\ Records(Begun(a, "skip"), e, new)
  BY DEF Follows
<1> HIDE DEF a
<1>3. PresentOf(w) = PresentOf(e) /\ ~w.failed /\ FitCollection(w)
  <2>1. "skip" \in Ops
    BY DEF Ops
  <2>2. PresentOf(w) = PresentOf(e) /\ \E all : Closes(a, w, "skip", all)
    BY <1>1, <1>2, <2>1, ClosedIs
  <2>3. FitCollection(w)
    BY <1>1, ClosedFits
  <2> HIDE DEF w
  <2> QED BY <2>2, <2>3 DEF Closes
<1> HIDE DEF w
<1>4. /\ u.undo = c.undo.undo /\ u.redo = c.undo.redo /\ u.mode = c.undo.mode
      /\ u.current = c.undo.current
  <2>1. PICK S : c.undo \in Managers(S)
    BY DEF FitCollection, FitManager
  <2> QED BY <2>1 DEF RetainCacheModifiedTime, Managers
<1> HIDE DEF u
<1>5. d.undo = u /\ d.failed = w.failed /\ d.cards = w.cards /\ d.notes = w.notes
  <2>1. d = [w EXCEPT !.undo = u]
    BY DEF Rejoined, u
  <2> HIDE DEF d
  <2> QED BY <1>3, <2>1 DEF FitCollection, Fields
<1> HIDE DEF d
<1>6. PresentOf(d) = PresentOf(w)
  BY <1>5, PresentSame
<1>7. AtRest(d)
  BY <1>3, <1>4, <1>5 DEF AtRest, Rests
<1> QED BY <1>3, <1>4, <1>5, <1>6, <1>7 DEF d, w, a

\* One part that no step has changed is another, now and in every state there was.
Altered(c, d) ==
  \E p \in Parts : \E v :
    /\ \A i \in DOMAIN PastOf(c) : PastOf(c)[i][p] = PresentOf(c)[p]
    /\ \A i \in DOMAIN FutureOf(c) : FutureOf(c)[i][p] = PresentOf(c)[p]
    /\ PresentOf(d) = With(PresentOf(c), p, v)
    /\ PastOf(d) = Moved(PastOf(c), p, v)
    /\ FutureOf(d) = Moved(FutureOf(c), p, v)

\* A note that no step has changed is not found among their changes.
LEMMA NotSaved ==
  ASSUME NEW c, FitCollection(c), NEW n, n \notin SavedNoteUpdates(c.undo),
         NEW steps \in {c.undo.undo, c.undo.redo}
  PROVE  \A i \in 1..Len(steps) : Changing(steps[i].changes, <<"note", n>>) = {}
<1>1. PICK S : AllFit(S) /\ c.undo \in Managers(S)
  BY DEF FitCollection, FitManager
<1>2. steps \in Seq(Steps(S))
  BY <1>1 DEF Managers
<1> TAKE i \in 1..Len(steps)
<1> DEFINE step == steps[i]
           changes == step.changes
<1>3. step \in Steps(S) /\ changes \in Seq(S)
  <2>1. step \in Steps(S)
    BY <1>2, ElementOfSeq
  <2> QED BY <2>1 DEF Steps
<1>4. step \in SavedSteps(c.undo)
  <2>1. i \in DOMAIN steps
    BY <1>2, LenProperties
  <2>2. step \in ToSet(steps)
    BY <2>1 DEF ToSet
  <2> QED BY <2>2 DEF SavedSteps
<1>5. SUFFICES ASSUME NEW k \in Changing(changes, <<"note", n>>) PROVE FALSE
  OBVIOUS
<1>6. k \in DOMAIN changes /\ changes[k].kind = "note" /\ changes[k].id = n
  BY DEF Changing
<1>7. changes[k] \in ToSet(changes)
  BY <1>6 DEF ToSet
<1>8. changes[k] \in UNION {ToSet(x.changes) : x \in SavedSteps(c.undo)}
  BY <1>4, <1>7
<1> HIDE DEF changes
<1>9. n \in NotesIn(SavedSteps(c.undo))
  BY <1>6, <1>8 DEF NotesIn
<1> QED BY <1>9 DEF SavedNoteUpdates

\* Exercises are appended to a note that no step has changed.
LEMMA AppendIs ==
  ASSUME NEW c, FitCollection(c), AtRest(c), NEW n \in Notes, n \notin SavedNoteUpdates(c.undo),
         NEW note, NEW quick
  PROVE  LET b == Begun(Alone(c), "skip")
             d == Rejoined(c, Closed(Alone(c), UpdateNote(b, n, note), "skip", quick))
         IN AtRest(d) /\ Altered(c, d)
<1> DEFINE b == Begun(Alone(c), "skip")
           e == UpdateNote(b, n, note)
           d == Rejoined(c, Closed(Alone(c), e, "skip", quick))
           p == <<"note", n>>
           s == PresentOf(c)
           t == With(s, p, note)
           y == Change("note", n, note)
<1>1. FitCollection(b) /\ PresentOf(b) = s
  BY AloneIs
<1>2. FitCollection(e)
  <2> HIDE DEF b
  <2> QED BY <1>1, UpdateNoteFits
<1>3. Follows(b, e) /\ PresentOf(e) = Back(PresentOf(b), <<y>>)
  <2> HIDE DEF b
  <2>1. y.kind = "note" /\ y.id = n /\ y.old = note
    BY DEF Change
  <2> HIDE DEF y
  <2> QED BY <1>1, <2>1, UpdateNoteRecords
<1> HIDE DEF e, d
<1>4. /\ AtRest(d) /\ PresentOf(d) = PresentOf(e)
      /\ d.undo.undo = c.undo.undo /\ d.undo.redo = c.undo.redo
  BY <1>2, <1>3, BesideIs DEF d
<1>5. PresentOf(e) = t
  <2>1. PresentOf(e) = [q \in Parts |-> IF q = PartOf(y) THEN OldOf(y) ELSE s[q]]
    <3> HIDE DEF b, s, y
    <3> QED BY <1>1, <1>3, BackOne
  <2>2. PartOf(y) = p /\ OldOf(y) = note
    BY DEF PartOf, OldOf, Change
  <2>3. s = [q \in Parts |-> s[q]]
    BY PresentIs DEF IsState
  <2> HIDE DEF s, y, p
  <2>4. t = [q \in Parts |-> IF q = p THEN note ELSE s[q]]
    <3>1. DOMAIN s = Parts
      BY <2>3
    <3> QED BY <3>1 DEF With
  <2> QED BY <2>1, <2>2, <2>4
<1>6. p \in Parts /\ IsState(s)
  BY PresentIs DEF Parts
<1>7. PICK S : AllFit(S) /\ c.undo \in Managers(S)
  BY DEF FitCollection, FitManager
<1>8. c.undo.undo \in Seq(Steps(S)) /\ Reverse(c.undo.redo) \in Seq(Steps(S))
      /\ c.undo.redo \in Seq(Steps(S))
  BY <1>7, RedoOrder DEF Managers
<1>9. /\ \A i \in DOMAIN PastOf(c) : PastOf(c)[i][p] = s[p]
      /\ PastOf(d) = Moved(PastOf(c), p, note)
  <2> DEFINE steps == c.undo.undo
  <2>1. \A i \in 1..Len(steps) : Changing(steps[i].changes, p) = {}
    BY NotSaved
  <2>a. steps \in Seq(Steps(S))
    BY <1>8
  <2> HIDE DEF steps, p, s
  <2>2. LET states == StatesBefore(s, steps)
        IN /\ \A i \in DOMAIN states : states[i][p] = s[p]
           /\ StatesBefore(t, steps) = Moved(states, p, note)
    BY <1>6, <2>a, <2>1, StatesAside, SMTT(30)
  <2> QED BY <1>4, <1>5, <2>2 DEF PastOf, steps, s
<1>10. /\ \A i \in DOMAIN FutureOf(c) : FutureOf(c)[i][p] = s[p]
       /\ FutureOf(d) = Moved(FutureOf(c), p, note)
  <2> DEFINE redo == c.undo.redo
             steps == Reverse(redo)
  <2>1. \A i \in 1..Len(redo) : Changing(redo[i].changes, p) = {}
    BY NotSaved
  <2>2. \A i \in 1..Len(steps) : Changing(steps[i].changes, p) = {}
    <3> HIDE DEF redo, p
    <3>1. Len(redo) \in Nat /\ steps = [i \in 1..Len(redo) |-> redo[Len(redo) - i + 1]]
      BY <1>8, LenProperties DEF redo, Reverse
    <3> HIDE DEF steps
    <3>2. Len(steps) = Len(redo)
      BY <1>8, RedoOrder DEF steps, redo
    <3> TAKE i \in 1..Len(steps)
    <3>3. Len(redo) - i + 1 \in 1..Len(redo) /\ steps[i] = redo[Len(redo) - i + 1]
      BY <3>1, <3>2
    <3> QED BY <2>1, <3>3
  <2>a. steps \in Seq(Steps(S))
    BY <1>8
  <2> HIDE DEF steps, p, s
  <2>3. LET states == StatesBefore(s, steps)
        IN /\ \A i \in DOMAIN states : states[i][p] = s[p]
           /\ StatesBefore(t, steps) = Moved(states, p, note)
    BY <1>6, <2>a, <2>2, StatesAside, SMTT(30)
  <2> QED BY <1>4, <1>5, <2>3 DEF FutureOf, steps, s
<1> HIDE DEF p, s, t
<1>11. Altered(c, d)
  BY <1>4, <1>5, <1>6, <1>9, <1>10 DEF Altered, s, t
<1> QED BY <1>4, <1>11 DEF d, e

-----------------------------------------------------------------------------
(* Each operation is a step of the history.                                  *)

\* The collection is between operations.
HistoryInv == ScheduleInv /\ AtRest(col)

\* An edit, or the end of the steps.
Moves(c, d) == AtRest(d) /\ (Edited(c, d) \/ Forgotten(c, d))

\* An operation that recorded what it changed, or failed, is an edit or the end of the
\* steps.
LEMMA DoneMoves ==
  ASSUME HistoryInv, NEW op \in Ops \ {"skip", "custom", "note"}, NEW quick,
         NEW e, FitCollection(e), e.failed \/ Follows(Begun(col, op), e)
  PROVE  Moves(col, Closed(col, e, op, quick))
<1>1. FitCollection(col) /\ AtRest(col) /\ op \in Ops \ {"skip", "custom"} /\ op # "note"
  BY DEF HistoryInv, ScheduleInv
<1> DEFINE b == Begun(col, op)
           d == Closed(col, e, op, quick)
<1> HIDE DEF b, d
<1>2. e.failed \/ \E X, new : /\ AllFit(X) /\ new \in Seq(X) /\ Records(b, e, new)
                              /\ op = "note" => new # <<>> /\ new[1].kind = "note"
  BY <1>1 DEF Follows, b
<1>3. AtRest(d) /\ (Edited(col, d) \/ Forgotten(col, d))
  BY <1>1, <1>2, EditCloses DEF b, d
<1> QED BY <1>3 DEF Moves, d

\* An operation that fails leaves a fit collection.
LEMMA FailedFits ==
  ASSUME NEW c, FitCollection(c)
  PROVE  FitCollection([c EXCEPT !.failed = TRUE]) /\ [c EXCEPT !.failed = TRUE].failed
<1>1. FitCollection([c EXCEPT !.failed = TRUE])
  BY SideFits, Zenon
<1>2. [c EXCEPT !.failed = TRUE].failed = TRUE
  BY DEF FitCollection, Fields
<1> QED BY <1>1, <1>2

\* An operation begins on a fit collection with the same cards.
LEMMA BegunFitsHere ==
  ASSUME HistoryInv, NEW op \in Ops
  PROVE  FitCollection(Begun(col, op)) /\ Begun(col, op).cards = col.cards
         /\ FitManager(Begun(col, op).undo)
<1>1. FitCollection(Begun(col, op)) /\ Begun(col, op).cards = col.cards
  BY BegunHere DEF HistoryInv
<1> QED BY <1>1 DEF FitCollection

\* Answering the card that is shown, and grading one that is not.
LEMMA AnswersMove ==
  ASSUME HistoryInv, Answer \/ \E id \in Cards : GradeNow(id)
  PROVE  Moves(col, col')
<1>0. ScheduleInv /\ now \in Int /\ now \in Nat /\ now >= Epoch /\ DaysBelowEpoch(now)
  <2>1. ScheduleInv
    BY DEF HistoryInv
  <2> QED BY <2>1, Clock DEF ScheduleInv
<1>1. CASE Answer
  <2>1. PICK answer \in Answers(col.cards[shown.id]) :
          LET begun == Begun(col, "answer")
              done == IF StudyState(begun.cards[shown.id], now) # shown.state
                      THEN [begun EXCEPT !.failed = TRUE]
                      ELSE UpdateQueues(AnswerInner(begun, shown.id, answer), shown.id,
                                        answer.type = "preview" /\ answer.delay = 0)
          IN col' = Closed(col, done, "answer", FALSE)
    BY <1>1 DEF Answer, Do, Transact
  <2> DEFINE begun == Begun(col, "answer")
             failed == [begun EXCEPT !.failed = TRUE]
             inner == AnswerInner(begun, shown.id, answer)
             done == UpdateQueues(inner, shown.id, answer.type = "preview" /\ answer.delay = 0)
  <2>2. /\ "answer" \in Ops \ {"skip", "custom", "note"} /\ FitCollection(begun)
        /\ begun.cards = col.cards /\ FitManager(begun.undo)
    BY BegunFitsHere DEF Ops
  <2>3. col' = Closed(col, failed, "answer", FALSE) \/ col' = Closed(col, done, "answer", FALSE)
    BY <2>1
  <2> HIDE DEF begun
  <2>4. FitCollection(failed) /\ failed.failed
    BY <2>2, FailedFits
  <2>5. FitCollection(inner) /\ Follows(begun, inner)
    BY <1>0, <2>2, AnswerInnerFits, AnswerInnerRecords
  <2> HIDE DEF inner
  <2>6. FitCollection(done) /\ (done.failed \/ Follows(inner, done))
    BY <2>5, UpdateQueuesFits, UpdateQueuesRecords
  <2> HIDE DEF failed, done
  <2>7. done.failed \/ Follows(begun, done)
    BY <2>2, <2>5, <2>6, FollowsMore
  <2> QED BY <2>2, <2>3, <2>4, <2>6, <2>7, DoneMoves DEF begun
<1>2. CASE \E id \in Cards : GradeNow(id)
  <2>0. PICK id \in Cards : GradeNow(id)
    BY <1>2
  <2>1. PICK answer \in Answers(col.cards[id]) :
          col' = Closed(col, AnswerInner(Begun(col, "grade"), id, answer), "grade", FALSE)
    BY <2>0 DEF GradeNow, Do, Transact
  <2> DEFINE begun == Begun(col, "grade")
             done == AnswerInner(begun, id, answer)
  <2>2. /\ "grade" \in Ops \ {"skip", "custom", "note"} /\ FitCollection(begun)
        /\ begun.cards = col.cards
    BY BegunFitsHere DEF Ops
  <2> HIDE DEF begun
  <2>3. FitCollection(done) /\ Follows(begun, done)
    BY <1>0, <2>2, AnswerInnerFits, AnswerInnerRecords
  <2> HIDE DEF done
  <2> QED BY <2>1, <2>2, <2>3, DoneMoves DEF begun, done
<1> QED BY <1>1, <1>2

\* Suspending, burying, flagging, forgetting and setting the due of cards.
LEMMA CardsMove ==
  ASSUME HistoryInv, NEW id \in Cards,
         Suspend(id) \/ Bury(id) \/ UnburyUnsuspend(id) \/ SetFlag(id)
           \/ SetForgotten(id) \/ SetDueDate(id)
  PROVE  Moves(col, col')
<1> DEFINE begun(op) == Begun(col, op)
           card == col.cards[id]
<1>1. \A op \in Ops : /\ FitCollection(begun(op)) /\ begun(op).cards = col.cards
                      /\ FitManager(begun(op).undo)
  BY BegunFitsHere
<1>2. card \in FitRows /\ card \in CardRow /\ DueFits(card)
  BY DEF HistoryInv, ScheduleInv, FitCollection, FitRows
<1>3. now \in Int /\ ScheduleInv
  BY Clock DEF HistoryInv
<1> HIDE DEF begun
<1>4. \A op \in Ops \ {"skip", "custom", "note"} : \A e :
        FitCollection(e) /\ Follows(begun(op), e) => Moves(col, Closed(col, e, op, FALSE))
  BY DoneMoves DEF begun
<1>5. CASE Suspend(id) \/ Bury(id)
  <2> DEFINE e == BuryOrSuspend(begun("suspend"), {id}, "suspended")
             f == BuryOrSuspend(begun("bury"), {id}, "buried")
  <2>1. col' = Closed(col, e, "suspend", FALSE) \/ col' = Closed(col, f, "bury", FALSE)
    BY <1>5 DEF Suspend, Bury, Do, Transact, begun
  <2>2. FitCollection(e) /\ FitCollection(f) /\ Follows(begun("suspend"), e) /\ Follows(begun("bury"), f)
    BY <1>1, <1>3, BuryOrSuspendFits, BuryOrSuspendRecords DEF Ops, Shelved
  <2> HIDE DEF e, f
  <2>3. "suspend" \in Ops \ {"skip", "custom", "note"} /\ "bury" \in Ops \ {"skip", "custom", "note"}
    BY DEF Ops
  <2> QED BY <1>4, <2>1, <2>2, <2>3
<1>6. CASE UnburyUnsuspend(id)
  <2> DEFINE b == begun("unbury")
             e == UpdateCard(b, id, Unshelved(b.cards[id]))
  <2>1. FitCollection(b) /\ b.cards = col.cards /\ FitManager(b.undo)
        /\ "unbury" \in Ops \ {"skip", "custom", "note"}
    BY <1>1 DEF Ops
  <2>2. col' = Closed(col, b, "unbury", FALSE) \/ col' = Closed(col, e, "unbury", FALSE)
    BY <1>6 DEF UnburyUnsuspend, Do, Transact, begun
  <2> HIDE DEF b
  <2>3. Unshelved(b.cards[id]) \in FitRows
    BY <1>2, <2>1, UnshelvedFits DEF FitRows, Shelved
  <2>4. FitCollection(e) /\ Follows(b, e) /\ Follows(b, b)
    BY <1>3, <2>1, <2>3, UpdateFits, UpdateRecords, RecordsNothing
  <2> HIDE DEF e
  <2> QED BY <1>4, <2>1, <2>2, <2>4 DEF b
<1>7. CASE SetFlag(id)
  <2> DEFINE b == begun("flag")
             e == UpdateCardUndoable(b, id, [b.cards[id] EXCEPT !.flag = ~@])
  <2>1. FitCollection(b) /\ b.cards = col.cards /\ "flag" \in Ops \ {"skip", "custom", "note"}
    BY <1>1 DEF Ops
  <2>2. col' = Closed(col, e, "flag", FALSE)
    BY <1>7 DEF SetFlag, Do, Transact, begun
  <2> HIDE DEF b
  <2>3. [b.cards[id] EXCEPT !.flag = ~@] \in FitRows
    BY <1>2, <1>3, <2>1, StampedFits
  <2>4. FitCollection(e) /\ Follows(b, e)
    BY <2>1, <2>3, UpdateUndoableFits, UpdateUndoableRecords
  <2> HIDE DEF e
  <2> QED BY <1>4, <2>1, <2>2, <2>4 DEF b
<1>8. CASE SetForgotten(id)
  <2> DEFINE b == begun("forget")
             e == UpdateCard(b, id, ScheduledAsNew(b.cards[id], 1))
  <2>1. FitCollection(b) /\ b.cards = col.cards /\ "forget" \in Ops \ {"skip", "custom", "note"}
    BY <1>1 DEF Ops
  <2>2. col' = Closed(col, e, "forget", FALSE)
    BY <1>8 DEF SetForgotten, Do, Transact, begun
  <2> HIDE DEF b
  <2>3. ScheduledAsNew(b.cards[id], 1) \in FitRows
    BY <1>2, <1>3, <2>1, ScheduledFits, Clock DEF FitRows
  <2>4. FitCollection(e) /\ Follows(b, e)
    BY <1>3, <2>1, <2>3, UpdateFits, UpdateRecords
  <2> HIDE DEF e
  <2> QED BY <1>4, <2>1, <2>2, <2>4 DEF b
<1>9. CASE SetDueDate(id)
  <2> DEFINE b == begun("setdue")
  <2>1. FitCollection(b) /\ b.cards = col.cards /\ "setdue" \in Ops \ {"skip", "custom", "note"}
    BY <1>1 DEF Ops
  <2>2. PICK days \in Intervals \union {0} :
          col' = Closed(col, UpdateCard(b, id, ScheduledAsReview(b.cards[id], Today(now) + days)),
                        "setdue", FALSE)
    BY <1>9 DEF SetDueDate, Do, Transact, begun
  <2> HIDE DEF b
  <2> DEFINE due == Today(now) + days
  <2>3. due \in Nat \ {0} /\ due < Epoch
    BY <1>3, Clock, ScheduleAssumption DEF DaysBelowEpoch
  <2> HIDE DEF due
  <2> DEFINE e == UpdateCard(b, id, ScheduledAsReview(b.cards[id], due))
  <2>4. ScheduledAsReview(b.cards[id], due) \in FitRows
    BY <1>2, <2>1, <2>3, ScheduledFits DEF FitRows
  <2>5. FitCollection(e) /\ Follows(b, e)
    BY <1>3, <2>1, <2>4, UpdateFits, UpdateRecords
  <2>6. col' = Closed(col, e, "setdue", FALSE)
    BY <2>2 DEF due
  <2> HIDE DEF e
  <2> QED BY <1>4, <2>1, <2>5, <2>6 DEF b
<1> QED BY <1>5, <1>6, <1>7, <1>8, <1>9

\* Filling and emptying a filtered deck.
LEMMA DecksMove ==
  ASSUME HistoryInv,
         EmptyFiltered \/ \E found \in SUBSET Cards, deck \in {"preview", "filtered"} :
                            BuildFiltered(deck, found)
  PROVE  Moves(col, col')
<1>0. ScheduleInv /\ now \in Int
  <2>1. ScheduleInv
    BY DEF HistoryInv
  <2> QED BY <2>1, Clock
<1>1. CASE EmptyFiltered
  <2> DEFINE b == Begun(col, "empty")
             e == ReturnAll(b)
  <2>1. col' = Closed(col, e, "empty", FALSE)
    BY <1>1 DEF EmptyFiltered, Do, Transact
  <2>2. FitCollection(b) /\ "empty" \in Ops \ {"skip", "custom", "note"}
    BY BegunFitsHere DEF Ops
  <2> HIDE DEF b
  <2>3. FitCollection(e) /\ Follows(b, e)
    BY <1>0, <2>2, ReturnAllFits, ReturnAllRecords
  <2> HIDE DEF e
  <2> QED BY <2>1, <2>2, <2>3, DoneMoves DEF b
<1>2. ASSUME NEW found \in SUBSET Cards, NEW deck \in {"preview", "filtered"},
             BuildFiltered(deck, found)
      PROVE  Moves(col, col')
  <2> DEFINE b == Begun(col, "build")
             x == Change("deck", None, None)
             noted == SaveUndo(b, x)
             returned == ReturnAll(noted)
             matching == {id \in found : returned.cards[id].queue \notin Shelved}
             moved == UpdateCards(returned, [id \in matching |-> MovedInto(returned.cards[id], deck)])
             none == [b EXCEPT !.failed = TRUE]
  <2>1. col' = Closed(col, none, "build", FALSE) \/ col' = Closed(col, moved, "build", FALSE)
    BY <1>2 DEF BuildFiltered, Do, Transact
  <2>2. FitCollection(b) /\ FitManager(b.undo) /\ "build" \in Ops \ {"skip", "custom", "note"}
    BY BegunFitsHere DEF Ops
  <2> HIDE DEF b
  <2>3. FitCollection(none) /\ none.failed
    BY <2>2, FailedFits
  <2>4. FitChange(x) /\ x.kind \notin {"card", "note"}
    BY OtherChange DEF Kinds, Change
  <2> HIDE DEF x
  <2>5. FitCollection(noted) /\ Follows(b, noted)
    <3>1. /\ FitCollection(noted) /\ noted.undo = Save(b.undo, x) /\ noted.failed = b.failed
          /\ PresentOf(noted) = PresentOf(b)
      BY <2>2, <2>4, SaveUndoFits, SaveUndoRecords
    <3> HIDE DEF noted
    <3> QED BY <2>2, <2>4, <3>1, RecordsOther
  <2> HIDE DEF noted
  <2>6. FitCollection(returned) /\ Follows(noted, returned)
    BY <1>0, <2>5, ReturnAllFits, ReturnAllRecords
  <2>7. matching \in SUBSET Cards
    OBVIOUS
  <2> HIDE DEF returned, matching
  <2>8. FitCollection(moved) /\ Follows(returned, moved)
    BY <1>0, <2>6, <2>7, MovedFits, MovedRecords
  <2> HIDE DEF none, moved
  <2>9. Follows(b, moved)
    <3>1. Follows(b, returned)
      BY <2>2, <2>5, <2>6, FollowsMore
    <3> QED BY <2>2, <2>8, <3>1, FollowsMore
  <2> QED BY <2>1, <2>2, <2>3, <2>8, <2>9, DoneMoves DEF b
<1> QED BY <1>1, <1>2

\* Nothing the history tells has changed.
Still(c, d) ==
  PresentOf(d) = PresentOf(c) /\ PastOf(d) = PastOf(c) /\ FutureOf(d) = FutureOf(c)

\* A step of the history, or none.
HistoryStep(c, d) ==
  /\ AtRest(d)
  /\ \/ Still(c, d) \/ Edited(c, d) \/ Undone(c, d) \/ Redone(c, d)
     \/ Merged(c, d) \/ Altered(c, d) \/ Forgotten(c, d)

\* The steps are there as they were, or are given up, and the parts are the same.
LEMMA StepsStay ==
  ASSUME NEW c, AtRest(c), NEW d, d.failed = c.failed, PresentOf(d) = PresentOf(c),
         d.undo = c.undo \/ (Dropped(d.undo) /\ d.undo.mode = c.undo.mode)
  PROVE  HistoryStep(c, d)
<1>1. CASE d.undo = c.undo
  BY <1>1 DEF HistoryStep, Still, AtRest, PastOf, FutureOf
<1>2. CASE Dropped(d.undo) /\ d.undo.mode = c.undo.mode
  <2>1. Len(<<>>) = 0 /\ 1..0 = {} /\ 0 <= UndoLimit
    BY UndoAssumption
  <2>2. AtRest(d)
    BY <1>2, <2>1 DEF AtRest, Rests, Dropped
  <2> QED BY <1>2, <2>2 DEF HistoryStep, Forgotten
<1> QED BY <1>1, <1>2

\* Editing a note, with or without joining the edit before, appending to its exercises,
\* reconnecting and folding a deck.
LEMMA NotesMove ==
  ASSUME HistoryInv, NoteNext
  PROVE  HistoryStep(col, col')
<1>0. FitCollection(col) /\ AtRest(col)
  BY DEF HistoryInv, ScheduleInv
<1>1. ASSUME NEW n \in Notes, ReviseSkill(n)
      PROVE  Moves(col, col')
  <2> DEFINE b == Begun(col, "revise")
  <2>1. PICK note : col' = Closed(col, UpdateNote(b, n, note), "revise", FALSE)
    BY <1>1 DEF ReviseSkill, Do, Transact
  <2>2. FitCollection(b) /\ "revise" \in Ops \ {"skip", "custom", "note"}
    BY BegunFitsHere DEF Ops
  <2> HIDE DEF b
  <2> DEFINE e == UpdateNote(b, n, note)
  <2>3. FitCollection(e) /\ Follows(b, e)
    BY <2>2, UpdateNoteFits, UpdateNoteRecords
  <2> HIDE DEF e
  <2> QED BY <2>1, <2>2, <2>3, DoneMoves DEF b, e
<1>2. ASSUME NEW n \in Notes, NEW quick, EditNote(n, quick)
      PROVE  Moves(col, col')
  <2> DEFINE b == Begun(col, "note")
  <2>1. PICK note : col' = Closed(col, UpdateNote(b, n, note), "note", quick)
    BY <1>2 DEF EditNote, Do, Transact
  <2>2. FitCollection(b) /\ "note" \in Ops \ {"skip", "custom"}
    BY BegunFitsHere DEF Ops
  <2> HIDE DEF b
  <2> DEFINE e == UpdateNote(b, n, note)
             x == Change("note", n, b.notes[n])
             d == Closed(col, e, "note", quick)
  <2>3. FitCollection(e) /\ Records(b, e, <<x>>) /\ FitChange(x)
    BY <2>2, UpdateNoteFits, UpdateNoteRecords
  <2>4. x.kind = "note"
    BY DEF Change
  <2> HIDE DEF e, x
  <2>5. \E X, new : /\ AllFit(X) /\ new \in Seq(X) /\ Records(b, e, new)
                    /\ new # <<>> /\ new[1].kind = "note"
    <3>1. AllFit({x}) /\ <<x>> \in Seq({x}) /\ <<x>> # <<>> /\ <<x>>[1] = x
      BY <2>3 DEF AllFit
    <3> QED BY <2>3, <2>4, <3>1
  <2> HIDE DEF d
  <2>6. AtRest(d) /\ (Edited(col, d) \/ Forgotten(col, d))
    BY <1>0, <2>2, <2>3, <2>5, EditCloses DEF b, d
  <2> QED BY <2>1, <2>6 DEF Moves, d, e
<1>3. ASSUME NEW n \in Notes, AppendBank(n)
      PROVE  AtRest(col') /\ Altered(col, col')
  <2> DEFINE b == Begun(Alone(col), "skip")
  <2>1. PICK note : col' = Rejoined(col, Closed(Alone(col), UpdateNote(b, n, note), "skip", FALSE))
    BY <1>3 DEF AppendBank, Beside, Transact
  <2>2. n \notin SavedNoteUpdates(col.undo)
    BY <1>3 DEF AppendBank
  <2> DEFINE d == Rejoined(col, Closed(Alone(col), UpdateNote(b, n, note), "skip", FALSE))
  <2>3. AtRest(d) /\ Altered(col, d)
    BY <1>0, <2>2, AppendIs
  <2> HIDE DEF d
  <2> QED BY <2>1, <2>3 DEF d
<1>4. CASE Reconnect
  <2> DEFINE b == Begun(Alone(col), "skip")
             e == [b EXCEPT !.linked = TRUE, !.mod = Millis(b)]
             d == Rejoined(col, Closed(Alone(col), e, "skip", FALSE))
  <2>1. col' = d
    BY <1>4 DEF Reconnect, Beside, Transact
  <2>2. FitCollection(b) /\ PresentOf(b) = PresentOf(col)
    BY <1>0, AloneIs
  <2> HIDE DEF b
  <2>3. /\ FitCollection(e) /\ e.cards = b.cards /\ e.notes = b.notes /\ e.undo = b.undo
        /\ e.failed = b.failed
    BY <2>2 DEF FitCollection, Fields
  <2> HIDE DEF e
  <2>4. PresentOf(e) = PresentOf(b)
    BY <2>3, PresentSame
  <2>5. Follows(b, e)
    BY <2>2, <2>3, <2>4, RecordsNothing DEF FitCollection
  <2>a. FitCollection(e) /\ Follows(Begun(Alone(col), "skip"), e)
    BY <2>3, <2>5 DEF b
  <2>6. /\ AtRest(d) /\ PresentOf(d) = PresentOf(e)
        /\ d.undo.undo = col.undo.undo /\ d.undo.redo = col.undo.redo
    BY <1>0, <2>a, BesideIs, Zenon
  <2> HIDE DEF d
  <2> QED BY <2>1, <2>2, <2>4, <2>6 DEF HistoryStep, Still, PastOf, FutureOf
<1>5. CASE Collapse
  <2> DEFINE x == Change("deck", None, None)
             d == Closed(col, SaveUndo(Begun(col, "skip"), x), "skip", FALSE)
  <2>1. col' = d
    BY <1>5 DEF Collapse, Do, Transact
  <2>2. FitChange(x) /\ x.kind \notin {"card", "note"}
    BY OtherChange DEF Kinds, Change
  <2> HIDE DEF x
  <2>3. AtRest(d) /\ Edited(col, d)
    BY <1>0, <2>2, SkipIs
  <2> QED BY <2>1, <2>3 DEF HistoryStep
<1> QED BY <1>1, <1>2, <1>3, <1>4, <1>5 DEF NoteNext, Moves, HistoryStep

\* Showing the next card: the queues are built, and a new day may drop the steps.
LEMMA FetchMoves ==
  ASSUME HistoryInv, Fetch
  PROVE  HistoryStep(col, col')
<1> DEFINE c == ClearIfDayChanged(col)
<1>0. FitCollection(col) /\ AtRest(col)
  BY DEF HistoryInv, ScheduleInv
<1>1. /\ FitCollection(c) /\ PresentOf(c) = PresentOf(col) /\ c.failed = col.failed
      /\ c.undo = col.undo \/ (Dropped(c.undo) /\ c.undo.mode = col.undo.mode)
  BY <1>0, ClearIfDayChangedFits, ClearIfDayChangedDrops
<1>2. \E built, q : /\ built = c \/ \E x : built = [c EXCEPT !.queues = x, !.clock = @ + 1]
                    /\ col' = [built EXCEPT !.queues = q]
  <2>1. PICK order \in SetToSeqs(Cards) :
          LET built == IF c.queues # None THEN c
                       ELSE [c EXCEPT !.queues = Build(c.cards, now, setting.buried, order, c.clock + 1),
                                      !.clock = @ + 1]
          IN col' = [built EXCEPT !.queues = CountsAsShown(built.queues, now)]
    BY DEF Fetch
  <2> HIDE DEF c
  <2> QED BY <2>1
<1> HIDE DEF c
<1>3. PICK built, q : /\ built = c \/ \E x : built = [c EXCEPT !.queues = x, !.clock = @ + 1]
                      /\ col' = [built EXCEPT !.queues = q]
  BY <1>2
<1>4. /\ DOMAIN built = Fields /\ built.cards = c.cards /\ built.notes = c.notes
      /\ built.undo = c.undo /\ built.failed = c.failed
  BY <1>1, <1>3 DEF FitCollection, Fields
<1>5. /\ col'.cards = c.cards /\ col'.notes = c.notes /\ col'.undo = c.undo /\ col'.failed = c.failed
  BY <1>3, <1>4 DEF Fields
<1>6. PresentOf(col') = PresentOf(c)
  BY <1>5, PresentSame
<1> QED BY <1>0, <1>1, <1>5, <1>6, StepsStay

\* Undo, redo, the steps of the caller, a sync, and opening the list of decks.
LEMMA StepsMove ==
  ASSUME HistoryInv,
         \/ \E quick \in BOOLEAN : Undo(quick) \/ Redo(quick)
         \/ StartCustomStep \/ MergeIntoCustomStep \/ Sync \/ OpenDeckList
  PROVE  HistoryStep(col, col')
<1>0. FitCollection(col) /\ AtRest(col)
  BY DEF HistoryInv, ScheduleInv
<1>1. CASE \E quick \in BOOLEAN : Undo(quick) \/ Redo(quick)
  <2>1. PICK quick \in BOOLEAN : Undo(quick) \/ Redo(quick)
    BY <1>1
  <2>2. \/ col.undo.undo # <<>> /\ col' = UndoStep(col, quick)
        \/ col.undo.redo # <<>> /\ col' = RedoStep(col, quick)
    BY <2>1 DEF Undo, Redo
  <2>3. \/ AtRest(col') /\ (Undone(col, col') \/ Forgotten(col, col'))
        \/ AtRest(col') /\ (Redone(col, col') \/ Forgotten(col, col'))
    BY <1>0, <2>2, UndoIs, RedoIs
  <2> QED BY <2>3 DEF HistoryStep
<1>2. CASE StartCustomStep
  <2> DEFINE clock == col.clock + 1
             d == [col EXCEPT !.undo = AddCustomStep(@), !.clock = clock]
  <2>1. col' = d
    BY <1>2 DEF StartCustomStep
  <2> HIDE DEF clock
  <2>2. AtRest(d) /\ Edited(col, d)
    BY <1>0, CustomIs
  <2> HIDE DEF d
  <2> QED BY <2>1, <2>2 DEF HistoryStep
<1>3. CASE MergeIntoCustomStep
  <2>1. PICK i \in MergeTargets(col.undo) : col' = [col EXCEPT !.undo = MergeUndoableOps(@, i)]
    BY <1>3 DEF MergeIntoCustomStep
  <2> DEFINE d == [col EXCEPT !.undo = MergeUndoableOps(@, i)]
  <2>2. AtRest(d) /\ Merged(col, d)
    BY <1>0, MergeIs
  <2>3. col' = d
    BY <2>1
  <2> HIDE DEF d
  <2> QED BY <2>2, <2>3 DEF HistoryStep
<1>4. CASE Sync
  <2> DEFINE ended == Discarded(col)
  <2>1. /\ col' = [ended EXCEPT !.clock = @ + 1] /\ FitCollection(ended)
        /\ PresentOf(ended) = PresentOf(col) /\ Dropped(ended.undo)
        /\ ended.undo.mode = col.undo.mode /\ ended.failed = col.failed
    BY <1>0, <1>4, DiscardedFits, DiscardedDrops DEF Sync
  <2> HIDE DEF ended
  <2>2. /\ col'.cards = ended.cards /\ col'.notes = ended.notes /\ col'.undo = ended.undo
        /\ col'.failed = ended.failed
    BY <2>1 DEF FitCollection, Fields
  <2>3. PresentOf(col') = PresentOf(ended)
    BY <2>2, PresentSame
  <2> QED BY <1>0, <2>1, <2>2, <2>3, StepsStay
<1>5. CASE OpenDeckList
  <2>1. col' = Unburied(col)
    BY <1>5 DEF OpenDeckList
  <2>2. /\ PresentOf(col') = PresentOf(col) /\ col'.undo = col.undo /\ col'.failed = col.failed
    BY <1>0, <2>1, UnburiedPresent
  <2> QED BY <1>0, <2>2, StepsStay
<1> QED BY <1>1, <1>2, <1>3, <1>4, <1>5

\* Every step of the model is a step of the history.
LEMMA NextIsStep ==
  ASSUME HistoryInv, [Next]_vars
  PROVE  HistoryStep(col, col')
<1>0. FitCollection(col) /\ AtRest(col)
  BY DEF HistoryInv, ScheduleInv
<1>1. CASE Tick \/ BackUp \/ UNCHANGED vars
  <2>1. col' = col
    BY <1>1 DEF Tick, BackUp, vars
  <2> QED BY <1>0, <2>1 DEF HistoryStep, Still
<1>2. CASE CardNext
  <2>1. Moves(col, col') \/ HistoryStep(col, col')
    BY <1>2, AnswersMove, CardsMove, DecksMove, FetchMoves DEF CardNext
  <2> QED BY <2>1 DEF Moves, HistoryStep
<1>3. CASE NoteNext
  BY <1>3, NotesMove
<1>4. CASE \/ \E quick \in BOOLEAN : Undo(quick) \/ Redo(quick)
           \/ StartCustomStep \/ MergeIntoCustomStep \/ Sync \/ OpenDeckList
  BY <1>4, StepsMove
<1> QED BY <1>1, <1>2, <1>3, <1>4 DEF Next

-----------------------------------------------------------------------------
(* The theorems.                                                             *)

\* Without steps there is no past, and without steps to redo no future.
LEMMA NoSteps ==
  /\ \A c : c.undo.undo = <<>> => PastOf(c) = <<>>
  /\ \A c : c.undo.redo = <<>> => FutureOf(c) = <<>>
<1> DEFINE none == <<>>
<1>1. none \in Seq({}) /\ Len(none) = 0
  OBVIOUS
<1>2. Reverse(none) = none
  <2> HIDE DEF none
  <2>1. Reverse(none) \in Seq({}) /\ Len(Reverse(none)) = 0
    BY <1>1, RedoOrder
  <2> DEFINE r == Reverse(none)
  <2> HIDE DEF r
  <2>2. r = <<>>
    BY <2>1, EmptySeq DEF r
  <2> QED BY <2>2 DEF r, none
<1>3. \A s : StatesBefore(s, none) = <<>>
  BY StatesNone
<1>4. \A c : c.undo.undo = none => PastOf(c) = <<>>
  <2> HIDE DEF none
  <2> QED BY <1>3 DEF PastOf
<1>5. \A c : c.undo.redo = none => FutureOf(c) = <<>>
  <2> HIDE DEF none
  <2> QED BY <1>2, <1>3 DEF FutureOf
<1> QED BY <1>4, <1>5

\* The moves of a collection are the actions of EditHistory on Present, Past and Future.
LEMMA EditOfHistory ==
  ASSUME Edited(col, col')
  PROVE  History!Edit
<1>1. Future' = <<>>
  BY NoSteps DEF Edited, Future, FutureOf, Present
<1>2. Present = PresentOf(col) /\ Past = PastOf(col) /\ Present' = PresentOf(col') /\ Past' = PastOf(col')
  BY DEF Present, Past, PastOf
<1>3. CASE Past' = AtLimit(<<Present>> \o Past)
  BY <1>1, <1>3 DEF AtLimit, History!Edit, History!Recorded, History!Capped
<1>4. CASE Rewrites(Present, Past, Present') /\ Past' = Past
  BY <1>1, <1>4 DEF Rewrites, History!Edit, History!Recorded, History!Continues
<1>5. CASE Present' = Present /\ Past' = Past
  BY <1>1, <1>5 DEF History!Edit
<1> QED BY <1>2, <1>3, <1>4, <1>5 DEF Edited, RecordedAs

\* Undoing goes back one state, and what was present can be redone.
LEMMA UndoOfHistory ==
  ASSUME Undone(col, col')
  PROVE  History!Undo
<1>1. /\ Present = PresentOf(col) /\ Past = PastOf(col) /\ Present' = PresentOf(col')
      /\ Past' = PastOf(col') /\ Future = FutureOf(col) /\ Future' = FutureOf(col')
  BY DEF Present, Past, PastOf, Future, FutureOf
<1> QED BY <1>1 DEF Undone, History!Undo

\* Redoing goes on one state, and what was present can be undone.
LEMMA RedoOfHistory ==
  ASSUME Redone(col, col')
  PROVE  History!Redo
<1>1. /\ Present = PresentOf(col) /\ Past = PastOf(col) /\ Present' = PresentOf(col')
      /\ Past' = PastOf(col') /\ Future = FutureOf(col) /\ Future' = FutureOf(col')
  BY DEF Present, Past, PastOf, Future, FutureOf
<1>2. Future # <<>> /\ Present' = Future[1] /\ Future' = Tail(Future)
  BY <1>1 DEF Redone
<1>3. CASE Past' = AtLimit(<<Present>> \o Past)
  BY <1>2, <1>3 DEF AtLimit, History!Redo, History!Recorded, History!Capped
<1>4. CASE Rewrites(Present, Past, Present') /\ Past' = Past
  BY <1>2, <1>4 DEF Rewrites, History!Redo, History!Recorded, History!Continues
<1> QED BY <1>1, <1>3, <1>4 DEF Redone, RecordedAs

\* Merging steps drops the newest of the past states, and nothing else.
LEMMA MergeOfHistory ==
  ASSUME FitCollection(col), Merged(col, col')
  PROVE  History!Merge \/ UNCHANGED History!historyVars
<1>1. /\ Present = PresentOf(col) /\ Past = PastOf(col) /\ Present' = PresentOf(col')
      /\ Past' = PastOf(col') /\ Future = FutureOf(col) /\ Future' = FutureOf(col')
  BY DEF Present, Past, PastOf, Future, FutureOf
<1>2. PICK S : col.undo.undo \in Seq(Steps(S))
  BY DEF FitCollection, FitManager, Managers
<1>3. PICK V : Past \in Seq(V)
  BY <1>1, <1>2, StatesSeq DEF PastOf
<1>4. PICK i \in 1..Len(Past) : Past' = SubSeq(Past, i, Len(Past))
  BY <1>1 DEF Merged
<1>5. Present' = Present /\ Future' = Future
  BY <1>1 DEF Merged
<1> DEFINE past == Past
<1>6. CASE i = 1
  <2>1. SubSeq(past, 1, Len(past)) = past
    <3>1. past \in Seq(V)
      BY <1>3
    <3> HIDE DEF past
    <3>2. Len(past) \in Nat /\ \A k \in 1..Len(past) : past[k] \in V
      BY <3>1, LenProperties
    <3> DEFINE all == SubSeq(past, 1, Len(past))
    <3>3. /\ all \in Seq(V) /\ Len(all) = IF 1 <= Len(past) THEN Len(past) - 1 + 1 ELSE 0
          /\ \A k \in 1..(Len(past) - 1 + 1) : all[k] = past[1 + k - 1]
      BY <3>2, SubSeqProperties
    <3> HIDE DEF all
    <3>4. Len(all) = Len(past) /\ \A k \in 1..Len(all) : all[k] = past[k]
      BY <3>2, <3>3
    <3>5. all = past
      BY <3>1, <3>3, <3>4, SeqEqual
    <3> QED BY <3>5 DEF all
  <2> QED BY <1>4, <1>5, <1>6, <2>1 DEF History!historyVars
<1>7. CASE i # 1
  <2>1. Len(Past) \in Nat
    BY <1>3, LenProperties
  <2>2. i - 1 \in 1..(Len(Past) - 1) /\ (i - 1) + 1 = i
    BY <1>7, <2>1
  <2> QED BY <1>4, <1>5, <2>2 DEF History!Merge
<1> QED BY <1>6, <1>7

\* Work beside the steps alters one part that no state of the history tells apart.
LEMMA AsideOfHistory ==
  ASSUME Altered(col, col')
  PROVE  History!Aside
<1>1. /\ Present = PresentOf(col) /\ Past = PastOf(col) /\ Present' = PresentOf(col')
      /\ Past' = PastOf(col') /\ Future = FutureOf(col) /\ Future' = FutureOf(col')
  BY DEF Present, Past, PastOf, Future, FutureOf
<1>2. PICK p \in Parts : \E v :
        /\ \A i \in DOMAIN Past : Past[i][p] = Present[p]
        /\ \A i \in DOMAIN Future : Future[i][p] = Present[p]
        /\ Present' = With(Present, p, v)
        /\ Past' = Moved(Past, p, v) /\ Future' = Moved(Future, p, v)
  BY <1>1 DEF Altered
<1>3. PICK v :
        /\ \A i \in DOMAIN Past : Past[i][p] = Present[p]
        /\ \A i \in DOMAIN Future : Future[i][p] = Present[p]
        /\ Present' = With(Present, p, v)
        /\ Past' = Moved(Past, p, v) /\ Future' = Moved(Future, p, v)
  BY <1>2
<1>4. Present'[p] = v
  <2>1. DOMAIN Present = Parts
    BY <1>1, PresentIs DEF IsState
  <2> QED BY <1>3, <2>1 DEF With
<1>5. /\ Present' = [Present EXCEPT ![p] = Present'[p]]
      /\ Past' = [i \in DOMAIN Past |-> [Past[i] EXCEPT ![p] = Present'[p]]]
      /\ Future' = [i \in DOMAIN Future |-> [Future[i] EXCEPT ![p] = Present'[p]]]
  BY <1>3, <1>4 DEF With, Moved
<1> QED BY <1>3, <1>5 DEF History!Aside

\* Forgetting drops all states but the present one.
LEMMA ForgetOfHistory ==
  ASSUME Forgotten(col, col')
  PROVE  History!Forget
<1>1. /\ Present = PresentOf(col) /\ Past = PastOf(col) /\ Present' = PresentOf(col')
      /\ Past' = PastOf(col') /\ Future = FutureOf(col) /\ Future' = FutureOf(col')
  BY DEF Present, Past, PastOf, Future, FutureOf
<1>2. Past' = <<>> /\ Future' = <<>>
  BY <1>1, NoSteps DEF Forgotten, Dropped
<1> QED BY <1>1, <1>2 DEF Forgotten, History!Forget

\* Together they are its next-state relation, or nothing it tells has changed.
LEMMA StepOfHistory ==
  ASSUME FitCollection(col), HistoryStep(col, col')
  PROVE  [History!HistoryNext]_(History!historyVars)
<1>1. CASE Still(col, col')
  BY <1>1 DEF Still, History!historyVars, Present, Past, Future, PastOf, FutureOf
<1> QED BY <1>1, EditOfHistory, UndoOfHistory, RedoOfHistory, MergeOfHistory, AsideOfHistory,
           ForgetOfHistory DEF HistoryStep, History!HistoryNext

\* A profile is opened between operations and with no steps.
LEMMA HistoryStarts ==
  ASSUME Init
  PROVE  HistoryInv /\ Past = <<>> /\ Future = <<>>
<1>1. ScheduleInv
  BY InitFits
<1>2. col.undo = NewManager /\ ~col.failed
  BY DEF Init, Opened
<1>3. AtRest(col)
  <2>1. Len(<<>>) = 0 /\ 1..0 = {} /\ 0 <= UndoLimit
    BY UndoAssumption
  <2> QED BY <1>2, <2>1 DEF AtRest, Rests, NewManager
<1>4. Past = <<>> /\ Future = <<>>
  BY <1>2, NoSteps DEF NewManager, Past, Future, PastOf, FutureOf, Present
<1> QED BY <1>1, <1>3, <1>4 DEF HistoryInv

\* In every reachable state the collection is between operations: no step is left open by any
\* path through transact_inner, the manager is back in its normal mode, there are no more
\* steps than the limit, and every step is worth undoing or redoing, the change of the note
\* first in an edit that is undone and last in one that is redone.
THEOREM HistoryInductive == Spec => []HistoryInv
<1>1. HistoryInv /\ [Next]_vars => HistoryInv'
  <2> SUFFICES ASSUME HistoryInv, [Next]_vars PROVE HistoryInv'
    OBVIOUS
  <2>1. ScheduleInv'
    BY NextFits DEF HistoryInv
  <2>2. AtRest(col')
    BY NextIsStep DEF HistoryStep
  <2> QED BY <2>1, <2>2 DEF HistoryInv
<1>2. Init => HistoryInv
  BY HistoryStarts
<1> QED BY <1>1, <1>2, PTL DEF Spec

\* The history with its undo manager implements EditHistory, whatever the limit on the steps
\* and however many cards, notes and steps there are: an undo brings back every card and every
\* note as it was before the last edit, a redo as it was before the undo, and only what a new
\* day, a sync or a failure drops is lost (undo_inner, redo, end_step and save of undo/mod.rs).
THEOREM IsHistoryHolds == Spec => IsHistory
<1>1. Init => Past = <<>> /\ Future = <<>>
  BY HistoryStarts
<1>2. HistoryInv /\ [Next]_vars => [History!HistoryNext]_(History!historyVars)
  <2> SUFFICES ASSUME HistoryInv, [Next]_vars PROVE [History!HistoryNext]_(History!historyVars)
    OBVIOUS
  <2>1. FitCollection(col) /\ HistoryStep(col, col')
    BY NextIsStep DEF HistoryInv, ScheduleInv
  <2> QED BY <2>1, StepOfHistory
<1> QED BY <1>1, <1>2, HistoryInductive, PTL DEF Spec, IsHistory, History!HistorySpec
=============================================================================
