-------------------------- MODULE GenerationProofs --------------------------
(***************************************************************************)
(* Proofs about GenerationService for every value of its constants: the    *)
(* type invariant, the ledger of attempts and the bound on a round, from   *)
(* one inductive invariant.  The lemmas come first: sums over finite sets, *)
(* and what one transaction may do to the row of a job and to its          *)
(* attempts.  The updates of the model keep the rows in their schema and   *)
(* the ledger of every job in order; the actions are made of them.         *)
(***************************************************************************)
EXTENDS GenerationService, FiniteSetTheorems, WellFoundedInduction, TLAPS

-----------------------------------------------------------------------------
(* Sums over a finite set.  The sum of natural numbers is the size of a set  *)
(* of units, and what holds of sizes holds of sums.                          *)

\* A term f[x] is counted as f[x] units, told apart by x.
Units(f, S) == UNION {{x} \X (1..f[x]) : x \in S}
Count(f, S) == Cardinality(Units(f, S))

\* An interval has as many elements as its end says.
LEMMA IntervalCount ==
  ASSUME NEW n \in Nat
  PROVE  IsFiniteSet(1..n) /\ Cardinality(1..n) = n
BY FS_Interval

LEMMA UnitsFinite ==
  ASSUME NEW S, NEW f \in [S -> Nat], NEW T \in SUBSET S, IsFiniteSet(T)
  PROVE  IsFiniteSet(Units(f, T)) /\ Count(f, T) \in Nat
<1> DEFINE Of(x) == {x} \X (1..f[x])
<1>1. ASSUME NEW x \in T PROVE IsFiniteSet(Of(x))
  <2>1. IsFiniteSet({x}) /\ IsFiniteSet(1..f[x])
    BY FS_Singleton, IntervalCount
  <2> QED BY <2>1, FS_Product
<1>2. IsFiniteSet({Of(x) : x \in T})
  <2> HIDE DEF Of
  <2>1. PICK n \in Nat : ExistsSurjection(1..n, T)
    BY FS_NatSurjection
  <2>2. PICK g \in Surjection(1..n, T) : TRUE
    BY <2>1 DEF ExistsSurjection
  <2> DEFINE h == [i \in 1..n |-> Of(g[i])]
  <2>3. h \in Surjection(1..n, {Of(x) : x \in T})
    BY <2>2 DEF Surjection
  <2> QED BY <2>3, FS_NatSurjection DEF ExistsSurjection
<1>3. IsFiniteSet(UNION {Of(x) : x \in T})
  BY <1>1, <1>2, FS_UNION
<1> QED BY <1>3, FS_CardinalityType DEF Units, Count

\* Counting one term apart.
LEMMA CountStep ==
  ASSUME NEW S, NEW f \in [S -> Nat], NEW T \in SUBSET S, IsFiniteSet(T), NEW x \in T
  PROVE  Count(f, T) = f[x] + Count(f, T \ {x})
<1> DEFINE Rest == Units(f, T \ {x})
           Own == {x} \X (1..f[x])
<1>1. IsFiniteSet(T \ {x}) /\ T \ {x} \in SUBSET S
  BY FS_RemoveElement
<1>2. IsFiniteSet(Rest) /\ Count(f, T \ {x}) \in Nat
  BY <1>1, UnitsFinite
<1>3. IsFiniteSet(Own) /\ Cardinality(Own) = f[x]
  <2>1. /\ IsFiniteSet({x}) /\ Cardinality({x}) = 1
        /\ IsFiniteSet(1..f[x]) /\ Cardinality(1..f[x]) = f[x]
    BY FS_Singleton, IntervalCount
  <2> DEFINE I == 1..f[x]
             X == {x}
  <2> HIDE DEF Own, I, X
  <2>2. Cardinality(X \X I) = Cardinality(X) * Cardinality(I) /\ IsFiniteSet(X \X I)
    BY <2>1, FS_Product, Zenon DEF I, X
  <2> QED BY <2>1, <2>2 DEF Own, I, X
<1>4. Units(f, T) = Own \cup Rest
  BY DEF Units
<1>5. Own \cap Rest = {}
  BY DEF Units
<1>6. Cardinality({}) = 0
  BY FS_EmptySet
<1> HIDE DEF Own, Rest
<1>7. Cardinality(Own \cup Rest) = Cardinality(Own) + Cardinality(Rest) - Cardinality(Own \cap Rest)
  BY <1>2, <1>3, FS_Union
<1>8. Count(f, T) = Cardinality(Own \cup Rest) /\ Count(f, T \ {x}) = Cardinality(Rest)
  BY <1>4 DEF Count, Rest
<1>9. Cardinality(Own \cup Rest) = f[x] + Cardinality(Rest) - 0
  BY <1>3, <1>5, <1>6, <1>7
<1>10. f[x] \in Nat /\ Cardinality(Rest) \in Nat
  BY <1>2, <1>8
<1> HIDE DEF Units
<1> QED BY <1>8, <1>9, <1>10

\* The equation of the fold.
IsSum(f, S, g) ==
  g = [T \in SUBSET S |-> IF T = {} THEN 0
                          ELSE f[CHOOSE x \in T : TRUE] + g[T \ {CHOOSE x \in T : TRUE}]]

LEMMA SumExpanded ==
  ASSUME NEW f, NEW S
  PROVE  SumFunctionOnSet(f, S) = (CHOOSE g : IsSum(f, S, g))[S]
BY DEF SumFunctionOnSet, FoldFunctionOnSet, MapThenFoldSet, IsSum

\* By a smallest subset of S on which the two would differ.
LEMMA SumIsCount ==
  ASSUME NEW S, IsFiniteSet(S), NEW f \in [S -> Nat]
  PROVE  SumFunctionOnSet(f, S) = Count(f, S)
<1> DEFINE c == [T \in SUBSET S |-> Count(f, T)]
           g == CHOOSE h : IsSum(f, S, h)
<1>0. Count(f, {}) = 0
  BY FS_EmptySet DEF Count, Units
<1>1. IsSum(f, S, c)
  <2> SUFFICES ASSUME NEW T \in SUBSET S, T # {}
               PROVE  c[T] = f[CHOOSE x \in T : TRUE] + c[T \ {CHOOSE x \in T : TRUE}]
    BY <1>0 DEF IsSum
  <2> DEFINE x == CHOOSE y \in T : TRUE
  <2>1. x \in T
    OBVIOUS
  <2>2. IsFiniteSet(T)
    BY FS_Subset
  <2> HIDE DEF x
  <2>3. Count(f, T) = f[x] + Count(f, T \ {x})
    BY <2>1, <2>2, CountStep
  <2>4. T \ {x} \in SUBSET S
    OBVIOUS
  <2> QED BY <2>3, <2>4 DEF x
<1>2. IsSum(f, S, g)
  BY <1>1
<1> HIDE DEF g, c
<1> DEFINE Bad == {T \in SUBSET S : g[T] # Count(f, T)}
<1>3. Bad = {}
  <2> SUFFICES ASSUME Bad # {} PROVE FALSE
    OBVIOUS
  <2> DEFINE R == StrictSubsetOrdering(S)
  <2>1. IsWellFoundedOn(R, SUBSET S)
    BY FS_StrictSubsetOrderingWellFounded, FS_FiniteSubsetsOfFinite
  <2>2. PICK T \in Bad : \A U \in Bad : <<U, T>> \notin R
    BY <2>1, WFMin
  <2>3. T # {}
    BY <1>0, <1>2, <2>2 DEF IsSum
  <2> DEFINE x == CHOOSE y \in T : TRUE
  <2>4. x \in T /\ T \in SUBSET S
    BY <2>3
  <2>5. g[T] = f[x] + g[T \ {x}]
    BY <1>2, <2>3, <2>4 DEF IsSum
  <2> HIDE DEF x
  <2>6. T \ {x} \notin Bad
    <3>1. /\ T \ {x} \in SUBSET S /\ T \ {x} \subseteq T /\ T \ {x} # T
      BY <2>4
    <3>2. <<T \ {x}, T>> \in R
      BY <2>4, <3>1, Zenon DEF StrictSubsetOrdering
    <3> QED BY <2>2, <3>2
  <2>7. Count(f, T) = f[x] + Count(f, T \ {x})
    BY <2>4, CountStep, FS_Subset
  <2> QED BY <2>2, <2>4, <2>5, <2>6, <2>7
<1> QED BY <1>3, SumExpanded DEF g
\* A sum is a number and grows with its terms.
LEMMA SumType ==
  ASSUME NEW S, IsFiniteSet(S), NEW f \in [S -> Nat]
  PROVE  SumFunctionOnSet(f, S) \in Nat
BY SumIsCount, UnitsFinite

LEMMA SumAtMost ==
  ASSUME NEW S, IsFiniteSet(S), NEW f \in [S -> Nat], NEW g \in [S -> Nat],
         \A x \in S : f[x] <= g[x]
  PROVE  SumFunctionOnSet(f, S) <= SumFunctionOnSet(g, S)
<1>1. IsFiniteSet(Units(g, S))
  BY UnitsFinite
<1>2. Units(f, S) \subseteq Units(g, S)
  <2>1. ASSUME NEW x \in S PROVE 1..f[x] \subseteq 1..g[x]
    <3>1. f[x] \in Nat /\ g[x] \in Nat /\ f[x] <= g[x]
      OBVIOUS
    <3> QED BY <3>1
  <2>2. ASSUME NEW u \in Units(f, S) PROVE u \in Units(g, S)
    <3>1. PICK x \in S : u \in {x} \X (1..f[x])
      BY <2>2, Zenon DEF Units
    <3>2. u \in {x} \X (1..g[x])
      BY <2>1, <3>1
    <3> QED BY <3>2, Zenon DEF Units
  <2> QED BY <2>2
<1>3. Cardinality(Units(f, S)) <= Cardinality(Units(g, S))
  BY <1>1, <1>2, FS_Subset
<1> QED BY <1>3, SumIsCount DEF Count

\* Two sums that differ in one term.
LEMMA SumChange ==
  ASSUME NEW S, IsFiniteSet(S), NEW f \in [S -> Nat], NEW g \in [S -> Nat], NEW x \in S,
         \A y \in S \ {x} : f[y] = g[y]
  PROVE  SumFunctionOnSet(g, S) = SumFunctionOnSet(f, S) - f[x] + g[x]
<1>1. Units(f, S \ {x}) = Units(g, S \ {x})
  BY Zenon DEF Units
<1>2. Count(f, S \ {x}) = Count(g, S \ {x}) /\ Count(f, S \ {x}) \in Nat
  <2>1. IsFiniteSet(S \ {x})
    BY FS_RemoveElement
  <2> QED BY <1>1, <2>1, UnitsFinite DEF Count
<1>3. Count(f, S) = f[x] + Count(f, S \ {x}) /\ Count(g, S) = g[x] + Count(g, S \ {x})
  BY CountStep
<1>4. f[x] \in Nat /\ g[x] \in Nat
  OBVIOUS
<1> QED BY <1>2, <1>3, <1>4, SumIsCount

LEMMA SumOfZeros ==
  ASSUME NEW S, IsFiniteSet(S), NEW f \in [S -> Nat], \A x \in S : f[x] = 0
  PROVE  SumFunctionOnSet(f, S) = 0
<1>1. Units(f, S) = {}
  <2>1. ASSUME NEW x \in S PROVE 1..f[x] = {}
    OBVIOUS
  <2> DEFINE Own(x) == {x} \X (1..f[x])
  <2>2. ASSUME NEW x \in S PROVE Own(x) = {}
    BY <2>1
  <2>3. Units(f, S) = UNION {Own(x) : x \in S}
    BY Zenon DEF Units
  <2> HIDE DEF Own
  <2> QED BY <2>2, <2>3
<1> QED BY <1>1, SumIsCount, FS_EmptySet DEF Count

-----------------------------------------------------------------------------
(* The ledger.                                                               *)

OpenStages == {"reserved", "calling"}
ClosedStages == {"settled", "abandoned"}
History == [AttemptIds -> AttemptRow]

\* The ledger of one job: a round has made at most MaxAttempts attempts, an
\* attempt's charge is unknown exactly while the attempt is open, only the
\* latest attempt is open and only while the job is in an open state, and
\* attempts not yet made have no row.
LedgerOf(r, h) ==
  /\ r.state = "absent" => r.attempts = 0 /\ r.start = 0
  /\ r.attempts - r.start \in 0..MaxAttempts
  /\ r.state \in OpenStates => r.attempts \in AttemptIds
  /\ \A n \in AttemptIds :
       /\ Unsettled(h[n]) <=> h[n].stage \in OpenStages
       /\ Unsettled(h[n]) <=> r.state \in OpenStates /\ n = r.attempts
       /\ n > r.attempts => h[n].stage = "none"

GenOK(jb, at) ==
  /\ jb \in [Jobs -> JobRow]
  /\ at \in [Jobs -> History]
  /\ \A j \in Jobs : LedgerOf(jb[j], at[j])

\* The rows of closed attempts are the same in both histories.
Kept(h, h2) == \A n \in AttemptIds : h[n].stage \in ClosedStages => h2[n] = h[n]

LEMMA Bounds ==
  /\ LastAttempt \in Nat /\ MaxAttempts \in Nat /\ MaxAttempts >= 1
  /\ LastAttempt - MaxAttempts \in Nat
  /\ 0 \in 0..LastAttempt /\ 0 \in 0..(LastAttempt - MaxAttempts)
  /\ AttemptIds \subseteq 0..LastAttempt /\ 0 \in Nat
BY BoundsAssumption DEF AttemptIds

-----------------------------------------------------------------------------
(* Updates of one attempt row.                                               *)

LEMMA AbandonedRow ==
  ASSUME NEW a \in AttemptRow
  PROVE  Abandoned(a) \in AttemptRow /\ ~Unsettled(Abandoned(a)) /\ Abandoned(a).stage = "abandoned"
<1>1. Abandoned(a) \in AttemptRow
  <2>1. 0 \in Nat \cup {Unknown} OBVIOUS
  <2> QED BY <2>1, Zenon DEF Abandoned, AttemptRow
<1>2. QED BY <1>1, SMT DEF Unsettled, Abandoned, Unknown, AttemptRow

LEMMA SettledRow ==
  ASSUME NEW a \in AttemptRow, NEW charge \in Nat
  PROVE  /\ Settled(a, charge) \in AttemptRow
         /\ ~Unsettled(Settled(a, charge)) /\ Settled(a, charge).stage = "settled"
<1>1. Settled(a, charge) \in AttemptRow
  BY Zenon DEF Settled, AttemptRow
<1>2. QED BY <1>1, SMT DEF Unsettled, Settled, Unknown, AttemptRow

LEMMA PolledRow ==
  ASSUME NEW a \in AttemptRow, NEW unread \in BOOLEAN
  PROVE  /\ Polled(a, unread) \in AttemptRow /\ Polled(a, unread).stage = a.stage
         /\ Unsettled(Polled(a, unread)) <=> Unsettled(a)
<1>1. (IF unread THEN a.polls + 1 ELSE 0) \in Nat
  BY SMT DEF AttemptRow
<1>2. Polled(a, unread) \in AttemptRow
  BY <1>1, Zenon DEF Polled, AttemptRow
<1>3. QED BY <1>2, SMT DEF Unsettled, Polled, AttemptRow

LEMMA NewReservation ==
  ASSUME NEW at, NEW provider \in Providers, month \in Nat, creditLive \in BOOLEAN
  PROVE  /\ Reservation(at, provider) \in AttemptRow
         /\ Unsettled(Reservation(at, provider)) /\ Reservation(at, provider).stage = "reserved"
<1>1. Estimate[provider] \in Nat
  BY ProviderAssumption
<1>2. CreditFor(at, provider) \in Nat
  BY <1>1, SMT DEF CreditFor, Least
<1>3. NoAttempt \in AttemptRow
  BY SMT DEF NoAttempt, AttemptRow
<1>4. Unknown \in Nat \cup {Unknown}
  OBVIOUS
<1>5. Reservation(at, provider) \in AttemptRow
  BY <1>1, <1>2, <1>3, <1>4, Zenon DEF Reservation, AttemptRow
<1>6. QED BY <1>5, <1>3, SMT DEF Reservation, Unsettled, NoAttempt, AttemptRow

LEMMA CalledRow ==
  ASSUME NEW a \in AttemptRow, NEW r \in JobRow, month \in Nat
  PROVE  /\ Called(a, r) \in AttemptRow
         /\ Called(a, r).stage = "calling" /\ (Unsettled(Called(a, r)) <=> Unsettled(a))
<1>1. CreditNow(r, a) \in Nat
  BY SMT DEF CreditNow, AttemptRow
<1>2. Called(a, r) \in AttemptRow
  BY <1>1, Zenon DEF Called, AttemptRow
<1>3. QED BY <1>2, SMT DEF Called, Unsettled, AttemptRow

-----------------------------------------------------------------------------
(* Updates of one job row.  The ledger of a job depends on the state, the    *)
(* number of attempts and the start of the round.                            *)

SameRound(r, r2) == r2.attempts = r.attempts /\ r2.start = r.start

LEMMA UnleasedRow ==
  ASSUME NEW r \in JobRow, NEW state \in JobStates
  PROVE  Unleased(r, state) \in JobRow /\ Unleased(r, state).state = state
         /\ SameRound(r, Unleased(r, state))
<1>1. Unleased(r, state) \in JobRow
  BY Zenon DEF Unleased, JobRow
<1>2. QED BY <1>1, SMT DEF Unleased, SameRound, JobRow

LEMMA LeasedRow ==
  ASSUME NEW r \in JobRow, NEW a \in Actors
  PROVE  Leased(r, a) \in JobRow /\ Leased(r, a).state = "running" /\ SameRound(r, Leased(r, a))
<1>1. "running" \in JobStates
  BY Zenon DEF JobStates
<1>2. Leased(r, a) \in JobRow
  BY <1>1, Zenon DEF Leased, JobRow
<1>3. QED BY <1>2, SMT DEF Leased, SameRound, JobRow

\* A job that stops running, with its delay and error.
LEMMA StoppedRow ==
  ASSUME NEW r \in JobRow, NEW state \in JobStates, NEW due \in BOOLEAN, NEW error \in Errors
  PROVE  LET r2 == [Unleased(r, state) EXCEPT !.due = due, !.error = error]
         IN  r2 \in JobRow /\ r2.state = state /\ SameRound(r, r2)
<1> DEFINE r1 == Unleased(r, state)
           r2 == [r1 EXCEPT !.due = due, !.error = error]
<1>1. r1 \in JobRow /\ r1.state = state /\ SameRound(r, r1)
  BY UnleasedRow
<1> HIDE DEF r1
<1>2. r2 \in JobRow
  BY <1>1, Zenon DEF JobRow
<1>3. r2.state = state /\ SameRound(r, r2)
  BY <1>1, SMT DEF JobRow, SameRound
<1> QED BY <1>2, <1>3 DEF r1

-----------------------------------------------------------------------------
(* Four ways to change one job keep its ledger in order.                     *)

\* A row alone changes, and the state stays open or stays closed.
LEMMA KeepLedger ==
  ASSUME NEW r \in JobRow, NEW h \in History, LedgerOf(r, h),
         NEW r2 \in JobRow, SameRound(r, r2),
         r2.state \in OpenStates <=> r.state \in OpenStates,
         r2.state = "absent" => r.state = "absent"
  PROVE  LedgerOf(r2, h) /\ Kept(h, h)
BY SMT DEF LedgerOf, Kept, SameRound

\* The open attempt is closed with the state.
LEMMA CloseLedger ==
  ASSUME NEW r \in JobRow, NEW h \in History, LedgerOf(r, h), r.state \in OpenStates,
         NEW r2 \in JobRow, SameRound(r, r2),
         r2.state \notin OpenStates, r2.state # "absent",
         NEW a \in AttemptRow, ~Unsettled(a), a.stage \in ClosedStages
  PROVE  LET h2 == [h EXCEPT ![r.attempts] = a]
         IN  h2 \in History /\ LedgerOf(r2, h2) /\ Kept(h, h2)
<1> DEFINE n == r.attempts
           h2 == [h EXCEPT ![r.attempts] = a]
<1>1. n \in AttemptIds /\ Unsettled(h[n]) /\ h[n].stage \notin ClosedStages
  BY SMT DEF LedgerOf, OpenStages, ClosedStages
<1>2. h2 \in History /\ h2[n] = a /\ \A m \in AttemptIds \ {n} : h2[m] = h[m]
  BY <1>1, Zenon DEF History
<1>3. Kept(h, h2)
  BY <1>1, <1>2, SMT DEF Kept
<1>4. r2.attempts - r2.start \in 0..MaxAttempts /\ r2.attempts = n
  BY SMT DEF LedgerOf, SameRound
<1>5. ASSUME NEW m \in AttemptIds
      PROVE  /\ Unsettled(h2[m]) <=> h2[m].stage \in OpenStages
             /\ ~Unsettled(h2[m])
             /\ m > n => h2[m].stage = "none"
  <2>1. CASE m = n
    BY <2>1, <1>2, <1>1, SMT DEF OpenStages, ClosedStages, AttemptIds
  <2>2. CASE m # n
    BY <2>2, <1>2, <1>1, SMT DEF LedgerOf
  <2> QED BY <2>1, <2>2
<1> HIDE DEF h2
<1>6. LedgerOf(r2, h2)
  BY <1>4, <1>5, SMT DEF LedgerOf
<1> QED BY <1>2, <1>3, <1>6 DEF h2

\* The open attempt is rewritten and stays open, whatever open state the job takes.
LEMMA TouchLedger ==
  ASSUME NEW r \in JobRow, NEW h \in History, LedgerOf(r, h), r.state \in OpenStates,
         NEW r2 \in JobRow, SameRound(r, r2), r2.state \in OpenStates,
         NEW a \in AttemptRow, Unsettled(a), a.stage \in OpenStages
  PROVE  LET h2 == [h EXCEPT ![r.attempts] = a]
         IN  h2 \in History /\ LedgerOf(r2, h2) /\ Kept(h, h2)
<1> DEFINE n == r.attempts
           h2 == [h EXCEPT ![r.attempts] = a]
<1>1. n \in AttemptIds /\ Unsettled(h[n]) /\ h[n].stage \notin ClosedStages
  BY SMT DEF LedgerOf, OpenStages, ClosedStages
<1>2. h2 \in History /\ h2[n] = a /\ \A m \in AttemptIds \ {n} : h2[m] = h[m]
  BY <1>1, Zenon DEF History
<1>3. Kept(h, h2)
  BY <1>1, <1>2, SMT DEF Kept
<1>4. r2.attempts - r2.start \in 0..MaxAttempts /\ r2.attempts = n
  BY SMT DEF LedgerOf, SameRound
<1>5. ASSUME NEW m \in AttemptIds
      PROVE  /\ Unsettled(h2[m]) <=> h2[m].stage \in OpenStages
             /\ Unsettled(h2[m]) <=> m = n
             /\ m > n => h2[m].stage = "none"
  <2>1. CASE m = n
    BY <2>1, <1>2, <1>1, SMT DEF AttemptIds
  <2>2. CASE m # n
    BY <2>2, <1>2, <1>1, SMT DEF LedgerOf
  <2> QED BY <2>1, <2>2
<1> HIDE DEF h2
<1>6. LedgerOf(r2, h2)
  BY <1>1, <1>4, <1>5, SMT DEF LedgerOf, OpenStates
<1> QED BY <1>2, <1>3, <1>6 DEF h2

\* A new attempt is opened for a job without an open one.
LEMMA OpenLedger ==
  ASSUME NEW r \in JobRow, NEW h \in History, LedgerOf(r, h), r.state \notin OpenStates,
         r.attempts - r.start < MaxAttempts,
         NEW r2 \in JobRow, r2.attempts = r.attempts + 1, r2.start = r.start,
         r2.state \in OpenStates,
         NEW a \in AttemptRow, Unsettled(a), a.stage \in OpenStages
  PROVE  LET h2 == [h EXCEPT ![r.attempts + 1] = a]
         IN  h2 \in History /\ LedgerOf(r2, h2) /\ Kept(h, h2)
<1> DEFINE n == r.attempts + 1
           h2 == [h EXCEPT ![r.attempts + 1] = a]
<1>1. n \in AttemptIds /\ h[n].stage = "none"
  <2>1. r2.attempts \in 0..LastAttempt /\ r.attempts \in 0..LastAttempt
    BY SMT DEF JobRow
  <2>2. n \in AttemptIds /\ n > r.attempts
    BY <2>1, Bounds, SMT DEF AttemptIds
  <2> QED BY <2>2, SMT DEF LedgerOf
<1>2. h2 \in History /\ h2[n] = a /\ \A m \in AttemptIds \ {n} : h2[m] = h[m]
  BY <1>1, Zenon DEF History
<1>3. Kept(h, h2)
  BY <1>1, <1>2, SMT DEF Kept, ClosedStages
<1>4. r2.attempts - r2.start \in 0..MaxAttempts /\ r2.attempts = n
  <2>1. r.attempts \in Nat /\ r.start \in Int /\ r.attempts - r.start \in 0..MaxAttempts
    BY Bounds, SMT DEF LedgerOf, JobRow
  <2> QED BY <2>1, Bounds, SMT
<1>5. ASSUME NEW m \in AttemptIds
      PROVE  /\ Unsettled(h2[m]) <=> h2[m].stage \in OpenStages
             /\ Unsettled(h2[m]) <=> m = n
             /\ m > n => h2[m].stage = "none"
  <2>1. CASE m = n
    BY <2>1, <1>2, <1>1, SMT DEF AttemptIds
  <2>2. CASE m # n
    <3>1. m > n => m > r.attempts
      BY SMT DEF AttemptIds, JobRow
    <3> QED BY <3>1, <2>2, <1>2, <1>1, SMT DEF LedgerOf
  <2> QED BY <2>1, <2>2
<1> HIDE DEF h2
<1>6. LedgerOf(r2, h2)
  BY <1>1, <1>4, <1>5, SMT DEF LedgerOf, OpenStates
<1> QED BY <1>2, <1>3, <1>6 DEF h2

-----------------------------------------------------------------------------
(* The same for the tables of all jobs.                                      *)

GenStep(at, jb2, at2) ==
  GenOK(jb2, at2) /\ \A j \in Jobs : Kept(at[j], at2[j])

LEMMA NothingChanges ==
  ASSUME NEW jb, NEW at, GenOK(jb, at)
  PROVE  GenStep(at, jb, at)
BY SMT DEF GenStep, Kept

LEMMA TwoSteps ==
  ASSUME NEW at1, NEW jb2, NEW at2, NEW jb3, NEW at3,
         GenStep(at1, jb2, at2), GenStep(at2, jb3, at3)
  PROVE  GenStep(at1, jb3, at3)
<1>1. ASSUME NEW j \in Jobs
      PROVE  Kept(at1[j], at3[j])
  <2>1. Kept(at1[j], at2[j]) /\ Kept(at2[j], at3[j])
    BY Zenon DEF GenStep
  <2>2. ASSUME NEW n \in AttemptIds, at1[j][n].stage \in ClosedStages
        PROVE  at3[j][n] = at1[j][n]
    <3>1. at2[j][n] = at1[j][n]
      BY <2>1, <2>2, Zenon DEF Kept
    <3>2. at2[j][n].stage \in ClosedStages
      BY <3>1, <2>2
    <3> QED BY <2>1, <3>1, <3>2, Zenon DEF Kept
  <2> QED BY <2>2, Zenon DEF Kept
<1> QED BY <1>1, Zenon DEF GenStep

LEMMA OneJobChanges ==
  ASSUME NEW jb, NEW at, GenOK(jb, at), NEW j \in Jobs,
         NEW r \in JobRow, NEW h \in History, LedgerOf(r, h), Kept(at[j], h)
  PROVE  GenStep(at, [jb EXCEPT ![j] = r], [at EXCEPT ![j] = h])
<1> DEFINE jb2 == [jb EXCEPT ![j] = r]
           at2 == [at EXCEPT ![j] = h]
<1>1. jb2 \in [Jobs -> JobRow] /\ at2 \in [Jobs -> History]
  BY Zenon DEF GenOK
<1>2. ASSUME NEW k \in Jobs
      PROVE  LedgerOf(jb2[k], at2[k]) /\ Kept(at[k], at2[k])
  <2>1. CASE k = j
    <3>1. jb2[k] = r /\ at2[k] = h
      BY <2>1, Zenon DEF GenOK
    <3> QED BY <3>1, <2>1, Zenon
  <2>2. CASE k # j
    <3>1. jb2[k] = jb[k] /\ at2[k] = at[k]
      BY <2>2, Zenon DEF GenOK
    <3> QED BY <3>1, Zenon DEF GenOK, Kept
  <2> QED BY <2>1, <2>2
<1> QED BY <1>1, <1>2, Zenon DEF GenStep, GenOK

LEMMA RowChanges ==
  ASSUME NEW jb, NEW at, GenOK(jb, at), NEW j \in Jobs,
         NEW r \in JobRow, SameRound(jb[j], r),
         r.state \in OpenStates <=> jb[j].state \in OpenStates,
         r.state = "absent" => jb[j].state = "absent"
  PROVE  GenStep(at, [jb EXCEPT ![j] = r], at)
<1>1. jb[j] \in JobRow /\ at[j] \in History /\ LedgerOf(jb[j], at[j])
  BY Zenon DEF GenOK
<1>2. LedgerOf(r, at[j]) /\ Kept(at[j], at[j])
  BY <1>1, KeepLedger
<1>3. [at EXCEPT ![j] = at[j]] = at
  BY Zenon DEF GenOK
<1>4. GenStep(at, [jb EXCEPT ![j] = r], [at EXCEPT ![j] = at[j]])
  BY <1>1, <1>2, OneJobChanges
<1> QED BY <1>3, <1>4

\* Many rows change, as RowChanges allows each of them.
LEMMA RowsChange ==
  ASSUME NEW jb, NEW at, GenOK(jb, at), NEW jb2 \in [Jobs -> JobRow],
         \A j \in Jobs : /\ SameRound(jb[j], jb2[j])
                         /\ jb2[j].state \in OpenStates <=> jb[j].state \in OpenStates
                         /\ jb2[j].state = "absent" => jb[j].state = "absent"
  PROVE  GenStep(at, jb2, at)
<1>1. ASSUME NEW j \in Jobs
      PROVE  LedgerOf(jb2[j], at[j]) /\ Kept(at[j], at[j])
  <2>1. jb[j] \in JobRow /\ at[j] \in History /\ LedgerOf(jb[j], at[j]) /\ jb2[j] \in JobRow
    BY Zenon DEF GenOK
  <2> QED BY <2>1, KeepLedger
<1> QED BY <1>1, Zenon DEF GenStep, GenOK

LEMMA AttemptCloses ==
  ASSUME NEW jb, NEW at, GenOK(jb, at), NEW j \in Jobs, jb[j].state \in OpenStates,
         NEW r \in JobRow, SameRound(jb[j], r),
         r.state \notin OpenStates, r.state # "absent",
         NEW a \in AttemptRow, ~Unsettled(a), a.stage \in ClosedStages
  PROVE  GenStep(at, [jb EXCEPT ![j] = r], [at EXCEPT ![j][jb[j].attempts] = a])
<1> DEFINE h == [at[j] EXCEPT ![jb[j].attempts] = a]
<1>1. jb[j] \in JobRow /\ at[j] \in History /\ LedgerOf(jb[j], at[j])
  BY Zenon DEF GenOK
<1>2. h \in History /\ LedgerOf(r, h) /\ Kept(at[j], h)
  BY <1>1, CloseLedger
<1>3. [at EXCEPT ![j][jb[j].attempts] = a] = [at EXCEPT ![j] = h]
  OBVIOUS
<1> QED BY <1>2, <1>3, OneJobChanges

LEMMA AttemptStaysOpen ==
  ASSUME NEW jb, NEW at, GenOK(jb, at), NEW j \in Jobs, jb[j].state \in OpenStates,
         NEW r \in JobRow, SameRound(jb[j], r), r.state \in OpenStates,
         NEW a \in AttemptRow, Unsettled(a), a.stage \in OpenStages
  PROVE  GenStep(at, [jb EXCEPT ![j] = r], [at EXCEPT ![j][jb[j].attempts] = a])
<1> DEFINE h == [at[j] EXCEPT ![jb[j].attempts] = a]
<1>1. jb[j] \in JobRow /\ at[j] \in History /\ LedgerOf(jb[j], at[j])
  BY Zenon DEF GenOK
<1>2. h \in History /\ LedgerOf(r, h) /\ Kept(at[j], h)
  BY <1>1, TouchLedger
<1>3. [at EXCEPT ![j][jb[j].attempts] = a] = [at EXCEPT ![j] = h]
  OBVIOUS
<1> QED BY <1>2, <1>3, OneJobChanges

LEMMA AttemptOpens ==
  ASSUME NEW jb, NEW at, GenOK(jb, at), NEW j \in Jobs, jb[j].state \notin OpenStates,
         jb[j].attempts - jb[j].start < MaxAttempts,
         NEW r \in JobRow, r.attempts = jb[j].attempts + 1, r.start = jb[j].start,
         r.state \in OpenStates,
         NEW a \in AttemptRow, Unsettled(a), a.stage \in OpenStages
  PROVE  GenStep(at, [jb EXCEPT ![j] = r], [at EXCEPT ![j][jb[j].attempts + 1] = a])
<1> DEFINE h == [at[j] EXCEPT ![jb[j].attempts + 1] = a]
<1>1. jb[j] \in JobRow /\ at[j] \in History /\ LedgerOf(jb[j], at[j])
  BY Zenon DEF GenOK
<1>2. h \in History /\ LedgerOf(r, h) /\ Kept(at[j], h)
  BY <1>1, OpenLedger
<1>3. [at EXCEPT ![j][jb[j].attempts + 1] = a] = [at EXCEPT ![j] = h]
  OBVIOUS
<1> QED BY <1>2, <1>3, OneJobChanges

\* The latest attempt of an open job is open, and typed.
LEMMA LatestOpen ==
  ASSUME NEW jb, NEW at, GenOK(jb, at), NEW j \in Jobs, jb[j].state \in OpenStates
  PROVE  /\ jb[j].attempts \in AttemptIds /\ Latest(at, jb, j) \in AttemptRow
         /\ Unsettled(Latest(at, jb, j)) /\ Latest(at, jb, j).stage \in OpenStages
<1>1. jb[j] \in JobRow /\ at[j] \in History /\ LedgerOf(jb[j], at[j])
  BY Zenon DEF GenOK
<1>2. jb[j].attempts \in AttemptIds
  BY <1>1, Zenon DEF LedgerOf
<1> QED BY <1>1, <1>2, SMT DEF Latest, LedgerOf, History

-----------------------------------------------------------------------------
(* The inductive invariant.                                                  *)

\* A draft is for the revision after the published one, so a revision that is
\* published from it is within the bound.
SkillsOK ==
  /\ revisions \in [Skills -> Seq(Jobs \cup {Imported})]
  /\ bank \in [Skills -> Seq([job : Jobs, rev : Nat])]
  /\ draft \in [Skills -> [rev : 1..MaxRevision, content : Contents] \cup {None}]
  /\ \A s \in Skills : Rev(s) <= MaxRevision
  /\ \A s \in Skills : draft[s] # None => draft[s].rev = Rev(s) + 1

SettingsOK ==
  /\ retired \subseteq Skills
  /\ limit \in Limits /\ storeLimit \in StoreLimits
  /\ creditLive \in BOOLEAN /\ month \in 1..(MaxMonth + 1) /\ sourceRetired \in BOOLEAN

JobLess == {"idle", "resuming", "claiming"}

\* A process past its claim works on a job, one that polls has an attempt to ask
\* for, and an operator read an open job.
ActorsOK ==
  /\ actor \in [Actors -> ActorRow]
  /\ \A a \in Actors :
       /\ actor[a].pc \notin JobLess => actor[a].job \in Jobs
       /\ actor[a].pc = "retrieving" => actor[a].attempt \in AttemptIds
       /\ actor[a].pc = "reconciling" => actor[a].seen \in OpenStates

RemoteOK ==
  /\ remote \in [Jobs -> [AttemptIds -> RemoteRow]]
  /\ faults \in 0..MaxFaults

ProcessesOK == ActorsOK /\ RemoteOK

IInv == GenOK(job, att) /\ SkillsOK /\ SettingsOK /\ ProcessesOK

LEMMA RowTypes ==
  ASSUME GenOK(job, att), NEW j \in Jobs
  PROVE  job[j] \in JobRow /\ att[j] \in History /\ LedgerOf(job[j], att[j])
BY Zenon DEF GenOK

-----------------------------------------------------------------------------
(* What the requests do to the generation tables.                            *)

LEMMA NewRowType ==
  ASSUME NEW kind \in Kinds, NEW s \in Skills, NEW rev \in 0..MaxRevision,
         NEW content \in Contents \cup {None}, NEW seq \in Nat, NEW provider \in Providers
  PROVE  LET r == NewRow(kind, s, rev, content, seq, provider)
         IN  r \in JobRow /\ r.state = "queued" /\ r.attempts = 0 /\ r.start = 0
<1> DEFINE r == NewRow(kind, s, rev, content, seq, provider)
<1>1. "queued" \in JobStates /\ "none" \in Errors /\ "none" \in Results
  BY Zenon DEF JobStates, IdleStates, Errors, Results
<1>2. r \in JobRow
  BY <1>1, Bounds, SMT DEF NewRow, JobRow
<1>3. r.state = "queued" /\ r.attempts = 0 /\ r.start = 0
  BY SMT DEF NewRow
<1> QED BY <1>2, <1>3

\* Inserting a row.
LEMMA JobInserted ==
  ASSUME GenOK(job, att), NEW j \in Jobs, Absent(j),
         NEW r \in JobRow, r.state = "queued", r.attempts = 0, r.start = 0
  PROVE  GenStep(att, [job EXCEPT ![j] = r], att)
<1>1. SameRound(job[j], r) /\ job[j].state = "absent"
  BY RowTypes, SMT DEF SameRound, Absent, LedgerOf
<1>2. r.state \in OpenStates <=> job[j].state \in OpenStates
  BY <1>1, SMT DEF OpenStates
<1> QED BY <1>1, <1>2, RowChanges

LEMMA RevTypes ==
  ASSUME SkillsOK, NEW s \in Skills
  PROVE  Rev(s) \in 0..MaxRevision /\ Len(bank[s]) \in Nat
<1>1. revisions[s] \in Seq(Jobs \cup {Imported}) /\ bank[s] \in Seq([job : Jobs, rev : Nat])
      /\ Rev(s) <= MaxRevision
  BY Zenon DEF SkillsOK
<1> QED BY <1>1, BoundsAssumption, SMT DEF Rev

LEMMA EnqueueGen ==
  ASSUME IInv, NEW j \in Jobs, NEW s \in Skills, NEW provider \in Providers,
         Enqueue(j, s, provider)
  PROVE  GenStep(att, job', att')
<1> DEFINE r == NewRow("manual", s, Rev(s), None, 0, provider)
<1>1. job' = [job EXCEPT ![j] = r] /\ att' = att /\ Absent(j) /\ GenOK(job, att)
  BY Zenon DEF Enqueue, IInv
<1>2. "manual" \in Kinds /\ None \in Contents \cup {None} /\ 0 \in Nat /\ Rev(s) \in 0..MaxRevision
  BY RevTypes DEF IInv, Kinds
<1>3. r \in JobRow /\ r.state = "queued" /\ r.attempts = 0 /\ r.start = 0
  BY <1>2, NewRowType, Zenon
<1> HIDE DEF r
<1> QED BY <1>1, <1>3, JobInserted

LEMMA SaveDraftGen ==
  ASSUME IInv, NEW j \in Jobs, NEW s \in Skills, NEW c \in Contents, NEW provider \in Providers,
         SaveDraft(j, s, c, provider)
  PROVE  GenStep(att, job', att')
<1> DEFINE r == NewRow("draft", s, Rev(s) + 1, c, 0, provider)
<1>1. job' = [job EXCEPT ![j] = r] /\ att' = att /\ Absent(j) /\ GenOK(job, att)
  BY Zenon DEF SaveDraft, IInv
<1>2. "draft" \in Kinds /\ c \in Contents \cup {None} /\ 0 \in Nat /\ Rev(s) + 1 \in 0..MaxRevision
  BY RevTypes, BoundsAssumption DEF IInv, Kinds, SaveDraft, RevisionOpen
<1>3. r \in JobRow /\ r.state = "queued" /\ r.attempts = 0 /\ r.start = 0
  BY <1>2, NewRowType, Zenon
<1> HIDE DEF r
<1> QED BY <1>1, <1>3, JobInserted

LEMMA DiscardGen ==
  ASSUME IInv, NEW j \in Jobs, DiscardSkillRequest(j)
  PROVE  GenStep(att, job', att')
<1> DEFINE r == [job[j] EXCEPT !.state = "obsolete", !.error = "discarded"]
<1>1. GenOK(job, att) /\ job[j] \in JobRow /\ att' = att
  BY RowTypes, Zenon DEF IInv, DiscardSkillRequest
<1>2. CASE job' = job
  BY <1>1, <1>2, NothingChanges
<1>3. CASE job[j].state \in IdleStates /\ job' = [job EXCEPT ![j] = r]
  <2>1. "obsolete" \in JobStates /\ "discarded" \in Errors
    BY Zenon DEF JobStates, Errors
  <2>2. r \in JobRow
    BY <1>1, <2>1, Zenon DEF JobRow
  <2>3. SameRound(job[j], r) /\ r.state = "obsolete"
    BY <1>1, SMT DEF SameRound, JobRow
  <2>4. r.state \notin OpenStates /\ job[j].state \notin OpenStates
    BY <2>3, <1>3, SMT DEF OpenStates, IdleStates
  <2> HIDE DEF r
  <2> QED BY <1>1, <1>3, <2>2, <2>3, <2>4, RowChanges
<1> QED BY <1>2, <1>3, Zenon DEF DiscardSkillRequest

LEMMA ResumedGen ==
  ASSUME IInv, NEW j \in Jobs, job[j].state = "obsolete",
         job' = [job EXCEPT ![j] = ResumedRefill(@)], att' = att
  PROVE  GenStep(att, job', att')
<1> DEFINE r == ResumedRefill(job[j])
           state == IF job[j].result = "none" THEN "queued" ELSE "result_ready"
<1>1. GenOK(job, att) /\ job[j] \in JobRow /\ job' = [job EXCEPT ![j] = r]
  BY RowTypes DEF IInv
<1>2. state \in JobStates /\ "none" \in Errors
  BY Zenon DEF JobStates, IdleStates, Errors
<1>3. r \in JobRow
  BY <1>1, <1>2, Zenon DEF ResumedRefill, JobRow
<1>4. SameRound(job[j], r) /\ r.state \in {"queued", "result_ready"}
  BY <1>1, SMT DEF SameRound, JobRow, ResumedRefill
<1>5. r.state \notin OpenStates /\ job[j].state \notin OpenStates
  BY <1>4, SMT DEF OpenStates
<1> HIDE DEF r
<1>6. GenStep(att, [job EXCEPT ![j] = r], att)
  BY <1>1, <1>3, <1>4, <1>5, RowChanges
<1> QED BY <1>1, <1>6

\* A retry round starts with the attempts made so far, and the bound on a job's
\* attempts leaves room for it.
LEMMA RetriedGen ==
  ASSUME IInv, NEW j \in Jobs, job[j].state = "failed",
         job[j].attempts + MaxAttempts <= LastAttempt,
         job' = [job EXCEPT ![j] = RetriedRefill(@)], att' = att
  PROVE  GenStep(att, job', att')
<1> DEFINE r == RetriedRefill(job[j])
<1>1. GenOK(job, att) /\ job[j] \in JobRow /\ att[j] \in History /\ LedgerOf(job[j], att[j])
  BY RowTypes DEF IInv
<1>2. job[j].attempts \in 0..(LastAttempt - MaxAttempts)
  BY <1>1, Bounds, SMT DEF JobRow
<1>3. r \in JobRow
  <2>1. "queued" \in JobStates /\ "none" \in Errors /\ "none" \in Results
    BY Zenon DEF JobStates, IdleStates, Errors, Results
  <2> QED BY <1>1, <1>2, <2>1, Zenon DEF RetriedRefill, JobRow
<1>4. r.state = "queued" /\ r.attempts = job[j].attempts /\ r.start = job[j].attempts
  BY <1>1, SMT DEF RetriedRefill, JobRow
<1> HIDE DEF r
<1>5. LedgerOf(r, att[j]) /\ Kept(att[j], att[j])
  <2>1. r.attempts - r.start \in 0..MaxAttempts
    BY <1>2, <1>4, Bounds, SMT
  <2> QED BY <1>1, <1>4, <2>1, SMT DEF LedgerOf, OpenStates, Kept
<1>6. [att EXCEPT ![j] = att[j]] = att
  BY <1>1, Zenon DEF GenOK
<1>7. GenStep(att, [job EXCEPT ![j] = r], [att EXCEPT ![j] = att[j]])
  BY <1>1, <1>3, <1>5, OneJobChanges
<1> QED BY <1>6, <1>7 DEF r

LEMMA RequestRefillGen ==
  ASSUME IInv, NEW s \in Skills, NEW provider \in Providers, NEW waited \in BOOLEAN,
         RequestRefill(s, provider, waited)
  PROVE  GenStep(att, job', att')
<1> DEFINE r == Refill(s, provider)
<1>1. GenOK(job, att) /\ att' = att
  BY DEF IInv, RequestRefill
<1>2. CASE \E j \in Jobs : /\ job[j].state = "obsolete"
                          /\ job' = [job EXCEPT ![j] = ResumedRefill(@)]
  BY <1>1, <1>2, ResumedGen
<1>3. CASE job' = job
  BY <1>1, <1>3, NothingChanges
<1>4. CASE \E j \in Jobs : /\ job[j].state = "failed"
                          /\ job[j].attempts + MaxAttempts <= LastAttempt
                          /\ job' = [job EXCEPT ![j] = RetriedRefill(@)]
  BY <1>1, <1>4, RetriedGen
<1>5. CASE \E j \in Jobs : Absent(j) /\ job' = [job EXCEPT ![j] = r]
  <2>1. r = NewRow("refill", s, Rev(s), None, Len(bank[s]), provider)
    BY DEF Refill
  <2>2. "refill" \in Kinds /\ None \in Contents \cup {None}
        /\ Rev(s) \in 0..MaxRevision /\ Len(bank[s]) \in Nat
    BY RevTypes DEF IInv, Kinds
  <2>3. r \in JobRow /\ r.state = "queued" /\ r.attempts = 0 /\ r.start = 0
    BY <2>1, <2>2, NewRowType
  <2> HIDE DEF r
  <2> QED BY <1>1, <1>5, <2>3, JobInserted
<1> QED BY <1>2, <1>3, <1>4, <1>5, Zenon DEF RequestRefill, SettledFailure

LEMMA ObsoleteIdleGen ==
  ASSUME IInv, NEW s \in Skills, job' = ObsoleteIdle(s), att' = att
  PROVE  GenStep(att, job', att')
<1>1. GenOK(job, att)
  BY DEF IInv
<1>2. ASSUME NEW j \in Jobs
      PROVE  /\ job'[j] \in JobRow /\ SameRound(job[j], job'[j])
             /\ job'[j].state \in OpenStates <=> job[j].state \in OpenStates
             /\ job'[j].state = "absent" => job[j].state = "absent"
  <2> DEFINE r == [job[j] EXCEPT !.state = "obsolete", !.error = "retired"]
  <2>1. job[j] \in JobRow
    BY <1>1, RowTypes
  <2>2. CASE job'[j] = job[j]
    BY <2>1, <2>2, SMT DEF SameRound
  <2>3. CASE job'[j] = r /\ job[j].state \in IdleStates
    <3>1. "obsolete" \in JobStates /\ "retired" \in Errors
      BY Zenon DEF JobStates, Errors
    <3>2. r \in JobRow
      BY <2>1, <3>1, Zenon DEF JobRow
    <3>3. SameRound(job[j], r) /\ r.state = "obsolete"
      BY <2>1, SMT DEF SameRound, JobRow
    <3> HIDE DEF r
    <3> QED BY <2>3, <3>2, <3>3, SMT DEF OpenStates, IdleStates
  <2> QED BY <2>2, <2>3, Zenon DEF ObsoleteIdle
<1>3. job' \in [Jobs -> JobRow]
  BY <1>2, Zenon DEF ObsoleteIdle
<1> QED BY <1>1, <1>2, <1>3, RowsChange

LEMMA ConfigureLimitsGen ==
  ASSUME IInv, NEW size \in StoreLimits, ConfigureLimits(size)
  PROVE  GenStep(att, job', att')
<1>1. GenOK(job, att) /\ att' = att
  BY DEF IInv, ConfigureLimits
<1>2. ASSUME NEW j \in Jobs
      PROVE  job'[j] \in JobRow /\ SameRound(job[j], job'[j]) /\ job'[j].state = job[j].state
  <2> DEFINE r == [job[j] EXCEPT !.due = TRUE]
  <2>1. job[j] \in JobRow
    BY <1>1, RowTypes
  <2>2. r \in JobRow
    BY <2>1, Zenon DEF JobRow
  <2>3. SameRound(job[j], r) /\ r.state = job[j].state
    BY <2>1, SMT DEF SameRound, JobRow
  <2>4. job'[j] = r \/ job'[j] = job[j]
    BY Zenon DEF ConfigureLimits
  <2> HIDE DEF r
  <2> QED BY <2>1, <2>2, <2>3, <2>4, SMT DEF SameRound
<1>3. job' \in [Jobs -> JobRow]
  BY <1>2, Zenon DEF ConfigureLimits
<1> QED BY <1>1, <1>2, <1>3, RowsChange

LEMMA ReleaseGen ==
  ASSUME IInv, NEW j \in Jobs, ConfirmedRelease(j)
  PROVE  GenStep(att, job', att')
<1> DEFINE n == job[j].attempts
           charge == remote[j][n].cost
           r1 == Unleased(job[j], "failed")
           r2 == [r1 EXCEPT !.error = "other", !.due = TRUE]
           a == Settled(att[j][n], charge)
<1>1. /\ GenOK(job, att) /\ job[j] \in JobRow /\ job[j].state = "needs_attention"
      /\ job' = [job EXCEPT ![j] = r2] /\ att' = [att EXCEPT ![j][n] = a]
  BY RowTypes DEF IInv, ConfirmedRelease, Release
<1>2. job[j].state \in OpenStates
  BY <1>1 DEF OpenStates
<1>3. n \in AttemptIds /\ att[j][n] \in AttemptRow
  BY <1>1, <1>2, LatestOpen DEF Latest
<1>4. charge \in Nat
  <2>1. remote[j][n] \in RemoteRow
    BY <1>3 DEF IInv, ProcessesOK, RemoteOK
  <2> QED BY <2>1 DEF RemoteRow
<1>5. a \in AttemptRow /\ ~Unsettled(a) /\ a.stage \in ClosedStages
  BY <1>3, <1>4, SettledRow, Zenon DEF ClosedStages
<1>6. r1 \in JobRow /\ r1.state = "failed" /\ SameRound(job[j], r1)
  <2>1. "failed" \in JobStates
    BY Zenon DEF JobStates
  <2> QED BY <1>1, <2>1, UnleasedRow, Zenon
<1> HIDE DEF r1, a
<1>7. r2 \in JobRow /\ r2.state = "failed" /\ SameRound(job[j], r2)
  <2>1. "other" \in Errors
    BY Zenon DEF Errors
  <2>2. r2 \in JobRow
    BY <1>6, <2>1, Zenon DEF JobRow
  <2> QED BY <1>6, <2>2, SMT DEF JobRow, SameRound
<1> HIDE DEF r2
<1>8. r2.state \notin OpenStates /\ r2.state # "absent"
  BY <1>7 DEF OpenStates
<1>9. GenStep(att, [job EXCEPT ![j] = r2], [att EXCEPT ![j][n] = a])
  BY <1>1, <1>2, <1>5, <1>7, <1>8, AttemptCloses, Zenon
<1> QED BY <1>1, <1>9

\* Reservations of claimed jobs are given back, and the jobs queued again.
LEMMA AbandonGen ==
  ASSUME GenOK(job, att), NEW S \in SUBSET ReservedClaims, AbandonReserved(S)
  PROVE  GenStep(att, job', att')
<1>1. ASSUME NEW j \in Jobs
      PROVE  /\ job'[j] \in JobRow /\ att'[j] \in History
             /\ LedgerOf(job'[j], att'[j]) /\ Kept(att[j], att'[j])
  <2>1. job[j] \in JobRow /\ att[j] \in History /\ LedgerOf(job[j], att[j])
    BY RowTypes
  <2>2. CASE j \notin S
    <3>1. job'[j] = job[j] /\ att'[j] = att[j]
      BY <2>2, Zenon DEF AbandonReserved
    <3> QED BY <2>1, <3>1, Zenon DEF Kept
  <2>3. CASE j \in S
    <3> DEFINE n == job[j].attempts
               r == Unleased(job[j], "queued")
               a == Abandoned(att[j][n])
    <3>1. job'[j] = r /\ att'[j] = [att[j] EXCEPT ![n] = a]
      BY <2>3, Zenon DEF AbandonReserved
    <3>2. job[j].state \in OpenStates
      BY <2>3 DEF ReservedClaims, OpenStates
    <3>3. n \in AttemptIds /\ att[j][n] \in AttemptRow
      BY <3>2, LatestOpen DEF Latest
    <3>4. a \in AttemptRow /\ ~Unsettled(a) /\ a.stage \in ClosedStages
      BY <3>3, AbandonedRow, Zenon DEF ClosedStages
    <3>5. r \in JobRow /\ r.state = "queued" /\ SameRound(job[j], r)
      <4>1. "queued" \in JobStates
        BY Zenon DEF JobStates, IdleStates
      <4> QED BY <2>1, <4>1, UnleasedRow, Zenon
    <3>6. r.state \notin OpenStates /\ r.state # "absent"
      BY <3>5 DEF OpenStates
    <3> HIDE DEF r, a
    <3> DEFINE h == [att[j] EXCEPT ![job[j].attempts] = a]
    <3>7. h \in History /\ LedgerOf(r, h) /\ Kept(att[j], h)
      BY <2>1, <3>2, <3>4, <3>5, <3>6, CloseLedger
    <3> QED BY <3>1, <3>5, <3>7
  <2> QED BY <2>2, <2>3
<1>2. job' \in [Jobs -> JobRow] /\ att' \in [Jobs -> History]
  BY <1>1, Zenon DEF AbandonReserved
<1> QED BY <1>1, <1>2, Zenon DEF GenStep, GenOK

LEMMA RequestGen ==
  ASSUME IInv, Request
  PROVE  GenStep(att, job', att')
<1>1. GenOK(job, att) /\ RefillProvider \in Providers
  BY OfferedAssumption DEF IInv
<1>2. CASE \E j \in Jobs, s \in Skills : Enqueue(j, s, RefillProvider)
  BY <1>1, <1>2, EnqueueGen
<1>3. CASE \E j \in Jobs, s \in Skills, c \in Contents :
             CreateSkill(j, s, c, RefillProvider) \/ EditSkill(j, s, c, RefillProvider)
  BY <1>1, <1>3, SaveDraftGen DEF CreateSkill, EditSkill
<1>4. CASE \E j \in Jobs : DiscardSkillRequest(j)
  BY <1>4, DiscardGen
<1>5. CASE \E s \in Skills, waited \in BOOLEAN : RequestRefill(s, RefillProvider, waited)
  BY <1>1, <1>5, RequestRefillGen
<1>6. CASE \E s \in Skills : ImportRevision(s)
  BY <1>1, <1>6, NothingChanges DEF ImportRevision, genVars
<1>7. CASE \E s \in Skills : RetireSkill(s) \/ RestoreSkill(s)
  <2>1. CASE \E s \in Skills : RetireSkill(s)
    BY <2>1, ObsoleteIdleGen DEF RetireSkill
  <2>2. CASE \E s \in Skills : RestoreSkill(s)
    BY <1>1, <2>2, NothingChanges DEF RestoreSkill, genVars
  <2> QED BY <1>7, <2>1, <2>2
<1>8. CASE \/ \E amount \in Limits : ConfigureBudget(amount)
           \/ \E size \in StoreLimits : ConfigureLimits(size)
  <2>1. CASE \E amount \in Limits : ConfigureBudget(amount)
    BY <1>1, <2>1, NothingChanges DEF ConfigureBudget, genVars
  <2>2. CASE \E size \in StoreLimits : ConfigureLimits(size)
    BY <2>2, ConfigureLimitsGen
  <2> QED BY <1>8, <2>1, <2>2
<1>9. CASE \E j \in Jobs : ConfirmedRelease(j)
  BY <1>9, ReleaseGen
<1>10. CASE RetireSource \/ AbandonRetiredClaims
  <2>1. CASE RetireSource
    BY <1>1, <2>1, NothingChanges DEF RetireSource, genVars
  <2>2. CASE AbandonRetiredClaims
    BY <1>1, <2>2, AbandonGen DEF AbandonRetiredClaims
  <2> QED BY <1>10, <2>1, <2>2
<1> QED BY <1>2, <1>3, <1>4, <1>5, <1>6, <1>7, <1>8, <1>9, <1>10, Zenon DEF Request

-----------------------------------------------------------------------------
(* What run_once does to the generation tables.                              *)

\* _recover gives every lapsed claim back, keeps it for a saved response or
\* stops it.
LEMMA RecoverGen ==
  ASSUME GenOK(job, att)
  PROVE  GenStep(att, RecoverJobs, RecoverAttempts)
<1>1. ASSUME NEW j \in Jobs
      PROVE  /\ RecoverJobs[j] \in JobRow /\ RecoverAttempts[j] \in History
             /\ LedgerOf(RecoverJobs[j], RecoverAttempts[j])
             /\ Kept(att[j], RecoverAttempts[j])
  <2> DEFINE n == job[j].attempts
             r1 == Unleased(job[j], "provider_pending")
             r2 == [r1 EXCEPT !.due = TRUE]
             r3 == Unleased(job[j], "needs_attention")
             r4 == [r3 EXCEPT !.error = "other"]
             r5 == Unleased(job[j], "queued")
             a == Abandoned(att[j][n])
  <2>1. job[j] \in JobRow /\ att[j] \in History /\ LedgerOf(job[j], att[j])
    BY RowTypes
  <2>2. {"provider_pending", "needs_attention", "queued"} \subseteq JobStates
        /\ "other" \in Errors
    BY Zenon DEF JobStates, IdleStates, Errors
  <2>3. CASE ~Lapsed(job, j)
    <3>1. RecoverJobs[j] = job[j] /\ RecoverAttempts[j] = att[j]
      BY <2>3, Zenon DEF RecoverJobs, RecoverAttempts
    <3> QED BY <2>1, <3>1, Zenon DEF Kept
  <2>4. CASE Lapsed(job, j) /\ Latest(att, job, j).response
    <3>1. RecoverJobs[j] = r2 /\ RecoverAttempts[j] = att[j]
      BY <2>4, Zenon DEF RecoverJobs, RecoverAttempts
    <3>2. r1 \in JobRow /\ r1.state = "provider_pending" /\ SameRound(job[j], r1)
      BY <2>1, <2>2, UnleasedRow, Zenon
    <3> HIDE DEF r1
    <3>3. r2 \in JobRow /\ r2.state = "provider_pending" /\ SameRound(job[j], r2)
      <4>1. r2 \in JobRow
        BY <3>2, Zenon DEF JobRow
      <4> QED BY <3>2, <4>1, SMT DEF JobRow, SameRound
    <3> HIDE DEF r2
    <3>4. r2.state \in OpenStates /\ job[j].state \in OpenStates /\ r2.state # "absent"
      BY <2>4, <3>3 DEF OpenStates, Lapsed
    <3> QED BY <2>1, <3>1, <3>3, <3>4, KeepLedger
  <2>5. CASE Lapsed(job, j) /\ ~Latest(att, job, j).response
             /\ Latest(att, job, j).stage = "reserved"
    <3>1. RecoverJobs[j] = r5 /\ RecoverAttempts[j] = [att[j] EXCEPT ![n] = a]
      BY <2>5, Zenon DEF RecoverJobs, RecoverAttempts
    <3>2. r5 \in JobRow /\ r5.state = "queued" /\ SameRound(job[j], r5)
      BY <2>1, <2>2, UnleasedRow, Zenon
    <3>3. job[j].state \in OpenStates /\ r5.state \notin OpenStates /\ r5.state # "absent"
      BY <2>5, <3>2 DEF OpenStates, Lapsed
    <3>4. n \in AttemptIds /\ att[j][n] \in AttemptRow
      BY <3>3, LatestOpen DEF Latest
    <3>5. a \in AttemptRow /\ ~Unsettled(a) /\ a.stage \in ClosedStages
      BY <3>4, AbandonedRow, Zenon DEF ClosedStages
    <3> HIDE DEF r5, a
    <3> DEFINE h == [att[j] EXCEPT ![job[j].attempts] = a]
    <3>6. h \in History /\ LedgerOf(r5, h) /\ Kept(att[j], h)
      BY <2>1, <3>2, <3>3, <3>5, CloseLedger
    <3> QED BY <3>1, <3>2, <3>6
  <2>6. CASE Lapsed(job, j) /\ ~Latest(att, job, j).response
             /\ Latest(att, job, j).stage # "reserved"
    <3>1. RecoverJobs[j] = r4 /\ RecoverAttempts[j] = att[j]
      BY <2>6, Zenon DEF RecoverJobs, RecoverAttempts
    <3>2. r3 \in JobRow /\ r3.state = "needs_attention" /\ SameRound(job[j], r3)
      BY <2>1, <2>2, UnleasedRow, Zenon
    <3> HIDE DEF r3
    <3>3. r4 \in JobRow /\ r4.state = "needs_attention" /\ SameRound(job[j], r4)
      <4>1. r4 \in JobRow
        BY <2>2, <3>2, Zenon DEF JobRow
      <4> QED BY <3>2, <4>1, SMT DEF JobRow, SameRound
    <3> HIDE DEF r4
    <3>4. r4.state \in OpenStates /\ job[j].state \in OpenStates /\ r4.state # "absent"
      BY <2>6, <3>3 DEF OpenStates, Lapsed
    <3> QED BY <2>1, <3>1, <3>3, <3>4, KeepLedger
  <2> QED BY <2>3, <2>4, <2>5, <2>6, Zenon
<1>2. RecoverJobs \in [Jobs -> JobRow] /\ RecoverAttempts \in [Jobs -> History]
  BY <1>1, Zenon DEF RecoverJobs, RecoverAttempts
<1> QED BY <1>1, <1>2, Zenon DEF GenStep, GenOK

\* Recovering a job leaves its round alone.
LEMMA RecoverRounds ==
  ASSUME GenOK(job, att), NEW j \in Jobs
  PROVE  SameRound(job[j], RecoverJobs[j])
<1> DEFINE r1 == Unleased(job[j], "provider_pending")
           r2 == Unleased(job[j], "needs_attention")
           r3 == Unleased(job[j], "queued")
<1>1. job[j] \in JobRow /\ SameRound(job[j], job[j])
  BY RowTypes DEF SameRound
<1>2. {"provider_pending", "needs_attention", "queued"} \subseteq JobStates
  BY Zenon DEF JobStates, IdleStates
<1>3. /\ r1 \in JobRow /\ SameRound(job[j], r1)
      /\ r2 \in JobRow /\ SameRound(job[j], r2)
      /\ r3 \in JobRow /\ SameRound(job[j], r3)
  BY <1>1, <1>2, UnleasedRow
<1>4. RecoverJobs[j] \in {job[j], [r1 EXCEPT !.due = TRUE], [r2 EXCEPT !.error = "other"], r3}
  BY Zenon DEF RecoverJobs
<1> HIDE DEF r1, r2, r3
<1>5. /\ SameRound(job[j], [r1 EXCEPT !.due = TRUE])
      /\ SameRound(job[j], [r2 EXCEPT !.error = "other"])
  BY <1>3, SMT DEF SameRound, JobRow
<1> QED BY <1>1, <1>3, <1>4, <1>5

LEMMA ResumeGen ==
  ASSUME IInv, NEW a \in Actors, Resume(a)
  PROVE  GenStep(att, job', att')
<1>1. GenStep(att, RecoverJobs, RecoverAttempts) /\ att' = RecoverAttempts
  BY RecoverGen DEF IInv, Resume
<1>2. CASE job' = RecoverJobs
  BY <1>1, <1>2
<1>3. ASSUME NEW j \in Resumable(RecoverJobs, a),
             job' = [RecoverJobs EXCEPT ![j] = Leased(@, a)]
      PROVE  GenStep(att, job', att')
  <2> DEFINE r == Leased(RecoverJobs[j], a)
  <2>1. j \in Jobs /\ RecoverJobs[j].state = "provider_pending"
        /\ GenOK(RecoverJobs, RecoverAttempts)
    BY <1>1 DEF Resumable, GenStep
  <2>2. RecoverJobs[j] \in JobRow
    BY <2>1 DEF GenOK
  <2>3. r \in JobRow /\ r.state = "running" /\ SameRound(RecoverJobs[j], r)
    BY <2>2, LeasedRow, Zenon
  <2> HIDE DEF r
  <2>4. r.state \in OpenStates /\ RecoverJobs[j].state \in OpenStates /\ r.state # "absent"
    BY <2>1, <2>3 DEF OpenStates
  <2>5. GenStep(RecoverAttempts, [RecoverJobs EXCEPT ![j] = r], RecoverAttempts)
    BY <2>1, <2>3, <2>4, RowChanges
  <2>6. job' = [RecoverJobs EXCEPT ![j] = r]
    BY <1>3 DEF r
  <2> QED BY <1>1, <2>5, <2>6, TwoSteps, Zenon
<1> QED BY <1>2, <1>3, Zenon DEF Resume

\* A row that claim could not lease keeps its round and does not become open.
LEMMA PassedOverRow ==
  ASSUME NEW jb, NEW at, NEW j \in Jobs, jb[j] \in JobRow,
         jb[j].state \in IdleStates, NEW a \in Actors, ProviderOf[a] \in Providers,
         Verdict(jb, at, j, a) # "running"
  PROVE  LET r == PassedOver(j, jb[j], Verdict(jb, at, j, a), a)
         IN  /\ r \in JobRow /\ SameRound(jb[j], r)
             /\ r.state \notin OpenStates /\ r.state # "absent"
<1> DEFINE q == jb[j]
           verdict == Verdict(jb, at, j, a)
           r == PassedOver(j, q, verdict, a)
<1>1. CASE Skips(q, a)
  <2>1. r = q
    BY <1>1, Zenon DEF PassedOver
  <2> QED BY <2>1, SMT DEF OpenStates, IdleStates, SameRound
<1>2. CASE ~Skips(q, a)
  <2> DEFINE q1 == IF CannotSwitch(j, q, a) THEN q ELSE Adopted(q, a)
             due == verdict \notin {"waiting_budget", "waiting_capacity"}
             error == IF verdict = "obsolete" THEN StaleError(q) ELSE "other"
  <2>1. verdict \in {"failed", "obsolete", "waiting_budget", "waiting_capacity"}
    BY <1>2, Zenon DEF Verdict
  <2>2. verdict \in JobStates /\ verdict \notin OpenStates /\ verdict # "absent"
    BY <2>1 DEF JobStates, IdleStates, OpenStates
  <2>3. q1 \in JobRow /\ SameRound(q, q1)
    <3>1. Adopted(q, a) \in JobRow
      BY Zenon DEF Adopted, JobRow
    <3>2. SameRound(q, Adopted(q, a))
      BY SMT DEF Adopted, JobRow, SameRound
    <3> QED BY <3>1, <3>2, Zenon DEF SameRound
  <2>4. due \in BOOLEAN /\ error \in Errors
    BY Zenon DEF StaleError, Errors
  <2>5. r = [q1 EXCEPT !.state = verdict, !.due = due, !.error = error]
    BY <1>2, Zenon DEF PassedOver
  <2> HIDE DEF q1, verdict, due, error, r
  <2>6. r \in JobRow
    BY <2>2, <2>3, <2>4, <2>5, Zenon DEF JobRow
  <2>7. SameRound(q1, r) /\ r.state = verdict
    BY <2>3, <2>5, SMT DEF SameRound, JobRow
  <2> QED BY <2>2, <2>3, <2>6, <2>7 DEF SameRound, r, verdict
<1> QED BY <1>1, <1>2

LEMMA PassingGen ==
  ASSUME NEW jb, NEW at, GenOK(jb, at), NEW a \in Actors,
         NEW S \in SUBSET Claimable(jb), \A j \in S : Verdict(jb, at, j, a) # "running"
  PROVE  GenStep(at, Passing(jb, at, S, a), at)
<1>1. ASSUME NEW j \in Jobs
      PROVE  LET r == Passing(jb, at, S, a)[j]
             IN  /\ r \in JobRow /\ SameRound(jb[j], r)
                 /\ r.state \in OpenStates <=> jb[j].state \in OpenStates
                 /\ r.state = "absent" => jb[j].state = "absent"
  <2>1. jb[j] \in JobRow /\ ProviderOf[a] \in Providers
    BY ProviderAssumption DEF GenOK
  <2>2. CASE j \notin S
    <3>1. Passing(jb, at, S, a)[j] = jb[j]
      BY <2>2, Zenon DEF Passing
    <3> QED BY <2>1, <3>1, Zenon DEF SameRound
  <2>3. CASE j \in S
    <3>1. Passing(jb, at, S, a)[j] = PassedOver(j, jb[j], Verdict(jb, at, j, a), a)
      BY <2>3, Zenon DEF Passing
    <3>2. jb[j].state \in IdleStates
      BY <2>3, Zenon DEF Claimable
    <3>3. jb[j].state \notin OpenStates
      BY <3>2 DEF IdleStates, OpenStates
    <3>4. /\ Passing(jb, at, S, a)[j] \in JobRow /\ SameRound(jb[j], Passing(jb, at, S, a)[j])
          /\ Passing(jb, at, S, a)[j].state \notin OpenStates
          /\ Passing(jb, at, S, a)[j].state # "absent"
      BY <2>1, <2>3, <3>1, <3>2, PassedOverRow
    <3> QED BY <3>3, <3>4, Zenon
  <2> QED BY <2>2, <2>3
<1>2. Passing(jb, at, S, a) \in [Jobs -> JobRow]
  BY <1>1, Zenon DEF Passing
<1> QED BY <1>1, <1>2, RowsChange

\* The leased row opens one more attempt, within its round and the bound.
LEMMA ClaimedGen ==
  ASSUME NEW jb, NEW at, GenOK(jb, at), NEW j \in Jobs, NEW a \in Actors,
         jb[j].state \notin OpenStates, ~RoundOver(jb[j]),
         month \in Nat, creditLive \in BOOLEAN, NEW at0
  PROVE  GenStep(at, [jb EXCEPT ![j] = Claimed(@, a)],
                 [at EXCEPT ![j][jb[j].attempts + 1] = Reservation(at0, ProviderOf[a])])
<1> DEFINE q == jb[j]
           q1 == Adopted(q, a)
           q2 == Leased(q1, a)
           r == [q2 EXCEPT !.attempts = @ + 1, !.error = "none"]
           new == Reservation(at0, ProviderOf[a])
<1>1. q \in JobRow /\ LedgerOf(q, at[j]) /\ ProviderOf[a] \in Providers
  BY ProviderAssumption DEF GenOK
<1>2. q1 \in JobRow /\ SameRound(q, q1)
  <2>1. q1 \in JobRow
    BY <1>1, Zenon DEF Adopted, JobRow
  <2> QED BY <1>1, <2>1, SMT DEF Adopted, JobRow, SameRound
<1> HIDE DEF q1
<1>3. q2 \in JobRow /\ q2.state = "running" /\ SameRound(q1, q2)
  BY <1>2, LeasedRow, Zenon
<1> HIDE DEF q2
<1>4. q.attempts - q.start < MaxAttempts /\ q.attempts \in Nat /\ q2.attempts = q.attempts
  BY <1>1, <1>2, <1>3, Bounds, SMT DEF RoundOver, JobRow, SameRound
<1>5. q.attempts + 1 \in 0..LastAttempt
  BY <1>1, <1>4, Bounds, SMT DEF JobRow
<1>6. r \in JobRow
  <2>1. "none" \in Errors
    BY Zenon DEF Errors
  <2>2. q2.attempts + 1 \in 0..LastAttempt
    BY <1>4, <1>5
  <2> QED BY <1>3, <2>1, <2>2, Zenon DEF JobRow
<1>7. r.attempts = q.attempts + 1 /\ r.start = q.start /\ r.state = "running"
  BY <1>2, <1>3, <1>4, SMT DEF JobRow, SameRound
<1>8. r.state \in OpenStates
  BY <1>7 DEF OpenStates
<1>9. new \in AttemptRow /\ Unsettled(new) /\ new.stage \in OpenStages
  BY <1>1, NewReservation, Zenon DEF OpenStages
<1>10. r = Claimed(q, a)
  BY DEF Claimed, q2, q1
<1> HIDE DEF r, new
<1>11. GenStep(at, [jb EXCEPT ![j] = r], [at EXCEPT ![j][jb[j].attempts + 1] = new])
  BY <1>4, <1>6, <1>7, <1>8, <1>9, AttemptOpens
<1> QED BY <1>10, <1>11 DEF new

\* A row that claim can lease is idle and may make one more attempt.
LEMMA LeasableRow ==
  ASSUME NEW jb, NEW at, GenOK(jb, at), NEW j \in Claimable(jb), NEW a \in Actors,
         Verdict(jb, at, j, a) = "running"
  PROVE  /\ j \in Jobs /\ jb[j].state \notin OpenStates /\ ~RoundOver(jb[j])
         /\ jb[j].attempts + 1 \in AttemptIds
<1>1. j \in Jobs /\ jb[j] \in JobRow /\ jb[j].state \notin OpenStates
  BY DEF Claimable, OpenStates, IdleStates, GenOK
<1>2. ~RoundOver(jb[j])
  <2>1. CASE Skips(jb[j], a)
    <3>1. Verdict(jb, at, j, a) = jb[j].state
      BY <2>1, Zenon DEF Verdict
    <3> QED BY <1>1, <3>1 DEF OpenStates
  <2>2. CASE ~Skips(jb[j], a)
    BY <2>2, Zenon DEF Verdict
  <2> QED BY <2>1, <2>2
<1>3. jb[j].attempts + 1 \in AttemptIds
  BY <1>1, <1>2, Bounds, SMT DEF RoundOver, JobRow, AttemptIds
<1> QED BY <1>1, <1>2, <1>3

LEMMA ClaimGen ==
  ASSUME IInv, NEW a \in Actors, Claim(a)
  PROVE  GenStep(att, job', att')
<1> DEFINE jb == RecoverJobs
           at == RecoverAttempts
           rows == Claimable(jb)
           leasable == {j \in rows : Verdict(jb, at, j, a) = "running"}
<1>1. GenStep(att, jb, at) /\ GenOK(jb, at)
  BY RecoverGen DEF IInv, GenStep
<1>2. \/ leasable = {} /\ job' = Passing(jb, at, rows, a) /\ att' = at
      \/ \E j \in leasable, S \in SUBSET (rows \ leasable) :
           /\ job' = [Passing(jb, at, S, a) EXCEPT ![j] = Claimed(@, a)]
           /\ att' = [at EXCEPT ![j][jb[j].attempts + 1] = Reservation(at, ProviderOf[a])]
  BY Zenon DEF Claim
<1> HIDE DEF jb, at
<1>3. CASE leasable = {} /\ job' = Passing(jb, at, rows, a) /\ att' = at
  <2>1. GenStep(at, Passing(jb, at, rows, a), at)
    BY <1>1, <1>3, PassingGen
  <2> QED BY <1>1, <1>3, <2>1, TwoSteps
<1>4. ASSUME NEW j \in leasable, NEW S \in SUBSET (rows \ leasable),
             job' = [Passing(jb, at, S, a) EXCEPT ![j] = Claimed(@, a)],
             att' = [at EXCEPT ![j][jb[j].attempts + 1] = Reservation(at, ProviderOf[a])]
      PROVE  GenStep(att, job', att')
  <2> DEFINE jp == Passing(jb, at, S, a)
  <2>1. GenStep(at, jp, at) /\ GenOK(jp, at)
    <3>1. GenStep(at, jp, at)
      BY <1>1, PassingGen
    <3> QED BY <3>1 DEF GenStep
  <2>2. j \in Jobs /\ jp[j] = jb[j]
    BY DEF Passing, Claimable
  <2>3. jb[j].state \notin OpenStates /\ ~RoundOver(jb[j])
    BY <1>1, LeasableRow
  <2>5. month \in Nat /\ creditLive \in BOOLEAN
    BY BoundsAssumption DEF IInv, SettingsOK
  <2> HIDE DEF jp
  <2>6. GenStep(at, [jp EXCEPT ![j] = Claimed(@, a)],
                [at EXCEPT ![j][jp[j].attempts + 1] = Reservation(at, ProviderOf[a])])
    BY <2>1, <2>2, <2>3, <2>5, ClaimedGen
  <2>7. GenStep(at, job', att')
    BY <1>4, <2>2, <2>6 DEF jp
  <2> QED BY <1>1, <2>7, TwoSteps
<1> QED BY <1>2, <1>3, <1>4

\* A process past its claim works on a job; if it owns it, its attempt is open.
LEMMA WorksOnJob ==
  ASSUME IInv, NEW a \in Actors, actor[a].pc \notin JobLess
  PROVE  actor[a].job \in Jobs /\ GenOK(job, att) /\ job[actor[a].job] \in JobRow
BY RowTypes, Zenon DEF IInv, ProcessesOK, ActorsOK

LEMMA OwnedOpen ==
  ASSUME IInv, NEW a \in Actors, NEW j \in Jobs, Owned(a, j)
  PROVE  /\ job[j].state = "running" /\ job[j].state \in OpenStates
         /\ job[j].attempts \in AttemptIds /\ att[j][job[j].attempts] \in AttemptRow
         /\ Unsettled(att[j][job[j].attempts])
         /\ att[j][job[j].attempts].stage \in OpenStages
<1>1. job[j].state = "running" /\ job[j].state \in OpenStates /\ GenOK(job, att)
  BY DEF IInv, Owned, OpenStates
<1> QED BY <1>1, LatestOpen DEF Latest

\* Where each step of a claimed attempt starts.
LEMMA StartsAt ==
  ASSUME NEW a
  PROVE  /\ CallingRow(a) => actor[a].pc = "claimed"
         /\ Calling(a) => actor[a].pc = "claimed" /\ remote' = remote /\ ~sourceRetired
         /\ Submitted(a) => actor[a].pc = "answered" /\ remote' = remote /\ job' = job
         /\ SaveResult(a) => actor[a].pc = "holding" /\ remote' = remote
         /\ Poll(a) => actor[a].pc \in {"unread", "holding"}
         /\ Fail(a) => actor[a].pc = "failing" /\ remote' = remote
         /\ TakeOver(a) => actor[a].pc = "reconciling" /\ remote' = remote
<1>1. CallingRow(a) => actor[a].pc = "claimed" /\ remote' = remote
  BY Zenon DEF CallingRow
<1>2. Calling(a) => CallingRow(a) /\ ~sourceRetired
  BY Zenon DEF Calling
<1>3. Submitted(a) => actor[a].pc = "answered" /\ remote' = remote /\ job' = job
  BY Zenon DEF Submitted
<1>4. SaveResult(a) => actor[a].pc = "holding" /\ remote' = remote
  BY Zenon DEF SaveResult
<1>5. Poll(a) => actor[a].pc \in {"unread", "holding"}
  BY Zenon DEF Poll
<1>6. Fail(a) => actor[a].pc = "failing" /\ remote' = remote
  BY Zenon DEF Fail
<1>7. TakeOver(a) => actor[a].pc = "reconciling" /\ remote' = remote
  BY Zenon DEF TakeOver
<1> QED BY <1>1, <1>2, <1>3, <1>4, <1>5, <1>6, <1>7, Zenon

LEMMA CallingGen ==
  ASSUME IInv, NEW a \in Actors, Calling(a)
  PROVE  GenStep(att, job', att')
<1> DEFINE j == actor[a].job
           q == job[j]
           n == q.attempts
           verdict == CallVerdict(q, att[j][n])
           error == IF verdict = "obsolete" THEN StaleError(q) ELSE "other"
           r == [Unleased(q, verdict) EXCEPT !.due = FALSE, !.error = error]
           a1 == Abandoned(att[j][n])
           a2 == Called(att[j][n], q)
<1>1. j \in Jobs /\ GenOK(job, att) /\ q \in JobRow
  <2>1. actor[a].pc \notin JobLess
    BY StartsAt DEF JobLess
  <2>2. j \in Jobs /\ GenOK(job, att) /\ job[j] \in JobRow
    BY <2>1, WorksOnJob
  <2> QED BY <2>2, Zenon
<1>5. \/ job' = job /\ att' = att
      \/ Owned(a, j) /\ job' = job /\ att' = [att EXCEPT ![j][n] = a2]
      \/ /\ Owned(a, j) /\ verdict # "running"
         /\ job' = [job EXCEPT ![j] = r] /\ att' = [att EXCEPT ![j][n] = a1]
  BY Zenon DEF Calling, CallingRow, genVars
<1> HIDE DEF j
<1>2. CASE job' = job /\ att' = att
  BY <1>1, <1>2, NothingChanges
<1>3. CASE Owned(a, j) /\ job' = job /\ att' = [att EXCEPT ![j][n] = a2]
  <2>1. /\ q.state \in OpenStates /\ att[j][n] \in AttemptRow /\ Unsettled(att[j][n])
        /\ month \in Nat
    BY <1>1, <1>3, OwnedOpen, BoundsAssumption DEF IInv, SettingsOK
  <2>2. a2 \in AttemptRow /\ Unsettled(a2) /\ a2.stage \in OpenStages
    BY <1>1, <2>1, CalledRow, Zenon DEF OpenStages
  <2>3. SameRound(q, q) /\ [job EXCEPT ![j] = job[j]] = job
    BY <1>1, Zenon DEF SameRound, GenOK
  <2> HIDE DEF a2, q
  <2>4. GenStep(att, [job EXCEPT ![j] = job[j]], [att EXCEPT ![j][job[j].attempts] = a2])
    BY <1>1, <2>1, <2>2, <2>3, AttemptStaysOpen DEF q
  <2> QED BY <1>3, <2>3, <2>4 DEF q
<1>4. CASE /\ Owned(a, j) /\ verdict # "running"
           /\ job' = [job EXCEPT ![j] = r] /\ att' = [att EXCEPT ![j][n] = a1]
  <2>1. verdict \in {"obsolete", "waiting_budget", "waiting_capacity"}
    BY <1>4, Zenon DEF CallVerdict
  <2>2. verdict \in JobStates /\ verdict \notin OpenStates /\ verdict # "absent"
    BY <2>1 DEF JobStates, IdleStates, OpenStates
  <2>3. error \in Errors /\ FALSE \in BOOLEAN
    BY Zenon DEF StaleError, Errors
  <2> HIDE DEF verdict, error
  <2>4. r \in JobRow /\ r.state = verdict /\ SameRound(q, r)
    BY <1>1, <2>2, <2>3, StoppedRow
  <2>5. q.state \in OpenStates /\ att[j][n] \in AttemptRow
    BY <1>1, <1>4, OwnedOpen
  <2>6. a1 \in AttemptRow /\ ~Unsettled(a1) /\ a1.stage \in ClosedStages
    BY <2>5, AbandonedRow, Zenon DEF ClosedStages
  <2> HIDE DEF r, a1, q
  <2>7. GenStep(att, [job EXCEPT ![j] = r], [att EXCEPT ![j][job[j].attempts] = a1])
    BY <1>1, <2>2, <2>4, <2>5, <2>6, AttemptCloses DEF q
  <2> QED BY <1>4, <2>7 DEF q
<1> QED BY <1>2, <1>3, <1>4, <1>5, Zenon

LEMMA CallingRetiredGen ==
  ASSUME IInv, NEW a \in Actors, CallingRetired(a)
  PROVE  GenStep(att, job', att')
<1>1. GenOK(job, att)
  BY DEF IInv
<1>2. PICK S \in SUBSET ReservedClaims : AbandonReserved(S)
  <2> DEFINE own == IF Owned(a, actor[a].job) THEN ReservedClaims \cap {actor[a].job} ELSE {}
  <2>1. AbandonReserved(ReservedClaims) \/ AbandonReserved(own)
    BY Zenon DEF CallingRetired
  <2> HIDE DEF ReservedClaims
  <2>2. ReservedClaims \in SUBSET ReservedClaims /\ own \in SUBSET ReservedClaims
    OBVIOUS
  <2> QED BY <2>1, <2>2
<1> QED BY <1>1, <1>2, AbandonGen

LEMMA SubmittedGen ==
  ASSUME IInv, NEW a \in Actors, Submitted(a)
  PROVE  GenStep(att, job', att')
<1> DEFINE j == actor[a].job
           n == job[j].attempts
           a2 == [att[j][n] EXCEPT !.response = TRUE]
<1>1. j \in Jobs /\ GenOK(job, att) /\ job[j] \in JobRow /\ job' = job
  BY StartsAt, WorksOnJob DEF JobLess
<1>4. IF Owned(a, j) /\ att[j][n].stage = "calling"
      THEN att' = [att EXCEPT ![j][n].response = TRUE]
      ELSE att' = att
  BY Zenon DEF Submitted
<1> HIDE DEF j
<1>2. CASE att' = att
  BY <1>1, <1>2, NothingChanges
<1>3. CASE Owned(a, j) /\ att' = [att EXCEPT ![j][n].response = TRUE]
  <2>1. /\ job[j].state \in OpenStates /\ att[j][n] \in AttemptRow
        /\ Unsettled(att[j][n]) /\ att[j][n].stage \in OpenStages
    BY <1>1, <1>3, OwnedOpen
  <2>2. a2 \in AttemptRow
    BY <2>1, Zenon DEF AttemptRow
  <2>3. Unsettled(a2) /\ a2.stage \in OpenStages
    BY <2>1, SMT DEF AttemptRow, Unsettled
  <2>4. SameRound(job[j], job[j]) /\ [job EXCEPT ![j] = job[j]] = job
    BY <1>1, Zenon DEF SameRound, GenOK
  <2>5. att' = [att EXCEPT ![j][n] = a2]
    BY <1>3
  <2> HIDE DEF a2, n
  <2>6. GenStep(att, [job EXCEPT ![j] = job[j]], [att EXCEPT ![j][job[j].attempts] = a2])
    BY <1>1, <2>1, <2>2, <2>3, <2>4, AttemptStaysOpen DEF n
  <2> QED BY <1>1, <2>4, <2>5, <2>6 DEF n
<1> QED BY <1>2, <1>3, <1>4

LEMMA PendingGen ==
  ASSUME IInv, NEW a \in Actors, actor[a].pc \in {"unread", "holding"},
         NEW unread \in BOOLEAN, Pending(a, unread)
  PROVE  GenStep(att, job', att')
<1> DEFINE j == actor[a].job
           n == job[j].attempts
           a2 == Polled(att[j][n], unread)
           stopped == a2.polls >= MaxAttempts
           state == IF stopped THEN "needs_attention" ELSE "provider_pending"
           error == IF stopped THEN "other" ELSE "none"
           r == [Unleased(job[j], state) EXCEPT !.due = FALSE, !.error = error]
<1>1. /\ j \in Jobs /\ GenOK(job, att) /\ job[j] \in JobRow /\ Owned(a, j)
      /\ att' = [att EXCEPT ![j][n] = a2] /\ job' = [job EXCEPT ![j] = r]
  <2>1. /\ Owned(a, j) /\ att' = [att EXCEPT ![j][n] = a2] /\ job' = [job EXCEPT ![j] = r]
    BY Zenon DEF Pending, Waiting
  <2> HIDE DEF a2, r, n
  <2> QED BY <2>1, WorksOnJob DEF JobLess
<1> HIDE DEF j
<1>2. /\ job[j].state \in OpenStates /\ att[j][n] \in AttemptRow
      /\ Unsettled(att[j][n]) /\ att[j][n].stage \in OpenStages
  BY <1>1, OwnedOpen
<1>3. a2 \in AttemptRow /\ Unsettled(a2) /\ a2.stage \in OpenStages
  <2> HIDE DEF n
  <2> QED BY <1>2, PolledRow
<1>4. state \in JobStates /\ state \in OpenStates /\ error \in Errors /\ FALSE \in BOOLEAN
  BY Zenon DEF JobStates, OpenStates, Errors
<1> HIDE DEF state, error
<1>5. r \in JobRow /\ r.state = state /\ SameRound(job[j], r)
  BY <1>1, <1>4, StoppedRow, Zenon
<1> HIDE DEF a2, r, n
<1>6. GenStep(att, [job EXCEPT ![j] = r], [att EXCEPT ![j][job[j].attempts] = a2])
  BY <1>1, <1>2, <1>3, <1>4, <1>5, AttemptStaysOpen DEF n
<1> QED BY <1>1, <1>6 DEF n

LEMMA SaveResultGen ==
  ASSUME IInv, NEW a \in Actors, SaveResult(a)
  PROVE  GenStep(att, job', att')
<1> DEFINE j == actor[a].job
           n == job[j].attempts
           a2 == Settled(att[j][n], remote[j][n].cost)
           r1 == Unleased(job[j], "result_ready")
           r == [r1 EXCEPT !.result = actor[a].answer]
<1>1. /\ j \in Jobs /\ GenOK(job, att) /\ job[j] \in JobRow /\ Owned(a, j)
      /\ att' = [att EXCEPT ![j][n] = a2] /\ job' = [job EXCEPT ![j] = r]
  BY WorksOnJob DEF SaveResult, JobLess
<1>2. job[j].state \in OpenStates /\ att[j][n] \in AttemptRow /\ n \in AttemptIds
  BY <1>1, OwnedOpen
<1>3. remote[j][n].cost \in Nat
  <2>1. remote[j][n] \in RemoteRow
    BY <1>1, <1>2 DEF IInv, ProcessesOK, RemoteOK
  <2> QED BY <2>1 DEF RemoteRow
<1>4. a2 \in AttemptRow /\ ~Unsettled(a2) /\ a2.stage \in ClosedStages
  BY <1>2, <1>3, SettledRow, Zenon DEF ClosedStages
<1>5. r1 \in JobRow /\ r1.state = "result_ready" /\ SameRound(job[j], r1)
  <2>1. "result_ready" \in JobStates
    BY Zenon DEF JobStates, IdleStates
  <2> QED BY <1>1, <2>1, UnleasedRow
<1> HIDE DEF r1, a2
<1>6. r \in JobRow /\ r.state = "result_ready" /\ SameRound(job[j], r)
  <2>1. actor[a].answer \in Results
    BY Zenon DEF SaveResult, Results
  <2>2. r \in JobRow
    BY <1>5, <2>1, Zenon DEF JobRow
  <2> QED BY <1>5, <2>2, SMT DEF JobRow, SameRound
<1> HIDE DEF r
<1>7. r.state \notin OpenStates /\ r.state # "absent"
  BY <1>6 DEF OpenStates
<1>8. GenStep(att, [job EXCEPT ![j] = r], [att EXCEPT ![j][job[j].attempts] = a2])
  BY <1>1, <1>2, <1>4, <1>6, <1>7, AttemptCloses
<1> QED BY <1>1, <1>8

LEMMA FailGen ==
  ASSUME IInv, NEW a \in Actors, Fail(a)
  PROVE  GenStep(att, job', att')
<1> DEFINE j == actor[a].job
           n == job[j].attempts
           kind == actor[a].answer
           state == FailedState(job[j], kind)
           a2 == Settled(att[j][n], 0)
           r == [Unleased(job[j], state) EXCEPT !.due = FALSE, !.error = "other"]
<1>1. j \in Jobs /\ GenOK(job, att) /\ job[j] \in JobRow
  BY WorksOnJob DEF Fail, JobLess
<1>2. CASE job' = job /\ att' = att
  BY <1>1, <1>2, NothingChanges
<1>3. CASE /\ Owned(a, j) /\ job' = [job EXCEPT ![j] = r]
           /\ att' = IF Uncharged(kind) THEN [att EXCEPT ![j][n] = a2] ELSE att
  <2>1. job[j].state \in OpenStates /\ att[j][n] \in AttemptRow
    BY <1>1, <1>3, OwnedOpen
  <2>2. /\ state \in JobStates /\ state # "absent" /\ "other" \in Errors /\ FALSE \in BOOLEAN
        /\ Uncharged(kind) => state \notin OpenStates
        /\ ~Uncharged(kind) => state \in OpenStates
    BY Zenon DEF FailedState, Uncharged, JobStates, IdleStates, OpenStates, Errors
  <2> HIDE DEF state
  <2>3. r \in JobRow /\ r.state = state /\ SameRound(job[j], r)
    BY <1>1, <2>2, StoppedRow
  <2>4. a2 \in AttemptRow /\ ~Unsettled(a2) /\ a2.stage \in ClosedStages
    BY <2>1, SettledRow DEF ClosedStages
  <2> HIDE DEF r, a2
  <2>5. CASE Uncharged(kind)
    <3>1. GenStep(att, [job EXCEPT ![j] = r], [att EXCEPT ![j][job[j].attempts] = a2])
      BY <1>1, <2>1, <2>2, <2>3, <2>4, <2>5, AttemptCloses
    <3> QED BY <1>3, <2>5, <3>1
  <2>6. CASE ~Uncharged(kind)
    <3>1. GenStep(att, [job EXCEPT ![j] = r], att)
      BY <1>1, <2>1, <2>2, <2>3, <2>6, RowChanges
    <3> QED BY <1>3, <2>6, <3>1
  <2> QED BY <2>5, <2>6
<1> QED BY <1>2, <1>3, Zenon DEF Fail, genVars

LEMMA PublishGen ==
  ASSUME IInv, NEW a \in Actors, Publish(a)
  PROVE  GenStep(att, job', att')
<1> DEFINE j == actor[a].job
           q == job[j]
           Row(state, error) == [q EXCEPT !.state = state, !.error = error]
           r1 == Row("completed", "none")
           r2 == Row("obsolete", StaleError(q))
           r3 == [Row("failed", "other") EXCEPT !.due = TRUE]
           r4 == [Row("waiting_capacity", "other") EXCEPT !.due = FALSE]
<1>1. j \in Jobs /\ GenOK(job, att) /\ q \in JobRow /\ att' = att
  BY WorksOnJob DEF Publish, JobLess
<1>2. CASE job' = job
  BY <1>1, <1>2, NothingChanges
<1>3. ASSUME NEW r \in JobRow, SameRound(q, r), r.state \notin OpenStates, r.state # "absent",
             Publishable(q), job' = [job EXCEPT ![j] = r]
      PROVE  GenStep(att, job', att')
  <2>1. q.state \notin OpenStates
    BY <1>3 DEF Publishable, OpenStates
  <2>2. GenStep(att, [job EXCEPT ![j] = r], att)
    BY <1>1, <1>3, <2>1, RowChanges
  <2> QED BY <1>1, <1>3, <2>2
<1>4. ASSUME NEW state \in {"completed", "obsolete", "failed", "waiting_capacity"},
             NEW error \in Errors
      PROVE  /\ Row(state, error) \in JobRow /\ SameRound(q, Row(state, error))
             /\ Row(state, error).state \notin OpenStates /\ Row(state, error).state # "absent"
  <2>1. state \in JobStates
    BY Zenon DEF JobStates, IdleStates
  <2>2. Row(state, error) \in JobRow
    BY <1>1, <2>1, Zenon DEF JobRow
  <2>3. SameRound(q, Row(state, error)) /\ Row(state, error).state = state
    BY <1>1, SMT DEF JobRow, SameRound
  <2> QED BY <2>2, <2>3 DEF OpenStates
<1>5. ASSUME NEW r \in JobRow, SameRound(q, r), r.state \notin OpenStates, r.state # "absent",
             NEW due \in BOOLEAN
      PROVE  LET rd == [r EXCEPT !.due = due]
             IN  /\ rd \in JobRow /\ SameRound(q, rd)
                 /\ rd.state \notin OpenStates /\ rd.state # "absent"
  <2>1. [r EXCEPT !.due = due] \in JobRow
    BY Zenon DEF JobRow
  <2> QED BY <1>5, <2>1, SMT DEF JobRow, SameRound
<1>6. {"none", "other", StaleError(q)} \subseteq Errors
  BY Zenon DEF Errors, StaleError
<1>7. CASE Publishes(j) /\ job' = [job EXCEPT ![j] = r1]
  <2>1. Publishable(q)
    BY <1>7 DEF Publishes
  <2>2. r1 \in JobRow /\ SameRound(q, r1) /\ r1.state \notin OpenStates /\ r1.state # "absent"
    BY <1>4, <1>6, Zenon
  <2> QED BY <1>3, <1>7, <2>1, <2>2
<1>8. CASE Publishable(q) /\ job' = [job EXCEPT ![j] = Withheld(j)]
  <2>1. Withheld(j) = r2 \/ Withheld(j) = r3 \/ Withheld(j) = r4
    <3>1. r3 = [q EXCEPT !.state = "failed", !.error = "other", !.due = TRUE]
      OBVIOUS
    <3>2. r4 = [q EXCEPT !.state = "waiting_capacity", !.error = "other", !.due = FALSE]
      OBVIOUS
    <3> QED BY <3>1, <3>2, Zenon DEF Withheld
  <2>2. r2 \in JobRow /\ SameRound(q, r2) /\ r2.state \notin OpenStates /\ r2.state # "absent"
    BY <1>4, <1>6, Zenon
  <2>3. r3 \in JobRow /\ SameRound(q, r3) /\ r3.state \notin OpenStates /\ r3.state # "absent"
    <3> DEFINE r == Row("failed", "other")
    <3>1. r \in JobRow /\ SameRound(q, r) /\ r.state \notin OpenStates /\ r.state # "absent"
      BY <1>4, <1>6, Zenon
    <3> HIDE DEF r
    <3>2. LET rd == [r EXCEPT !.due = TRUE]
          IN  /\ rd \in JobRow /\ SameRound(q, rd)
              /\ rd.state \notin OpenStates /\ rd.state # "absent"
      BY <1>5, <3>1, Zenon
    <3> QED BY <3>2 DEF r
  <2>4. r4 \in JobRow /\ SameRound(q, r4) /\ r4.state \notin OpenStates /\ r4.state # "absent"
    <3> DEFINE r == Row("waiting_capacity", "other")
    <3>1. r \in JobRow /\ SameRound(q, r) /\ r.state \notin OpenStates /\ r.state # "absent"
      BY <1>4, <1>6, Zenon
    <3> HIDE DEF r
    <3>2. LET rd == [r EXCEPT !.due = FALSE]
          IN  /\ rd \in JobRow /\ SameRound(q, rd)
              /\ rd.state \notin OpenStates /\ rd.state # "absent"
      BY <1>5, <3>1, Zenon
    <3> QED BY <3>2 DEF r
  <2> DEFINE w == Withheld(j)
  <2>5. w \in JobRow /\ SameRound(q, w) /\ w.state \notin OpenStates /\ w.state # "absent"
    BY <2>1, <2>2, <2>3, <2>4, Zenon
  <2>6. job' = [job EXCEPT ![j] = w]
    BY <1>8
  <2> HIDE DEF w
  <2> QED BY <1>3, <1>8, <2>5, <2>6
<1> QED BY <1>2, <1>7, <1>8, Zenon DEF Publish

LEMMA TakeOverGen ==
  ASSUME IInv, NEW o \in Actors, TakeOver(o)
  PROVE  GenStep(att, job', att')
<1> DEFINE j == actor[o].job
           n == job[j].attempts
           r1 == Leased(job[j], o)
           r == [r1 EXCEPT !.error = "none"]
           a2 == [att[j][n] EXCEPT !.polls = 0]
<1>1. /\ j \in Jobs /\ GenOK(job, att) /\ job[j] \in JobRow
      /\ actor[o].seen \in OpenStates
  <2>1. actor[o].pc = "reconciling" /\ actor[o].pc \notin JobLess
    BY StartsAt DEF JobLess
  <2>2. j \in Jobs /\ GenOK(job, att) /\ job[j] \in JobRow
    BY <2>1, WorksOnJob
  <2>3. actor[o].seen \in OpenStates
    BY <2>1, Zenon DEF IInv, ProcessesOK, ActorsOK
  <2> QED BY <2>2, <2>3
<1>4. IF StillAsRead(o)
      THEN job' = [job EXCEPT ![j] = r] /\ att' = [att EXCEPT ![j][actor[o].attempt].polls = 0]
      ELSE job' = job /\ att' = att
  BY Zenon DEF TakeOver, genVars
<1>5. StillAsRead(o) => job[j].state = actor[o].seen /\ actor[o].attempt = n
  BY Zenon DEF StillAsRead
<1> HIDE DEF j
<1>2. CASE job' = job /\ att' = att
  BY <1>1, <1>2, NothingChanges
<1>3. CASE /\ StillAsRead(o) /\ job' = [job EXCEPT ![j] = r]
           /\ att' = [att EXCEPT ![j][actor[o].attempt].polls = 0]
  <2>1. job[j].state \in OpenStates /\ actor[o].attempt = n
    BY <1>1, <1>3, <1>5, Zenon
  <2>2. /\ att[j][n] \in AttemptRow /\ Unsettled(att[j][n])
        /\ att[j][n].stage \in OpenStages
    BY <1>1, <2>1, LatestOpen DEF Latest
  <2>3. a2 \in AttemptRow
    BY <2>2, Bounds, Zenon DEF AttemptRow
  <2>4. Unsettled(a2) /\ a2.stage \in OpenStages
    <3> HIDE DEF n
    <3> QED BY <2>2, SMT DEF AttemptRow, Unsettled
  <2>5. att' = [att EXCEPT ![j][n] = a2]
    BY <1>3, <2>1
  <2>6. r1 \in JobRow /\ r1.state = "running" /\ SameRound(job[j], r1)
    BY <1>1, LeasedRow
  <2> HIDE DEF r1, a2
  <2>7. r \in JobRow
    <3>1. "none" \in Errors
      BY Zenon DEF Errors
    <3> QED BY <2>6, <3>1, Zenon DEF JobRow
  <2>8. SameRound(job[j], r) /\ r.state \in OpenStates
    BY <2>6, <2>7, SMT DEF JobRow, SameRound, OpenStates
  <2> HIDE DEF r
  <2>9. GenStep(att, [job EXCEPT ![j] = r], [att EXCEPT ![j][job[j].attempts] = a2])
    BY <1>1, <2>1, <2>3, <2>4, <2>7, <2>8, AttemptStaysOpen
  <2> QED BY <1>3, <2>5, <2>9
<1> QED BY <1>2, <1>3, <1>4

LEMMA StepGen ==
  ASSUME IInv, NEW a \in Actors, Step(a)
  PROVE  GenStep(att, job', att')
<1>1. GenOK(job, att)
  BY DEF IInv
<1>2. CASE UNCHANGED <<job, att>>
  BY <1>1, <1>2, NothingChanges
<1>3. CASE \/ StartRun(a) \/ RefuseRun(a) \/ Submit(a) \/ Generate(a) \/ Retrieve(a)
           \/ Unusable(a) \/ LostClaim(a)
  <2>1. UNCHANGED <<job, att>>
    BY <1>3, Zenon DEF StartRun, RefuseRun, Submit, Generate, Retrieve, Unusable, LostClaim,
                       storeVars, genVars
  <2> QED BY <1>2, <2>1
<1>4. CASE Resume(a)
  BY <1>4, ResumeGen
<1>5. CASE Claim(a)
  BY <1>5, ClaimGen
<1>6. CASE Calling(a)
  BY <1>6, CallingGen
<1>7. CASE CallingRetired(a)
  BY <1>7, CallingRetiredGen
<1>8. CASE Submitted(a)
  BY <1>8, SubmittedGen
<1>9. CASE Poll(a)
  BY <1>9, PendingGen DEF Poll
<1>10. CASE SaveResult(a)
  BY <1>10, SaveResultGen
<1>11. CASE Fail(a)
  BY <1>11, FailGen
<1>12. CASE Publish(a)
  BY <1>12, PublishGen
<1>13. CASE TakeOver(a)
  BY <1>13, TakeOverGen
<1> QED BY <1>3, <1>4, <1>5, <1>6, <1>7, <1>8, <1>9, <1>10, <1>11, <1>12, <1>13, Zenon DEF Step

LEMMA EnvironmentGen ==
  ASSUME IInv, Environment
  PROVE  GenStep(att, job', att')
<1>1. GenOK(job, att)
  BY DEF IInv
<1>2. CASE UNCHANGED <<job, att>>
  BY <1>1, <1>2, NothingChanges
<1>3. ASSUME NEW j \in Jobs, LeaseExpires(j)
      PROVE  GenStep(att, job', att')
  <2> DEFINE r == [job[j] EXCEPT !.lease = "expired"]
  <2>1. job[j] \in JobRow /\ job' = [job EXCEPT ![j] = r] /\ att' = att
    BY <1>1, <1>3, RowTypes DEF LeaseExpires
  <2>2. r \in JobRow
    BY <2>1, Zenon DEF JobRow
  <2>3. SameRound(job[j], r) /\ r.state = job[j].state
    BY <2>1, SMT DEF SameRound, JobRow
  <2> HIDE DEF r
  <2>4. GenStep(att, [job EXCEPT ![j] = r], att)
    BY <1>1, <2>2, <2>3, RowChanges
  <2> QED BY <2>1, <2>4
<1>4. ASSUME NEW j \in Jobs, ComesDue(j)
      PROVE  GenStep(att, job', att')
  <2> DEFINE r == [job[j] EXCEPT !.due = TRUE]
  <2>1. job[j] \in JobRow /\ job' = [job EXCEPT ![j] = r] /\ att' = att
    BY <1>1, <1>4, RowTypes DEF ComesDue
  <2>2. r \in JobRow
    BY <2>1, Zenon DEF JobRow
  <2>3. SameRound(job[j], r) /\ r.state = job[j].state
    BY <2>1, SMT DEF SameRound, JobRow
  <2> HIDE DEF r
  <2>4. GenStep(att, [job EXCEPT ![j] = r], att)
    BY <1>1, <2>2, <2>3, RowChanges
  <2> QED BY <2>1, <2>4
<1>5. CASE \/ \E j \in Jobs, n \in AttemptIds : RemoteFinishes(j, n)
           \/ \E a \in Actors : Crash(a)
           \/ NextMonth \/ CreditExpires
  <2>1. UNCHANGED <<job, att>>
    BY <1>5, Zenon DEF RemoteFinishes, Crash, NextMonth, CreditExpires, storeVars, genVars
  <2> QED BY <1>2, <2>1
<1> QED BY <1>3, <1>4, <1>5, Zenon DEF Environment

\* Every step keeps the generation tables in order and closed attempts as they are.
LEMMA NextGen ==
  ASSUME IInv, [Next]_vars
  PROVE  GenStep(att, job', att')
<1>1. CASE UNCHANGED vars
  BY <1>1, NothingChanges DEF IInv, vars, storeVars, genVars
<1>2. CASE Request
  BY <1>2, RequestGen
<1>3. CASE \E a \in Actors : Step(a)
  BY <1>3, StepGen
<1>4. CASE \E o \in Operators, j \in Jobs : Reconcile(o, j)
  BY <1>4, NothingChanges DEF IInv, Reconcile, storeVars, genVars
<1>5. CASE Environment
  BY <1>5, EnvironmentGen
<1> QED BY <1>1, <1>2, <1>3, <1>4, <1>5, Zenon DEF Next

-----------------------------------------------------------------------------
(* The skill tables and the settings.                                        *)

DraftRow == [rev : 1..MaxRevision, content : Contents]
Revs == Seq(Jobs \cup {Imported})
Batches == Seq([job : Jobs, rev : Nat])

LEMMA SkillTypes ==
  ASSUME SkillsOK, NEW s \in Skills
  PROVE  /\ revisions[s] \in Revs /\ bank[s] \in Batches /\ draft[s] \in DraftRow \cup {None}
         /\ Rev(s) <= MaxRevision /\ Rev(s) \in Nat
         /\ draft[s] # None => draft[s].rev = Rev(s) + 1
<1>1. /\ revisions[s] \in Revs /\ bank[s] \in Batches /\ draft[s] \in DraftRow \cup {None}
      /\ Rev(s) <= MaxRevision
      /\ draft[s] # None => draft[s].rev = Rev(s) + 1
  BY Zenon DEF SkillsOK, Revs, Batches, DraftRow
<1>2. Rev(s) \in Nat
  BY <1>1 DEF Rev, Revs
<1> QED BY <1>1, <1>2

\* A draft appears for the next revision, or goes.
LEMMA DraftChanges ==
  ASSUME SkillsOK, NEW s \in Skills, NEW d, UNCHANGED <<revisions, bank>>,
         draft' = [draft EXCEPT ![s] = d],
         d = None \/ (d \in DraftRow /\ d.rev = Rev(s) + 1)
  PROVE  SkillsOK'
<1>1. draft' \in [Skills -> DraftRow \cup {None}]
  BY Zenon DEF SkillsOK, DraftRow
<1>2. ASSUME NEW t \in Skills, draft'[t] # None
      PROVE  draft'[t].rev = Rev(t) + 1
  <2>1. CASE t = s
    <3>1. draft'[t] = d
      BY <2>1, Zenon DEF SkillsOK
    <3> QED BY <1>2, <2>1, <3>1
  <2>2. CASE t # s
    <3>1. draft'[t] = draft[t]
      BY <2>2, Zenon DEF SkillsOK
    <3> QED BY <1>2, <3>1, SkillTypes
  <2> QED BY <2>1, <2>2
<1>3. ASSUME NEW t \in Skills PROVE Rev(t)' = Rev(t)
  BY DEF Rev
<1> QED BY <1>1, <1>2, <1>3 DEF SkillsOK, DraftRow

\* A revision is published where another may follow; its draft, if any, goes.
LEMMA RevisionAdded ==
  ASSUME SkillsOK, NEW s \in Skills, NEW by \in Jobs \cup {Imported},
         Rev(s) < MaxRevision, bank' = bank,
         revisions' = [revisions EXCEPT ![s] = Append(@, by)],
         draft' = [draft EXCEPT ![s] = None]
  PROVE  SkillsOK'
<1> DEFINE new == Append(revisions[s], by)
<1>1. revisions[s] \in Revs /\ Rev(s) \in Nat
  BY SkillTypes
<1>2. new \in Revs /\ Len(new) = Rev(s) + 1
  BY <1>1 DEF Revs, Rev
<1>3. revisions' = [revisions EXCEPT ![s] = new]
  OBVIOUS
<1> HIDE DEF new
<1>4. revisions' \in [Skills -> Revs]
  BY <1>2, <1>3, Zenon DEF SkillsOK, Revs
<1>5. draft' \in [Skills -> DraftRow \cup {None}]
  BY Zenon DEF SkillsOK, DraftRow
<1>6. ASSUME NEW t \in Skills
      PROVE  Rev(t)' <= MaxRevision /\ (draft'[t] # None => draft'[t].rev = Rev(t)' + 1)
  <2>1. CASE t = s
    <3>1. revisions'[t] = new /\ draft'[t] = None
      BY <1>3, <2>1, Zenon DEF SkillsOK
    <3>2. Rev(t)' = Rev(s) + 1
      BY <1>2, <3>1 DEF Rev
    <3> QED BY <1>1, <3>1, <3>2, BoundsAssumption
  <2>2. CASE t # s
    <3>1. revisions'[t] = revisions[t] /\ draft'[t] = draft[t]
      BY <1>3, <2>2, Zenon DEF SkillsOK
    <3>2. Rev(t)' = Rev(t)
      BY <3>1 DEF Rev
    <3> QED BY <3>1, <3>2, SkillTypes
  <2> QED BY <2>1, <2>2
<1> QED BY <1>4, <1>5, <1>6, Zenon DEF SkillsOK, Revs, DraftRow

LEMMA SkillsUnchanged ==
  ASSUME SkillsOK, UNCHANGED <<revisions, bank, draft>>
  PROVE  SkillsOK'
BY DEF SkillsOK, Rev

\* publish writes the next revision only for a job whose draft is the current one.
LEMMA PublishSkills ==
  ASSUME IInv, NEW a \in Actors, Publish(a)
  PROVE  SkillsOK'
<1> DEFINE j == actor[a].job
           s == job[j].skill
<1>1. j \in Jobs /\ job[j] \in JobRow /\ SkillsOK
  BY WorksOnJob DEF Publish, JobLess, IInv
<1>2. CASE UNCHANGED <<revisions, bank, draft>>
  BY <1>1, <1>2, SkillsUnchanged
<1>3. CASE Publishes(j) /\ job[j].kind = "draft" /\ revisions' = PublishedRevisions(j)
           /\ bank' = PublishedBank(j) /\ draft' = PublishedDraft(j)
  <2>1. /\ revisions' = [revisions EXCEPT ![s] = Append(@, j)] /\ bank' = bank
        /\ draft' = [draft EXCEPT ![s] = None]
    BY <1>3, Zenon DEF PublishedRevisions, PublishedBank, PublishedDraft
  <2>2. CASE s \in Skills
    <3>1. draft[s] = [rev |-> job[j].rev, content |-> job[j].content]
      BY <1>3, Zenon DEF Publishes, Current
    <3>2. draft[s] # None
      <4>1. job[j].rev \in Nat /\ job[j].content \in Contents \cup {None}
        BY <1>1, BoundsAssumption DEF JobRow
      <4> QED BY <3>1, <4>1, SkillsAssumption
    <3>3. draft[s] \in DraftRow /\ draft[s].rev = Rev(s) + 1 /\ Rev(s) \in Nat
      BY <1>1, <2>2, <3>2, SkillTypes
    <3>4. Rev(s) < MaxRevision
      BY <3>3, BoundsAssumption DEF DraftRow
    <3> QED BY <1>1, <2>1, <2>2, <3>4, RevisionAdded
  <2>3. CASE s \notin Skills
    <3>1. revisions' = revisions /\ draft' = draft
      BY <1>1, <2>1, <2>3, Zenon DEF SkillsOK
    <3> QED BY <1>1, <2>1, <3>1, SkillsUnchanged
  <2> QED BY <2>2, <2>3
<1>4. CASE job[j].kind # "draft" /\ revisions' = PublishedRevisions(j)
           /\ bank' = PublishedBank(j) /\ draft' = PublishedDraft(j)
  <2> DEFINE new == Append(bank[s], [job |-> j, rev |-> job[j].rev])
  <2>1. /\ revisions' = revisions /\ draft' = draft
        /\ bank' = [bank EXCEPT ![s] = new]
    BY <1>4 DEF PublishedRevisions, PublishedBank, PublishedDraft
  <2>2. s \in Skills => new \in Batches
    <3>1. job[j].rev \in Nat
      BY <1>1, BoundsAssumption DEF JobRow
    <3>2. s \in Skills => bank[s] \in Batches
      BY <1>1, SkillTypes
    <3> QED BY <1>1, <3>1, <3>2 DEF Batches
  <2> HIDE DEF new
  <2>3. bank' \in [Skills -> Batches]
    <3>1. bank \in [Skills -> Batches]
      BY <1>1 DEF SkillsOK, Batches
    <3> QED BY <2>1, <2>2, <3>1
  <2> QED BY <1>1, <2>1, <2>3 DEF SkillsOK, Batches, Rev
<1> QED BY <1>2, <1>3, <1>4, Zenon DEF Publish

LEMMA RequestSkills ==
  ASSUME IInv, Request
  PROVE  SkillsOK'
<1>1. SkillsOK
  BY DEF IInv
<1>2. CASE UNCHANGED <<revisions, bank, draft>>
  BY <1>1, <1>2, SkillsUnchanged
<1>3. ASSUME NEW j \in Jobs, NEW s \in Skills, NEW c \in Contents, NEW p \in Providers,
             SaveDraft(j, s, c, p)
      PROVE  SkillsOK'
  <2> DEFINE d == [rev |-> Rev(s) + 1, content |-> c]
  <2>1. Rev(s) \in Nat /\ Rev(s) < MaxRevision
    BY <1>1, <1>3, SkillTypes DEF SaveDraft, RevisionOpen
  <2>2. d \in DraftRow /\ d.rev = Rev(s) + 1
    BY <2>1, BoundsAssumption DEF DraftRow
  <2>3. draft' = [draft EXCEPT ![s] = d] /\ UNCHANGED <<revisions, bank>>
    BY <1>3 DEF SaveDraft
  <2> HIDE DEF d
  <2> QED BY <1>1, <2>2, <2>3, DraftChanges
<1>4. ASSUME NEW s, draft' = [draft EXCEPT ![s] = None], UNCHANGED <<revisions, bank>>
      PROVE  SkillsOK'
  <2>1. CASE s \in Skills
    <3> DEFINE d == None
    <3>1. d = None /\ draft' = [draft EXCEPT ![s] = d] /\ UNCHANGED <<revisions, bank>>
      BY <1>4
    <3> HIDE DEF d
    <3> QED BY <1>1, <2>1, <3>1, DraftChanges
  <2>2. CASE s \notin Skills
    <3>1. draft' = draft
      BY <1>1, <1>4, <2>2, Zenon DEF SkillsOK
    <3> QED BY <1>2, <1>4, <3>1
  <2> QED BY <2>1, <2>2
<1>5. CASE \E j \in Jobs, s \in Skills : Enqueue(j, s, RefillProvider)
  BY <1>2, <1>5 DEF Enqueue, worldVars, skillVars
<1>6. CASE \E j \in Jobs, s \in Skills, c \in Contents :
             CreateSkill(j, s, c, RefillProvider) \/ EditSkill(j, s, c, RefillProvider)
  BY <1>3, <1>6, OfferedAssumption DEF CreateSkill, EditSkill
<1>7. CASE \E j \in Jobs : DiscardSkillRequest(j)
  <2>1. PICK j \in Jobs : DiscardSkillRequest(j)
    BY <1>7
  <2>2. CASE draft' = draft
    BY <1>2, <2>1, <2>2 DEF DiscardSkillRequest
  <2>3. CASE draft' = [draft EXCEPT ![job[j].skill] = None]
    BY <1>4, <2>1, <2>3 DEF DiscardSkillRequest
  <2> QED BY <2>1, <2>2, <2>3, Zenon DEF DiscardSkillRequest
<1>8. CASE \E s \in Skills, waited \in BOOLEAN : RequestRefill(s, RefillProvider, waited)
  BY <1>4, <1>8, Zenon DEF RequestRefill
<1>9. CASE \E s \in Skills : ImportRevision(s)
  <2>1. PICK s \in Skills : ImportRevision(s)
    BY <1>9
  <2>2. /\ revisions' = [revisions EXCEPT ![s] = Append(@, Imported)]
        /\ bank' = bank /\ draft' = draft /\ draft[s] = None /\ Rev(s) < MaxRevision
    BY <2>1 DEF ImportRevision, RevisionOpen
  <2>3. draft' = [draft EXCEPT ![s] = None]
    BY <1>1, <2>2, Zenon DEF SkillsOK
  <2> QED BY <1>1, <2>2, <2>3, RevisionAdded
<1>10. CASE \/ \E s \in Skills : RetireSkill(s) \/ RestoreSkill(s)
            \/ \E amount \in Limits : ConfigureBudget(amount)
            \/ \E size \in StoreLimits : ConfigureLimits(size)
            \/ \E j \in Jobs : ConfirmedRelease(j)
            \/ RetireSource \/ AbandonRetiredClaims
  BY <1>2, <1>10, Zenon DEF RetireSkill, RestoreSkill, ConfigureBudget, ConfigureLimits,
       ConfirmedRelease, Release, RetireSource, AbandonRetiredClaims, worldVars, skillVars
<1> QED BY <1>5, <1>6, <1>7, <1>8, <1>9, <1>10, Zenon DEF Request

\* A process never touches the settings, the clock or the markers, and only
\* publish writes the skill tables.
LEMMA StepWorld ==
  ASSUME NEW a \in Actors, Step(a)
  PROVE  /\ UNCHANGED <<retired, limit, storeLimit, creditLive, month, sourceRetired>>
         /\ Publish(a) \/ UNCHANGED <<revisions, bank, draft>>
<1>1. CASE Publish(a)
  BY <1>1, Zenon DEF Publish, configVars, clockVars
<1>2. CASE \/ StartRun(a) \/ RefuseRun(a) \/ Submit(a) \/ Generate(a) \/ Retrieve(a)
           \/ Unusable(a) \/ LostClaim(a)
  <2>1. UNCHANGED storeVars
    BY <1>2, Zenon DEF StartRun, RefuseRun, Submit, Generate, Retrieve, Unusable, LostClaim
  <2> QED BY <2>1, Zenon DEF storeVars, worldVars, skillVars, configVars, clockVars
<1>3. CASE \/ Resume(a) \/ Claim(a) \/ Calling(a) \/ CallingRetired(a) \/ Submitted(a)
           \/ Poll(a) \/ SaveResult(a) \/ Fail(a) \/ TakeOver(a)
  <2>1. UNCHANGED worldVars
    BY <1>3, Zenon DEF Resume, Claim, Calling, CallingRow, CallingRetired, Submitted, Poll,
         SaveResult, Fail, TakeOver
  <2> QED BY <2>1, Zenon DEF worldVars, skillVars, configVars, clockVars
<1> QED BY <1>1, <1>2, <1>3, Zenon DEF Step

\* The settings, the clock and the markers keep their types.
LEMMA NextSettings ==
  ASSUME IInv, [Next]_vars
  PROVE  SettingsOK'
<1>1. SettingsOK
  BY DEF IInv
<1>2. CASE UNCHANGED <<retired, limit, storeLimit, creditLive, month, sourceRetired>>
  BY <1>1, <1>2 DEF SettingsOK
<1>3. CASE Request
  <2>1. CASE \/ \E j \in Jobs, s \in Skills : Enqueue(j, s, RefillProvider)
             \/ \E s \in Skills, waited \in BOOLEAN : RequestRefill(s, RefillProvider, waited)
    BY <1>2, <2>1, Zenon DEF Enqueue, RequestRefill, worldVars, skillVars, configVars, clockVars
  <2>2. CASE \E j \in Jobs, s \in Skills, c \in Contents :
               CreateSkill(j, s, c, RefillProvider) \/ EditSkill(j, s, c, RefillProvider)
    <3>1. ASSUME NEW j, NEW s, NEW c, CreateSkill(j, s, c, RefillProvider)
          PROVE  UNCHANGED <<retired, limit, storeLimit, creditLive, month, sourceRetired>>
      BY <3>1, Zenon DEF CreateSkill, SaveDraft, configVars, clockVars
    <3>2. ASSUME NEW j, NEW s, NEW c, EditSkill(j, s, c, RefillProvider)
          PROVE  UNCHANGED <<retired, limit, storeLimit, creditLive, month, sourceRetired>>
      BY <3>2, Zenon DEF EditSkill, SaveDraft, configVars, clockVars
    <3> QED BY <1>2, <2>2, <3>1, <3>2, Zenon
  <2>3. CASE \E j \in Jobs : DiscardSkillRequest(j) \/ ConfirmedRelease(j)
    BY <1>2, <2>3, Zenon DEF DiscardSkillRequest, ConfirmedRelease, Release, worldVars,
         skillVars, configVars, clockVars
  <2>4. CASE (\E s \in Skills : ImportRevision(s)) \/ AbandonRetiredClaims
    BY <1>2, <2>4, Zenon DEF ImportRevision, AbandonRetiredClaims, worldVars, skillVars,
         configVars, clockVars
  <2>5. CASE \E s \in Skills : RetireSkill(s) \/ RestoreSkill(s)
    BY <1>1, <2>5 DEF RetireSkill, RestoreSkill, SettingsOK, configVars, clockVars
  <2>6. CASE \/ \E amount \in Limits : ConfigureBudget(amount)
             \/ \E size \in StoreLimits : ConfigureLimits(size)
    BY <1>1, <2>6 DEF ConfigureBudget, ConfigureLimits, SettingsOK, skillVars, clockVars
  <2>7. CASE RetireSource
    BY <1>1, <2>7 DEF RetireSource, SettingsOK, skillVars, configVars, clockVars
  <2> QED BY <1>3, <2>1, <2>2, <2>3, <2>4, <2>5, <2>6, <2>7, Zenon DEF Request
<1>4. CASE \/ \E a \in Actors : Step(a)
           \/ \E o \in Operators, j \in Jobs : Reconcile(o, j)
           \/ UNCHANGED vars
  <2>1. CASE \E a \in Actors : Step(a)
    BY <1>2, <2>1, StepWorld
  <2>2. CASE UNCHANGED vars \/ \E o \in Operators, j \in Jobs : Reconcile(o, j)
    BY <1>2, <2>2, Zenon DEF Reconcile, vars, storeVars, worldVars, skillVars, configVars,
         clockVars
  <2> QED BY <1>4, <2>1, <2>2
<1>5. CASE \/ \E j \in Jobs, n \in AttemptIds : RemoteFinishes(j, n)
           \/ \E a \in Actors : Crash(a)
           \/ \E j \in Jobs : LeaseExpires(j) \/ ComesDue(j)
  BY <1>2, <1>5, Zenon DEF RemoteFinishes, Crash, LeaseExpires, ComesDue, storeVars, worldVars,
       skillVars, configVars, clockVars
<1>6. CASE NextMonth \/ CreditExpires
  <2>1. MaxMonth \in Nat
    BY BoundsAssumption
  <2>2. CASE NextMonth
    BY <1>1, <2>1, <2>2 DEF NextMonth, SettingsOK, skillVars, configVars
  <2>3. CASE CreditExpires
    BY <1>1, <2>3 DEF CreditExpires, SettingsOK, skillVars, configVars
  <2> QED BY <1>6, <2>2, <2>3
<1> QED BY <1>3, <1>4, <1>5, <1>6, Zenon DEF Next, Environment

LEMMA NextSkills ==
  ASSUME IInv, [Next]_vars
  PROVE  SkillsOK'
<1>1. SkillsOK
  BY DEF IInv
<1>2. CASE UNCHANGED <<revisions, bank, draft>>
  BY <1>1, <1>2, SkillsUnchanged
<1>3. CASE \E a \in Actors : Step(a)
  BY <1>2, <1>3, PublishSkills, StepWorld
<1>4. CASE \/ \E o \in Operators, j \in Jobs : Reconcile(o, j)
           \/ Environment \/ UNCHANGED vars
  BY <1>2, <1>4, Zenon DEF Reconcile, Environment, RemoteFinishes, Crash, LeaseExpires, ComesDue,
       NextMonth, CreditExpires, vars, storeVars, worldVars, skillVars
<1> QED BY <1>3, <1>4, RequestSkills, Zenon DEF Next

-----------------------------------------------------------------------------
(* The processes and the provider.                                           *)

\* A process moves to a row that keeps ActorsOK.
LEMMA ActorMoves ==
  ASSUME ActorsOK, NEW a \in Actors, NEW r \in ActorRow, actor' = [actor EXCEPT ![a] = r],
         r.pc \notin JobLess => r.job \in Jobs,
         r.pc = "retrieving" => r.attempt \in AttemptIds,
         r.pc = "reconciling" => r.seen \in OpenStates
  PROVE  ActorsOK'
<1>1. actor' \in [Actors -> ActorRow]
  BY Zenon DEF ActorsOK
<1>2. ASSUME NEW b \in Actors
      PROVE  /\ actor'[b].pc \notin JobLess => actor'[b].job \in Jobs
             /\ actor'[b].pc = "retrieving" => actor'[b].attempt \in AttemptIds
             /\ actor'[b].pc = "reconciling" => actor'[b].seen \in OpenStates
  <2>1. CASE b = a
    <3>1. actor'[b] = r
      BY <2>1, Zenon DEF ActorsOK
    <3> QED BY <3>1
  <2>2. CASE b # a
    <3>1. actor'[b] = actor[b]
      BY <2>2, Zenon DEF ActorsOK
    <3> QED BY <3>1 DEF ActorsOK
  <2> QED BY <2>1, <2>2
<1> QED BY <1>1, <1>2 DEF ActorsOK

LEMMA IdleRow == Idle \in ActorRow /\ Idle.pc = "idle" /\ Idle.job = None
<1>1. "idle" \in Pcs /\ "absent" \in JobStates
  BY Zenon DEF Pcs, JobStates
<1> QED BY <1>1, Bounds, SMT DEF Idle, ActorRow

LEMMA StopOK ==
  ASSUME ActorsOK, NEW a \in Actors, Stop(a)
  PROVE  ActorsOK'
<1>1. Idle.pc \in JobLess /\ Idle.pc \notin {"reconciling", "retrieving"}
  BY IdleRow DEF JobLess
<1> QED BY <1>1, IdleRow, ActorMoves DEF Stop

\* The process goes on with what it holds.
LEMMA GotoOK ==
  ASSUME ActorsOK, NEW a \in Actors, NEW pc \in Pcs \ {"reconciling", "retrieving"},
         pc \notin JobLess => actor[a].pc \notin JobLess,
         \/ Goto(a, pc)
         \/ \E answer \in Replies \cup FailureKinds : GotoWith(a, pc, answer)
  PROVE  ActorsOK'
<1>1. actor[a] \in ActorRow /\ (pc \notin JobLess => actor[a].job \in Jobs)
  BY DEF ActorsOK
<1>2. CASE Goto(a, pc)
  <2> DEFINE r == [actor[a] EXCEPT !.pc = pc]
  <2>1. r \in ActorRow
    BY <1>1, Zenon DEF ActorRow
  <2>2. r.pc = pc /\ r.job = actor[a].job
    BY <1>1, SMT DEF ActorRow
  <2>3. actor' = [actor EXCEPT ![a] = r]
    BY <1>2 DEF Goto
  <2> HIDE DEF r
  <2> QED BY <1>1, <2>1, <2>2, <2>3, ActorMoves
<1>3. ASSUME NEW answer \in Replies \cup FailureKinds, GotoWith(a, pc, answer)
      PROVE  ActorsOK'
  <2> DEFINE r == [actor[a] EXCEPT !.pc = pc, !.answer = answer]
  <2>1. r \in ActorRow
    BY <1>1, Zenon DEF ActorRow
  <2>2. r.pc = pc /\ r.job = actor[a].job
    BY <1>1, SMT DEF ActorRow
  <2>3. actor' = [actor EXCEPT ![a] = r]
    BY <1>3 DEF GotoWith
  <2> HIDE DEF r
  <2> QED BY <1>1, <2>1, <2>2, <2>3, ActorMoves
<1> QED BY <1>2, <1>3

\* The process starts on a job.
LEMMA StartOK ==
  ASSUME ActorsOK, NEW a \in Actors, NEW pc \in Pcs \ {"reconciling"}, NEW j \in Jobs,
         NEW n \in AttemptIds,
         actor' = [actor EXCEPT ![a] = [Idle EXCEPT !.pc = pc, !.job = j, !.attempt = n]]
  PROVE  ActorsOK'
<1> DEFINE r == [Idle EXCEPT !.pc = pc, !.job = j, !.attempt = n]
<1>1. r \in ActorRow
  BY IdleRow, Bounds, Zenon DEF ActorRow
<1>2. r.pc = pc /\ r.job = j /\ r.attempt = n
  BY IdleRow, SMT DEF ActorRow
<1>3. actor' = [actor EXCEPT ![a] = r]
  OBVIOUS
<1> HIDE DEF r
<1> QED BY <1>1, <1>2, <1>3, ActorMoves

LEMMA PcTypes ==
  /\ {"publishing", "republishing", "resuming", "claiming", "claimed", "calling", "answered",
      "unread", "holding", "failing"} \subseteq Pcs \ {"reconciling", "retrieving"}
  /\ {"claimed", "retrieving"} \subseteq Pcs \ {"reconciling"}
  /\ JobLess \subseteq Pcs \ {"reconciling", "retrieving"}
  /\ {"good", "bad", "uncertain", "terminal", "retry", "billing"} \subseteq Replies \cup FailureKinds
BY Zenon DEF Pcs, JobLess, Replies, Finished, FailureKinds

LEMMA StepActors ==
  ASSUME IInv, NEW a \in Actors, Step(a)
  PROVE  ActorsOK'
<1>1. ActorsOK /\ GenOK(job, att)
  BY DEF IInv, ProcessesOK
<1>2. CASE Stop(a)
  BY <1>1, <1>2, StopOK
<1>3. ASSUME NEW pc \in Pcs \ {"reconciling", "retrieving"},
             actor[a].pc \notin JobLess \/ pc \in JobLess,
             \/ Goto(a, pc)
             \/ \E answer \in Replies \cup FailureKinds : GotoWith(a, pc, answer)
      PROVE  ActorsOK'
  BY <1>1, <1>3, GotoOK
<1>4. CASE StartRun(a)
  <2>1. CASE Goto(a, "resuming")
    BY <1>3, <2>1, PcTypes DEF JobLess
  <2>2. ASSUME NEW j \in Jobs,
               actor' = [actor EXCEPT ![a] = [@ EXCEPT !.pc = "publishing", !.job = j]]
        PROVE  ActorsOK'
    <3> DEFINE r == [actor[a] EXCEPT !.pc = "publishing", !.job = j]
    <3>1. actor[a] \in ActorRow /\ "publishing" \in Pcs
      BY <1>1, PcTypes DEF ActorsOK
    <3>2. r \in ActorRow
      BY <3>1, Zenon DEF ActorRow
    <3>3. r.pc = "publishing" /\ r.job = j
      BY <3>1, SMT DEF ActorRow
    <3>4. actor' = [actor EXCEPT ![a] = r]
      BY <2>2
    <3> HIDE DEF r
    <3> QED BY <1>1, <3>2, <3>3, <3>4, ActorMoves
  <2> QED BY <1>4, <2>1, <2>2, Zenon DEF StartRun, ReadyToPublish
<1>5. CASE Resume(a)
  <2>1. CASE Goto(a, "claiming")
    BY <1>3, <2>1, PcTypes DEF JobLess
  <2>2. CASE \E j \in Resumable(RecoverJobs, a) :
               actor' = [actor EXCEPT ![a] =
                 [Idle EXCEPT !.pc = "retrieving", !.job = j, !.attempt = job[j].attempts]]
    <3>1. PICK j \in Resumable(RecoverJobs, a) :
               actor' = [actor EXCEPT ![a] =
                 [Idle EXCEPT !.pc = "retrieving", !.job = j, !.attempt = job[j].attempts]]
      BY <2>2
    <3>2. j \in Jobs
      BY DEF Resumable
    <3>3. job[j].attempts \in AttemptIds
      <4>1. RecoverJobs[j].state \in OpenStates /\ GenOK(RecoverJobs, RecoverAttempts)
        BY <1>1, RecoverGen DEF Resumable, OpenStates, GenStep
      <4>2. RecoverJobs[j].attempts \in AttemptIds
        BY <3>2, <4>1, LatestOpen
      <4>3. RecoverJobs[j].attempts = job[j].attempts
        BY <1>1, <3>2, RecoverRounds DEF SameRound
      <4> QED BY <4>2, <4>3
    <3> QED BY <1>1, <3>1, <3>2, <3>3, PcTypes, StartOK
  <2> QED BY <1>5, <2>1, <2>2, Zenon DEF Resume
<1>6. CASE Claim(a)
  <2>1. ASSUME NEW j \in Claimable(RecoverJobs),
               Verdict(RecoverJobs, RecoverAttempts, j, a) = "running",
               actor' = [actor EXCEPT ![a] =
                 [Idle EXCEPT !.pc = "claimed", !.job = j, !.attempt = RecoverJobs[j].attempts + 1]]
        PROVE  ActorsOK'
    <3>1. GenOK(RecoverJobs, RecoverAttempts)
      BY <1>1, RecoverGen DEF GenStep
    <3>2. j \in Jobs /\ RecoverJobs[j].attempts + 1 \in AttemptIds
      BY <2>1, <3>1, LeasableRow
    <3> QED BY <1>1, <2>1, <3>2, PcTypes, StartOK
  <2> QED BY <1>2, <1>6, <2>1, Zenon DEF Claim
<1>7. CASE Submit(a)
  <2> DEFINE j == actor[a].job
             n == job[j].attempts
             r == [actor[a] EXCEPT !.pc = "answered", !.attempt = n, !.answer = "working",
                                   !.posted = TRUE]
  <2>1. actor[a].pc \notin JobLess
    BY <1>7 DEF Submit, JobLess
  <2>2. CASE \E kind \in {"retry", "terminal", "uncertain"} : GotoWith(a, "failing", kind)
    BY <1>3, <2>1, <2>2, PcTypes
  <2>3. CASE actor' = [actor EXCEPT ![a] = r]
    <3>1. actor[a] \in ActorRow /\ actor[a].job \in Jobs
      BY <1>1, <2>1 DEF ActorsOK
    <3>2. n \in 0..LastAttempt
      BY <1>1, <3>1, RowTypes DEF JobRow
    <3>3. "answered" \in Pcs /\ "working" \in Replies
      BY PcTypes DEF Replies
    <3>4. r \in ActorRow
      BY <3>1, <3>2, <3>3, Zenon DEF ActorRow
    <3>5. r.pc = "answered" /\ r.job = actor[a].job
      BY <3>1, SMT DEF ActorRow
    <3> HIDE DEF r
    <3> QED BY <1>1, <2>3, <3>1, <3>4, <3>5, ActorMoves
  <2>4. GotoWith(a, "failing", "uncertain") =>
          \E kind \in {"retry", "terminal", "uncertain"} : GotoWith(a, "failing", kind)
    OBVIOUS
  <2> QED BY <1>7, <2>2, <2>3, <2>4, Zenon DEF Submit
<1>8. CASE actor[a].pc \notin JobLess /\
           \E pc \in {"republishing", "calling", "holding", "unread", "answered", "publishing"} :
             Goto(a, pc)
  BY <1>3, <1>8, PcTypes
<1>9. CASE actor[a].pc \notin JobLess /\
           \E pc \in {"failing", "holding"}, answer \in Replies \cup FailureKinds :
             GotoWith(a, pc, answer)
  BY <1>3, <1>9, PcTypes
<1>10. CASE RefuseRun(a) \/ LostClaim(a) \/ CallingRetired(a) \/ Fail(a)
  BY <1>2, <1>10, Zenon DEF RefuseRun, LostClaim, CallingRetired, Fail
<1>11. CASE Calling(a)
  <2>1. actor[a].pc = "claimed" /\ actor[a].pc \notin JobLess
    BY <1>11, StartsAt DEF JobLess
  <2>2. Stop(a) \/ Goto(a, "calling")
    BY <1>11, Zenon DEF Calling, CallingRow
  <2> QED BY <1>2, <1>8, <2>1, <2>2
<1>12. CASE Generate(a)
  BY <1>9, <1>12, PcTypes DEF Generate, JobLess
<1>13. CASE Submitted(a)
  <2>1. actor[a].pc \notin JobLess
    BY <1>13, StartsAt DEF JobLess
  <2>2. Stop(a) \/ Goto(a, "holding") \/ GotoWith(a, "failing", "uncertain")
    BY <1>13, Zenon DEF Submitted
  <2> QED BY <1>2, <1>8, <1>9, <2>1, <2>2, PcTypes
<1>14. CASE Retrieve(a)
  <2>1. /\ actor[a].pc = "retrieving"
        /\ \/ /\ remote[actor[a].job][actor[a].attempt].status # "none"
              /\ GotoWith(a, "holding", remote[actor[a].job][actor[a].attempt].status)
           \/ Goto(a, "unread")
           \/ GotoWith(a, "failing", "uncertain")
    BY <1>14 DEF Retrieve
  <2>2. actor[a].pc \notin JobLess
    BY <2>1 DEF JobLess
  <2>3. ASSUME remote[actor[a].job][actor[a].attempt].status # "none",
               GotoWith(a, "holding", remote[actor[a].job][actor[a].attempt].status)
        PROVE  ActorsOK'
    <3>1. remote[actor[a].job][actor[a].attempt] \in RemoteRow
      BY <1>1, <2>1, <2>2 DEF ActorsOK, IInv, ProcessesOK, RemoteOK
    <3>2. remote[actor[a].job][actor[a].attempt].status \in Replies
      BY <2>3, <3>1 DEF RemoteRow
    <3> QED BY <1>9, <2>2, <2>3, <3>2
  <2> QED BY <1>8, <1>9, <2>1, <2>2, <2>3, PcTypes
<1>15. CASE Poll(a)
  BY <1>2, <1>8, <1>15 DEF Poll, EndRun, JobLess
<1>16. CASE SaveResult(a)
  BY <1>8, <1>16 DEF SaveResult, JobLess
<1>17. CASE Unusable(a)
  BY <1>9, <1>17, PcTypes DEF Unusable, JobLess
<1>18. CASE Publish(a)
  BY <1>2, <1>8, <1>18 DEF Publish, EndRun, JobLess
<1>19. CASE TakeOver(a)
  BY <1>2, <1>8, <1>19 DEF TakeOver, JobLess
<1> QED BY <1>4, <1>5, <1>6, <1>7, <1>10, <1>11, <1>12, <1>13, <1>14, <1>15, <1>16, <1>17,
            <1>18, <1>19, Zenon DEF Step

LEMMA ReconcileActors ==
  ASSUME IInv, NEW o \in Actors, NEW j \in Jobs, Reconcile(o, j)
  PROVE  ActorsOK'
<1> DEFINE n == job[j].attempts
           status == remote[j][n].status
           state == job[j].state
           r == [Idle EXCEPT !.pc = "reconciling", !.job = j, !.attempt = n,
                             !.answer = status, !.seen = state]
<1>1. ActorsOK /\ GenOK(job, att) /\ job[j] \in JobRow /\ actor' = [actor EXCEPT ![o] = r]
  BY RowTypes DEF IInv, ProcessesOK, Reconcile
<1>2. state \in OpenStates /\ state \in JobStates
  BY <1>1, Zenon DEF Reconcile, Reconcilable, OpenStates, JobRow, JobStates
<1>3. n \in AttemptIds
  BY <1>1, <1>2, LatestOpen
<1>4. status \in Replies \cup {"none"}
  <2>1. remote[j][n] \in RemoteRow
    BY <1>3 DEF IInv, ProcessesOK, RemoteOK
  <2> QED BY <2>1 DEF RemoteRow
<1>5. "reconciling" \in Pcs /\ n \in 0..LastAttempt
  BY <1>3, Bounds, Zenon DEF Pcs
<1> HIDE DEF n, status, state
<1>6. r \in ActorRow
  BY <1>2, <1>4, <1>5, IdleRow, Zenon DEF ActorRow
<1>7. r.pc = "reconciling" /\ r.job = j /\ r.seen = state
  BY IdleRow, SMT DEF ActorRow
<1> HIDE DEF r
<1> QED BY <1>1, <1>2, <1>6, <1>7, ActorMoves

LEMMA NextActors ==
  ASSUME IInv, [Next]_vars
  PROVE  ActorsOK'
<1>1. ActorsOK
  BY DEF IInv, ProcessesOK
<1>2. CASE UNCHANGED actor
  BY <1>1, <1>2 DEF ActorsOK
<1>3. CASE \/ UNCHANGED vars \/ (Request /\ UNCHANGED workerVars)
           \/ \E j \in Jobs, n \in AttemptIds : RemoteFinishes(j, n)
           \/ \E j \in Jobs : LeaseExpires(j) \/ ComesDue(j)
           \/ NextMonth \/ CreditExpires
  BY <1>2, <1>3, Zenon DEF vars, workerVars, RemoteFinishes, LeaseExpires, ComesDue, NextMonth,
       CreditExpires
<1>4. CASE \E a \in Actors : Crash(a)
  BY <1>1, <1>4, StopOK DEF Crash
<1>5. CASE \E a \in Actors : Step(a)
  BY <1>5, StepActors
<1>6. CASE \E o \in Operators, j \in Jobs : Reconcile(o, j)
  BY <1>6, ReconcileActors DEF Actors
<1> QED BY <1>3, <1>4, <1>5, <1>6, Zenon DEF Next, Environment

\* One record of the provider's is replaced.
LEMMA RecordChanges ==
  ASSUME RemoteOK, UNCHANGED faults, NEW j, NEW n, NEW v,
         remote' = [remote EXCEPT ![j][n] = v],
         j \in Jobs /\ n \in AttemptIds => v \in RemoteRow
  PROVE  RemoteOK'
<1>1. remote \in [Jobs -> [AttemptIds -> RemoteRow]] /\ faults' \in 0..MaxFaults
  BY DEF RemoteOK
<1>2. remote' = [remote EXCEPT ![j] = [remote[j] EXCEPT ![n] = v]]
  OBVIOUS
<1>3. j \in Jobs => [remote[j] EXCEPT ![n] = v] \in [AttemptIds -> RemoteRow]
  BY <1>1, Zenon
<1> DEFINE h == [remote[j] EXCEPT ![n] = v]
<1>4. remote' = [remote EXCEPT ![j] = h] /\ (j \in Jobs => h \in [AttemptIds -> RemoteRow])
  BY <1>2, <1>3
<1> HIDE DEF h
<1>5. remote' \in [Jobs -> [AttemptIds -> RemoteRow]]
  BY <1>1, <1>4, Zenon
<1> QED BY <1>1, <1>5 DEF RemoteOK

LEMMA NextRemote ==
  ASSUME IInv, [Next]_vars
  PROVE  RemoteOK'
<1>1. RemoteOK /\ GenOK(job, att)
  BY DEF IInv, ProcessesOK
<1>2. CASE UNCHANGED <<remote, faults>>
  BY <1>1, <1>2 DEF RemoteOK
<1>3. CASE \/ UNCHANGED vars \/ (Request /\ UNCHANGED workerVars)
           \/ \E o \in Operators, j \in Jobs : Reconcile(o, j)
           \/ \E j \in Jobs : ComesDue(j)
           \/ NextMonth \/ CreditExpires
  BY <1>2, <1>3, Zenon DEF vars, workerVars, Reconcile, ComesDue, NextMonth, CreditExpires
<1>4. CASE \E a \in Actors : Step(a)
  <2>1. PICK a \in Actors : Step(a)
    BY <1>4
  <2>2. CASE Submit(a)
    <3> DEFINE j == actor[a].job
               n == job[j].attempts
               v == [posts |-> remote[j][n].posts + 1, status |-> "working", cost |-> 0]
    <3>1. UNCHANGED faults
      BY <2>2 DEF Submit
    <3>2. CASE remote' = remote
      BY <1>2, <3>1, <3>2
    <3>3. CASE remote' = [remote EXCEPT ![j][n] = v]
      <4>1. j \in Jobs /\ n \in AttemptIds => v \in RemoteRow
        BY <1>1 DEF RemoteOK, RemoteRow, Replies
      <4> HIDE DEF j, n, v
      <4> QED BY <1>1, <3>1, <3>3, <4>1, RecordChanges
    <3> QED BY <2>2, <3>2, <3>3 DEF Submit
  <2>3. CASE ~Submit(a)
    BY <1>2, <2>1, <2>3, Zenon DEF Step, StartRun, RefuseRun, Resume, Claim, Calling, CallingRow,
         CallingRetired, Generate, Submitted, Retrieve, Poll, SaveResult, Unusable, LostClaim,
         Fail, Publish, TakeOver
  <2> QED BY <2>2, <2>3
<1>5. CASE \E j \in Jobs, n \in AttemptIds : RemoteFinishes(j, n)
  <2>a. PICK j \in Jobs, n \in AttemptIds : RemoteFinishes(j, n)
    BY <1>5
  <2>1. PICK status \in Finished, cost \in 0..att[j][n].gross :
             /\ remote' = [remote EXCEPT ![j][n] = [@ EXCEPT !.status = status, !.cost = cost]]
             /\ UNCHANGED faults
    BY <2>a DEF RemoteFinishes
  <2> DEFINE v == [remote[j][n] EXCEPT !.status = status, !.cost = cost]
  <2>2. remote[j][n] \in RemoteRow /\ status \in Replies /\ cost \in Nat
    <3>1. att[j][n] \in AttemptRow
      BY <1>1, RowTypes DEF History
    <3> QED BY <1>1, <2>1, <3>1 DEF RemoteOK, Replies, AttemptRow
  <2>3. v \in RemoteRow
    BY <2>2, Zenon DEF RemoteRow
  <2>4. remote' = [remote EXCEPT ![j][n] = v] /\ UNCHANGED faults
    BY <2>1
  <2> HIDE DEF v
  <2> QED BY <1>1, <2>3, <2>4, RecordChanges
<1>6. CASE \/ \E a \in Actors : Crash(a)
           \/ \E j \in Jobs : LeaseExpires(j)
  <2>1. remote' = remote /\ (faults' = faults \/ (faults < MaxFaults /\ faults' = faults + 1))
    BY <1>6, Zenon DEF Crash, LeaseExpires
  <2>2. faults' \in 0..MaxFaults
    BY <1>1, <2>1, BoundsAssumption DEF RemoteOK
  <2> QED BY <1>1, <2>1, <2>2 DEF RemoteOK
<1> QED BY <1>3, <1>4, <1>5, <1>6, Zenon DEF Next, Environment

-----------------------------------------------------------------------------
(* The theorems.                                                             *)

LEMMA InitHolds == Init => IInv
<1> SUFFICES ASSUME Init PROVE IInv
  OBVIOUS
<1>1. GenOK(job, att)
  <2>1. NoJob \in JobRow
    <3>1. "fixture" \in Providers /\ "absent" \in JobStates /\ "manual" \in Kinds
          /\ "none" \in Errors /\ "none" \in Results
      BY Zenon DEF Providers, JobStates, Kinds, Errors, Results
    <3>2. 0 \in 0..MaxRevision
      BY BoundsAssumption
    <3> QED BY <3>1, <3>2, Bounds, SMT DEF NoJob, JobRow
  <2>2. NoAttempt \in AttemptRow
    BY SMT DEF NoAttempt, AttemptRow
  <2>3. job = [j \in Jobs |-> NoJob] /\ att = [j \in Jobs |-> [n \in AttemptIds |-> NoAttempt]]
    BY DEF Init, StoreInit
  <2>4. job \in [Jobs -> JobRow] /\ att \in [Jobs -> History]
    BY <2>1, <2>2, <2>3 DEF History
  <2>5. ASSUME NEW j \in Jobs PROVE LedgerOf(job[j], att[j])
    <3>1. job[j] = NoJob /\ \A n \in AttemptIds : att[j][n] = NoAttempt
      BY <2>3
    <3> QED BY <3>1, Bounds, SMT DEF LedgerOf, NoJob, NoAttempt, Unsettled, Unknown,
                                     OpenStates, OpenStages
  <2> QED BY <2>4, <2>5 DEF GenOK
<1>2. SkillsOK
  <2>1. ASSUME NEW s \in Skills
        PROVE  /\ revisions[s] \in Seq(Jobs \cup {Imported}) /\ Rev(s) <= MaxRevision
               /\ bank[s] \in Seq([job : Jobs, rev : Nat]) /\ draft[s] = None
    <3>1. /\ revisions[s] = IF s \in Seeded THEN <<Imported>> ELSE <<>>
          /\ bank[s] = <<>> /\ draft[s] = None
      BY DEF Init, StoreInit
    <3>2. <<>> \in Seq([job : Jobs, rev : Nat]) /\ MaxRevision \in Nat
      BY BoundsAssumption
    <3>3. CASE s \in Seeded
      <4>1. MaxRevision >= 1
        BY <3>3, SkillsAssumption
      <4>2. revisions[s] = <<Imported>> /\ Imported \in Jobs \cup {Imported}
        BY <3>1, <3>3
      <4>3. <<Imported>> \in Seq(Jobs \cup {Imported}) /\ Len(<<Imported>>) = 1
        OBVIOUS
      <4> QED BY <3>1, <3>2, <4>1, <4>2, <4>3 DEF Rev
    <3>4. CASE s \notin Seeded
      <4>1. revisions[s] = <<>> /\ Len(<<>>) = 0 /\ <<>> \in Seq(Jobs \cup {Imported})
        BY <3>1, <3>4
      <4> QED BY <3>1, <3>2, <4>1 DEF Rev
    <3> QED BY <3>3, <3>4
  <2>2. /\ revisions \in [Skills -> Seq(Jobs \cup {Imported})]
        /\ bank \in [Skills -> Seq([job : Jobs, rev : Nat])]
        /\ draft \in [Skills -> [rev : 1..MaxRevision, content : Contents] \cup {None}]
    BY <2>1, Zenon DEF Init, StoreInit
  <2> QED BY <2>1, <2>2 DEF SkillsOK
<1>3. SettingsOK
  <2>1. 1 \in 1..(MaxMonth + 1)
    BY BoundsAssumption
  <2> QED BY <2>1, Zenon DEF Init, StoreInit, SettingsOK
<1>4. ProcessesOK
  <2>1. /\ actor = [a \in Actors |-> Idle] /\ faults = 0
        /\ remote = [j \in Jobs |-> [n \in AttemptIds |->
                                     [posts |-> 0, status |-> "none", cost |-> 0]]]
    BY DEF Init, WorkerInit
  <2>2. ActorsOK
    BY <2>1, IdleRow DEF ActorsOK, JobLess
  <2>3. RemoteOK
    BY <2>1, BoundsAssumption DEF RemoteOK, RemoteRow
  <2> QED BY <2>2, <2>3 DEF ProcessesOK
<1> QED BY <1>1, <1>2, <1>3, <1>4 DEF IInv

LEMMA NextHolds == IInv /\ [Next]_vars => IInv'
<1> SUFFICES ASSUME IInv, [Next]_vars PROVE IInv'
  OBVIOUS
<1>1. GenOK(job, att)'
  BY NextGen DEF GenStep
<1>2. ProcessesOK'
  BY NextActors, NextRemote DEF ProcessesOK
<1> QED BY <1>1, <1>2, NextSkills, NextSettings DEF IInv

\* The inductive invariant holds in every behaviour.
THEOREM Inductive == Spec => []IInv
BY InitHolds, NextHolds, PTL DEF Spec

\* Every table of the store holds rows of its schema and every process is at a
\* known point, for any number of jobs, skills, workers and attempts.
THEOREM TypeCorrect == Spec => []TypeOK
<1>1. IInv => TypeOK
  BY DEF IInv, GenOK, History, SkillsOK, SettingsOK, ProcessesOK, ActorsOK, RemoteOK, TypeOK
<1> QED BY <1>1, Inductive, PTL

\* A charge is unknown exactly for the latest attempt of a job that is claimed,
\* waits for its response or needs attention, so a discard or a retirement, which
\* only stop jobs in other states, cannot lose one.
THEOREM OpenChargeCorrect == Spec => []OpenChargeMatchesState
<1>1. IInv => OpenChargeMatchesState
  BY Zenon DEF IInv, GenOK, LedgerOf, OpenChargeMatchesState
<1> QED BY <1>1, Inductive, PTL

\* A round of a job makes at most MaxAttempts attempts.
THEOREM RoundBounded == Spec => []RoundIsBounded
<1>1. IInv => RoundIsBounded
  <2> SUFFICES ASSUME IInv, NEW j \in Jobs PROVE job[j].attempts - job[j].start <= MaxAttempts
    BY DEF RoundIsBounded
  <2>1. job[j].attempts - job[j].start \in 0..MaxAttempts
    BY DEF IInv, GenOK, LedgerOf
  <2> QED BY <2>1, Bounds
<1> QED BY <1>1, Inductive, PTL

\* What was recorded of an attempt when it was settled or abandoned is never
\* written again by any transaction of any process.
THEOREM ChargeFinal == Spec => ChargeIsFinal
<1> DEFINE Final == \A j \in Jobs, n \in AttemptIds :
                      att[j][n].stage \in {"settled", "abandoned"} => att'[j][n] = att[j][n]
<1>1. IInv /\ [Next]_vars => Final
  BY NextGen, Zenon DEF GenStep, Kept, ClosedStages
<1>2. IInv /\ [Next]_vars => [Final]_vars
  BY <1>1
<1> QED BY <1>2, Inductive, PTL DEF Spec, ChargeIsFinal
=============================================================================
