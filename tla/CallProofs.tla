----------------------------- MODULE CallProofs -----------------------------
(***************************************************************************)
(* One attempt is one call: that an attempt contacts the provider at most  *)
(* once, that what it may cost stays recorded, which calls credit pays and *)
(* that a retired source calls no more, for every number of jobs, workers, *)
(* operators, crashes and attempts.  Then the money: what all attempts     *)
(* together may cost in a month and draw from the credits.                 *)
(***************************************************************************)
EXTENDS GenerationProofs

Calls == [AttemptIds -> RemoteRow]
Uncalled == {"none", "reserved", "abandoned"}

\* The provider's side of an attempt, w, beside its row, a.
Accounted(a, w) ==
  \/ Unsettled(a) /\ w.cost <= a.gross
  \/ w.status \in Finished /\ a.charge = w.cost

CallOK(r, a, w) ==
  /\ w.posts <= 1 /\ (w.status = "none" <=> w.posts = 0)
  /\ a.stage \in Uncalled => w.posts = 0 /\ ~a.response
  /\ w.posts > 0 => Accounted(a, w)
  /\ a.stage = "calling" /\ a.credit > 0 => r.provider = CreditProvider

\* A job that waits for its response or for the operator has been called.
RowOK(r, h, w) ==
  /\ r.state \in {"provider_pending", "needs_attention"} => h[r.attempts].stage = "calling"
  /\ \A n \in AttemptIds : CallOK(r, h[n], w[n])

Owns(r, b) == r.state = "running" /\ r.holder = b /\ r.lease = "live"

\* Process b is about to post: nothing was posted, and only its own claim or the
\* stop of a lapsed one can have followed.
AboutToCall(b, r, h, w) ==
  /\ h[r.attempts].stage = "calling" /\ ~h[r.attempts].response
  /\ w[r.attempts].posts = 0
  /\ r.state = "needs_attention" \/ (r.state = "running" /\ r.holder = b)

\* What a process knows of the attempt it works on while the claim is its own.
Working == {"answered", "retrieving", "unread", "holding", "failing"}
Knows(p, r, h, w) ==
  /\ h[r.attempts].stage = "calling"
  /\ p.pc = "retrieving" => p.attempt = r.attempts
  /\ p.pc \in {"answered", "holding"} /\ p.answer \in Finished =>
       w[r.attempts].posts = 0 \/ w[r.attempts].status = p.answer
  /\ p.pc = "failing" /\ p.answer \in {"retry", "terminal"} => w[r.attempts].posts = 0

\* What an operator read stays so.
HasRead(p, w) ==
  /\ p.attempt \in AttemptIds /\ w[p.attempt].status # "none"
  /\ p.answer \in Finished => w[p.attempt].status = p.answer

Informed(b, p, r, h, w) ==
  /\ p.pc = "calling" => AboutToCall(b, r, h, w)
  /\ p.pc \in Working /\ Owns(r, b) => Knows(p, r, h, w)
  /\ p.pc = "reconciling" => HasRead(p, w)

Fits(b) ==
  LET j == actor[b].job IN Informed(b, actor[b], job[j], att[j], remote[j])

OneCaller ==
  \A a, b \in Actors :
    /\ actor[a].pc = "calling" /\ actor[b].pc = "calling"
    /\ actor[a].job = actor[b].job
    => a = b

CallInv ==
  /\ \A j \in Jobs : RowOK(job[j], att[j], remote[j])
  /\ \A b \in Actors : Fits(b)
  /\ OneCaller

-----------------------------------------------------------------------------
(* What one transaction of process a may do to a row, its attempts and what  *)
(* the processes in C, which are about to call for it, rely on.              *)

Sound(r, h, w) ==
  r \in JobRow /\ h \in History /\ w \in Calls /\ LedgerOf(r, h) /\ RowOK(r, h, w)

Calm(a, C, r, h, w, r2, h2) ==
  /\ RowOK(r2, h2, w)
  /\ \A b \in C : AboutToCall(b, r, h, w) => AboutToCall(b, r2, h2, w)
  /\ \A b \in Actors \ {a} : Owns(r2, b) =>
       /\ Owns(r, b) /\ r2.attempts = r.attempts
       /\ h[r.attempts].stage = "calling" => h2[r.attempts].stage = "calling"

\* No reservation becomes a call.
NoCall(h, h2) ==
  \A n \in AttemptIds : h[n].stage \in Uncalled => h2[n].stage \in {h[n].stage, "abandoned"}

LEMMA OneEntry ==
  ASSUME NEW S, NEW T, NEW f \in [S -> T], NEW x \in S, NEW y, NEW g, g = [f EXCEPT ![x] = y]
  PROVE  g[x] = y /\ \A m \in S \ {x} : g[m] = f[m]
OBVIOUS

LEMMA GrossOfRow ==
  ASSUME NEW a \in AttemptRow
  PROVE  0 <= a.gross
BY SMT DEF AttemptRow

LEMMA CalmTwice ==
  ASSUME NEW a, NEW C, NEW r, NEW h, NEW w, NEW r1, NEW h1, NEW r2, NEW h2,
         Calm(a, C, r, h, w, r1, h1), Calm(a, C, r1, h1, w, r2, h2)
  PROVE  Calm(a, C, r, h, w, r2, h2)
BY Zenon DEF Calm

LEMMA NoCallTwice ==
  ASSUME NEW h, NEW h1, NEW h2, NoCall(h, h1), NoCall(h1, h2)
  PROVE  NoCall(h, h2)
BY SMT DEF NoCall, Uncalled

\* Only the latest attempt is being called, while the job is open.
LEMMA CallingIsLatest ==
  ASSUME NEW r, NEW h, NEW w, Sound(r, h, w), NEW n \in AttemptIds, h[n].stage = "calling"
  PROVE  r.state \in OpenStates /\ n = r.attempts
BY DEF Sound, LedgerOf, OpenStages

LEMMA Still ==
  ASSUME NEW a, NEW C, NEW r, NEW h, NEW w, Sound(r, h, w)
  PROVE  Calm(a, C, r, h, w, r, h) /\ NoCall(h, h)
BY DEF Sound, Calm, NoCall, Uncalled

\* A job that is not open changes and does not open.
LEMMA ClosedMove ==
  ASSUME NEW a, NEW C, NEW r, NEW h, NEW w, Sound(r, h, w), r.state \notin OpenStates,
         NEW r2, r2.state \notin OpenStates
  PROVE  Calm(a, C, r, h, w, r2, h) /\ NoCall(h, h)
<1>1. \A n \in AttemptIds : h[n].stage # "calling"
  BY CallingIsLatest
<1>2. RowOK(r2, h, w)
  BY <1>1, SMT DEF Sound, RowOK, CallOK, Uncalled, OpenStates
<1>3. \A b : ~AboutToCall(b, r, h, w) /\ ~Owns(r2, b)
  BY DEF AboutToCall, Owns, OpenStates
<1> QED BY <1>2, <1>3 DEF Calm, NoCall

\* A row changes in what no process relies on.
LEMMA SoftMove ==
  ASSUME NEW a, NEW C, NEW r, NEW h, NEW w, Sound(r, h, w),
         NEW r2, r2.state = r.state, r2.holder = r.holder, r2.attempts = r.attempts,
         r2.provider = r.provider, r2.lease = r.lease \/ r2.lease # "live"
  PROVE  Calm(a, C, r, h, w, r2, h) /\ NoCall(h, h)
<1>1. RowOK(r2, h, w)
  BY DEF Sound, RowOK, CallOK, Uncalled
<1> QED BY <1>1 DEF Calm, NoCall, AboutToCall, Owns

\* A reservation is given back.
LEMMA AbandonMove ==
  ASSUME NEW a, NEW C, NEW r, NEW h, NEW w, Sound(r, h, w), r.state \in OpenStates,
         h[r.attempts].stage = "reserved", NEW r2, r2.state \notin OpenStates
  PROVE  LET h2 == [h EXCEPT ![r.attempts] = Abandoned(@)]
         IN  Calm(a, C, r, h, w, r2, h2) /\ NoCall(h, h2)
<1> DEFINE n == r.attempts
           h2 == [h EXCEPT ![r.attempts] = Abandoned(@)]
<1>1. n \in AttemptIds /\ h \in [AttemptIds -> AttemptRow]
  BY DEF Sound, LedgerOf, History
<1>2. h2[n] = Abandoned(h[n]) /\ \A m \in AttemptIds \ {n} : h2[m] = h[m]
  BY <1>1, Zenon
<1>3. h2[n].stage = "abandoned" /\ h2[n].response = h[n].response
  BY <1>1, <1>2, SMT DEF Abandoned, AttemptRow
<1>4. w[n].posts = 0 /\ ~h[n].response
  BY <1>1, SMT DEF Sound, RowOK, CallOK, Uncalled
<1>5. \A m \in AttemptIds \ {n} : h[m].stage # "calling"
  BY CallingIsLatest
<1>6. CallOK(r2, h2[n], w[n])
  BY <1>1, <1>3, <1>4, SMT DEF Sound, RowOK, CallOK, Uncalled
<1>7. ASSUME NEW m \in AttemptIds \ {n} PROVE CallOK(r2, h2[m], w[m])
  BY <1>2, <1>5, SMT DEF Sound, RowOK, CallOK, Uncalled
<1>8. RowOK(r2, h2, w)
  BY <1>6, <1>7 DEF RowOK, OpenStates
<1>9. \A b : ~AboutToCall(b, r, h, w) /\ ~Owns(r2, b)
  BY DEF AboutToCall, Owns, OpenStates
<1>10. NoCall(h, h2)
  BY <1>2, <1>3 DEF NoCall, Uncalled
<1> HIDE DEF h2
<1>11. Calm(a, C, r, h, w, r2, h2)
  BY <1>8, <1>9 DEF Calm
<1> QED BY <1>10, <1>11 DEF h2

\* A call is settled at what it cost.
LEMMA SettleMove ==
  ASSUME NEW a, NEW C, NEW r, NEW h, NEW w, Sound(r, h, w), r.state \in OpenStates,
         h[r.attempts].stage = "calling", NEW r2, r2.state \notin OpenStates,
         NEW charge \in Nat,
         \/ w[r.attempts].posts = 0
         \/ w[r.attempts].status \in Finished /\ w[r.attempts].cost = charge,
         \A b \in C : ~AboutToCall(b, r, h, w)
  PROVE  LET h2 == [h EXCEPT ![r.attempts] = Settled(@, charge)]
         IN  Calm(a, C, r, h, w, r2, h2) /\ NoCall(h, h2)
<1> DEFINE n == r.attempts
           h2 == [h EXCEPT ![r.attempts] = Settled(@, charge)]
<1>1. n \in AttemptIds /\ h \in [AttemptIds -> AttemptRow]
  BY DEF Sound, LedgerOf, History
<1>2. h2[n] = Settled(h[n], charge) /\ \A m \in AttemptIds \ {n} : h2[m] = h[m]
  BY <1>1, Zenon
<1>3. h2[n].stage = "settled" /\ h2[n].charge = charge
  BY <1>1, <1>2, SMT DEF Settled, AttemptRow
<1>5. \A m \in AttemptIds \ {n} : h[m].stage # "calling"
  BY CallingIsLatest
<1>6. CallOK(r2, h2[n], w[n])
  <2>1. w[n] \in RemoteRow
    BY <1>1 DEF Sound, Calls
  <2>2. w[n].posts > 0 => Accounted(h2[n], w[n])
    BY <1>3, <2>1 DEF Accounted, RemoteRow
  <2> QED BY <1>1, <1>3, <2>2, SMT DEF Sound, RowOK, CallOK, Uncalled
<1>7. ASSUME NEW m \in AttemptIds \ {n} PROVE CallOK(r2, h2[m], w[m])
  BY <1>2, <1>5, SMT DEF Sound, RowOK, CallOK, Uncalled
<1>8. RowOK(r2, h2, w)
  BY <1>6, <1>7 DEF RowOK, OpenStates
<1>9. \A b : ~Owns(r2, b)
  BY DEF Owns, OpenStates
<1>10. NoCall(h, h2)
  BY <1>2, <1>3 DEF NoCall, Uncalled
<1> HIDE DEF h2
<1>11. Calm(a, C, r, h, w, r2, h2)
  BY <1>8, <1>9 DEF Calm
<1> QED BY <1>10, <1>11 DEF h2

\* The open call's row is touched and the job takes another open state: its owner
\* is a, nobody, or nobody new, and whoever is about to call finds it stopped.
LEMMA OpenMove ==
  ASSUME NEW a, NEW C, NEW r, NEW h, NEW w, Sound(r, h, w), r.state \in OpenStates,
         h[r.attempts].stage = "calling",
         NEW r2, r2.state \in OpenStates, r2.attempts = r.attempts, r2.provider = r.provider,
         NEW x, x.stage = "calling", x.charge = h[r.attempts].charge,
         x.gross = h[r.attempts].gross, x.credit = h[r.attempts].credit,
         \A b \in Actors \ {a} : ~Owns(r2, b),
         \A b \in C : AboutToCall(b, r, h, w) => r2.state = "needs_attention" /\ ~x.response
  PROVE  LET h2 == [h EXCEPT ![r.attempts] = x]
         IN  Calm(a, C, r, h, w, r2, h2) /\ NoCall(h, h2)
<1> DEFINE n == r.attempts
           h2 == [h EXCEPT ![r.attempts] = x]
<1>1. n \in AttemptIds /\ h \in [AttemptIds -> AttemptRow]
  BY DEF Sound, LedgerOf, History
<1>2. h2[n] = x /\ \A m \in AttemptIds \ {n} : h2[m] = h[m]
  BY <1>1, Zenon
<1>3. CallOK(r2, h2[n], w[n])
  <2>1. Accounted(h[n], w[n]) => Accounted(x, w[n])
    BY DEF Accounted, Unsettled
  <2> QED BY <1>1, <1>2, <2>1, SMT DEF Sound, RowOK, CallOK, Uncalled
<1>4. ASSUME NEW m \in AttemptIds \ {n} PROVE CallOK(r2, h2[m], w[m])
  BY <1>2, SMT DEF Sound, RowOK, CallOK, Uncalled
<1>5. RowOK(r2, h2, w)
  BY <1>2, <1>3, <1>4 DEF RowOK
<1>6. NoCall(h, h2)
  BY <1>2 DEF NoCall, Uncalled
<1>7. \A b \in C : AboutToCall(b, r, h, w) => AboutToCall(b, r2, h2, w)
  BY <1>2 DEF AboutToCall
<1> HIDE DEF h2
<1>8. Calm(a, C, r, h, w, r2, h2)
  BY <1>5, <1>7 DEF Calm
<1> QED BY <1>6, <1>8 DEF h2

\* A job that is not open is claimed: its next attempt is reserved.
LEMMA ReserveMove ==
  ASSUME NEW a, NEW C, NEW r, NEW h, NEW w, Sound(r, h, w), r.state \notin OpenStates,
         r.attempts + 1 \in AttemptIds,
         NEW r2, r2.state = "running", r2.holder = a,
         NEW x, x.stage = "reserved", ~x.response
  PROVE  Calm(a, C, r, h, w, r2, [h EXCEPT ![r.attempts + 1] = x])
<1> DEFINE n == r.attempts + 1
           h2 == [h EXCEPT ![r.attempts + 1] = x]
<1>1. h \in [AttemptIds -> AttemptRow] /\ r.attempts \in Nat
  BY BoundsAssumption DEF Sound, History, JobRow
<1>2. h2[n] = x /\ \A m \in AttemptIds \ {n} : h2[m] = h[m]
  BY <1>1, Zenon
<1>3. h[n].stage = "none"
  BY <1>1, SMT DEF Sound, LedgerOf
<1>4. \A m \in AttemptIds : h[m].stage # "calling"
  BY CallingIsLatest
<1>5. CallOK(r2, h2[n], w[n])
  BY <1>2, <1>3, SMT DEF Sound, RowOK, CallOK, Uncalled
<1>6. ASSUME NEW m \in AttemptIds \ {n} PROVE CallOK(r2, h2[m], w[m])
  BY <1>2, <1>4, SMT DEF Sound, RowOK, CallOK, Uncalled
<1>7. RowOK(r2, h2, w)
  BY <1>5, <1>6 DEF RowOK
<1>8. \A b : ~AboutToCall(b, r, h, w)
  BY DEF AboutToCall, OpenStates
<1>9. \A b \in Actors \ {a} : ~Owns(r2, b)
  BY DEF Owns
<1> HIDE DEF h2
<1>10. Calm(a, C, r, h, w, r2, h2)
  BY <1>7, <1>8, <1>9 DEF Calm
<1> QED BY <1>10 DEF h2

\* The owner turns its reservation into a call, with credit of this provider only.
LEMMA CallMove ==
  ASSUME NEW a, NEW C \in SUBSET (Actors \ {a}), NEW r, NEW h, NEW w, Sound(r, h, w),
         Owns(r, a), h[r.attempts].stage = "reserved"
  PROVE  LET h2 == [h EXCEPT ![r.attempts] = Called(@, r)]
         IN  Calm(a, C, r, h, w, r, h2) /\ AboutToCall(a, r, h2, w)
<1> DEFINE n == r.attempts
           h2 == [h EXCEPT ![r.attempts] = Called(@, r)]
<1>1. r.state = "running" /\ n \in AttemptIds /\ h \in [AttemptIds -> AttemptRow]
  BY DEF Sound, LedgerOf, History, OpenStates, Owns
<1>2. h2[n] = Called(h[n], r) /\ \A m \in AttemptIds \ {n} : h2[m] = h[m]
  BY <1>1, Zenon
<1>3. /\ h2[n].stage = "calling" /\ h2[n].response = h[n].response
      /\ h2[n].credit > 0 => r.provider = CreditProvider
  BY <1>1, <1>2, SMT DEF Called, AttemptRow, CreditNow, CreditApplies
<1>4. w[n].posts = 0 /\ ~h[n].response
  BY <1>1, SMT DEF Sound, RowOK, CallOK, Uncalled
<1>5. CallOK(r, h2[n], w[n])
  BY <1>1, <1>3, <1>4, SMT DEF Sound, RowOK, CallOK, Uncalled
<1>6. ASSUME NEW m \in AttemptIds \ {n} PROVE CallOK(r, h2[m], w[m])
  BY <1>2, SMT DEF Sound, RowOK, CallOK, Uncalled
<1>7. RowOK(r, h2, w)
  BY <1>1, <1>5, <1>6 DEF RowOK
<1>8. \A b : ~AboutToCall(b, r, h, w)
  BY DEF AboutToCall
<1>9. \A b \in Actors \ {a} : ~Owns(r, b)
  BY DEF Owns
<1>10. AboutToCall(a, r, h2, w)
  BY <1>1, <1>3, <1>4 DEF AboutToCall, Owns
<1> HIDE DEF h2
<1>11. Calm(a, C, r, h, w, r, h2)
  BY <1>7, <1>8, <1>9 DEF Calm
<1> QED BY <1>10, <1>11 DEF h2

\* While a process owns the claim nobody else is about to call for it.
LEMMA OwnerAlone ==
  ASSUME NEW a, NEW C \in SUBSET (Actors \ {a}), NEW r, NEW h, NEW w, Owns(r, a)
  PROVE  \A b \in C : ~AboutToCall(b, r, h, w)
BY DEF Owns, AboutToCall

-----------------------------------------------------------------------------
(* The same for the tables.                                                  *)

Others(a, j) == {b \in Actors \ {a} : actor[b].pc = "calling" /\ actor[b].job = j}

CallsInv == IInv /\ CallInv

Calmly(a) ==
  \A j \in Jobs : Calm(a, Others(a, j), job[j], att[j], remote[j], job'[j], att'[j])
NothingCalled == \A j \in Jobs : NoCall(att[j], att'[j])

LEMMA SoundRows ==
  ASSUME CallsInv, NEW j \in Jobs
  PROVE  Sound(job[j], att[j], remote[j])
BY RowTypes DEF CallsInv, IInv, ProcessesOK, RemoteOK, CallInv, Sound, Calls

LEMMA InformedKept ==
  ASSUME NEW a, NEW C, NEW r, NEW h, NEW w, NEW r2, NEW h2, Calm(a, C, r, h, w, r2, h2),
         NEW b \in Actors \ {a}, NEW p, p.pc = "calling" => b \in C, Informed(b, p, r, h, w)
  PROVE  Informed(b, p, r2, h2, w)
BY SMT DEF Calm, Informed, Knows

\* A process nobody depends on moved, or a fits where it went, and the tables moved
\* calmly: then the others still fit.
LEMMA CalmKeeps ==
  ASSUME CallsInv, NEW a, remote' = remote, Calmly(a),
         \A b \in Actors \ {a} : actor'[b] = actor[b],
         a \in Actors => Fits(a)',
         a \in Actors /\ actor'[a].pc = "calling" => Others(a, actor'[a].job) = {}
  PROVE  CallInv'
<1>1. ASSUME NEW j \in Jobs PROVE RowOK(job'[j], att'[j], remote'[j])
  BY DEF Calmly, Calm
<1>2. ASSUME NEW b \in Actors \ {a} PROVE Fits(b)'
  <2> DEFINE j == actor[b].job
  <2>1. CASE actor[b].pc \in JobLess
    BY <2>1 DEF Fits, Informed, Working, JobLess
  <2>2. CASE actor[b].pc \notin JobLess
    <3>1. j \in Jobs
      BY <2>2, WorksOnJob DEF CallsInv
    <3>2. Informed(b, actor[b], job[j], att[j], remote[j])
      BY DEF CallsInv, CallInv, Fits
    <3>3. Calm(a, Others(a, j), job[j], att[j], remote[j], job'[j], att'[j])
      BY <3>1 DEF Calmly
    <3>4. actor[b].pc = "calling" => b \in Others(a, j)
      BY DEF Others
    <3>5. Informed(b, actor[b], job'[j], att'[j], remote[j])
      BY <3>2, <3>3, <3>4, InformedKept
    <3> QED BY <3>5 DEF Fits
  <2> QED BY <2>1, <2>2
<1>3. OneCaller'
  BY DEF CallsInv, CallInv, OneCaller, Others
<1> QED BY <1>1, <1>2, <1>3 DEF CallInv

LEMMA StillCalm ==
  ASSUME CallsInv, NEW a, job' = job, att' = att
  PROVE  Calmly(a) /\ NothingCalled
BY SoundRows, Still DEF Calmly, NothingCalled

LEMMA OneRowCalm ==
  ASSUME CallsInv, NEW a, NEW j \in Jobs, NEW r, NEW h,
         job' = [job EXCEPT ![j] = r], att' = [att EXCEPT ![j] = h],
         Calm(a, Others(a, j), job[j], att[j], remote[j], r, h)
  PROVE  Calmly(a) /\ (NoCall(att[j], h) => NothingCalled)
<1>1. job'[j] = r /\ att'[j] = h /\ \A k \in Jobs \ {j} : job'[k] = job[k] /\ att'[k] = att[k]
  BY Zenon DEF CallsInv, IInv, GenOK
<1>2. \A k \in Jobs \ {j} :
        /\ Calm(a, Others(a, k), job[k], att[k], remote[k], job'[k], att'[k])
        /\ NoCall(att[k], att'[k])
  BY <1>1, SoundRows, Still
<1> QED BY <1>1, <1>2 DEF Calmly, NothingCalled

\* Rows change that are not open, or in what no process relies on.
LEMMA RowsCalm ==
  ASSUME CallsInv, NEW a, att' = att,
         \A j \in Jobs :
           \/ job'[j] = job[j]
           \/ job[j].state \notin OpenStates /\ job'[j].state \notin OpenStates
           \/ /\ job'[j].state = job[j].state /\ job'[j].holder = job[j].holder
              /\ SameRound(job[j], job'[j]) /\ job'[j].provider = job[j].provider
              /\ job'[j].lease = job[j].lease \/ job'[j].lease # "live"
  PROVE  Calmly(a) /\ NothingCalled
<1>1. ASSUME NEW j \in Jobs
      PROVE  /\ Calm(a, Others(a, j), job[j], att[j], remote[j], job'[j], att'[j])
             /\ NoCall(att[j], att'[j])
  <2>1. Sound(job[j], att[j], remote[j]) /\ att'[j] = att[j]
    BY SoundRows
  <2>2. CASE job'[j] = job[j]
    BY <2>1, <2>2, Still
  <2>3. CASE job[j].state \notin OpenStates /\ job'[j].state \notin OpenStates
    BY <2>1, <2>3, ClosedMove
  <2>4. CASE /\ job'[j].state = job[j].state /\ job'[j].holder = job[j].holder
             /\ SameRound(job[j], job'[j]) /\ job'[j].provider = job[j].provider
             /\ job'[j].lease = job[j].lease \/ job'[j].lease # "live"
    BY <2>1, <2>4, SoftMove DEF SameRound
  <2> QED BY <2>2, <2>3, <2>4
<1> QED BY <1>1 DEF Calmly, NothingCalled

LEMMA AbandonCalm ==
  ASSUME CallsInv, NEW a, NEW S \in SUBSET ReservedClaims, AbandonReserved(S)
  PROVE  Calmly(a) /\ NothingCalled
<1>1. ASSUME NEW j \in Jobs
      PROVE  /\ Calm(a, Others(a, j), job[j], att[j], remote[j], job'[j], att'[j])
             /\ NoCall(att[j], att'[j])
  <2>1. Sound(job[j], att[j], remote[j]) /\ job[j] \in JobRow
    BY SoundRows DEF Sound
  <2>2. CASE j \notin S
    <3>1. job'[j] = job[j] /\ att'[j] = att[j]
      BY <2>2, Zenon DEF AbandonReserved
    <3> QED BY <2>1, <3>1, Still
  <2>3. CASE j \in S
    <3>1. /\ job'[j] = Unleased(job[j], "queued")
          /\ att'[j] = [att[j] EXCEPT ![job[j].attempts] = Abandoned(@)]
      BY <2>3, Zenon DEF AbandonReserved
    <3>2. job'[j].state \notin OpenStates
      BY <2>1, <3>1, SMT DEF Unleased, JobRow, OpenStates
    <3>3. job[j].state \in OpenStates /\ att[j][job[j].attempts].stage = "reserved"
      BY <2>3 DEF ReservedClaims, OpenStates, Latest
    <3> QED BY <2>1, <3>1, <3>2, <3>3, AbandonMove
  <2> QED BY <2>2, <2>3
<1> QED BY <1>1 DEF Calmly, NothingCalled

-----------------------------------------------------------------------------
(* The requests.                                                             *)

LEMMA ReleaseCalm ==
  ASSUME CallsInv, NEW j \in Jobs, ConfirmedRelease(j)
  PROVE  Calmly(None) /\ NothingCalled
<1> DEFINE n == job[j].attempts
           charge == remote[j][n].cost
           r == [Unleased(job[j], "failed") EXCEPT !.error = "other", !.due = TRUE]
           h == [att[j] EXCEPT ![n] = Settled(@, charge)]
<1>1. /\ Sound(job[j], att[j], remote[j]) /\ job[j] \in JobRow
      /\ job[j].state = "needs_attention"
      /\ job' = [job EXCEPT ![j] = r] /\ att' = [att EXCEPT ![j] = h]
  BY SoundRows DEF Sound, ConfirmedRelease, Release
<1>2. r.state \notin OpenStates
  BY <1>1, SMT DEF Unleased, JobRow, OpenStates
<1>3. n \in AttemptIds /\ att[j][n].stage = "calling" /\ job[j].state \in OpenStates
  BY <1>1 DEF Sound, LedgerOf, RowOK, OpenStates
<1>4. remote[j][n] \in RemoteRow /\ (remote[j][n].status = "none" <=> remote[j][n].posts = 0)
  BY <1>1, <1>3 DEF Sound, Calls, RowOK, CallOK
<1>5. \/ remote[j][n].posts = 0 /\ Others(None, j) = {}
      \/ remote[j][n].status \in Finished
  BY <1>4, Zenon DEF ConfirmedRelease, Others
<1>6. \A b \in Others(None, j) : ~AboutToCall(b, job[j], att[j], remote[j])
  BY <1>4, <1>5 DEF AboutToCall, Finished
<1>7. charge \in Nat
  BY <1>4 DEF RemoteRow
<1>8. Calm(None, Others(None, j), job[j], att[j], remote[j], r, h) /\ NoCall(att[j], h)
  BY <1>1, <1>2, <1>3, <1>5, <1>6, <1>7, SettleMove
<1> HIDE DEF r, h
<1> QED BY <1>1, <1>8, OneRowCalm

LEMMA InsertedRow ==
  ASSUME NEW kind, NEW s, NEW rev, NEW content, NEW seq, NEW provider
  PROVE  NewRow(kind, s, rev, content, seq, provider).state \notin OpenStates
BY SMT DEF NewRow, OpenStates

LEMMA RequestCalm ==
  ASSUME CallsInv, Request
  PROVE  Calmly(None) /\ NothingCalled
<1>1. \A j \in Jobs : job[j] \in JobRow
  BY RowTypes DEF CallsInv, IInv
<1>2. ASSUME NEW j \in Jobs, NEW r, job' = [job EXCEPT ![j] = r], att' = att,
             job[j].state \notin OpenStates, r.state \notin OpenStates
      PROVE  Calmly(None) /\ NothingCalled
  <2>1. \A k \in Jobs : job'[k] = IF k = j THEN r ELSE job[k]
    BY <1>2, Zenon DEF CallsInv, IInv, GenOK
  <2> QED BY <1>2, <2>1, RowsCalm
<1>3. CASE \E j \in Jobs, s \in Skills : Enqueue(j, s, RefillProvider)
  BY <1>2, <1>3, InsertedRow DEF Enqueue, Absent, OpenStates
<1>4. CASE \E j \in Jobs, s \in Skills, c \in Contents :
             CreateSkill(j, s, c, RefillProvider) \/ EditSkill(j, s, c, RefillProvider)
  BY <1>2, <1>4, InsertedRow DEF CreateSkill, EditSkill, SaveDraft, Absent, OpenStates
<1>5. CASE \E j \in Jobs : DiscardSkillRequest(j)
  <2>1. PICK j \in Jobs : DiscardSkillRequest(j)
    BY <1>5
  <2> DEFINE r == [job[j] EXCEPT !.state = "obsolete", !.error = "discarded"]
  <2>2. /\ att' = att
        /\ \/ job' = job
           \/ job[j].state \in IdleStates /\ job' = [job EXCEPT ![j] = r]
    BY <2>1, Zenon DEF DiscardSkillRequest
  <2>3. r.state \notin OpenStates
    BY <1>1, SMT DEF JobRow, OpenStates
  <2> HIDE DEF r
  <2> QED BY <1>2, <2>2, <2>3, StillCalm DEF IdleStates, OpenStates
<1>6. CASE \E s \in Skills, waited \in BOOLEAN : RequestRefill(s, RefillProvider, waited)
  <2>1. PICK s \in Skills : \E waited \in BOOLEAN : RequestRefill(s, RefillProvider, waited)
    BY <1>6
  <2> DEFINE new == Refill(s, RefillProvider)
  <2>2. /\ att' = att
        /\ \/ job' = job
           \/ \E j \in Jobs : /\ job[j].state = "obsolete"
                              /\ job' = [job EXCEPT ![j] = ResumedRefill(job[j])]
           \/ \E j \in Jobs : /\ job[j].state = "failed"
                              /\ job' = [job EXCEPT ![j] = RetriedRefill(job[j])]
           \/ \E j \in Jobs : Absent(j) /\ job' = [job EXCEPT ![j] = new]
    BY <2>1, Zenon DEF RequestRefill, SettledFailure
  <2>3. \A j \in Jobs : /\ ResumedRefill(job[j]).state \notin OpenStates
                        /\ RetriedRefill(job[j]).state \notin OpenStates
    BY <1>1, SMT DEF ResumedRefill, RetriedRefill, JobRow, OpenStates
  <2>4. new.state \notin OpenStates
    BY InsertedRow DEF Refill
  <2> HIDE DEF new
  <2> QED BY <1>2, <2>2, <2>3, <2>4, StillCalm DEF Absent, OpenStates
<1>7. CASE \E s \in Skills : ImportRevision(s) \/ RestoreSkill(s)
  BY <1>7, StillCalm DEF ImportRevision, RestoreSkill, genVars
<1>8. CASE \E s \in Skills : RetireSkill(s)
  <2>1. PICK s \in Skills : job' = ObsoleteIdle(s) /\ att' = att
    BY <1>8 DEF RetireSkill
  <2>2. ASSUME NEW j \in Jobs, job'[j] # job[j]
        PROVE  job[j].state \notin OpenStates /\ job'[j].state \notin OpenStates
    <3>1. /\ job[j].state \in IdleStates
          /\ job'[j] = [job[j] EXCEPT !.state = "obsolete", !.error = "retired"]
      BY <2>1, <2>2, Zenon DEF ObsoleteIdle
    <3> QED BY <1>1, <3>1, SMT DEF JobRow, IdleStates, OpenStates
  <2> QED BY <2>1, <2>2, RowsCalm
<1>9. CASE \E amount \in Limits : ConfigureBudget(amount)
  BY <1>9, StillCalm DEF ConfigureBudget, genVars
<1>10. CASE \E size \in StoreLimits : ConfigureLimits(size)
  <2>1. /\ att' = att
        /\ \A j \in Jobs : job'[j] \in {job[j], [job[j] EXCEPT !.due = TRUE]}
    BY <1>10, Zenon DEF ConfigureLimits
  <2>2. \A j \in Jobs :
          /\ job'[j].state = job[j].state /\ job'[j].holder = job[j].holder
          /\ SameRound(job[j], job'[j]) /\ job'[j].provider = job[j].provider
          /\ job'[j].lease = job[j].lease
    BY <1>1, <2>1, SMT DEF JobRow, SameRound
  <2> QED BY <2>1, <2>2, RowsCalm
<1>11. CASE \E j \in Jobs : ConfirmedRelease(j)
  BY <1>11, ReleaseCalm
<1>12. CASE RetireSource
  BY <1>12, StillCalm DEF RetireSource, genVars
<1>13. CASE AbandonRetiredClaims
  BY <1>13, AbandonCalm DEF AbandonRetiredClaims
<1> QED BY <1>3, <1>4, <1>5, <1>6, <1>7, <1>8, <1>9, <1>10, <1>11, <1>12, <1>13, Zenon DEF Request

-----------------------------------------------------------------------------
(* Recovering and claiming.                                                  *)

LEMMA UnleasedFields ==
  ASSUME NEW r \in JobRow, NEW state
  PROVE  LET u == Unleased(r, state)
         IN  /\ u.state = state /\ u.attempts = r.attempts /\ u.provider = r.provider
             /\ [u EXCEPT !.due = TRUE].state = state
             /\ [u EXCEPT !.due = TRUE].attempts = r.attempts
             /\ [u EXCEPT !.due = TRUE].provider = r.provider
             /\ [u EXCEPT !.error = "other"].state = state
             /\ [u EXCEPT !.error = "other"].attempts = r.attempts
             /\ [u EXCEPT !.error = "other"].provider = r.provider
BY SMT DEF Unleased, JobRow

LEMMA LeasedFields ==
  ASSUME NEW r \in JobRow, NEW a
  PROVE  LET u == Leased(r, a)
         IN  /\ u.state = "running" /\ u.holder = a
             /\ u.attempts = r.attempts /\ u.provider = r.provider
             /\ [u EXCEPT !.error = "none"].state = "running"
             /\ [u EXCEPT !.error = "none"].holder = a
             /\ [u EXCEPT !.error = "none"].attempts = r.attempts
             /\ [u EXCEPT !.error = "none"].provider = r.provider
BY SMT DEF Leased, JobRow

\* A move between open states that leaves the attempts alone.
LEMMA OpenRowMove ==
  ASSUME NEW a, NEW C, NEW r, NEW h, NEW w, Sound(r, h, w), r.state \in OpenStates,
         h[r.attempts].stage = "calling",
         NEW r2, r2.state \in OpenStates, r2.attempts = r.attempts, r2.provider = r.provider,
         \A b \in Actors \ {a} : ~Owns(r2, b),
         \A b \in C : AboutToCall(b, r, h, w) => r2.state = "needs_attention"
  PROVE  Calm(a, C, r, h, w, r2, h) /\ NoCall(h, h)
<1> DEFINE x == h[r.attempts]
<1>1. h = [h EXCEPT ![r.attempts] = x]
  BY Zenon DEF Sound, History
<1>2. \A b \in C : AboutToCall(b, r, h, w) => r2.state = "needs_attention" /\ ~x.response
  BY DEF AboutToCall
<1>3. /\ Calm(a, C, r, h, w, r2, [h EXCEPT ![r.attempts] = x])
      /\ NoCall(h, [h EXCEPT ![r.attempts] = x])
  BY <1>2, OpenMove
<1> QED BY <1>1, <1>3

LEMMA RecoverCalm ==
  ASSUME CallsInv, NEW a, NEW C, NEW j \in Jobs
  PROVE  /\ Calm(a, C, job[j], att[j], remote[j], RecoverJobs[j], RecoverAttempts[j])
         /\ NoCall(att[j], RecoverAttempts[j])
         /\ Sound(RecoverJobs[j], RecoverAttempts[j], remote[j])
<1> DEFINE n == job[j].attempts
           latest == att[j][n]
           r == RecoverJobs[j]
           h == RecoverAttempts[j]
<1>1. Sound(job[j], att[j], remote[j]) /\ job[j] \in JobRow
  BY SoundRows DEF Sound
<1>2. ASSUME ~Lapsed(job, j)
      PROVE  Calm(a, C, job[j], att[j], remote[j], r, h) /\ NoCall(att[j], h)
  <2>1. r = job[j] /\ h = att[j]
    BY <1>2, Zenon DEF RecoverJobs, RecoverAttempts
  <2> QED BY <1>1, <2>1, Still
<1>3. ASSUME Lapsed(job, j)
      PROVE  Calm(a, C, job[j], att[j], remote[j], r, h) /\ NoCall(att[j], h)
  <2>1. job[j].state = "running" /\ job[j].state \in OpenStates
    BY <1>3 DEF Lapsed, OpenStates
  <2>2. n \in AttemptIds /\ latest.stage \in OpenStages
    BY <1>1, <2>1 DEF Sound, LedgerOf
  <2>3. latest.response => latest.stage = "calling"
    BY <1>1, <2>2, SMT DEF Sound, RowOK, CallOK, Uncalled, OpenStages
  <2>4. CASE latest.response
    <3>1. r = [Unleased(job[j], "provider_pending") EXCEPT !.due = TRUE] /\ h = att[j]
      BY <1>3, <2>4, Zenon DEF RecoverJobs, RecoverAttempts, Latest
    <3>2. r.state = "provider_pending" /\ r.attempts = n /\ r.provider = job[j].provider
      BY <1>1, <3>1, UnleasedFields
    <3>3. \A b : ~AboutToCall(b, job[j], att[j], remote[j]) /\ ~Owns(r, b)
      BY <2>4, <3>2 DEF AboutToCall, Owns
    <3> HIDE DEF r
    <3>4. /\ Calm(a, C, job[j], att[j], remote[j], r, att[j])
          /\ NoCall(att[j], att[j])
      BY <1>1, <2>1, <2>3, <2>4, <3>2, <3>3, OpenRowMove DEF OpenStates
    <3> QED BY <3>1, <3>4
  <2>5. CASE ~latest.response /\ latest.stage = "reserved"
    <3>1. /\ r = Unleased(job[j], "queued")
          /\ h = [att[j] EXCEPT ![n] = Abandoned(@)]
      BY <1>3, <2>5, Zenon DEF RecoverJobs, RecoverAttempts, Latest
    <3>2. r.state \notin OpenStates
      BY <1>1, <3>1, UnleasedFields DEF OpenStates
    <3> QED BY <1>1, <2>1, <2>5, <3>1, <3>2, AbandonMove
  <2>6. CASE ~latest.response /\ latest.stage # "reserved"
    <3>1. r = [Unleased(job[j], "needs_attention") EXCEPT !.error = "other"] /\ h = att[j]
      BY <1>3, <2>6, Zenon DEF RecoverJobs, RecoverAttempts, Latest
    <3>2. r.state = "needs_attention" /\ r.attempts = n /\ r.provider = job[j].provider
      BY <1>1, <3>1, UnleasedFields
    <3>3. \A b : ~Owns(r, b)
      BY <3>2 DEF Owns
    <3>4. latest.stage = "calling" /\ r.state \in OpenStates
      BY <2>2, <2>6, <3>2 DEF OpenStages, OpenStates
    <3> HIDE DEF r
    <3>5. /\ Calm(a, C, job[j], att[j], remote[j], r, att[j])
          /\ NoCall(att[j], att[j])
      BY <1>1, <2>1, <3>2, <3>3, <3>4, OpenRowMove
    <3> QED BY <3>1, <3>5
  <2> QED BY <2>4, <2>5, <2>6
<1>4. GenOK(RecoverJobs, RecoverAttempts)
  BY RecoverGen DEF CallsInv, IInv, GenStep
<1>5. r \in JobRow /\ h \in History /\ LedgerOf(r, h)
  BY <1>4 DEF GenOK
<1>6. Calm(a, C, job[j], att[j], remote[j], r, h) /\ NoCall(att[j], h)
  BY <1>2, <1>3
<1> HIDE DEF r, h
<1>7. Sound(r, h, remote[j])
  BY <1>1, <1>5, <1>6 DEF Sound, Calm
<1> QED BY <1>6, <1>7 DEF r, h

\* What a does after it recovered the rows is one more calm move.
LEMMA AfterRecover ==
  ASSUME CallsInv, NEW a,
         \A j \in Jobs : Calm(a, Others(a, j), RecoverJobs[j], RecoverAttempts[j], remote[j],
                              job'[j], att'[j])
  PROVE  /\ Calmly(a)
         /\ (\A j \in Jobs : NoCall(RecoverAttempts[j], att'[j])) => NothingCalled
BY RecoverCalm, CalmTwice, NoCallTwice DEF Calmly, NothingCalled

LEMMA ResumeCalm ==
  ASSUME CallsInv, NEW a \in Actors, Resume(a)
  PROVE  Calmly(a) /\ NothingCalled /\ Fits(a)' /\ actor'[a].pc # "calling"
<1>1. att' = RecoverAttempts /\ actor \in [Actors -> ActorRow] /\ remote' = remote
  BY DEF Resume, CallsInv, IInv, ProcessesOK, ActorsOK
<1>2. GenOK(RecoverJobs, RecoverAttempts)
  BY RecoverGen DEF CallsInv, IInv, GenStep
<1>3. CASE job' = RecoverJobs /\ Goto(a, "claiming")
  <2>1. Calmly(a) /\ NothingCalled
    BY <1>1, <1>3, RecoverCalm DEF Calmly, NothingCalled
  <2>2. actor'[a].pc = "claiming"
    BY <1>1, <1>3, SMT DEF Goto, ActorRow
  <2> QED BY <2>1, <2>2 DEF Fits, Informed, Working
<1>4. CASE \E j \in Resumable(RecoverJobs, a) :
             /\ job' = [RecoverJobs EXCEPT ![j] = Leased(@, a)]
             /\ actor' = [actor EXCEPT ![a] =
                  [Idle EXCEPT !.pc = "retrieving", !.job = j, !.attempt = job[j].attempts]]
  <2>1. PICK j \in Resumable(RecoverJobs, a) :
             /\ job' = [RecoverJobs EXCEPT ![j] = Leased(@, a)]
             /\ actor' = [actor EXCEPT ![a] =
                  [Idle EXCEPT !.pc = "retrieving", !.job = j, !.attempt = job[j].attempts]]
    BY <1>4
  <2> DEFINE r == Leased(RecoverJobs[j], a)
             h == RecoverAttempts[j]
  <2>2. j \in Jobs /\ RecoverJobs[j].state = "provider_pending" /\ RecoverJobs[j] \in JobRow
    BY <1>2 DEF Resumable, GenOK
  <2>3. /\ r.state = "running" /\ r.holder = a
        /\ r.attempts = RecoverJobs[j].attempts /\ r.provider = RecoverJobs[j].provider
    BY <2>2, LeasedFields
  <2>4. job'[j] = r /\ \A k \in Jobs \ {j} : job'[k] = RecoverJobs[k]
    BY <1>2, <2>1, <2>2, Zenon DEF GenOK
  <2>5. Sound(RecoverJobs[j], h, remote[j]) /\ h[r.attempts].stage = "calling"
    <3>1. Sound(RecoverJobs[j], h, remote[j])
      BY <2>2, RecoverCalm
    <3> QED BY <2>2, <2>3, <3>1 DEF Sound, RowOK
  <2>6. \A b \in Actors \ {a} : ~Owns(r, b)
    BY <2>3 DEF Owns
  <2>7. \A b : ~AboutToCall(b, RecoverJobs[j], h, remote[j])
    BY <2>2 DEF AboutToCall
  <2>8. Calm(a, Others(a, j), RecoverJobs[j], h, remote[j], r, h)
    <3> HIDE DEF r, h
    <3> QED BY <2>2, <2>3, <2>5, <2>6, <2>7, OpenRowMove DEF OpenStates
  <2>9. \A k \in Jobs \ {j} :
          Calm(a, Others(a, k), RecoverJobs[k], RecoverAttempts[k], remote[k],
               RecoverJobs[k], RecoverAttempts[k])
    BY RecoverCalm, Still
  <2>10. Calmly(a)
    BY <1>1, <2>4, <2>8, <2>9, AfterRecover
  <2>11. NothingCalled
    BY <1>1, RecoverCalm DEF NothingCalled
  <2>12. /\ actor'[a].pc = "retrieving" /\ actor'[a].job = j
         /\ actor'[a].attempt = job[j].attempts
    BY <1>1, <2>1, IdleRow, SMT DEF ActorRow
  <2>13. job[j].attempts = r.attempts
    BY <2>2, <2>3, RecoverRounds DEF CallsInv, IInv, SameRound
  <2>14. Fits(a)'
    BY <1>1, <2>4, <2>5, <2>12, <2>13 DEF Fits, Informed, Knows
  <2> QED BY <2>10, <2>11, <2>12, <2>14
<1> QED BY <1>3, <1>4, Zenon DEF Resume

LEMMA ClaimCalm ==
  ASSUME CallsInv, NEW a \in Actors, Claim(a)
  PROVE  Calmly(a) /\ ~sourceRetired /\ Fits(a)' /\ actor'[a].pc # "calling"
<1> DEFINE jb == RecoverJobs
           at == RecoverAttempts
           rows == Claimable(jb)
           leasable == {j \in rows : Verdict(jb, at, j, a) = "running"}
<1>1. actor \in [Actors -> ActorRow] /\ remote' = remote /\ ~sourceRetired
  <2>1. remote' = remote /\ ~sourceRetired
    BY Zenon DEF Claim
  <2> QED BY <2>1 DEF CallsInv, IInv, ProcessesOK, ActorsOK
<1>2. GenOK(jb, at) /\ \A j \in Jobs : Sound(jb[j], at[j], remote[j])
  BY RecoverGen, RecoverCalm DEF CallsInv, IInv, GenStep
<1>3. ASSUME NEW j \in Jobs, NEW S \in SUBSET (rows \ leasable)
      PROVE  LET r == Passing(jb, at, S, a)[j]
             IN  Calm(a, Others(a, j), jb[j], at[j], remote[j], r, at[j])
  <2> DEFINE r == Passing(jb, at, S, a)[j]
  <2>1. CASE j \notin S
    <3>1. r = jb[j]
      BY <2>1, Zenon DEF Passing
    <3> HIDE DEF r, jb, at
    <3> QED BY <1>2, <3>1, Still DEF r
  <2>2. CASE j \in S
    <3>1. r = PassedOver(j, jb[j], Verdict(jb, at, j, a), a)
      BY <2>2, Zenon DEF Passing
    <3>2. jb[j] \in JobRow /\ jb[j].state \in IdleStates /\ Verdict(jb, at, j, a) # "running"
      BY <1>2, <2>2 DEF Claimable, GenOK
    <3>3. r.state \notin OpenStates
      <4>1. ProviderOf[a] \in Providers
        BY ProviderAssumption
      <4> HIDE DEF jb, at
      <4>2. PassedOver(j, jb[j], Verdict(jb, at, j, a), a).state \notin OpenStates
        BY <3>2, <4>1, PassedOverRow
      <4> QED BY <3>1, <4>2
    <3>4. jb[j].state \notin OpenStates
      BY <3>2 DEF IdleStates, OpenStates
    <3> HIDE DEF r, jb, at
    <3>5. Calm(a, Others(a, j), jb[j], at[j], remote[j], r, at[j])
      BY <1>2, <3>3, <3>4, ClosedMove
    <3> QED BY <3>5 DEF r
  <2> QED BY <2>1, <2>2
<1>4. CASE job' = Passing(jb, at, rows, a) /\ att' = at /\ Stop(a) /\ leasable = {}
  <2>1. \A j \in Jobs : Calm(a, Others(a, j), jb[j], at[j], remote[j], job'[j], att'[j])
    <3> HIDE DEF jb, at
    <3> QED BY <1>3, <1>4
  <2>3. Calmly(a)
    BY <2>1, AfterRecover
  <2>2. actor'[a].pc = "idle"
    BY <1>1, <1>4, IdleRow DEF Stop
  <2> QED BY <1>1, <2>2, <2>3 DEF Fits, Informed, Working
<1>5. ASSUME NEW j \in leasable, NEW S \in SUBSET (rows \ leasable),
             job' = [Passing(jb, at, S, a) EXCEPT ![j] = Claimed(@, a)],
             att' = [at EXCEPT ![j][jb[j].attempts + 1] = Reservation(at, ProviderOf[a])],
             actor' = [actor EXCEPT ![a] =
               [Idle EXCEPT !.pc = "claimed", !.job = j, !.attempt = jb[j].attempts + 1]]
      PROVE  Calmly(a) /\ Fits(a)' /\ actor'[a].pc # "calling"
  <2> DEFINE r == Claimed(jb[j], a)
             x == Reservation(at, ProviderOf[a])
  <2>1. j \in Jobs /\ jb[j].state \notin OpenStates /\ jb[j].attempts + 1 \in AttemptIds
    BY <1>2, LeasableRow
  <2>2. /\ Passing(jb, at, S, a)[j] = jb[j]
        /\ Passing(jb, at, S, a) = [k \in Jobs |-> Passing(jb, at, S, a)[k]]
    BY <2>1, Zenon DEF Passing
  <2>3. /\ job'[j] = r /\ att'[j] = [at[j] EXCEPT ![jb[j].attempts + 1] = x]
        /\ \A k \in Jobs \ {j} : job'[k] = Passing(jb, at, S, a)[k] /\ att'[k] = at[k]
    <3>1. at \in [Jobs -> History]
      BY <1>2 DEF GenOK
    <3> HIDE DEF at, jb
    <3> QED BY <1>5, <2>1, <2>2, <3>1, Zenon
  <2>4. r.state = "running" /\ r.holder = a
    <3>1. jb[j] \in JobRow
      BY <1>2, <2>1 DEF GenOK
    <3> HIDE DEF jb
    <3> QED BY <3>1, SMT DEF Claimed, Leased, Adopted, JobRow
  <2>5. x.stage = "reserved" /\ ~x.response
    BY SMT DEF Reservation, NoAttempt
  <2>6. Calm(a, Others(a, j), jb[j], at[j], remote[j], job'[j], att'[j])
    <3> HIDE DEF r, x, jb, at
    <3> QED BY <1>2, <2>1, <2>3, <2>4, <2>5, ReserveMove
  <2>7. \A k \in Jobs \ {j} : Calm(a, Others(a, k), jb[k], at[k], remote[k], job'[k], att'[k])
    BY <1>3, <2>3
  <2>8. Calmly(a)
    BY <2>6, <2>7, AfterRecover
  <2>9. actor'[a].pc = "claimed"
    BY <1>1, <1>5, IdleRow, SMT DEF ActorRow
  <2> QED BY <2>8, <2>9 DEF Fits, Informed, Working
<1>6. \/ leasable = {} /\ job' = Passing(jb, at, rows, a) /\ att' = at /\ Stop(a)
      \/ \E j \in leasable, S \in SUBSET (rows \ leasable) :
           /\ job' = [Passing(jb, at, S, a) EXCEPT ![j] = Claimed(@, a)]
           /\ att' = [at EXCEPT ![j][jb[j].attempts + 1] = Reservation(at, ProviderOf[a])]
           /\ actor' = [actor EXCEPT ![a] =
                [Idle EXCEPT !.pc = "claimed", !.job = j, !.attempt = jb[j].attempts + 1]]
  BY Zenon DEF Claim
<1> HIDE DEF jb, at
<1> QED BY <1>1, <1>4, <1>5, <1>6, Zenon

-----------------------------------------------------------------------------
(* From a claim to its end.                                                  *)

Involved == Working \cup {"calling", "reconciling"}

\* A step of process a that no other process notices, after which a fits.
Orderly(a) ==
  /\ remote' = remote /\ \A b \in Actors \ {a} : actor'[b] = actor[b]
  /\ Calmly(a) /\ (sourceRetired => NothingCalled)
  /\ Fits(a)'
  /\ actor'[a].pc = "calling" => Others(a, actor'[a].job) = {}

LEMMA MoveFacts ==
  ASSUME CallsInv, NEW a \in Actors, NEW pc
  PROVE  /\ Goto(a, pc) =>
              /\ actor'[a].pc = pc /\ actor'[a].job = actor[a].job
              /\ actor'[a].attempt = actor[a].attempt /\ actor'[a].answer = actor[a].answer
              /\ \A b \in Actors \ {a} : actor'[b] = actor[b]
         /\ \A answer : GotoWith(a, pc, answer) =>
              /\ actor'[a].pc = pc /\ actor'[a].job = actor[a].job
              /\ actor'[a].attempt = actor[a].attempt /\ actor'[a].answer = answer
              /\ \A b \in Actors \ {a} : actor'[b] = actor[b]
         /\ Stop(a) => actor'[a].pc = "idle" /\ \A b \in Actors \ {a} : actor'[b] = actor[b]
<1>1. actor \in [Actors -> ActorRow] /\ actor[a] \in ActorRow
  BY DEF CallsInv, IInv, ProcessesOK, ActorsOK
<1>2. ASSUME NEW p, actor' = [actor EXCEPT ![a] = p]
      PROVE  actor'[a] = p /\ \A b \in Actors \ {a} : actor'[b] = actor[b]
  BY <1>1, <1>2, Zenon
<1>3. LET p == [actor[a] EXCEPT !.pc = pc]
      IN  /\ p.pc = pc /\ p.job = actor[a].job
          /\ p.attempt = actor[a].attempt /\ p.answer = actor[a].answer
  BY <1>1, SMT DEF ActorRow
<1>4. ASSUME NEW answer
      PROVE  LET p == [actor[a] EXCEPT !.pc = pc, !.answer = answer]
             IN  /\ p.pc = pc /\ p.job = actor[a].job
                 /\ p.attempt = actor[a].attempt /\ p.answer = answer
  BY <1>1, SMT DEF ActorRow
<1>5. ASSUME Goto(a, pc)
      PROVE  actor'[a] = [actor[a] EXCEPT !.pc = pc] /\ \A b \in Actors \ {a} : actor'[b] = actor[b]
  BY <1>2, <1>5 DEF Goto
<1>6. ASSUME NEW answer, GotoWith(a, pc, answer)
      PROVE  /\ actor'[a] = [actor[a] EXCEPT !.pc = pc, !.answer = answer]
             /\ \A b \in Actors \ {a} : actor'[b] = actor[b]
  BY <1>2, <1>6 DEF GotoWith
<1>7. ASSUME Stop(a) PROVE actor'[a] = Idle /\ \A b \in Actors \ {a} : actor'[b] = actor[b]
  BY <1>2, <1>7 DEF Stop
<1>8. ASSUME NEW answer, GotoWith(a, pc, answer)
      PROVE  /\ actor'[a].pc = pc /\ actor'[a].job = actor[a].job
             /\ actor'[a].attempt = actor[a].attempt /\ actor'[a].answer = answer
             /\ \A b \in Actors \ {a} : actor'[b] = actor[b]
  <2> DEFINE p == [actor[a] EXCEPT !.pc = pc, !.answer = answer]
  <2>1. actor'[a] = p /\ \A b \in Actors \ {a} : actor'[b] = actor[b]
    BY <1>6, <1>8
  <2>2. p.pc = pc /\ p.job = actor[a].job /\ p.attempt = actor[a].attempt /\ p.answer = answer
    BY <1>4
  <2> HIDE DEF p
  <2> QED BY <2>1, <2>2
<1> QED BY <1>3, <1>5, <1>7, <1>8, IdleRow

LEMMA AnswerFacts ==
  ASSUME CallsInv, NEW a \in Actors, NEW pc, NEW answer, GotoWith(a, pc, answer)
  PROVE  /\ actor'[a].pc = pc /\ actor'[a].job = actor[a].job
         /\ actor'[a].attempt = actor[a].attempt /\ actor'[a].answer = answer
         /\ \A b \in Actors \ {a} : actor'[b] = actor[b]
BY MoveFacts

\* The process ends or goes where nothing depends on what it knows.
LEMMA LeavesOff ==
  ASSUME CallsInv, NEW a \in Actors, remote' = remote,
         Calmly(a), sourceRetired => NothingCalled,
         Stop(a) \/ \E pc \in Pcs \ Involved : Goto(a, pc)
  PROVE  Orderly(a)
<1>1. actor'[a].pc \notin Involved /\ \A b \in Actors \ {a} : actor'[b] = actor[b]
  BY MoveFacts DEF Involved, Working
<1> QED BY <1>1 DEF Orderly, Fits, Informed, Involved

\* The process goes on working on its claim and learns something.
LEMMA GoesOn ==
  ASSUME CallsInv, NEW a \in Actors, remote' = remote, actor[a].job \in Jobs,
         Calmly(a), sourceRetired => NothingCalled, actor'[a].pc \in Working,
         actor'[a].job = actor[a].job, \A b \in Actors \ {a} : actor'[b] = actor[b],
         LET j == actor[a].job
         IN  Owns(job'[j], a) => Knows(actor'[a], job'[j], att'[j], remote[j])
  PROVE  Orderly(a)
BY DEF Orderly, Fits, Informed, Working

LEMMA OwnerKnows ==
  ASSUME CallsInv, NEW a \in Actors, actor[a].pc \in Working \cup {"calling"}
  PROVE  LET j == actor[a].job
         IN  /\ j \in Jobs /\ Sound(job[j], att[j], remote[j])
             /\ Owned(a, j) <=> Owns(job[j], a)
             /\ actor[a].pc = "calling" => AboutToCall(a, job[j], att[j], remote[j])
             /\ actor[a].pc \in Working /\ Owned(a, j) =>
                  Knows(actor[a], job[j], att[j], remote[j])
             /\ Owned(a, j) => \A b \in Others(a, j) : ~AboutToCall(b, job[j], att[j], remote[j])
<1> DEFINE j == actor[a].job
<1>1. j \in Jobs
  BY WorksOnJob DEF CallsInv, Working, JobLess
<1>2. Informed(a, actor[a], job[j], att[j], remote[j])
  BY DEF CallsInv, CallInv, Fits
<1>3. Owned(a, j) <=> Owns(job[j], a)
  BY DEF Owned, Owns
<1>4. Others(a, j) \in SUBSET (Actors \ {a})
  BY DEF Others
<1>5. Owned(a, j) => \A b \in Others(a, j) : ~AboutToCall(b, job[j], att[j], remote[j])
  BY <1>3, <1>4, OwnerAlone
<1> QED BY <1>1, <1>2, <1>3, <1>5, SoundRows DEF Informed

LEMMA CallingOrderly ==
  ASSUME CallsInv, NEW a \in Actors, Calling(a)
  PROVE  Orderly(a)
<1> DEFINE j == actor[a].job
           r == job[j]
           n == r.attempts
           verdict == CallVerdict(r, att[j][n])
           gone == [Unleased(r, verdict) EXCEPT
                      !.due = FALSE,
                      !.error = IF verdict = "obsolete" THEN StaleError(r) ELSE "other"]
           given == [att[j] EXCEPT ![n] = Abandoned(@)]
           called == [att[j] EXCEPT ![n] = Called(@, r)]
<1>0. actor[a].pc = "claimed" /\ remote' = remote /\ ~sourceRetired
  BY StartsAt
<1>1. /\ j \in Jobs /\ r \in JobRow /\ Sound(r, att[j], remote[j])
      /\ remote' = remote /\ ~sourceRetired
      /\ Owned(a, j) <=> Owns(r, a)
  <2>1. j \in Jobs /\ r \in JobRow
    BY <1>0, WorksOnJob DEF CallsInv, JobLess
  <2> HIDE DEF j
  <2>2. Sound(r, att[j], remote[j])
    BY <2>1, SoundRows
  <2>3. Owned(a, j) <=> Owns(r, a)
    BY Zenon DEF Owned, Owns
  <2> QED BY <1>0, <2>1, <2>2, <2>3
<1>2. \/ job' = job /\ att' = att /\ Stop(a)
      \/ /\ Owned(a, j) /\ att[j][n].stage = "reserved"
         /\ job' = job /\ att' = [att EXCEPT ![j] = called] /\ Goto(a, "calling")
      \/ /\ Owned(a, j) /\ att[j][n].stage = "reserved" /\ verdict # "running"
         /\ job' = [job EXCEPT ![j] = gone] /\ att' = [att EXCEPT ![j] = given] /\ Stop(a)
  BY Zenon DEF Calling, CallingRow, genVars
<1> HIDE DEF j
<1>3. CASE job' = job /\ att' = att /\ Stop(a)
  BY <1>1, <1>3, StillCalm, LeavesOff
<1>4. CASE /\ Owned(a, j) /\ att[j][n].stage = "reserved"
           /\ job' = job /\ att' = [att EXCEPT ![j] = called] /\ Goto(a, "calling")
  <2>1. Others(a, j) \in SUBSET (Actors \ {a})
    BY DEF Others
  <2>2. Calm(a, Others(a, j), r, att[j], remote[j], r, called)
        /\ AboutToCall(a, r, called, remote[j])
    <3> HIDE DEF r
    <3> QED BY <1>1, <1>4, <2>1, CallMove
  <2>3. job' = [job EXCEPT ![j] = r]
    BY <1>1, <1>4, Zenon DEF CallsInv, IInv, GenOK
  <2>4. att'[j] = called
    BY <1>1, <1>4, Zenon DEF CallsInv, IInv, GenOK
  <2> HIDE DEF called, r
  <2>5. Calmly(a)
    BY <1>1, <1>4, <2>2, <2>3, OneRowCalm DEF r
  <2>6. /\ actor'[a].pc = "calling" /\ actor'[a].job = j
        /\ \A b \in Actors \ {a} : actor'[b] = actor[b]
    BY <1>4, MoveFacts DEF j
  <2>7. Fits(a)'
    BY <1>1, <1>4, <2>2, <2>4, <2>6 DEF Fits, Informed, Working, r
  <2>8. Others(a, j) = {}
    <3>1. ASSUME NEW b \in Others(a, j) PROVE FALSE
      <4>1. AboutToCall(b, r, att[j], remote[j])
        BY OwnerKnows DEF Others, r
      <4> QED BY <1>4, <4>1 DEF AboutToCall
    <3> QED BY <3>1
  <2> QED BY <1>1, <2>5, <2>6, <2>7, <2>8 DEF Orderly
<1>5. CASE /\ Owned(a, j) /\ att[j][n].stage = "reserved" /\ verdict # "running"
           /\ job' = [job EXCEPT ![j] = gone] /\ att' = [att EXCEPT ![j] = given] /\ Stop(a)
  <2>1. verdict \in {"obsolete", "waiting_budget", "waiting_capacity"}
    BY <1>5, Zenon DEF CallVerdict
  <2>2. gone.state = verdict
    BY <1>1, SMT DEF Unleased, JobRow
  <2>4. r.state \in OpenStates
    BY <1>5, Zenon DEF Owned, OpenStates
  <2> HIDE DEF gone, verdict, r
  <2>3. gone.state \notin OpenStates
    BY <2>1, <2>2 DEF OpenStates
  <2>5. Calm(a, Others(a, j), r, att[j], remote[j], gone, given) /\ NoCall(att[j], given)
    BY <1>1, <1>5, <2>3, <2>4, AbandonMove
  <2> HIDE DEF given
  <2>6. Calmly(a)
    BY <1>1, <1>5, <2>5, OneRowCalm DEF r
  <2> QED BY <1>1, <1>5, <2>6, LeavesOff
<1> QED BY <1>2, <1>3, <1>4, <1>5, Zenon

LEMMA CallingRetiredOrderly ==
  ASSUME CallsInv, NEW a \in Actors, CallingRetired(a)
  PROVE  Orderly(a)
<1>1. PICK S \in SUBSET ReservedClaims : AbandonReserved(S)
  BY Zenon DEF CallingRetired
<1> QED BY <1>1, AbandonCalm, LeavesOff DEF CallingRetired

LEMMA GenerateOrderly ==
  ASSUME CallsInv, NEW a \in Actors, Generate(a)
  PROVE  Orderly(a)
<1> DEFINE j == actor[a].job
<1>1. /\ actor[a].pc = "calling" /\ remote' = remote /\ job' = job /\ att' = att
      /\ \/ \E answer \in {"good", "bad"} : GotoWith(a, "holding", answer)
         \/ \E kind \in {"terminal", "uncertain"} : GotoWith(a, "failing", kind)
  BY DEF Generate, storeVars, genVars
<1>2. j \in Jobs /\ AboutToCall(a, job[j], att[j], remote[j])
  BY <1>1, OwnerKnows
<1>3. /\ actor'[a].pc \in {"holding", "failing"} /\ actor'[a].job = j
      /\ \A b \in Actors \ {a} : actor'[b] = actor[b]
  BY <1>1, MoveFacts
<1>4. Knows(actor'[a], job[j], att[j], remote[j])
  BY <1>2, <1>3 DEF Knows, AboutToCall
<1> QED BY <1>1, <1>2, <1>3, <1>4, StillCalm, GoesOn DEF Working

LEMMA SubmittedOrderly ==
  ASSUME CallsInv, NEW a \in Actors, Submitted(a)
  PROVE  Orderly(a)
<1> DEFINE j == actor[a].job
           n == job[j].attempts
           x == [att[j][n] EXCEPT !.response = TRUE]
           h == [att[j] EXCEPT ![n] = x]
<1>1. /\ actor[a].pc = "answered" /\ actor[a].pc \in Working
      /\ remote' = remote /\ job' = job
  BY StartsAt DEF Working
<1>2. /\ j \in Jobs /\ Sound(job[j], att[j], remote[j])
      /\ Owned(a, j) <=> Owns(job[j], a)
      /\ Owned(a, j) => Knows(actor[a], job[j], att[j], remote[j])
      /\ Owned(a, j) => \A b \in Others(a, j) : ~AboutToCall(b, job[j], att[j], remote[j])
  BY <1>1, OwnerKnows
<1>5. IF Owned(a, j) /\ att[j][n].stage = "calling"
      THEN att' = [att EXCEPT ![j] = h] /\ Goto(a, "holding")
      ELSE att' = att /\ (Stop(a) \/ GotoWith(a, "failing", "uncertain"))
  BY Zenon DEF Submitted
<1>6. Goto(a, "holding") \/ GotoWith(a, "failing", "uncertain") =>
        /\ actor'[a].job = j
        /\ \A b \in Actors \ {a} : actor'[b] = actor[b]
  BY MoveFacts
<1> HIDE DEF j, n
<1>3. CASE Owned(a, j) /\ att[j][n].stage = "calling"
  <2>1. att' = [att EXCEPT ![j] = h] /\ Goto(a, "holding")
    BY <1>3, <1>5
  <2>2. n \in AttemptIds /\ att[j][n] \in AttemptRow /\ job[j].state \in OpenStates
    BY <1>2, <1>3, OwnedOpen DEF CallsInv, n
  <2>3. /\ x.stage = "calling" /\ x.charge = att[j][n].charge /\ x.gross = att[j][n].gross
        /\ x.credit = att[j][n].credit
    BY <1>3, <2>2, SMT DEF AttemptRow
  <2> HIDE DEF x
  <2>4. \A b \in Actors \ {a} : ~Owns(job[j], b)
    BY <1>2, <1>3 DEF Owns
  <2>5. h[n] = x
    BY <1>2, <2>2, Zenon DEF Sound, History
  <2>6. att'[j] = h /\ job' = [job EXCEPT ![j] = job[j]]
    BY <1>1, <1>2, <2>1, Zenon DEF CallsInv, IInv, GenOK
  <2>7. Calm(a, Others(a, j), job[j], att[j], remote[j], job[j], h) /\ NoCall(att[j], h)
    BY <1>2, <1>3, <2>2, <2>3, <2>4, OpenMove DEF n
  <2> HIDE DEF h
  <2>8. Calmly(a) /\ NothingCalled
    BY <1>1, <1>2, <2>1, <2>6, <2>7, OneRowCalm
  <2>9. /\ actor'[a].pc = "holding" /\ actor'[a].job = j
        /\ actor'[a].answer = actor[a].answer /\ actor'[a].attempt = actor[a].attempt
        /\ \A b \in Actors \ {a} : actor'[b] = actor[b]
    BY <2>1, MoveFacts DEF j
  <2>10. Knows(actor'[a], job'[j], att'[j], remote[j])
    BY <1>1, <1>2, <1>3, <2>3, <2>5, <2>6, <2>9 DEF Knows, n
  <2> QED BY <1>1, <1>2, <2>8, <2>9, <2>10, GoesOn DEF Working, j
<1>4. CASE ~(Owned(a, j) /\ att[j][n].stage = "calling")
  <2>1. att' = att /\ (Stop(a) \/ GotoWith(a, "failing", "uncertain"))
    BY <1>4, <1>5
  <2>2. ~Owns(job[j], a)
    BY <1>2, <1>4 DEF Knows, n
  <2>3. CASE Stop(a)
    BY <1>1, <2>1, <2>3, StillCalm, LeavesOff
  <2>4. CASE GotoWith(a, "failing", "uncertain")
    <3>1. /\ actor'[a].pc = "failing" /\ actor'[a].job = j
          /\ \A b \in Actors \ {a} : actor'[b] = actor[b]
      BY <1>6, <2>4, AnswerFacts
    <3>2. Calmly(a) /\ NothingCalled
      BY <1>1, <2>1, StillCalm
    <3> QED BY <1>1, <1>2, <2>2, <3>1, <3>2, GoesOn DEF Working, j
  <2> QED BY <2>1, <2>3, <2>4
<1> QED BY <1>3, <1>4, Zenon

LEMMA RetrieveOrderly ==
  ASSUME CallsInv, NEW a \in Actors, Retrieve(a)
  PROVE  Orderly(a)
<1> DEFINE j == actor[a].job
           status == remote[j][actor[a].attempt].status
<1>1. /\ actor[a].pc = "retrieving" /\ actor[a].pc \in Working
      /\ remote' = remote /\ job' = job /\ att' = att
      /\ \/ status # "none" /\ GotoWith(a, "holding", status)
         \/ Goto(a, "unread")
         \/ GotoWith(a, "failing", "uncertain")
  BY DEF Retrieve, storeVars, genVars, Working
<1>2. /\ j \in Jobs
      /\ Owned(a, j) <=> Owns(job[j], a)
      /\ Owned(a, j) => Knows(actor[a], job[j], att[j], remote[j])
  BY <1>1, OwnerKnows
<1>3. /\ actor'[a].pc \in {"holding", "unread", "failing"} /\ actor'[a].job = j
      /\ actor'[a].pc = "holding" => actor'[a].answer = status
      /\ actor'[a].pc = "failing" => actor'[a].answer = "uncertain"
      /\ \A b \in Actors \ {a} : actor'[b] = actor[b]
  <2> HIDE DEF j, status
  <2>1. CASE GotoWith(a, "holding", status)
    BY <2>1, AnswerFacts DEF j
  <2>2. CASE Goto(a, "unread")
    BY <2>2, MoveFacts DEF j
  <2>3. CASE GotoWith(a, "failing", "uncertain")
    BY <2>3, AnswerFacts DEF j
  <2> QED BY <1>1, <2>1, <2>2, <2>3
<1> HIDE DEF j, status
<1>4. Owns(job[j], a) => Knows(actor'[a], job[j], att[j], remote[j])
  BY <1>1, <1>2, <1>3 DEF Knows, status
<1>5. Owns(job'[j], a) => Knows(actor'[a], job'[j], att'[j], remote[j])
  BY <1>1, <1>4
<1>6. actor'[a].pc \in Working
  BY <1>3 DEF Working
<1>7. Calmly(a) /\ NothingCalled
  BY <1>1, StillCalm
<1> QED BY <1>1, <1>2, <1>3, <1>5, <1>6, <1>7, GoesOn DEF j

LEMMA UnusableOrderly ==
  ASSUME CallsInv, NEW a \in Actors, Unusable(a)
  PROVE  Orderly(a)
<1> DEFINE j == actor[a].job
<1>1. /\ actor[a].pc = "holding" /\ actor[a].pc \in Working
      /\ remote' = remote /\ job' = job /\ att' = att
      /\ \E kind \in {"uncertain", "billing"} : GotoWith(a, "failing", kind)
  BY DEF Unusable, storeVars, genVars, Working
<1>2. /\ j \in Jobs
      /\ Owned(a, j) <=> Owns(job[j], a)
      /\ Owned(a, j) => Knows(actor[a], job[j], att[j], remote[j])
  BY <1>1, OwnerKnows
<1>3. /\ actor'[a].pc = "failing" /\ actor'[a].job = j
      /\ actor'[a].answer \in {"uncertain", "billing"}
      /\ \A b \in Actors \ {a} : actor'[b] = actor[b]
  BY <1>1, AnswerFacts
<1> HIDE DEF j
<1>4. Owns(job[j], a) => Knows(actor'[a], job[j], att[j], remote[j])
  BY <1>2, <1>3 DEF Knows
<1>5. Owns(job'[j], a) => Knows(actor'[a], job'[j], att'[j], remote[j])
  BY <1>1, <1>4
<1>6. actor'[a].pc \in Working
  BY <1>3 DEF Working
<1>7. Calmly(a) /\ NothingCalled
  BY <1>1, StillCalm
<1> QED BY <1>1, <1>2, <1>3, <1>5, <1>6, <1>7, GoesOn DEF j

\* The owner leaves its job in another open state.
LEMMA PendingCalm ==
  ASSUME CallsInv, NEW a \in Actors, actor[a].pc \in Working, NEW unread \in BOOLEAN,
         Pending(a, unread)
  PROVE  Calmly(a) /\ NothingCalled
<1> DEFINE j == actor[a].job
           n == job[j].attempts
           x == Polled(att[j][n], unread)
           r == Waiting(job[j], x.polls)
           h == [att[j] EXCEPT ![n] = x]
<1>1. /\ Owned(a, j) /\ job' = [job EXCEPT ![j] = r] /\ att' = [att EXCEPT ![j] = h]
  BY Zenon DEF Pending
<1>2. /\ j \in Jobs /\ Sound(job[j], att[j], remote[j]) /\ job[j] \in JobRow
      /\ att[j][n].stage = "calling"
      /\ \A b \in Others(a, j) : ~AboutToCall(b, job[j], att[j], remote[j])
  <2>1. /\ j \in Jobs /\ Sound(job[j], att[j], remote[j]) /\ Knows(actor[a], job[j], att[j], remote[j])
        /\ \A b \in Others(a, j) : ~AboutToCall(b, job[j], att[j], remote[j])
    BY <1>1, OwnerKnows
  <2> HIDE DEF j
  <2> QED BY <2>1 DEF Knows, Sound
<1> HIDE DEF j
<1>3. att[j][n] \in AttemptRow /\ job[j].state \in OpenStates
  BY <1>1, <1>2, OwnedOpen DEF CallsInv
<1>4. /\ x.stage = "calling" /\ x.charge = att[j][n].charge /\ x.gross = att[j][n].gross
      /\ x.credit = att[j][n].credit
  BY <1>2, <1>3, SMT DEF Polled, AttemptRow
<1> HIDE DEF n
<1>5. /\ r.state \in {"needs_attention", "provider_pending"}
      /\ r.attempts = n /\ r.provider = job[j].provider
  <2> HIDE DEF x
  <2> QED BY <1>2, SMT DEF Waiting, Unleased, JobRow, n
<1> HIDE DEF x, r
<1>6. \A b : ~Owns(r, b)
  BY <1>5 DEF Owns
<1>7. Calm(a, Others(a, j), job[j], att[j], remote[j], r, h) /\ NoCall(att[j], h)
  <2>1. r.state \in OpenStates
    BY <1>5 DEF OpenStates
  <2>2. \A b \in Actors \ {a} : ~Owns(r, b)
    BY <1>6
  <2> QED BY <1>2, <1>3, <1>4, <1>5, <2>1, <2>2, OpenMove DEF n
<1> HIDE DEF h
<1> QED BY <1>1, <1>2, <1>7, OneRowCalm

LEMMA PcLeaves ==
  {"publishing", "republishing", "resuming", "claiming", "claimed"} \subseteq Pcs \ Involved
BY DEF Pcs, Involved, Working

LEMMA PollOrderly ==
  ASSUME CallsInv, NEW a \in Actors, Poll(a)
  PROVE  Orderly(a)
<1>1. /\ actor[a].pc \in Working /\ remote' = remote
      /\ \E unread \in BOOLEAN : Pending(a, unread)
      /\ Stop(a) \/ Goto(a, "republishing")
  BY Zenon DEF Poll, EndRun, Working
<1>2. Calmly(a) /\ NothingCalled
  BY <1>1, PendingCalm
<1> QED BY <1>1, <1>2, PcLeaves, LeavesOff

LEMMA SaveResultOrderly ==
  ASSUME CallsInv, NEW a \in Actors, SaveResult(a)
  PROVE  Orderly(a)
<1> DEFINE j == actor[a].job
           n == job[j].attempts
           charge == remote[j][n].cost
           r == [Unleased(job[j], "result_ready") EXCEPT !.result = actor[a].answer]
           h == [att[j] EXCEPT ![n] = Settled(@, charge)]
<1>1. /\ actor[a].pc = "holding" /\ actor[a].answer \in Finished /\ Owned(a, j)
      /\ actor[a].pc \in Working
      /\ job' = [job EXCEPT ![j] = r] /\ att' = [att EXCEPT ![j] = h]
      /\ Goto(a, "publishing") /\ remote' = remote
  <2>1. /\ actor[a].answer \in {"good", "bad"} /\ Owned(a, j)
        /\ job' = [job EXCEPT ![j] = r] /\ att' = [att EXCEPT ![j] = h]
        /\ Goto(a, "publishing")
    BY Zenon DEF SaveResult
  <2> HIDE DEF j, r, h
  <2> QED BY <2>1, StartsAt DEF Finished, Working
<1>2. /\ j \in Jobs /\ Sound(job[j], att[j], remote[j]) /\ job[j] \in JobRow
      /\ Knows(actor[a], job[j], att[j], remote[j])
      /\ \A b \in Others(a, j) : ~AboutToCall(b, job[j], att[j], remote[j])
  <2>1. /\ j \in Jobs /\ Sound(job[j], att[j], remote[j])
        /\ Knows(actor[a], job[j], att[j], remote[j])
        /\ \A b \in Others(a, j) : ~AboutToCall(b, job[j], att[j], remote[j])
    BY <1>1, OwnerKnows
  <2> HIDE DEF j
  <2> QED BY <2>1 DEF Sound
<1> HIDE DEF j, h, r
<1>3. n \in AttemptIds /\ job[j].state \in OpenStates
  BY <1>1, <1>2, OwnedOpen DEF CallsInv
<1>4. charge \in Nat
  BY <1>2, <1>3 DEF Sound, Calls, RemoteRow
<1>5. \/ remote[j][n].posts = 0
      \/ remote[j][n].status \in Finished /\ remote[j][n].cost = charge
  BY <1>1, <1>2 DEF Knows, Finished
<1>6. r.state \notin OpenStates
  BY <1>2, SMT DEF Unleased, JobRow, OpenStates, r
<1>7. att[j][n].stage = "calling"
  BY <1>2 DEF Knows
<1>8. Calm(a, Others(a, j), job[j], att[j], remote[j], r, h) /\ NoCall(att[j], h)
  BY <1>2, <1>3, <1>4, <1>5, <1>6, <1>7, SettleMove DEF h
<1>9. Calmly(a) /\ NothingCalled
  BY <1>1, <1>2, <1>8, OneRowCalm
<1> QED BY <1>1, <1>9, PcLeaves, LeavesOff

LEMMA FailOrderly ==
  ASSUME CallsInv, NEW a \in Actors, Fail(a)
  PROVE  Orderly(a)
<1> DEFINE j == actor[a].job
           n == job[j].attempts
           kind == actor[a].answer
           state == FailedState(job[j], kind)
           r == [Unleased(job[j], state) EXCEPT !.due = FALSE, !.error = "other"]
           h == [att[j] EXCEPT ![n] = Settled(@, 0)]
<1>1. /\ actor[a].pc = "failing" /\ actor[a].pc \in Working
      /\ Stop(a) /\ remote' = remote
      /\ \/ job' = job /\ att' = att
         \/ /\ Owned(a, j) /\ job' = [job EXCEPT ![j] = r]
            /\ att' = IF Uncharged(kind) THEN [att EXCEPT ![j] = h] ELSE att
  <2>1. /\ Stop(a)
        /\ \/ job' = job /\ att' = att
           \/ /\ Owned(a, j) /\ job' = [job EXCEPT ![j] = r]
              /\ att' = IF Uncharged(kind) THEN [att EXCEPT ![j] = h] ELSE att
    BY Zenon DEF Fail, genVars
  <2> HIDE DEF j, r, h, kind
  <2> QED BY <2>1, StartsAt DEF Working
<1>4. Owned(a, j) =>
        /\ j \in Jobs /\ Sound(job[j], att[j], remote[j])
        /\ Knows(actor[a], job[j], att[j], remote[j])
        /\ \A b \in Others(a, j) : ~AboutToCall(b, job[j], att[j], remote[j])
  BY <1>1, OwnerKnows
<1> HIDE DEF j, r, h, kind, state
<1>2. CASE job' = job /\ att' = att
  BY <1>1, <1>2, StillCalm, LeavesOff
<1>3. CASE /\ Owned(a, j) /\ job' = [job EXCEPT ![j] = r]
           /\ att' = IF Uncharged(kind) THEN [att EXCEPT ![j] = h] ELSE att
  <2>1. /\ j \in Jobs /\ Sound(job[j], att[j], remote[j]) /\ job[j] \in JobRow
        /\ Knows(actor[a], job[j], att[j], remote[j])
        /\ \A b \in Others(a, j) : ~AboutToCall(b, job[j], att[j], remote[j])
    BY <1>3, <1>4 DEF Sound
  <2>2. n \in AttemptIds /\ job[j].state \in OpenStates /\ att[j][n].stage = "calling"
    BY <1>3, <2>1, OwnedOpen DEF CallsInv, Knows
  <2>3. r.state = state /\ r.attempts = n /\ r.provider = job[j].provider
    BY <2>1, SMT DEF Unleased, JobRow, r
  <2>4. CASE Uncharged(kind)
    <3>1. r.state \notin OpenStates
      BY <2>3, <2>4 DEF FailedState, Uncharged, OpenStates, state
    <3>2. remote[j][n].posts = 0
      BY <1>1, <2>1, <2>4 DEF Knows, Uncharged, kind
    <3>3. Calm(a, Others(a, j), job[j], att[j], remote[j], r, h) /\ NoCall(att[j], h)
      <4>1. 0 \in Nat
        OBVIOUS
      <4> QED BY <2>1, <2>2, <3>1, <3>2, <4>1, SettleMove DEF h
    <3>4. Calmly(a) /\ NothingCalled
      BY <1>3, <2>1, <2>4, <3>3, OneRowCalm
    <3> QED BY <1>1, <3>4, LeavesOff
  <2>5. CASE ~Uncharged(kind)
    <3>1. r.state = "needs_attention"
      BY <2>3, <2>5 DEF FailedState, Uncharged, state
    <3>2. \A b : ~Owns(r, b)
      BY <3>1 DEF Owns
    <3>3. /\ Calm(a, Others(a, j), job[j], att[j], remote[j], r, att[j])
          /\ NoCall(att[j], att[j])
      BY <2>1, <2>2, <2>3, <3>1, <3>2, OpenRowMove DEF OpenStates
    <3>4. att' = [att EXCEPT ![j] = att[j]]
      BY <1>3, <2>1, <2>5, Zenon DEF CallsInv, IInv, GenOK
    <3>5. Calmly(a) /\ NothingCalled
      BY <1>3, <2>1, <3>3, <3>4, OneRowCalm
    <3> QED BY <1>1, <3>5, LeavesOff
  <2> QED BY <2>4, <2>5
<1> QED BY <1>1, <1>2, <1>3, Zenon

LEMMA PublishOrderly ==
  ASSUME CallsInv, NEW a \in Actors, Publish(a)
  PROVE  Orderly(a)
<1> DEFINE j == actor[a].job
<1>1. /\ j \in Jobs /\ job[j] \in JobRow /\ att' = att /\ remote' = remote
      /\ Stop(a) \/ Goto(a, "republishing")
  BY WorksOnJob DEF CallsInv, Publish, EndRun, JobLess
<1>2. \/ job' = job
      \/ /\ job[j].state \in {"result_ready", "waiting_capacity"}
         /\ \/ job' = [job EXCEPT ![j] = [job[j] EXCEPT !.state = "completed", !.error = "none"]]
            \/ job' = [job EXCEPT ![j] = Withheld(j)]
  BY Zenon DEF Publish, Publishes, Publishable
<1>3. /\ [job[j] EXCEPT !.state = "completed", !.error = "none"].state \notin OpenStates
      /\ Withheld(j).state \notin OpenStates
  BY <1>1, SMT DEF Withheld, JobRow, OpenStates
<1>4. ASSUME NEW r, job' = [job EXCEPT ![j] = r], r.state \notin OpenStates,
             job[j].state \notin OpenStates
      PROVE  Calmly(a) /\ NothingCalled
  <2>1. \A k \in Jobs : job'[k] = IF k = j THEN r ELSE job[k]
    BY <1>1, <1>4, Zenon DEF CallsInv, IInv, GenOK
  <2> QED BY <1>1, <1>4, <2>1, RowsCalm
<1>5. Calmly(a) /\ NothingCalled
  BY <1>1, <1>2, <1>3, <1>4, StillCalm DEF OpenStates
<1> QED BY <1>1, <1>5, PcLeaves, LeavesOff

\* What the operator read is still the latest attempt, and it was posted: nobody is
\* about to call for it.
LEMMA TakeOverOrderly ==
  ASSUME CallsInv, NEW o \in Actors, TakeOver(o)
  PROVE  Orderly(o)
<1> DEFINE j == actor[o].job
           n == actor[o].attempt
           r == [Leased(job[j], o) EXCEPT !.error = "none"]
           x == [att[j][n] EXCEPT !.polls = 0]
           h == [att[j] EXCEPT ![n] = x]
<1>1. /\ actor[o].pc = "reconciling" /\ remote' = remote
      /\ j \in Jobs /\ Sound(job[j], att[j], remote[j]) /\ job[j] \in JobRow
  <2>1. actor[o].pc = "reconciling" /\ remote' = remote
    BY StartsAt
  <2>2. j \in Jobs /\ job[j] \in JobRow
    BY <2>1, WorksOnJob DEF CallsInv, JobLess
  <2> HIDE DEF j
  <2> QED BY <2>1, <2>2, SoundRows
<1>4. IF StillAsRead(o)
      THEN job' = [job EXCEPT ![j] = r] /\ att' = [att EXCEPT ![j] = h] /\ Goto(o, "answered")
      ELSE job' = job /\ att' = att /\ Stop(o)
  BY Zenon DEF TakeOver, genVars
<1>5. HasRead(actor[o], remote[j])
  <2> HIDE DEF j
  <2>1. Informed(o, actor[o], job[j], att[j], remote[j])
    BY DEF CallsInv, CallInv, Fits, j
  <2> QED BY <1>1, <2>1 DEF Informed
<1>6. StillAsRead(o) => job[j].state \in OpenStates /\ n = job[j].attempts
  BY <1>1, Zenon DEF StillAsRead, CallsInv, IInv, ProcessesOK, ActorsOK
<1>7. actor[o].job = j /\ actor[o].attempt = n
  OBVIOUS
<1> HIDE DEF j, n
<1>2. CASE ~StillAsRead(o)
  <2>1. job' = job /\ att' = att /\ Stop(o)
    BY <1>2, <1>4
  <2> QED BY <1>1, <2>1, StillCalm, LeavesOff
<1>3. CASE StillAsRead(o)
  <2>1. job' = [job EXCEPT ![j] = r] /\ att' = [att EXCEPT ![j] = h] /\ Goto(o, "answered")
    BY <1>3, <1>4
  <2>3. job[j].state \in OpenStates /\ n = job[j].attempts /\ n \in AttemptIds
    BY <1>3, <1>5, <1>6, <1>7 DEF HasRead
  <2>4. remote[j][n].posts # 0 /\ att[j][n] \in AttemptRow /\ att[j][n].stage = "calling"
    <3>1. CallOK(job[j], att[j][n], remote[j][n]) /\ remote[j][n] \in RemoteRow
      BY <1>1, <2>3 DEF Sound, RowOK, Calls
    <3>2. att[j][n].stage \notin Uncalled
      BY <1>5, <1>7, <3>1 DEF CallOK, HasRead
    <3>3. att[j][n].stage \in OpenStages
      BY <1>1, <2>3 DEF Sound, LedgerOf
    <3>4. att[j][n].stage = "calling"
      BY <3>2, <3>3 DEF OpenStages, Uncalled
    <3>5. remote[j][n].posts # 0
      BY <1>5, <1>7, <3>1 DEF CallOK, HasRead
    <3>6. att[j][n] \in AttemptRow
      BY <1>1, <2>3 DEF Sound, History
    <3> QED BY <3>4, <3>5, <3>6
  <2>5. /\ x.stage = "calling" /\ x.charge = att[j][n].charge /\ x.gross = att[j][n].gross
        /\ x.credit = att[j][n].credit
    BY <2>4, SMT DEF AttemptRow
  <2>6. /\ r.state = "running" /\ r.holder = o /\ r.attempts = n
        /\ r.provider = job[j].provider
    BY <1>1, <2>3, LeasedFields
  <2>7. \A b \in Actors \ {o} : ~Owns(r, b)
    BY <2>6 DEF Owns
  <2>8. \A b : ~AboutToCall(b, job[j], att[j], remote[j])
    BY <2>3, <2>4 DEF AboutToCall
  <2>9. h[n] = x
    BY <1>1, <2>3, Zenon DEF Sound, History
  <2>10. job'[j] = r /\ att'[j] = h
    BY <1>1, <2>1, Zenon DEF CallsInv, IInv, GenOK
  <2> HIDE DEF r, x
  <2>15. r.state \in OpenStates
    BY <2>6 DEF OpenStates
  <2>11. /\ Calm(o, Others(o, j), job[j], att[j], remote[j], r, [att[j] EXCEPT ![n] = x])
         /\ NoCall(att[j], [att[j] EXCEPT ![n] = x])
    BY <1>1, <2>3, <2>4, <2>5, <2>6, <2>7, <2>8, <2>15, OpenMove, SMTT(30)
  <2> HIDE DEF h
  <2>12. Calmly(o) /\ NothingCalled
    BY <1>1, <2>1, <2>11, OneRowCalm DEF h
  <2>13. /\ actor'[o].pc = "answered" /\ actor'[o].job = j /\ actor'[o].attempt = n
         /\ actor'[o].answer = actor[o].answer
         /\ \A b \in Actors \ {o} : actor'[b] = actor[b]
    BY <1>7, <2>1, MoveFacts
  <2>14. Knows(actor'[o], job'[j], att'[j], remote[j])
    BY <1>5, <1>7, <2>5, <2>6, <2>9, <2>10, <2>13 DEF Knows, HasRead
  <2> QED BY <1>1, <1>7, <2>12, <2>13, <2>14, GoesOn DEF Working
<1> QED BY <1>2, <1>3, Zenon

LEMMA QuietOrderly ==
  ASSUME CallsInv, NEW a \in Actors, StartRun(a) \/ RefuseRun(a) \/ LostClaim(a) \/ Crash(a)
  PROVE  Orderly(a)
<1>1. UNCHANGED <<storeVars, remote>>
  BY Zenon DEF StartRun, RefuseRun, LostClaim, Crash
<1>2. Calmly(a) /\ NothingCalled /\ remote' = remote
  BY <1>1, StillCalm DEF storeVars, genVars
<1>3. CASE Stop(a) \/ \E pc \in Pcs \ Involved : Goto(a, pc)
  BY <1>2, <1>3, LeavesOff
<1>4. CASE \E j \in Jobs : actor' = [actor EXCEPT ![a] = [@ EXCEPT !.pc = "publishing", !.job = j]]
  <2>1. PICK j \in Jobs : actor' = [actor EXCEPT ![a] = [@ EXCEPT !.pc = "publishing", !.job = j]]
    BY <1>4
  <2>2. actor \in [Actors -> ActorRow]
    BY DEF CallsInv, IInv, ProcessesOK, ActorsOK
  <2>3. actor'[a].pc = "publishing" /\ \A b \in Actors \ {a} : actor'[b] = actor[b]
    BY <2>1, <2>2, SMT DEF ActorRow
  <2> QED BY <1>2, <2>3 DEF Orderly, Fits, Informed, Working
<1>5. StartRun(a) =>
        \/ \E j \in Jobs : actor' = [actor EXCEPT ![a] = [@ EXCEPT !.pc = "publishing", !.job = j]]
        \/ Goto(a, "resuming")
  BY Zenon DEF StartRun, ReadyToPublish
<1> QED BY <1>3, <1>4, <1>5, PcLeaves, Zenon DEF RefuseRun, LostClaim, Crash

\* The operator reads a response that exists, so its attempt was posted.
LEMMA ReconcileOrderly ==
  ASSUME CallsInv, NEW o \in Actors, NEW j \in Jobs, Reconcile(o, j)
  PROVE  Orderly(o)
<1> DEFINE n == job[j].attempts
           status == remote[j][n].status
           seen == job[j].state
           p == [Idle EXCEPT !.pc = "reconciling", !.job = j, !.attempt = n,
                             !.answer = status, !.seen = seen]
<1>1. /\ actor \in [Actors -> ActorRow] /\ actor' = [actor EXCEPT ![o] = p]
      /\ job' = job /\ att' = att /\ remote' = remote /\ n > 0 /\ status # "none"
  BY DEF Reconcile, storeVars, genVars, CallsInv, IInv, ProcessesOK, ActorsOK
<1>2. n \in AttemptIds
  BY <1>1, RowTypes, Bounds DEF CallsInv, IInv, JobRow, AttemptIds
<1>3. /\ p.pc = "reconciling" /\ p.job = j /\ p.attempt = n /\ p.answer = status
  BY IdleRow, SMT DEF ActorRow
<1>4. actor'[o] = p /\ \A b \in Actors \ {o} : actor'[b] = actor[b]
  BY <1>1, Zenon
<1> HIDE DEF p
<1>5. Fits(o)'
  BY <1>1, <1>2, <1>3, <1>4 DEF Fits, Informed, HasRead, Working
<1>6. Calmly(o) /\ NothingCalled
  BY <1>1, StillCalm
<1> QED BY <1>1, <1>3, <1>4, <1>5, <1>6 DEF Orderly

-----------------------------------------------------------------------------
(* The provider.                                                             *)

\* Process a posts its job's attempt, and has an answer or not.
Posts(a) ==
  LET j == actor[a].job
      n == job[j].attempts
  IN  /\ remote' = [remote EXCEPT ![j][n] =
           [posts |-> @.posts + 1, status |-> "working", cost |-> 0]]
      /\ actor'[a].job = j
      /\ \/ actor'[a].pc = "answered" /\ actor'[a].answer = "working"
         \/ actor'[a].pc = "failing" /\ actor'[a].answer = "uncertain"

\* The request is posted, by the only process about to call and for an attempt that
\* was not posted before.
LEMMA SubmitPosts ==
  ASSUME CallsInv, NEW a \in Actors, actor[a].pc = "calling", job' = job, att' = att,
         Posts(a),
         \A b \in Actors \ {a} : actor'[b] = actor[b]
  PROVE  CallInv'
<1> DEFINE j == actor[a].job
           n == job[j].attempts
           r == job[j]
           h == att[j]
           w2 == [posts |-> remote[j][n].posts + 1, status |-> "working", cost |-> 0]
<1>1. j \in Jobs /\ Sound(r, h, remote[j]) /\ AboutToCall(a, r, h, remote[j])
  BY OwnerKnows
<1>2. n \in AttemptIds /\ h[n] \in AttemptRow /\ Unsettled(h[n])
  <2>1. r.state \in OpenStates
    BY <1>1 DEF AboutToCall, OpenStates
  <2> QED BY <1>1, <2>1 DEF Sound, LedgerOf, History
<1>3. /\ remote'[j] = [remote[j] EXCEPT ![n] = w2]
      /\ \A k \in Jobs \ {j} : remote'[k] = remote[k]
  BY <1>1, Zenon DEF Posts, CallsInv, IInv, ProcessesOK, RemoteOK
<1>12. /\ actor'[a].job = j
       /\ \/ actor'[a].pc = "answered" /\ actor'[a].answer = "working"
          \/ actor'[a].pc = "failing" /\ actor'[a].answer = "uncertain"
  BY Zenon DEF Posts
<1>13. job'[j] = r /\ att'[j] = h /\ r.attempts = n
  OBVIOUS
<1> HIDE DEF j, n, r, h
<1>4. remote'[j][n] = w2 /\ \A m \in AttemptIds \ {n} : remote'[j][m] = remote[j][m]
  <2>1. remote[j] \in [AttemptIds -> RemoteRow]
    BY <1>1 DEF Sound, Calls
  <2> HIDE DEF w2
  <2>2. n \in AttemptIds
    BY <1>2
  <2>3. remote'[j] = [remote[j] EXCEPT ![n] = w2]
    BY <1>3
  <2> QED BY <2>1, <2>2, <2>3, OneEntry
<1>5. w2.posts = 1 /\ w2.status = "working" /\ w2.cost = 0
  BY <1>1, <1>13 DEF AboutToCall
<1>6. remote[j][n].status = "none"
  BY <1>1, <1>2, <1>13 DEF Sound, RowOK, CallOK, AboutToCall
<1> HIDE DEF w2
<1>7. CallOK(r, h[n], w2)
  <2>1. CallOK(r, h[n], remote[j][n])
    BY <1>1, <1>2 DEF Sound, RowOK
  <2>2. h[n].stage = "calling"
    BY <1>1, <1>13 DEF AboutToCall
  <2>3. 0 <= h[n].gross
    BY <1>2, GrossOfRow
  <2>4. Accounted(h[n], w2)
    BY <1>2, <1>5, <2>3 DEF Accounted
  <2>5. h[n].credit > 0 => r.provider = CreditProvider
    BY <2>1, <2>2 DEF CallOK
  <2> QED BY <1>5, <2>2, <2>4, <2>5 DEF CallOK, Uncalled
<1>8. ASSUME NEW k \in Jobs PROVE RowOK(job'[k], att'[k], remote'[k])
  <2>1. CASE k = j
    <3>1. \A m \in AttemptIds : CallOK(r, h[m], remote'[j][m])
      BY <1>1, <1>4, <1>7 DEF Sound, RowOK
    <3>2. RowOK(r, h, remote'[j])
      BY <1>1, <3>1 DEF Sound, RowOK
    <3> QED BY <1>13, <2>1, <3>2
  <2>2. CASE k # j
    <3>1. job'[k] = job[k] /\ att'[k] = att[k] /\ remote'[k] = remote[k]
      BY <1>3, <2>2
    <3> QED BY <3>1 DEF CallsInv, CallInv
  <2> QED BY <2>1, <2>2
<1>9. ASSUME NEW b \in Actors \ {a} PROVE Fits(b)'
  <2>1. CASE actor[b].pc \in JobLess
    BY <2>1 DEF Fits, Informed, Working, JobLess
  <2>2. CASE actor[b].pc \notin JobLess /\ actor[b].job # j
    <3>1. actor[b].job \in Jobs
      BY <2>2, WorksOnJob DEF CallsInv
    <3>2. remote'[actor[b].job] = remote[actor[b].job]
      BY <1>3, <2>2, <3>1
    <3> QED BY <3>2 DEF CallsInv, CallInv, Fits
  <2>3. CASE actor[b].job = j
    <3>1. Informed(b, actor[b], r, h, remote[j])
      BY <2>3 DEF CallsInv, CallInv, Fits, r, h
    <3>2. actor[b].pc # "calling"
      BY <2>3 DEF CallsInv, CallInv, OneCaller, j
    <3>3. ~Owns(r, b)
      BY <1>1 DEF AboutToCall, Owns
    <3>4. HasRead(actor[b], remote[j]) => HasRead(actor[b], remote'[j])
      BY <1>4, <1>6 DEF HasRead
    <3>5. Informed(b, actor[b], r, h, remote'[j])
      BY <3>1, <3>2, <3>3, <3>4 DEF Informed
    <3> QED BY <1>13, <2>3, <3>5 DEF Fits
  <2> QED BY <2>1, <2>2, <2>3
<1>10. Fits(a)'
  <2>1. Knows(actor'[a], r, h, remote'[j]) /\ actor'[a].pc \notin {"calling", "reconciling"}
    BY <1>1, <1>4, <1>12 DEF Knows, AboutToCall, Finished
  <2> QED BY <1>12, <1>13, <2>1 DEF Fits, Informed
<1>11. OneCaller'
  BY <1>12 DEF CallsInv, CallInv, OneCaller
<1> QED BY <1>8, <1>9, <1>10, <1>11 DEF CallInv

LEMMA SubmitKeeps ==
  ASSUME CallsInv, NEW a \in Actors, Submit(a)
  PROVE  CallInv' /\ NothingCalled
<1> DEFINE j == actor[a].job
           n == job[j].attempts
           p == [actor[a] EXCEPT !.pc = "answered", !.attempt = n, !.answer = "working",
                                 !.posted = TRUE]
<1>1. /\ actor[a].pc = "calling" /\ job' = job /\ att' = att
      /\ actor \in [Actors -> ActorRow] /\ actor[a] \in ActorRow
  BY DEF Submit, storeVars, genVars, CallsInv, IInv, ProcessesOK, ActorsOK
<1>2. Calmly(a) /\ NothingCalled
  BY <1>1, StillCalm
<1>5. AboutToCall(a, job[j], att[j], remote[j]) /\ j \in Jobs
  BY <1>1, OwnerKnows
<1>3. CASE remote' = remote /\ \E kind \in {"retry", "terminal", "uncertain"} :
             GotoWith(a, "failing", kind)
  <2>1. /\ actor'[a].pc = "failing" /\ actor'[a].job = j
        /\ \A b \in Actors \ {a} : actor'[b] = actor[b]
    BY <1>3, MoveFacts
  <2>3. Knows(actor'[a], job[j], att[j], remote[j])
    <3> HIDE DEF j
    <3> QED BY <1>5, <2>1 DEF Knows, AboutToCall
  <2>4. Orderly(a)
    BY <1>1, <1>2, <1>3, <1>5, <2>1, <2>3, GoesOn DEF Working
  <2> QED BY <1>2, <2>4, CalmKeeps DEF Orderly
<1>4. CASE /\ remote' = [remote EXCEPT ![j][n] =
                [posts |-> @.posts + 1, status |-> "working", cost |-> 0]]
           /\ actor' = [actor EXCEPT ![a] = p] \/ GotoWith(a, "failing", "uncertain")
  <2>1. p.pc = "answered" /\ p.answer = "working" /\ p.job = j
    BY <1>1, SMT DEF ActorRow
  <2>2. actor' = [actor EXCEPT ![a] = p] =>
          actor'[a] = p /\ \A b \in Actors \ {a} : actor'[b] = actor[b]
    BY <1>1, Zenon
  <2> HIDE DEF p
  <2>3. /\ actor'[a].job = j
        /\ \/ actor'[a].pc = "answered" /\ actor'[a].answer = "working"
           \/ actor'[a].pc = "failing" /\ actor'[a].answer = "uncertain"
        /\ \A b \in Actors \ {a} : actor'[b] = actor[b]
    <3>1. CASE actor' = [actor EXCEPT ![a] = p]
      BY <2>1, <2>2, <3>1
    <3>2. CASE GotoWith(a, "failing", "uncertain")
      BY <3>2, MoveFacts
    <3> QED BY <1>4, <3>1, <3>2
  <2>4. Posts(a)
    BY <1>4, <2>3, Zenon DEF Posts
  <2> QED BY <1>1, <1>2, <2>3, <2>4, SubmitPosts
<1> QED BY <1>3, <1>4, Zenon DEF Submit

\* The provider finishes a posted request, within what is held for it.
LEMMA FinishesKeeps ==
  ASSUME CallsInv, NEW j \in Jobs, NEW n \in AttemptIds, RemoteFinishes(j, n)
  PROVE  CallInv' /\ NothingCalled
<1>1. PICK status \in Finished, cost \in 0..att[j][n].gross :
             remote' = [remote EXCEPT ![j][n] = [@ EXCEPT !.status = status, !.cost = cost]]
  BY DEF RemoteFinishes
<1> DEFINE r == job[j]
           h == att[j]
           w == remote[j]
           w2 == [w[n] EXCEPT !.status = status, !.cost = cost]
<1>2. job' = job /\ att' = att /\ actor' = actor /\ w[n].status = "working"
  BY DEF RemoteFinishes, storeVars, genVars
<1>3. Sound(r, h, w) /\ w[n] \in RemoteRow /\ h[n] \in AttemptRow
  BY SoundRows DEF Sound, Calls, History
<1>4. /\ remote'[j] = [w EXCEPT ![n] = w2]
      /\ \A k \in Jobs \ {j} : remote'[k] = remote[k]
  BY <1>1, Zenon DEF CallsInv, IInv, ProcessesOK, RemoteOK
<1>5. remote'[j][n] = w2 /\ \A m \in AttemptIds \ {n} : remote'[j][m] = w[m]
  BY <1>3, <1>4, Zenon DEF Sound, Calls
<1>6. w2.posts = w[n].posts /\ w2.status = status /\ w2.cost = cost
  BY <1>3, SMT DEF RemoteRow
<1> HIDE DEF w2
<1>7. CallOK(r, h[n], w2)
  <2>1. CallOK(r, h[n], w[n])
    BY <1>3 DEF Sound, RowOK
  <2>2. w[n].posts # 0 /\ w[n].posts \in Nat
    BY <1>2, <1>3, <2>1 DEF CallOK, RemoteRow
  <2>3. Unsettled(h[n])
    BY <1>2, <1>3, <2>1, <2>2 DEF CallOK, Accounted, Finished
  <2>4. Accounted(h[n], w2)
    BY <1>3, <1>6, <2>3 DEF Accounted, AttemptRow
  <2> QED BY <1>6, <2>1, <2>2, <2>4 DEF CallOK, Finished
<1>8. ASSUME NEW k \in Jobs PROVE RowOK(job'[k], att'[k], remote'[k])
  <2>1. CASE k = j
    BY <1>2, <1>3, <1>5, <1>7, <2>1 DEF Sound, RowOK
  <2>2. CASE k # j
    BY <1>2, <1>4, <2>2 DEF CallsInv, CallInv
  <2> QED BY <2>1, <2>2
<1>9. ASSUME NEW b \in Actors PROVE Fits(b)'
  <2>1. CASE actor[b].pc \in JobLess
    BY <1>2, <2>1 DEF Fits, Informed, Working, JobLess
  <2>2. CASE actor[b].pc \notin JobLess /\ actor[b].job # j
    <3>1. actor[b].job \in Jobs
      BY <2>2, WorksOnJob DEF CallsInv
    <3>2. remote'[actor[b].job] = remote[actor[b].job]
      BY <1>4, <2>2, <3>1
    <3> QED BY <1>2, <3>2 DEF CallsInv, CallInv, Fits
  <2>3. CASE actor[b].job = j
    <3>1. Informed(b, actor[b], r, h, w)
      BY <2>3 DEF CallsInv, CallInv, Fits
    <3>2. HasRead(actor[b], w) => HasRead(actor[b], remote'[j])
      BY <1>2, <1>5, <1>6 DEF HasRead, Finished
    <3>3. h[r.attempts].stage = "calling" /\ (r.state \in OpenStates) => r.attempts \in AttemptIds
      BY <1>3 DEF Sound, LedgerOf
    <3>4. AboutToCall(b, r, h, w) => AboutToCall(b, r, h, remote'[j])
      BY <1>5, <1>6, <3>3 DEF AboutToCall, OpenStates
    <3>5. Owns(r, b) /\ Knows(actor[b], r, h, w) => Knows(actor[b], r, h, remote'[j])
      BY <1>2, <1>5, <1>6, <3>3 DEF Owns, Knows, OpenStates, Finished
    <3>6. Informed(b, actor[b], r, h, remote'[j])
      BY <3>1, <3>2, <3>4, <3>5 DEF Informed
    <3> QED BY <1>2, <2>3, <3>6 DEF Fits
  <2> QED BY <2>1, <2>2, <2>3
<1>10. OneCaller'
  BY <1>2 DEF CallsInv, CallInv, OneCaller
<1>11. NothingCalled
  BY <1>2, StillCalm
<1> QED BY <1>8, <1>9, <1>10, <1>11 DEF CallInv

-----------------------------------------------------------------------------
(* Everything else, and all steps together.                                  *)

\* A step that leaves the processes and the provider alone.
LEMMA CalmAround ==
  ASSUME CallsInv, remote' = remote, actor' = actor, Calmly(None)
  PROVE  CallInv'
BY CalmKeeps, ActorsAssumption

\* Leases run out, delays pass, months end and credit expires.
LEMMA TimeKeeps ==
  ASSUME CallsInv, (\E j \in Jobs : LeaseExpires(j) \/ ComesDue(j)) \/ NextMonth \/ CreditExpires
  PROVE  CallInv' /\ NothingCalled
<1>1. remote' = remote /\ actor' = actor /\ att' = att
  BY Zenon DEF LeaseExpires, ComesDue, NextMonth, CreditExpires, workerVars, genVars
<1>2. CASE NextMonth \/ CreditExpires
  BY <1>1, <1>2, StillCalm, CalmAround DEF NextMonth, CreditExpires, genVars
<1>3. CASE \E j \in Jobs : LeaseExpires(j) \/ ComesDue(j)
  <2>1. PICK j \in Jobs : LeaseExpires(j) \/ ComesDue(j)
    BY <1>3
  <2>2. job \in [Jobs -> JobRow] /\ job[j] \in JobRow
    BY RowTypes DEF CallsInv, IInv, GenOK
  <2> DEFINE r1 == [job[j] EXCEPT !.lease = "expired"]
             r2 == [job[j] EXCEPT !.due = TRUE]
  <2>3. ASSUME NEW r, job' = [job EXCEPT ![j] = r],
               r.state = job[j].state, r.holder = job[j].holder, SameRound(job[j], r),
               r.provider = job[j].provider, r.lease = job[j].lease \/ r.lease # "live"
        PROVE  Calmly(None) /\ NothingCalled
    <3>1. job'[j] = r /\ \A k \in Jobs \ {j} : job'[k] = job[k]
      BY <2>2, <2>3, Zenon
    <3> QED BY <1>1, <2>3, <3>1, RowsCalm
  <2>4. job' = [job EXCEPT ![j] = r1] \/ job' = [job EXCEPT ![j] = r2]
    BY <2>1 DEF LeaseExpires, ComesDue
  <2>5. /\ r1.state = job[j].state /\ r1.holder = job[j].holder /\ SameRound(job[j], r1)
        /\ r1.provider = job[j].provider /\ r1.lease # "live"
    BY <2>2, SMT DEF JobRow, SameRound
  <2>6. /\ r2.state = job[j].state /\ r2.holder = job[j].holder /\ SameRound(job[j], r2)
        /\ r2.provider = job[j].provider /\ r2.lease = job[j].lease
    BY <2>2, SMT DEF JobRow, SameRound
  <2> HIDE DEF r1, r2
  <2> QED BY <1>1, <2>3, <2>4, <2>5, <2>6, CalmAround
<1> QED BY <1>2, <1>3

LEMMA OrderlyKeeps ==
  ASSUME CallsInv, NEW a \in Actors, Orderly(a)
  PROVE  CallInv' /\ (sourceRetired => NothingCalled)
BY CalmKeeps DEF Orderly

LEMMA LeasingKeeps ==
  ASSUME CallsInv, NEW a \in Actors, Resume(a) \/ Claim(a)
  PROVE  CallInv' /\ (sourceRetired => NothingCalled)
<1>1. /\ Calmly(a) /\ (sourceRetired => NothingCalled)
      /\ Fits(a)' /\ actor'[a].pc # "calling"
  BY ResumeCalm, ClaimCalm
<1>2. remote' = remote
  BY Zenon DEF Resume, Claim
<1>3. \A b \in Actors \ {a} : actor'[b] = actor[b]
  <2>1. actor \in [Actors -> ActorRow]
    BY DEF CallsInv, IInv, ProcessesOK, ActorsOK
  <2>2. \E p : actor' = [actor EXCEPT ![a] = p]
    BY Zenon DEF Resume, Claim, Goto, Stop
  <2> QED BY <2>1, <2>2, Zenon
<1> QED BY <1>1, <1>2, <1>3, CalmKeeps

LEMMA StepCalls ==
  ASSUME CallsInv, NEW a \in Actors, Step(a)
  PROVE  CallInv' /\ (sourceRetired => NothingCalled)
<1>1. CASE Submit(a)
  BY <1>1, SubmitKeeps
<1>2. CASE Resume(a) \/ Claim(a)
  BY <1>2, LeasingKeeps
<1>3. CASE ~Submit(a) /\ ~Resume(a) /\ ~Claim(a)
  <2>1. Orderly(a)
    BY <1>3, QuietOrderly, CallingOrderly, CallingRetiredOrderly, GenerateOrderly,
       SubmittedOrderly, RetrieveOrderly, PollOrderly, SaveResultOrderly, UnusableOrderly,
       FailOrderly, PublishOrderly, TakeOverOrderly, Zenon DEF Step
  <2> QED BY <2>1, OrderlyKeeps
<1> QED BY <1>1, <1>2, <1>3

LEMMA NextCalls ==
  ASSUME CallsInv, [Next]_vars
  PROVE  CallsInv' /\ (sourceRetired => NothingCalled)
<1>1. IInv'
  BY NextHolds DEF CallsInv
<1> SUFFICES CallInv' /\ (sourceRetired => NothingCalled)
  BY <1>1 DEF CallsInv
<1>2. CASE UNCHANGED vars
  BY <1>2, StillCalm, CalmAround DEF vars, storeVars, genVars, workerVars
<1>3. CASE Request /\ UNCHANGED workerVars
  BY <1>3, RequestCalm, CalmAround DEF workerVars
<1>4. CASE \E a \in Actors : Step(a)
  BY <1>4, StepCalls
<1>5. CASE \E o \in Operators, j \in Jobs : Reconcile(o, j)
  BY <1>5, ReconcileOrderly, OrderlyKeeps DEF Actors
<1>6. CASE \E j \in Jobs, n \in AttemptIds : RemoteFinishes(j, n)
  BY <1>6, FinishesKeeps
<1>7. CASE \E a \in Actors : Crash(a)
  BY <1>7, QuietOrderly, OrderlyKeeps
<1>8. CASE (\E j \in Jobs : LeaseExpires(j) \/ ComesDue(j)) \/ NextMonth \/ CreditExpires
  BY <1>8, TimeKeeps
<1> QED BY <1>2, <1>3, <1>4, <1>5, <1>6, <1>7, <1>8, Zenon DEF Next, Environment

LEMMA InitCalls ==
  ASSUME Init
  PROVE  CallsInv
<1>1. ASSUME NEW j \in Jobs PROVE RowOK(job[j], att[j], remote[j])
  <2>1. job[j] = NoJob
    BY DEF Init, StoreInit
  <2>2. ASSUME NEW n \in AttemptIds PROVE CallOK(job[j], att[j][n], remote[j][n])
    <3>1. att[j][n] = NoAttempt
      BY DEF Init, StoreInit
    <3>2. remote[j][n] = [posts |-> 0, status |-> "none", cost |-> 0]
      BY DEF Init, WorkerInit
    <3> QED BY <3>1, <3>2, SMT DEF CallOK, NoAttempt
  <2>3. job[j].state = "absent"
    BY <2>1 DEF NoJob
  <2> QED BY <2>2, <2>3 DEF RowOK
<1>2. \A a \in Actors : actor[a].pc = "idle"
  BY IdleRow DEF Init, WorkerInit
<1>3. (\A a \in Actors : Fits(a)) /\ OneCaller
  BY <1>2 DEF Fits, Informed, Working, OneCaller
<1> QED BY <1>1, <1>3, InitHolds DEF CallsInv, CallInv

-----------------------------------------------------------------------------
(* The theorems.                                                             *)

\* What is recorded of an attempt and what the processes know of it fit what the
\* provider was asked, in every behaviour.
THEOREM CallsInductive == Spec => []CallsInv
<1>1. Init => CallsInv
  BY InitCalls
<1>2. CallsInv /\ [Next]_vars => CallsInv'
  BY NextCalls
<1> QED BY <1>1, <1>2, PTL DEF Spec

\* An attempt contacts the provider at most once, whatever workers die, overrun
\* their leases or are taken over by an operator.
THEOREM OneSubmissionHolds == Spec => []OneSubmission
<1>1. CallsInv => OneSubmission
  BY DEF CallsInv, CallInv, RowOK, CallOK, OneSubmission
<1> QED BY <1>1, CallsInductive, PTL

\* What a posted request may cost is held until it is known, then recorded as it
\* is; no claim that was posted is written off at zero.
THEOREM ChargesAccounted == Spec => []ChargeAccounted
<1>1. CallsInv => ChargeAccounted
  BY DEF CallsInv, CallInv, RowOK, CallOK, Accounted, ChargeAccounted
<1> QED BY <1>1, CallsInductive, PTL

\* Promotional credit is held only for calls to the provider that issued it,
\* wherever its job was moved before.
THEOREM CreditsHold == Spec => []CreditsPayTheirProvider
<1>1. CallsInv => CreditsPayTheirProvider
  BY DEF CallsInv, CallInv, RowOK, CallOK, CreditsPayTheirProvider
<1> QED BY <1>1, CallsInductive, PTL

\* After the source's retirement no step of any process turns a reservation into
\* a call or claims a job.
THEOREM RetiredSourceQuiet == Spec => RetiredSourceSpendsNothing
<1> DEFINE Quiet == sourceRetired =>
                      \A j \in Jobs, n \in AttemptIds :
                        att[j][n].stage \in {"none", "reserved"} =>
                          att'[j][n].stage \in {att[j][n].stage, "abandoned"}
<1>1. CallsInv /\ [Next]_vars => Quiet
  BY NextCalls DEF NothingCalled, NoCall, Uncalled
<1>2. CallsInv /\ [Next]_vars => [Quiet]_vars
  BY <1>1
<1> QED BY <1>2, CallsInductive, PTL DEF Spec, RetiredSourceSpendsNothing

-----------------------------------------------------------------------------
(* Money.  A row of the ledger is worth its net cost and its credit.         *)

\* An attempt not made yet has nothing booked, and credit never exceeds the price.
MoneyOK(a, m) ==
  /\ a.stage = "none" => a = NoAttempt
  /\ a.month <= m /\ a.credit <= a.gross

\* What an attempt is worth does not grow, and stays in its month: it is as it was
\* or an open one is closed within what was held for it.
Cheaper(a, a2) ==
  /\ a2.month = a.month /\ a2.gross = a.gross /\ a2.credit = a.credit
  /\ a2.charge = a.charge \/ (Unsettled(a) /\ a2.charge \in 0..a.gross)
  /\ a.stage = "none" => a2 = a
  /\ a2.stage = "none" => a.stage = "none"
LedgerShrinks(at, at2) == \A j \in Jobs, n \in AttemptIds : Cheaper(at[j][n], at2[j][n])

Spending(at, m) ==
  [k \in AttemptKeys |-> IF RowAt(at, k).month = m THEN Net(RowAt(at, k)) ELSE 0]
Held(at, m) ==
  [k \in AttemptKeys |->
     IF RowAt(at, k).month = m \/ Unsettled(RowAt(at, k)) THEN Net(RowAt(at, k)) ELSE 0]
Credits(at) == [k \in AttemptKeys |-> Credit(RowAt(at, k))]

RowsPriced(at, m) ==
  \A k \in AttemptKeys : RowAt(at, k) \in AttemptRow /\ MoneyOK(RowAt(at, k), m)
WithinLimits(at, m) ==
  /\ \A past \in 1..m : \E amount \in Limits : Total(Spending(at, past)) <= amount
  /\ Total(Credits(at)) <= CreditTotal
MoneyAt(at, m) == RowsPriced(at, m) /\ WithinLimits(at, m)

LEMMA KeysFinite == IsFiniteSet(AttemptKeys)
<1>1. IsFiniteSet(Jobs) /\ IsFiniteSet(AttemptIds)
  BY QuotaAssumption, BoundsAssumption, IntervalCount DEF AttemptIds
<1> QED BY <1>1, FS_Product DEF AttemptKeys

LEMMA RowWorth ==
  ASSUME NEW a \in AttemptRow, NEW m, MoneyOK(a, m)
  PROVE  Net(a) \in Nat /\ Credit(a) \in Nat /\ (Unsettled(a) => Credit(a) = a.credit)
<1>1. /\ a.gross \in Nat /\ a.credit \in Nat /\ a.credit <= a.gross
      /\ a.charge \in Nat \cup {-1}
  BY DEF AttemptRow, Unknown, MoneyOK
<1>2. CASE Unsettled(a)
  BY <1>1, <1>2 DEF Net, Credit
<1>3. CASE ~Unsettled(a)
  <2>1. a.charge \in Nat
    BY <1>1, <1>3 DEF Unsettled, Unknown
  <2> QED BY <1>1, <1>3, <2>1 DEF Net, Credit, Least
<1> QED BY <1>2, <1>3

LEMMA CheaperWorth ==
  ASSUME NEW a \in AttemptRow, NEW m, MoneyOK(a, m), NEW a2 \in AttemptRow, Cheaper(a, a2)
  PROVE  /\ MoneyOK(a2, m) /\ a2.month = a.month
         /\ Net(a2) <= Net(a) /\ Credit(a2) <= Credit(a)
<1>1. MoneyOK(a2, m) /\ a2.month = a.month
  BY DEF MoneyOK, Cheaper
<1>2. /\ a.gross \in Nat /\ a.credit \in Nat /\ a.credit <= a.gross
      /\ a2.gross = a.gross /\ a2.credit = a.credit
  BY DEF AttemptRow, MoneyOK, Cheaper
<1>3. CASE a2.charge = a.charge
  <2>1. Net(a2) = Net(a) /\ Credit(a2) = Credit(a)
    BY <1>2, <1>3, Zenon DEF Net, Credit, Unsettled
  <2> QED BY <1>1, <2>1, RowWorth
<1>4. CASE Unsettled(a) /\ a2.charge \in 0..a.gross
  <2>1. Net(a) = a.gross - a.credit /\ Credit(a) = a.credit
    BY <1>4 DEF Net, Credit
  <2>2. a2.charge \in Nat /\ a2.charge <= a.gross /\ ~Unsettled(a2)
    BY <1>2, <1>4 DEF Unsettled, Unknown
  <2>3. Credit(a2) = Least(a2.charge, a.credit) /\ Net(a2) = a2.charge - Least(a2.charge, a.credit)
    BY <1>2, <2>2 DEF Net, Credit
  <2> QED BY <1>1, <1>2, <2>1, <2>2, <2>3 DEF Least
<1> QED BY <1>1, <1>3, <1>4 DEF Cheaper

LEMMA AmountTypes ==
  ASSUME NEW at, NEW m, RowsPriced(at, m), NEW past
  PROVE  /\ Spending(at, past) \in [AttemptKeys -> Nat] /\ Held(at, past) \in [AttemptKeys -> Nat]
         /\ Credits(at) \in [AttemptKeys -> Nat]
<1>1. \A k \in AttemptKeys : Net(RowAt(at, k)) \in Nat /\ Credit(RowAt(at, k)) \in Nat
  BY RowWorth DEF RowsPriced
<1> QED BY <1>1 DEF Spending, Held, Credits

\* Rows that do not grow stay within the limits.
LEMMA ShrinkKeeps ==
  ASSUME NEW at, NEW m, MoneyAt(at, m),
         NEW at2 \in [Jobs -> History], LedgerShrinks(at, at2)
  PROVE  MoneyAt(at2, m)
<1>1. ASSUME NEW k \in AttemptKeys
      PROVE  /\ RowAt(at2, k) \in AttemptRow /\ MoneyOK(RowAt(at2, k), m)
             /\ RowAt(at2, k).month = RowAt(at, k).month
             /\ Net(RowAt(at2, k)) <= Net(RowAt(at, k))
             /\ Credit(RowAt(at2, k)) <= Credit(RowAt(at, k))
  <2>1. k[1] \in Jobs /\ k[2] \in AttemptIds
    BY DEF AttemptKeys
  <2>2. RowAt(at2, k) \in AttemptRow /\ Cheaper(RowAt(at, k), RowAt(at2, k))
    BY <2>1 DEF RowAt, LedgerShrinks, History
  <2>3. RowAt(at, k) \in AttemptRow /\ MoneyOK(RowAt(at, k), m)
    BY DEF MoneyAt, RowsPriced
  <2> QED BY <2>2, <2>3, CheaperWorth
<1>2. RowsPriced(at, m) /\ RowsPriced(at2, m)
  BY <1>1 DEF RowsPriced, MoneyAt
<1>3. Total(Credits(at2)) <= CreditTotal
  <2>1. Total(Credits(at2)) <= Total(Credits(at))
    <3>1. \A k \in AttemptKeys : Credits(at2)[k] <= Credits(at)[k]
      BY <1>1 DEF Credits
    <3> QED BY <1>2, <3>1, KeysFinite, AmountTypes, SumAtMost DEF Total
  <2>2. Total(Credits(at)) \in Nat /\ Total(Credits(at2)) \in Nat
    BY <1>2, KeysFinite, AmountTypes, SumType DEF Total
  <2> QED BY <2>1, <2>2, MoneyAssumption DEF MoneyAt, WithinLimits
<1>4. ASSUME NEW past \in 1..m
      PROVE  \E amount \in Limits : Total(Spending(at2, past)) <= amount
  <2>1. Total(Spending(at2, past)) <= Total(Spending(at, past))
    <3>1. \A k \in AttemptKeys : Spending(at2, past)[k] <= Spending(at, past)[k]
      BY <1>1 DEF Spending
    <3> QED BY <1>2, <3>1, KeysFinite, AmountTypes, SumAtMost DEF Total
  <2>2. Total(Spending(at, past)) \in Nat /\ Total(Spending(at2, past)) \in Nat
    BY <1>2, KeysFinite, AmountTypes, SumType DEF Total
  <2>3. PICK amount \in Limits : Total(Spending(at, past)) <= amount
    BY DEF MoneyAt, WithinLimits
  <2> QED BY <2>1, <2>2, <2>3, MoneyAssumption
<1> QED BY <1>2, <1>3, <1>4 DEF MoneyAt, WithinLimits

\* One row is booked in the current month, within the limit and the credits left.
LEMMA BookKeeps ==
  ASSUME NEW at \in [Jobs -> History], NEW m \in Nat, MoneyAt(at, m), NEW amount \in Limits,
         NEW j \in Jobs, NEW n \in AttemptIds,
         NEW x \in AttemptRow, MoneyOK(x, m), x.month = m,
         Total(Held(at, m)) - Held(at, m)[<<j, n>>] + Net(x) <= amount,
         Total(Credits(at)) - Credit(at[j][n]) + Credit(x) <= CreditTotal
  PROVE  MoneyAt([at EXCEPT ![j][n] = x], m)
<1> DEFINE at2 == [at EXCEPT ![j][n] = x]
           k0 == <<j, n>>
<1>1. k0 \in AttemptKeys /\ RowAt(at2, k0) = x /\ RowAt(at, k0) = at[j][n]
  BY DEF AttemptKeys, RowAt, History
<1>2. ASSUME NEW k \in AttemptKeys \ {k0} PROVE RowAt(at2, k) = RowAt(at, k)
  BY DEF AttemptKeys, RowAt, History
<1> HIDE DEF at2, k0
<1>3. RowsPriced(at, m) /\ RowsPriced(at2, m)
  BY <1>1, <1>2 DEF RowsPriced, MoneyAt
<1>4. Total(Credits(at2)) <= CreditTotal
  <2>1. /\ \A k \in AttemptKeys \ {k0} : Credits(at)[k] = Credits(at2)[k]
        /\ Credits(at)[k0] = Credit(at[j][n]) /\ Credits(at2)[k0] = Credit(x)
    BY <1>1, <1>2 DEF Credits
  <2>2. Total(Credits(at2)) = Total(Credits(at)) - Credits(at)[k0] + Credits(at2)[k0]
    BY <1>1, <1>3, <2>1, KeysFinite, AmountTypes, SumChange DEF Total
  <2> QED BY <2>1, <2>2
<1>5. Total(Spending(at2, m)) <= amount
  <2>1. /\ \A k \in AttemptKeys \ {k0} : Held(at, m)[k] = Held(at2, m)[k]
        /\ Held(at2, m)[k0] = Net(x)
    BY <1>1, <1>2 DEF Held
  <2>2. Total(Held(at2, m)) = Total(Held(at, m)) - Held(at, m)[k0] + Held(at2, m)[k0]
    BY <1>1, <1>3, <2>1, KeysFinite, AmountTypes, SumChange DEF Total
  <2>3. Total(Spending(at2, m)) <= Total(Held(at2, m))
    <3>1. \A k \in AttemptKeys : Net(RowAt(at2, k)) \in Nat
      BY <1>3, RowWorth DEF RowsPriced
    <3>2. \A k \in AttemptKeys : Spending(at2, m)[k] <= Held(at2, m)[k]
      BY <3>1 DEF Spending, Held
    <3> QED BY <1>3, <3>2, KeysFinite, AmountTypes, SumAtMost DEF Total
  <2>4. Total(Spending(at2, m)) \in Nat /\ Total(Held(at2, m)) \in Nat
    BY <1>3, KeysFinite, AmountTypes, SumType DEF Total
  <2> QED BY <2>1, <2>2, <2>3, <2>4, MoneyAssumption DEF k0
<1>6. ASSUME NEW past \in 1..m, past # m
      PROVE  \E other \in Limits : Total(Spending(at2, past)) <= other
  <2>1. \A k \in AttemptKeys : Spending(at2, past)[k] <= Spending(at, past)[k]
    <3>1. \A k \in AttemptKeys : Spending(at, past)[k] \in Nat
      BY <1>3, AmountTypes
    <3>2. Spending(at2, past)[k0] = 0
      BY <1>1, <1>6 DEF Spending
    <3>3. \A k \in AttemptKeys \ {k0} : Spending(at2, past)[k] = Spending(at, past)[k]
      BY <1>2 DEF Spending
    <3> QED BY <1>1, <3>1, <3>2, <3>3
  <2>2. Total(Spending(at2, past)) <= Total(Spending(at, past))
    BY <1>3, <2>1, KeysFinite, AmountTypes, SumAtMost DEF Total
  <2>3. Total(Spending(at, past)) \in Nat /\ Total(Spending(at2, past)) \in Nat
    BY <1>3, KeysFinite, AmountTypes, SumType DEF Total
  <2>4. PICK other \in Limits : Total(Spending(at, past)) <= other
    BY DEF MoneyAt, WithinLimits
  <2> QED BY <2>2, <2>3, <2>4, MoneyAssumption
<1>7. MoneyAt(at2, m)
  BY <1>3, <1>4, <1>5, <1>6 DEF MoneyAt, WithinLimits
<1> QED BY <1>7 DEF at2

\* A reservation within the budget is booked for an attempt not made yet.
LEMMA ReserveKeeps ==
  ASSUME NEW at \in [Jobs -> History], IInv, MoneyAt(at, month),
         NEW j \in Jobs, NEW n \in AttemptIds, at[j][n].stage = "none",
         NEW provider \in Providers, ~OverBudget(at, provider)
  PROVE  MoneyAt([at EXCEPT ![j][n] = Reservation(at, provider)], month)
<1> DEFINE x == Reservation(at, provider)
           left == CreditTotal - Total(Credits(at))
<1>1. /\ month \in Nat /\ creditLive \in BOOLEAN /\ limit \in Limits /\ limit \in Nat
      /\ Estimate[provider] \in Nat /\ CreditTotal \in Nat
  BY BoundsAssumption, ProviderAssumption, MoneyAssumption DEF IInv, SettingsOK
<1>2. x \in AttemptRow /\ Unsettled(x)
  BY <1>1, NewReservation
<1>3. /\ x.stage = "reserved" /\ x.month = month /\ x.gross = Estimate[provider]
      /\ x.credit = CreditFor(at, provider)
  BY SMT DEF Reservation, NoAttempt
<1>4. Total(Credits(at)) \in Nat /\ Total(Credits(at)) <= CreditTotal /\ RowsPriced(at, month)
  BY KeysFinite, AmountTypes, SumType DEF MoneyAt, WithinLimits, Total
<1>5. CreditFor(at, provider) \in Nat /\ CreditFor(at, provider) <= Estimate[provider]
      /\ CreditFor(at, provider) <= left
  <2>1. CreditUsed(at) = Total(Credits(at)) /\ left \in Nat
    BY <1>1, <1>4 DEF CreditUsed, Credits
  <2> HIDE DEF left
  <2>2. CreditFor(at, provider) \in {0, Least(Estimate[provider], left)}
    BY <2>1 DEF CreditFor, left
  <2> QED BY <1>1, <2>1, <2>2 DEF Least
<1>6. MoneyOK(x, month)
  BY <1>1, <1>3, <1>5 DEF MoneyOK
<1>7. at[j][n] = NoAttempt /\ <<j, n>> \in AttemptKeys /\ RowAt(at, <<j, n>>) = at[j][n]
  BY <1>4 DEF RowsPriced, MoneyOK, RowAt, AttemptKeys
<1>8. Net(NoAttempt) = 0 /\ Credit(NoAttempt) = 0
  BY DEF Net, Credit, Least, NoAttempt, Unsettled, Unknown
<1>9. Held(at, month)[<<j, n>>] = 0
  BY <1>7, <1>8 DEF Held
<1>10. Total(Held(at, month)) + Net(x) <= limit
  <2>1. Committed(at, month) = Total(Held(at, month))
    BY DEF Committed, Held
  <2>2. Total(Held(at, month)) \in Nat /\ Net(x) \in Nat
    BY <1>2, <1>4, <1>6, KeysFinite, AmountTypes, SumType, RowWorth DEF Total
  <2> QED BY <1>1, <2>1, <2>2 DEF OverBudget
<1>11. Credit(x) = CreditFor(at, provider)
  BY <1>2, <1>3 DEF Credit
<1>12. Total(Held(at, month)) \in Nat
  BY <1>4, KeysFinite, AmountTypes, SumType DEF Total
<1> HIDE DEF x
<1>13. /\ Total(Held(at, month)) - Held(at, month)[<<j, n>>] + Net(x) <= limit
       /\ Total(Credits(at)) - Credit(at[j][n]) + Credit(x) <= CreditTotal
  BY <1>1, <1>4, <1>5, <1>7, <1>8, <1>9, <1>10, <1>11, <1>12
<1>14. MoneyAt([at EXCEPT ![j][n] = x], month)
  BY <1>1, <1>2, <1>3, <1>6, <1>13, BookKeeps
<1> QED BY <1>14 DEF x

\* An open row is booked again in this month, at the credit that still applies.
LEMMA CallKeeps ==
  ASSUME IInv, MoneyAt(att, month), NEW j \in Jobs, NEW n \in AttemptIds,
         Unsettled(att[j][n]), att[j][n].stage # "none",
         CallVerdict(job[j], att[j][n]) = "running"
  PROVE  MoneyAt([att EXCEPT ![j][n] = Called(@, job[j])], month)
<1> DEFINE a == att[j][n]
           r == job[j]
           x == Called(a, r)
<1>1. /\ month \in Nat /\ limit \in Limits /\ limit \in Nat /\ CreditTotal \in Nat
      /\ att \in [Jobs -> History] /\ a \in AttemptRow /\ r \in JobRow
  BY BoundsAssumption, MoneyAssumption, RowTypes DEF IInv, SettingsOK, GenOK, History
<1>2. x \in AttemptRow /\ x.stage = "calling" /\ Unsettled(x)
  BY <1>1, CalledRow
<1>3. x.month = month /\ x.gross = a.gross /\ x.credit = CreditNow(r, a)
  BY <1>1, SMT DEF Called, AttemptRow
<1>4. <<j, n>> \in AttemptKeys /\ RowAt(att, <<j, n>>) = a
  BY DEF AttemptKeys, RowAt
<1>5. MoneyOK(a, month) /\ RowsPriced(att, month)
  BY <1>4 DEF MoneyAt, RowsPriced
<1>6. a.credit \in Nat /\ CreditNow(r, a) \in Nat /\ CreditNow(r, a) <= a.credit
      /\ a.gross \in Nat /\ a.credit <= a.gross
  BY <1>1, <1>5 DEF CreditNow, AttemptRow, MoneyOK
<1>7. MoneyOK(x, month)
  BY <1>1, <1>2, <1>3, <1>6 DEF MoneyOK
<1>8. /\ Net(x) = a.gross - CreditNow(r, a) /\ Credit(x) = CreditNow(r, a)
      /\ Credit(a) = a.credit /\ Net(a) \in Nat
  BY <1>1, <1>2, <1>3, <1>5, RowWorth DEF Net, Credit
<1>9. Held(att, month)[<<j, n>>] = Net(a)
  BY <1>4 DEF Held
<1>10. /\ Committed(att, month) = Total(Held(att, month)) /\ Total(Held(att, month)) \in Nat
       /\ Total(Credits(att)) \in Nat /\ Total(Credits(att)) <= CreditTotal
  <2>1. Committed(att, month) = Total(Held(att, month))
    BY DEF Committed, Held
  <2>2. Total(Held(att, month)) \in Nat /\ Total(Credits(att)) \in Nat
    BY <1>5, KeysFinite, AmountTypes, SumType DEF Total
  <2> QED BY <2>1, <2>2 DEF MoneyAt, WithinLimits
<1>11. Committed(att, month) - Net(a) + a.gross - CreditNow(r, a) <= limit
  <2>1. ~(Committed(att, month) - Net(a) + a.gross - CreditNow(r, a) > limit)
    BY Zenon DEF CallVerdict
  <2> QED BY <1>1, <1>6, <1>8, <1>10, <2>1
<1> HIDE DEF x, a, r
<1>12. /\ Total(Held(att, month)) - Held(att, month)[<<j, n>>] + Net(x) <= limit
       /\ Total(Credits(att)) - Credit(a) + Credit(x) <= CreditTotal
  BY <1>1, <1>6, <1>8, <1>9, <1>10, <1>11
<1>13. MoneyAt([att EXCEPT ![j][n] = x], month)
  BY <1>1, <1>2, <1>3, <1>7, <1>12, BookKeeps DEF a
<1> QED BY <1>13 DEF x, a, r

-----------------------------------------------------------------------------
(* Every other step only closes what is open.                                *)

LEMMA StillCheaper ==
  ASSUME NEW a
  PROVE  Cheaper(a, a)
BY DEF Cheaper

LEMMA ClosedCheaper ==
  ASSUME NEW a \in AttemptRow, Unsettled(a), a.stage # "none"
  PROVE  /\ Cheaper(a, Abandoned(a))
         /\ \A charge \in 0..a.gross : Cheaper(a, Settled(a, charge))
<1>1. a.gross \in Nat
  BY DEF AttemptRow
<1>2. Cheaper(a, Abandoned(a))
  BY <1>1, SMT DEF Cheaper, Abandoned, AttemptRow
<1>3. ASSUME NEW charge \in 0..a.gross PROVE Cheaper(a, Settled(a, charge))
  BY <1>1, SMT DEF Cheaper, Settled, AttemptRow
<1> QED BY <1>2, <1>3

\* One row of the ledger changes, and does not grow.
LEMMA OneShrinks ==
  ASSUME NEW at \in [Jobs -> History], NEW j \in Jobs, NEW n, NEW x, Cheaper(at[j][n], x)
  PROVE  LedgerShrinks(at, [at EXCEPT ![j][n] = x])
<1> DEFINE at2 == [at EXCEPT ![j][n] = x]
<1>1. ASSUME NEW k \in Jobs, NEW i \in AttemptIds PROVE Cheaper(at[k][i], at2[k][i])
  <2>1. CASE k = j /\ i = n
    <3>1. at2[k][i] = x
      BY <2>1 DEF History
    <3> HIDE DEF at2
    <3> QED BY <2>1, <3>1
  <2>2. CASE k # j \/ i # n
    <3>1. at2[k][i] = at[k][i]
      BY <2>2 DEF History
    <3> HIDE DEF at2
    <3> QED BY <3>1, StillCheaper
  <2> QED BY <2>1, <2>2
<1> QED BY <1>1, Zenon DEF LedgerShrinks

LEMMA RecoverShrinks ==
  ASSUME IInv
  PROVE  LedgerShrinks(att, RecoverAttempts)
<1>1. ASSUME NEW j \in Jobs, NEW n \in AttemptIds PROVE Cheaper(att[j][n], RecoverAttempts[j][n])
  <2> DEFINE gone == /\ Lapsed(job, j) /\ ~Latest(att, job, j).response
                     /\ Latest(att, job, j).stage = "reserved"
             last == job[j].attempts
  <2>1. CASE gone /\ n = last
    <3>1. RecoverAttempts[j][n] = Abandoned(att[j][n])
      <4>1. att[j] \in [AttemptIds -> AttemptRow]
        BY RowTypes DEF IInv, History
      <4>2. RecoverAttempts[j] = [att[j] EXCEPT ![last] = Abandoned(@)]
        BY <2>1, Zenon DEF RecoverAttempts
      <4> QED BY <2>1, <4>1, <4>2, Zenon
    <3>2. att[j][n] \in AttemptRow /\ Unsettled(att[j][n]) /\ att[j][n].stage = "reserved"
      BY <2>1, LatestOpen DEF IInv, Lapsed, OpenStates, Latest
    <3> QED BY <3>1, <3>2, ClosedCheaper
  <2>2. CASE ~gone \/ n # last
    <3>1. RecoverAttempts[j][n] = att[j][n]
      <4>1. att[j] \in [AttemptIds -> AttemptRow]
        BY RowTypes DEF IInv, History
      <4>2. \/ RecoverAttempts[j] = att[j]
            \/ RecoverAttempts[j] = [att[j] EXCEPT ![last] = Abandoned(@)] /\ n # last
        BY <2>2, Zenon DEF RecoverAttempts
      <4> QED BY <4>1, <4>2, Zenon
    <3> QED BY <3>1, StillCheaper
  <2> QED BY <2>1, <2>2
<1> QED BY <1>1 DEF LedgerShrinks

LEMMA AbandonShrinks ==
  ASSUME IInv, NEW S \in SUBSET ReservedClaims, AbandonReserved(S)
  PROVE  LedgerShrinks(att, att')
<1>1. ASSUME NEW j \in Jobs, NEW n \in AttemptIds PROVE Cheaper(att[j][n], att'[j][n])
  <2> DEFINE last == job[j].attempts
  <2>1. CASE j \in S /\ n = last
    <3>1. att'[j][n] = Abandoned(att[j][n])
      <4>1. att[j] \in [AttemptIds -> AttemptRow]
        BY RowTypes DEF IInv, History
      <4>2. att'[j] = [att[j] EXCEPT ![last] = Abandoned(@)]
        BY <2>1, Zenon DEF AbandonReserved
      <4> QED BY <2>1, <4>1, <4>2, Zenon
    <3>2. att[j][n] \in AttemptRow /\ Unsettled(att[j][n]) /\ att[j][n].stage = "reserved"
      BY <2>1, LatestOpen DEF IInv, ReservedClaims, OpenStates, Latest
    <3> QED BY <3>1, <3>2, ClosedCheaper
  <2>2. CASE j \notin S \/ n # last
    <3>1. att'[j][n] = att[j][n]
      <4>1. att[j] \in [AttemptIds -> AttemptRow]
        BY RowTypes DEF IInv, History
      <4>2. \/ att'[j] = att[j]
            \/ att'[j] = [att[j] EXCEPT ![last] = Abandoned(@)] /\ n # last
        BY <2>2, Zenon DEF AbandonReserved
      <4> QED BY <4>1, <4>2, Zenon
    <3> QED BY <3>1, StillCheaper
  <2> QED BY <2>1, <2>2
<1> QED BY <1>1 DEF LedgerShrinks

-----------------------------------------------------------------------------
(* The steps.                                                                *)

\* The provider has billed nothing for an attempt that was not posted.
FreeUntilPosted ==
  \A j \in Jobs, n \in AttemptIds : remote[j][n].status = "none" => remote[j][n].cost = 0

MoneyInv == CallsInv /\ MoneyAt(att, month) /\ FreeUntilPosted

\* An open attempt never costs more than is held for it.
LEMMA CostHeld ==
  ASSUME MoneyInv, NEW j \in Jobs, NEW n \in AttemptIds, Unsettled(att[j][n])
  PROVE  remote[j][n].cost \in 0..att[j][n].gross
<1>1. Sound(job[j], att[j], remote[j])
  BY SoundRows DEF MoneyInv
<1>2. /\ remote[j][n] \in RemoteRow /\ att[j][n] \in AttemptRow
      /\ CallOK(job[j], att[j][n], remote[j][n])
  BY <1>1 DEF Sound, Calls, History, RowOK
<1>3. CASE remote[j][n].posts = 0
  BY <1>2, <1>3, GrossOfRow DEF CallOK, MoneyInv, FreeUntilPosted, AttemptRow
<1>4. CASE remote[j][n].posts > 0
  <2>1. Accounted(att[j][n], remote[j][n])
    BY <1>2, <1>4 DEF CallOK
  <2>2. remote[j][n].cost \in Nat /\ att[j][n].gross \in Nat
    BY <1>2 DEF RemoteRow, AttemptRow
  <2> QED BY <2>1, <2>2 DEF Accounted, Unsettled, Unknown
<1> QED BY <1>2, <1>3, <1>4 DEF RemoteRow

LEMMA LatestSettles ==
  ASSUME MoneyInv, NEW j \in Jobs, job[j].state \in OpenStates, NEW charge,
         charge \in {0, remote[j][job[j].attempts].cost},
         att' = [att EXCEPT ![j][job[j].attempts] = Settled(@, charge)]
  PROVE  LedgerShrinks(att, att')
<1> DEFINE n == job[j].attempts
           x == Settled(att[j][n], charge)
<1>1. /\ GenOK(job, att) /\ att \in [Jobs -> History] /\ n \in AttemptIds
      /\ att[j][n] \in AttemptRow /\ Unsettled(att[j][n]) /\ att[j][n].stage \in OpenStages
  BY LatestOpen DEF MoneyInv, CallsInv, IInv, GenOK, Latest
<1>2. charge \in 0..att[j][n].gross
  BY <1>1, CostHeld DEF AttemptRow
<1>3. Cheaper(att[j][n], x)
  BY <1>1, <1>2, ClosedCheaper DEF OpenStages
<1>4. att' = [att EXCEPT ![j][n] = x]
  OBVIOUS
<1> HIDE DEF x, n
<1>5. LedgerShrinks(att, [att EXCEPT ![j][n] = x])
  BY <1>1, <1>3, OneShrinks
<1> QED BY <1>4, <1>5

\* A field that no money depends on changes in an open row.
LEMMA LatestKeepsWorth ==
  ASSUME MoneyInv, NEW j \in Jobs, job[j].state \in OpenStates, NEW x \in AttemptRow,
         LET a == att[j][job[j].attempts]
         IN  /\ x.month = a.month /\ x.gross = a.gross /\ x.credit = a.credit
             /\ x.charge = a.charge /\ x.stage = a.stage,
         att' = [att EXCEPT ![j][job[j].attempts] = x]
  PROVE  LedgerShrinks(att, att')
<1> DEFINE n == job[j].attempts
<1>1. att \in [Jobs -> History] /\ att[j][n].stage \in OpenStages
  BY LatestOpen DEF MoneyInv, CallsInv, IInv, GenOK, Latest
<1>2. Cheaper(att[j][n], x)
  BY <1>1 DEF Cheaper, OpenStages
<1> HIDE DEF n
<1> QED BY <1>1, <1>2, OneShrinks DEF n

LEMMA UnchangedShrinks ==
  ASSUME att' = att
  PROVE  LedgerShrinks(att, att')
BY StillCheaper DEF LedgerShrinks

LEMMA ReleaseShrinks ==
  ASSUME MoneyInv, NEW j \in Jobs, ConfirmedRelease(j)
  PROVE  LedgerShrinks(att, att')
BY LatestSettles DEF ConfirmedRelease, Release, OpenStates

LEMMA SaveResultShrinks ==
  ASSUME MoneyInv, NEW a \in Actors, SaveResult(a)
  PROVE  LedgerShrinks(att, att')
<1> DEFINE j == actor[a].job
<1>1. j \in Jobs
  BY StartsAt, WorksOnJob DEF MoneyInv, CallsInv, JobLess
<1>2. Owned(a, j) /\ att' = [att EXCEPT ![j][job[j].attempts] =
                                           Settled(@, remote[j][job[j].attempts].cost)]
  BY Zenon DEF SaveResult
<1> HIDE DEF j
<1>3. job[j].state \in OpenStates
  BY <1>2 DEF Owned, OpenStates
<1> QED BY <1>1, <1>2, <1>3, LatestSettles

LEMMA FailShrinks ==
  ASSUME MoneyInv, NEW a \in Actors, Fail(a)
  PROVE  LedgerShrinks(att, att')
<1> DEFINE j == actor[a].job
<1>1. j \in Jobs /\ (Owned(a, j) => job[j].state \in OpenStates)
  BY WorksOnJob DEF Fail, MoneyInv, CallsInv, JobLess, Owned, OpenStates
<1>2. CASE att' = att
  BY <1>2, UnchangedShrinks
<1>3. CASE Owned(a, j) /\ att' = [att EXCEPT ![j][job[j].attempts] = Settled(@, 0)]
  <2> HIDE DEF j
  <2> QED BY <1>1, <1>3, LatestSettles
<1> QED BY <1>2, <1>3, Zenon DEF Fail, genVars

LEMMA SubmittedShrinks ==
  ASSUME MoneyInv, NEW a \in Actors, Submitted(a)
  PROVE  LedgerShrinks(att, att')
<1> DEFINE j == actor[a].job
           n == job[j].attempts
           x == [att[j][n] EXCEPT !.response = TRUE]
<1>1. j \in Jobs /\ IInv
  BY StartsAt, WorksOnJob DEF MoneyInv, CallsInv, JobLess
<1>4. IF Owned(a, j) /\ att[j][n].stage = "calling"
      THEN att' = [att EXCEPT ![j][n].response = TRUE]
      ELSE att' = att
  BY Zenon DEF Submitted
<1> HIDE DEF j
<1>2. CASE att' = att
  BY <1>2, UnchangedShrinks
<1>3. CASE Owned(a, j) /\ att' = [att EXCEPT ![j][n].response = TRUE]
  <2>1. att[j][n] \in AttemptRow /\ job[j].state \in OpenStates
    BY <1>1, <1>3, OwnedOpen
  <2>2. x \in AttemptRow
    BY <2>1, Zenon DEF AttemptRow
  <2>3. /\ x.month = att[j][n].month /\ x.gross = att[j][n].gross
        /\ x.credit = att[j][n].credit /\ x.charge = att[j][n].charge
        /\ x.stage = att[j][n].stage
    BY <2>1, SMT DEF AttemptRow
  <2>4. att' = [att EXCEPT ![j][n] = x]
    BY <1>3
  <2> HIDE DEF x
  <2> QED BY <1>1, <2>1, <2>2, <2>3, <2>4, LatestKeepsWorth
<1> QED BY <1>2, <1>3, <1>4

LEMMA PollShrinks ==
  ASSUME MoneyInv, NEW a \in Actors, Poll(a)
  PROVE  LedgerShrinks(att, att')
<1> DEFINE j == actor[a].job
           n == job[j].attempts
<1>1. j \in Jobs /\ IInv
  BY StartsAt, WorksOnJob DEF MoneyInv, CallsInv, JobLess
<1>2. PICK unread \in BOOLEAN :
        Owned(a, j) /\ att' = [att EXCEPT ![j][n] = Polled(att[j][n], unread)]
  BY Zenon DEF Poll, Pending
<1> HIDE DEF j
<1> DEFINE x == Polled(att[j][n], unread)
<1>3. att[j][n] \in AttemptRow /\ job[j].state \in OpenStates
  BY <1>1, <1>2, OwnedOpen
<1>4. x \in AttemptRow
  BY <1>3, PolledRow
<1>5. /\ x.month = att[j][n].month /\ x.gross = att[j][n].gross
      /\ x.credit = att[j][n].credit /\ x.charge = att[j][n].charge
      /\ x.stage = att[j][n].stage
  BY <1>3, SMT DEF Polled, AttemptRow
<1> HIDE DEF x
<1>6. att' = [att EXCEPT ![j][n] = x]
  BY <1>2 DEF x
<1> QED BY <1>1, <1>3, <1>4, <1>5, <1>6, LatestKeepsWorth

LEMMA TakeOverShrinks ==
  ASSUME MoneyInv, NEW a \in Actors, TakeOver(a)
  PROVE  LedgerShrinks(att, att')
<1> DEFINE j == actor[a].job
           n == actor[a].attempt
           x == [att[j][n] EXCEPT !.polls = 0]
<1>1. j \in Jobs /\ IInv /\ actor[a].seen \in OpenStates
  <2>1. actor[a].pc = "reconciling"
    BY StartsAt
  <2>2. actor[a].job \in Jobs
    BY <2>1, WorksOnJob DEF MoneyInv, CallsInv, JobLess
  <2>3. actor[a].seen \in OpenStates
    BY <2>1, Zenon DEF MoneyInv, CallsInv, IInv, ProcessesOK, ActorsOK
  <2> QED BY <2>2, <2>3 DEF MoneyInv, CallsInv
<1>4. IF StillAsRead(a) THEN att' = [att EXCEPT ![j][n].polls = 0] ELSE att' = att
  BY Zenon DEF TakeOver, genVars
<1>5. StillAsRead(a) => job[j].state = actor[a].seen /\ n = job[j].attempts
  BY Zenon DEF StillAsRead
<1> HIDE DEF j, n
<1>2. CASE att' = att
  BY <1>2, UnchangedShrinks
<1>3. CASE StillAsRead(a) /\ att' = [att EXCEPT ![j][n].polls = 0]
  <2>1. job[j].state \in OpenStates /\ n = job[j].attempts
    BY <1>1, <1>3, <1>5
  <2>2. att[j][n] \in AttemptRow
    BY <1>1, <2>1, LatestOpen DEF IInv, Latest
  <2>3. x \in AttemptRow
    BY <2>2, Zenon DEF AttemptRow
  <2>4. /\ x.month = att[j][n].month /\ x.gross = att[j][n].gross
        /\ x.credit = att[j][n].credit /\ x.charge = att[j][n].charge
        /\ x.stage = att[j][n].stage
    BY <2>2, SMT DEF AttemptRow
  <2>5. att' = [att EXCEPT ![j][n] = x]
    BY <1>3
  <2> HIDE DEF x
  <2> QED BY <1>1, <2>1, <2>3, <2>4, <2>5, LatestKeepsWorth
<1> QED BY <1>2, <1>3, <1>4

\* A transaction that only closes what is open stays within the limits.
LEMMA ShrinkingKeeps ==
  ASSUME MoneyInv, [Next]_vars, LedgerShrinks(att, att')
  PROVE  MoneyAt(att', month)
<1>1. att' \in [Jobs -> History]
  BY NextGen DEF MoneyInv, CallsInv, GenStep, GenOK
<1> QED BY <1>1, ShrinkKeeps DEF MoneyInv

\* The call is booked, the reservation is given back, or nothing happens.
LEMMA CallingMoney ==
  ASSUME MoneyInv, NEW a \in Actors, Calling(a), [Next]_vars
  PROVE  MoneyAt(att', month)
<1> DEFINE j == actor[a].job
           n == job[j].attempts
           x == Abandoned(att[j][n])
<1>1. j \in Jobs /\ IInv /\ att \in [Jobs -> History]
  BY StartsAt, WorksOnJob DEF JobLess, MoneyInv, CallsInv, GenOK
<1>5. \/ att' = att
      \/ /\ Owned(a, j) /\ att[j][n].stage = "reserved"
         /\ CallVerdict(job[j], att[j][n]) = "running"
         /\ att' = [att EXCEPT ![j][n] = Called(@, job[j])]
      \/ Owned(a, j) /\ att[j][n].stage = "reserved" /\ att' = [att EXCEPT ![j][n] = x]
  BY Zenon DEF Calling, CallingRow, genVars
<1> HIDE DEF j
<1>2. CASE att' = att
  BY <1>2, UnchangedShrinks, ShrinkingKeeps
<1>3. CASE /\ Owned(a, j) /\ att[j][n].stage = "reserved"
           /\ CallVerdict(job[j], att[j][n]) = "running"
           /\ att' = [att EXCEPT ![j][n] = Called(@, job[j])]
  <2>1. n \in AttemptIds /\ Unsettled(att[j][n]) /\ att[j][n].stage # "none"
    BY <1>1, <1>3, OwnedOpen DEF OpenStages
  <2>2. MoneyAt([att EXCEPT ![j][n] = Called(@, job[j])], month)
    BY <1>1, <1>3, <2>1, CallKeeps DEF MoneyInv
  <2> QED BY <1>3, <2>2
<1>4. CASE Owned(a, j) /\ att[j][n].stage = "reserved" /\ att' = [att EXCEPT ![j][n] = x]
  <2>1. att[j][n] \in AttemptRow /\ Unsettled(att[j][n]) /\ att[j][n].stage # "none"
    BY <1>1, <1>4, OwnedOpen DEF OpenStages
  <2>2. Cheaper(att[j][n], x)
    BY <2>1, ClosedCheaper
  <2> HIDE DEF x
  <2>3. LedgerShrinks(att, att')
    BY <1>1, <1>4, <2>2, OneShrinks
  <2> QED BY <2>3, ShrinkingKeeps
<1> QED BY <1>2, <1>3, <1>4, <1>5

\* Claims are recovered first, then at most one reservation is booked.
LEMMA ClaimMoney ==
  ASSUME MoneyInv, NEW a \in Actors, Claim(a)
  PROVE  MoneyAt(att', month)
<1> DEFINE jb == RecoverJobs
           at == RecoverAttempts
           leasable == {j \in Claimable(jb) : Verdict(jb, at, j, a) = "running"}
<1>1. IInv /\ GenOK(jb, at) /\ at \in [Jobs -> History]
  BY RecoverGen DEF MoneyInv, CallsInv, IInv, GenStep, GenOK
<1>2. MoneyAt(at, month)
  BY <1>1, RecoverShrinks, ShrinkKeeps DEF MoneyInv
<1>3. \/ att' = at
      \/ \E j \in leasable :
           att' = [at EXCEPT ![j][jb[j].attempts + 1] = Reservation(at, ProviderOf[a])]
  BY Zenon DEF Claim
<1> HIDE DEF jb, at
<1>4. ASSUME NEW j \in leasable,
             att' = [at EXCEPT ![j][jb[j].attempts + 1] = Reservation(at, ProviderOf[a])]
      PROVE  MoneyAt(att', month)
  <2>1. j \in Jobs /\ jb[j].attempts + 1 \in AttemptIds
    BY <1>1, LeasableRow
  <2>2. ~OverBudget(at, ProviderOf[a])
    <3>1. jb[j].state # "running"
      BY DEF Claimable, IdleStates
    <3> QED BY <3>1, Zenon DEF Verdict
  <2>3. at[j][jb[j].attempts + 1].stage = "none"
    <3>1. jb[j] \in JobRow /\ LedgerOf(jb[j], at[j])
      BY <1>1, <2>1 DEF GenOK
    <3>2. jb[j].attempts + 1 > jb[j].attempts
      BY <3>1, SMT DEF JobRow
    <3> QED BY <2>1, <3>1, <3>2, Zenon DEF LedgerOf
  <2>4. ProviderOf[a] \in Providers
    BY ProviderAssumption
  <2>5. MoneyAt([at EXCEPT ![j][jb[j].attempts + 1] = Reservation(at, ProviderOf[a])], month)
    BY <1>1, <1>2, <2>1, <2>2, <2>3, <2>4, ReserveKeeps
  <2> QED BY <1>4, <2>5
<1> QED BY <1>2, <1>3, <1>4

\* A retired source gives back claims that are reserved, and no other.
LEMMA RetiredAbandons ==
  ASSUME NEW a \in Actors, CallingRetired(a)
  PROVE  \E S \in SUBSET ReservedClaims : AbandonReserved(S)
<1> DEFINE own == IF Owned(a, actor[a].job) THEN ReservedClaims \cap {actor[a].job} ELSE {}
<1>1. AbandonReserved(ReservedClaims) \/ AbandonReserved(own)
  BY Zenon DEF CallingRetired
<1> HIDE DEF ReservedClaims
<1>2. ReservedClaims \in SUBSET ReservedClaims /\ own \in SUBSET ReservedClaims
  OBVIOUS
<1> QED BY <1>1, <1>2

LEMMA StepMoney ==
  ASSUME MoneyInv, NEW a \in Actors, Step(a), [Next]_vars
  PROVE  MoneyAt(att', month)
<1>1. CASE Calling(a) \/ Claim(a)
  BY <1>1, CallingMoney, ClaimMoney
<1>2. CASE \/ StartRun(a) \/ RefuseRun(a) \/ Submit(a) \/ Generate(a) \/ Retrieve(a)
           \/ Unusable(a) \/ LostClaim(a) \/ Publish(a)
  <2>1. att' = att
    BY <1>2, Zenon DEF StartRun, RefuseRun, Submit, Generate, Retrieve, Unusable, LostClaim,
                       Publish, storeVars, genVars
  <2> QED BY <2>1, UnchangedShrinks, ShrinkingKeeps
<1>3. CASE Resume(a)
  BY <1>3, RecoverShrinks, ShrinkingKeeps DEF Resume, MoneyInv, CallsInv
<1>4. CASE CallingRetired(a)
  <2>1. PICK S \in SUBSET ReservedClaims : AbandonReserved(S)
    BY <1>4, RetiredAbandons
  <2> QED BY <2>1, AbandonShrinks, ShrinkingKeeps DEF MoneyInv, CallsInv
<1>5. CASE \/ Submitted(a) \/ Poll(a) \/ SaveResult(a) \/ Fail(a) \/ TakeOver(a)
  BY <1>5, SubmittedShrinks, PollShrinks, SaveResultShrinks, FailShrinks, TakeOverShrinks,
     ShrinkingKeeps
<1> QED BY <1>1, <1>2, <1>3, <1>4, <1>5, Zenon DEF Step

\* A request books nothing, and leaves the clock alone.
LEMMA RequestMoney ==
  ASSUME MoneyInv, Request, [Next]_vars
  PROVE  MoneyAt(att', month) /\ month' = month
<1>1. CASE \E j \in Jobs : ConfirmedRelease(j)
  <2>1. month' = month
    BY <1>1, Zenon DEF ConfirmedRelease, Release, worldVars, clockVars
  <2> QED BY <1>1, <2>1, ReleaseShrinks, ShrinkingKeeps
<1>2. CASE AbandonRetiredClaims
  <2>1. AbandonReserved(ReservedClaims) /\ month' = month
    BY <1>2, Zenon DEF AbandonRetiredClaims, worldVars, clockVars
  <2>2. ReservedClaims \in SUBSET ReservedClaims
    OBVIOUS
  <2>3. LedgerShrinks(att, att')
    BY <2>1, <2>2, AbandonShrinks DEF MoneyInv, CallsInv
  <2> QED BY <2>1, <2>3, ShrinkingKeeps
<1>3. CASE att' = att /\ month' = month
  BY <1>3, UnchangedShrinks, ShrinkingKeeps
<1>4. CASE \/ \E j \in Jobs, s \in Skills : Enqueue(j, s, RefillProvider)
           \/ \E j \in Jobs, s \in Skills, c \in Contents :
                CreateSkill(j, s, c, RefillProvider) \/ EditSkill(j, s, c, RefillProvider)
           \/ \E j \in Jobs : DiscardSkillRequest(j)
  <2>1. ASSUME NEW j, NEW s, Enqueue(j, s, RefillProvider)
        PROVE  UNCHANGED <<att, month>>
    BY <2>1, Zenon DEF Enqueue, worldVars, clockVars
  <2>2. ASSUME NEW j, NEW s, NEW c, CreateSkill(j, s, c, RefillProvider)
        PROVE  UNCHANGED <<att, month>>
    BY <2>2, Zenon DEF CreateSkill, SaveDraft, worldVars, clockVars
  <2>3. ASSUME NEW j, NEW s, NEW c, EditSkill(j, s, c, RefillProvider)
        PROVE  UNCHANGED <<att, month>>
    BY <2>3, Zenon DEF EditSkill, SaveDraft, worldVars, clockVars
  <2>4. ASSUME NEW j, DiscardSkillRequest(j)
        PROVE  UNCHANGED <<att, month>>
    BY <2>4, Zenon DEF DiscardSkillRequest, worldVars, clockVars
  <2> QED BY <1>3, <1>4, <2>1, <2>2, <2>3, <2>4, Zenon
<1>5. CASE \/ \E s \in Skills, waited \in BOOLEAN : RequestRefill(s, RefillProvider, waited)
           \/ \E s \in Skills : ImportRevision(s)
           \/ \E s \in Skills : RetireSkill(s) \/ RestoreSkill(s)
  BY <1>3, <1>5, Zenon DEF RequestRefill, ImportRevision, RetireSkill, RestoreSkill, genVars,
       clockVars
<1>6. CASE \/ \E amount \in Limits : ConfigureBudget(amount)
           \/ \E size \in StoreLimits : ConfigureLimits(size)
           \/ RetireSource
  BY <1>3, <1>6, Zenon DEF ConfigureBudget, ConfigureLimits, RetireSource, genVars, clockVars
<1> QED BY <1>1, <1>2, <1>4, <1>5, <1>6, Zenon DEF Request

\* A month begins with nothing spent in it.
LEMMA NextMonthMoney ==
  ASSUME MoneyInv, NextMonth
  PROVE  MoneyAt(att', month')
<1>1. month \in Nat /\ month' = month + 1 /\ att' = att /\ limit \in Limits
  BY BoundsAssumption DEF NextMonth, genVars, MoneyInv, CallsInv, IInv, SettingsOK
<1>2. RowsPriced(att, month) /\ WithinLimits(att, month)
  BY DEF MoneyInv, MoneyAt
<1>3. \A k \in AttemptKeys : RowAt(att, k).month \in Nat /\ RowAt(att, k).month <= month
  BY <1>2 DEF RowsPriced, MoneyOK, AttemptRow
<1>4. RowsPriced(att, month + 1)
  BY <1>1, <1>2, <1>3 DEF RowsPriced, MoneyOK
<1>5. Total(Spending(att, month + 1)) = 0
  <2>1. \A k \in AttemptKeys : Spending(att, month + 1)[k] = 0
    BY <1>1, <1>3 DEF Spending
  <2> QED BY <1>2, <2>1, KeysFinite, AmountTypes, SumOfZeros DEF Total
<1>6. ASSUME NEW past \in 1..(month + 1)
      PROVE  \E amount \in Limits : Total(Spending(att, past)) <= amount
  <2>1. CASE past = month + 1
    BY <1>1, <1>5, <2>1, MoneyAssumption
  <2>2. CASE past # month + 1
    BY <1>1, <1>2, <2>2 DEF WithinLimits
  <2> QED BY <2>1, <2>2
<1> QED BY <1>1, <1>2, <1>4, <1>6 DEF MoneyAt, WithinLimits

LEMMA NextMoney ==
  ASSUME MoneyInv, [Next]_vars
  PROVE  MoneyAt(att, month)'
<1>1. CASE UNCHANGED <<att, month>>
  BY <1>1, UnchangedShrinks, ShrinkingKeeps
<1>2. CASE Request
  BY <1>2, RequestMoney
<1>3. CASE \E a \in Actors : Step(a)
  BY <1>3, StepMoney, StepWorld
<1>4. CASE NextMonth
  BY <1>4, NextMonthMoney
<1>5. CASE \/ UNCHANGED vars \/ CreditExpires
           \/ \E o \in Operators, j \in Jobs : Reconcile(o, j)
           \/ \E j \in Jobs, n \in AttemptIds : RemoteFinishes(j, n)
           \/ \E a \in Actors : Crash(a)
           \/ \E j \in Jobs : LeaseExpires(j) \/ ComesDue(j)
  <2>1. UNCHANGED <<att, month>>
    BY <1>5, Zenon DEF vars, CreditExpires, Reconcile, RemoteFinishes, Crash, LeaseExpires,
         ComesDue, storeVars, genVars, worldVars, clockVars
  <2> QED BY <1>1, <2>1
<1> QED BY <1>2, <1>3, <1>4, <1>5, Zenon DEF Next, Environment

LEMMA NextFree ==
  ASSUME MoneyInv, [Next]_vars
  PROVE  FreeUntilPosted'
<1>1. FreeUntilPosted /\ remote \in [Jobs -> Calls]
  BY DEF MoneyInv, CallsInv, IInv, ProcessesOK, RemoteOK, Calls
<1>2. CASE remote' = remote
  BY <1>1, <1>2 DEF FreeUntilPosted
<1>3. ASSUME NEW j, NEW n, NEW v, remote' = [remote EXCEPT ![j][n] = v], v.status # "none"
      PROVE  FreeUntilPosted'
  <2>1. ASSUME NEW k \in Jobs, NEW i \in AttemptIds
        PROVE  remote'[k][i].status = "none" => remote'[k][i].cost = 0
    <3>1. remote[k] \in [AttemptIds -> RemoteRow]
      BY <1>1 DEF Calls
    <3>2. remote'[k][i] = remote[k][i] \/ remote'[k][i] = v
      BY <1>1, <1>3, <3>1
    <3>3. remote[k][i].status = "none" => remote[k][i].cost = 0
      BY <1>1 DEF FreeUntilPosted
    <3> QED BY <1>3, <3>2, <3>3
  <2> QED BY <2>1 DEF FreeUntilPosted
<1>4. CASE \E a \in Actors : Submit(a)
  <2>1. PICK a \in Actors : Submit(a)
    BY <1>4
  <2> DEFINE j == actor[a].job
             n == job[j].attempts
             v == [posts |-> remote[j][n].posts + 1, status |-> "working", cost |-> 0]
  <2>2. remote' = remote \/ remote' = [remote EXCEPT ![j][n] = v]
    BY <2>1 DEF Submit
  <2>3. v.status # "none"
    OBVIOUS
  <2> HIDE DEF v, j, n
  <2> QED BY <1>2, <1>3, <2>2, <2>3
<1>5. CASE \E j \in Jobs, n \in AttemptIds : RemoteFinishes(j, n)
  <2>1. PICK j \in Jobs, n \in AttemptIds : RemoteFinishes(j, n)
    BY <1>5
  <2>2. PICK status \in Finished, cost \in 0..att[j][n].gross :
          remote' = [remote EXCEPT ![j][n] = [@ EXCEPT !.status = status, !.cost = cost]]
    BY <2>1 DEF RemoteFinishes
  <2> DEFINE v == [remote[j][n] EXCEPT !.status = status, !.cost = cost]
  <2>3. remote' = [remote EXCEPT ![j][n] = v]
    BY <2>2
  <2>4. v.status # "none"
    <3>1. remote[j][n] \in RemoteRow
      BY <1>1 DEF Calls
    <3> QED BY <3>1, SMT DEF RemoteRow, Finished
  <2> HIDE DEF v
  <2> QED BY <1>3, <2>3, <2>4
<1>6. CASE \/ UNCHANGED vars \/ (Request /\ UNCHANGED workerVars)
           \/ \E o \in Operators, j \in Jobs : Reconcile(o, j)
           \/ \E a \in Actors : Crash(a)
           \/ \E j \in Jobs : LeaseExpires(j) \/ ComesDue(j)
           \/ NextMonth \/ CreditExpires
  BY <1>2, <1>6, Zenon DEF vars, workerVars, Reconcile, Crash, LeaseExpires, ComesDue,
       NextMonth, CreditExpires
<1>7. CASE \E a \in Actors : Step(a) /\ ~Submit(a)
  <2>1. PICK a \in Actors : Step(a) /\ ~Submit(a)
    BY <1>7
  <2>2. CASE StartRun(a) \/ RefuseRun(a) \/ Resume(a) \/ Claim(a) \/ Calling(a)
    BY <1>2, <2>2, StartsAt, Zenon DEF StartRun, RefuseRun, Resume, Claim
  <2>3. CASE CallingRetired(a) \/ Generate(a) \/ Submitted(a) \/ Retrieve(a) \/ Poll(a)
    BY <1>2, <2>3, StartsAt, Zenon DEF CallingRetired, Generate, Retrieve, Poll
  <2>4. CASE SaveResult(a) \/ Unusable(a) \/ LostClaim(a) \/ Fail(a) \/ Publish(a) \/ TakeOver(a)
    BY <1>2, <2>4, StartsAt, Zenon DEF Unusable, LostClaim, Publish
  <2> QED BY <2>1, <2>2, <2>3, <2>4, Zenon DEF Step
<1> QED BY <1>4, <1>5, <1>6, <1>7, Zenon DEF Next, Environment

LEMMA InitMoney ==
  ASSUME Init
  PROVE  MoneyInv
<1>1. /\ att = [j \in Jobs |-> [n \in AttemptIds |-> NoAttempt]] /\ month = 1
      /\ limit \in Limits
  BY DEF Init, StoreInit
<1>2. FreeUntilPosted
  BY DEF Init, WorkerInit, FreeUntilPosted
<1>3. NoAttempt \in AttemptRow /\ MoneyOK(NoAttempt, 1) /\ NoAttempt.month = 0
  BY SMT DEF NoAttempt, AttemptRow, MoneyOK
<1>4. Credit(NoAttempt) = 0
  BY DEF Credit, Least, NoAttempt, Unsettled, Unknown
<1>5. \A k \in AttemptKeys : RowAt(att, k) = NoAttempt
  BY <1>1 DEF AttemptKeys, RowAt
<1>6. RowsPriced(att, 1)
  BY <1>3, <1>5 DEF RowsPriced
<1>7. ASSUME NEW past \in 1..1 PROVE Total(Spending(att, past)) = 0
  <2>1. \A k \in AttemptKeys : Spending(att, past)[k] = 0
    BY <1>3, <1>5 DEF Spending
  <2> QED BY <1>6, <2>1, KeysFinite, AmountTypes, SumOfZeros DEF Total
<1>8. Total(Credits(att)) = 0
  <2>1. \A k \in AttemptKeys : Credits(att)[k] = 0
    BY <1>4, <1>5 DEF Credits
  <2> QED BY <1>6, <2>1, KeysFinite, AmountTypes, SumOfZeros DEF Total
<1>9. WithinLimits(att, 1)
  BY <1>1, <1>7, <1>8, MoneyAssumption DEF WithinLimits
<1> QED BY <1>1, <1>2, <1>6, <1>9, InitCalls DEF MoneyInv, MoneyAt

\* Every row of the ledger is within its price, every month within a limit and
\* all credits within their total.
THEOREM MoneyInductive == Spec => []MoneyInv
<1>1. Init => MoneyInv
  BY InitMoney
<1>2. MoneyInv /\ [Next]_vars => MoneyInv'
  BY NextCalls, NextMoney, NextFree DEF MoneyInv
<1> QED BY <1>1, <1>2, PTL DEF Spec

\* What a month has booked, recorded or held, stays within a limit the operator
\* may configure, whatever claims race, lapse, cross a month's end or lose their credit.
THEOREM SpendWithinLimitHolds == Spec => []SpendWithinLimit
<1>1. MoneyInv => SpendWithinLimit
  BY Zenon DEF MoneyInv, MoneyAt, WithinLimits, SpendWithinLimit, SpentIn, Spending
<1> QED BY <1>1, MoneyInductive, PTL

\* The credits used and held never exceed the credits there are.
THEOREM CreditWithinTotalHolds == Spec => []CreditWithinTotal
<1>1. MoneyInv => CreditWithinTotal
  BY Zenon DEF MoneyInv, MoneyAt, WithinLimits, CreditWithinTotal, CreditUsed, Credits
<1> QED BY <1>1, MoneyInductive, PTL
=============================================================================
