-------------------------- MODULE PublicationProofs --------------------------
(***************************************************************************)
(* What becomes of the jobs' output, for every number of jobs, workers,    *)
(* edits, deletions and imports: a skill's batches follow its revisions,   *)
(* output that was paid for is kept and published once, one refill of a    *)
(* revision works at a time, and the room a claim reserved is not taken.   *)
(***************************************************************************)
EXTENDS GenerationProofs, FiniteSetTheorems

\* The batches b of a skill with rev revisions.
InOrder(b, rev) ==
  \A i \in 1..Len(b) :
    /\ b[i].rev <= rev
    /\ \A k \in 1..(i - 1) : b[k].rev <= b[i].rev

BankInv == \A s \in Skills : InOrder(bank[s], Rev(s))

\* How a skill's revisions and batches may move in one step.
Follows(s) ==
  /\ Rev(s)' \in Nat /\ Rev(s) <= Rev(s)'
  /\ \/ bank'[s] = bank[s]
     \/ \E b \in [job : Jobs, rev : Nat] :
          b.rev = Rev(s) /\ bank'[s] = Append(bank[s], b)

LEMMA MemberOfSeq ==
  ASSUME NEW S, NEW q \in Seq(S), NEW i \in 1..Len(q)
  PROVE  q[i] \in S
OBVIOUS

LEMMA OrderKept ==
  ASSUME SkillsOK, NEW s \in Skills, InOrder(bank[s], Rev(s)), Follows(s)
  PROVE  InOrder(bank'[s], Rev(s)')
<1>1. bank[s] \in Batches /\ Rev(s) \in Nat
  BY SkillTypes
<1>2. \A i \in 1..Len(bank[s]) : bank[s][i].rev \in Nat
  <2> TAKE i \in 1..Len(bank[s])
  <2>1. bank[s][i] \in [job : Jobs, rev : Nat]
    BY <1>1, MemberOfSeq DEF Batches
  <2> QED BY <2>1
<1>3. CASE bank'[s] = bank[s]
  BY <1>1, <1>2, <1>3 DEF InOrder, Follows
<1>4. CASE bank'[s] # bank[s]
  <2>1. PICK b \in [job : Jobs, rev : Nat] : b.rev = Rev(s) /\ bank'[s] = Append(bank[s], b)
    BY <1>4 DEF Follows
  <2> DEFINE new == Append(bank[s], b)
             last == Len(bank[s]) + 1
  <2>2. /\ Len(bank[s]) \in Nat /\ Len(new) = last /\ new[last].rev = Rev(s)
        /\ \A i \in 1..Len(bank[s]) : new[i] = bank[s][i]
    BY <1>1, <2>1, SMT DEF Batches
  <2> HIDE DEF new
  <2>3. ASSUME NEW i \in 1..Len(new)
        PROVE  new[i].rev <= Rev(s)' /\ \A k \in 1..(i - 1) : new[k].rev <= new[i].rev
    <3>1. CASE i = last
      BY <1>1, <1>2, <2>2, <3>1 DEF InOrder, Follows
    <3>2. CASE i # last
      <4>1. i \in 1..Len(bank[s]) /\ \A k \in 1..(i - 1) : k \in 1..Len(bank[s])
        BY <2>2, <3>2
      <4>2. new[i] = bank[s][i] /\ \A k \in 1..(i - 1) : new[k] = bank[s][k]
        BY <2>2, <4>1
      <4>3. bank[s][i].rev <= Rev(s) /\ \A k \in 1..(i - 1) : bank[s][k].rev <= bank[s][i].rev
        BY <4>1 DEF InOrder
      <4>4. bank[s][i].rev <= Rev(s)'
        BY <1>1, <1>2, <4>1, <4>3 DEF Follows
      <4> QED BY <4>2, <4>3, <4>4
    <3> QED BY <3>1, <3>2
  <2>4. bank'[s] = new
    BY <2>1 DEF new
  <2> QED BY <2>3, <2>4 DEF InOrder
<1> QED BY <1>3, <1>4

LEMMA StaysPut ==
  ASSUME SkillsOK, NEW s \in Skills, bank' = bank, revisions' = revisions
  PROVE  Follows(s)
BY SkillTypes DEF Follows, Rev

LEMMA RevisionFollows ==
  ASSUME SkillsOK, NEW s \in Skills, NEW t, NEW by, bank' = bank,
         revisions' = [revisions EXCEPT ![t] = Append(@, by)], by \in Jobs \cup {Imported}
  PROVE  Follows(s)
<1>1. revisions[s] \in Revs /\ Rev(s) \in Nat
  BY SkillTypes
<1>2. revisions'[s] = revisions[s] \/ revisions'[s] = Append(revisions[s], by)
  BY Zenon DEF SkillsOK
<1>3. Len(Append(revisions[s], by)) = Len(revisions[s]) + 1
  BY <1>1 DEF Revs
<1> QED BY <1>1, <1>2, <1>3 DEF Follows, Rev

\* A batch joins the bank only while its job's revision is the published one.
LEMMA PublishFollows ==
  ASSUME IInv, NEW a \in Actors, Publish(a), NEW s \in Skills
  PROVE  Follows(s)
<1> DEFINE j == actor[a].job
<1>1. j \in Jobs /\ job[j] \in JobRow /\ SkillsOK
  BY WorksOnJob DEF Publish, JobLess, IInv
<1>2. CASE UNCHANGED <<revisions, bank, draft>>
  BY <1>1, <1>2, StaysPut
<1>3. CASE /\ Publishes(j) /\ revisions' = PublishedRevisions(j) /\ bank' = PublishedBank(j)
  <2>1. CASE job[j].kind = "draft"
    <3> HIDE DEF j
    <3> QED BY <1>1, <1>3, <2>1, RevisionFollows DEF PublishedRevisions, PublishedBank
  <2>2. CASE job[j].kind # "draft"
    <3> DEFINE b == [job |-> j, rev |-> job[j].rev]
    <3>1. revisions' = revisions /\ bank' = [bank EXCEPT ![job[j].skill] = Append(@, b)]
      BY <1>3, <2>2 DEF PublishedRevisions, PublishedBank
    <3>2. b \in [job : Jobs, rev : Nat] /\ b.rev = Rev(job[j].skill)
      BY <1>1, <1>3, <2>2, BoundsAssumption DEF JobRow, Publishes, Current
    <3> HIDE DEF b
    <3>3. bank'[s] = bank[s] \/ (s = job[j].skill /\ bank'[s] = Append(bank[s], b))
      BY <1>1, <3>1, Zenon DEF SkillsOK
    <3>4. Rev(s) \in Nat /\ Rev(s)' = Rev(s)
      BY <1>1, <3>1, SkillTypes DEF Rev
    <3> QED BY <3>2, <3>3, <3>4 DEF Follows
  <2> QED BY <2>1, <2>2
<1> QED BY <1>2, <1>3, Zenon DEF Publish

\* Of the requests only an import writes the skill tables, and around the processes
\* nothing does.
LEMMA RequestTables ==
  ASSUME Request
  PROVE  UNCHANGED <<revisions, bank>> \/ \E t \in Skills : ImportRevision(t)
<1>1. ASSUME NEW j, NEW s, Enqueue(j, s, RefillProvider) PROVE UNCHANGED <<revisions, bank>>
  BY <1>1, Zenon DEF Enqueue, worldVars, skillVars
<1>2. ASSUME NEW j, NEW s, NEW c,
             CreateSkill(j, s, c, RefillProvider) \/ EditSkill(j, s, c, RefillProvider)
      PROVE  UNCHANGED <<revisions, bank>>
  BY <1>2, Zenon DEF CreateSkill, EditSkill, SaveDraft, skillVars
<1>3. ASSUME NEW j, DiscardSkillRequest(j) \/ ConfirmedRelease(j)
      PROVE  UNCHANGED <<revisions, bank>>
  BY <1>3, Zenon DEF DiscardSkillRequest, ConfirmedRelease, Release, worldVars, skillVars
<1>4. ASSUME NEW s, \/ \E waited : RequestRefill(s, RefillProvider, waited)
                    \/ RetireSkill(s) \/ RestoreSkill(s)
      PROVE  UNCHANGED <<revisions, bank>>
  BY <1>4, Zenon DEF RequestRefill, RetireSkill, RestoreSkill, worldVars, skillVars
<1>5. ASSUME \/ \E amount : ConfigureBudget(amount)
             \/ \E size : ConfigureLimits(size)
             \/ RetireSource \/ AbandonRetiredClaims
      PROVE  UNCHANGED <<revisions, bank>>
  BY <1>5, Zenon DEF ConfigureBudget, ConfigureLimits, RetireSource, AbandonRetiredClaims,
       worldVars, skillVars
<1> QED BY <1>1, <1>2, <1>3, <1>4, <1>5, Zenon DEF Request

LEMMA OtherTables ==
  ASSUME \/ UNCHANGED vars \/ \E o \in Operators, j \in Jobs : Reconcile(o, j)
         \/ Environment
  PROVE  UNCHANGED <<revisions, bank>>
BY Zenon DEF vars, storeVars, worldVars, skillVars, Reconcile, Environment,
   RemoteFinishes, Crash, LeaseExpires, ComesDue, NextMonth, CreditExpires

LEMMA NextFollows ==
  ASSUME IInv, [Next]_vars, NEW s \in Skills
  PROVE  Follows(s)
<1>1. SkillsOK
  BY DEF IInv
<1>2. CASE UNCHANGED <<revisions, bank>>
  BY <1>1, <1>2, StaysPut
<1>3. CASE \E t \in Skills : ImportRevision(t)
  BY <1>1, <1>3, RevisionFollows DEF ImportRevision
<1>4. CASE \E a \in Actors : Step(a)
  <2>1. PICK a \in Actors : Step(a)
    BY <1>4
  <2> QED BY <1>2, <2>1, StepWorld, PublishFollows
<1> QED BY <1>2, <1>3, <1>4, RequestTables, OtherTables, Zenon DEF Next

\* Output for an old description never joins the bank after a newer description
\* was published, although it may have been requested, claimed and paid for before.
THEOREM BankFollows == Spec => []BankFollowsRevisions
<1>1. Init => BankInv
  <2> SUFFICES ASSUME Init, NEW s \in Skills PROVE InOrder(bank[s], Rev(s))
    BY DEF BankInv
  <2>1. bank[s] = <<>>
    BY DEF Init, StoreInit
  <2> QED BY <2>1 DEF InOrder
<1>2. IInv /\ BankInv /\ [Next]_vars => BankInv'
  <2> SUFFICES ASSUME IInv, BankInv, [Next]_vars, NEW s \in Skills
               PROVE  InOrder(bank'[s], Rev(s)')
    BY DEF BankInv
  <2> QED BY NextFollows, OrderKept DEF IInv, BankInv
<1>3. BankInv => BankFollowsRevisions
  BY DEF BankInv, InOrder, BankFollowsRevisions
<1> QED BY <1>1, <1>2, <1>3, Inductive, PTL DEF Spec

-----------------------------------------------------------------------------
(* The rows of the jobs: what a step may make of one.                        *)

\* Where a row with valid output may stand.
KeptStates == {"result_ready", "waiting_capacity", "completed", "obsolete"}
Saved(r) == r.result = "good" => r.state \in KeptStates

SameTarget(r, r2) == r2.kind = r.kind /\ r2.skill = r.skill /\ r2.rev = r.rev /\ r2.seq = r.seq
Edited(r, r2) == SameTarget(r, r2) /\ r2.result = r.result

\* Output is kept, the row's target stays, and a job that ended stays ended.
Keeps(r, r2) == Saved(r) => Saved(r2) /\ (r.result = "good" => r2.result = "good")
Tame(r, r2) ==
  /\ SameTarget(r, r2)
  /\ r2.state = "absent" <=> r.state = "absent"
  /\ r2.state = "completed" <=> r.state = "completed"
  /\ Live(r2) => Live(r)
  /\ Keeps(r, r2)

LEMMA TameTwice ==
  ASSUME NEW r, NEW r1, NEW r2, Tame(r, r1), Tame(r1, r2)
  PROVE  Tame(r, r2)
BY Zenon DEF Tame, SameTarget, Keeps

\* A live row goes anywhere, if it has no valid output or keeps it.
LEMMA LiveRowMoves ==
  ASSUME NEW r, NEW r2, Live(r), Edited(r, r2), r2.state \notin {"absent", "completed"},
         r.state \notin KeptStates \/ r2.state \in KeptStates \/ r.result # "good"
  PROVE  Tame(r, r2)
BY DEF Tame, Edited, Keeps, Saved, Live

LEMMA RowStays ==
  ASSUME NEW r, NEW r2, Edited(r, r2), r2.state = r.state
  PROVE  Tame(r, r2)
BY DEF Tame, Edited, Keeps, Saved, Live

\* The ways in which the code writes a row.
LEMMA UnleasedRowKeeps ==
  ASSUME NEW r \in JobRow, NEW state
  PROVE  LET v == Unleased(r, state)
         IN  Edited(r, v) /\ v.state = state
BY SMT DEF Unleased, Leased, JobRow, Edited, SameTarget

LEMMA RequeuedRow ==
  ASSUME NEW r \in JobRow, NEW state, NEW due
  PROVE  LET v == [Unleased(r, state) EXCEPT !.due = due]
         IN  Edited(r, v) /\ v.state = state
BY SMT DEF Unleased, Leased, JobRow, Edited, SameTarget

LEMMA BlamedRow ==
  ASSUME NEW r \in JobRow, NEW state, NEW error
  PROVE  LET v == [Unleased(r, state) EXCEPT !.error = error]
         IN  Edited(r, v) /\ v.state = state
BY SMT DEF Unleased, Leased, JobRow, Edited, SameTarget

LEMMA LeasedRowKeeps ==
  ASSUME NEW r \in JobRow, NEW a
  PROVE  LET v == Leased(r, a)
         IN  Edited(r, v) /\ v.state = "running"
BY SMT DEF Unleased, Leased, JobRow, Edited, SameTarget

LEMMA TakenRow ==
  ASSUME NEW r \in JobRow, NEW a, NEW error
  PROVE  LET v == [Leased(r, a) EXCEPT !.error = error]
         IN  Edited(r, v) /\ v.state = "running"
BY SMT DEF Unleased, Leased, JobRow, Edited, SameTarget

LEMMA DueRow ==
  ASSUME NEW r \in JobRow, NEW due
  PROVE  LET v == [r EXCEPT !.due = due]
         IN  Edited(r, v) /\ v.state = r.state
BY SMT DEF Unleased, Leased, JobRow, Edited, SameTarget

LEMMA LapsedRow ==
  ASSUME NEW r \in JobRow, NEW lease
  PROVE  LET v == [r EXCEPT !.lease = lease]
         IN  Edited(r, v) /\ v.state = r.state
BY SMT DEF Unleased, Leased, JobRow, Edited, SameTarget

LEMMA AdoptedRow ==
  ASSUME NEW r \in JobRow, NEW a \in Actors
  PROVE  Adopted(r, a) \in JobRow /\ Edited(r, Adopted(r, a))
<1>1. ProviderOf[a] \in Providers
  BY ProviderAssumption
<1>2. Adopted(r, a) \in JobRow
  BY <1>1, Zenon DEF Adopted, JobRow
<1>3. Edited(r, Adopted(r, a))
  BY SMT DEF Adopted, JobRow, Edited, SameTarget
<1> QED BY <1>2, <1>3

LEMMA ClaimedRowKeeps ==
  ASSUME NEW r \in JobRow, NEW a \in Actors
  PROVE  Edited(r, Claimed(r, a)) /\ Claimed(r, a).state = "running"
<1> DEFINE q == Adopted(r, a)
<1>1. q \in JobRow /\ Edited(r, q)
  BY AdoptedRow
<1>2. Claimed(r, a) = [Leased(q, a) EXCEPT !.attempts = @ + 1, !.error = "none"]
  BY DEF Claimed
<1> HIDE DEF q
<1>3. Edited(q, Claimed(r, a)) /\ Claimed(r, a).state = "running"
  BY <1>1, <1>2, SMT DEF Leased, JobRow, Edited, SameTarget
<1> QED BY <1>1, <1>3 DEF Edited, SameTarget

LEMMA OneRowTame ==
  ASSUME NEW jb \in [Jobs -> JobRow], NEW k \in Jobs, NEW r, Tame(jb[k], r), NEW j \in Jobs
  PROVE  Tame(jb[j], [jb EXCEPT ![k] = r][j])
<1>1. CASE j = k
  BY <1>1, Zenon
<1>2. CASE j # k
  <2>1. [jb EXCEPT ![k] = r][j] = jb[j]
    BY <1>2, Zenon
  <2> QED BY <2>1, RowStays DEF Edited, SameTarget
<1> QED BY <1>1, <1>2

AllTame == \A j \in Jobs : Tame(job[j], job'[j])

LEMMA JobTypes ==
  ASSUME IInv
  PROVE  job \in [Jobs -> JobRow] /\ \A j \in Jobs : job[j] \in JobRow
BY RowTypes DEF IInv, GenOK

LEMMA NoRowMoves ==
  ASSUME IInv, job' = job
  PROVE  AllTame
BY RowStays DEF AllTame, Edited, SameTarget

LEMMA OneRowMoves ==
  ASSUME IInv, NEW k \in Jobs, NEW r, job' = [job EXCEPT ![k] = r], Tame(job[k], r)
  PROVE  AllTame
BY JobTypes, OneRowTame DEF AllTame

LEMMA RecoverTame ==
  ASSUME IInv, NEW j \in Jobs
  PROVE  Tame(job[j], RecoverJobs[j])
<1>1. job[j] \in JobRow
  BY JobTypes
<1>2. CASE ~Lapsed(job, j)
  <2>1. RecoverJobs[j] = job[j]
    BY <1>2, Zenon DEF RecoverJobs
  <2> QED BY <2>1, RowStays DEF Edited, SameTarget
<1>3. CASE Lapsed(job, j)
  <2>1. Live(job[j]) /\ job[j].state \notin KeptStates
    BY <1>3 DEF Lapsed, Live, KeptStates
  <2>2. RecoverJobs[j] \in {[Unleased(job[j], "provider_pending") EXCEPT !.due = TRUE],
                            Unleased(job[j], "queued"),
                            [Unleased(job[j], "needs_attention") EXCEPT !.error = "other"]}
    BY <1>3, Zenon DEF RecoverJobs
  <2>3. Edited(job[j], RecoverJobs[j]) /\ RecoverJobs[j].state \notin {"absent", "completed"}
    <3>1. LET v == [Unleased(job[j], "provider_pending") EXCEPT !.due = TRUE]
          IN  Edited(job[j], v) /\ v.state = "provider_pending"
      BY <1>1, RequeuedRow
    <3>2. LET v == Unleased(job[j], "queued") IN Edited(job[j], v) /\ v.state = "queued"
      BY <1>1, UnleasedRowKeeps
    <3>3. LET v == [Unleased(job[j], "needs_attention") EXCEPT !.error = "other"]
          IN  Edited(job[j], v) /\ v.state = "needs_attention"
      BY <1>1, BlamedRow
    <3> QED BY <2>2, <3>1, <3>2, <3>3
  <2> QED BY <2>1, <2>3, LiveRowMoves
<1> QED BY <1>2, <1>3

LEMMA AbandonTame ==
  ASSUME IInv, NEW S \in SUBSET ReservedClaims, AbandonReserved(S)
  PROVE  AllTame
<1> SUFFICES ASSUME NEW j \in Jobs PROVE Tame(job[j], job'[j])
  BY DEF AllTame
<1>1. job[j] \in JobRow
  BY JobTypes
<1>2. CASE j \in S
  <2>1. job'[j] = Unleased(job[j], "queued")
    BY <1>2, Zenon DEF AbandonReserved
  <2>2. Live(job[j]) /\ job[j].state \notin KeptStates
    BY <1>2 DEF ReservedClaims, Live, KeptStates
  <2>3. Edited(job[j], job'[j]) /\ job'[j].state = "queued"
    BY <1>1, <2>1, UnleasedRowKeeps
  <2> QED BY <2>2, <2>3, LiveRowMoves
<1>3. CASE j \notin S
  <2>1. job'[j] = job[j]
    BY <1>3, Zenon DEF AbandonReserved
  <2> QED BY <2>1, RowStays DEF Edited, SameTarget
<1> QED BY <1>2, <1>3

-----------------------------------------------------------------------------
(* The steps of the processes.                                               *)

LEMMA AfterRecoverTame ==
  ASSUME IInv, \A j \in Jobs : Tame(RecoverJobs[j], job'[j])
  PROVE  AllTame
BY RecoverTame, TameTwice DEF AllTame

LEMMA RecoveredRows ==
  ASSUME IInv
  PROVE  RecoverJobs \in [Jobs -> JobRow]
BY RecoverGen DEF IInv, GenStep, GenOK

LEMMA ResumeTame ==
  ASSUME IInv, NEW a \in Actors, Resume(a)
  PROVE  AllTame
<1>1. CASE job' = RecoverJobs
  BY <1>1, RecoverTame DEF AllTame
<1>2. CASE \E k \in Resumable(RecoverJobs, a) : job' = [RecoverJobs EXCEPT ![k] = Leased(@, a)]
  <2>1. PICK k \in Resumable(RecoverJobs, a) : job' = [RecoverJobs EXCEPT ![k] = Leased(@, a)]
    BY <1>2
  <2> DEFINE q == RecoverJobs[k]
             r == Leased(q, a)
  <2>2. k \in Jobs /\ q \in JobRow /\ q.state = "provider_pending"
    BY <2>1, RecoveredRows DEF Resumable
  <2>3. Edited(q, r) /\ r.state = "running"
    BY <2>2, LeasedRowKeeps
  <2>4. job' = [RecoverJobs EXCEPT ![k] = r]
    BY <2>1
  <2> HIDE DEF r
  <2>5. Tame(q, r)
    BY <2>2, <2>3, LiveRowMoves DEF Live, KeptStates
  <2>6. \A j \in Jobs : Tame(RecoverJobs[j], job'[j])
    BY <2>2, <2>4, <2>5, RecoveredRows, OneRowTame
  <2> QED BY <2>6, AfterRecoverTame
<1> QED BY <1>1, <1>2, Zenon DEF Resume

LEMMA PassingTame ==
  ASSUME NEW jb \in [Jobs -> JobRow], NEW at, NEW a \in Actors, NEW S \in SUBSET Claimable(jb),
         \A j \in S : Verdict(jb, at, j, a) # "running", NEW j \in Jobs
  PROVE  Tame(jb[j], Passing(jb, at, S, a)[j])
<1> DEFINE q == jb[j]
           verdict == Verdict(jb, at, j, a)
           r == Passing(jb, at, S, a)[j]
<1>1. CASE r = q
  BY <1>1, RowStays DEF Edited, SameTarget
<1>2. CASE j \in S /\ ~Skips(q, a)
  <2> DEFINE q1 == IF CannotSwitch(j, q, a) THEN q ELSE Adopted(q, a)
             due == verdict \notin {"waiting_budget", "waiting_capacity"}
             error == IF verdict = "obsolete" THEN StaleError(q) ELSE "other"
  <2>1. q \in JobRow /\ Live(q) /\ q.result = "none"
    BY <1>2 DEF Claimable, IdleStates, Live
  <2>2. verdict \notin {"absent", "completed"}
    <3>1. verdict \in {"running", "failed", "obsolete", "waiting_budget", "waiting_capacity"}
      BY <1>2, Zenon DEF Verdict
    <3> QED BY <3>1
  <2>3. q1 \in JobRow /\ Edited(q, q1)
    BY <2>1, AdoptedRow DEF Edited, SameTarget
  <2>4. r = [q1 EXCEPT !.state = verdict, !.due = due, !.error = error]
    BY <1>2, Zenon DEF Passing, PassedOver
  <2> HIDE DEF q1, verdict, due, error, r
  <2>5. Edited(q1, r) /\ r.state = verdict
    BY <2>3, <2>4, SMT DEF JobRow, Edited, SameTarget
  <2>6. Edited(q, r)
    BY <2>3, <2>5 DEF Edited, SameTarget
  <2>7. Tame(q, r)
    BY <2>1, <2>2, <2>5, <2>6, LiveRowMoves
  <2> QED BY <2>7 DEF r
<1>3. r = q \/ (j \in S /\ ~Skips(q, a))
  BY Zenon DEF Passing, PassedOver
<1> QED BY <1>1, <1>2, <1>3

LEMMA PassingRow ==
  ASSUME NEW jb \in [Jobs -> JobRow], NEW at, NEW a \in Actors, NEW S, NEW j \in Jobs \ S
  PROVE  Passing(jb, at, S, a)[j] = jb[j]
BY Zenon DEF Passing

LEMMA ClaimTame ==
  ASSUME IInv, NEW a \in Actors, Claim(a)
  PROVE  AllTame
<1> DEFINE jb == RecoverJobs
           at == RecoverAttempts
           rows == Claimable(jb)
           leasable == {j \in rows : Verdict(jb, at, j, a) = "running"}
<1>1. jb \in [Jobs -> JobRow]
  BY RecoveredRows
<1>2. ASSUME NEW S \in SUBSET (rows \ leasable), NEW j \in Jobs
      PROVE  Tame(jb[j], Passing(jb, at, S, a)[j])
  BY <1>1, <1>2, PassingTame
<1>3. CASE leasable = {} /\ job' = Passing(jb, at, rows, a)
  <2>1. \A j \in Jobs : Tame(jb[j], job'[j])
    BY <1>2, <1>3
  <2> QED BY <2>1, AfterRecoverTame
<1>4. CASE \E k \in leasable, S \in SUBSET (rows \ leasable) :
             job' = [Passing(jb, at, S, a) EXCEPT ![k] = Claimed(@, a)]
  <2>1. PICK k \in leasable, S \in SUBSET (rows \ leasable) :
             job' = [Passing(jb, at, S, a) EXCEPT ![k] = Claimed(@, a)]
    BY <1>4
  <2>2. k \in Jobs \ S /\ jb[k] \in JobRow /\ Live(jb[k]) /\ jb[k].result = "none"
    BY <1>1, <2>1 DEF Claimable, IdleStates, Live
  <2>3. Passing(jb, at, S, a)[k] = jb[k]
    BY <1>1, <2>2, PassingRow
  <2>4. Edited(jb[k], Claimed(jb[k], a)) /\ Claimed(jb[k], a).state = "running"
    BY <2>2, ClaimedRowKeeps
  <2>5. Tame(jb[k], Claimed(jb[k], a))
    BY <2>2, <2>4, LiveRowMoves
  <2>6. ASSUME NEW j \in Jobs PROVE Tame(jb[j], job'[j])
    <3>1. job'[j] = IF j = k THEN Claimed(jb[k], a) ELSE Passing(jb, at, S, a)[j]
      BY <2>1, <2>3, Zenon DEF Passing
    <3> QED BY <1>2, <2>1, <2>5, <3>1
  <2> QED BY <2>6, AfterRecoverTame
<1> QED BY <1>3, <1>4, Zenon DEF Claim

\* A process that owns its claim writes its row.
LEMMA OwnedRowMoves ==
  ASSUME IInv, NEW a \in Actors, NEW j \in Jobs, Owned(a, j), NEW r, Edited(job[j], r),
         r.state \notin {"absent", "completed"}, job' = [job EXCEPT ![j] = r]
  PROVE  AllTame
<1>1. Live(job[j]) /\ job[j].state \notin KeptStates
  BY DEF Owned, Live, KeptStates
<1> QED BY <1>1, LiveRowMoves, OneRowMoves

LEMMA CallingTame ==
  ASSUME IInv, NEW a \in Actors, CallingRow(a)
  PROVE  AllTame
<1> DEFINE j == actor[a].job
           q == job[j]
           verdict == CallVerdict(q, att[j][q.attempts])
           error == IF verdict = "obsolete" THEN StaleError(q) ELSE "other"
           r == [Unleased(q, verdict) EXCEPT !.due = FALSE, !.error = error]
<1>1. j \in Jobs /\ q \in JobRow
  <2>1. actor[a].pc \notin JobLess
    BY StartsAt DEF JobLess
  <2> QED BY <2>1, WorksOnJob, Zenon
<1>4. \/ job' = job
      \/ Owned(a, j) /\ verdict # "running" /\ job' = [job EXCEPT ![j] = r]
  BY Zenon DEF CallingRow, genVars
<1> HIDE DEF j
<1>2. CASE job' = job
  BY <1>2, NoRowMoves
<1>3. CASE Owned(a, j) /\ job' = [job EXCEPT ![j] = r]
  <2>1. verdict \notin {"absent", "completed"}
    <3>1. verdict \in {"running", "obsolete", "waiting_budget", "waiting_capacity"}
      BY Zenon DEF CallVerdict
    <3> QED BY <3>1
  <2> HIDE DEF verdict, error
  <2>2. Edited(q, r) /\ r.state = verdict
    BY <1>1, SMT DEF Unleased, JobRow, Edited, SameTarget
  <2> HIDE DEF r
  <2> QED BY <1>1, <1>3, <2>1, <2>2, OwnedRowMoves
<1> QED BY <1>2, <1>3, <1>4

LEMMA PollTame ==
  ASSUME IInv, NEW a \in Actors, Poll(a)
  PROVE  AllTame
<1> DEFINE j == actor[a].job
<1>1. j \in Jobs /\ job[j] \in JobRow
  BY WorksOnJob DEF Poll, JobLess
<1>2. PICK unread \in BOOLEAN : Pending(a, unread)
  BY Zenon DEF Poll
<1> DEFINE polls == Polled(att[j][job[j].attempts], unread).polls
           state == IF polls >= MaxAttempts THEN "needs_attention" ELSE "provider_pending"
           error == IF polls >= MaxAttempts THEN "other" ELSE "none"
           r == [Unleased(job[j], state) EXCEPT !.due = FALSE, !.error = error]
<1>3. Owned(a, j) /\ job' = [job EXCEPT ![j] = r]
  BY <1>2, Zenon DEF Pending, Waiting
<1>4. state \notin {"absent", "completed"}
  OBVIOUS
<1> HIDE DEF state, error
<1>5. Edited(job[j], r) /\ r.state = state
  BY <1>1, SMT DEF Unleased, JobRow, Edited, SameTarget
<1> HIDE DEF r
<1> QED BY <1>1, <1>3, <1>4, <1>5, OwnedRowMoves

LEMMA SaveResultTame ==
  ASSUME IInv, NEW a \in Actors, SaveResult(a)
  PROVE  AllTame
<1> DEFINE j == actor[a].job
           r == [Unleased(job[j], "result_ready") EXCEPT !.result = actor[a].answer]
<1>1. j \in Jobs /\ job[j] \in JobRow /\ job[j].state = "running"
  BY WorksOnJob DEF SaveResult, JobLess, Owned
<1>2. job' = [job EXCEPT ![j] = r]
  BY DEF SaveResult
<1>3. SameTarget(job[j], r) /\ r.state = "result_ready"
  BY <1>1, SMT DEF Unleased, JobRow, SameTarget
<1> HIDE DEF r
<1>4. Tame(job[j], r)
  BY <1>1, <1>3 DEF Tame, Keeps, Saved, KeptStates, Live
<1> QED BY <1>1, <1>2, <1>4, OneRowMoves

LEMMA FailTame ==
  ASSUME IInv, NEW a \in Actors, Fail(a)
  PROVE  AllTame
<1> DEFINE j == actor[a].job
           state == FailedState(job[j], actor[a].answer)
           r == [Unleased(job[j], state) EXCEPT !.due = FALSE, !.error = "other"]
<1>1. j \in Jobs /\ job[j] \in JobRow
  BY WorksOnJob DEF Fail, JobLess
<1>2. CASE job' = job
  BY <1>2, NoRowMoves
<1>3. CASE Owned(a, j) /\ job' = [job EXCEPT ![j] = r]
  <2>1. state \notin {"absent", "completed"}
    BY DEF FailedState
  <2> HIDE DEF state
  <2>2. Edited(job[j], r) /\ r.state = state
    BY <1>1, SMT DEF Unleased, JobRow, Edited, SameTarget
  <2> HIDE DEF r
  <2> QED BY <1>1, <1>3, <2>1, <2>2, OwnedRowMoves
<1> QED BY <1>2, <1>3, Zenon DEF Fail, genVars

\* Publishing completes the row.
Completes(j, q) ==
  /\ Publishes(j) /\ job' = [job EXCEPT ![j] = q]
  /\ Edited(job[j], q) /\ q.state = "completed"
  /\ revisions' = PublishedRevisions(j) /\ bank' = PublishedBank(j)

\* publish gives up only on output that is not valid or not wanted any more.
LEMMA PublishMoves ==
  ASSUME IInv, NEW a \in Actors, Publish(a)
  PROVE  \/ AllTame /\ UNCHANGED <<revisions, bank>>
         \/ \E j \in Jobs : \E q : Completes(j, q)
<1> DEFINE j == actor[a].job
           q == job[j]
           done == [q EXCEPT !.state = "completed", !.error = "none"]
           stale == [q EXCEPT !.state = "obsolete", !.error = StaleError(q)]
           bad == [q EXCEPT !.state = "failed", !.error = "other", !.due = TRUE]
           full == [q EXCEPT !.state = "waiting_capacity", !.error = "other", !.due = FALSE]
<1>1. j \in Jobs /\ q \in JobRow
  BY WorksOnJob DEF Publish, JobLess
<1>2. /\ Edited(q, done) /\ done.state = "completed"
      /\ Edited(q, stale) /\ stale.state = "obsolete"
  BY <1>1, SMT DEF JobRow, Edited, SameTarget
<1>3. /\ Edited(q, bad) /\ bad.state = "failed"
      /\ Edited(q, full) /\ full.state = "waiting_capacity"
  BY <1>1, SMT DEF JobRow, Edited, SameTarget
<1>4. \/ /\ Publishes(j) /\ job' = [job EXCEPT ![j] = done]
         /\ revisions' = PublishedRevisions(j) /\ bank' = PublishedBank(j)
      \/ /\ UNCHANGED <<revisions, bank>>
         /\ \/ job' = job
            \/ Publishable(q) /\ job' = [job EXCEPT ![j] = stale]
            \/ Publishable(q) /\ q.result = "bad" /\ job' = [job EXCEPT ![j] = bad]
            \/ Publishable(q) /\ job' = [job EXCEPT ![j] = full]
  BY Zenon DEF Publish, Withheld
<1> HIDE DEF done, stale, bad, full
<1>5. CASE /\ Publishes(j) /\ job' = [job EXCEPT ![j] = done]
           /\ revisions' = PublishedRevisions(j) /\ bank' = PublishedBank(j)
  <2>1. Completes(j, done)
    BY <1>2, <1>5 DEF Completes
  <2> QED BY <1>1, <2>1
<1>6. Publishable(q) => /\ Tame(q, stale) /\ Tame(q, full)
                        /\ (q.result = "bad" => Tame(q, bad))
  BY <1>2, <1>3, LiveRowMoves DEF Publishable, Live, KeptStates
<1> QED BY <1>1, <1>4, <1>5, <1>6, NoRowMoves, OneRowMoves

LEMMA TakeOverTame ==
  ASSUME IInv, NEW o \in Actors, TakeOver(o)
  PROVE  AllTame
<1> DEFINE j == actor[o].job
           r == [Leased(job[j], o) EXCEPT !.error = "none"]
<1>1. j \in Jobs /\ job[j] \in JobRow /\ actor[o].seen \in OpenStates
  BY WorksOnJob DEF TakeOver, IInv, ProcessesOK, ActorsOK, JobLess
<1>2. CASE job' = job
  BY <1>2, NoRowMoves
<1>3. CASE StillAsRead(o) /\ job' = [job EXCEPT ![j] = r]
  <2>1. Edited(job[j], r) /\ r.state = "running"
    BY <1>1, TakenRow
  <2> HIDE DEF r
  <2>2. Live(job[j]) /\ job[j].state \notin KeptStates
    BY <1>1, <1>3 DEF StillAsRead, OpenStates, Live, KeptStates
  <2> QED BY <1>1, <1>3, <2>1, <2>2, LiveRowMoves, OneRowMoves
<1> QED BY <1>2, <1>3, Zenon DEF TakeOver, genVars

LEMMA StepTame ==
  ASSUME IInv, NEW a \in Actors, Step(a), ~Publish(a)
  PROVE  AllTame
<1>1. CASE CallingRetired(a)
  BY <1>1, AbandonTame DEF CallingRetired
<1>2. CASE \/ StartRun(a) \/ RefuseRun(a) \/ Submit(a) \/ Generate(a) \/ Submitted(a)
           \/ Retrieve(a) \/ Unusable(a) \/ LostClaim(a)
  <2>1. job' = job
    BY <1>2, Zenon DEF StartRun, RefuseRun, Submit, Generate, Submitted, Retrieve, Unusable,
       LostClaim, storeVars, genVars
  <2> QED BY <2>1, NoRowMoves
<1> QED BY <1>1, <1>2, ResumeTame, ClaimTame, CallingTame, PollTame, SaveResultTame, FailTame,
          TakeOverTame, Zenon DEF Step, Calling

LEMMA EnvironmentTame ==
  ASSUME IInv, Environment \/ UNCHANGED vars \/ \E o \in Operators, j \in Jobs : Reconcile(o, j)
  PROVE  AllTame
<1>1. CASE job' = job
  BY <1>1, NoRowMoves
<1>2. CASE \E j \in Jobs : \/ job' = [job EXCEPT ![j] = [job[j] EXCEPT !.lease = "expired"]]
                           \/ job' = [job EXCEPT ![j] = [job[j] EXCEPT !.due = TRUE]]
  <2>1. PICK j \in Jobs : \/ job' = [job EXCEPT ![j] = [job[j] EXCEPT !.lease = "expired"]]
                          \/ job' = [job EXCEPT ![j] = [job[j] EXCEPT !.due = TRUE]]
    BY <1>2
  <2>2. /\ Tame(job[j], [job[j] EXCEPT !.lease = "expired"])
        /\ Tame(job[j], [job[j] EXCEPT !.due = TRUE])
    BY JobTypes, LapsedRow, DueRow, RowStays
  <2> QED BY <2>1, <2>2, OneRowMoves
<1>3. ASSUME NEW j \in Jobs, LeaseExpires(j) \/ ComesDue(j)
      PROVE  \/ job' = [job EXCEPT ![j] = [job[j] EXCEPT !.lease = "expired"]]
             \/ job' = [job EXCEPT ![j] = [job[j] EXCEPT !.due = TRUE]]
  BY <1>3 DEF LeaseExpires, ComesDue
<1>4. job' = job \/ \E j \in Jobs : LeaseExpires(j) \/ ComesDue(j)
  BY Zenon DEF Environment, RemoteFinishes, Crash, NextMonth, CreditExpires, Reconcile, vars,
     storeVars, genVars
<1> QED BY <1>1, <1>2, <1>3, <1>4, Zenon

-----------------------------------------------------------------------------
(* The requests: besides tame moves, a new row, and two ways to take a       *)
(* refill up again.                                                          *)

\* The refill of the current checkpoint of a skill is worked on again, in its row,
\* or gets one.
Renewed(j, q) ==
  /\ job' = [job EXCEPT ![j] = q] /\ UNCHANGED <<revisions, bank>> /\ Keeps(job[j], q)
  /\ q.kind = "refill" /\ q.state \notin {"absent", "completed"}
  /\ job[j].state # "completed"
  /\ q.skill \in Skills /\ q.seq = Len(bank[q.skill])
  /\ \/ SameTarget(job[j], q) /\ job[j].state # "absent"
     \/ /\ job[j].state = "absent"
        /\ \A k \in Jobs : ~SameCheckpoint(k, q)
        /\ \A k \in Jobs : Live(job[k]) => <<job[k].skill, job[k].rev>> # <<q.skill, q.rev>>

\* A job of another kind gets a row.
Inserted(j, q) ==
  /\ job' = [job EXCEPT ![j] = q] /\ UNCHANGED <<revisions, bank>>
  /\ job[j].state = "absent" /\ q.state # "completed"
  /\ q.kind # "refill" /\ q.result = "none" /\ q.skill \in Skills

LEMMA RefillRenews ==
  ASSUME IInv, NEW s \in Skills, NEW waited \in BOOLEAN, RequestRefill(s, RefillProvider, waited)
  PROVE  AllTame \/ \E j \in Jobs : \E q : Renewed(j, q)
<1> DEFINE new == Refill(s, RefillProvider)
<1>1. /\ new.kind = "refill" /\ new.state = "queued" /\ new.skill = s /\ new.rev = Rev(s)
      /\ new.seq = Len(bank[s]) /\ new.result = "none"
  BY SMT DEF Refill, NewRow
<1>2. UNCHANGED <<revisions, bank>>
  BY DEF RequestRefill
<1> HIDE DEF new
<1>3. CASE job' = job
  BY <1>3, NoRowMoves
<1>4. CASE \E j \in Jobs : /\ SameCheckpoint(j, new) /\ job[j].state = "obsolete"
                           /\ job' = [job EXCEPT ![j] = ResumedRefill(job[j])]
  <2>1. PICK j \in Jobs : /\ SameCheckpoint(j, new) /\ job[j].state = "obsolete"
                          /\ job' = [job EXCEPT ![j] = ResumedRefill(job[j])]
    BY <1>4
  <2> DEFINE q == ResumedRefill(job[j])
  <2>2. job[j] \in JobRow
    BY JobTypes
  <2>3. /\ SameTarget(job[j], q) /\ q.result = job[j].result
        /\ q.state = IF job[j].result = "none" THEN "queued" ELSE "result_ready"
    BY <2>2, SMT DEF ResumedRefill, JobRow, SameTarget
  <2>4. job' = [job EXCEPT ![j] = q]
    BY <2>1
  <2> HIDE DEF q
  <2>5. Keeps(job[j], q) /\ q.state \notin {"absent", "completed"}
    BY <2>3 DEF Keeps, Saved, KeptStates
  <2>6. Renewed(j, q)
    BY <1>1, <1>2, <2>1, <2>3, <2>4, <2>5 DEF Renewed, SameCheckpoint, SameTarget
  <2> QED BY <2>6
<1>5. CASE \E j \in Jobs : /\ SameCheckpoint(j, new) /\ job[j].state = "failed"
                           /\ job' = [job EXCEPT ![j] = RetriedRefill(job[j])]
  <2>1. PICK j \in Jobs : /\ SameCheckpoint(j, new) /\ job[j].state = "failed"
                          /\ job' = [job EXCEPT ![j] = RetriedRefill(job[j])]
    BY <1>5
  <2> DEFINE q == RetriedRefill(job[j])
  <2>2. job[j] \in JobRow
    BY JobTypes
  <2>3. SameTarget(job[j], q) /\ q.result = "none" /\ q.state = "queued"
    BY <2>2, SMT DEF RetriedRefill, JobRow, SameTarget
  <2>4. job' = [job EXCEPT ![j] = q]
    BY <2>1
  <2> HIDE DEF q
  <2>5. Keeps(job[j], q)
    BY <2>1, <2>3 DEF Keeps, Saved, KeptStates
  <2>6. Renewed(j, q)
    BY <1>1, <1>2, <2>1, <2>3, <2>4, <2>5 DEF Renewed, SameCheckpoint, SameTarget
  <2> QED BY <2>6
<1>6. CASE /\ ~Outstanding(new) /\ \A k \in Jobs : ~SameCheckpoint(k, new)
           /\ \E j \in Jobs : Absent(j) /\ job' = [job EXCEPT ![j] = new]
  <2>1. PICK j \in Jobs : Absent(j) /\ job' = [job EXCEPT ![j] = new]
    BY <1>6
  <2>2. \A k \in Jobs : Live(job[k]) => <<job[k].skill, job[k].rev>> # <<new.skill, new.rev>>
    BY <1>6 DEF Outstanding, SettledFailure, Live
  <2>3. Keeps(job[j], new)
    BY <1>1, <2>1 DEF Keeps, Saved, Absent, KeptStates
  <2>4. Renewed(j, new)
    BY <1>1, <1>2, <1>6, <2>1, <2>2, <2>3 DEF Renewed, Absent
  <2> QED BY <2>4
<1> QED BY <1>3, <1>4, <1>5, <1>6, Zenon DEF RequestRefill, SettledFailure, new

LEMMA NewRowInserted ==
  ASSUME NEW j \in Jobs, NEW kind \in {"manual", "draft"},
         NEW s \in Skills, NEW rev, NEW content, NEW p,
         Absent(j), job' = [job EXCEPT ![j] = NewRow(kind, s, rev, content, 0, p)],
         UNCHANGED <<revisions, bank>>
  PROVE  \E i \in Jobs : \E q : Inserted(i, q)
<1> DEFINE new == NewRow(kind, s, rev, content, 0, p)
<1>1. new.kind = kind /\ new.result = "none" /\ new.state = "queued" /\ new.skill = s
  BY SMT DEF NewRow
<1> HIDE DEF new
<1>2. Inserted(j, new)
  BY <1>1 DEF Inserted, Absent, new
<1> QED BY <1>2

LEMMA RequestMoves ==
  ASSUME IInv, Request
  PROVE  \/ AllTame
         \/ \E j \in Jobs : \E q : Renewed(j, q) \/ Inserted(j, q)
<1>1. CASE job' = job
  BY <1>1, NoRowMoves
<1>2. CASE \E j \in Jobs, s \in Skills : Enqueue(j, s, RefillProvider)
  BY <1>2, NewRowInserted DEF Enqueue, worldVars, skillVars
<1>3. CASE \E j \in Jobs, s \in Skills, c \in Contents :
             CreateSkill(j, s, c, RefillProvider) \/ EditSkill(j, s, c, RefillProvider)
  BY <1>3, NewRowInserted DEF CreateSkill, EditSkill, SaveDraft
<1>4. CASE \E j \in Jobs : DiscardSkillRequest(j)
  <2>1. PICK j \in Jobs : DiscardSkillRequest(j)
    BY <1>4
  <2> DEFINE r == [job[j] EXCEPT !.state = "obsolete", !.error = "discarded"]
  <2>2. job' = job \/ (job[j].state \in IdleStates /\ job' = [job EXCEPT ![j] = r])
    BY <2>1, Zenon DEF DiscardSkillRequest
  <2>3. job[j] \in JobRow
    BY JobTypes
  <2>4. Edited(job[j], r) /\ r.state = "obsolete"
    BY <2>3, SMT DEF JobRow, Edited, SameTarget
  <2> HIDE DEF r
  <2>5. job[j].state \in IdleStates => Tame(job[j], r)
    BY <2>4, LiveRowMoves DEF IdleStates, Live, KeptStates
  <2> QED BY <2>2, <2>5, NoRowMoves, OneRowMoves
<1>5. CASE \E s \in Skills, waited \in BOOLEAN : RequestRefill(s, RefillProvider, waited)
  BY <1>5, RefillRenews
<1>6. CASE \E s \in Skills : job' = ObsoleteIdle(s)
  <2>1. PICK s \in Skills : job' = ObsoleteIdle(s)
    BY <1>6
  <2>2. ASSUME NEW j \in Jobs PROVE Tame(job[j], job'[j])
    <3> DEFINE r == [job[j] EXCEPT !.state = "obsolete", !.error = "retired"]
    <3>1. job'[j] = job[j] \/ (job[j].state \in IdleStates /\ job'[j] = r)
      BY <2>1, Zenon DEF ObsoleteIdle
    <3>2. job[j] \in JobRow
      BY JobTypes
    <3>3. Edited(job[j], r) /\ r.state = "obsolete"
      BY <3>2, SMT DEF JobRow, Edited, SameTarget
    <3> HIDE DEF r
    <3>4. job[j].state \in IdleStates => Tame(job[j], r)
      BY <3>3, LiveRowMoves DEF IdleStates, Live, KeptStates
    <3>5. Tame(job[j], job[j])
      BY RowStays DEF Edited, SameTarget
    <3> QED BY <3>1, <3>4, <3>5
  <2> QED BY <2>2 DEF AllTame
<1>7. CASE \E size \in StoreLimits : ConfigureLimits(size)
  <2>1. ASSUME NEW j \in Jobs PROVE Tame(job[j], job'[j])
    <3>1. job'[j] = job[j] \/ job'[j] = [job[j] EXCEPT !.due = TRUE]
      BY <1>7, Zenon DEF ConfigureLimits
    <3>2. job[j] \in JobRow
      BY JobTypes
    <3>3. Edited(job[j], job'[j]) /\ job'[j].state = job[j].state
      BY <3>1, <3>2, SMT DEF JobRow, Edited, SameTarget
    <3> QED BY <3>3, RowStays
  <2> QED BY <2>1 DEF AllTame
<1>8. CASE \E j \in Jobs : ConfirmedRelease(j)
  <2>1. PICK j \in Jobs : ConfirmedRelease(j)
    BY <1>8
  <2> DEFINE r == [Unleased(job[j], "failed") EXCEPT !.error = "other", !.due = TRUE]
  <2>2. job[j].state = "needs_attention" /\ job' = [job EXCEPT ![j] = r] /\ job[j] \in JobRow
    BY <2>1, JobTypes DEF ConfirmedRelease, Release
  <2>3. Edited(job[j], r) /\ r.state = "failed"
    BY <2>2, SMT DEF Unleased, JobRow, Edited, SameTarget
  <2> HIDE DEF r
  <2>4. Tame(job[j], r)
    BY <2>2, <2>3, LiveRowMoves DEF Live, KeptStates
  <2> QED BY <2>2, <2>4, OneRowMoves
<1>9. CASE AbandonRetiredClaims
  BY <1>9, AbandonTame DEF AbandonRetiredClaims
<1>10. CASE \/ \E s \in Skills : ImportRevision(s) \/ RestoreSkill(s)
            \/ \E amount \in Limits : ConfigureBudget(amount)
            \/ RetireSource
  BY <1>1, <1>10, Zenon DEF ImportRevision, RestoreSkill, ConfigureBudget, RetireSource, genVars
<1>11. CASE \E s \in Skills : RetireSkill(s)
  BY <1>6, <1>11 DEF RetireSkill
<1> QED BY <1>2, <1>3, <1>4, <1>5, <1>7, <1>8, <1>9, <1>10, <1>11, Zenon DEF Request

\* Only publishing an output and importing a revision write the skill tables.
LEMMA NextMoves ==
  ASSUME IInv, [Next]_vars
  PROVE  \/ AllTame /\ UNCHANGED <<revisions, bank>>
         \/ job' = job /\ \E s \in Skills : ImportRevision(s)
         \/ \E j \in Jobs : \E q : Renewed(j, q) \/ Inserted(j, q) \/ Completes(j, q)
<1>1. CASE Request
  <2>1. UNCHANGED <<revisions, bank>> \/ \E t \in Skills : ImportRevision(t)
    BY <1>1, RequestTables
  <2> QED BY <1>1, <2>1, RequestMoves DEF ImportRevision, genVars
<1>2. CASE \E a \in Actors : Step(a)
  <2>1. PICK a \in Actors : Step(a)
    BY <1>2
  <2>2. CASE Publish(a)
    BY <2>2, PublishMoves
  <2>3. CASE ~Publish(a)
    BY <2>1, <2>3, StepTame, StepWorld
  <2> QED BY <2>2, <2>3
<1>3. CASE \/ UNCHANGED vars \/ \E o \in Operators, j \in Jobs : Reconcile(o, j)
           \/ Environment
  <2>1. UNCHANGED <<revisions, bank>>
    BY <1>3, OtherTables
  <2> QED BY <1>3, <2>1, EnvironmentTame
<1> QED BY <1>1, <1>2, <1>3, Zenon DEF Next

LEMMA NextRows ==
  ASSUME IInv, [Next]_vars
  PROVE  \/ AllTame
         \/ \E j \in Jobs : \E q : Renewed(j, q) \/ Inserted(j, q) \/ Completes(j, q)
BY NextMoves, NoRowMoves

-----------------------------------------------------------------------------
(* Output that was paid for.                                                 *)

OutputInv == \A j \in Jobs : Saved(job[j])

LEMMA OutputKept ==
  ASSUME IInv, OutputInv, [Next]_vars, NEW j \in Jobs
  PROVE  Saved(job'[j]) /\ (job[j].result = "good" => job'[j].result = "good")
<1>1. CASE AllTame
  BY <1>1 DEF AllTame, Tame, Keeps, OutputInv
<1>2. ASSUME NEW k \in Jobs, NEW q, Renewed(k, q) \/ Inserted(k, q) \/ Completes(k, q)
      PROVE  Saved(job'[j]) /\ (job[j].result = "good" => job'[j].result = "good")
  <2>1. job' = [job EXCEPT ![k] = q] /\ job \in [Jobs -> JobRow]
    BY <1>2, JobTypes DEF Renewed, Inserted, Completes
  <2>2. CASE j # k
    <3>1. job'[j] = job[j]
      BY <2>1, <2>2, Zenon
    <3> QED BY <3>1 DEF OutputInv
  <2>3. CASE j = k
    <3>1. job'[j] = q /\ Saved(job[j])
      BY <2>1, <2>3, Zenon DEF OutputInv
    <3> QED BY <1>2, <2>3, <3>1
            DEF Renewed, Inserted, Completes, Edited, Keeps, Saved, KeptStates
  <2> QED BY <2>2, <2>3
<1> QED BY <1>1, <1>2, NextRows

\* Valid output stays in its row until it is published, or until its skill changed,
\* was deleted or its request was discarded, for every step of every process.
THEOREM SavedSurvives == Spec => SavedResultSurvives
<1> DEFINE Survives == \A j \in Jobs :
       job[j].result = "good" =>
         /\ job'[j].result = "good"
         /\ job'[j].state \in {"result_ready", "waiting_capacity", "completed", "obsolete"}
<1>1. Init => OutputInv
  <2> SUFFICES ASSUME Init, NEW j \in Jobs PROVE Saved(job[j])
    BY DEF OutputInv
  <2>1. job[j] = NoJob
    BY DEF Init, StoreInit
  <2> QED BY <2>1 DEF NoJob, Saved
<1>2. IInv /\ OutputInv /\ [Next]_vars => OutputInv'
  BY OutputKept DEF OutputInv
<1>3. IInv /\ OutputInv /\ [Next]_vars => Survives
  BY OutputKept DEF Saved, KeptStates
<1>4. IInv /\ OutputInv /\ [Next]_vars => [Survives]_vars
  BY <1>3
<1> QED BY <1>1, <1>2, <1>4, Inductive, PTL DEF Spec, SavedResultSurvives

-----------------------------------------------------------------------------
(* Refills.                                                                  *)

IsRefill(r) == r.kind = "refill" /\ r.state # "absent"
Siblings(r, q) == IsRefill(r) /\ IsRefill(q) /\ <<r.skill, r.rev>> = <<q.skill, q.rev>>

\* A checkpoint has one refill, asked for by now, and the last refill of a revision is
\* the only one that may be live.
Dated(r) == IsRefill(r) => r.skill \in Skills /\ r.seq <= Len(bank[r.skill])
RefillInv ==
  /\ \A j \in Jobs : Dated(job[j])
  /\ \A j, k \in Jobs :
       Siblings(job[j], job[k]) =>
         /\ job[j].seq = job[k].seq => j = k
         /\ Live(job[j]) => job[k].seq <= job[j].seq

LEMMA BankGrows ==
  ASSUME SkillsOK, NEW s \in Skills, Follows(s)
  PROVE  Len(bank[s]) \in Nat /\ Len(bank'[s]) \in Nat /\ Len(bank[s]) <= Len(bank'[s])
<1>1. bank[s] \in Batches
  BY SkillTypes
<1>2. \A b \in [job : Jobs, rev : Nat] : Len(Append(bank[s], b)) = Len(bank[s]) + 1
  BY <1>1 DEF Batches
<1>3. Len(bank[s]) \in Nat
  BY <1>1 DEF Batches
<1> QED BY <1>2, <1>3 DEF Follows

LEMMA SeqTypes ==
  ASSUME IInv, NEW j \in Jobs
  PROVE  job[j].seq \in Nat
BY JobTypes, SMT DEF JobRow

LEMMA TameRefills ==
  ASSUME IInv, RefillInv, AllTame \/ \E j \in Jobs : \E q : Completes(j, q),
         \A s \in Skills : Follows(s)
  PROVE  RefillInv'
<1>1. ASSUME NEW j \in Jobs
      PROVE  /\ SameTarget(job[j], job'[j]) /\ (IsRefill(job'[j]) <=> IsRefill(job[j]))
             /\ Live(job'[j]) => Live(job[j])
  <2>1. CASE AllTame
    BY <2>1 DEF AllTame, Tame, IsRefill, SameTarget
  <2>2. CASE \E k \in Jobs : \E q : Completes(k, q)
    <3>0. PICK k \in Jobs : \E q : Completes(k, q)
      BY <2>2
    <3>1. PICK q : Completes(k, q)
      BY <3>0
    <3>2. job'[j] = IF j = k THEN q ELSE job[j]
      BY <3>1, JobTypes, Zenon DEF Completes
    <3>3. job[k].state # "absent"
      BY <3>1 DEF Completes, Publishes, Publishable
    <3> QED BY <3>1, <3>2, <3>3 DEF Completes, Edited, SameTarget, IsRefill, Live
  <2> QED BY <2>1, <2>2
<1>2. ASSUME NEW j \in Jobs PROVE Dated(job[j])'
  <2> SUFFICES ASSUME IsRefill(job'[j])
               PROVE  job'[j].skill \in Skills /\ job'[j].seq <= Len(bank'[job'[j].skill])
    BY DEF Dated, IsRefill
  <2>1. job[j].skill \in Skills /\ job[j].seq <= Len(bank[job[j].skill]) /\ job[j].seq \in Nat
    BY <1>1, SeqTypes DEF RefillInv, Dated
  <2>2. /\ Len(bank[job[j].skill]) \in Nat /\ Len(bank'[job[j].skill]) \in Nat
        /\ Len(bank[job[j].skill]) <= Len(bank'[job[j].skill])
    BY <2>1, BankGrows DEF IInv
  <2>3. job'[j].skill = job[j].skill /\ job'[j].seq = job[j].seq
    BY <1>1 DEF SameTarget
  <2> QED BY <2>1, <2>2, <2>3
<1>3. ASSUME NEW j \in Jobs, NEW k \in Jobs, Siblings(job'[j], job'[k])
      PROVE  /\ job'[j].seq = job'[k].seq => j = k
             /\ Live(job'[j]) => job'[k].seq <= job'[j].seq
  <2>1. Siblings(job[j], job[k])
    BY <1>1, <1>3 DEF Siblings, SameTarget
  <2>2. job'[j].seq = job[j].seq /\ job'[k].seq = job[k].seq
    BY <1>1 DEF SameTarget
  <2> QED BY <1>1, <2>1, <2>2 DEF RefillInv
<1> QED BY <1>2, <1>3, Zenon DEF RefillInv, Siblings, IsRefill, Live

LEMMA InsertedRefills ==
  ASSUME IInv, RefillInv, NEW i \in Jobs, NEW q, Inserted(i, q), \A s \in Skills : Follows(s)
  PROVE  RefillInv'
<1>1. /\ job'[i] = q /\ ~IsRefill(q) /\ \A j \in Jobs \ {i} : job'[j] = job[j]
  BY JobTypes, Zenon DEF Inserted, IsRefill
<1>2. ASSUME NEW j \in Jobs PROVE Dated(job[j])'
  <2> SUFFICES ASSUME IsRefill(job'[j])
               PROVE  job'[j].skill \in Skills /\ job'[j].seq <= Len(bank'[job'[j].skill])
    BY DEF Dated, IsRefill
  <2>1. job'[j] = job[j]
    BY <1>1
  <2>2. job[j].skill \in Skills /\ job[j].seq <= Len(bank[job[j].skill]) /\ job[j].seq \in Nat
    BY <2>1, SeqTypes DEF RefillInv, Dated
  <2>3. /\ Len(bank[job[j].skill]) \in Nat /\ Len(bank'[job[j].skill]) \in Nat
        /\ Len(bank[job[j].skill]) <= Len(bank'[job[j].skill])
    BY <2>2, BankGrows DEF IInv
  <2> QED BY <2>1, <2>2, <2>3
<1>3. ASSUME NEW j \in Jobs, NEW k \in Jobs, Siblings(job'[j], job'[k])
      PROVE  /\ job'[j].seq = job'[k].seq => j = k
             /\ Live(job'[j]) => job'[k].seq <= job'[j].seq
  <2>1. job'[j] = job[j] /\ job'[k] = job[k]
    BY <1>1, <1>3 DEF Siblings
  <2> QED BY <1>3, <2>1 DEF RefillInv
<1> QED BY <1>2, <1>3, Zenon DEF RefillInv, Siblings, IsRefill, Live

\* The row renewed is that of the latest checkpoint, so no sibling is later; and a new
\* row has no live sibling.
LEMMA RenewedRefills ==
  ASSUME IInv, RefillInv, NEW i \in Jobs, NEW q, Renewed(i, q)
  PROVE  RefillInv'
<1>1. /\ job'[i] = q /\ IsRefill(q) /\ bank' = bank /\ \A j \in Jobs \ {i} : job'[j] = job[j]
  BY JobTypes, Zenon DEF Renewed, IsRefill
<1>2. q.skill \in Skills /\ q.seq = Len(bank[q.skill]) /\ q.seq \in Nat
  <2>1. q.skill \in Skills /\ q.seq = Len(bank[q.skill])
    BY DEF Renewed
  <2>2. bank[q.skill] \in Batches
    BY <2>1, SkillTypes DEF IInv
  <2> QED BY <2>1, <2>2 DEF Batches
<1>3. ASSUME NEW j \in Jobs PROVE Dated(job[j])'
  <2>1. CASE j = i
    BY <1>1, <1>2, <2>1 DEF Dated, IsRefill
  <2>2. CASE j # i
    BY <1>1, <2>2 DEF RefillInv, Dated, IsRefill
  <2> QED BY <2>1, <2>2
<1>4. ASSUME NEW k \in Jobs \ {i}, Siblings(q, job[k])
      PROVE  /\ q.seq # job[k].seq /\ job[k].seq <= q.seq
             /\ Live(job[k]) => q.seq <= job[k].seq
  <2>1. job[k].seq <= q.seq /\ job[k].seq \in Nat
    BY <1>2, <1>4, SeqTypes DEF RefillInv, Dated, Siblings
  <2>2. CASE SameTarget(job[i], q) /\ job[i].state # "absent"
    <3>1. Siblings(job[i], job[k]) /\ Siblings(job[k], job[i]) /\ job[i].seq = q.seq
      BY <1>4, <2>2 DEF Siblings, IsRefill, SameTarget
    <3> QED BY <2>1, <3>1 DEF RefillInv
  <2>3. CASE /\ \A m \in Jobs : ~SameCheckpoint(m, q)
             /\ \A m \in Jobs : Live(job[m]) => <<job[m].skill, job[m].rev>> # <<q.skill, q.rev>>
    BY <1>4, <2>1, <2>3 DEF Siblings, IsRefill, SameCheckpoint
  <2> QED BY <2>2, <2>3 DEF Renewed
<1>5. ASSUME NEW j \in Jobs, NEW k \in Jobs, Siblings(job'[j], job'[k])
      PROVE  /\ job'[j].seq = job'[k].seq => j = k
             /\ Live(job'[j]) => job'[k].seq <= job'[j].seq
  <2>1. CASE j = i /\ k = i
    BY <1>1, <1>2, <2>1
  <2>2. CASE j = i /\ k # i
    BY <1>1, <1>4, <1>5, <2>2
  <2>3. CASE j # i /\ k = i
    <3>1. Siblings(q, job[j])
      BY <1>1, <1>5, <2>3 DEF Siblings
    <3> QED BY <1>1, <1>4, <2>3, <3>1
  <2>4. CASE j # i /\ k # i
    BY <1>1, <1>5, <2>4 DEF RefillInv
  <2> QED BY <2>1, <2>2, <2>3, <2>4
<1> QED BY <1>3, <1>5, Zenon DEF RefillInv, Siblings, IsRefill, Live

\* Of the refills of a description revision one works at a time, although a refill that
\* an undone deletion brings back starts without asking for the others.
THEOREM OneRefill == Spec => []OneRefillOutstanding
<1>1. Init => RefillInv
  <2> SUFFICES ASSUME Init, NEW j \in Jobs PROVE ~IsRefill(job[j])
    BY DEF RefillInv, Dated, Siblings
  <2>1. job[j] = NoJob
    BY DEF Init, StoreInit
  <2> QED BY <2>1 DEF NoJob, IsRefill
<1>2. IInv /\ RefillInv /\ [Next]_vars => RefillInv'
  BY NextRows, NextFollows, TameRefills, InsertedRefills, RenewedRefills
<1>3. IInv /\ RefillInv => OneRefillOutstanding
  <2> SUFFICES ASSUME IInv, RefillInv, NEW j \in Jobs, NEW k \in Jobs,
                      {job[j].kind, job[k].kind} = {"refill"}, Live(job[j]), Live(job[k]),
                      <<job[j].skill, job[j].rev>> = <<job[k].skill, job[k].rev>>
               PROVE  j = k
    BY DEF OneRefillOutstanding
  <2>1. job[j].kind = "refill" /\ job[k].kind = "refill"
    OBVIOUS
  <2>2. Siblings(job[j], job[k]) /\ Siblings(job[k], job[j])
    BY <2>1 DEF Siblings, IsRefill, Live
  <2>3. job[j].seq \in Nat /\ job[k].seq \in Nat
    BY SeqTypes
  <2> QED BY <2>2, <2>3 DEF RefillInv
<1> QED BY <1>1, <1>2, <1>3, Inductive, PTL DEF Spec

-----------------------------------------------------------------------------
(* Publication.                                                              *)

\* Where the output of job j is: nowhere before it is completed, then in one place of
\* the skill and revision it was requested for.
Placed(j) ==
  LET r == job[j]
  IN  \/ r.state # "completed" /\ BatchesOf(j) = {} /\ RevisionsOf(j) = {}
      \/ /\ r.state = "completed" /\ BatchesOf(j) = {}
         /\ RevisionsOf(j) = {<<r.skill, r.rev>>}
      \/ /\ r.state = "completed" /\ RevisionsOf(j) = {}
         /\ \E i \in Nat : BatchesOf(j) = {<<r.skill, i>>} /\ bank[r.skill][i].rev = r.rev

PlacesInv ==
  \A j \in Jobs : Placed(j) /\ (job[j].state # "absent" => job[j].skill \in Skills)

\* One more entry at the end of a skill's sequence.
LEMMA PlaceAdded ==
  ASSUME NEW S, NEW T \in [Skills -> Seq(S)], NEW t \in Skills, NEW x \in S,
         NEW T2, T2 = [T EXCEPT ![t] = Append(@, x)]
  PROVE  LET end == Len(T[t]) + 1
         IN  /\ end \in Nat /\ <<t, end>> \notin Places(T)
             /\ Places(T2) = Places(T) \cup {<<t, end>>} /\ T2[t][end] = x
             /\ \A p \in Places(T) : T2[p[1]][p[2]] = T[p[1]][p[2]]
<1> DEFINE end == Len(T[t]) + 1
<1>1. /\ T[t] \in Seq(S) /\ T2[t] = Append(T[t], x)
      /\ \A s \in Skills \ {t} : T2[s] = T[s]
  BY Zenon
<1>2. /\ Len(T[t]) \in Nat /\ DOMAIN T[t] = 1..Len(T[t]) /\ DOMAIN T2[t] = 1..end
      /\ T2[t][end] = x /\ \A i \in DOMAIN T[t] : T2[t][i] = T[t][i]
  BY <1>1
<1>3. end \in Nat /\ end \notin DOMAIN T[t] /\ DOMAIN T2[t] = DOMAIN T[t] \cup {end}
  BY <1>2
<1> HIDE DEF end
<1>4. \A s \in Skills : \A i : <<s, i>> \in Places(T) <=> i \in DOMAIN T[s]
  BY DEF Places
<1>5. \A s \in Skills : \A i : <<s, i>> \in Places(T2) <=> i \in DOMAIN T2[s]
  BY DEF Places
<1>6. \A p \in Places(T) : p = <<p[1], p[2]>> /\ p[1] \in Skills /\ p[2] \in DOMAIN T[p[1]]
  BY DEF Places
<1>7. \A p \in Places(T2) : p = <<p[1], p[2]>> /\ p[1] \in Skills /\ p[2] \in DOMAIN T2[p[1]]
  BY DEF Places
<1>8. \A s \in Skills : \A i : <<s, i>> \in Places(T2) <=> <<s, i>> \in Places(T) \/ (s = t /\ i = end)
  BY <1>1, <1>3, <1>4, <1>5
<1>9. Places(T2) = Places(T) \cup {<<t, end>>}
  <2>1. ASSUME NEW p \in Places(T2) PROVE p \in Places(T) \cup {<<t, end>>}
    <3>1. PICK s \in Skills : \E i \in DOMAIN T2[s] : p = <<s, i>>
      BY DEF Places
    <3>2. PICK i \in DOMAIN T2[s] : p = <<s, i>>
      BY <3>1
    <3> QED BY <3>2, <1>5, <1>8
  <2>2. ASSUME NEW p \in Places(T) PROVE p \in Places(T2)
    <3>1. PICK s \in Skills : \E i \in DOMAIN T[s] : p = <<s, i>>
      BY DEF Places
    <3>2. PICK i \in DOMAIN T[s] : p = <<s, i>>
      BY <3>1
    <3> QED BY <3>2, <1>4, <1>8
  <2>3. <<t, end>> \in Places(T2)
    BY <1>8
  <2> QED BY <2>1, <2>2, <2>3
<1>10. \A p \in Places(T) : T2[p[1]][p[2]] = T[p[1]][p[2]]
  BY <1>1, <1>2, <1>6
<1> QED BY <1>2, <1>3, <1>4, <1>9, <1>10 DEF end

\* Nothing of job j moved.
LEMMA PlacedStays ==
  ASSUME NEW j \in Jobs, Placed(j), BatchesOf(j)' = BatchesOf(j), RevisionsOf(j)' = RevisionsOf(j),
         \A p \in BatchesOf(j) : bank'[p[1]][p[2]] = bank[p[1]][p[2]],
         job'[j].state = "completed" <=> job[j].state = "completed",
         job[j].state = "completed" => SameTarget(job[j], job'[j])
  PROVE  Placed(j)'
<1>1. CASE job[j].state # "completed" /\ BatchesOf(j) = {} /\ RevisionsOf(j) = {}
  BY <1>1 DEF Placed
<1>2. CASE /\ job[j].state = "completed" /\ BatchesOf(j) = {}
           /\ RevisionsOf(j) = {<<job[j].skill, job[j].rev>>}
  BY <1>2 DEF Placed, SameTarget
<1>3. CASE /\ job[j].state = "completed" /\ RevisionsOf(j) = {}
           /\ \E i \in Nat : /\ BatchesOf(j) = {<<job[j].skill, i>>}
                             /\ bank[job[j].skill][i].rev = job[j].rev
  <2>1. PICK i \in Nat : /\ BatchesOf(j) = {<<job[j].skill, i>>}
                         /\ bank[job[j].skill][i].rev = job[j].rev
    BY <1>3
  <2>2. bank'[job[j].skill][i] = bank[job[j].skill][i]
    BY <2>1
  <2> QED BY <1>3, <2>1, <2>2 DEF Placed, SameTarget
<1> QED BY <1>1, <1>2, <1>3 DEF Placed

LEMMA SkillTables ==
  ASSUME IInv
  PROVE  revisions \in [Skills -> Revs] /\ bank \in [Skills -> Batches]
BY DEF IInv, SkillsOK, Revs, Batches

\* The tables stay, and no job completes.
LEMMA TablesStay ==
  ASSUME PlacesInv, UNCHANGED <<revisions, bank>>,
         \A j \in Jobs :
           /\ job'[j].state = "completed" <=> job[j].state = "completed"
           /\ job[j].state = "completed" => SameTarget(job[j], job'[j])
           /\ job'[j].state # "absent" => job'[j].skill \in Skills
  PROVE  PlacesInv'
<1>1. ASSUME NEW j \in Jobs
      PROVE  BatchesOf(j)' = BatchesOf(j) /\ RevisionsOf(j)' = RevisionsOf(j)
  BY DEF BatchesOf, RevisionsOf, Places
<1>2. ASSUME NEW j \in Jobs PROVE Placed(j)'
  BY <1>1, PlacedStays DEF PlacesInv
<1> QED BY <1>2 DEF PlacesInv

LEMMA RowsPlaced ==
  ASSUME IInv, PlacesInv,
         \/ AllTame /\ UNCHANGED <<revisions, bank>>
         \/ \E j \in Jobs : \E q : Renewed(j, q) \/ Inserted(j, q)
  PROVE  PlacesInv'
<1>1. CASE AllTame /\ UNCHANGED <<revisions, bank>>
  BY <1>1, TablesStay DEF AllTame, Tame, SameTarget, PlacesInv
<1>2. CASE \E j \in Jobs : \E q : Renewed(j, q) \/ Inserted(j, q)
  <2>0. PICK k \in Jobs : \E q : Renewed(k, q) \/ Inserted(k, q)
    BY <1>2
  <2>1. PICK q : Renewed(k, q) \/ Inserted(k, q)
    BY <2>0
  <2>2. /\ UNCHANGED <<revisions, bank>>
        /\ q.state # "completed" /\ job[k].state # "completed" /\ q.skill \in Skills
    BY <2>1 DEF Renewed, Inserted
  <2>3. \A j \in Jobs : job'[j] = IF j = k THEN q ELSE job[j]
    BY <2>1, JobTypes, Zenon DEF Renewed, Inserted
  <2> QED BY <2>2, <2>3, TablesStay DEF SameTarget, PlacesInv
<1> QED BY <1>1, <1>2

\* A revision joins the end of its skill's table.
LEMMA RevisionPlaced ==
  ASSUME IInv, NEW s \in Skills, NEW x \in Jobs \cup {Imported},
         revisions' = [revisions EXCEPT ![s] = Append(@, x)]
  PROVE  LET end == Len(revisions[s]) + 1
         IN  /\ Places(revisions)' = Places(revisions) \cup {<<s, end>>} /\ revisions'[s][end] = x
             /\ \A p \in Places(revisions) : revisions'[p[1]][p[2]] = revisions[p[1]][p[2]]
BY SkillTables, PlaceAdded DEF Revs, Places

LEMMA ImportPlaced ==
  ASSUME IInv, PlacesInv, NEW s \in Skills, ImportRevision(s)
  PROVE  PlacesInv'
<1>1. job' = job /\ bank' = bank /\ revisions' = [revisions EXCEPT ![s] = Append(@, Imported)]
  BY DEF ImportRevision, genVars
<1> DEFINE end == Len(revisions[s]) + 1
<1>2. /\ Places(revisions)' = Places(revisions) \cup {<<s, end>>} /\ revisions'[s][end] = Imported
      /\ \A p \in Places(revisions) : revisions'[p[1]][p[2]] = revisions[p[1]][p[2]]
  BY <1>1, RevisionPlaced
<1> HIDE DEF end
<1>3. ASSUME NEW j \in Jobs PROVE RevisionsOf(j)' = RevisionsOf(j)
  BY <1>2, SkillsAssumption DEF RevisionsOf
<1>4. ASSUME NEW j \in Jobs PROVE BatchesOf(j)' = BatchesOf(j)
  BY <1>1 DEF BatchesOf, Places
<1>5. ASSUME NEW j \in Jobs PROVE Placed(j)'
  BY <1>1, <1>3, <1>4, PlacedStays DEF PlacesInv, SameTarget
<1> QED BY <1>1, <1>5 DEF PlacesInv

\* A job's output joins its skill, and no other job's moves.
LEMMA CompletionPlaced ==
  ASSUME IInv, PlacesInv, NEW k \in Jobs, NEW q, Completes(k, q)
  PROVE  PlacesInv'
<1> DEFINE s == job[k].skill
<1>1. /\ \A j \in Jobs : job'[j] = IF j = k THEN q ELSE job[j]
      /\ job[k].state \notin {"absent", "completed"} /\ SameTarget(job[k], q)
      /\ q.state = "completed" /\ Current(job[k])
  BY JobTypes, Zenon DEF Completes, Publishes, Publishable, Edited
<1>2. s \in Skills /\ BatchesOf(k) = {} /\ RevisionsOf(k) = {} /\ job[k] \in JobRow
  BY <1>1, JobTypes DEF PlacesInv, Placed
<1>3. CASE job[k].kind = "draft"
  <2>1. bank' = bank /\ revisions' = [revisions EXCEPT ![s] = Append(@, k)]
    BY <1>3 DEF Completes, PublishedRevisions, PublishedBank
  <2> DEFINE end == Len(revisions[s]) + 1
  <2>2. /\ Places(revisions)' = Places(revisions) \cup {<<s, end>>} /\ revisions'[s][end] = k
        /\ \A p \in Places(revisions) : revisions'[p[1]][p[2]] = revisions[p[1]][p[2]]
    BY <1>2, <2>1, RevisionPlaced
  <2>3. end = job[k].rev
    <3>1. draft[s] = [rev |-> job[k].rev, content |-> job[k].content]
      BY <1>1, <1>3 DEF Current
    <3>2. draft[s] # None
      <4>1. job[k].rev \in Nat /\ job[k].content \in Contents \cup {None}
        BY <1>2, BoundsAssumption DEF JobRow
      <4> QED BY <3>1, <4>1, SkillsAssumption
    <3> QED BY <1>2, <3>1, <3>2, SkillTypes DEF IInv, Rev
  <2> HIDE DEF end
  <2>4. ASSUME NEW j \in Jobs
        PROVE  /\ RevisionsOf(j)' = IF j = k THEN {<<s, end>>} ELSE RevisionsOf(j)
               /\ BatchesOf(j)' = BatchesOf(j)
    <3>1. BatchesOf(j)' = BatchesOf(j)
      BY <2>1 DEF BatchesOf, Places
    <3>2. CASE j = k
      BY <1>2, <2>2, <3>1, <3>2 DEF RevisionsOf
    <3>3. CASE j # k
      BY <2>2, <3>1, <3>3 DEF RevisionsOf
    <3> QED BY <3>2, <3>3
  <2>5. Placed(k)'
    BY <1>1, <1>2, <2>3, <2>4 DEF Placed, SameTarget
  <2>6. ASSUME NEW j \in Jobs \ {k} PROVE Placed(j)'
    BY <1>1, <2>1, <2>4, PlacedStays DEF PlacesInv, SameTarget
  <2> QED BY <1>1, <1>2, <2>5, <2>6 DEF PlacesInv, SameTarget
<1>4. CASE job[k].kind # "draft"
  <2> DEFINE b == [job |-> k, rev |-> job[k].rev]
             end == Len(bank[s]) + 1
  <2>1. revisions' = revisions /\ bank' = [bank EXCEPT ![s] = Append(@, b)]
    BY <1>4 DEF Completes, PublishedRevisions, PublishedBank
  <2>2. b \in [job : Jobs, rev : Nat] /\ b.job = k /\ b.rev = job[k].rev
    BY <1>2, BoundsAssumption DEF JobRow
  <2> HIDE DEF b
  <2>3. /\ Places(bank)' = Places(bank) \cup {<<s, end>>} /\ bank'[s][end] = b /\ end \in Nat
        /\ \A p \in Places(bank) : bank'[p[1]][p[2]] = bank[p[1]][p[2]]
    <3> DEFINE S == [job : Jobs, rev : Nat]
    <3>1. bank \in [Skills -> Seq(S)] /\ b \in S
      BY <2>2, SkillTables DEF Batches
    <3> HIDE DEF S
    <3>2. /\ end \in Nat /\ bank'[s][end] = b
          /\ Places(bank') = Places(bank) \cup {<<s, end>>}
          /\ \A p \in Places(bank) : bank'[p[1]][p[2]] = bank[p[1]][p[2]]
      BY <1>2, <2>1, <3>1, PlaceAdded DEF Places
    <3> QED BY <3>2 DEF Places
  <2> HIDE DEF end
  <2>4. ASSUME NEW j \in Jobs
        PROVE  /\ BatchesOf(j)' = IF j = k THEN {<<s, end>>} ELSE BatchesOf(j)
               /\ RevisionsOf(j)' = RevisionsOf(j)
    <3>1. RevisionsOf(j)' = RevisionsOf(j)
      BY <2>1 DEF RevisionsOf, Places
    <3>2. CASE j = k
      BY <1>2, <2>2, <2>3, <3>1, <3>2 DEF BatchesOf
    <3>3. CASE j # k
      BY <2>2, <2>3, <3>1, <3>3 DEF BatchesOf
    <3> QED BY <3>2, <3>3
  <2>5. Placed(k)'
    BY <1>1, <1>2, <2>2, <2>3, <2>4 DEF Placed, SameTarget
  <2>6. ASSUME NEW j \in Jobs \ {k} PROVE Placed(j)'
    <3>1. \A p \in BatchesOf(j) : bank'[p[1]][p[2]] = bank[p[1]][p[2]]
      BY <2>3 DEF BatchesOf
    <3> QED BY <1>1, <2>4, <3>1, PlacedStays DEF PlacesInv, SameTarget
  <2> QED BY <1>1, <1>2, <2>5, <2>6 DEF PlacesInv, SameTarget
<1> QED BY <1>3, <1>4

\* A job's output is published once if the job completed and never otherwise, in the
\* skill and revision it was requested for, although publish runs again after a crash.
THEOREM PublishesOnce == Spec => []PublishedOnce
<1>1. Init => PlacesInv
  <2> SUFFICES ASSUME Init, NEW j \in Jobs
               PROVE  Placed(j) /\ (job[j].state # "absent" => job[j].skill \in Skills)
    BY DEF PlacesInv
  <2>1. job[j].state = "absent"
    BY DEF Init, StoreInit, NoJob
  <2>2. \A s \in Skills : bank[s] = <<>> /\ revisions[s] \in {<<>>, <<Imported>>}
    BY DEF Init, StoreInit
  <2>3. BatchesOf(j) = {}
    BY <2>2 DEF BatchesOf, Places
  <2>4. RevisionsOf(j) = {}
    <3> SUFFICES ASSUME NEW s \in Skills, NEW i \in DOMAIN revisions[s] PROVE revisions[s][i] # j
      BY DEF RevisionsOf, Places
    <3> QED BY <2>2, SkillsAssumption
  <2> QED BY <2>1, <2>3, <2>4 DEF Placed
<1>2. IInv /\ PlacesInv /\ [Next]_vars => PlacesInv'
  <2> SUFFICES ASSUME IInv, PlacesInv, [Next]_vars PROVE PlacesInv'
    OBVIOUS
  <2> QED BY NextMoves, RowsPlaced, ImportPlaced, CompletionPlaced
<1>3. PlacesInv => PublishedOnce
  <2> SUFFICES ASSUME PlacesInv, NEW j \in Jobs
               PROVE  /\ Cardinality(BatchesOf(j)) + Cardinality(RevisionsOf(j))
                           = (IF job[j].state = "completed" THEN 1 ELSE 0)
                      /\ \A p \in BatchesOf(j) : /\ p[1] = job[j].skill
                                                 /\ bank[p[1]][p[2]].rev = job[j].rev
                      /\ \A p \in RevisionsOf(j) : p = <<job[j].skill, job[j].rev>>
    BY DEF PublishedOnce
  <2>1. Cardinality({}) = 0 /\ \A x : Cardinality({x}) = 1
    BY FS_EmptySet, FS_Singleton
  <2>2. Placed(j)
    BY DEF PlacesInv
  <2>3. CASE job[j].state # "completed" /\ BatchesOf(j) = {} /\ RevisionsOf(j) = {}
    BY <2>1, <2>3
  <2>4. CASE /\ job[j].state = "completed" /\ BatchesOf(j) = {}
             /\ RevisionsOf(j) = {<<job[j].skill, job[j].rev>>}
    <3>1. Cardinality(BatchesOf(j)) = 0 /\ Cardinality(RevisionsOf(j)) = 1
      BY <2>1, <2>4
    <3> QED BY <2>4, <3>1
  <2>5. CASE /\ job[j].state = "completed" /\ RevisionsOf(j) = {}
             /\ \E i \in Nat : /\ BatchesOf(j) = {<<job[j].skill, i>>}
                               /\ bank[job[j].skill][i].rev = job[j].rev
    <3>1. Cardinality(BatchesOf(j)) = 1 /\ Cardinality(RevisionsOf(j)) = 0
      BY <2>1, <2>5
    <3> QED BY <2>5, <3>1
  <2> QED BY <2>2, <2>3, <2>4, <2>5 DEF Placed
<1> QED BY <1>1, <1>2, <1>3, Inductive, PTL DEF Spec

-----------------------------------------------------------------------------
(* The room of the store: whatever comes to count against it was asked       *)
(* whether it fits, or is named in Reinstated.                               *)

Drafted(drf) == {s \in Skills : drf[s] # None}
HeldFor(held, jb, s) == {j \in held : jb[j].skill = s}

LEMMA HeldFinite ==
  ASSUME NEW held \in SUBSET Jobs, NEW jb, NEW s
  PROVE  /\ IsFiniteSet(held) /\ Cardinality(held) \in Nat
         /\ IsFiniteSet(HeldFor(held, jb, s)) /\ Cardinality(HeldFor(held, jb, s)) \in Nat
<1>1. IsFiniteSet(held)
  BY QuotaAssumption, FS_Subset
<1>2. HeldFor(held, jb, s) \subseteq held
  BY DEF HeldFor
<1>3. IsFiniteSet(HeldFor(held, jb, s))
  BY <1>1, <1>2, FS_Subset
<1> QED BY <1>1, <1>3, FS_CardinalityType

LEMMA DraftedCount ==
  ASSUME NEW drf, NEW drf2, Drafted(drf2) \subseteq Drafted(drf)
  PROVE  /\ Cardinality(Drafted(drf)) \in Nat /\ Cardinality(Drafted(drf2)) \in Nat
         /\ Cardinality(Drafted(drf2)) <= Cardinality(Drafted(drf))
<1>1. IsFiniteSet(Drafted(drf)) /\ IsFiniteSet(Drafted(drf2))
  BY QuotaAssumption, FS_Subset DEF Drafted
<1> QED BY <1>1, FS_CardinalityType, FS_Subset

\* At most one more than before holds room, for the skill that was asked about.
LEMMA OneMoreHeld ==
  ASSUME NEW held \in SUBSET Jobs, NEW held2 \in SUBSET Jobs, NEW jb, NEW jb2,
         NEW new \in SUBSET Jobs, NEW extra,
         held2 \subseteq held \cup new, \A j \in held2 \ new : jb2[j].skill = jb[j].skill,
         \/ new = {} /\ extra = {}
         \/ \E k \in Jobs : new = {k} /\ extra = {jb2[k].skill},
         NEW s
  PROVE  /\ Cardinality(held2) <= Cardinality(held) + Cardinality(extra)
         /\ Cardinality(HeldFor(held2, jb2, s))
              <= Cardinality(HeldFor(held, jb, s)) + Cardinality(extra \cap {s})
         /\ Cardinality(extra) \in Nat /\ Cardinality(extra \cap {s}) \in Nat
<1> DEFINE own == HeldFor(held, jb, s)
           own2 == HeldFor(held2, jb2, s)
<1>1. /\ IsFiniteSet(held) /\ Cardinality(held) \in Nat
      /\ IsFiniteSet(own) /\ Cardinality(own) \in Nat
      /\ Cardinality(held2) \in Nat /\ Cardinality(own2) \in Nat
  BY HeldFinite
<1>2. Cardinality({}) = 0 /\ \A x : Cardinality({x}) = 1
  BY FS_EmptySet, FS_Singleton
<1>3. own2 \subseteq own \cup {j \in new : jb2[j].skill = s}
  BY DEF HeldFor
<1>4. CASE new = {} /\ extra = {}
  <2>1. held2 \subseteq held /\ own2 \subseteq own /\ extra \cap {s} = {}
    BY <1>3, <1>4
  <2>2. Cardinality(held2) <= Cardinality(held) /\ Cardinality(own2) <= Cardinality(own)
    BY <1>1, <2>1, FS_Subset
  <2> HIDE DEF own, own2
  <2> QED BY <1>1, <1>2, <1>4, <2>1, <2>2 DEF own, own2
<1>5. ASSUME NEW k \in Jobs, new = {k}, extra = {jb2[k].skill}
      PROVE  /\ Cardinality(held2) <= Cardinality(held) + Cardinality(extra)
             /\ Cardinality(own2) <= Cardinality(own) + Cardinality(extra \cap {s})
             /\ Cardinality(extra) \in Nat /\ Cardinality(extra \cap {s}) \in Nat
  <2>1. \A S : IsFiniteSet(S) /\ Cardinality(S) \in Nat
                 => /\ IsFiniteSet(S \cup {k})
                    /\ Cardinality(S \cup {k}) <= Cardinality(S) + 1
    <3> SUFFICES ASSUME NEW S, IsFiniteSet(S), Cardinality(S) \in Nat
                 PROVE  /\ IsFiniteSet(S \cup {k})
                        /\ Cardinality(S \cup {k}) <= Cardinality(S) + 1
      OBVIOUS
    <3>1. /\ IsFiniteSet(S \cup {k})
          /\ \/ Cardinality(S \cup {k}) = Cardinality(S)
             \/ Cardinality(S \cup {k}) = Cardinality(S) + 1
      BY FS_AddElement
    <3> QED BY <3>1
  <2>2. IsFiniteSet(held \cup {k}) /\ Cardinality(held \cup {k}) <= Cardinality(held) + 1
    BY <1>1, <2>1
  <2>3. Cardinality(held2) <= Cardinality(held \cup {k}) /\ Cardinality(held \cup {k}) \in Nat
    BY <1>5, <2>2, FS_Subset, FS_CardinalityType
  <2>4. Cardinality(extra) = 1
    BY <1>2, <1>5
  <2>5. CASE jb2[k].skill = s
    <3>1. extra \cap {s} = {s} /\ own2 \subseteq own \cup {k}
      BY <1>3, <1>5, <2>5
    <3>2. IsFiniteSet(own \cup {k}) /\ Cardinality(own \cup {k}) <= Cardinality(own) + 1
      BY <1>1, <2>1
    <3>3. Cardinality(own2) <= Cardinality(own \cup {k}) /\ Cardinality(own \cup {k}) \in Nat
      BY <3>1, <3>2, FS_Subset, FS_CardinalityType
    <3>4. Cardinality(extra \cap {s}) = 1
      BY <1>2, <3>1
    <3> HIDE DEF own, own2
    <3> QED BY <1>1, <2>2, <2>3, <2>4, <3>2, <3>3, <3>4
  <2>6. CASE jb2[k].skill # s
    <3>1. extra \cap {s} = {} /\ own2 \subseteq own
      BY <1>3, <1>5, <2>6
    <3>2. Cardinality(own2) <= Cardinality(own) /\ Cardinality(extra \cap {s}) = 0
      BY <1>1, <1>2, <3>1, FS_Subset
    <3> HIDE DEF own, own2
    <3> QED BY <1>1, <2>2, <2>3, <2>4, <3>2
  <2> QED BY <2>5, <2>6
<1> QED BY <1>4, <1>5

\* What fits still fits with fewer claims and drafts, and with one more claim if that
\* was asked about.
LEMMA StillFits ==
  ASSUME SkillsOK', storeLimit \in Nat, NEW drf, NEW jb, NEW X,
         NEW new \in SUBSET Jobs, NEW extra,
         Reserving(revisions', draft', job', {}) \subseteq Reserving(revisions', drf, jb, X) \cup new,
         \A j \in Reserving(revisions', draft', job', {}) \ new : job'[j].skill = jb[j].skill,
         \/ new = {} /\ extra = {}
         \/ \E k \in Jobs : new = {k} /\ extra = {job'[k].skill},
         Drafted(draft') \subseteq Drafted(drf),
         ~TooLarge(revisions', bank', drf, jb, X, extra)
  PROVE  ~TooLarge(revisions', bank', draft', job', {}, {})
<1> DEFINE held == Reserving(revisions', drf, jb, X)
           held2 == Reserving(revisions', draft', job', {})
           published == [s \in Skills |-> Len(revisions'[s]) + Len(bank'[s])]
           total == SumFunctionOnSet(published, Skills)
<1>1. held \in SUBSET Jobs /\ held2 \in SUBSET Jobs
  BY DEF Reserving
<1>2. published \in [Skills -> Nat]
  BY DEF SkillsOK
<1>3. total \in Nat
  BY <1>2, SumType, QuotaAssumption
<1>4. /\ Cardinality(Drafted(drf)) \in Nat /\ Cardinality(Drafted(draft')) \in Nat
      /\ Cardinality(Drafted(draft')) <= Cardinality(Drafted(drf))
  BY DraftedCount
<1>5. /\ ~(total + Cardinality(Drafted(drf)) + Cardinality(held) + Cardinality(extra) > storeLimit)
      /\ \A s \in Skills : ~(BankSize(revisions', bank', s) + Cardinality(HeldFor(held, jb, s))
                               + Cardinality(extra \cap {s}) > MaxBank)
  BY Zenon DEF TooLarge, Drafted, HeldFor
<1>6. SUFFICES
      /\ ~(total + Cardinality(Drafted(draft')) + Cardinality(held2) + Cardinality({}) > storeLimit)
      /\ \A s \in Skills : ~(BankSize(revisions', bank', s) + Cardinality(HeldFor(held2, job', s))
                               + Cardinality({} \cap {s}) > MaxBank)
  BY Zenon DEF TooLarge, Drafted, HeldFor
<1>7. ASSUME NEW s \in Skills PROVE BankSize(revisions', bank', s) \in Nat
  <2> DEFINE latest == {i \in 1..Len(bank'[s]) : bank'[s][i].rev = Len(revisions'[s])}
  <2>1. Len(bank'[s]) \in Nat
    BY DEF SkillsOK
  <2>2. IsFiniteSet(1..Len(bank'[s]))
    BY <2>1, FS_Interval
  <2>3. latest \subseteq 1..Len(bank'[s])
    OBVIOUS
  <2> HIDE DEF latest
  <2>4. IsFiniteSet(latest)
    BY <2>2, <2>3, FS_Subset
  <2>5. Cardinality(latest) \in Nat
    BY <2>4, FS_CardinalityType
  <2> QED BY <2>5 DEF BankSize, latest
<1>8. MaxBank \in Nat /\ Cardinality({}) = 0
  BY BoundsAssumption, FS_EmptySet
<1>9. ASSUME NEW s
      PROVE  /\ Cardinality(held2) <= Cardinality(held) + Cardinality(extra)
             /\ Cardinality(HeldFor(held2, job', s))
                  <= Cardinality(HeldFor(held, jb, s)) + Cardinality(extra \cap {s})
             /\ Cardinality(extra) \in Nat /\ Cardinality(extra \cap {s}) \in Nat
  <2>1. held2 \subseteq held \cup new /\ \A j \in held2 \ new : job'[j].skill = jb[j].skill
    OBVIOUS
  <2> HIDE DEF held, held2
  <2> QED BY <1>1, <2>1, OneMoreHeld
<1>10. Cardinality(held2) <= Cardinality(held) + Cardinality(extra) /\ Cardinality(extra) \in Nat
  BY <1>9
<1>11. /\ Cardinality(held) \in Nat /\ Cardinality(held2) \in Nat
       /\ \A s : /\ Cardinality(HeldFor(held, jb, s)) \in Nat
                 /\ Cardinality(HeldFor(held2, job', s)) \in Nat
  BY <1>1, HeldFinite
<1> HIDE DEF held, held2, total
<1>12. ~(total + Cardinality(Drafted(draft')) + Cardinality(held2) + Cardinality({}) > storeLimit)
  BY <1>3, <1>4, <1>5, <1>8, <1>10, <1>11
<1>13. ASSUME NEW s \in Skills
       PROVE  ~(BankSize(revisions', bank', s) + Cardinality(HeldFor(held2, job', s))
                  + Cardinality({} \cap {s}) > MaxBank)
  <2>1. {} \cap {s} = {}
    OBVIOUS
  <2> QED BY <1>5, <1>7, <1>8, <1>9, <1>11, <2>1
<1> QED BY <1>12, <1>13

\* A row takes up room it did not hold only as its job is resumed.
Enters(r, r2) == HoldsRoom(r2) => HoldsRoom(r) \/ r.state \in {"obsolete", "needs_attention"}
NoneEnters ==
  \A j \in Jobs :
    /\ Enters(job[j], job'[j])
    /\ HoldsRoom(job[j]) /\ HoldsRoom(job'[j]) => SameTarget(job[j], job'[j])

\* Steps that write no revision or batch and make no draft.
LEMMA NoneEntersFits ==
  ASSUME IInv, SkillsOK', NoneEnters, UNCHANGED <<revisions, bank>>,
         Drafted(draft') \subseteq Drafted(draft), Reinstated = {}, ~TooLargeWithDrafts(job)
  PROVE  ~TooLarge(revisions', bank', draft', job', {}, {})
<1> DEFINE held2 == Reserving(revisions', draft', job', {})
<1>1. storeLimit \in Nat
  BY BoundsAssumption DEF IInv, SettingsOK
<1>2. Reserved' = held2
  BY DEF Reserved, Reserving, HoldsRoom
<1>3. ASSUME NEW j \in held2
      PROVE  j \in Reserving(revisions', draft, job, {}) /\ job'[j].skill = job[j].skill
  <2>1. /\ j \in Jobs /\ HoldsRoom(job'[j]) /\ job'[j].kind # "draft"
        /\ draft'[job'[j].skill] = None /\ job'[j].rev = Len(revisions'[job'[j].skill])
    BY <1>3 DEF Reserving
  <2>2. job[j].state \notin {"obsolete", "needs_attention"}
    BY <1>2, <1>3, <2>1 DEF Reinstated
  <2>3. HoldsRoom(job[j])
    BY <2>1, <2>2 DEF NoneEnters, Enters
  <2>4. SameTarget(job[j], job'[j])
    BY <2>1, <2>3 DEF NoneEnters
  <2>5. draft[job[j].skill] = None
    BY <1>2, <1>3, <2>1, <2>3 DEF Reinstated
  <2> QED BY <2>1, <2>3, <2>4, <2>5 DEF SameTarget, Reserving
<1>4. ~TooLarge(revisions', bank', draft, job, {}, {})
  BY DEF TooLargeWithDrafts
<1>5. held2 \subseteq Reserving(revisions', draft, job, {}) \cup {}
  BY <1>3
<1>6. \A j \in held2 \ {} : job'[j].skill = job[j].skill
  BY <1>3
<1>7. {} \in SUBSET Jobs
  OBVIOUS
<1> HIDE DEF held2
<1> QED BY <1>1, <1>4, <1>5, <1>6, <1>7, StillFits, Zenon DEF held2

LEMMA RowSettled ==
  ASSUME NEW r, NEW r2, r.state \in OpenStates \cup {"obsolete"} \/ ~HoldsRoom(r2)
  PROVE  Enters(r, r2)
BY DEF Enters, HoldsRoom, OpenStates

LEMMA StaysIn ==
  ASSUME NEW r, NEW r2, Edited(r, r2), r2.state = r.state
  PROVE  Enters(r, r2)
BY DEF Enters, HoldsRoom, Edited

LEMMA OneRowEnters ==
  ASSUME job \in [Jobs -> JobRow], NEW k \in Jobs, NEW q, job' = [job EXCEPT ![k] = q],
         Enters(job[k], q), NEW j \in Jobs
  PROVE  Enters(job[j], job'[j])
<1>1. job'[j] = IF j = k THEN q ELSE job[j]
  BY Zenon
<1> QED BY <1>1 DEF Enters

\* Rows keep their target while they hold room.
LEMMA TargetsKept ==
  ASSUME IInv, AllTame \/ \E j \in Jobs : \E q : Renewed(j, q) \/ Inserted(j, q),
         \A j \in Jobs : Enters(job[j], job'[j])
  PROVE  NoneEnters
<1>1. CASE AllTame
  BY <1>1 DEF AllTame, Tame, NoneEnters
<1>2. ASSUME NEW k \in Jobs, NEW q, Renewed(k, q) \/ Inserted(k, q), NEW j \in Jobs, HoldsRoom(job[j])
      PROVE  SameTarget(job[j], job'[j])
  <2>1. job'[j] = IF j = k THEN q ELSE job[j]
    BY <1>2, JobTypes, Zenon DEF Renewed, Inserted
  <2>2. j = k => job[k].state # "absent"
    BY <1>2 DEF HoldsRoom
  <2> QED BY <1>2, <2>1, <2>2 DEF Renewed, Inserted, SameTarget
<1> QED BY <1>1, <1>2 DEF NoneEnters

\* Only publishing an output lets a process write a draft, and only a claim takes up room.
LEMMA StepEnters ==
  ASSUME IInv, NEW a \in Actors, Step(a), ~Publish(a), ~Claim(a), NEW j \in Jobs
  PROVE  Enters(job[j], job'[j])
<1>1. CASE job' = job
  BY <1>1 DEF Enters
<1>2. CASE Resume(a)
  <2>1. job'[j] = RecoverJobs[j] \/ RecoverJobs[j].state = "provider_pending"
    BY <1>2, RecoveredRows, Zenon DEF Resume, Resumable
  <2>2. RecoverJobs[j] = job[j] \/ job[j].state = "running"
    BY Zenon DEF RecoverJobs, Lapsed
  <2> QED BY <2>1, <2>2 DEF Enters, HoldsRoom
<1>3. CASE CallingRow(a)
  <2> DEFINE k == actor[a].job
  <2>1. k \in Jobs
    BY <1>3, StartsAt, WorksOnJob DEF JobLess
  <2>2. job' = job \/ (job[k].state = "running" /\ \E q : job' = [job EXCEPT ![k] = q])
    BY <1>3, Zenon DEF CallingRow, genVars, Owned
  <2> QED BY <1>1, <2>1, <2>2, JobTypes, OneRowEnters, RowSettled DEF OpenStates
<1>4. CASE CallingRetired(a)
  <2>1. job'[j] = job[j] \/ job[j].state = "running"
    BY <1>4, Zenon DEF CallingRetired, AbandonReserved, ReservedClaims
  <2> QED BY <2>1 DEF Enters, HoldsRoom
<1>5. CASE Poll(a) \/ SaveResult(a) \/ Fail(a)
  <2> DEFINE k == actor[a].job
  <2>1. k \in Jobs
    BY <1>5, StartsAt, WorksOnJob DEF JobLess
  <2>2. job' = job \/ (job[k].state = "running" /\ \E q : job' = [job EXCEPT ![k] = q])
    BY <1>5, Zenon DEF Poll, Pending, SaveResult, Fail, genVars, Owned
  <2> QED BY <1>1, <2>1, <2>2, JobTypes, OneRowEnters, RowSettled DEF OpenStates
<1>6. CASE TakeOver(a)
  <2> DEFINE k == actor[a].job
  <2>1. k \in Jobs /\ actor[a].seen \in OpenStates
    BY <1>6, WorksOnJob DEF TakeOver, IInv, ProcessesOK, ActorsOK, JobLess
  <2>2. job' = job \/ (job[k].state \in OpenStates /\ \E q : job' = [job EXCEPT ![k] = q])
    BY <1>6, <2>1, Zenon DEF TakeOver, StillAsRead, genVars
  <2> QED BY <1>1, <2>1, <2>2, JobTypes, OneRowEnters, RowSettled
<1>7. CASE \/ StartRun(a) \/ RefuseRun(a) \/ Submit(a) \/ Generate(a) \/ Submitted(a)
           \/ Retrieve(a) \/ Unusable(a) \/ LostClaim(a)
  <2>1. job' = job
    BY <1>7, Zenon DEF StartRun, RefuseRun, Submit, Generate, Submitted, Retrieve, Unusable,
       LostClaim, storeVars, genVars
  <2> QED BY <1>1, <2>1
<1> QED BY <1>2, <1>3, <1>4, <1>5, <1>6, <1>7, Zenon DEF Step, Calling

LEMMA StepFits ==
  ASSUME IInv, SkillsOK', NEW a \in Actors, Step(a), ~Publish(a), ~Claim(a),
         Reinstated = {}, ~TooLargeWithDrafts(job)
  PROVE  ~TooLarge(revisions', bank', draft', job', {}, {})
<1>1. NoneEnters
  BY StepEnters, StepTame, TargetsKept
<1>2. UNCHANGED <<revisions, bank, draft>>
  BY StepWorld DEF worldVars, skillVars
<1> QED BY <1>1, <1>2, NoneEntersFits

\* Looking at a row without leasing it takes up no room.
LEMMA PassingEnters ==
  ASSUME NEW jb \in [Jobs -> JobRow], NEW at, NEW a \in Actors, NEW S \in SUBSET Claimable(jb),
         \A j \in S : Verdict(jb, at, j, a) # "running", NEW j \in Jobs,
         HoldsRoom(Passing(jb, at, S, a)[j])
  PROVE  HoldsRoom(jb[j])
<1> DEFINE q == jb[j]
           verdict == Verdict(jb, at, j, a)
           r == Passing(jb, at, S, a)[j]
<1>1. CASE r = q
  BY <1>1
<1>2. CASE j \in S /\ ~Skips(q, a)
  <2> DEFINE q1 == IF CannotSwitch(j, q, a) THEN q ELSE Adopted(q, a)
             due == verdict \notin {"waiting_budget", "waiting_capacity"}
             error == IF verdict = "obsolete" THEN StaleError(q) ELSE "other"
  <2>1. q \in JobRow /\ q.result = "none"
    BY <1>2 DEF Claimable
  <2>2. verdict \in {"failed", "obsolete", "waiting_budget", "waiting_capacity"}
    <3>1. verdict \in {"running", "failed", "obsolete", "waiting_budget", "waiting_capacity"}
      BY <1>2, Zenon DEF Verdict
    <3> QED BY <1>2, <3>1
  <2>3. q1 \in JobRow /\ Edited(q, q1)
    BY <2>1, AdoptedRow DEF Edited, SameTarget
  <2>4. r = [q1 EXCEPT !.state = verdict, !.due = due, !.error = error]
    BY <1>2, Zenon DEF Passing, PassedOver
  <2> HIDE DEF q1, verdict, due, error, r
  <2>5. Edited(q1, r) /\ r.state = verdict
    BY <2>3, <2>4, SMT DEF JobRow, Edited, SameTarget
  <2>6. ~HoldsRoom(r)
    BY <2>1, <2>2, <2>3, <2>5 DEF HoldsRoom, Edited
  <2> QED BY <2>6 DEF r
<1>3. r = q \/ (j \in S /\ ~Skips(q, a))
  BY Zenon DEF Passing, PassedOver
<1> QED BY <1>1, <1>2, <1>3

LEMMA RecoverEnters ==
  ASSUME NEW j \in Jobs, HoldsRoom(RecoverJobs[j])
  PROVE  HoldsRoom(job[j])
<1>1. RecoverJobs[j] = job[j] \/ job[j].state = "running"
  BY Zenon DEF RecoverJobs, Lapsed
<1> QED BY <1>1 DEF HoldsRoom

\* A claim asks whether one more batch of the skill fits, or takes the draft's room.
LEMMA ClaimFits ==
  ASSUME IInv, SkillsOK', NEW a \in Actors, Claim(a), Reinstated = {}, ~TooLargeWithDrafts(job)
  PROVE  ~TooLarge(revisions', bank', draft', job', {}, {})
<1> DEFINE jb == RecoverJobs
           at == RecoverAttempts
           rows == Claimable(jb)
           leasable == {j \in rows : Verdict(jb, at, j, a) = "running"}
<1>1. jb \in [Jobs -> JobRow]
  BY RecoveredRows
<1>2. UNCHANGED <<revisions, bank, draft, storeLimit>>
  BY Zenon DEF Claim, worldVars, skillVars, configVars
<1>3. storeLimit \in Nat
  BY BoundsAssumption DEF IInv, SettingsOK
<1>4. CASE leasable = {} /\ job' = Passing(jb, at, rows, a)
  <2>1. ASSUME NEW j \in Jobs PROVE Enters(job[j], job'[j])
    BY <1>1, <1>4, PassingEnters, RecoverEnters DEF Enters
  <2>2. NoneEnters
    BY <2>1, ClaimTame, TargetsKept
  <2> QED BY <1>2, <2>2, NoneEntersFits
<1>5. CASE \E k \in leasable, S \in SUBSET (rows \ leasable) :
             job' = [Passing(jb, at, S, a) EXCEPT ![k] = Claimed(@, a)]
  <2>1. PICK k \in leasable, S \in SUBSET (rows \ leasable) :
             job' = [Passing(jb, at, S, a) EXCEPT ![k] = Claimed(@, a)]
    BY <1>5
  <2>2. k \in Jobs \ S /\ jb[k] \in JobRow
    BY <1>1, <2>1 DEF Claimable
  <2>3. Passing(jb, at, S, a)[k] = jb[k]
    BY <1>1, <2>2, PassingRow
  <2>4. Edited(jb[k], Claimed(jb[k], a))
    BY <2>2, ClaimedRowKeeps
  <2>5. \A j \in Jobs :
          job'[j] = IF j = k THEN Claimed(jb[k], a) ELSE Passing(jb, at, S, a)[j]
    BY <2>1, <2>3, Zenon DEF Passing
  <2>6. ~NoRoom(jb, jb[k])
    <3>1. Verdict(jb, at, k, a) = "running" /\ ~Skips(jb[k], a)
      <4>1. Verdict(jb, at, k, a) = "running" /\ jb[k].state # "running"
        BY <2>1 DEF Claimable, IdleStates
      <4> QED BY <4>1, Zenon DEF Verdict
    <3> QED BY <3>1 DEF Verdict
  <2> DEFINE new == IF jb[k].kind = "draft" THEN {} ELSE {k}
             extra == IF jb[k].kind = "draft" THEN {} ELSE {jb[k].skill}
             held2 == Reserving(revisions', draft', job', {})
  <2>7. ASSUME NEW j \in held2, j \notin new
        PROVE  j \in Reserving(revisions', draft, jb, {}) /\ job'[j].skill = jb[j].skill
    <3>1. /\ j \in Jobs /\ HoldsRoom(job'[j]) /\ job'[j].kind # "draft"
          /\ draft'[job'[j].skill] = None /\ job'[j].rev = Len(revisions'[job'[j].skill])
      BY <2>7 DEF Reserving
    <3>2. j # k
      BY <2>4, <2>5, <2>7, <3>1 DEF Edited, SameTarget
    <3>3. job'[j] = Passing(jb, at, S, a)[j]
      BY <2>5, <3>1, <3>2
    <3>4. S \in SUBSET Claimable(jb) /\ \A i \in S : Verdict(jb, at, i, a) # "running"
      BY <2>1
    <3>5. HoldsRoom(jb[j])
      BY <1>1, <3>1, <3>3, <3>4, PassingEnters
    <3>6. SameTarget(jb[j], job'[j])
      BY <1>1, <3>1, <3>3, <3>4, PassingTame DEF Tame
    <3> QED BY <1>2, <3>1, <3>5, <3>6 DEF SameTarget, Reserving
  <2>8. ~TooLarge(revisions', bank', draft, jb, {}, extra)
    BY <1>2, <2>6 DEF NoRoom, TooLargeWithDrafts, HasBatchCapacity
  <2>9. \/ new = {} /\ extra = {}
        \/ \E i \in Jobs : new = {i} /\ extra = {job'[i].skill}
    BY <2>2, <2>4, <2>5 DEF Edited, SameTarget
  <2>10. new \in SUBSET Jobs
    BY <2>2
  <2>11. /\ held2 \subseteq Reserving(revisions', draft, jb, {}) \cup new
         /\ \A j \in held2 \ new : job'[j].skill = jb[j].skill
    BY <2>7
  <2>12. Drafted(draft') \subseteq Drafted(draft)
    BY <1>2
  <2> HIDE DEF new, extra, held2, jb
  <2> QED BY <1>3, <2>8, <2>9, <2>10, <2>11, <2>12, StillFits, Zenon DEF held2
<1> QED BY <1>4, <1>5, Zenon DEF Claim

\* Publishing asks about the tables as they will be, with the job's own row left out.
LEMMA PublishFits ==
  ASSUME IInv, SkillsOK', NEW a \in Actors, Publish(a), Reinstated = {},
         ~TooLargeWithDrafts(job)
  PROVE  ~TooLarge(revisions', bank', draft', job', {}, {})
<1> DEFINE k == actor[a].job
           held2 == Reserving(revisions', draft', job', {})
<1>1. k \in Jobs /\ job \in [Jobs -> JobRow]
  BY WorksOnJob, JobTypes DEF Publish, JobLess
<1>2. storeLimit \in Nat
  BY BoundsAssumption DEF IInv, SettingsOK
<1>3. CASE Publishes(k)
  <2>1. /\ revisions' = PublishedRevisions(k) /\ bank' = PublishedBank(k)
        /\ draft' = PublishedDraft(k)
        /\ job' = [job EXCEPT ![k] = [@ EXCEPT !.state = "completed", !.error = "none"]]
    BY <1>3, Zenon DEF Publish
  <2>2. ~TooLarge(revisions', bank', draft', job, {k}, {})
    BY <1>3, <2>1 DEF Publishes, NoRoomLeft
  <2>3. ASSUME NEW j \in held2
        PROVE  j \in Reserving(revisions', draft', job, {k}) /\ job'[j].skill = job[j].skill
    <3>1. j \in Jobs /\ HoldsRoom(job'[j])
      BY <2>3 DEF Reserving
    <3>2. j # k
      <4>1. job[k] \in JobRow /\ job'[k] = [job[k] EXCEPT !.state = "completed", !.error = "none"]
        BY <1>1, <2>1
      <4>2. job'[k].state = "completed"
        BY <4>1 DEF JobRow
      <4> QED BY <3>1, <4>2 DEF HoldsRoom
    <3>3. job'[j] = job[j]
      BY <1>1, <2>1, <3>1, <3>2, Zenon
    <3> QED BY <2>3, <3>2, <3>3 DEF Reserving
  <2>4. /\ held2 \subseteq Reserving(revisions', draft', job, {k}) \cup {}
        /\ \A j \in held2 \ {} : job'[j].skill = job[j].skill
    BY <2>3
  <2>5. {} \in SUBSET Jobs /\ Drafted(draft') \subseteq Drafted(draft')
    OBVIOUS
  <2> HIDE DEF held2
  <2> QED BY <1>2, <2>2, <2>4, <2>5, StillFits, Zenon DEF held2
<1>4. CASE ~Publishes(k)
  <2>1. /\ UNCHANGED <<revisions, bank, draft>>
        /\ job' = job \/ (Publishable(job[k]) /\ job' = [job EXCEPT ![k] = Withheld(k)])
    BY <1>4, Zenon DEF Publish
  <2>2. AllTame
    <3>1. ASSUME NEW j \in Jobs, NEW q, Completes(j, q) PROVE FALSE
      <4>1. job[j].state # "completed" /\ q.state = "completed" /\ job'[j] = q /\ Publishes(j)
        BY <1>1, <3>1 DEF Completes, Publishes, Publishable
      <4>2. j = k
        BY <1>1, <2>1, <4>1, Zenon
      <4> QED BY <1>4, <4>1, <4>2
    <3> QED BY <3>1, PublishMoves
  <2>3. ASSUME NEW j \in Jobs PROVE Enters(job[j], job'[j])
    <3>1. job'[j] = job[j] \/ Publishable(job[j])
      BY <1>1, <2>1, Zenon
    <3> QED BY <3>1 DEF Enters, HoldsRoom, Publishable
  <2>4. NoneEnters
    BY <2>2, <2>3, TargetsKept
  <2> QED BY <2>1, <2>4, NoneEntersFits
<1> QED BY <1>3, <1>4

\* A draft is made and a revision imported only if that fits.
LEMMA DraftFits ==
  ASSUME IInv, SkillsOK', NEW j \in Jobs, NEW s \in Skills, NEW c \in Contents,
         SaveDraft(j, s, c, RefillProvider)
  PROVE  ~TooLarge(revisions', bank', draft', job', {}, {})
<1> DEFINE new == NewRow("draft", s, Rev(s) + 1, c, 0, RefillProvider)
           held2 == Reserving(revisions', draft', job', {})
<1>1. /\ UNCHANGED <<revisions, bank>> /\ job' = [job EXCEPT ![j] = new]
      /\ ~TooLarge(revisions, bank, draft', job, {}, {})
  BY DEF SaveDraft
<1>2. storeLimit \in Nat
  BY BoundsAssumption DEF IInv, SettingsOK
<1>3. new.state = "queued"
  BY SMT DEF NewRow
<1> HIDE DEF new
<1>4. ASSUME NEW i \in held2
      PROVE  i \in Reserving(revisions', draft', job, {}) /\ job'[i].skill = job[i].skill
  <2>1. i \in Jobs /\ HoldsRoom(job'[i])
    BY <1>4 DEF Reserving
  <2>2. job'[i] = IF i = j THEN new ELSE job[i]
    BY <1>1, <2>1, JobTypes, Zenon
  <2>3. i # j
    BY <1>3, <2>1, <2>2 DEF HoldsRoom
  <2> QED BY <1>4, <2>2, <2>3 DEF Reserving
<1>5. /\ held2 \subseteq Reserving(revisions', draft', job, {}) \cup {}
      /\ \A i \in held2 \ {} : job'[i].skill = job[i].skill
  BY <1>4
<1>6. ~TooLarge(revisions', bank', draft', job, {}, {})
  BY <1>1
<1>7. {} \in SUBSET Jobs /\ Drafted(draft') \subseteq Drafted(draft')
  OBVIOUS
<1> HIDE DEF held2
<1> QED BY <1>2, <1>5, <1>6, <1>7, StillFits, Zenon DEF held2

LEMMA ImportFits ==
  ASSUME NEW s \in Skills, ImportRevision(s)
  PROVE  ~TooLarge(revisions', bank', draft', job', {}, {})
BY DEF ImportRevision, genVars

\* Every other request only drops drafts.
LEMMA RequestEnters ==
  ASSUME IInv, Request, UNCHANGED <<revisions, bank>>, NEW j \in Jobs
  PROVE  Enters(job[j], job'[j])
<1>1. CASE job' = job
  BY <1>1 DEF Enters
<1>2. ASSUME NEW i \in Jobs, NEW kind, NEW s, NEW rev, NEW content, NEW seq, NEW p,
             job' = [job EXCEPT ![i] = NewRow(kind, s, rev, content, seq, p)]
      PROVE  Enters(job[j], job'[j])
  <2> DEFINE new == NewRow(kind, s, rev, content, seq, p)
  <2>1. new.state = "queued"
    BY SMT DEF NewRow
  <2> HIDE DEF new
  <2>2. Enters(job[i], new)
    BY <2>1 DEF Enters, HoldsRoom
  <2>3. job' = [job EXCEPT ![i] = new]
    BY <1>2 DEF new
  <2> QED BY <2>2, <2>3, JobTypes, OneRowEnters
<1>3. CASE \E i \in Jobs, s \in Skills : Enqueue(i, s, RefillProvider)
  BY <1>2, <1>3 DEF Enqueue
<1>4. CASE \E i \in Jobs, s \in Skills, c \in Contents :
             CreateSkill(i, s, c, RefillProvider) \/ EditSkill(i, s, c, RefillProvider)
  BY <1>2, <1>4 DEF CreateSkill, EditSkill, SaveDraft
<1>5. CASE \E i \in Jobs : DiscardSkillRequest(i)
  <2>1. PICK i \in Jobs : DiscardSkillRequest(i)
    BY <1>5
  <2> DEFINE r == [job[i] EXCEPT !.state = "obsolete", !.error = "discarded"]
  <2>2. job' = job \/ job' = [job EXCEPT ![i] = r]
    BY <2>1, Zenon DEF DiscardSkillRequest
  <2>3. r.state = "obsolete"
    BY JobTypes DEF JobRow
  <2> HIDE DEF r
  <2>4. Enters(job[i], r)
    BY <2>3 DEF Enters, HoldsRoom
  <2> QED BY <1>1, <2>2, <2>4, JobTypes, OneRowEnters
<1>6. CASE \E s \in Skills, waited \in BOOLEAN : RequestRefill(s, RefillProvider, waited)
  <2>1. PICK s \in Skills, waited \in BOOLEAN : RequestRefill(s, RefillProvider, waited)
    BY <1>6
  <2>2. CASE \E i \in Jobs : job[i].state = "obsolete" /\ job' = [job EXCEPT ![i] = ResumedRefill(@)]
    <3>1. PICK i \in Jobs : job[i].state = "obsolete" /\ job' = [job EXCEPT ![i] = ResumedRefill(@)]
      BY <2>2
    <3>2. Enters(job[i], ResumedRefill(job[i]))
      BY <3>1 DEF Enters
    <3> QED BY <3>1, <3>2, JobTypes, OneRowEnters
  <2>3. CASE \E i \in Jobs : job' = [job EXCEPT ![i] = RetriedRefill(@)]
    <3>1. PICK i \in Jobs : job' = [job EXCEPT ![i] = RetriedRefill(@)]
      BY <2>3
    <3>2. RetriedRefill(job[i]).state = "queued"
      BY JobTypes DEF RetriedRefill, JobRow
    <3>3. Enters(job[i], RetriedRefill(job[i]))
      BY <3>2 DEF Enters, HoldsRoom
    <3> QED BY <3>1, <3>3, JobTypes, OneRowEnters
  <2>4. CASE \E i \in Jobs : job' = [job EXCEPT ![i] = Refill(s, RefillProvider)]
    BY <1>2, <2>4 DEF Refill
  <2> QED BY <1>1, <2>1, <2>2, <2>3, <2>4, Zenon DEF RequestRefill
<1>7. CASE \E s \in Skills : RetireSkill(s)
  <2>1. PICK s \in Skills : job' = ObsoleteIdle(s)
    BY <1>7 DEF RetireSkill
  <2> DEFINE r == [job[j] EXCEPT !.state = "obsolete", !.error = "retired"]
  <2>2. job'[j] = job[j] \/ job'[j] = r
    BY <2>1, Zenon DEF ObsoleteIdle
  <2>3. r.state = "obsolete"
    BY JobTypes DEF JobRow
  <2> HIDE DEF r
  <2> QED BY <2>2, <2>3 DEF Enters, HoldsRoom
<1>8. CASE \E size \in StoreLimits : ConfigureLimits(size)
  <2>1. job'[j] = job[j] \/ job'[j] = [job[j] EXCEPT !.due = TRUE]
    BY <1>8, Zenon DEF ConfigureLimits
  <2>2. Edited(job[j], job'[j]) /\ job'[j].state = job[j].state
    BY <2>1, JobTypes, SMT DEF JobRow, Edited, SameTarget
  <2> QED BY <2>2, StaysIn
<1>9. CASE \E i \in Jobs : ConfirmedRelease(i)
  <2>1. PICK i \in Jobs : job[i].state = "needs_attention" /\ \E q : job' = [job EXCEPT ![i] = q]
    BY <1>9, Zenon DEF ConfirmedRelease, Release
  <2> QED BY <2>1, JobTypes, OneRowEnters, RowSettled DEF OpenStates
<1>10. CASE AbandonRetiredClaims
  <2>1. job'[j] = job[j] \/ job[j].state = "running"
    BY <1>10, Zenon DEF AbandonRetiredClaims, AbandonReserved, ReservedClaims
  <2> QED BY <2>1 DEF Enters, HoldsRoom
<1>11. CASE \/ \E s \in Skills : ImportRevision(s) \/ RestoreSkill(s)
            \/ \E amount \in Limits : ConfigureBudget(amount)
            \/ RetireSource
  BY <1>1, <1>11, Zenon DEF ImportRevision, RestoreSkill, ConfigureBudget, RetireSource, genVars
<1> QED BY <1>3, <1>4, <1>5, <1>6, <1>7, <1>8, <1>9, <1>10, <1>11, Zenon DEF Request

LEMMA RequestFits ==
  ASSUME IInv, SkillsOK', Request, Reinstated = {}, ~TooLargeWithDrafts(job)
  PROVE  ~TooLarge(revisions', bank', draft', job', {}, {})
<1>1. CASE \E j \in Jobs, s \in Skills, c \in Contents :
             CreateSkill(j, s, c, RefillProvider) \/ EditSkill(j, s, c, RefillProvider)
  BY <1>1, DraftFits, Zenon DEF CreateSkill, EditSkill
<1>2. CASE \E s \in Skills : ImportRevision(s)
  BY <1>2, ImportFits
<1>3. CASE /\ UNCHANGED <<revisions, bank>>
           /\ \/ draft' = draft \/ \E s \in Skills \cup {None} : draft' = [draft EXCEPT ![s] = None]
  <2>1. NoneEnters
    BY <1>3, RequestEnters, RequestMoves, TargetsKept
  <2>2. Drafted(draft') \subseteq Drafted(draft)
    <3> SUFFICES ASSUME NEW s \in Skills, draft'[s] # None PROVE draft[s] # None
      BY DEF Drafted
    <3>1. draft \in [Skills -> DraftRow \cup {None}]
      BY DEF IInv, SkillsOK, DraftRow
    <3>2. draft'[s] = draft[s] \/ draft'[s] = None
      BY <1>3, <3>1, Zenon
    <3> QED BY <3>2
  <2> QED BY <1>3, <2>1, <2>2, NoneEntersFits
<1>4. \/ \E j \in Jobs, s \in Skills, c \in Contents :
           CreateSkill(j, s, c, RefillProvider) \/ EditSkill(j, s, c, RefillProvider)
      \/ \E s \in Skills : ImportRevision(s)
      \/ /\ UNCHANGED <<revisions, bank>>
         /\ \/ draft' = draft
            \/ \E s \in Skills \cup {None} : draft' = [draft EXCEPT ![s] = None]
  <2>1. CASE \E j \in Jobs : DiscardSkillRequest(j)
    <3>1. PICK j \in Jobs : DiscardSkillRequest(j)
      BY <2>1
    <3>2. job[j].skill \in Skills \cup {None}
      BY JobTypes DEF JobRow, DiscardSkillRequest
    <3> QED BY <3>1, <3>2, Zenon DEF DiscardSkillRequest
  <2>2. CASE ~\E j \in Jobs : DiscardSkillRequest(j)
    BY <2>2, Zenon DEF Request, Enqueue, RequestRefill, RetireSkill, RestoreSkill,
       ConfigureBudget, ConfigureLimits, ConfirmedRelease, Release, RetireSource,
       AbandonRetiredClaims, worldVars, skillVars
  <2> QED BY <2>1, <2>2
<1> QED BY <1>1, <1>2, <1>3, <1>4

LEMMA OthersFit ==
  ASSUME IInv, SkillsOK', Reinstated = {}, ~TooLargeWithDrafts(job),
         \/ UNCHANGED vars \/ \E o \in Operators, j \in Jobs : Reconcile(o, j)
         \/ Environment
  PROVE  ~TooLarge(revisions', bank', draft', job', {}, {})
<1>1. UNCHANGED <<revisions, bank, draft>>
  BY Zenon DEF vars, storeVars, worldVars, skillVars, Reconcile, Environment,
     RemoteFinishes, Crash, LeaseExpires, ComesDue, NextMonth, CreditExpires
<1>2. ASSUME NEW j \in Jobs PROVE Enters(job[j], job'[j])
  <2>1. \/ job' = job
        \/ \E i \in Jobs : \/ job' = [job EXCEPT ![i].lease = "expired"]
                           \/ job' = [job EXCEPT ![i].due = TRUE]
    BY Zenon DEF Environment, RemoteFinishes, Crash, NextMonth, CreditExpires, Reconcile,
       LeaseExpires, ComesDue, vars, storeVars, genVars
  <2>2. \/ job'[j] = job[j]
        \/ job'[j] = [job[j] EXCEPT !.lease = "expired"]
        \/ job'[j] = [job[j] EXCEPT !.due = TRUE]
    BY <2>1, JobTypes, Zenon
  <2>3. Edited(job[j], job'[j]) /\ job'[j].state = job[j].state
    BY <2>2, JobTypes, SMT DEF JobRow, Edited, SameTarget
  <2> QED BY <2>3, StaysIn
<1>3. NoneEnters
  BY <1>2, EnvironmentTame, TargetsKept
<1> QED BY <1>1, <1>3, NoneEntersFits

\* No claim, draft, import or publication, and nothing else that is not named in
\* Reinstated, takes the room that the claims of others hold: what fits still fits after
\* every step of every process, for every number of skills, jobs and workers.
THEOREM ReservedRoomKept == Spec => ReservedRoomHolds
<1> DEFINE RoomStays ==
      /\ ~TooLargeWithDrafts(job) /\ storeLimit' = storeLimit /\ Reinstated = {}
      => ~TooLargeWithDrafts(job)'
<1>1. IInv /\ IInv' /\ [Next]_vars => RoomStays
  <2> SUFFICES ASSUME IInv, IInv', [Next]_vars, ~TooLargeWithDrafts(job),
                      storeLimit' = storeLimit, Reinstated = {}
               PROVE  ~TooLargeWithDrafts(job)'
    OBVIOUS
  <2>1. SkillsOK'
    BY DEF IInv
  <2>2. ~TooLarge(revisions', bank', draft', job', {}, {})
    <3>1. ASSUME NEW a \in Actors, Step(a)
          PROVE  ~TooLarge(revisions', bank', draft', job', {}, {})
      BY <2>1, <3>1, PublishFits, ClaimFits, StepFits
    <3> QED BY <2>1, <3>1, RequestFits, OthersFit, Zenon DEF Next
  <2> QED BY <2>2 DEF TooLargeWithDrafts, TooLarge, Reserving, HoldsRoom, BankSize
<1>2. IInv /\ IInv' /\ [Next]_vars => [RoomStays]_vars
  BY <1>1
<1> QED BY <1>2, Inductive, PTL DEF Spec, ReservedRoomHolds
=============================================================================
