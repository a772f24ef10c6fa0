-------------------------- MODULE GenerationWorker --------------------------
(***************************************************************************)
(* The worker's loop, run_once, and the operator's reconcile command.  One *)
(* action is one transaction or one exchange with the provider; between    *)
(* two of them other processes run, leases expire and the process may die. *)
(*                                                                         *)
(* actor[a] is what the process holds in memory: how far it got (pc), the  *)
(* job and attempt it works on and the provider's reply it is holding      *)
(* (answer).  A lease token is fresh for every claim; the model writes the *)
(* claiming process in the row, which tells the same tokens apart, since a *)
(* process uses a token only for the claim it is working on.               *)
(*                                                                         *)
(* remote[j][n] is the provider: how often attempt n of job j was posted,  *)
(* what became of the response and what it cost.                           *)
(***************************************************************************)
EXTENDS CompanionStore

VARIABLES
  actor,    \* memory of each worker and operator process
  remote,   \* the provider's side of every attempt
  faults    \* crashes and overrun leases so far

workerVars == <<actor, remote, faults>>

Finished == {"good", "bad", "nousage"}
Replies == Finished \cup {"working"}
FailureKinds == {"retry", "terminal", "uncertain", "billing"}
Pcs == {"idle", "publishing", "republishing", "resuming", "claiming", "claimed", "calling",
        "answered", "retrieving", "unread", "holding", "failing", "reconciling"}

ActorRow ==
  [pc: Pcs, job: Jobs \cup {None}, attempt: 0..LastAttempt,
   answer: Replies \cup FailureKinds \cup {"none"}, posted: BOOLEAN,
   seen: JobStates]
RemoteRow == [posts: Nat, status: Replies \cup {"none"}, cost: Nat]

Idle == [pc |-> "idle", job |-> None, attempt |-> 0, answer |-> "none",
         posted |-> FALSE, seen |-> "absent"]

WorkerInit ==
  /\ actor = [a \in Actors |-> Idle]
  /\ remote = [j \in Jobs |-> [n \in AttemptIds |-> [posts |-> 0, status |-> "none", cost |-> 0]]]
  /\ faults = 0

\* Moves of one process; `Goto` keeps what it holds, `Stop` drops everything.
Goto(a, pc) == actor' = [actor EXCEPT ![a].pc = pc]
GotoWith(a, pc, answer) ==
  actor' = [actor EXCEPT ![a] = [@ EXCEPT !.pc = pc, !.answer = answer]]
Stop(a) == actor' = [actor EXCEPT ![a] = Idle]

Paid(a) == ProviderOf[a] \in PaidNames

\* _owned: the token is the row's and the lease has not run out.
Owned(a, j) == job[j].state = "running" /\ job[j].holder = a /\ job[j].lease = "live"

-----------------------------------------------------------------------------
(* run_once up to a claim.                                                   *)

ReadyToPublish ==
  {j \in Jobs : /\ job[j].result # "none"
                /\ job[j].state \in {"result_ready", "waiting_capacity"}
                /\ job[j].due}

StartRun(a) ==
  /\ a \in Workers /\ actor[a].pc = "idle"
  /\ \/ \E j \in ReadyToPublish : actor' = [actor EXCEPT ![a] = [@ EXCEPT !.pc = "publishing", !.job = j]]
     \/ ReadyToPublish = {} /\ Goto(a, "resuming")
  /\ UNCHANGED <<storeVars, remote, faults>>

\* check_restore raises under a retired source; the process ends and restarts.
RefuseRun(a) ==
  /\ actor[a].pc \in {"resuming", "claiming"}
  /\ sourceRetired
  /\ Stop(a)
  /\ UNCHANGED <<storeVars, remote, faults>>

\* _resume: recover, then lease one pending response of this provider.
Resumable(jb, a) ==
  {j \in Jobs : jb[j].state = "provider_pending" /\ jb[j].due /\ jb[j].provider = ProviderOf[a]}

Resume(a) ==
  /\ actor[a].pc = "resuming"
  /\ ~sourceRetired
  /\ att' = RecoverAttempts
  /\ \/ \E j \in Resumable(RecoverJobs, a) :
          /\ job' = [RecoverJobs EXCEPT ![j] = Leased(@, a)]
          /\ actor' = [actor EXCEPT ![a] =
               [Idle EXCEPT !.pc = "retrieving", !.job = j, !.attempt = job[j].attempts]]
     \/ /\ Resumable(RecoverJobs, a) = {}
        /\ job' = RecoverJobs
        /\ Goto(a, "claiming")
  /\ UNCHANGED <<worldVars, remote, faults>>

-----------------------------------------------------------------------------
(* claim: every due row in turn, until one can be leased.                    *)

Claimable(jb) ==
  {j \in Jobs : /\ jb[j].state \in IdleStates \ {"result_ready"}
                /\ jb[j].result = "none"
                /\ jb[j].due}

\* A job that has not called a provider moves to the worker's, if both are paid.
Adopted(r, a) == [r EXCEPT !.provider = ProviderOf[a]]
Skips(r, a) ==
  r.provider # ProviderOf[a] /\ (r.provider \notin PaidNames \/ ~Paid(a))

\* use_provider refuses: the request the worker's provider would get is too large.
CannotSwitch(j, r, a) == r.provider # ProviderOf[a] /\ j \in Unpriced

Reservation(at, provider) ==
  [NoAttempt EXCEPT !.stage = "reserved", !.month = month, !.gross = Estimate[provider],
                    !.credit = CreditFor(at, provider), !.charge = Unknown]

OverBudget(at, provider) ==
  Committed(at, month) + Net(Reservation(at, provider)) > limit

NoRoomInBank(jb, r) == BankFull(r)  \* fault: the store's own size forgotten

NoRoom(jb, r) ==
  \/ BankFull(r)
  \/ r.kind = "draft" /\ TooLargeWithDrafts(jb)
  \/ r.kind # "draft" /\ ~HasBatchCapacity(jb, r.skill)

\* A round's attempts are used up.
RoundOverLate(r) == r.attempts - r.start > MaxAttempts  \* fault: off by one
RoundOver(r) == r.attempts - r.start >= MaxAttempts

\* What claim makes of a row; "running" when it can be leased.
Verdict(jb, at, j, a) ==
  LET r == jb[j] IN
  IF Skips(r, a) THEN r.state
  ELSE IF CannotSwitch(j, r, a) THEN "failed"
  ELSE IF ~Current(r) THEN "obsolete"
  ELSE IF RoundOver(r) \/ j \in Unpriced THEN "failed"
  ELSE IF OverBudget(at, ProviderOf[a]) THEN "waiting_budget"
  ELSE IF NoRoom(jb, r) THEN "waiting_capacity"
  ELSE "running"

\* A row that was looked at and could not be leased.
PassedOver(j, r, verdict, a) ==
  IF Skips(r, a) THEN r
  ELSE [(IF CannotSwitch(j, r, a) THEN r ELSE Adopted(r, a)) EXCEPT
          !.state = verdict,
          !.due = (verdict \notin {"waiting_budget", "waiting_capacity"}),
          !.error = IF verdict = "obsolete" THEN StaleError(r) ELSE "other"]

Claimed(r, a) ==
  [Leased(Adopted(r, a), a) EXCEPT !.attempts = @ + 1, !.error = "none"]

\* The table once claim has looked at the rows in S and leased none of them.
Passing(jb, at, S, a) ==
  [j \in Jobs |-> IF j \in S THEN PassedOver(j, jb[j], Verdict(jb, at, j, a), a) ELSE jb[j]]

\* Rows come in next_run order, which the model leaves open: any set of rows
\* that cannot be leased may precede the one that is.
Claim(a) ==
  LET jb == RecoverJobs
      at == RecoverAttempts
      rows == Claimable(jb)
      leasable == {j \in rows : Verdict(jb, at, j, a) = "running"}
  IN  /\ actor[a].pc = "claiming"
      /\ ~sourceRetired
      /\ \/ /\ leasable = {}
            /\ job' = Passing(jb, at, rows, a)
            /\ att' = at
            /\ Stop(a)
         \/ \E j \in leasable, S \in SUBSET (rows \ leasable) :
              LET n == jb[j].attempts + 1 IN
              /\ job' = [Passing(jb, at, S, a) EXCEPT ![j] = Claimed(@, a)]
              /\ att' = [at EXCEPT ![j][n] = Reservation(at, ProviderOf[a])]
              /\ actor' = [actor EXCEPT ![a] =
                   [Idle EXCEPT !.pc = "claimed", !.job = j, !.attempt = n]]
      /\ UNCHANGED <<worldVars, remote, faults>>

-----------------------------------------------------------------------------
(* calling: the last checks before money is spent.                           *)

\* The held credit may have expired since the claim, or not cover this provider.
CreditNow(r, a) == IF CreditApplies(r.provider) THEN a.credit ELSE 0

Called(a, r) == [a EXCEPT !.stage = "calling", !.month = month, !.credit = CreditNow(r, a)]

\* What calling makes of the row: spend, or give the reservation back.
CallVerdict(r, a) ==
  IF ~Current(r) THEN "obsolete"
  ELSE IF Committed(att, month) - Net(a) + a.gross - CreditNow(r, a) > limit
       THEN "waiting_budget"
  ELSE IF TooLargeWithDrafts(job) THEN "waiting_capacity"
  ELSE "running"

CallingRow(a) ==
  LET j == actor[a].job
      r == job[j]
      n == r.attempts
      verdict == CallVerdict(r, att[j][n])
  IN  /\ actor[a].pc = "claimed"
      /\ \/ /\ ~Owned(a, j) \/ att[j][n].stage # "reserved"
            /\ Stop(a)
            /\ UNCHANGED genVars
         \/ /\ Owned(a, j) /\ att[j][n].stage = "reserved"
            /\ verdict = "running"
            /\ att' = [att EXCEPT ![j][n] = Called(@, r)]
            /\ Goto(a, "calling")
            /\ UNCHANGED job
         \/ /\ Owned(a, j) /\ att[j][n].stage = "reserved"
            /\ verdict # "running"
            /\ att' = [att EXCEPT ![j][n] = Abandoned(@)]
            /\ job' = [job EXCEPT ![j] =
                 [Unleased(r, verdict) EXCEPT
                    !.due = FALSE,
                    !.error = IF verdict = "obsolete" THEN StaleError(r) ELSE "other"]]
            /\ Stop(a)
      /\ UNCHANGED <<worldVars, remote, faults>>

\* The transaction looks for the marker itself.
Calling(a) == ~sourceRetired /\ CallingRow(a)

\* A retired source gives every reserved claim back, or at least its own.
CallingRetired(a) ==
  LET j == actor[a].job
      own == IF Owned(a, j) THEN ReservedClaims \cap {j} ELSE {}
  IN  /\ actor[a].pc = "claimed"
      /\ sourceRetired
      /\ AbandonReserved(ReservedClaims) \/ AbandonReserved(own)
      /\ Stop(a)
      /\ UNCHANGED <<worldVars, remote, faults>>

-----------------------------------------------------------------------------
(* The exchange with the provider, and what is written about it.             *)

\* POST /v1/responses in background mode.  It is accepted and the reply may be
\* lost, or it is refused without a charge, or it never left.  The identity it
\* carries is the job's attempt at this moment.
Submit(a) ==
  LET j == actor[a].job
      n == job[j].attempts
  IN  /\ actor[a].pc = "calling" /\ Paid(a)
      /\ \/ /\ remote' = [remote EXCEPT ![j][n] =
                 [posts |-> @.posts + 1, status |-> "working", cost |-> 0]]
            /\ \/ actor' = [actor EXCEPT ![a] = [@ EXCEPT !.pc = "answered", !.attempt = n,
                                                          !.answer = "working", !.posted = TRUE]]
               \/ GotoWith(a, "failing", "uncertain")
         \/ /\ \E kind \in {"retry", "terminal", "uncertain"} : GotoWith(a, "failing", kind)
            /\ UNCHANGED remote
      /\ UNCHANGED <<storeVars, faults>>

\* The fixture provider answers in the process and never charges.
Generate(a) ==
  /\ actor[a].pc = "calling" /\ ~Paid(a)
  /\ \/ \E answer \in {"good", "bad"} : GotoWith(a, "holding", answer)
     \/ \E kind \in {"terminal", "uncertain"} : GotoWith(a, "failing", kind)
  /\ UNCHANGED <<storeVars, remote, faults>>

\* submitted: the response ID is saved before its content is looked at.
Submitted(a) ==
  LET j == actor[a].job
      n == job[j].attempts
  IN  /\ actor[a].pc = "answered"
      /\ IF Owned(a, j) /\ att[j][n].stage = "calling"
         THEN /\ att' = [att EXCEPT ![j][n].response = TRUE]
              /\ Goto(a, "holding")
         ELSE /\ UNCHANGED att
              /\ IF a \in Workers THEN Stop(a) ELSE GotoWith(a, "failing", "uncertain")
      /\ UNCHANGED <<job, worldVars, remote, faults>>

\* GET of a saved response: read, unreadable for now, or unusable.
Retrieve(a) ==
  LET status == remote[actor[a].job][actor[a].attempt].status
  IN  /\ actor[a].pc = "retrieving"
      /\ \/ status # "none" /\ GotoWith(a, "holding", status)
         \/ Goto(a, "unread")
         \/ GotoWith(a, "failing", "uncertain")
      /\ UNCHANGED <<storeVars, remote, faults>>

\* pending: wait for the provider; MaxAttempts unread polls in a row stop.
Polled(a, unread) == [a EXCEPT !.polls = IF unread THEN @ + 1 ELSE 0]

Waiting(r, polls) ==
  LET stopped == polls >= MaxAttempts
  IN  [Unleased(r, IF stopped THEN "needs_attention" ELSE "provider_pending") EXCEPT
         !.due = FALSE, !.error = IF stopped THEN "other" ELSE "none"]

Pending(a, unread) ==
  LET j == actor[a].job
      n == job[j].attempts
      polled == Polled(att[j][n], unread)
  IN  /\ Owned(a, j) /\ att[j][n].response
      /\ att' = [att EXCEPT ![j][n] = polled]
      /\ job' = [job EXCEPT ![j] = Waiting(@, polled.polls)]

\* What run_once does after a result was looked at: publish again if this run
\* also submitted it, else end.
EndRun(a) == IF actor[a].posted THEN Goto(a, "republishing") ELSE Stop(a)

Poll(a) ==
  /\ \/ /\ actor[a].pc = "unread"
        /\ Pending(a, TRUE)
        /\ Stop(a)
     \/ /\ actor[a].pc = "holding" /\ actor[a].answer = "working"
        /\ Pending(a, FALSE)
        /\ EndRun(a)
  /\ UNCHANGED <<worldVars, remote, faults>>

\* save_result: the charge and the output are recorded together.
SaveResult(a) ==
  LET j == actor[a].job
      n == job[j].attempts
  IN  /\ actor[a].pc = "holding" /\ actor[a].answer \in {"good", "bad"}
      /\ Owned(a, j)
      /\ att' = [att EXCEPT ![j][n] = Settled(@, remote[j][n].cost)]
      /\ job' = [job EXCEPT ![j] =
           [Unleased(@, "result_ready") EXCEPT !.result = actor[a].answer]]
      /\ Goto(a, "publishing")
      /\ UNCHANGED <<worldVars, remote, faults>>

\* A finished response without usable usage leaves the charge unknown.
Unusable(a) ==
  /\ actor[a].pc = "holding" /\ actor[a].answer = "nousage"
  /\ \E kind \in {"uncertain", "billing"} : GotoWith(a, "failing", kind)
  /\ UNCHANGED <<storeVars, remote, faults>>

\* A late process learns here that the claim is no longer its own.
LostClaim(a) ==
  /\ actor[a].pc \in {"unread", "holding"}
  /\ ~Owned(a, actor[a].job)
  /\ Stop(a)
  /\ UNCHANGED <<storeVars, remote, faults>>

\* failure: what is known to be free settles at zero.
UnchargedOrUnsure(kind) == kind \in {"retry", "terminal", "uncertain"}  \* fault: a guess
Uncharged(kind) == kind \in {"retry", "terminal"}

FailedState(r, kind) ==
  IF kind = "retry" /\ ~RoundOver(r) THEN "retry_wait"
  ELSE IF kind \in {"retry", "terminal"} THEN "failed"
  ELSE "needs_attention"

Fail(a) ==
  LET j == actor[a].job
      n == job[j].attempts
      kind == actor[a].answer
  IN  /\ actor[a].pc = "failing"
      /\ IF Owned(a, j)
         THEN /\ att' = IF Uncharged(kind)
                        THEN [att EXCEPT ![j][n] = Settled(@, 0)] ELSE att
              /\ job' = [job EXCEPT ![j] =
                   [Unleased(@, FailedState(@, kind)) EXCEPT !.due = FALSE, !.error = "other"]]
         ELSE UNCHANGED genVars
      /\ Stop(a)
      /\ UNCHANGED <<worldVars, remote, faults>>

-----------------------------------------------------------------------------
(* publish.                                                                  *)

\* The skill tables once the output of job j is in them.
PublishedRevisions(j) ==
  IF job[j].kind = "draft"
  THEN [revisions EXCEPT ![job[j].skill] = Append(@, j)] ELSE revisions
PublishedBank(j) ==
  IF job[j].kind = "draft" THEN bank
  ELSE [bank EXCEPT ![job[j].skill] = Append(@, [job |-> j, rev |-> job[j].rev])]
PublishedDraft(j) ==
  IF job[j].kind = "draft" THEN [draft EXCEPT ![job[j].skill] = None] ELSE draft

NoRoomLeft(j) ==
  TooLarge(PublishedRevisions(j), PublishedBank(j), PublishedDraft(j), job, {j}, {})

SavedOutput(r) == r.state # "absent" /\ r.result # "none"  \* fault: any state will do
Publishable(r) == r.state \in {"result_ready", "waiting_capacity"} /\ r.result # "none"

\* Fault: output that finds no room is given up.
WithheldForGood(j) ==
  [job[j] EXCEPT !.state = IF ~Current(job[j]) THEN "obsolete" ELSE "failed", !.error = "other"]

\* What publish makes of the row when nothing is published.
Withheld(j) ==
  LET r == job[j]
  IN  IF ~Current(r) THEN [r EXCEPT !.state = "obsolete", !.error = StaleError(r)]
      ELSE IF r.result = "bad" THEN [r EXCEPT !.state = "failed", !.error = "other", !.due = TRUE]
      ELSE [r EXCEPT !.state = "waiting_capacity", !.error = "other", !.due = FALSE]

Publishes(j) ==
  Publishable(job[j]) /\ Current(job[j]) /\ job[j].result = "good" /\ ~NoRoomLeft(j)

Publish(a) ==
  LET j == actor[a].job
  IN  /\ actor[a].pc \in {"publishing", "republishing"}
      /\ IF Publishes(j)
         THEN /\ revisions' = PublishedRevisions(j)
              /\ bank' = PublishedBank(j)
              /\ draft' = PublishedDraft(j)
              /\ job' = [job EXCEPT ![j] = [@ EXCEPT !.state = "completed", !.error = "none"]]
         ELSE /\ UNCHANGED <<revisions, bank, draft>>
              /\ job' = IF Publishable(job[j]) THEN [job EXCEPT ![j] = Withheld(j)] ELSE job
      /\ IF actor[a].pc = "publishing" THEN EndRun(a) ELSE Stop(a)
      /\ UNCHANGED <<att, retired, configVars, clockVars, sourceRetired, remote, faults>>

-----------------------------------------------------------------------------
(* reconcile: the operator confirms a response, and the row is taken over.   *)

Reconcilable(j) ==
  \/ job[j].state = "needs_attention"
  \/ /\ sourceRetired
     /\ job[j].state \in {"running", "provider_pending"}
     /\ Latest(att, job, j).response

\* The response is read first, without a lease.
Reconcile(o, j) ==
  LET n == job[j].attempts
  IN  /\ o \in Operators /\ actor[o].pc = "idle"
      /\ Reconcilable(j)
      /\ job[j].provider = ProviderOf[o]
      /\ n > 0 /\ remote[j][n].status # "none"
      /\ actor' = [actor EXCEPT ![o] =
           [Idle EXCEPT !.pc = "reconciling", !.job = j, !.attempt = n,
                        !.answer = remote[j][n].status, !.seen = job[j].state]]
      /\ UNCHANGED <<storeVars, remote, faults>>

SameAttempt(o) == job[actor[o].job].attempts = actor[o].attempt  \* fault: state not compared
StillAsRead(o) ==
  /\ job[actor[o].job].state = actor[o].seen
  /\ job[actor[o].job].attempts = actor[o].attempt

TakeOver(o) ==
  LET j == actor[o].job
      n == actor[o].attempt
  IN  /\ actor[o].pc = "reconciling"
      /\ IF StillAsRead(o)
         THEN /\ job' = [job EXCEPT ![j] = [Leased(@, o) EXCEPT !.error = "none"]]
              /\ att' = [att EXCEPT ![j][n].polls = 0]
              /\ Goto(o, "answered")
         ELSE UNCHANGED genVars /\ Stop(o)
      /\ UNCHANGED <<worldVars, remote, faults>>

-----------------------------------------------------------------------------
(* What happens around the processes.                                        *)

\* The provider finishes a response, at most at the price the adapter bounds.
RemoteFinishes(j, n) ==
  /\ remote[j][n].status = "working"
  /\ \E status \in Finished, cost \in 0..att[j][n].gross :
       remote' = [remote EXCEPT ![j][n] = [@ EXCEPT !.status = status, !.cost = cost]]
  /\ UNCHANGED <<storeVars, actor, faults>>

\* A process dies and is started again.
Crash(a) ==
  /\ actor[a].pc # "idle" /\ faults < MaxFaults
  /\ faults' = faults + 1
  /\ Stop(a)
  /\ UNCHANGED <<storeVars, remote>>

\* LEASE_SECONDS pass: nobody works on the claim, or its holder overran it.
LeaseExpires(j) ==
  /\ job[j].lease = "live"
  /\ IF actor[job[j].holder].job = j
     THEN faults < MaxFaults /\ faults' = faults + 1
     ELSE UNCHANGED faults
  /\ job' = [job EXCEPT ![j].lease = "expired"]
  /\ UNCHANGED <<att, worldVars, actor, remote>>

\* next_run comes.
ComesDue(j) ==
  /\ Live(job[j]) /\ ~job[j].due
  /\ job' = [job EXCEPT ![j].due = TRUE]
  /\ UNCHANGED <<att, worldVars, workerVars>>

NextMonth ==
  /\ month < MaxMonth
  /\ month' = month + 1
  /\ UNCHANGED <<genVars, skillVars, configVars, creditLive, sourceRetired, workerVars>>

CreditExpires ==
  /\ creditLive
  /\ creditLive' = FALSE
  /\ UNCHANGED <<genVars, skillVars, configVars, month, sourceRetired, workerVars>>
=============================================================================
