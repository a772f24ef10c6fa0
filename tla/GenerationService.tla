------------------------- MODULE GenerationService -------------------------
(***************************************************************************)
(* The companion as a whole: clients and the operator (GenerationRequests),*)
(* workers, reconcile commands and the provider (GenerationWorker) over    *)
(* one database (CompanionStore), with the properties it must have.        *)
(***************************************************************************)
EXTENDS GenerationRequests, GenerationWorker

CONSTANTS
  Offered,        \* the requests this instance's clients and operator make
  RefillProvider  \* --refill-provider of the server

ASSUME OfferedAssumption ==
  /\ Offered \subseteq {"enqueue", "draft", "discard", "refill", "import", "retire",
                        "limits", "release", "handoff"}
  /\ RefillProvider \in Providers

vars == <<storeVars, workerVars>>

Init == StoreInit /\ WorkerInit

\* release, by an operator who found the charge in the provider's records: the
\* response is final, or nothing was posted and nothing is about to be.
ConfirmedRelease(j) ==
  LET record == remote[j][job[j].attempts]
  IN  /\ job[j].state = "needs_attention"
      /\ \/ record.status \in Finished
         \/ /\ record.status = "none"
            /\ \A a \in Actors : ~(actor[a].job = j /\ actor[a].pc = "calling")
      /\ Release(j, record.cost)

Request ==
  \/ /\ "enqueue" \in Offered
     /\ \E j \in Jobs, s \in Skills : Enqueue(j, s, RefillProvider)
  \/ /\ "draft" \in Offered
     /\ \E j \in Jobs, s \in Skills, c \in Contents :
          CreateSkill(j, s, c, RefillProvider) \/ EditSkill(j, s, c, RefillProvider)
  \/ "discard" \in Offered /\ \E j \in Jobs : DiscardSkillRequest(j)
  \/ /\ "refill" \in Offered
     /\ \E s \in Skills, waited \in BOOLEAN : RequestRefill(s, RefillProvider, waited)
  \/ "import" \in Offered /\ \E s \in Skills : ImportRevision(s)
  \/ "retire" \in Offered /\ \E s \in Skills : RetireSkill(s) \/ RestoreSkill(s)
  \/ /\ "limits" \in Offered
     /\ \/ \E amount \in Limits : ConfigureBudget(amount)
        \/ \E size \in StoreLimits : ConfigureLimits(size)
  \/ "release" \in Offered /\ \E j \in Jobs : ConfirmedRelease(j)
  \/ "handoff" \in Offered /\ (RetireSource \/ AbandonRetiredClaims)

\* One step of a worker's or a reconciling operator's process.
Step(a) ==
  \/ StartRun(a) \/ RefuseRun(a) \/ Resume(a) \/ Claim(a) \/ Calling(a) \/ CallingRetired(a)
  \/ Submit(a) \/ Generate(a) \/ Submitted(a) \/ Retrieve(a) \/ Poll(a) \/ SaveResult(a)
  \/ Unusable(a) \/ LostClaim(a) \/ Fail(a) \/ Publish(a) \/ TakeOver(a)

Environment ==
  \/ \E j \in Jobs, n \in AttemptIds : RemoteFinishes(j, n)
  \/ \E a \in Actors : Crash(a)
  \/ \E j \in Jobs : LeaseExpires(j) \/ ComesDue(j)
  \/ NextMonth \/ CreditExpires

Next ==
  \/ Request /\ UNCHANGED workerVars
  \/ \E a \in Actors : Step(a)
  \/ \E o \in Operators, j \in Jobs : Reconcile(o, j)
  \/ Environment

Spec == Init /\ [][Next]_vars

\* Workers are restarted and run on; leases run out, delays pass and providers
\* finish what they accepted.  Nobody is obliged to make a request.
Fairness ==
  /\ \A a \in Actors : WF_vars(Step(a))
  /\ \A j \in Jobs : WF_vars(LeaseExpires(j)) /\ WF_vars(ComesDue(j))
  /\ \A j \in Jobs, n \in AttemptIds : WF_vars(RemoteFinishes(j, n))

FairSpec == Spec /\ Fairness

-----------------------------------------------------------------------------
(* Types.                                                                    *)

\* Every table holds rows of its schema and every process is at a known point.
TypeOK ==
  /\ job \in [Jobs -> JobRow]
  /\ att \in [Jobs -> [AttemptIds -> AttemptRow]]
  /\ revisions \in [Skills -> Seq(Jobs \cup {Imported})]
  /\ bank \in [Skills -> Seq([job : Jobs, rev : Nat])]
  /\ draft \in [Skills -> [rev : 1..MaxRevision, content : Contents] \cup {None}]
  /\ \A s \in Skills : Rev(s) <= MaxRevision
  /\ retired \subseteq Skills
  /\ limit \in Limits /\ storeLimit \in StoreLimits
  /\ creditLive \in BOOLEAN /\ month \in 1..(MaxMonth + 1) /\ sourceRetired \in BOOLEAN
  /\ actor \in [Actors -> ActorRow]
  /\ remote \in [Jobs -> [AttemptIds -> RemoteRow]]
  /\ faults \in 0..MaxFaults

-----------------------------------------------------------------------------
(* Money and calls.                                                          *)

OpenStates == {"running", "provider_pending", "needs_attention"}

\* A charge is open exactly for the latest attempt of a job that is claimed,
\* waits for its response or needs attention: stopping a job in any other state
\* (discard, retirement) cannot lose a charge, and no charge is left behind.
OpenChargeMatchesState ==
  \A j \in Jobs, n \in AttemptIds :
    Unsettled(att[j][n]) <=> job[j].state \in OpenStates /\ n = job[j].attempts

\* One attempt contacts the provider at most once, whatever crashes, expired
\* leases, late workers, retries and reconciliations come between.
OneSubmission ==
  \A j \in Jobs, n \in AttemptIds : remote[j][n].posts <= 1

\* What the provider may bill for an accepted request is held in full until it
\* is known and then recorded as it is; no such attempt is written off at zero.
ChargeAccounted ==
  \A j \in Jobs, n \in AttemptIds :
    remote[j][n].posts > 0 =>
      \/ Unsettled(att[j][n]) /\ remote[j][n].cost <= att[j][n].gross
      \/ remote[j][n].status \in Finished /\ att[j][n].charge = remote[j][n].cost

\* A month's recorded spending and reservations stay within a limit that may be
\* configured, across month ends, expiring credits and concurrent claims.
SpentIn(m) ==
  Total([k \in AttemptKeys |-> IF RowAt(att, k).month = m THEN Net(RowAt(att, k)) ELSE 0])
SpendWithinLimit == \A m \in 1..month : \E amount \in Limits : SpentIn(m) <= amount

\* Credits used and held never exceed the credits configured.
CreditWithinTotal == CreditUsed(att) <= CreditTotal

\* A settled or abandoned attempt's row is never written again.
ChargeIsFinal ==
  [][\A j \in Jobs, n \in AttemptIds :
       att[j][n].stage \in {"settled", "abandoned"} => att'[j][n] = att[j][n]]_vars

\* Promotional credit is spent only on calls to the provider that issued it,
\* although a paid job may move to another provider before each claim.
CreditsPayTheirProvider ==
  \A j \in Jobs, n \in AttemptIds :
    att[j][n].stage = "calling" /\ att[j][n].credit > 0 => job[j].provider = CreditProvider

\* Once the source is retired no reservation turns into a call and no job is
\* claimed, whatever its workers had already read.
RetiredSourceSpendsNothing ==
  [][sourceRetired =>
       \A j \in Jobs, n \in AttemptIds :
         att[j][n].stage \in {"none", "reserved"} =>
           att'[j][n].stage \in {att[j][n].stage, "abandoned"}]_vars

\* A round makes at most MaxAttempts attempts, abandoned ones included.
RoundIsBounded == \A j \in Jobs : job[j].attempts - job[j].start <= MaxAttempts

-----------------------------------------------------------------------------
(* Publication.                                                              *)

Places(table) == UNION {{s} \X DOMAIN table[s] : s \in Skills}
BatchesOf(j) == {p \in Places(bank) : bank[p[1]][p[2]].job = j}
RevisionsOf(j) == {p \in Places(revisions) : revisions[p[1]][p[2]] = j}

\* A job publishes once if it completed and never otherwise, into the skill and
\* revision it was requested for, although publish runs again after a crash.
PublishedOnce ==
  \A j \in Jobs :
    /\ Cardinality(BatchesOf(j)) + Cardinality(RevisionsOf(j))
         = (IF job[j].state = "completed" THEN 1 ELSE 0)
    /\ \A p \in BatchesOf(j) : p[1] = job[j].skill /\ bank[p[1]][p[2]].rev = job[j].rev
    /\ \A p \in RevisionsOf(j) : p = <<job[j].skill, job[j].rev>>

\* Batches follow the skill's revisions: output for an old description never
\* joins the bank after a newer description was published.
BankFollowsRevisions ==
  \A s \in Skills : \A i \in 1..Len(bank[s]) :
    /\ bank[s][i].rev <= Rev(s)
    /\ \A k \in 1..(i - 1) : bank[s][k].rev <= bank[s][i].rev

\* Output that was paid for and is valid is not lost: its row keeps it until it
\* is published, and gives up on it only when the skill changed, was deleted or
\* its request was discarded.
SavedResultSurvives ==
  [][\A j \in Jobs :
       job[j].result = "good" =>
         /\ job'[j].result = "good"
         /\ job'[j].state \in {"result_ready", "waiting_capacity", "completed", "obsolete"}]_vars

\* Room that a claim reserved is still there when the output arrives: no other
\* claim, draft, import or publication takes it.  Only a smaller store may exceed what
\* fits, and a job that counts again without being asked whether it still fits: one
\* that an undone deletion or an operator resumes, and, when an edit is dropped, one of
\* its skill, which made room for the draft.
Reserved == Reserving(revisions, draft, job, {})
Reinstated ==
  {j \in Reserved' :
     \/ job[j].state \in {"obsolete", "needs_attention"}
     \/ HoldsRoom(job[j]) /\ draft[job[j].skill] # None}
ReservedRoomHolds ==
  [][/\ ~TooLargeWithDrafts(job) /\ storeLimit' = storeLimit /\ Reinstated = {}
     => ~TooLargeWithDrafts(job)']_vars

\* Only one refill of a description revision works at a time.
OneRefillOutstanding ==
  \A j, k \in Jobs :
    /\ {job[j].kind, job[k].kind} = {"refill"}
    /\ Live(job[j]) /\ Live(job[k])
    /\ <<job[j].skill, job[j].rev>> = <<job[k].skill, job[k].rev>>
    => j = k

-----------------------------------------------------------------------------
(* What must eventually happen.                                              *)

\* Every queued job is published or stops with a reason: crashes, lost replies
\* and full retry rounds leave it neither running nor waiting for ever, as long
\* as the budget and the store have room for it and the source is not retired.
RequestSettles ==
  \A j \in Jobs :
    job[j].state = "queued" ~>
      \/ job[j].state \in {"completed", "failed", "obsolete", "needs_attention"}
      \/ sourceRetired

-----------------------------------------------------------------------------
(* What the notes and comments say and the code does not do.                 *)

\* REFILLS.md: "A failed or discarded edit no longer holds back refills for the
\* published revision".  With the edit gone, the refill job of the current
\* checkpoint is not one that the edit made obsolete, which nothing retries.
EditReleasesRefills ==
  \A j \in Jobs :
    /\ job[j].kind = "refill" /\ job[j].state = "obsolete"
    /\ job[j].skill \notin retired /\ draft[job[j].skill] = None
    /\ <<job[j].rev, job[j].seq>> = <<Rev(job[j].skill), Len(bank[job[j].skill])>>
    => job[j].error = "retired"
=============================================================================
