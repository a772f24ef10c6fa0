------------------------- MODULE GenerationRequests -------------------------
(***************************************************************************)
(* What clients and the operator ask of the companion.  Each action is one *)
(* `begin immediate` transaction of the HTTP server or of a maintenance    *)
(* command; a request the code refuses with a conflict changes nothing and *)
(* is not a step.                                                          *)
(***************************************************************************)
EXTENDS CompanionStore

Absent(j) == job[j].state = "absent"

NewRow(kind, s, rev, content, seq, provider) ==
  [state |-> "queued", kind |-> kind, skill |-> s, rev |-> rev, content |-> content,
   seq |-> seq, provider |-> provider, attempts |-> 0, start |-> 0, holder |-> None,
   lease |-> "none", due |-> TRUE, result |-> "none", error |-> "none"]

\* The part of _enqueue that a job for a published skill must pass.
MayEnqueue(r) ==
  /\ Rev(r.skill) > 0 /\ r.rev = Rev(r.skill)
  /\ r.skill \notin retired
  /\ ~BankFull(r)
  /\ HasBatchCapacity(job, r.skill)

\* POST /v1/generation-jobs.
Enqueue(j, s, provider) ==
  LET row == NewRow("manual", s, Rev(s), None, 0, provider)
  IN  /\ ~sourceRetired
      /\ Absent(j)
      /\ MayEnqueue(row)
      /\ job' = [job EXCEPT ![j] = row]
      /\ UNCHANGED <<att, worldVars>>

DraftJobsOf(s) == {j \in Jobs : job[j].kind = "draft" /\ job[j].skill = s}

\* create_skill, and with a published skill edit_skill: the definition is kept
\* as a draft until its bank can be published with it.
SaveDraft(j, s, content, provider) ==
  LET rev == Rev(s) + 1
      drafted == [draft EXCEPT ![s] = [rev |-> rev, content |-> content]]
  IN  /\ ~sourceRetired
      /\ Absent(j)
      /\ RevisionOpen(s)
      /\ ~TooLarge(revisions, bank, drafted, job, {}, {})
      /\ draft' = drafted
      /\ job' = [job EXCEPT ![j] = NewRow("draft", s, rev, content, 0, provider)]
      /\ UNCHANGED <<att, revisions, bank, retired, configVars, clockVars, sourceRetired>>

\* A new skill's identity comes from its request, so nothing else can hold it.
CreateSkill(j, s, content, provider) ==
  /\ Rev(s) = 0 /\ DraftJobsOf(s) = {}
  /\ SaveDraft(j, s, content, provider)

EditSkill(j, s, content, provider) ==
  /\ Rev(s) > 0
  /\ s \notin retired
  /\ \A k \in DraftJobsOf(s) : ~Live(job[k])
  /\ SaveDraft(j, s, content, provider)

\* discard_skill_request.  The draft goes when it equals this job's skill.
DiscardSkillRequest(j) ==
  LET r == job[j]
      idle == r.state \in IdleStates \ {"result_ready"}
      same == draft[r.skill] = [rev |-> r.rev, content |-> r.content]
  IN  /\ r.kind = "draft"
      /\ idle \/ r.state \in {"failed", "obsolete", "needs_attention"}
      /\ job' = IF idle
                THEN [job EXCEPT ![j] = [@ EXCEPT !.state = "obsolete", !.error = "discarded"]]
                ELSE job
      /\ draft' = IF same THEN [draft EXCEPT ![r.skill] = None] ELSE draft
      /\ UNCHANGED <<att, revisions, bank, retired, configVars, clockVars, sourceRetired>>

\* _settled_failure.
SettledFailure(j) ==
  job[j].state = "failed" /\ \A n \in AttemptIds : ~Unsettled(att[j][n])

\* _drop_stopped_draft: whether no job can still publish the draft.
StoppedDraft(s) ==
  \A k \in DraftJobsOf(s) : ~Live(job[k])

Refill(s, provider) == NewRow("refill", s, Rev(s), None, Len(bank[s]), provider)
SameCheckpoint(j, r) ==
  /\ job[j].state # "absent"
  /\ <<job[j].kind, job[j].skill, job[j].rev, job[j].seq>> = <<r.kind, r.skill, r.rev, r.seq>>

\* Another job already working for this bank.  (Fault: only running ones count.)
RunningNow(r) ==
  \E k \in Jobs : job[k].state = "running" /\ job[k].skill = r.skill /\ job[k].rev = r.rev
Outstanding(r) ==
  \E k \in Jobs :
    /\ job[k].state \notin {"absent", "completed", "obsolete"}
    /\ job[k].skill = r.skill /\ job[k].rev = r.rev
    /\ ~SettledFailure(k)

Uncertain == \E k \in Jobs : job[k].state = "needs_attention"

\* A refill that a retirement stopped resumes in its own row.
ResumedRefill(row) ==
  [row EXCEPT !.state = IF row.result = "none" THEN "queued" ELSE "result_ready",
              !.error = "none", !.due = TRUE]

\* A failed refill starts a round of attempts in its own row.
RetriedRefill(row) ==
  [row EXCEPT !.state = "queued", !.error = "none", !.result = "none", !.due = TRUE,
              !.start = row.attempts]

\* request_refill at the current revision and bank sequence; older or newer
\* checkpoints are refused or told to import.  The wait before a retry round is
\* over or not, whichever the clock says (waited).
RequestRefill(s, provider, waited) ==
  LET r == Refill(s, provider)
      existing == {j \in Jobs : SameCheckpoint(j, r)}
      resumable == {j \in existing : job[j].state = "obsolete" /\ job[j].error = "retired"}
      retriable == {j \in existing : SettledFailure(j) /\ waited}
      paused == Uncertain \/ Outstanding(r)
  IN  /\ Rev(s) > 0 /\ s \notin retired
      /\ draft[s] # None => StoppedDraft(s)
      /\ draft' = [draft EXCEPT ![s] = None]
      /\ \/ \E j \in resumable : job' = [job EXCEPT ![j] = ResumedRefill(@)]
         \/ /\ resumable = {}
            /\ \/ existing # {} /\ retriable = {}
               \/ paused
            /\ UNCHANGED job
         \/ /\ resumable = {} /\ ~paused
            /\ \E j \in retriable :
                 /\ job[j].attempts + MaxAttempts <= LastAttempt
                 /\ job' = [job EXCEPT ![j] = RetriedRefill(@)]
         \/ /\ existing = {} /\ ~paused
            /\ MayEnqueue(r)
            /\ \E j \in Jobs : Absent(j) /\ job' = [job EXCEPT ![j] = r]
      /\ UNCHANGED <<att, revisions, bank, retired, configVars, clockVars, sourceRetired>>

\* import_batch with the next revision of one skill.
ImportRevision(s) ==
  LET revs == [revisions EXCEPT ![s] = Append(@, Imported)]
  IN  /\ ~sourceRetired
      /\ draft[s] = None
      /\ s \notin retired
      /\ RevisionOpen(s)
      /\ ~TooLarge(revs, bank, draft, job, {}, {})
      /\ revisions' = revs
      /\ UNCHANGED <<genVars, bank, draft, retired, configVars, clockVars, sourceRetired>>

\* obsolete_idle_jobs.
ObsoleteIdle(s) ==
  [j \in Jobs |->
     IF /\ job[j].state \in IdleStates
        /\ job[j].skill = s
        /\ \A n \in AttemptIds : ~Unsettled(att[j][n])
     THEN [job[j] EXCEPT !.state = "obsolete", !.error = "retired"]
     ELSE job[j]]

\* Retirements.receive with a version newer than the saved one.
RetireSkill(s) ==
  /\ Rev(s) > 0
  /\ retired' = retired \cup {s}
  /\ job' = ObsoleteIdle(s)
  /\ UNCHANGED <<att, revisions, bank, draft, configVars, clockVars, sourceRetired>>

RestoreSkill(s) ==
  /\ s \in retired
  /\ retired' = retired \ {s}
  /\ UNCHANGED <<genVars, revisions, bank, draft, configVars, clockVars, sourceRetired>>

\* configure_budget after the first attempt: only the monthly limit moves.
ConfigureBudget(amount) ==
  /\ amount # limit
  /\ limit' = amount
  /\ UNCHANGED <<genVars, skillVars, storeLimit, clockVars, sourceRetired>>

\* configure_limits, which also wakes the jobs waiting for room.
ConfigureLimits(size) ==
  /\ size # storeLimit
  /\ storeLimit' = size
  /\ job' = [j \in Jobs |-> IF job[j].state = "waiting_capacity"
                            THEN [job[j] EXCEPT !.due = TRUE] ELSE job[j]]
  /\ UNCHANGED <<att, skillVars, limit, clockVars, sourceRetired>>

\* release, with the charge the operator found in the provider's records.
Release(j, charge) ==
  /\ job[j].state = "needs_attention"
  /\ job[j].attempts > 0
  /\ att' = [att EXCEPT ![j][job[j].attempts] = Settled(@, charge)]
  /\ job' = [job EXCEPT ![j] = [Unleased(job[j], "failed") EXCEPT !.error = "other", !.due = TRUE]]
  /\ UNCHANGED worldVars

-----------------------------------------------------------------------------
(* Retiring the source before a handoff: the marker file, then the claims.   *)

RetireSource ==
  /\ ~sourceRetired
  /\ sourceRetired' = TRUE
  /\ UNCHANGED <<genVars, skillVars, configVars, clockVars>>

AbandonRetiredClaims ==
  /\ sourceRetired
  /\ AbandonReserved(ReservedClaims)
  /\ UNCHANGED worldVars
=============================================================================
