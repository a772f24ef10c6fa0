--------------------------- MODULE CompanionStore ---------------------------
(***************************************************************************)
(* The companion's SQLite database as the generation code sees it, and the *)
(* questions every transaction asks of it.  The tables are                 *)
(*                                                                         *)
(*   generation_jobs      job[j], one row per request                      *)
(*   generation_attempts  att[j][n], one row per claim of a job            *)
(*   skills and           revisions[s], who published revision 1, 2, ...   *)
(*     skill_revisions      of a skill (an import or a job)                *)
(*   exercise_batches     bank[s], the batches in sequence order           *)
(*   skill_drafts         draft[s]                                         *)
(*   skill_retirements    retired, the skills with an active retirement    *)
(*   generation_budget    limit and credit, of which only limit can change *)
(*                        after the first attempt                          *)
(*                                                                         *)
(* Time is kept only where a guard compares it: a row's next_run has come  *)
(* or not (due), a lease is live or expired, an attempt belongs to a month *)
(* and the credits have expired or not.                                    *)
(***************************************************************************)
EXTENDS Integers, Sequences, FiniteSets, Functions

CONSTANTS
  Jobs,            \* job rows the store may come to hold (its job quota)
  Skills,          \* skill identities (the skill quota)
  Contents,        \* skill definitions: title, description, preferences
  Workers,         \* worker processes running run_once in a loop
  Operators,       \* processes running --reconcile-job
  ProviderOf,      \* the provider each worker or operator was started with
  CreditProvider,  \* the provider whose promotional credits are configured
  Estimate,        \* the worst-case cost each provider's adapter computes
  Unpriced,        \* jobs whose saved settings the adapter refuses to price
  CreditTotal,     \* the promotional credit configured before any attempt
  Limits,          \* monthly limits the operator may configure
  StoreLimits,     \* store sizes the operator may configure, in batches
  MaxBank,         \* batches one description revision may hold
  MaxAttempts,     \* MAX_ATTEMPTS, of a round and of unread polls
  LastAttempt,     \* bound: attempts of one job over all its retry rounds
  MaxRevision,     \* bound: revisions of one skill (100 in the code)
  MaxMonth,        \* bound: months that pass
  MaxFaults,       \* bound: crashes, and leases outlived by their holder
  Seeded,          \* skills already imported at revision 1
  Imported,        \* the publisher of a revision that no job published
  None             \* a null: no row, no lease token

PaidNames == {"openai", "anthropic"}
Providers == PaidNames \cup {"fixture"}
Actors == Workers \cup Operators

ASSUME ActorsAssumption == None \notin Actors /\ Workers \cap Operators = {}
ASSUME ProviderAssumption ==
  /\ ProviderOf \in [Actors -> Providers]
  /\ CreditProvider \in Providers
  /\ Estimate \in [Providers -> Nat]
  /\ Estimate["fixture"] = 0
ASSUME MoneyAssumption == CreditTotal \in Nat /\ Limits \subseteq Nat
ASSUME QuotaAssumption ==
  IsFiniteSet(Jobs) /\ IsFiniteSet(Skills) /\ IsFiniteSet(Limits)
ASSUME BoundsAssumption ==
  /\ MaxAttempts \in Nat \ {0}
  /\ LastAttempt \in Nat /\ LastAttempt >= MaxAttempts
  /\ {MaxRevision, MaxMonth, MaxFaults} \subseteq Nat
  /\ MaxBank \in Nat \ {0} /\ StoreLimits \subseteq Nat
ASSUME SkillsAssumption ==
  /\ Seeded \subseteq Skills /\ None \notin Skills \cup Jobs /\ Imported \notin Jobs
  /\ Seeded # {} => MaxRevision >= 1
  /\ None \notin [rev : Nat, content : Contents \cup {None}]

VARIABLES
  job, att,                            \* the generation tables
  revisions, bank, draft, retired,     \* the skill tables
  limit, storeLimit,                   \* the operator's settings
  creditLive, month,                   \* the clock, against credits and months
  sourceRetired                        \* the .generation-source-retired file

genVars == <<job, att>>
skillVars == <<revisions, bank, draft, retired>>
configVars == <<limit, storeLimit>>
clockVars == <<creditLive, month>>
worldVars == <<skillVars, configVars, clockVars, sourceRetired>>
storeVars == <<genVars, worldVars>>

-----------------------------------------------------------------------------
(* Rows.  A row that was never inserted has state "absent"; an unknown       *)
(* amount (a null gross_actual) is -1.                                       *)

Unknown == -1
Kinds == {"refill", "manual", "draft"}
IdleStates == {"queued", "retry_wait", "waiting_budget", "waiting_capacity", "result_ready"}
JobStates == IdleStates \cup
  {"absent", "running", "provider_pending", "completed", "obsolete", "failed", "needs_attention"}
Results == {"none", "good", "bad"}
Errors == {"none", "retired", "changed", "discarded", "other"}
AttemptIds == 1..LastAttempt

JobRow ==
  [state: JobStates, kind: Kinds, skill: Skills \cup {None}, rev: 0..MaxRevision,
   content: Contents \cup {None}, seq: Nat, provider: Providers,
   attempts: 0..LastAttempt, start: 0..(LastAttempt - MaxAttempts),
   holder: Actors \cup {None}, lease: {"none", "live", "expired"},
   due: BOOLEAN, result: Results, error: Errors]

AttemptRow ==
  [stage: {"none", "reserved", "calling", "settled", "abandoned"}, month: Nat,
   gross: Nat, credit: Nat, charge: Nat \cup {Unknown}, response: BOOLEAN, polls: Nat]

NoAttempt ==
  [stage |-> "none", month |-> 0, gross |-> 0, credit |-> 0, charge |-> 0,
   response |-> FALSE, polls |-> 0]

NoJob ==
  [state |-> "absent", kind |-> "manual", skill |-> None, rev |-> 0, content |-> None,
   seq |-> 0, provider |-> "fixture", attempts |-> 0, start |-> 0, holder |-> None,
   lease |-> "none", due |-> FALSE, result |-> "none", error |-> "none"]

Live(r) == r.state \notin {"absent", "completed", "failed", "obsolete"}
Unsettled(a) == a.charge = Unknown

-----------------------------------------------------------------------------
(* Money.                                                                    *)

Least(x, y) == IF x <= y THEN x ELSE y

\* coalesce(credit_actual, credit_reserved): settling uses the credit first.
Credit(a) == IF Unsettled(a) THEN a.credit ELSE Least(a.charge, a.credit)
\* coalesce(net_actual, net_reserved): what the attempt costs out of pocket.
Net(a) == (IF Unsettled(a) THEN a.gross ELSE a.charge) - Credit(a)

AttemptKeys == Jobs \X AttemptIds
RowAt(at, k) == at[k[1]][k[2]]
Total(amount) == SumFunctionOnSet(amount, AttemptKeys)

\* Fault: a month that forgets what the previous one left open.
CommittedThisMonth(at, m) ==
  Total([k \in AttemptKeys |-> IF RowAt(at, k).month = m THEN Net(RowAt(at, k)) ELSE 0])

\* Spending a month must leave room for: its own rows and every open one.
Committed(at, m) ==
  Total([k \in AttemptKeys |->
           IF RowAt(at, k).month = m \/ Unsettled(RowAt(at, k)) THEN Net(RowAt(at, k)) ELSE 0])

\* Fault: credits counted as used only once they are spent.
CreditSpent(at) ==
  Total([k \in AttemptKeys |-> IF Unsettled(RowAt(at, k)) THEN 0 ELSE Credit(RowAt(at, k))])

CreditUsed(at) == Total([k \in AttemptKeys |-> Credit(RowAt(at, k))])

\* Fault: credits that pay whichever provider is called.
CreditUnexpired(provider) == creditLive

\* Credits pay only unexpired, and only the provider that issued them.
CreditApplies(provider) == creditLive /\ provider = CreditProvider

CreditFor(at, provider) ==
  IF CreditApplies(provider)
  THEN LET left == CreditTotal - CreditUsed(at)
       IN  IF left \in Nat THEN Least(Estimate[provider], left) ELSE 0
  ELSE 0

-----------------------------------------------------------------------------
(* Skills and room.  One unit of room is one published bank, one published   *)
(* batch, or the worst-case output reserved for a job that may still publish.*)

Rev(s) == Len(revisions[s])

\* base_revision < 100: a further revision may follow the published one.
RevisionOpenLate(s) == Rev(s) <= MaxRevision  \* fault: one too many
RevisionOpen(s) == Rev(s) < MaxRevision

\* Fault: a job that only checks that its skill is still there.
NotRetired(r) == r.skill \notin retired

\* Whether the frozen skill of a job is still the one it would publish into.
Current(r) ==
  /\ r.skill \notin retired
  /\ IF r.kind = "draft"
     THEN /\ draft[r.skill] = [rev |-> r.rev, content |-> r.content]
          /\ r.rev > 1 => Rev(r.skill) = r.rev - 1
     ELSE /\ draft[r.skill] = None
          /\ Rev(r.skill) = r.rev

StaleError(r) == IF r.skill \in retired THEN "retired" ELSE "changed"

HoldsRoom(r) ==
  \/ r.state \in {"running", "provider_pending", "result_ready"}
  \/ r.state = "waiting_capacity" /\ r.result # "none"

\* The jobs whose next batch the store keeps room for.
Reserving(revs, drf, jb, excluded) ==
  {j \in Jobs \ excluded :
     /\ HoldsRoom(jb[j])
     /\ jb[j].kind # "draft"
     /\ drf[jb[j].skill] = None
     /\ jb[j].rev = Len(revs[jb[j].skill])}

BankSize(revs, bnk, s) ==
  1 + Cardinality({i \in 1..Len(bnk[s]) : bnk[s][i].rev = Len(revs[s])})

\* _too_large_with_drafts: drafts and in-flight jobs count at their largest;
\* extra is the skill of one more batch that is being considered, or none.
TooLarge(revs, bnk, drf, jb, excluded, extra) ==
  LET held == Reserving(revs, drf, jb, excluded)
      heldFor(s) == Cardinality({j \in held : jb[j].skill = s})
      published == [s \in Skills |-> Len(revs[s]) + Len(bnk[s])]
      drafts == {s \in Skills : drf[s] # None}
  IN  \/ SumFunctionOnSet(published, Skills) + Cardinality(drafts)
            + Cardinality(held) + Cardinality(extra) > storeLimit
      \/ \E s \in Skills :
            BankSize(revs, bnk, s) + heldFor(s) + Cardinality(extra \cap {s}) > MaxBank

TooLargeWithDrafts(jb) == TooLarge(revisions, bank, draft, jb, {}, {})
HasBatchCapacity(jb, s) == ~TooLarge(revisions, bank, draft, jb, {}, {s})
BankFull(r) ==
  /\ r.kind # "draft"
  /\ 1 + Cardinality({i \in 1..Len(bank[r.skill]) : bank[r.skill][i].rev = r.rev}) >= MaxBank

-----------------------------------------------------------------------------
(* Row updates that several methods share.                                   *)

Unleased(r, state) == [r EXCEPT !.state = state, !.holder = None, !.lease = "none"]
Leased(r, a) == [r EXCEPT !.state = "running", !.holder = a, !.lease = "live"]
Settled(a, charge) == [a EXCEPT !.stage = "settled", !.charge = charge]
Abandoned(a) == [a EXCEPT !.stage = "abandoned", !.charge = 0]

Latest(at, jb, j) == at[j][jb[j].attempts]

\* _recover: a saved response resumes through GET, an attempt that was only
\* reserved is abandoned, and an unknown submitted call stops.
Lapsed(jb, j) == jb[j].state = "running" /\ jb[j].lease = "expired"

\* Faults: a lapsed call tried again, and a lapsed claim left as it is.
RecoverRequeued ==
  [j \in Jobs |->
     IF ~Lapsed(job, j) THEN job[j]
     ELSE IF Latest(att, job, j).response
          THEN [Unleased(job[j], "provider_pending") EXCEPT !.due = TRUE]
     ELSE Unleased(job[j], "queued")]
RecoverAnswered ==
  [j \in Jobs |->
     IF Lapsed(job, j) /\ Latest(att, job, j).response
     THEN [Unleased(job[j], "provider_pending") EXCEPT !.due = TRUE] ELSE job[j]]

RecoverJobs ==
  [j \in Jobs |->
     IF ~Lapsed(job, j) THEN job[j]
     ELSE IF Latest(att, job, j).response
          THEN [Unleased(job[j], "provider_pending") EXCEPT !.due = TRUE]
     ELSE IF Latest(att, job, j).stage = "reserved" THEN Unleased(job[j], "queued")
     ELSE [Unleased(job[j], "needs_attention") EXCEPT !.error = "other"]]

RecoverNoAttempt == att  \* fault: the reservation stays in the ledger

RecoverAttempts ==
  [j \in Jobs |->
     IF /\ Lapsed(job, j)
        /\ ~Latest(att, job, j).response
        /\ Latest(att, job, j).stage = "reserved"
     THEN [att[j] EXCEPT ![job[j].attempts] = Abandoned(@)]
     ELSE att[j]]

\* The claims abandon_retired_claims gives back, whatever their lease says.
ReservedClaims ==
  {j \in Jobs : /\ job[j].state = "running"
                /\ Latest(att, job, j).stage = "reserved"
                /\ ~Latest(att, job, j).response}

\* _abandon_reserved for a set of jobs.
AbandonReserved(S) ==
  /\ att' = [j \in Jobs |-> IF j \in S THEN [att[j] EXCEPT ![job[j].attempts] = Abandoned(@)]
                            ELSE att[j]]
  /\ job' = [j \in Jobs |-> IF j \in S THEN Unleased(job[j], "queued") ELSE job[j]]

StoreInit ==
  /\ job = [j \in Jobs |-> NoJob]
  /\ att = [j \in Jobs |-> [n \in AttemptIds |-> NoAttempt]]
  /\ revisions = [s \in Skills |-> IF s \in Seeded THEN <<Imported>> ELSE <<>>]
  /\ bank = [s \in Skills |-> <<>>]
  /\ draft = [s \in Skills |-> None]
  /\ retired = {}
  /\ limit \in Limits
  /\ storeLimit \in StoreLimits
  /\ creditLive \in BOOLEAN
  /\ month = 1
  /\ sourceRetired = FALSE
=============================================================================
