---------------------------- MODULE HostRecovery ----------------------------
(***************************************************************************)
(* The generation history of a companion as it moves between hosts: final  *)
(* handoffs, ordinary backups, restores, and releases after a host is lost *)
(* (deploy/recovery.py, backup.py, manage.py, container.py), with the paid *)
(* worker that runs meanwhile and a manager that may be interrupted after  *)
(* any file it writes.                                                     *)
(*                                                                         *)
(* A host is one state directory on one machine.  Its name also stands for *)
(* the IDs made there: the retirement ID of its source and the restore ID  *)
(* of its copy.  A job makes at most one paid call on a host, so that a    *)
(* call is a pair of host and job, and an amount the calls it pays for.    *)
(***************************************************************************)
EXTENDS Naturals, FiniteSets

CONSTANTS
  Hosts,         \* state directories, each used once
  First,         \* the one that is initialized; the others are restored into
  Jobs,          \* paid jobs, all of them requested before the first backup
  MaxArchives,   \* bound: archives made
  PausedCopies,  \* whether the operator also backs up copies that are still paused
  None

ASSUME HostAssumption == First \in Hosts /\ MaxArchives \in Nat /\ PausedCopies \in BOOLEAN

VARIABLES
  disk,      \* marker files and receipt of every host, and the host it was restored from
  ledger,    \* generation_jobs, generation_attempts and generation_recoveries
  worker,    \* the worker's container and the memory of its process
  command,   \* the manager's command that holds the host's lock, and how far it is
  archives,  \* encrypted archives; nothing deletes them here
  posted,    \* calls the provider accepted and bills
  last       \* the host that was last let pay

vars == <<disk, ledger, worker, command, archives, posted, last>>

Stores == {"sync", "companion"}
Calls == Hosts \X Jobs

Open == {"reserved", "calling", "response", "attention"}
Stages == {"queued", "settled"} \union Open
Row == [stage: Stages, by: Hosts \union {None}]
Queued == [stage |-> "queued", by |-> None]

Ledger == [rows: [Jobs -> Row], recoveries: [Hosts -> (SUBSET Calls) \union {None}]]
Fence == [Stores -> Hosts \union {None}]
Receipt == [handoff: Hosts, ledger: Ledger]

Disk == [root: {"none", "partial", "ready", "lost"}, fence: Fence, pending: BOOLEAN,
         pause: (SUBSET Calls) \union {None}, receipt: Receipt \union {None},
         from: Hosts \union {None}]

\* created_at is kept as the calls accepted by then.
Archive == [host: Hosts, handoff: Hosts \union {None}, fence: Fence, ledger: Ledger,
            created: SUBSET Calls]

ASSUME NoneAssumption ==
  /\ None \notin Hosts \union Jobs
  /\ \A S \in SUBSET Calls : S # None
  /\ \A r \in Receipt : r # None

Off == [pc |-> "off", job |-> None]
Idle == [pc |-> "idle", job |-> None]
Worker == [pc: {"off", "idle", "claimed", "calling", "posted"}, job: Jobs \union {None}]

Commands == {"none", "fence", "abandon", "down", "export", "backup", "backup running",
             "restore", "release", "unlink"}

NoFence == [s \in Stores |-> None]
Retired(h) == disk[h].fence["companion"] # None
Fenced(h) == \E s \in Stores : disk[h].fence[s] # None
Ready(h) == disk[h].root = "ready"
Free(h) == Ready(h) /\ command[h] = "none"
Stopped(h) == worker[h].pc = "off"

Unmarked(root) ==
  [root |-> root, fence |-> NoFence, pending |-> FALSE, pause |-> None, receipt |-> None,
   from |-> None]
NewLedger == [rows |-> [j \in Jobs |-> Queued], recoveries |-> [g \in Hosts |-> None]]

Init ==
  /\ disk = [h \in Hosts |-> Unmarked(IF h = First THEN "ready" ELSE "none")]
  /\ ledger = [h \in Hosts |-> NewLedger]
  /\ worker = [h \in Hosts |-> Off]
  /\ command = [h \in Hosts |-> "none"]
  /\ archives = {} /\ posted = {} /\ last = First

-----------------------------------------------------------------------------
(* The worker.                                                               *)

\* check_restore, and the same question asked by the container's entry point.
Unpaused(h) == ~Retired(h) /\ ~disk[h].pending /\ disk[h].pause = None

\* Whether a call may still leave the host.
MayPay(h) == worker[h].pc = "calling" \/ (Ready(h) /\ Unpaused(h))

SetRow(h, j, stage, by) == ledger' = [ledger EXCEPT ![h].rows[j] = [stage |-> stage, by |-> by]]

\* _abandon_reserved
Abandoned(rows) == [j \in Jobs |-> IF rows[j].stage = "reserved" THEN Queued ELSE rows[j]]

\* _recover of the claims that lapsed.
Recovered(rows, lapsed) ==
  [j \in Jobs |-> IF j \notin lapsed THEN rows[j]
                  ELSE IF rows[j].stage = "reserved" THEN Queued
                  ELSE [rows[j] EXCEPT !.stage = "attention"]]

Running(h) == {j \in Jobs : ledger[h].rows[j].stage \in {"reserved", "calling"}}

\* start: the manager checks both fences, the worker's container the companion's.
StartWorker(h) ==
  /\ Free(h) /\ Stopped(h) /\ ~Fenced(h) /\ Unpaused(h)
  /\ worker' = [worker EXCEPT ![h] = Idle]
  /\ UNCHANGED <<disk, ledger, command, archives, posted, last>>

StopWorker(h) ==
  /\ Free(h) /\ ~Stopped(h)
  /\ worker' = [worker EXCEPT ![h] = Off]
  /\ UNCHANGED <<disk, ledger, command, archives, posted, last>>

Entered(h) == IF Unpaused(h) THEN Idle ELSE Off

\* The process ends, or the machine starts again; Docker brings the container back.
WorkerRestarts(h) ==
  /\ ~Stopped(h) /\ worker' = [worker EXCEPT ![h] = Entered(h)]
  /\ UNCHANGED <<disk, ledger, command, archives, posted, last>>

Claim(h) ==
  /\ worker[h].pc = "idle" /\ Unpaused(h)
  /\ \E lapsed \in SUBSET Running(h) :
       LET rows == Recovered(ledger[h].rows, lapsed)
           queued == {j \in Jobs : rows[j] = Queued}
       IN  \/ \E j \in queued :
                /\ ledger' = [ledger EXCEPT ![h].rows =
                                [rows EXCEPT ![j] = [stage |-> "reserved", by |-> h]]]
                /\ worker' = [worker EXCEPT ![h] = [pc |-> "claimed", job |-> j]]
           \/ /\ queued = {} /\ lapsed # {}
              /\ ledger' = [ledger EXCEPT ![h].rows = rows]
              /\ UNCHANGED worker
  /\ UNCHANGED <<disk, command, archives, posted, last>>

\* calling
Calling(h) ==
  /\ worker[h].pc = "claimed" /\ ~Retired(h)
  /\ ledger[h].rows[worker[h].job].stage = "reserved"
  /\ SetRow(h, worker[h].job, "calling", h)
  /\ worker' = [worker EXCEPT ![h].pc = "calling"]
  /\ UNCHANGED <<disk, command, archives, posted, last>>

\* calling on a retired source gives the claims back; the refusal ends the process.
CallingRetired(h) ==
  /\ worker[h].pc = "claimed" /\ Retired(h)
  /\ ledger' = [ledger EXCEPT ![h].rows = Abandoned(@)]
  /\ worker' = [worker EXCEPT ![h] = Entered(h)]
  /\ UNCHANGED <<disk, command, archives, posted, last>>

\* provider.submit: the request is accepted, or refused and free of charge.
Submit(h) ==
  /\ worker[h].pc = "calling"
  /\ \/ /\ posted' = posted \union {<<h, worker[h].job>>}
        /\ worker' = [worker EXCEPT ![h].pc = "posted"]
        /\ UNCHANGED ledger
     \/ /\ SetRow(h, worker[h].job, "settled", None)
        /\ worker' = [worker EXCEPT ![h] = Idle]
        /\ UNCHANGED posted
  /\ UNCHANGED <<disk, command, archives, last>>

\* submitted, and with it the result when the response already has one.
Submitted(h) ==
  /\ worker[h].pc = "posted"
  /\ \E stage \in {"response", "settled"} : SetRow(h, worker[h].job, stage, h)
  /\ worker' = [worker EXCEPT ![h] = Idle]
  /\ UNCHANGED <<disk, command, archives, posted, last>>

\* failure: the request or its reply was lost, or says nothing of its charge.
Fail(h) ==
  /\ worker[h].pc \in {"calling", "posted"}
  /\ SetRow(h, worker[h].job, "attention", h)
  /\ worker' = [worker EXCEPT ![h] = Idle]
  /\ UNCHANGED <<disk, command, archives, posted, last>>

\* _resume: the answer to a saved response.
Retrieve(h, j) ==
  /\ worker[h].pc = "idle" /\ Unpaused(h)
  /\ ledger[h].rows[j].stage = "response"
  /\ \E stage \in {"settled", "attention"} : SetRow(h, j, stage, ledger[h].rows[j].by)
  /\ UNCHANGED <<disk, worker, command, archives, posted, last>>

WorkerStep(h) ==
  \/ StartWorker(h) \/ StopWorker(h) \/ WorkerRestarts(h) \/ Claim(h) \/ Calling(h)
  \/ CallingRetired(h) \/ Submit(h) \/ Submitted(h) \/ Fail(h)
  \/ \E j \in Jobs : Retrieve(h, j)

-----------------------------------------------------------------------------
(* The final handoff: fence both stores, give claims back, stop every writer, *)
(* export.                                                                    *)

\* retire_source keeps an ID that is there, also when it continues an interrupted
\* retirement or one that came with a backup of the source.
RetirementId(h) ==
  IF Fenced(h) THEN CHOOSE id \in Hosts : \E s \in Stores : disk[h].fence[s] = id ELSE h

RetireSync(h) ==
  /\ Free(h) /\ (PausedCopies \/ disk[h].pause = None)
  /\ disk' = [disk EXCEPT ![h].fence["sync"] = RetirementId(h)]
  /\ command' = [command EXCEPT ![h] = "fence"]
  /\ UNCHANGED <<ledger, worker, archives, posted, last>>

RetireCompanion(h) ==
  /\ command[h] = "fence"
  /\ disk' = [disk EXCEPT ![h].fence["companion"] = RetirementId(h)]
  /\ command' = [command EXCEPT ![h] = "abandon"]
  /\ UNCHANGED <<ledger, worker, archives, posted, last>>

AbandonRetiredClaims(h) ==
  /\ command[h] = "abandon"
  /\ ledger' = [ledger EXCEPT ![h].rows = Abandoned(@)]
  /\ command' = [command EXCEPT ![h] = "down"]
  /\ UNCHANGED <<disk, worker, archives, posted, last>>

Down(h) ==
  /\ command[h] = "down"
  /\ worker' = [worker EXCEPT ![h] = Off]
  /\ command' = [command EXCEPT ![h] = "export"]
  /\ UNCHANGED <<disk, ledger, archives, posted, last>>

\* create_archive
Archived(h, handoff) ==
  [host |-> h, handoff |-> handoff, fence |-> disk[h].fence, ledger |-> ledger[h],
   created |-> posted]

MayArchive == Cardinality(archives) < MaxArchives

Export(h) ==
  /\ command[h] = "export" /\ MayArchive
  /\ disk[h].fence["sync"] = disk[h].fence["companion"]
  /\ archives' = archives \union {Archived(h, disk[h].fence["sync"])}
  /\ command' = [command EXCEPT ![h] = "none"]
  /\ UNCHANGED <<disk, ledger, worker, posted, last>>

-----------------------------------------------------------------------------
(* Ordinary backups and restores.                                            *)

BeginBackup(h) ==
  /\ Free(h) /\ MayArchive /\ (PausedCopies \/ disk[h].pause = None)
  /\ command' = [command EXCEPT ![h] = IF Stopped(h) THEN "backup" ELSE "backup running"]
  /\ worker' = [worker EXCEPT ![h] = Off]
  /\ UNCHANGED <<disk, ledger, archives, posted, last>>

\* The archive is made or fails; the services that ran are started either way.
EndBackup(h) ==
  /\ command[h] \in {"backup", "backup running"}
  /\ \/ MayArchive /\ archives' = archives \union {Archived(h, None)}
     \/ UNCHANGED archives
  /\ worker' = [worker EXCEPT ![h] = IF command[h] = "backup" THEN Off ELSE Entered(h)]
  /\ command' = [command EXCEPT ![h] = "none"]
  /\ UNCHANGED <<disk, ledger, posted, last>>

\* Faulty form of Copied: a final handoff is complete, so its copy is not paused.
CopiedReady(x) ==
  [root |-> "partial", pending |-> x.handoff = None, from |-> x.host,
   pause |-> IF x.handoff = None THEN x.created ELSE None,
   fence |-> IF x.handoff = None THEN x.fence ELSE NoFence,
   receipt |-> IF x.handoff = None THEN None
               ELSE [handoff |-> x.handoff, ledger |-> x.ledger]]

\* What restore_archive puts into a new directory before its root marker.  A handoff
\* loses its fences and leaves a receipt; every copy is paused.
Copied(x) ==
  [root |-> "partial", pending |-> TRUE, pause |-> x.created, from |-> x.host,
   fence |-> IF x.handoff = None THEN x.fence ELSE NoFence,
   receipt |-> IF x.handoff = None THEN None
               ELSE [handoff |-> x.handoff, ledger |-> x.ledger]]

RestoreStores(x, h) ==
  /\ disk[h].root = "none" /\ command[h] = "none"
  /\ disk' = [disk EXCEPT ![h] = Copied(x)]
  /\ ledger' = [ledger EXCEPT ![h] = x.ledger]
  /\ command' = [command EXCEPT ![h] = "restore"]
  /\ UNCHANGED <<worker, archives, posted, last>>

MarkRoot(h) ==
  /\ command[h] = "restore"
  /\ disk' = [disk EXCEPT ![h].root = "ready"]
  /\ command' = [command EXCEPT ![h] = "none"]
  /\ UNCHANGED <<ledger, worker, archives, posted, last>>

-----------------------------------------------------------------------------
(* Uncertain attempts.                                                       *)

\* reconcile: the response of a stopped host's attempt, by its ID.
Reconcile(h, j) ==
  /\ Free(h) /\ Stopped(h)
  /\ \/ ledger[h].rows[j].stage = "attention"
     \/ ledger[h].rows[j].stage = "response" /\ (disk[h].pause # None \/ Retired(h))
  /\ <<ledger[h].rows[j].by, j>> \in posted
  /\ \E stage \in {"settled", "attention"} : SetRow(h, j, stage, ledger[h].rows[j].by)
  /\ UNCHANGED <<disk, worker, command, archives, posted, last>>

\* release, with the charge the operator found: none unless the call was accepted.
Release(h, j) ==
  /\ Free(h) /\ ~disk[h].pending /\ disk[h].pause = None
  /\ ledger[h].rows[j].stage = "attention"
  /\ LET by == ledger[h].rows[j].by
     IN  SetRow(h, j, "settled", IF <<by, j>> \in posted THEN by ELSE None)
  /\ UNCHANGED <<disk, worker, command, archives, posted, last>>

-----------------------------------------------------------------------------
(* Releasing the pause of a copy.  Each begins with what the operator vouches *)
(* for, which is true here, and ends by deleting two markers.                 *)

Releasing(h) == command[h] \in {"release", "unlink"}
\* Faulty form of Settled: only running jobs are looked at, not saved responses.
NothingRuns(rows) == \A j \in Jobs : rows[j].stage \notin {"reserved", "calling"}
Settled(rows) == \A j \in Jobs : rows[j].stage \notin Open

\* No other copy is in use.  The retired source is not asked about.
SoleAmong(h, S) == \A g \in S \ {h} : ~MayPay(g) /\ ~Releasing(g)

\* allow_paid_worker: the receipt of this handoff, an unchanged history, and every
\* attempt settled.  The handoff is the final one: no other host was let pay since.
AllowPaidWorker(h) ==
  /\ Free(h) /\ Stopped(h) /\ ~Fenced(h)
  /\ disk[h].receipt # None
  /\ disk[h].receipt.ledger = ledger[h]
  /\ Settled(ledger[h].rows)
  /\ SoleAmong(h, Hosts \ {disk[h].from})
  /\ last \in {disk[h].receipt.handoff, h}
  /\ last' = h
  /\ command' = [command EXCEPT ![h] = "release"]
  /\ UNCHANGED <<disk, ledger, worker, archives, posted>>

\* settle_after_host_loss, with the provider's usage since the backup: saved
\* responses come first unless the provider no longer has them, claims go back, all
\* else is charged in full.  A restore records its amount once: another is refused.
\* (Fault: all that was running goes back to the queue.)
RequeuedAfterLoss(rows) ==
  [j \in Jobs |-> IF rows[j].stage \in {"response", "attention"}
                  THEN [rows[j] EXCEPT !.stage = "settled"]
                  ELSE IF rows[j].stage \in {"reserved", "calling"} THEN Queued ELSE rows[j]]
SettledAfterLoss(rows) ==
  [j \in Jobs |-> IF rows[j].stage \in {"calling", "response", "attention"}
                  THEN [rows[j] EXCEPT !.stage = "settled"] ELSE Abandoned(rows)[j]]

AfterLoss(h, usage) ==
  IF ledger[h].recoveries[h] # None THEN ledger[h]
  ELSE [rows |-> SettledAfterLoss(ledger[h].rows),
        recoveries |-> [ledger[h].recoveries EXCEPT ![h] = usage]]

\* release_paid_after_loss, with the original host gone for good.
ReleaseAfterLoss(h) ==
  /\ Free(h) /\ Stopped(h) /\ ~Fenced(h)
  /\ disk[h].receipt = None /\ disk[h].pause # None
  /\ disk[disk[h].from].root = "lost" /\ SoleAmong(h, Hosts)
  /\ LET usage == posted \ disk[h].pause
     IN  /\ ledger[h].recoveries[h] \in {None, usage}
         /\ ledger' = [ledger EXCEPT ![h] = AfterLoss(h, usage)]
  /\ command' = [command EXCEPT ![h] = "release"]
  /\ last' = h
  /\ UNCHANGED <<disk, worker, archives, posted>>

UnlinkPending(h) ==
  /\ command[h] = "release"
  /\ disk' = [disk EXCEPT ![h].pending = FALSE]
  /\ command' = [command EXCEPT ![h] = "unlink"]
  /\ UNCHANGED <<ledger, worker, archives, posted, last>>

UnlinkPause(h) ==
  /\ command[h] = "unlink"
  /\ disk' = [disk EXCEPT ![h].pause = None]
  /\ command' = [command EXCEPT ![h] = "none"]
  /\ UNCHANGED <<ledger, worker, archives, posted, last>>

-----------------------------------------------------------------------------
(* Faults.                                                                   *)

\* The manager dies, or the command fails, between two of its steps.
Interrupted(h) ==
  /\ command[h] # "none" /\ command' = [command EXCEPT ![h] = "none"]
  /\ UNCHANGED <<disk, ledger, worker, archives, posted, last>>

\* The machine is gone with all it held.
Lose(h) ==
  /\ Ready(h)
  /\ disk' = [disk EXCEPT ![h] = Unmarked("lost")]
  /\ ledger' = [ledger EXCEPT ![h] = NewLedger]
  /\ worker' = [worker EXCEPT ![h] = Off]
  /\ command' = [command EXCEPT ![h] = "none"]
  /\ UNCHANGED <<archives, posted, last>>

HandoffStep(h) ==
  RetireSync(h) \/ RetireCompanion(h) \/ AbandonRetiredClaims(h) \/ Down(h) \/ Export(h)
BackupStep(h) ==
  BeginBackup(h) \/ EndBackup(h) \/ MarkRoot(h) \/ \E x \in archives : RestoreStores(x, h)
OperatorStep(h) == \E j \in Jobs : Reconcile(h, j) \/ Release(h, j)
ReleaseStep(h) ==
  AllowPaidWorker(h) \/ ReleaseAfterLoss(h) \/ UnlinkPending(h) \/ UnlinkPause(h)

Next ==
  \E h \in Hosts :
    \/ WorkerStep(h) \/ HandoffStep(h) \/ BackupStep(h) \/ OperatorStep(h) \/ ReleaseStep(h)
    \/ Interrupted(h) \/ Lose(h)

Spec == Init /\ [][Next]_vars

-----------------------------------------------------------------------------
(* Properties.                                                               *)

TypeOK ==
  /\ disk \in [Hosts -> Disk] /\ ledger \in [Hosts -> Ledger] /\ worker \in [Hosts -> Worker]
  /\ command \in [Hosts -> Commands] /\ archives \subseteq Archive /\ posted \subseteq Calls
  /\ last \in Hosts

\* At most one host may call the paid provider, whatever a worker of the source was
\* doing when it was retired and wherever a handoff or a release was interrupted.
SoleSpender == \A g, h \in Hosts : MayPay(g) /\ MayPay(h) => g = h

\* What a history accounts for: its own attempts, held or charged, and usage stated
\* for a lost host.
Counts(row, h) == row.by = h /\ row.stage \notin {"queued", "reserved"}
Accounted(history) ==
  {c \in Calls : Counts(history.rows[c[2]], c[1])}
    \union UNION {history.recoveries[g] : g \in {i \in Hosts : history.recoveries[i] # None}}

\* LINUX.md: some usage may count twice, "but never too little".  Every call that was
\* ever billed counts on the host that may make the next one.
NeverTooLittle == \A h \in Hosts : MayPay(h) => posted \subseteq Accounted(ledger[h])

\* A host that may pay has no open attempt of another: no claim or saved response of
\* a source is resumed by its replacement, and none blocks it.
CopiesStartSettled ==
  \A h \in Hosts : MayPay(h) =>
    \A j \in Jobs : ledger[h].rows[j].stage \in Open => ledger[h].rows[j].by = h
=============================================================================
