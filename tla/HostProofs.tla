----------------------------- MODULE HostProofs -----------------------------
(***************************************************************************)
(* That at most one host may pay, that it starts with no charge of another *)
(* host open, and that it counts every billed call, for every number of    *)
(* hosts, jobs and archives; the first two also when copies that are still *)
(* paused are backed up.                                                   *)
(***************************************************************************)
EXTENDS HostRecovery, TLAPS

(* A host is active while a call may leave it or while its pause is being  *)
(* released; a final one never becomes active again.                       *)
Active(h) == MayPay(h) \/ Releasing(h)

Final(h) ==
  /\ disk[h].root = "lost" \/ (Ready(h) /\ Retired(h))
  /\ worker[h].pc # "calling" /\ ~Releasing(h)

HostInv(h) ==
  /\ ~Stopped(h) => Ready(h) /\ ~disk[h].pending /\ disk[h].pause = None
  /\ worker[h].pc \notin {"off", "idle"} => worker[h].job \in Jobs
  /\ command[h] \notin {"none", "restore"} => Ready(h)
  /\ command[h] = "restore" => disk[h].root = "partial" /\ disk[h].pending
  /\ Releasing(h) => ~Fenced(h)
  /\ command[h] \in {"abandon", "down", "export"} => Retired(h)
  /\ command[h] = "export" => Stopped(h)

OneActive == \A g, h \in Hosts : Active(g) /\ Active(h) => g = h
SourcesFinal ==
  /\ \A x \in archives : x.handoff # None => Final(x.host)
  /\ \A h \in Hosts : disk[h].receipt # None => disk[h].from \in Hosts /\ Final(disk[h].from)

IInv == TypeOK /\ (\A h \in Hosts : HostInv(h)) /\ OneActive /\ SourcesFinal

-----------------------------------------------------------------------------
(* What a step of one host may do.                                           *)

OthersSame(h) ==
  \A g \in Hosts \ {h} : disk'[g] = disk[g] /\ worker'[g] = worker[g] /\ command'[g] = command[g]

Granted(h) == command[h] = "none" /\ command'[h] = "release"
AloneWhenActive(h) ==
  Active(h)' => Active(h) \/ (Granted(h) /\ \A g \in Hosts \ {h} : ~Active(g))

ReceiptFromArchive(h) ==
  disk'[h].receipt # None =>
    \/ disk'[h].receipt = disk[h].receipt /\ disk'[h].from = disk[h].from
    \/ disk[h].root = "none" /\ \E x \in archives : x.handoff # None /\ disk'[h].from = x.host

HandoffsFinal(h) ==
  \A x \in archives' \ archives : x.handoff # None => x.host = h /\ Final(h)'

Move(h) ==
  /\ OthersSame(h) /\ HostInv(h)' /\ AloneWhenActive(h) /\ (Final(h) => Final(h)')
  /\ ReceiptFromArchive(h) /\ HandoffsFinal(h)

Step(h) ==
  \/ WorkerStep(h) \/ HandoffStep(h) \/ BackupStep(h) \/ OperatorStep(h) \/ ReleaseStep(h)
  \/ Interrupted(h) \/ Lose(h)

-----------------------------------------------------------------------------
(* Types.                                                                    *)

LEMMA RetirementIdType ==
  ASSUME TypeOK, NEW h \in Hosts
  PROVE  RetirementId(h) \in Hosts
<1>1. disk[h].fence \in [Stores -> Hosts \union {None}]
  BY DEF TypeOK, Disk, Fence
<1>2. CASE Fenced(h)
  <2>1. \E id \in Hosts : \E s \in Stores : disk[h].fence[s] = id
    BY <1>1, <1>2 DEF Fenced
  <2> QED BY <1>2, <2>1 DEF RetirementId
<1>3. CASE ~Fenced(h)
  BY <1>3 DEF RetirementId
<1> QED BY <1>2, <1>3

(* Every change of a host's rows and recoveries. *)
LEMMA LedgerTypes ==
  ASSUME TypeOK, NEW h \in Hosts
  PROVE  /\ \A j \in Jobs, stage \in Stages, by \in Hosts \union {None} :
              SetRow(h, j, stage, by) => ledger' \in [Hosts -> Ledger]
         /\ Abandoned(ledger[h].rows) \in [Jobs -> Row]
         /\ \A lapsed \in SUBSET Jobs : Recovered(ledger[h].rows, lapsed) \in [Jobs -> Row]
         /\ \A usage \in SUBSET Calls : AfterLoss(h, usage) \in Ledger
         /\ NewLedger \in Ledger
<1>1. /\ ledger[h] \in Ledger /\ ledger[h].rows \in [Jobs -> Row]
      /\ ledger[h].recoveries \in [Hosts -> (SUBSET Calls) \union {None}]
  BY DEF TypeOK, Ledger
<1>2. Queued \in Row
  BY DEF Queued, Row, Stages
<1>3. ASSUME NEW j \in Jobs, NEW stage \in Stages, NEW by \in Hosts \union {None},
             SetRow(h, j, stage, by)
      PROVE  ledger' \in [Hosts -> Ledger]
  <2>1. [stage |-> stage, by |-> by] \in Row
    BY <1>3 DEF Row
  <2>2. [ledger[h].rows EXCEPT ![j] = [stage |-> stage, by |-> by]] \in [Jobs -> Row]
    BY <1>1, <2>1
  <2> DEFINE entry == [ledger[h] EXCEPT !.rows[j] = [stage |-> stage, by |-> by]]
  <2>3. entry \in Ledger
    BY <1>1, <2>2 DEF Ledger
  <2>4. ledger' = [ledger EXCEPT ![h] = entry]
    BY <1>3 DEF SetRow, TypeOK
  <2>5. ledger \in [Hosts -> Ledger]
    BY DEF TypeOK
  <2> QED BY <2>3, <2>4, <2>5
<1>4. Abandoned(ledger[h].rows) \in [Jobs -> Row]
  BY <1>1, <1>2 DEF Abandoned
<1>5. ASSUME NEW lapsed \in SUBSET Jobs
      PROVE  Recovered(ledger[h].rows, lapsed) \in [Jobs -> Row]
  BY <1>1, <1>2 DEF Recovered, Row, Stages, Open
<1>6. SettledAfterLoss(ledger[h].rows) \in [Jobs -> Row]
  BY <1>1, <1>4 DEF SettledAfterLoss, Row, Stages, Open
<1>7. ASSUME NEW usage \in SUBSET Calls
      PROVE  AfterLoss(h, usage) \in Ledger
  BY <1>1, <1>6 DEF AfterLoss, Ledger
<1>8. NewLedger \in Ledger
  BY <1>2 DEF NewLedger, Ledger
<1> QED BY <1>3, <1>4, <1>5, <1>7, <1>8

LEMMA WorkerTypes ==
  ASSUME TypeOK, NEW h \in Hosts, HostInv(h), WorkerStep(h)
  PROVE  TypeOK'
<1>0. USE DEF Idle, Off, Worker
<1>1. /\ disk \in [Hosts -> Disk] /\ ledger \in [Hosts -> Ledger] /\ worker \in [Hosts -> Worker]
      /\ command \in [Hosts -> Commands] /\ archives \subseteq Archive /\ posted \subseteq Calls
      /\ last \in Hosts
  BY DEF TypeOK
<1>2. \A j \in Jobs : ledger[h].rows[j].by \in Hosts \union {None}
  BY <1>1 DEF Ledger, Row
<1>3. worker[h].pc \notin {"off", "idle"} => worker[h].job \in Jobs
  BY DEF HostInv
<1>4. {"calling", "settled", "response", "attention"} \subseteq Stages
  BY DEF Stages, Open
<1>5. CASE StartWorker(h) \/ StopWorker(h) \/ WorkerRestarts(h)
  BY <1>1, <1>5 DEF StartWorker, StopWorker, WorkerRestarts, Entered, TypeOK
<1>6. CASE Claim(h)
  <2>1. PICK lapsed \in SUBSET Running(h) :
          LET rows == Recovered(ledger[h].rows, lapsed)
              queued == {j \in Jobs : rows[j] = Queued}
          IN  \/ \E j \in queued :
                   /\ ledger' = [ledger EXCEPT ![h].rows =
                                   [rows EXCEPT ![j] = [stage |-> "reserved", by |-> h]]]
                   /\ worker' = [worker EXCEPT ![h] = [pc |-> "claimed", job |-> j]]
              \/ /\ queued = {} /\ lapsed # {}
                 /\ ledger' = [ledger EXCEPT ![h].rows = rows]
                 /\ UNCHANGED worker
    BY <1>6 DEF Claim
  <2> DEFINE rows == Recovered(ledger[h].rows, lapsed)
  <2>2. rows \in [Jobs -> Row]
    BY LedgerTypes DEF Running
  <2>3. [stage |-> "reserved", by |-> h] \in Row
    BY DEF Row, Stages, Open
  <2>4. \A new \in [Jobs -> Row] :
          ledger' = [ledger EXCEPT ![h].rows = new] => ledger' \in [Hosts -> Ledger]
    <3> SUFFICES ASSUME NEW new \in [Jobs -> Row], ledger' = [ledger EXCEPT ![h].rows = new]
                 PROVE  ledger' \in [Hosts -> Ledger]
      OBVIOUS
    <3> DEFINE entry == [ledger[h] EXCEPT !.rows = new]
    <3>1. entry \in Ledger
      BY <1>1 DEF Ledger
    <3> QED BY <1>1, <3>1
  <2>5. \A j \in Jobs : [rows EXCEPT ![j] = [stage |-> "reserved", by |-> h]] \in [Jobs -> Row]
    BY <2>2, <2>3
  <2>6. PICK new \in [Jobs -> Row] : ledger' = [ledger EXCEPT ![h].rows = new]
    BY <2>1, <2>2, <2>5
  <2>7. ledger' \in [Hosts -> Ledger]
    BY <2>4, <2>6
  <2>8. worker' \in [Hosts -> Worker]
    BY <1>1, <2>1
  <2> QED BY <1>1, <1>6, <2>7, <2>8 DEF Claim, TypeOK
<1>7. CASE Calling(h)
  <2>1. ledger' \in [Hosts -> Ledger]
    BY <1>3, <1>4, <1>7, LedgerTypes DEF Calling
  <2> QED BY <1>1, <1>7, <2>1 DEF Calling, TypeOK
<1>8. CASE CallingRetired(h)
  <2>1. ledger' \in [Hosts -> Ledger]
    BY <1>1, <1>8, LedgerTypes DEF CallingRetired, Ledger
  <2> QED BY <1>1, <1>8, <2>1 DEF CallingRetired, Entered, TypeOK
<1>9. CASE Submit(h)
  <2>1. worker[h].job \in Jobs
    BY <1>3, <1>9 DEF Submit
  <2>2. ledger' \in [Hosts -> Ledger]
    BY <1>1, <1>4, <1>9, <2>1, LedgerTypes DEF Submit
  <2>3. posted' \subseteq Calls
    BY <1>1, <1>9, <2>1 DEF Submit, Calls
  <2> QED BY <1>1, <1>9, <2>2, <2>3 DEF Submit, TypeOK
<1>10. CASE Submitted(h) \/ Fail(h)
  <2>1. ledger' \in [Hosts -> Ledger]
    BY <1>3, <1>4, <1>10, LedgerTypes DEF Submitted, Fail
  <2> QED BY <1>1, <1>10, <2>1 DEF Submitted, Fail, TypeOK
<1>11. ASSUME NEW j \in Jobs, Retrieve(h, j)
       PROVE  TypeOK'
  <2>1. ledger' \in [Hosts -> Ledger]
    BY <1>2, <1>4, <1>11, LedgerTypes DEF Retrieve
  <2> QED BY <1>1, <1>11, <2>1 DEF Retrieve, TypeOK
<1> QED BY <1>5, <1>6, <1>7, <1>8, <1>9, <1>10, <1>11 DEF WorkerStep

LEMMA HandoffTypes ==
  ASSUME TypeOK, NEW h \in Hosts, HandoffStep(h)
  PROVE  TypeOK'
<1>1. /\ disk \in [Hosts -> Disk] /\ ledger \in [Hosts -> Ledger] /\ worker \in [Hosts -> Worker]
      /\ command \in [Hosts -> Commands] /\ archives \subseteq Archive /\ posted \subseteq Calls
      /\ last \in Hosts
  BY DEF TypeOK
<1>2. {"none", "fence", "abandon", "down", "export"} \subseteq Commands
  BY DEF Commands
<1>3. ASSUME NEW s \in Stores, disk' = [disk EXCEPT ![h].fence[s] = RetirementId(h)]
      PROVE  disk' \in [Hosts -> Disk]
  <2>1. RetirementId(h) \in Hosts
    BY RetirementIdType
  <2> DEFINE fence == [disk[h].fence EXCEPT ![s] = RetirementId(h)]
  <2>2. fence \in Fence
    BY <1>1, <2>1 DEF Disk, Fence
  <2>3. [disk[h] EXCEPT !.fence = fence] \in Disk
    BY <1>1, <2>2 DEF Disk
  <2>4. disk' = [disk EXCEPT ![h] = [disk[h] EXCEPT !.fence = fence]]
    BY <1>3
  <2> QED BY <1>1, <2>3, <2>4
<1>4. CASE RetireSync(h)
  <2>1. disk' \in [Hosts -> Disk]
    BY <1>3, <1>4 DEF RetireSync, Stores
  <2> QED BY <1>1, <1>2, <1>4, <2>1 DEF RetireSync, TypeOK
<1>5. CASE RetireCompanion(h)
  <2>1. disk' \in [Hosts -> Disk]
    BY <1>3, <1>5 DEF RetireCompanion, Stores
  <2> QED BY <1>1, <1>2, <1>5, <2>1 DEF RetireCompanion, TypeOK
<1>6. CASE AbandonRetiredClaims(h)
  <2>1. ledger' \in [Hosts -> Ledger]
    BY <1>1, <1>6, LedgerTypes DEF AbandonRetiredClaims, Ledger
  <2> QED BY <1>1, <1>2, <1>6, <2>1 DEF AbandonRetiredClaims, TypeOK
<1>7. CASE Down(h)
  BY <1>1, <1>2, <1>7 DEF Down, Off, Worker, TypeOK
<1>8. CASE Export(h)
  <2>1. Archived(h, disk[h].fence["sync"]) \in Archive
    BY <1>1 DEF Archived, Archive, Disk, Fence, Stores
  <2> QED BY <1>1, <1>2, <1>8, <2>1 DEF Export, TypeOK
<1> QED BY <1>4, <1>5, <1>6, <1>7, <1>8 DEF HandoffStep

LEMMA BackupTypes ==
  ASSUME TypeOK, NEW h \in Hosts, BackupStep(h)
  PROVE  TypeOK'
<1>1. /\ disk \in [Hosts -> Disk] /\ ledger \in [Hosts -> Ledger] /\ worker \in [Hosts -> Worker]
      /\ command \in [Hosts -> Commands] /\ archives \subseteq Archive /\ posted \subseteq Calls
      /\ last \in Hosts
  BY DEF TypeOK
<1>2. {"none", "backup", "backup running", "restore"} \subseteq Commands
  BY DEF Commands
<1>3. Off \in Worker /\ Idle \in Worker
  BY DEF Off, Idle, Worker
<1>4. CASE BeginBackup(h)
  BY <1>1, <1>2, <1>3, <1>4 DEF BeginBackup, TypeOK
<1>5. CASE EndBackup(h)
  <2>1. Archived(h, None) \in Archive
    BY <1>1 DEF Archived, Archive, Disk
  <2> QED BY <1>1, <1>2, <1>3, <1>5, <2>1 DEF EndBackup, Entered, TypeOK
<1>6. CASE MarkRoot(h)
  <2>1. [disk[h] EXCEPT !.root = "ready"] \in Disk
    BY <1>1 DEF Disk
  <2> QED BY <1>1, <1>2, <1>6, <2>1 DEF MarkRoot, TypeOK
<1>7. ASSUME NEW x \in archives, RestoreStores(x, h)
      PROVE  TypeOK'
  <2>1. x \in Archive
    BY <1>1
  <2>2. NoFence \in Fence
    BY DEF NoFence, Fence
  <2>3. Copied(x) \in Disk
    <3>1. x.handoff # None => [handoff |-> x.handoff, ledger |-> x.ledger] \in Receipt
      BY <2>1 DEF Archive, Receipt
    <3> QED BY <2>1, <2>2, <3>1 DEF Copied, Archive, Disk
  <2>4. x.ledger \in Ledger
    BY <2>1 DEF Archive
  <2> QED BY <1>1, <1>2, <1>7, <2>3, <2>4 DEF RestoreStores, TypeOK
<1> QED BY <1>4, <1>5, <1>6, <1>7 DEF BackupStep

LEMMA OtherTypes ==
  ASSUME TypeOK, NEW h \in Hosts, OperatorStep(h) \/ ReleaseStep(h) \/ Interrupted(h) \/ Lose(h)
  PROVE  TypeOK'
<1>1. /\ disk \in [Hosts -> Disk] /\ ledger \in [Hosts -> Ledger] /\ worker \in [Hosts -> Worker]
      /\ command \in [Hosts -> Commands] /\ archives \subseteq Archive /\ posted \subseteq Calls
      /\ last \in Hosts
  BY DEF TypeOK
<1>2. {"none", "release", "unlink"} \subseteq Commands
  BY DEF Commands
<1>3. ASSUME NEW j \in Jobs, Reconcile(h, j) \/ Release(h, j)
      PROVE  TypeOK'
  <2>1. ledger[h].rows[j].by \in Hosts \union {None} /\ {"settled", "attention"} \subseteq Stages
    BY <1>1 DEF Ledger, Row, Stages, Open
  <2>2. ledger' \in [Hosts -> Ledger]
    BY <1>3, <2>1, LedgerTypes DEF Reconcile, Release
  <2> QED BY <1>1, <1>3, <2>2 DEF Reconcile, Release, TypeOK
<1>4. CASE AllowPaidWorker(h)
  <2>1. disk[h].receipt.handoff \in Hosts
    BY <1>1, <1>4 DEF AllowPaidWorker, Disk, Receipt
  <2> QED BY <1>1, <1>2, <1>4, <2>1 DEF AllowPaidWorker, TypeOK
<1>5. CASE ReleaseAfterLoss(h)
  <2>1. posted \ disk[h].pause \in SUBSET Calls
    BY <1>1
  <2>2. AfterLoss(h, posted \ disk[h].pause) \in Ledger
    BY <2>1, LedgerTypes
  <2>3. ledger' \in [Hosts -> Ledger]
    BY <1>1, <1>5, <2>2 DEF ReleaseAfterLoss
  <2> QED BY <1>1, <1>2, <1>5, <2>3 DEF ReleaseAfterLoss, TypeOK
<1>6. CASE UnlinkPending(h)
  <2>1. [disk[h] EXCEPT !.pending = FALSE] \in Disk
    BY <1>1 DEF Disk
  <2> QED BY <1>1, <1>2, <1>6, <2>1 DEF UnlinkPending, TypeOK
<1>7. CASE UnlinkPause(h)
  <2>1. [disk[h] EXCEPT !.pause = None] \in Disk
    BY <1>1 DEF Disk
  <2> QED BY <1>1, <1>2, <1>7, <2>1 DEF UnlinkPause, TypeOK
<1>8. CASE Interrupted(h)
  BY <1>1, <1>2, <1>8 DEF Interrupted, TypeOK
<1>9. CASE Lose(h)
  <2>1. Unmarked("lost") \in Disk
    BY DEF Unmarked, NoFence, Fence, Disk
  <2>2. NewLedger \in Ledger
    BY LedgerTypes
  <2> QED BY <1>1, <1>2, <1>9, <2>1, <2>2 DEF Lose, Off, Worker, TypeOK
<1> QED BY <1>3, <1>4, <1>5, <1>6, <1>7, <1>8, <1>9 DEF OperatorStep, ReleaseStep

-----------------------------------------------------------------------------
(* Every step is a move of its host.                                         *)

LEMMA WorkerMoves ==
  ASSUME IInv, NEW h \in Hosts, WorkerStep(h)
  PROVE  Move(h)
<1>1. TypeOK /\ HostInv(h)
  BY DEF IInv
<1>2. /\ disk' = disk /\ command' = command /\ archives' = archives
      /\ worker \in [Hosts -> Worker]
  BY <1>1 DEF WorkerStep, StartWorker, StopWorker, WorkerRestarts, Claim, Calling,
              CallingRetired, Submit, Submitted, Fail, Retrieve, TypeOK
<1>3. ReceiptFromArchive(h) /\ HandoffsFinal(h)
  BY <1>2 DEF ReceiptFromArchive, HandoffsFinal
<1>4. PICK w : /\ worker' = [worker EXCEPT ![h] = w]
               /\ \/ w.pc = "off"
                  \/ Free(h) /\ Unpaused(h) /\ w = Idle
                  \/ ~Stopped(h) /\ w = Idle
                  \/ ~Stopped(h) /\ w.pc \in {"claimed", "posted"} /\ w.job \in Jobs
                  \/ worker[h].pc = "claimed" /\ ~Retired(h) /\ w = [worker[h] EXCEPT !.pc = "calling"]
                  \/ w = worker[h]
  <2>1. CASE StartWorker(h) \/ StopWorker(h) \/ WorkerRestarts(h)
    BY <2>1 DEF StartWorker, StopWorker, WorkerRestarts, Entered, Off, Stopped
  <2>2. CASE Claim(h)
    <3>1. CASE worker' = worker
      BY <1>2, <3>1
    <3>2. CASE worker' # worker
      <4>1. PICK j \in Jobs : worker' = [worker EXCEPT ![h] = [pc |-> "claimed", job |-> j]]
        BY <2>2, <3>2 DEF Claim
      <4> DEFINE w == [pc |-> "claimed", job |-> j]
      <4>2. ~Stopped(h) /\ w.pc = "claimed" /\ w.job \in Jobs
        BY <2>2 DEF Claim, Stopped
      <4>3. worker' = [worker EXCEPT ![h] = w]
        BY <4>1
      <4> HIDE DEF w
      <4> QED BY <4>2, <4>3
    <3> QED BY <3>1, <3>2
  <2>3. CASE Calling(h)
    <3>1. worker' = [worker EXCEPT ![h] = [worker[h] EXCEPT !.pc = "calling"]]
      BY <2>3 DEF Calling
    <3> QED BY <2>3, <3>1 DEF Calling
  <2>4. CASE CallingRetired(h)
    <3>1. ~Stopped(h)
      BY <2>4 DEF CallingRetired, Stopped
    <3>2. worker' = [worker EXCEPT ![h] = Idle] \/ worker' = [worker EXCEPT ![h] = Off]
      BY <2>4 DEF CallingRetired, Entered
    <3> QED BY <3>1, <3>2 DEF Off
  <2>5. CASE Submit(h)
    <3>1. worker' = [worker EXCEPT ![h] = [worker[h] EXCEPT !.pc = "posted"]]
            \/ worker' = [worker EXCEPT ![h] = Idle]
      BY <2>5 DEF Submit
    <3>2. worker[h].job \in Jobs /\ ~Stopped(h)
      BY <1>1, <2>5 DEF Submit, HostInv, Stopped
    <3>3. /\ [worker[h] EXCEPT !.pc = "posted"].pc = "posted"
          /\ [worker[h] EXCEPT !.pc = "posted"].job = worker[h].job
      BY <1>2 DEF Worker
    <3> QED BY <3>1, <3>2, <3>3
  <2>6. CASE Submitted(h) \/ Fail(h)
    BY <2>6 DEF Submitted, Fail, Stopped
  <2>7. ASSUME NEW j \in Jobs, Retrieve(h, j)
        PROVE  worker' = [worker EXCEPT ![h] = worker[h]]
    BY <1>2, <2>7 DEF Retrieve
  <2> QED BY <2>1, <2>2, <2>3, <2>4, <2>5, <2>6, <2>7 DEF WorkerStep
<1>5. worker'[h] = w /\ \A g \in Hosts \ {h} : worker'[g] = worker[g]
  BY <1>2, <1>4
<1>6. /\ Ready(h)' = Ready(h) /\ Releasing(h)' = Releasing(h) /\ Retired(h)' = Retired(h)
      /\ Fenced(h)' = Fenced(h) /\ Unpaused(h)' = Unpaused(h)
  BY <1>2 DEF Ready, Releasing, Retired, Fenced, Unpaused
<1>7. /\ w.pc # "off" => Ready(h) /\ ~disk[h].pending /\ disk[h].pause = None
      /\ w.pc \notin {"off", "idle"} => w.job \in Jobs
      /\ command[h] = "export" => w.pc = "off"
      /\ w.pc = "calling" => worker[h].pc = "calling" \/ (Ready(h) /\ Unpaused(h) /\ ~Retired(h))
  <2>1. worker[h] \in Worker
    BY <1>2
  <2>2. Idle.pc = "idle"
    BY DEF Idle
  <2>3. [worker[h] EXCEPT !.pc = "calling"].job = worker[h].job
    BY <2>1 DEF Worker
  <2>4. Free(h) => command[h] = "none" /\ Ready(h)
    BY DEF Free
  <2> QED BY <1>1, <1>4, <2>1, <2>2, <2>3, <2>4 DEF HostInv, Stopped, Unpaused
<1>8. HostInv(h)'
  BY <1>1, <1>2, <1>5, <1>6, <1>7 DEF HostInv, Stopped, Ready, Retired, Fenced, Releasing
<1>9. AloneWhenActive(h)
  BY <1>5, <1>6, <1>7 DEF AloneWhenActive, Active, MayPay
<1>10. Final(h) => Final(h)'
  BY <1>2, <1>5, <1>6, <1>7 DEF Final, Ready
<1>11. OthersSame(h)
  BY <1>2, <1>5 DEF OthersSame
<1> QED BY <1>3, <1>8, <1>9, <1>10, <1>11 DEF Move

LEMMA HandoffMoves ==
  ASSUME IInv, NEW h \in Hosts, HandoffStep(h)
  PROVE  Move(h)
<1>1. TypeOK /\ HostInv(h)
  BY DEF IInv
<1>2. /\ disk \in [Hosts -> Disk] /\ worker \in [Hosts -> Worker] /\ command \in [Hosts -> Commands]
      /\ disk[h].fence \in [Stores -> Hosts \union {None}]
  BY <1>1 DEF TypeOK, Disk, Fence
<1>3. OthersSame(h)
  BY <1>2 DEF OthersSame, HandoffStep, RetireSync, RetireCompanion, AbandonRetiredClaims, Down, Export
<1>4. /\ disk'[h].root = disk[h].root /\ disk'[h].pending = disk[h].pending
      /\ disk'[h].pause = disk[h].pause /\ disk'[h].receipt = disk[h].receipt
      /\ disk'[h].from = disk[h].from
  BY <1>2 DEF HandoffStep, RetireSync, RetireCompanion, AbandonRetiredClaims, Down, Export, Disk
<1>5. /\ command'[h] \notin {"release", "unlink", "restore"} /\ ~Releasing(h)
      /\ Ready(h) /\ (Retired(h) => Retired(h)')
      /\ command'[h] \in {"abandon", "down", "export"} => Retired(h)'
  <2>1. CASE RetireSync(h)
    <3>1. disk'[h].fence["companion"] = disk[h].fence["companion"]
      BY <1>2, <2>1 DEF RetireSync, Disk, Stores
    <3> QED BY <1>2, <2>1, <3>1 DEF RetireSync, Free, Releasing, Retired
  <2>2. CASE RetireCompanion(h)
    <3>1. RetirementId(h) \in Hosts
      BY <1>1, RetirementIdType
    <3>2. disk'[h].fence["companion"] = RetirementId(h)
      BY <1>2, <2>2 DEF RetireCompanion, Disk, Stores
    <3>3. Retired(h)'
      BY <3>1, <3>2, NoneAssumption DEF Retired
    <3> QED BY <1>1, <1>2, <2>2, <3>3 DEF RetireCompanion, Releasing, HostInv
  <2>3. CASE AbandonRetiredClaims(h) \/ Down(h) \/ Export(h)
    BY <1>1, <1>2, <2>3 DEF AbandonRetiredClaims, Down, Export, Releasing, Retired, HostInv
  <2> QED BY <2>1, <2>2, <2>3 DEF HandoffStep
<1>6. /\ worker'[h] = worker[h] \/ worker'[h] = Off
      /\ command'[h] = "export" => worker'[h] = Off
  BY <1>2 DEF HandoffStep, RetireSync, RetireCompanion, AbandonRetiredClaims, Down, Export
<1>7. HostInv(h)'
  BY <1>1, <1>4, <1>5, <1>6 DEF HostInv, Stopped, Ready, Releasing, Off
<1>8. AloneWhenActive(h)
  BY <1>4, <1>5, <1>6 DEF AloneWhenActive, Active, MayPay, Releasing, Ready, Unpaused, Off
<1>9. Final(h) => Final(h)'
  BY <1>4, <1>5, <1>6 DEF Final, Ready, Releasing, Off
<1>10. ReceiptFromArchive(h)
  BY <1>4 DEF ReceiptFromArchive
<1>11. HandoffsFinal(h)
  <2>1. CASE ~Export(h)
    BY <2>1 DEF HandoffsFinal, HandoffStep, RetireSync, RetireCompanion, AbandonRetiredClaims, Down
  <2>2. CASE Export(h)
    <3>1. Archived(h, disk[h].fence["sync"]).host = h
      BY DEF Archived
    <3>2. Final(h)'
      BY <1>1, <1>4, <1>5, <1>6, <2>2 DEF Export, HostInv, Final, Stopped, Ready, Releasing, Off
    <3> QED BY <2>2, <3>1, <3>2 DEF Export, HandoffsFinal
  <2> QED BY <2>1, <2>2
<1> QED BY <1>3, <1>7, <1>8, <1>9, <1>10, <1>11 DEF Move

LEMMA BackupMoves ==
  ASSUME IInv, NEW h \in Hosts, BackupStep(h)
  PROVE  Move(h)
<1>1. TypeOK /\ HostInv(h)
  BY DEF IInv
<1>2. /\ disk \in [Hosts -> Disk] /\ worker \in [Hosts -> Worker] /\ command \in [Hosts -> Commands]
      /\ archives \subseteq Archive
  BY <1>1 DEF TypeOK
<1>3. CASE BeginBackup(h) \/ EndBackup(h)
  <2>1. OthersSame(h)
    BY <1>2, <1>3 DEF OthersSame, BeginBackup, EndBackup
  <2>2. /\ disk' = disk /\ Ready(h)
        /\ command'[h] \in {"none", "backup", "backup running"} /\ ~Releasing(h)
        /\ worker'[h].pc = "off" \/ (worker'[h].pc = "idle" /\ Unpaused(h))
    <3>1. /\ disk' = disk /\ Ready(h)
          /\ command'[h] \in {"none", "backup", "backup running"} /\ ~Releasing(h)
          /\ worker'[h] = Off \/ (worker'[h] = Idle /\ Unpaused(h))
      BY <1>1, <1>2, <1>3 DEF BeginBackup, EndBackup, Entered, Free, HostInv, Releasing
    <3>2. Off.pc = "off" /\ Idle.pc = "idle"
      BY DEF Off, Idle
    <3> QED BY <3>1, <3>2
  <2>3. HostInv(h)'
    BY <1>1, <2>2 DEF HostInv, Stopped, Ready, Releasing, Unpaused
  <2>4. AloneWhenActive(h)
    BY <2>2 DEF AloneWhenActive, Active, MayPay, Releasing, Ready, Unpaused, Retired
  <2>5. Final(h) => Final(h)'
    BY <2>2 DEF Final, Ready, Retired, Releasing
  <2>6. ReceiptFromArchive(h)
    BY <2>2 DEF ReceiptFromArchive
  <2>7. HandoffsFinal(h)
    <3>1. Archived(h, None).handoff = None
      BY DEF Archived
    <3> QED BY <1>3, <3>1 DEF BeginBackup, EndBackup, HandoffsFinal
  <2> QED BY <2>1, <2>3, <2>4, <2>5, <2>6, <2>7 DEF Move
<1>4. CASE MarkRoot(h)
  <2>1. /\ OthersSame(h) /\ worker' = worker /\ archives' = archives
        /\ command[h] = "restore" /\ command'[h] = "none"
    BY <1>2, <1>4 DEF OthersSame, MarkRoot
  <2>2. /\ disk'[h].root = "ready" /\ disk'[h].pending = disk[h].pending
        /\ disk'[h].receipt = disk[h].receipt /\ disk'[h].from = disk[h].from
    BY <1>2, <1>4 DEF MarkRoot, Disk
  <2>3. disk[h].root = "partial" /\ disk[h].pending /\ Stopped(h)
    BY <1>1, <2>1 DEF HostInv, Ready
  <2>4. HostInv(h)'
    BY <2>1, <2>2, <2>3 DEF HostInv, Stopped, Ready, Releasing
  <2>5. AloneWhenActive(h)
    BY <2>1, <2>2, <2>3 DEF AloneWhenActive, Active, MayPay, Releasing, Unpaused, Stopped
  <2>6. ~Final(h)
    BY <2>3 DEF Final, Ready
  <2> QED BY <2>1, <2>2, <2>4, <2>5, <2>6 DEF Move, ReceiptFromArchive, HandoffsFinal
<1>5. ASSUME NEW x \in archives, RestoreStores(x, h)
      PROVE  Move(h)
  <2>1. /\ OthersSame(h) /\ worker' = worker /\ archives' = archives
        /\ disk[h].root = "none" /\ command'[h] = "restore" /\ disk'[h] = Copied(x)
    BY <1>2, <1>5 DEF OthersSame, RestoreStores
  <2>2. /\ disk'[h].root = "partial" /\ disk'[h].pending /\ disk'[h].from = x.host
        /\ disk'[h].receipt # None => x.handoff # None
    BY <2>1 DEF Copied
  <2>3. Stopped(h)
    BY <1>1, <2>1 DEF HostInv, Ready
  <2>4. HostInv(h)'
    BY <2>1, <2>2, <2>3 DEF HostInv, Stopped, Ready, Releasing
  <2>5. AloneWhenActive(h)
    BY <2>1, <2>2, <2>3 DEF AloneWhenActive, Active, MayPay, Releasing, Unpaused, Stopped
  <2>6. ~Final(h)
    BY <2>1 DEF Final, Ready
  <2> QED BY <2>1, <2>2, <2>4, <2>5, <2>6 DEF Move, ReceiptFromArchive, HandoffsFinal
<1> QED BY <1>3, <1>4, <1>5 DEF BackupStep

LEMMA OtherMoves ==
  ASSUME IInv, NEW h \in Hosts, OperatorStep(h) \/ ReleaseStep(h) \/ Interrupted(h) \/ Lose(h)
  PROVE  Move(h)
<1>1. TypeOK /\ HostInv(h)
  BY DEF IInv
<1>2. /\ disk \in [Hosts -> Disk] /\ worker \in [Hosts -> Worker] /\ command \in [Hosts -> Commands]
  BY <1>1 DEF TypeOK
<1>3. archives' = archives /\ HandoffsFinal(h)
  BY DEF HandoffsFinal, OperatorStep, ReleaseStep, Reconcile, Release, AllowPaidWorker,
         ReleaseAfterLoss, UnlinkPending, UnlinkPause, Interrupted, Lose
<1>4. CASE OperatorStep(h)
  <2>1. disk' = disk /\ worker' = worker /\ command' = command
    BY <1>4 DEF OperatorStep, Reconcile, Release
  <2>2. HostInv(h)'
    BY <1>1, <2>1 DEF HostInv, Stopped, Ready, Releasing, Fenced, Retired
  <2> QED BY <1>3, <2>1, <2>2 DEF Move, OthersSame, AloneWhenActive, ReceiptFromArchive,
                                  Active, MayPay, Releasing, Ready, Unpaused, Retired, Final
<1>5. CASE AllowPaidWorker(h) \/ ReleaseAfterLoss(h)
  <2>1. /\ disk' = disk /\ worker' = worker /\ OthersSame(h) /\ command'[h] = "release"
        /\ Ready(h) /\ Stopped(h) /\ ~Fenced(h)
    BY <1>2, <1>5 DEF AllowPaidWorker, ReleaseAfterLoss, OthersSame, Free
  <2>2. ~Retired(h)
    BY <2>1 DEF Fenced, Retired, Stores
  <2>3. HostInv(h)'
    BY <2>1 DEF HostInv, Stopped, Ready, Fenced
  <2>4. \A g \in Hosts \ {h} : ~Active(g)
    <3>1. CASE ReleaseAfterLoss(h)
      BY <3>1 DEF ReleaseAfterLoss, SoleAmong, Active
    <3>2. CASE AllowPaidWorker(h)
      <4>1. Final(disk[h].from)
        BY <3>2 DEF AllowPaidWorker, IInv, SourcesFinal
      <4>2. ~Active(disk[h].from)
        BY <4>1 DEF Active, Final, MayPay, Ready, Unpaused
      <4> QED BY <3>2, <4>2 DEF AllowPaidWorker, SoleAmong, Active
    <3> QED BY <1>5, <3>1, <3>2
  <2>5. ~Final(h)
    BY <2>1, <2>2 DEF Final, Ready
  <2>6. Granted(h)
    BY <1>5, <2>1 DEF AllowPaidWorker, ReleaseAfterLoss, Free, Granted
  <2> QED BY <1>3, <2>1, <2>3, <2>4, <2>5, <2>6 DEF Move, AloneWhenActive, ReceiptFromArchive
<1>6. CASE UnlinkPending(h) \/ UnlinkPause(h)
  <2>1. /\ worker' = worker /\ OthersSame(h) /\ Releasing(h)
        /\ command'[h] \in {"none", "unlink"}
    BY <1>2, <1>6 DEF UnlinkPending, UnlinkPause, OthersSame, Releasing
  <2>2. /\ disk'[h].root = disk[h].root /\ disk'[h].fence = disk[h].fence
        /\ disk'[h].pending = disk[h].pending \/ ~disk'[h].pending
        /\ disk'[h].pause = disk[h].pause \/ disk'[h].pause = None
        /\ disk'[h].receipt = disk[h].receipt /\ disk'[h].from = disk[h].from
    BY <1>2, <1>6 DEF UnlinkPending, UnlinkPause, Disk
  <2>3. Ready(h) /\ ~Fenced(h)
    BY <1>1, <2>1 DEF HostInv, Releasing
  <2>4. HostInv(h)'
    BY <1>1, <2>1, <2>2, <2>3 DEF HostInv, Stopped, Ready, Fenced, Releasing
  <2>5. AloneWhenActive(h) /\ ~Final(h)
    BY <2>1 DEF AloneWhenActive, Active, Final
  <2> QED BY <1>3, <2>1, <2>2, <2>4, <2>5 DEF Move, ReceiptFromArchive
<1>7. CASE Interrupted(h)
  <2>1. disk' = disk /\ worker' = worker /\ OthersSame(h) /\ command'[h] = "none"
    BY <1>2, <1>7 DEF Interrupted, OthersSame
  <2>2. HostInv(h)'
    BY <1>1, <2>1 DEF HostInv, Stopped, Ready, Releasing
  <2> QED BY <1>3, <2>1, <2>2 DEF Move, AloneWhenActive, ReceiptFromArchive, Active, MayPay,
                                  Releasing, Ready, Unpaused, Retired, Final
<1>8. CASE Lose(h)
  <2>1. /\ OthersSame(h) /\ disk'[h] = Unmarked("lost") /\ worker'[h] = Off
        /\ command'[h] = "none"
    BY <1>2, <1>8 DEF Lose, OthersSame
  <2>2. disk'[h].root = "lost" /\ disk'[h].receipt = None
    BY <2>1 DEF Unmarked
  <2>3. HostInv(h)' /\ AloneWhenActive(h) /\ Final(h)'
    BY <2>1, <2>2 DEF HostInv, AloneWhenActive, Active, MayPay, Final, Stopped, Ready,
                      Releasing, Off
  <2> QED BY <1>3, <2>1, <2>2, <2>3 DEF Move, ReceiptFromArchive
<1> QED BY <1>4, <1>5, <1>6, <1>7, <1>8 DEF ReleaseStep

-----------------------------------------------------------------------------
(* The invariant and the property.                                           *)

LEMMA MoveKeeps ==
  ASSUME IInv, NEW h \in Hosts, Move(h)
  PROVE  (\A g \in Hosts : HostInv(g)') /\ OneActive' /\ SourcesFinal'
<1>1. \A g \in Hosts \ {h} : /\ HostInv(g)' = HostInv(g) /\ Active(g)' = Active(g)
                             /\ Final(g)' = Final(g)
  BY DEF Move, OthersSame, HostInv, Active, Final, MayPay, Releasing, Stopped, Ready, Fenced,
         Retired, Unpaused
<1>2. \A g \in Hosts : HostInv(g)'
  BY <1>1 DEF IInv, Move
<1>3. OneActive'
  BY <1>1 DEF IInv, Move, OneActive, AloneWhenActive
<1>4. \A g \in Hosts : Final(g) => Final(g)'
  BY <1>1 DEF Move
<1>5. \A x \in archives : x.handoff # None => x.host \in Hosts /\ Final(x.host)'
  BY <1>4 DEF IInv, TypeOK, Archive, SourcesFinal
<1>6. \A x \in archives' : x.handoff # None => Final(x.host)'
  <2> SUFFICES ASSUME NEW x \in archives', x.handoff # None
               PROVE  Final(x.host)'
    OBVIOUS
  <2>1. CASE x \in archives
    BY <1>5, <2>1
  <2>2. CASE x \notin archives
    BY <2>2 DEF Move, HandoffsFinal
  <2> QED BY <2>1, <2>2
<1>7. ASSUME NEW g \in Hosts, disk'[g].receipt # None
      PROVE  disk'[g].from \in Hosts /\ Final(disk[g].from)'
  <2>1. \/ disk[g].receipt # None /\ disk'[g].from = disk[g].from
        \/ \E x \in archives : x.handoff # None /\ disk'[g].from = x.host
    BY <1>7 DEF Move, OthersSame, ReceiptFromArchive
  <2>2. PICK source \in Hosts : disk'[g].from = source /\ Final(source)'
    BY <1>4, <1>5, <2>1 DEF IInv, SourcesFinal
  <2> QED BY <2>2 DEF Final, Ready, Retired, Releasing
<1> QED BY <1>2, <1>3, <1>6, <1>7 DEF SourcesFinal

LEMMA InitKeeps == Init => IInv
<1> SUFFICES ASSUME Init PROVE IInv
  OBVIOUS
<1>1. \A root \in {"none", "ready"} : Unmarked(root) \in Disk
  BY DEF Unmarked, NoFence, Fence, Disk
<1>2. NewLedger \in Ledger
  BY DEF NewLedger, Ledger, Queued, Row, Stages
<1>3. TypeOK
  BY <1>1, <1>2, HostAssumption DEF Init, TypeOK, Off, Worker, Commands
<1>4. \A h \in Hosts : /\ command[h] = "none" /\ worker[h].pc = "off" /\ disk[h].receipt = None
                       /\ disk[h].root = IF h = First THEN "ready" ELSE "none"
  BY DEF Init, Off, Unmarked
<1>5. \A h \in Hosts : HostInv(h)
  BY <1>4 DEF HostInv, Stopped, Releasing
<1>6. OneActive
  BY <1>4 DEF OneActive, Active, MayPay, Releasing, Ready
<1>7. SourcesFinal
  BY <1>4 DEF SourcesFinal, Init
<1> QED BY <1>3, <1>5, <1>6, <1>7 DEF IInv

LEMMA NextKeeps == IInv /\ [Next]_vars => IInv'
<1> SUFFICES ASSUME IInv, [Next]_vars PROVE IInv'
  OBVIOUS
<1>1. CASE UNCHANGED vars
  BY <1>1 DEF vars, IInv, TypeOK, HostInv, OneActive, SourcesFinal, Active, Final, MayPay,
              Releasing, Stopped, Ready, Fenced, Retired, Unpaused
<1>2. CASE Next
  <2>1. PICK h \in Hosts : Step(h)
    BY <1>2 DEF Next, Step
  <2>2. TypeOK'
    BY <2>1, WorkerTypes, HandoffTypes, BackupTypes, OtherTypes DEF Step, IInv
  <2>3. Move(h)
    BY <2>1, WorkerMoves, HandoffMoves, BackupMoves, OtherMoves DEF Step
  <2> QED BY <2>2, <2>3, MoveKeeps DEF IInv
<1> QED BY <1>1, <1>2

\* Through every handoff, backup, restore, release, loss and interruption, one host at
\* most is active, and the source of every handoff never is again.
THEOREM HostsInductive == Spec => []IInv
<1> QED BY InitKeeps, NextKeeps, PTL DEF Spec

\* At most one host may call the paid provider (recovery.py, manage.py, container.py).
THEOREM SoleSpenderHolds == Spec => []SoleSpender
<1>1. IInv => SoleSpender
  BY DEF IInv, OneActive, Active, SoleSpender
<1> QED BY <1>1, HostsInductive, PTL

-----------------------------------------------------------------------------
(* What a host has open.                                                     *)

OwnOpen(h) == \A j \in Jobs : ledger[h].rows[j].stage \in Open => ledger[h].rows[j].by = h

(* Nothing was recorded yet for a directory that is not in use.            *)
NothingOfUnused ==
  \A g \in Hosts : disk[g].root = "none" =>
    /\ \A h \in Hosts : ledger[h].recoveries[g] = None
    /\ \A x \in archives : x.ledger.recoveries[g] = None

OpenInv ==
  /\ \A h \in Hosts : Active(h) \/ ledger[h].recoveries[h] # None => OwnOpen(h)
  /\ NothingOfUnused

RowsKept(h) ==
  /\ \A g \in Hosts \ {h} : ledger'[g] = ledger[g]
  /\ ledger'[h].recoveries = ledger[h].recoveries
  /\ OwnOpen(h) => OwnOpen(h)'

(* An open row is the host's own or was open before.                       *)
LEMMA RowsRewritten ==
  ASSUME TypeOK, NEW h \in Hosts, NEW new \in [Jobs -> Row],
         ledger' = [ledger EXCEPT ![h].rows = new],
         \A j \in Jobs : new[j].stage \in Open =>
           \/ new[j].by = h
           \/ ledger[h].rows[j].stage \in Open /\ new[j].by = ledger[h].rows[j].by
  PROVE  RowsKept(h)
<1>1. ledger \in [Hosts -> Ledger]
  BY DEF TypeOK
<1> DEFINE entry == [ledger[h] EXCEPT !.rows = new]
<1>2. ledger' = [ledger EXCEPT ![h] = entry]
  OBVIOUS
<1>3. entry.rows = new /\ entry.recoveries = ledger[h].recoveries
  BY <1>1 DEF Ledger
<1>4. /\ ledger'[h].rows = new /\ ledger'[h].recoveries = ledger[h].recoveries
      /\ \A g \in Hosts \ {h} : ledger'[g] = ledger[g]
  BY <1>1, <1>2, <1>3
<1> QED BY <1>4 DEF RowsKept, OwnOpen

LEMMA RowSet ==
  ASSUME TypeOK, NEW h \in Hosts, NEW j \in Jobs, NEW stage \in Stages,
         NEW by \in Hosts \union {None}, SetRow(h, j, stage, by),
         stage \in Open =>
           by = h \/ (ledger[h].rows[j].stage \in Open /\ by = ledger[h].rows[j].by)
  PROVE  RowsKept(h)
<1>1. ledger \in [Hosts -> Ledger] /\ ledger[h].rows \in [Jobs -> Row]
  BY DEF TypeOK, Ledger
<1>2. [stage |-> stage, by |-> by] \in Row
  BY DEF Row
<1> DEFINE new == [ledger[h].rows EXCEPT ![j] = [stage |-> stage, by |-> by]]
<1>3. new \in [Jobs -> Row]
  BY <1>1, <1>2
<1>4. ledger' = [ledger EXCEPT ![h].rows = new]
  BY DEF SetRow
<1>5. /\ new[j].stage = stage /\ new[j].by = by
      /\ \A i \in Jobs \ {j} : new[i] = ledger[h].rows[i]
  BY <1>1
<1>6. \A i \in Jobs : new[i].stage \in Open =>
        \/ new[i].by = h
        \/ ledger[h].rows[i].stage \in Open /\ new[i].by = ledger[h].rows[i].by
  BY <1>5
<1> HIDE DEF new
<1> QED BY <1>3, <1>4, <1>6, RowsRewritten

LEMMA AbandonedOpen ==
  ASSUME TypeOK, NEW h \in Hosts, ledger' = [ledger EXCEPT ![h].rows = Abandoned(@)]
  PROVE  RowsKept(h)
<1>1. Abandoned(ledger[h].rows) \in [Jobs -> Row]
  BY LedgerTypes
<1>2. \A j \in Jobs : LET new == Abandoned(ledger[h].rows) IN
        new[j].stage \in Open =>
          ledger[h].rows[j].stage \in Open /\ new[j].by = ledger[h].rows[j].by
  BY DEF Abandoned, Queued, Open
<1> QED BY <1>1, <1>2, RowsRewritten

LEMMA WorkerOpen ==
  ASSUME TypeOK, NEW h \in Hosts, HostInv(h), WorkerStep(h)
  PROVE  RowsKept(h)
<1>1. /\ ledger[h].rows \in [Jobs -> Row]
      /\ worker[h].pc \notin {"off", "idle"} => worker[h].job \in Jobs
      /\ {"calling", "settled", "response", "attention"} \subseteq Stages
  BY DEF TypeOK, Ledger, HostInv, Stages, Open
<1>2. CASE StartWorker(h) \/ StopWorker(h) \/ WorkerRestarts(h)
  BY <1>2 DEF StartWorker, StopWorker, WorkerRestarts, RowsKept, OwnOpen
<1>3. CASE Claim(h)
  <2>1. PICK lapsed \in SUBSET Running(h) :
          \/ ledger' = [ledger EXCEPT ![h].rows = Recovered(ledger[h].rows, lapsed)]
          \/ \E j \in Jobs :
               ledger' = [ledger EXCEPT ![h].rows = [Recovered(ledger[h].rows, lapsed) EXCEPT
                                                       ![j] = [stage |-> "reserved", by |-> h]]]
    BY <1>3 DEF Claim
  <2> DEFINE rows == Recovered(ledger[h].rows, lapsed)
  <2>2. PICK new : /\ ledger' = [ledger EXCEPT ![h].rows = new]
                   /\ \/ new = rows
                      \/ \E j \in Jobs : new = [rows EXCEPT ![j] = [stage |-> "reserved", by |-> h]]
    BY <2>1
  <2>3. rows \in [Jobs -> Row] /\ [stage |-> "reserved", by |-> h] \in Row
    BY LedgerTypes DEF Running, Row, Stages, Open
  <2>4. new \in [Jobs -> Row]
    BY <2>2, <2>3
  <2>5. ASSUME NEW i \in Jobs, rows[i].stage \in Open
        PROVE  ledger[h].rows[i].stage \in Open /\ rows[i].by = ledger[h].rows[i].by
    <3>1. CASE i \notin lapsed
      BY <2>5, <3>1 DEF Recovered
    <3>2. CASE i \in lapsed /\ ledger[h].rows[i].stage = "reserved"
      BY <2>5, <3>2 DEF Recovered, Queued, Open
    <3>3. CASE i \in lapsed /\ ledger[h].rows[i].stage # "reserved"
      <4>1. rows[i] = [ledger[h].rows[i] EXCEPT !.stage = "attention"]
        BY <3>3 DEF Recovered
      <4>2. ledger[h].rows[i].stage \in Open
        BY <3>3 DEF Running, Open
      <4> QED BY <1>1, <4>1, <4>2 DEF Row
    <3> QED BY <3>1, <3>2, <3>3
  <2>6. \A i \in Jobs : new[i].stage \in Open =>
          \/ new[i].by = h
          \/ ledger[h].rows[i].stage \in Open /\ new[i].by = ledger[h].rows[i].by
    <3>1. CASE new = rows
      BY <2>5, <3>1
    <3>2. ASSUME NEW j \in Jobs, new = [rows EXCEPT ![j] = [stage |-> "reserved", by |-> h]]
          PROVE  \A i \in Jobs : new[i] = rows[i] \/ new[i].by = h
      BY <2>3, <3>2
    <3> QED BY <2>2, <2>5, <3>1, <3>2
  <2> QED BY <2>2, <2>4, <2>6, RowsRewritten
<1>4. CASE Calling(h)
  BY <1>1, <1>4, RowSet DEF Calling
<1>5. CASE CallingRetired(h)
  BY <1>5, AbandonedOpen DEF CallingRetired
<1>6. CASE Submit(h)
  <2>1. CASE ledger' = ledger
    BY <2>1 DEF RowsKept, OwnOpen
  <2>2. CASE SetRow(h, worker[h].job, "settled", None)
    <3>1. "settled" \notin Open
      BY DEF Open
    <3> QED BY <1>1, <1>6, <2>2, <3>1, RowSet DEF Submit
  <2> QED BY <1>6, <2>1, <2>2 DEF Submit
<1>7. CASE Submitted(h) \/ Fail(h)
  BY <1>1, <1>7, RowSet DEF Submitted, Fail
<1>8. ASSUME NEW j \in Jobs, Retrieve(h, j)
      PROVE  RowsKept(h)
  <2>1. ledger[h].rows[j].stage \in Open /\ ledger[h].rows[j].by \in Hosts \union {None}
    BY <1>1, <1>8 DEF Retrieve, Open, Row
  <2> QED BY <1>1, <1>8, <2>1, RowSet DEF Retrieve
<1> QED BY <1>2, <1>3, <1>4, <1>5, <1>6, <1>7, <1>8 DEF WorkerStep

LEMMA OperatorOpen ==
  ASSUME TypeOK, NEW h \in Hosts, OperatorStep(h)
  PROVE  RowsKept(h)
<1>1. PICK j \in Jobs : Reconcile(h, j) \/ Release(h, j)
  BY DEF OperatorStep
<1>2. /\ ledger[h].rows[j].by \in Hosts \union {None} /\ "settled" \notin Open
      /\ {"settled", "attention"} \subseteq Stages
  BY DEF TypeOK, Ledger, Row, Stages, Open
<1>3. CASE Reconcile(h, j)
  <2>1. ledger[h].rows[j].stage \in Open
    BY <1>3 DEF Reconcile, Open
  <2> QED BY <1>2, <1>3, <2>1, RowSet DEF Reconcile
<1>4. CASE Release(h, j)
  <2>1. PICK by \in Hosts \union {None} : SetRow(h, j, "settled", by)
    BY <1>2, <1>4 DEF Release
  <2> QED BY <1>2, <2>1, RowSet
<1> QED BY <1>1, <1>3, <1>4

LEMMA OpenInvSame ==
  ASSUME IInv, OpenInv, NEW h \in Hosts, Move(h), ~Granted(h), RowsKept(h),
         disk'[h].root = "none" => disk[h].root = "none",
         \A x \in archives' \ archives : x.ledger = ledger[h]
  PROVE  OpenInv'
<1>1. \A g \in Hosts \ {h} : Active(g)' = Active(g) /\ disk'[g] = disk[g] /\ ledger'[g] = ledger[g]
  BY DEF Move, OthersSame, Active, MayPay, Releasing, Ready, Retired, Unpaused, RowsKept
<1>2. \A g \in Hosts \ {h} : OwnOpen(g) => OwnOpen(g)'
  BY <1>1 DEF OwnOpen
<1>3. Active(h)' => Active(h)
  BY DEF Move, AloneWhenActive
<1>4. \A g \in Hosts : ledger'[g].recoveries = ledger[g].recoveries
  BY <1>1 DEF RowsKept
<1>5. \A g \in Hosts : Active(g)' \/ ledger'[g].recoveries[g] # None => OwnOpen(g)'
  BY <1>1, <1>2, <1>3, <1>4 DEF OpenInv, RowsKept
<1>6. NothingOfUnused'
  BY <1>1, <1>4 DEF OpenInv, NothingOfUnused
<1> QED BY <1>5, <1>6 DEF OpenInv

LEMMA OpenInvGranted ==
  ASSUME IInv, OpenInv, NEW h \in Hosts, Move(h), AllowPaidWorker(h) \/ ReleaseAfterLoss(h)
  PROVE  OpenInv'
<1>1. /\ ledger \in [Hosts -> Ledger] /\ disk' = disk /\ archives' = archives /\ Ready(h)
      /\ \A g \in Hosts \ {h} : ledger'[g] = ledger[g]
  BY DEF IInv, TypeOK, AllowPaidWorker, ReleaseAfterLoss, Free
<1>2. \A g \in Hosts \ {h} : Active(g)' = Active(g)
  BY DEF Move, OthersSame, Active, MayPay, Releasing, Ready, Retired, Unpaused
<1>3. /\ OwnOpen(h)'
      /\ \A g \in Hosts \ {h} : ledger'[h].recoveries[g] = ledger[h].recoveries[g]
  <2>1. CASE AllowPaidWorker(h)
    BY <2>1 DEF AllowPaidWorker, Settled, OwnOpen
  <2>2. CASE ReleaseAfterLoss(h)
    <3> DEFINE usage == posted \ disk[h].pause
    <3>1. ledger'[h] = AfterLoss(h, usage)
      BY <1>1, <2>2 DEF ReleaseAfterLoss
    <3>2. CASE ledger[h].recoveries[h] # None
      BY <3>1, <3>2 DEF AfterLoss, OpenInv, OwnOpen
    <3>3. CASE ledger[h].recoveries[h] = None
      <4>1. /\ ledger'[h].rows = SettledAfterLoss(ledger[h].rows)
            /\ ledger'[h].recoveries = [ledger[h].recoveries EXCEPT ![h] = usage]
        BY <3>1, <3>3 DEF AfterLoss
      <4>2. ledger[h].rows \in [Jobs -> Row] /\ ledger[h].recoveries \in [Hosts -> (SUBSET Calls) \union {None}]
        BY <1>1 DEF Ledger
      <4>3. ASSUME NEW j \in Jobs
            PROVE  SettledAfterLoss(ledger[h].rows)[j].stage \notin Open
        <5>1. CASE ledger[h].rows[j].stage \in {"calling", "response", "attention"}
          <6>1. SettledAfterLoss(ledger[h].rows)[j] = [ledger[h].rows[j] EXCEPT !.stage = "settled"]
            BY <5>1 DEF SettledAfterLoss
          <6> QED BY <4>2, <6>1 DEF Row, Open
        <5>2. CASE ledger[h].rows[j].stage \notin {"calling", "response", "attention"}
          <6>1. SettledAfterLoss(ledger[h].rows)[j] = Abandoned(ledger[h].rows)[j]
            BY <5>2 DEF SettledAfterLoss
          <6> QED BY <5>2, <6>1 DEF Abandoned, Queued, Open
        <5> QED BY <5>1, <5>2
      <4> QED BY <4>1, <4>2, <4>3 DEF OwnOpen
    <3> QED BY <3>2, <3>3
  <2> QED BY <2>1, <2>2
<1>4. \A g \in Hosts : Active(g)' \/ ledger'[g].recoveries[g] # None => OwnOpen(g)'
  BY <1>1, <1>2, <1>3 DEF OpenInv, OwnOpen
<1>5. NothingOfUnused'
  BY <1>1, <1>3 DEF OpenInv, NothingOfUnused, Ready
<1> QED BY <1>4, <1>5 DEF OpenInv

(* A copy is paused and has recorded nothing, and a lost machine has nothing. *)
LEMMA OpenInvReplaced ==
  ASSUME IInv, OpenInv, NEW h \in Hosts, Move(h),
         Lose(h) \/ \E x \in archives : RestoreStores(x, h)
  PROVE  OpenInv'
<1>1. /\ disk \in [Hosts -> Disk] /\ ledger \in [Hosts -> Ledger] /\ worker \in [Hosts -> Worker]
      /\ command \in [Hosts -> Commands]
  BY DEF IInv, TypeOK
<1>2. /\ \A g \in Hosts \ {h} : Active(g)' = Active(g) /\ disk'[g] = disk[g]
      /\ \A g \in Hosts \ {h} : ledger'[g] = ledger[g]
      /\ archives' = archives
  BY <1>1 DEF Move, OthersSame, Active, MayPay, Releasing, Ready, Retired, Unpaused, Lose, RestoreStores
<1>3. CASE Lose(h)
  <2>1. ledger'[h] = NewLedger /\ disk'[h].root = "lost"
    BY <1>1, <1>3 DEF Lose, Unmarked
  <2>2. OwnOpen(h)' /\ \A g \in Hosts : ledger'[h].recoveries[g] = None
    BY <2>1 DEF OwnOpen, NewLedger, Queued, Open
  <2> QED BY <1>2, <2>1, <2>2 DEF OpenInv, OwnOpen, NothingOfUnused
<1>4. ASSUME NEW x \in archives, RestoreStores(x, h)
      PROVE  OpenInv'
  <2>1. /\ ledger'[h] = x.ledger /\ disk[h].root = "none" /\ disk'[h] = Copied(x)
        /\ command'[h] = "restore" /\ worker' = worker
    BY <1>1, <1>4 DEF RestoreStores
  <2>2. disk'[h].root = "partial" /\ disk'[h].pending
    BY <2>1 DEF Copied
  <2>3. worker[h].pc = "off"
    BY <2>1 DEF IInv, HostInv, Stopped, Ready
  <2>4. ~Active(h)'
    BY <2>1, <2>2, <2>3 DEF Active, MayPay, Releasing, Unpaused
  <2>5. \A g \in Hosts : disk[g].root = "none" => x.ledger.recoveries[g] = None
    BY DEF OpenInv, NothingOfUnused
  <2>6. \A g \in Hosts : Active(g)' \/ ledger'[g].recoveries[g] # None => OwnOpen(g)'
    BY <1>2, <2>1, <2>4, <2>5 DEF OpenInv, OwnOpen
  <2>7. NothingOfUnused'
    BY <1>2, <2>1, <2>2, <2>5 DEF OpenInv, NothingOfUnused
  <2> QED BY <2>6, <2>7 DEF OpenInv
<1> QED BY <1>3, <1>4

LEMMA OpenInvStep ==
  ASSUME IInv, OpenInv, NEW h \in Hosts, Step(h)
  PROVE  OpenInv'
<1>1. TypeOK /\ HostInv(h) /\ Move(h)
  BY WorkerMoves, HandoffMoves, BackupMoves, OtherMoves DEF Step, IInv
<1>2. /\ disk \in [Hosts -> Disk] /\ ledger \in [Hosts -> Ledger] /\ command \in [Hosts -> Commands]
  BY <1>1 DEF TypeOK
<1> DEFINE Same == /\ RowsKept(h) /\ ~Granted(h) /\ (disk'[h].root = "none" => disk[h].root = "none")
                   /\ \A x \in archives' \ archives : x.ledger = ledger[h]
<1>3. Same => OpenInv'
  BY <1>1, OpenInvSame
<1>4. CASE WorkerStep(h)
  <2>1. disk' = disk /\ command' = command /\ archives' = archives
    BY <1>4 DEF WorkerStep, StartWorker, StopWorker, WorkerRestarts, Claim, Calling,
                CallingRetired, Submit, Submitted, Fail, Retrieve
  <2> QED BY <1>1, <1>3, <1>4, <2>1, WorkerOpen DEF Granted
<1>5. CASE OperatorStep(h)
  <2>1. disk' = disk /\ command' = command /\ archives' = archives
    BY <1>5 DEF OperatorStep, Reconcile, Release
  <2> QED BY <1>1, <1>3, <1>5, <2>1, OperatorOpen DEF Granted
<1>6. CASE HandoffStep(h)
  <2>1. RowsKept(h)
    <3>1. CASE AbandonRetiredClaims(h)
      BY <1>1, <3>1, AbandonedOpen DEF AbandonRetiredClaims
    <3>2. CASE ledger' = ledger
      BY <3>2 DEF RowsKept, OwnOpen
    <3> QED BY <1>6, <3>1, <3>2 DEF HandoffStep, RetireSync, RetireCompanion, Down, Export
  <2>2. disk'[h].root = disk[h].root /\ command'[h] # "release"
    BY <1>2, <1>6 DEF HandoffStep, RetireSync, RetireCompanion, AbandonRetiredClaims, Down, Export, Disk
  <2>3. \A x \in archives' \ archives : x.ledger = ledger[h]
    BY <1>6 DEF HandoffStep, RetireSync, RetireCompanion, AbandonRetiredClaims, Down, Export, Archived
  <2> QED BY <1>3, <2>1, <2>2, <2>3 DEF Granted
<1>7. CASE BeginBackup(h) \/ EndBackup(h) \/ MarkRoot(h) \/ UnlinkPending(h) \/ UnlinkPause(h)
             \/ Interrupted(h)
  <2>1. ledger' = ledger
    BY <1>7 DEF BeginBackup, EndBackup, MarkRoot, UnlinkPending, UnlinkPause, Interrupted
  <2>2. disk'[h].root \in {disk[h].root, "ready"}
    <3>1. CASE MarkRoot(h)
      BY <1>2, <3>1 DEF MarkRoot, Disk
    <3>2. CASE UnlinkPending(h) \/ UnlinkPause(h)
      BY <1>2, <3>2 DEF UnlinkPending, UnlinkPause, Disk
    <3>3. CASE disk' = disk
      BY <3>3
    <3> QED BY <1>7, <3>1, <3>2, <3>3 DEF BeginBackup, EndBackup, Interrupted
  <2>3. command'[h] # "release"
    BY <1>2, <1>7 DEF BeginBackup, EndBackup, MarkRoot, UnlinkPending, UnlinkPause, Interrupted
  <2>4. \A x \in archives' \ archives : x.ledger = ledger[h]
    <3>1. Archived(h, None).ledger = ledger[h]
      BY DEF Archived
    <3> QED BY <1>7, <3>1 DEF BeginBackup, EndBackup, MarkRoot, UnlinkPending, UnlinkPause, Interrupted
  <2> QED BY <1>3, <2>1, <2>2, <2>3, <2>4 DEF RowsKept, OwnOpen, Granted
<1>8. CASE AllowPaidWorker(h) \/ ReleaseAfterLoss(h)
  BY <1>1, <1>8, OpenInvGranted
<1>9. CASE Lose(h) \/ \E x \in archives : RestoreStores(x, h)
  BY <1>1, <1>9, OpenInvReplaced
<1> QED BY <1>4, <1>5, <1>6, <1>7, <1>8, <1>9 DEF Step, BackupStep, ReleaseStep

\* A host that may pay has nothing open but its own (allow_paid_worker's check for
\* unsettled attempts, settle_after_host_loss).
THEOREM CopiesSettled == Spec => []CopiesStartSettled
<1>1. Init => OpenInv
  <2> SUFFICES ASSUME Init PROVE OpenInv
    OBVIOUS
  <2>1. /\ \A h \in Hosts, j \in Jobs : ledger[h].rows[j].stage = "queued"
        /\ \A g, h \in Hosts : ledger[h].recoveries[g] = None
        /\ archives = {}
    BY DEF Init, NewLedger, Queued
  <2> QED BY <2>1 DEF OpenInv, OwnOpen, NothingOfUnused, Open
<1>2. IInv /\ OpenInv /\ [Next]_vars => OpenInv'
  <2> SUFFICES ASSUME IInv, OpenInv, [Next]_vars PROVE OpenInv'
    OBVIOUS
  <2>1. CASE UNCHANGED vars
    BY <2>1 DEF vars, OpenInv, OwnOpen, NothingOfUnused, Active, MayPay, Releasing, Ready,
                Retired, Unpaused
  <2>2. CASE Next
    <3>1. PICK h \in Hosts : Step(h)
      BY <2>2 DEF Next, Step
    <3> QED BY <3>1, OpenInvStep
  <2> QED BY <2>1, <2>2
<1>3. OpenInv => CopiesStartSettled
  BY DEF OpenInv, OwnOpen, Active, CopiesStartSettled
<1> QED BY <1>1, <1>2, <1>3, HostsInductive, PTL DEF Spec

-----------------------------------------------------------------------------
(* That every billed call counts.  Copies that are still paused are not      *)
(* backed up here: with them it is false.                                    *)

PauseInv(h) ==
  /\ disk[h].pause = None => ~disk[h].pending /\ \A s \in Stores : disk[h].fence[s] \in {None, h}
  /\ command[h] = "unlink" => ~disk[h].pending
  /\ command[h] = "restore" => disk[h].pause # None
  /\ command[h] \notin {"none", "restore", "release", "unlink"} => disk[h].pause = None

(* A call is in its job's row from before it is made.                      *)
CallInv(h) ==
  /\ worker[h].pc \in {"calling", "posted"} =>
       ledger[h].rows[worker[h].job] = [stage |-> "calling", by |-> h]
  /\ worker[h].pc = "calling" => <<h, worker[h].job>> \notin posted
  /\ \A j \in Jobs : <<h, j>> \in posted =>
       disk[h].root = "lost" \/ (Ready(h) /\ Counts(ledger[h].rows[j], h))

(* A copy of an ordinary backup has what was billed until then.            *)
PausedCounts(h) ==
  disk[h].pause # None =>
    /\ disk[h].pause \subseteq posted
    /\ disk[h].receipt = None /\ ~Fenced(h) => disk[h].pause \subseteq Accounted(ledger[h])

(* A final handoff has everything until another host is let pay.           *)
HandoffsCount ==
  /\ \A x \in archives :
       /\ x.created \subseteq posted
       /\ x.handoff # None => x.handoff = x.host
       /\ x.handoff # None /\ x.host = last => posted \subseteq Accounted(x.ledger)
       /\ x.handoff = None /\ x.fence = NoFence => x.created \subseteq Accounted(x.ledger)
  /\ \A h \in Hosts : disk[h].receipt # None =>
       /\ disk[h].receipt.handoff = disk[h].from
       /\ disk[h].from = last => posted \subseteq Accounted(disk[h].receipt.ledger)

LastCounts ==
  /\ disk[last].root \in {"ready", "lost"}
  /\ \A h \in Hosts : Active(h) => h = last
  /\ Ready(last) => posted \subseteq Accounted(ledger[last])

BilledInv ==
  (\A h \in Hosts : PauseInv(h) /\ CallInv(h) /\ PausedCounts(h)) /\ HandoffsCount /\ LastCounts

(* No billed call leaves the history.                                      *)
HistoryKept(h) ==
  /\ \A g \in Hosts \ {h} : ledger'[g] = ledger[g]
  /\ \A g \in Hosts : ledger[h].recoveries[g] # None =>
       ledger'[h].recoveries[g] = ledger[h].recoveries[g]
  /\ \A j \in Jobs, g \in Hosts :
       <<g, j>> \in posted /\ Counts(ledger[h].rows[j], g) => Counts(ledger'[h].rows[j], g)

LEMMA KeptAccounts ==
  ASSUME NEW h \in Hosts, HistoryKept(h)
  PROVE  \A S \in SUBSET posted : S \subseteq Accounted(ledger[h]) => S \subseteq Accounted(ledger'[h])
<1> SUFFICES ASSUME NEW S \in SUBSET posted, S \subseteq Accounted(ledger[h]), NEW c \in S
             PROVE  c \in Accounted(ledger'[h])
  OBVIOUS
<1>1. c \in posted /\ c \in Accounted(ledger[h])
  OBVIOUS
<1>2. CASE c \in Calls /\ Counts(ledger[h].rows[c[2]], c[1])
  <2>1. PICK g \in Hosts, j \in Jobs : c = <<g, j>>
    BY <1>2 DEF Calls
  <2>2. Counts(ledger'[h].rows[j], g)
    BY <1>1, <1>2, <2>1 DEF HistoryKept
  <2> QED BY <1>2, <2>1, <2>2 DEF Accounted
<1>3. CASE \E g \in Hosts : ledger[h].recoveries[g] # None /\ c \in ledger[h].recoveries[g]
  <2>1. PICK g \in Hosts : ledger[h].recoveries[g] # None /\ c \in ledger[h].recoveries[g]
    BY <1>3
  <2>2. ledger'[h].recoveries[g] = ledger[h].recoveries[g]
    BY <2>1 DEF HistoryKept
  <2> QED BY <2>1, <2>2 DEF Accounted
<1> QED BY <1>1, <1>2, <1>3 DEF Accounted

LEMMA RowsKeepCalls ==
  ASSUME TypeOK, NEW h \in Hosts, NEW new \in [Jobs -> Row],
         ledger' = [ledger EXCEPT ![h].rows = new],
         \A j \in Jobs, g \in Hosts :
           <<g, j>> \in posted /\ Counts(ledger[h].rows[j], g) => Counts(new[j], g)
  PROVE  HistoryKept(h)
<1>1. ledger \in [Hosts -> Ledger]
  BY DEF TypeOK
<1> DEFINE entry == [ledger[h] EXCEPT !.rows = new]
<1>2. ledger' = [ledger EXCEPT ![h] = entry]
  OBVIOUS
<1>3. entry.rows = new /\ entry.recoveries = ledger[h].recoveries
  BY <1>1 DEF Ledger
<1>4. /\ ledger'[h].rows = new /\ ledger'[h].recoveries = ledger[h].recoveries
      /\ \A g \in Hosts \ {h} : ledger'[g] = ledger[g]
  BY <1>1, <1>2, <1>3
<1> QED BY <1>4 DEF HistoryKept

LEMMA RowSetKeeps ==
  ASSUME TypeOK, NEW h \in Hosts, NEW j \in Jobs, NEW stage \in Stages,
         NEW by \in Hosts \union {None}, SetRow(h, j, stage, by),
         \/ ledger[h].rows[j].stage \in {"queued", "reserved"}
         \/ by = ledger[h].rows[j].by /\ stage \notin {"queued", "reserved"}
         \/ <<ledger[h].rows[j].by, j>> \notin posted
  PROVE  HistoryKept(h)
<1>1. ledger \in [Hosts -> Ledger] /\ ledger[h].rows \in [Jobs -> Row]
  BY DEF TypeOK, Ledger
<1> DEFINE row == [stage |-> stage, by |-> by]
           new == [ledger[h].rows EXCEPT ![j] = row]
<1>2. row \in Row /\ row.stage = stage /\ row.by = by
  BY DEF Row
<1>3. new \in [Jobs -> Row] /\ new[j] = row /\ \A i \in Jobs \ {j} : new[i] = ledger[h].rows[i]
  BY <1>1, <1>2
<1>4. ledger' = [ledger EXCEPT ![h].rows = new]
  BY DEF SetRow
<1> HIDE DEF row
<1>5. \A i \in Jobs, g \in Hosts :
        <<g, i>> \in posted /\ Counts(ledger[h].rows[i], g) => Counts(new[i], g)
  BY <1>2, <1>3 DEF Counts
<1> HIDE DEF new
<1> QED BY <1>3, <1>4, <1>5, RowsKeepCalls

LEMMA AbandonedKeeps ==
  ASSUME TypeOK, NEW h \in Hosts, ledger' = [ledger EXCEPT ![h].rows = Abandoned(@)]
  PROVE  HistoryKept(h)
<1>1. Abandoned(ledger[h].rows) \in [Jobs -> Row]
  BY LedgerTypes
<1>2. \A j \in Jobs : LET new == Abandoned(ledger[h].rows)
                      IN  new[j] = ledger[h].rows[j] \/ ledger[h].rows[j].stage = "reserved"
  BY DEF Abandoned
<1> QED BY <1>1, <1>2, RowsKeepCalls DEF Counts

LEMMA WorkerKeeps ==
  ASSUME TypeOK, NEW h \in Hosts, HostInv(h), CallInv(h), WorkerStep(h)
  PROVE  HistoryKept(h)
<1>1. /\ ledger[h].rows \in [Jobs -> Row]
      /\ worker[h].pc \notin {"off", "idle"} => worker[h].job \in Jobs
      /\ {"calling", "settled", "response", "attention"} \subseteq Stages
  BY DEF TypeOK, Ledger, HostInv, Stages, Open
<1>2. CASE StartWorker(h) \/ StopWorker(h) \/ WorkerRestarts(h)
  BY <1>2 DEF StartWorker, StopWorker, WorkerRestarts, HistoryKept
<1>3. CASE Claim(h)
  <2>1. PICK lapsed \in SUBSET Running(h) :
          \/ ledger' = [ledger EXCEPT ![h].rows = Recovered(ledger[h].rows, lapsed)]
          \/ \E j \in Jobs :
               /\ Recovered(ledger[h].rows, lapsed)[j] = Queued
               /\ ledger' = [ledger EXCEPT ![h].rows = [Recovered(ledger[h].rows, lapsed) EXCEPT
                                                       ![j] = [stage |-> "reserved", by |-> h]]]
    BY <1>3 DEF Claim
  <2> DEFINE rows == Recovered(ledger[h].rows, lapsed)
             reserved == [stage |-> "reserved", by |-> h]
  <2>2. PICK new : /\ ledger' = [ledger EXCEPT ![h].rows = new]
                   /\ \/ new = rows
                      \/ \E j \in Jobs : rows[j] = Queued /\ new = [rows EXCEPT ![j] = reserved]
    BY <2>1
  <2>3. rows \in [Jobs -> Row] /\ reserved \in Row
    BY LedgerTypes DEF Running, Row, Stages, Open
  <2>4. new \in [Jobs -> Row]
    BY <2>2, <2>3
  <2>5. ASSUME NEW i \in Jobs, NEW g \in Hosts, Counts(ledger[h].rows[i], g)
        PROVE  Counts(rows[i], g) /\ rows[i] # Queued
    <3>1. CASE i \notin lapsed
      BY <2>5, <3>1 DEF Recovered, Counts, Queued
    <3>2. CASE i \in lapsed
      <4>1. rows[i] = [ledger[h].rows[i] EXCEPT !.stage = "attention"]
        BY <2>5, <3>2 DEF Recovered, Counts
      <4> QED BY <1>1, <2>5, <4>1 DEF Row, Counts, Queued
    <3> QED BY <3>1, <3>2
  <2> HIDE DEF rows, reserved
  <2>6. \A i \in Jobs : new[i] = rows[i] \/ rows[i] = Queued
    BY <2>2, <2>3
  <2>7. \A i \in Jobs, g \in Hosts : Counts(ledger[h].rows[i], g) => Counts(new[i], g)
    BY <2>5, <2>6
  <2> QED BY <2>2, <2>4, <2>7, RowsKeepCalls
<1>4. CASE Calling(h)
  <2>1. worker[h].job \in Jobs /\ SetRow(h, worker[h].job, "calling", h)
    BY <1>1, <1>4 DEF Calling
  <2> QED BY <1>1, <1>4, <2>1, RowSetKeeps DEF Calling
<1>5. CASE CallingRetired(h)
  BY <1>5, AbandonedKeeps DEF CallingRetired
<1>6. CASE Submit(h)
  <2>1. CASE ledger' = ledger
    BY <2>1 DEF HistoryKept
  <2>2. CASE SetRow(h, worker[h].job, "settled", None)
    <3>1. /\ worker[h].job \in Jobs /\ ledger[h].rows[worker[h].job].by = h
          /\ <<h, worker[h].job>> \notin posted
      BY <1>1, <1>6 DEF Submit, CallInv
    <3> QED BY <1>1, <2>2, <3>1, RowSetKeeps
  <2> QED BY <1>6, <2>1, <2>2 DEF Submit
<1>7. CASE Submitted(h) \/ Fail(h)
  <2>1. worker[h].job \in Jobs /\ ledger[h].rows[worker[h].job].by = h
    BY <1>1, <1>7 DEF Submitted, Fail, CallInv
  <2>2. PICK stage \in {"response", "settled", "attention"} : SetRow(h, worker[h].job, stage, h)
    BY <1>7 DEF Submitted, Fail
  <2> QED BY <1>1, <2>1, <2>2, RowSetKeeps
<1>8. ASSUME NEW j \in Jobs, Retrieve(h, j)
      PROVE  HistoryKept(h)
  <2>1. ledger[h].rows[j].by \in Hosts \union {None}
    BY <1>1, <1>8 DEF Row
  <2>2. PICK stage \in {"settled", "attention"} : SetRow(h, j, stage, ledger[h].rows[j].by)
    BY <1>8 DEF Retrieve
  <2> QED BY <1>1, <1>8, <2>1, <2>2, RowSetKeeps
<1> QED BY <1>2, <1>3, <1>4, <1>5, <1>6, <1>7, <1>8 DEF WorkerStep

LEMMA OperatorKeeps ==
  ASSUME TypeOK, NEW h \in Hosts, OperatorStep(h)
  PROVE  HistoryKept(h)
<1>1. PICK j \in Jobs : Reconcile(h, j) \/ Release(h, j)
  BY DEF OperatorStep
<1> DEFINE by == ledger[h].rows[j].by
<1>2. by \in Hosts \union {None} /\ {"settled", "attention"} \subseteq Stages
  BY DEF TypeOK, Ledger, Row, Stages, Open
<1>3. CASE Reconcile(h, j)
  <2>1. PICK stage \in {"settled", "attention"} : SetRow(h, j, stage, by)
    BY <1>3 DEF Reconcile
  <2> QED BY <1>2, <2>1, RowSetKeeps
<1>4. CASE Release(h, j)
  <2>1. SetRow(h, j, "settled", IF <<by, j>> \in posted THEN by ELSE None)
    BY <1>4 DEF Release
  <2>2. CASE <<by, j>> \in posted
    <3>1. SetRow(h, j, "settled", by)
      BY <2>1, <2>2
    <3> QED BY <1>2, <3>1, RowSetKeeps
  <2>3. CASE <<by, j>> \notin posted
    <3>1. SetRow(h, j, "settled", None)
      BY <2>1, <2>3
    <3> QED BY <1>2, <2>3, <3>1, RowSetKeeps
  <2> QED BY <2>2, <2>3
<1> QED BY <1>1, <1>3, <1>4

(* The release after a loss charges what is open and records the usage.    *)
LEMMA LossKeeps ==
  ASSUME TypeOK, NEW h \in Hosts, ReleaseAfterLoss(h)
  PROVE  HistoryKept(h) /\ posted \ disk[h].pause \subseteq Accounted(ledger'[h])
<1> DEFINE usage == posted \ disk[h].pause
<1>1. /\ ledger \in [Hosts -> Ledger] /\ ledger[h].rows \in [Jobs -> Row]
      /\ ledger[h].recoveries \in [Hosts -> (SUBSET Calls) \union {None}]
      /\ usage \in SUBSET Calls
  BY DEF TypeOK, Ledger
<1>2. usage # None
  BY <1>1, NoneAssumption
<1>3. /\ ledger[h].recoveries[h] \in {None, usage} /\ ledger'[h] = AfterLoss(h, usage)
      /\ \A g \in Hosts \ {h} : ledger'[g] = ledger[g]
  BY <1>1 DEF ReleaseAfterLoss
<1> HIDE DEF usage
<1>4. ASSUME NEW j \in Jobs, NEW g \in Hosts, Counts(ledger[h].rows[j], g)
      PROVE  Counts(SettledAfterLoss(ledger[h].rows)[j], g)
  <2>1. CASE ledger[h].rows[j].stage \in {"calling", "response", "attention"}
    <3>1. SettledAfterLoss(ledger[h].rows)[j] = [ledger[h].rows[j] EXCEPT !.stage = "settled"]
      BY <2>1 DEF SettledAfterLoss
    <3> QED BY <1>1, <1>4, <3>1 DEF Row, Counts
  <2>2. CASE ledger[h].rows[j].stage \notin {"calling", "response", "attention"}
    <3>1. SettledAfterLoss(ledger[h].rows)[j] = ledger[h].rows[j]
      BY <1>4, <2>2 DEF SettledAfterLoss, Abandoned, Counts
    <3> QED BY <1>4, <3>1
  <2> QED BY <2>1, <2>2
<1>5. CASE ledger[h].recoveries[h] # None
  BY <1>3, <1>5 DEF AfterLoss, HistoryKept, Accounted, usage
<1>6. CASE ledger[h].recoveries[h] = None
  <2>1. /\ ledger'[h].rows = SettledAfterLoss(ledger[h].rows)
        /\ ledger'[h].recoveries = [ledger[h].recoveries EXCEPT ![h] = usage]
    BY <1>3, <1>6 DEF AfterLoss
  <2>2. /\ ledger'[h].recoveries[h] = usage
        /\ \A g \in Hosts \ {h} : ledger'[h].recoveries[g] = ledger[h].recoveries[g]
    BY <1>1, <2>1
  <2>3. HistoryKept(h)
    BY <1>3, <1>4, <1>6, <2>1, <2>2 DEF HistoryKept
  <2>4. usage \subseteq Accounted(ledger'[h])
    BY <1>2, <2>2 DEF Accounted
  <2> QED BY <2>3, <2>4 DEF usage
<1> QED BY <1>5, <1>6

LEMMA RetirementOwn ==
  ASSUME NEW h \in Hosts, \A s \in Stores : disk[h].fence[s] \in {None, h}
  PROVE  RetirementId(h) = h
<1>1. CASE Fenced(h)
  <2>1. \E id \in Hosts : \E s \in Stores : disk[h].fence[s] = id
    BY <1>1 DEF Fenced
  <2>2. RetirementId(h) \in Hosts /\ \E s \in Stores : disk[h].fence[s] = RetirementId(h)
    BY <1>1, <2>1 DEF RetirementId
  <2> QED BY <2>2, NoneAssumption
<1>2. CASE ~Fenced(h)
  BY <1>2 DEF RetirementId
<1> QED BY <1>1, <1>2

LEMMA PauseKept ==
  ASSUME ~PausedCopies, IInv, NEW h \in Hosts, PauseInv(h), Step(h)
  PROVE  PauseInv(h)'
<1>1. /\ disk \in [Hosts -> Disk] /\ command \in [Hosts -> Commands] /\ archives \subseteq Archive
      /\ disk[h].fence \in [Stores -> Hosts \union {None}] /\ HostInv(h)
  BY DEF IInv, TypeOK, Disk, Fence
<1>2. CASE WorkerStep(h) \/ OperatorStep(h)
  <2>1. disk' = disk /\ command' = command
    BY <1>2 DEF WorkerStep, StartWorker, StopWorker, WorkerRestarts, Claim, Calling,
                CallingRetired, Submit, Submitted, Fail, Retrieve, OperatorStep, Reconcile, Release
  <2> QED BY <2>1 DEF PauseInv
<1>3. CASE RetireSync(h) \/ RetireCompanion(h)
  <2>1. disk[h].pause = None /\ ~disk[h].pending /\ \A s \in Stores : disk[h].fence[s] \in {None, h}
    BY <1>3 DEF PauseInv, RetireSync, RetireCompanion
  <2>2. RetirementId(h) = h
    BY <2>1, RetirementOwn
  <2>3. /\ disk'[h].pause = None /\ ~disk'[h].pending
        /\ \A s \in Stores : disk'[h].fence[s] \in {disk[h].fence[s], h}
        /\ command'[h] \in {"fence", "abandon"}
    BY <1>1, <1>3, <2>1, <2>2 DEF RetireSync, RetireCompanion, Disk
  <2> QED BY <2>1, <2>3 DEF PauseInv
<1>4. CASE AbandonRetiredClaims(h) \/ Down(h) \/ Export(h) \/ EndBackup(h) \/ Interrupted(h)
  <2>1. /\ disk' = disk /\ command'[h] \in {"down", "export", "none"}
        /\ command'[h] # "none" => command[h] \in {"abandon", "down"}
    BY <1>1, <1>4 DEF AbandonRetiredClaims, Down, Export, EndBackup, Interrupted
  <2> QED BY <2>1 DEF PauseInv
<1>5. CASE BeginBackup(h)
  <2>1. disk' = disk /\ disk[h].pause = None /\ command'[h] \in {"backup", "backup running"}
    BY <1>1, <1>5 DEF BeginBackup
  <2> QED BY <2>1 DEF PauseInv
<1>6. CASE MarkRoot(h)
  <2>1. /\ disk'[h].pause = disk[h].pause /\ disk'[h].pending = disk[h].pending
        /\ disk'[h].fence = disk[h].fence /\ command'[h] = "none"
    BY <1>1, <1>6 DEF MarkRoot, Disk
  <2> QED BY <2>1 DEF PauseInv
<1>7. ASSUME NEW x \in archives, RestoreStores(x, h)
      PROVE  PauseInv(h)'
  <2>1. disk'[h] = Copied(x) /\ command'[h] = "restore" /\ x.created \in SUBSET Calls
    BY <1>1, <1>7 DEF RestoreStores, Archive
  <2>2. disk'[h].pause = x.created
    BY <2>1 DEF Copied
  <2>3. disk'[h].pause # None
    BY <2>1, <2>2, NoneAssumption
  <2> QED BY <2>1, <2>3 DEF PauseInv
<1>8. CASE AllowPaidWorker(h) \/ ReleaseAfterLoss(h)
  <2>1. disk' = disk /\ command'[h] = "release"
    BY <1>1, <1>8 DEF AllowPaidWorker, ReleaseAfterLoss
  <2> QED BY <2>1 DEF PauseInv
<1>9. CASE UnlinkPending(h)
  <2>1. /\ disk'[h].pause = disk[h].pause /\ ~disk'[h].pending
        /\ disk'[h].fence = disk[h].fence /\ command'[h] = "unlink"
    BY <1>1, <1>9 DEF UnlinkPending, Disk
  <2> QED BY <2>1 DEF PauseInv
<1>10. CASE UnlinkPause(h)
  <2>1. /\ disk'[h].pending = disk[h].pending /\ disk'[h].fence = disk[h].fence
        /\ command'[h] = "none" /\ ~disk[h].pending /\ ~Fenced(h)
    BY <1>1, <1>10 DEF UnlinkPause, Disk, PauseInv, HostInv, Releasing
  <2> QED BY <2>1 DEF PauseInv, Fenced
<1>11. CASE Lose(h)
  <2>1. disk'[h] = Unmarked("lost") /\ command'[h] = "none"
    BY <1>1, <1>11 DEF Lose
  <2> QED BY <2>1 DEF PauseInv, Unmarked, NoFence
<1> QED BY <1>2, <1>3, <1>4, <1>5, <1>6, <1>7, <1>8, <1>9, <1>10, <1>11
        DEF Step, HandoffStep, BackupStep, ReleaseStep

(* Who is billed, and who is let pay.                                      *)
LEMMA Payers ==
  ASSUME TypeOK, NEW h \in Hosts, Step(h)
  PROVE  /\ \/ posted' = posted
            \/ /\ worker[h].pc = "calling" /\ worker'[h] = [worker[h] EXCEPT !.pc = "posted"]
               /\ posted' = posted \union {<<h, worker[h].job>>}
               /\ ledger' = ledger /\ disk' = disk /\ command' = command
               /\ last' = last /\ archives' = archives
         /\ last' = last \/ (last' = h /\ (AllowPaidWorker(h) \/ ReleaseAfterLoss(h)))
<1>1. worker \in [Hosts -> Worker]
  BY DEF TypeOK
<1>2. CASE WorkerStep(h)
  <2>1. CASE Submit(h)
    BY <1>1, <2>1 DEF Submit
  <2> QED BY <1>2, <2>1 DEF WorkerStep, StartWorker, StopWorker, WorkerRestarts, Claim, Calling,
                            CallingRetired, Submitted, Fail, Retrieve
<1>3. CASE HandoffStep(h) \/ BackupStep(h) \/ OperatorStep(h) \/ Interrupted(h) \/ Lose(h)
  BY <1>3 DEF HandoffStep, RetireSync, RetireCompanion, AbandonRetiredClaims, Down, Export,
              BackupStep, BeginBackup, EndBackup, MarkRoot, RestoreStores, OperatorStep,
              Reconcile, Release, Interrupted, Lose
<1>4. CASE ReleaseStep(h)
  BY <1>4 DEF ReleaseStep, AllowPaidWorker, ReleaseAfterLoss, UnlinkPending, UnlinkPause
<1> QED BY <1>2, <1>3, <1>4 DEF Step

LEMMA StepKeeps ==
  ASSUME IInv, NEW h \in Hosts, CallInv(h), Step(h),
         ~Lose(h), \A x \in archives : ~RestoreStores(x, h)
  PROVE  /\ HistoryKept(h)
         /\ disk'[h].receipt = disk[h].receipt /\ disk'[h].from = disk[h].from
         /\ disk'[h].root = disk[h].root \/ MarkRoot(h)
<1>1. /\ TypeOK /\ HostInv(h) /\ disk \in [Hosts -> Disk]
  BY DEF IInv, TypeOK
<1>2. CASE WorkerStep(h)
  <2>1. disk' = disk
    BY <1>2 DEF WorkerStep, StartWorker, StopWorker, WorkerRestarts, Claim, Calling,
                CallingRetired, Submit, Submitted, Fail, Retrieve
  <2> QED BY <1>1, <1>2, <2>1, WorkerKeeps
<1>3. CASE OperatorStep(h)
  <2>1. disk' = disk
    BY <1>3 DEF OperatorStep, Reconcile, Release
  <2> QED BY <1>1, <1>3, <2>1, OperatorKeeps
<1>4. CASE HandoffStep(h)
  <2>1. /\ disk'[h].receipt = disk[h].receipt /\ disk'[h].from = disk[h].from
        /\ disk'[h].root = disk[h].root
    BY <1>1, <1>4 DEF HandoffStep, RetireSync, RetireCompanion, AbandonRetiredClaims, Down,
                      Export, Disk
  <2>2. CASE AbandonRetiredClaims(h)
    BY <1>1, <2>1, <2>2, AbandonedKeeps DEF AbandonRetiredClaims
  <2>3. CASE ledger' = ledger
    BY <2>1, <2>3 DEF HistoryKept
  <2> QED BY <1>4, <2>2, <2>3 DEF HandoffStep, RetireSync, RetireCompanion, Down, Export
<1>5. CASE BeginBackup(h) \/ EndBackup(h) \/ AllowPaidWorker(h) \/ Interrupted(h)
  BY <1>5 DEF BeginBackup, EndBackup, AllowPaidWorker, Interrupted, HistoryKept
<1>6. CASE MarkRoot(h) \/ UnlinkPending(h) \/ UnlinkPause(h)
  <2>1. ledger' = ledger
    BY <1>6 DEF MarkRoot, UnlinkPending, UnlinkPause
  <2>2. /\ disk'[h].receipt = disk[h].receipt /\ disk'[h].from = disk[h].from
        /\ disk'[h].root = disk[h].root \/ MarkRoot(h)
    BY <1>1, <1>6 DEF MarkRoot, UnlinkPending, UnlinkPause, Disk
  <2> QED BY <2>1, <2>2 DEF HistoryKept
<1>7. CASE ReleaseAfterLoss(h)
  BY <1>1, <1>7, LossKeeps DEF ReleaseAfterLoss
<1> QED BY <1>2, <1>3, <1>4, <1>5, <1>6, <1>7 DEF Step, BackupStep, ReleaseStep

(* A row whose call is under way is left alone by all but its worker.      *)
LEMMA RowUnderway ==
  ASSUME IInv, NEW h \in Hosts, CallInv(h), Step(h), ~Submit(h), ~Calling(h),
         worker'[h].pc \in {"calling", "posted"}
  PROVE  worker'[h] = worker[h] /\ ledger'[h].rows[worker[h].job] = ledger[h].rows[worker[h].job]
<1>1. /\ TypeOK /\ HostInv(h) /\ worker \in [Hosts -> Worker]
      /\ ledger \in [Hosts -> Ledger] /\ ledger[h].rows \in [Jobs -> Row]
  BY DEF IInv, TypeOK, Ledger
<1>2. CASE WorkerStep(h)
  <2>1. CASE worker' = worker /\ ledger' = ledger
    BY <2>1
  <2>2. worker'[h].pc \in {"off", "idle", "claimed"} \/ (worker' = worker /\ worker[h].pc = "idle")
    BY <1>1, <1>2 DEF WorkerStep, StartWorker, StopWorker, WorkerRestarts, Claim, CallingRetired,
                      Submitted, Fail, Retrieve, Entered, Off, Idle
  <2> QED BY <2>2
<1>3. CASE OperatorStep(h)
  <2>1. PICK j \in Jobs : Reconcile(h, j) \/ Release(h, j)
    BY <1>3 DEF OperatorStep
  <2>2. worker' = worker
    BY <2>1 DEF Reconcile, Release
  <2>3. worker[h].job \in Jobs /\ ledger[h].rows[worker[h].job].stage = "calling"
    BY <1>1, <2>2 DEF CallInv, HostInv
  <2>4. j # worker[h].job
    BY <2>1, <2>2, <2>3 DEF Reconcile, Release, Stopped
  <2>5. \A stage \in Stages, by \in Hosts \union {None} :
          SetRow(h, j, stage, by) => ledger'[h].rows[worker[h].job] = ledger[h].rows[worker[h].job]
    BY <1>1, <2>3, <2>4 DEF SetRow, Ledger
  <2>6. ledger[h].rows[j].by \in Hosts \union {None} /\ {"settled", "attention"} \subseteq Stages
    BY <1>1 DEF Row, Stages, Open
  <2> QED BY <2>1, <2>2, <2>5, <2>6 DEF Reconcile, Release
<1>4. CASE AbandonRetiredClaims(h)
  <2>1. worker' = worker /\ ledger'[h].rows = Abandoned(ledger[h].rows)
    BY <1>1, <1>4 DEF AbandonRetiredClaims, Ledger
  <2>2. worker[h].job \in Jobs /\ ledger[h].rows[worker[h].job].stage = "calling"
    BY <1>1, <2>1 DEF CallInv, HostInv
  <2> QED BY <2>1, <2>2 DEF Abandoned
<1>5. CASE ReleaseAfterLoss(h)
  BY <1>5 DEF ReleaseAfterLoss, Stopped
<1>6. ASSUME NEW x \in archives, RestoreStores(x, h)
      PROVE  FALSE
  BY <1>1, <1>6 DEF RestoreStores, HostInv, Stopped, Ready
<1>7. CASE Lose(h) \/ Down(h) \/ BeginBackup(h) \/ EndBackup(h)
  <2>1. worker'[h] \in {Off, Idle}
    BY <1>1, <1>7 DEF Lose, Down, BeginBackup, EndBackup, Entered
  <2> QED BY <2>1 DEF Off, Idle
<1>8. CASE RetireSync(h) \/ RetireCompanion(h) \/ Export(h) \/ MarkRoot(h) \/ AllowPaidWorker(h)
             \/ UnlinkPending(h) \/ UnlinkPause(h) \/ Interrupted(h)
  BY <1>8 DEF RetireSync, RetireCompanion, Export, MarkRoot, AllowPaidWorker, UnlinkPending,
              UnlinkPause, Interrupted
<1> QED BY <1>2, <1>3, <1>4, <1>5, <1>6, <1>7, <1>8 DEF Step, HandoffStep, BackupStep, ReleaseStep

LEMMA CallKept ==
  ASSUME IInv, NEW h \in Hosts, CallInv(h), Step(h)
  PROVE  CallInv(h)'
<1>1. /\ TypeOK /\ HostInv(h) /\ disk \in [Hosts -> Disk] /\ worker \in [Hosts -> Worker]
      /\ worker[h].pc \notin {"off", "idle"} => worker[h].job \in Jobs
      /\ ledger \in [Hosts -> Ledger] /\ ledger[h].rows \in [Jobs -> Row]
  BY DEF IInv, TypeOK, HostInv, Ledger
<1>2. CASE posted' # posted
  <2>1. /\ worker[h].pc = "calling" /\ worker'[h].pc = "posted" /\ worker'[h].job = worker[h].job
        /\ posted' = posted \union {<<h, worker[h].job>>} /\ ledger' = ledger /\ disk' = disk
    <3>1. /\ worker[h].pc = "calling" /\ worker'[h] = [worker[h] EXCEPT !.pc = "posted"]
          /\ posted' = posted \union {<<h, worker[h].job>>} /\ ledger' = ledger /\ disk' = disk
      BY <1>1, <1>2, Payers, Zenon
    <3> QED BY <1>1, <3>1, SMT DEF Worker
  <2>2. Ready(h) /\ Counts(ledger[h].rows[worker[h].job], h)
    BY <1>1, <2>1 DEF HostInv, Stopped, CallInv, Counts
  <2> QED BY <2>1, <2>2 DEF CallInv, Ready
<1>3. CASE posted' = posted
  <2>1. ASSUME NEW j \in Jobs, <<h, j>> \in posted
        PROVE  disk'[h].root = "lost" \/ (Ready(h)' /\ Counts(ledger'[h].rows[j], h))
    <3>1. disk[h].root = "lost" \/ (Ready(h) /\ Counts(ledger[h].rows[j], h))
      BY <2>1 DEF CallInv
    <3>2. CASE Lose(h)
      BY <1>1, <3>2 DEF Lose, Unmarked
    <3>3. ASSUME NEW x \in archives, RestoreStores(x, h)
          PROVE  FALSE
      BY <3>1, <3>3 DEF RestoreStores, Ready
    <3>4. CASE ~Lose(h) /\ \A x \in archives : ~RestoreStores(x, h)
      <4>1. HistoryKept(h) /\ (disk'[h].root = disk[h].root \/ MarkRoot(h))
        BY <3>4, StepKeeps
      <4>2. ~MarkRoot(h)
        BY <1>1, <3>1 DEF MarkRoot, HostInv, Ready
      <4> QED BY <2>1, <3>1, <4>1, <4>2 DEF HistoryKept, Ready
    <3> QED BY <3>2, <3>3, <3>4
  <2>2. CASE Calling(h)
    <3>1. PICK j \in Jobs :
            /\ j = worker[h].job /\ Ready(h) /\ ledger[h].rows[j].stage = "reserved"
            /\ SetRow(h, j, "calling", h) /\ worker'[h] = [worker[h] EXCEPT !.pc = "calling"]
      BY <1>1, <2>2 DEF Calling, HostInv, Stopped
    <3>2. worker'[h].pc = "calling" /\ worker'[h].job = j
      BY <1>1, <3>1 DEF Worker
    <3>3. ledger'[h].rows[j] = [stage |-> "calling", by |-> h]
      BY <1>1, <3>1 DEF SetRow, Ledger
    <3>4. <<h, j>> \notin posted
      BY <3>1 DEF CallInv, Counts, Ready
    <3> QED BY <1>3, <2>1, <3>2, <3>3, <3>4 DEF CallInv
  <2>3. CASE Submit(h)
    <3>1. worker[h].pc = "calling" /\ <<h, worker[h].job>> \notin posted
      BY <2>3 DEF Submit, CallInv
    <3>2. worker'[h].pc = "idle"
      BY <1>1, <1>3, <2>3, <3>1 DEF Submit, Idle
    <3> QED BY <1>3, <2>1, <3>2 DEF CallInv
  <2>4. CASE ~Submit(h) /\ ~Calling(h)
    <3>1. worker'[h].pc \in {"calling", "posted"} =>
            /\ worker'[h] = worker[h]
            /\ ledger'[h].rows[worker[h].job] = ledger[h].rows[worker[h].job]
      BY <2>4, RowUnderway
    <3> QED BY <1>3, <2>1, <3>1 DEF CallInv
  <2> QED BY <2>2, <2>3, <2>4
<1> QED BY <1>2, <1>3

LEMMA PausedKept ==
  ASSUME ~PausedCopies, IInv, BilledInv, NEW h \in Hosts, Step(h)
  PROVE  PausedCounts(h)'
<1>1. /\ TypeOK /\ HostInv(h) /\ disk \in [Hosts -> Disk] /\ ledger \in [Hosts -> Ledger]
      /\ PauseInv(h) /\ CallInv(h) /\ PausedCounts(h) /\ archives \subseteq Archive
  BY DEF IInv, TypeOK, BilledInv
<1>2. posted \subseteq posted'
  BY <1>1, Payers
<1>3. ASSUME NEW x \in archives, RestoreStores(x, h)
      PROVE  PausedCounts(h)'
  <2>1. disk'[h] = Copied(x) /\ ledger'[h] = x.ledger /\ x \in Archive
    BY <1>1, <1>3 DEF RestoreStores
  <2>2. /\ disk'[h].pause = x.created
        /\ disk'[h].receipt = IF x.handoff = None THEN None
                               ELSE [handoff |-> x.handoff, ledger |-> x.ledger]
        /\ disk'[h].fence = IF x.handoff = None THEN x.fence ELSE NoFence
    BY <2>1 DEF Copied
  <2>3. x.created \subseteq posted
    BY DEF BilledInv, HandoffsCount
  <2>4. CASE x.handoff # None
    <3>1. [handoff |-> x.handoff, ledger |-> x.ledger] \in Receipt
      BY <2>1, <2>4 DEF Archive, Receipt
    <3>2. disk'[h].receipt # None
      BY <2>2, <2>4, <3>1, NoneAssumption
    <3> QED BY <1>2, <2>2, <2>3, <3>2 DEF PausedCounts
  <2>5. CASE x.handoff = None
    <3>1. ~Fenced(h)' => x.fence = NoFence
      BY <2>1, <2>2, <2>5 DEF Fenced, NoFence, Archive, Fence
    <3>2. x.fence = NoFence => x.created \subseteq Accounted(x.ledger)
      BY <2>5 DEF BilledInv, HandoffsCount
    <3> QED BY <1>2, <2>1, <2>2, <2>3, <3>1, <3>2 DEF PausedCounts, Accounted
  <2> QED BY <2>4, <2>5
<1>4. CASE Lose(h)
  BY <1>1, <1>4 DEF Lose, Unmarked, PausedCounts
<1>5. CASE HandoffStep(h)
  <2>1. disk[h].pause = None
    BY <1>1, <1>5 DEF HandoffStep, RetireSync, RetireCompanion, AbandonRetiredClaims, Down, Export,
                      PauseInv
  <2>2. disk'[h].pause = disk[h].pause
    BY <1>1, <1>5 DEF HandoffStep, RetireSync, RetireCompanion, AbandonRetiredClaims, Down, Export,
                      Disk
  <2> QED BY <2>1, <2>2 DEF PausedCounts
<1>6. CASE ~Lose(h) /\ ~HandoffStep(h) /\ \A x \in archives : ~RestoreStores(x, h)
  <2>1. HistoryKept(h) /\ disk'[h].receipt = disk[h].receipt
    BY <1>1, <1>6, StepKeeps
  <2>2. disk'[h].fence = disk[h].fence /\ disk'[h].pause \in {disk[h].pause, None}
    <3>1. CASE MarkRoot(h) \/ UnlinkPending(h) \/ UnlinkPause(h)
      BY <1>1, <3>1 DEF MarkRoot, UnlinkPending, UnlinkPause, Disk
    <3>2. CASE WorkerStep(h) \/ OperatorStep(h)
      BY <3>2 DEF WorkerStep, StartWorker, StopWorker, WorkerRestarts, Claim, Calling, CallingRetired,
                  Submit, Submitted, Fail, Retrieve, OperatorStep, Reconcile, Release
    <3>3. CASE BeginBackup(h) \/ EndBackup(h) \/ AllowPaidWorker(h) \/ ReleaseAfterLoss(h)
                 \/ Interrupted(h)
      BY <3>3 DEF BeginBackup, EndBackup, AllowPaidWorker, ReleaseAfterLoss, Interrupted
    <3> QED BY <1>6, <3>1, <3>2, <3>3 DEF Step, BackupStep, ReleaseStep
  <2>3. \A S \in SUBSET posted : S \subseteq Accounted(ledger[h]) => S \subseteq Accounted(ledger'[h])
    BY <2>1, KeptAccounts
  <2>4. Fenced(h)' = Fenced(h)
    BY <2>2 DEF Fenced
  <2> QED BY <1>1, <1>2, <2>1, <2>2, <2>3, <2>4 DEF PausedCounts
<1> QED BY <1>3, <1>4, <1>5, <1>6

(* Once a source is final no other call is billed until another host is let  *)
(* pay, and it is never let pay again.                                       *)
LEMMA FinalStays ==
  ASSUME IInv, BilledInv, NEW h \in Hosts, Step(h), NEW s \in Hosts, Final(s), s = last'
  PROVE  s = last /\ posted' = posted
<1>1. TypeOK /\ HostInv(h)
  BY DEF IInv
<1>2. s = last
  <2>1. CASE last' = last
    BY <2>1
  <2>2. CASE last' = h /\ (AllowPaidWorker(h) \/ ReleaseAfterLoss(h))
    <3>1. Ready(h) /\ ~Fenced(h)
      BY <2>2 DEF AllowPaidWorker, ReleaseAfterLoss, Free
    <3>2. ~Final(h)
      BY <3>1 DEF Final, Ready, Retired, Fenced, Stores
    <3> QED BY <2>2, <3>2
  <2> QED BY <1>1, <2>1, <2>2, Payers
<1>3. worker[h].pc = "calling" => h = last
  BY DEF BilledInv, LastCounts, Active, MayPay
<1> QED BY <1>1, <1>2, <1>3, Payers DEF Final

LEMMA ArchiveCounts ==
  ASSUME ~PausedCopies, IInv, BilledInv, NEW h \in Hosts, Step(h), NEW x \in archives' \ archives
  PROVE  /\ x.created \subseteq posted
         /\ x.handoff # None => x.handoff = x.host
         /\ x.handoff # None /\ x.host = last => posted \subseteq Accounted(x.ledger)
         /\ x.handoff = None /\ x.fence = NoFence => x.created \subseteq Accounted(x.ledger)
         /\ posted' = posted /\ last' = last
<1>1. /\ HostInv(h) /\ PauseInv(h) /\ disk[h].fence \in [Stores -> Hosts \union {None}]
  BY DEF IInv, TypeOK, BilledInv, Disk, Fence
<1>2. Export(h) \/ EndBackup(h)
  BY Zenon DEF Step, WorkerStep, StartWorker, StopWorker, WorkerRestarts, Claim, Calling, CallingRetired,
         Submit, Submitted, Fail, Retrieve, HandoffStep, RetireSync, RetireCompanion,
         AbandonRetiredClaims, Down, BackupStep, BeginBackup, MarkRoot, RestoreStores,
         OperatorStep, Reconcile, Release, ReleaseStep, AllowPaidWorker, ReleaseAfterLoss,
         UnlinkPending, UnlinkPause, Interrupted, Lose
<1>3. posted' = posted /\ last' = last
  BY <1>2 DEF Export, EndBackup
<1>4. Ready(h) /\ disk[h].pause = None
  BY <1>1, <1>2 DEF Export, EndBackup, HostInv, PauseInv
<1>5. CASE Export(h)
  <2>1. x = Archived(h, disk[h].fence["sync"])
    BY <1>5 DEF Export
  <2>2. /\ x.handoff = disk[h].fence["sync"] /\ x.host = h /\ x.created = posted
        /\ x.ledger = ledger[h]
    BY <2>1 DEF Archived
  <2>3. disk[h].fence["sync"] = h
    BY <1>1, <1>4, <1>5 DEF Export, HostInv, PauseInv, Retired, Stores
  <2>4. h = last => posted \subseteq Accounted(ledger[h])
    BY <1>4 DEF BilledInv, LastCounts
  <2> QED BY <1>3, <2>2, <2>3, <2>4, NoneAssumption
<1>6. CASE EndBackup(h)
  <2>1. x = Archived(h, None)
    BY <1>6 DEF EndBackup
  <2>2. x.handoff = None /\ x.created = posted /\ x.ledger = ledger[h] /\ x.fence = disk[h].fence
    BY <2>1 DEF Archived
  <2>3. ASSUME disk[h].fence = NoFence
        PROVE  posted \subseteq Accounted(ledger[h])
    <3>1. ~Retired(h) /\ ~disk[h].pending
      BY <1>1, <1>4, <2>3 DEF Retired, NoFence, Stores, PauseInv
    <3>2. h = last
      BY <1>4, <3>1 DEF BilledInv, LastCounts, Active, MayPay, Unpaused
    <3> QED BY <1>4, <3>2 DEF BilledInv, LastCounts
  <2> QED BY <1>3, <2>2, <2>3
<1> QED BY <1>2, <1>5, <1>6

LEMMA HandoffsKept ==
  ASSUME ~PausedCopies, IInv, BilledInv, NEW h \in Hosts, Step(h)
  PROVE  HandoffsCount'
<1>1. /\ TypeOK /\ HostInv(h) /\ Move(h) /\ disk \in [Hosts -> Disk] /\ archives \subseteq Archive
  BY WorkerMoves, HandoffMoves, BackupMoves, OtherMoves DEF Step, IInv, TypeOK
<1>2. posted \subseteq posted'
  BY <1>1, Payers
<1>3. \A s \in Hosts : Final(s) /\ s = last' => s = last /\ posted' = posted
  BY FinalStays
<1>4. ASSUME NEW x \in archives'
      PROVE  /\ x.created \subseteq posted'
             /\ x.handoff # None => x.handoff = x.host
             /\ x.handoff # None /\ x.host = last' => posted' \subseteq Accounted(x.ledger)
             /\ x.handoff = None /\ x.fence = NoFence => x.created \subseteq Accounted(x.ledger)
  <2>1. CASE x \in archives
    <3>1. x.handoff # None => x.host \in Hosts /\ Final(x.host)
      BY <1>1, <2>1 DEF Archive, IInv, SourcesFinal
    <3> QED BY <1>2, <1>3, <2>1, <3>1 DEF BilledInv, HandoffsCount
  <2>2. CASE x \notin archives
    BY <2>2, ArchiveCounts
  <2> QED BY <2>1, <2>2
<1>5. ASSUME NEW g \in Hosts, disk'[g].receipt # None
      PROVE  /\ disk'[g].receipt.handoff = disk'[g].from
             /\ disk'[g].from = last' => posted' \subseteq Accounted(disk'[g].receipt.ledger)
  <2>1. CASE disk'[g].receipt = disk[g].receipt /\ disk'[g].from = disk[g].from
    <3>1. disk[g].from \in Hosts /\ Final(disk[g].from)
      BY <1>5, <2>1 DEF IInv, SourcesFinal
    <3> QED BY <1>3, <1>5, <2>1, <3>1 DEF BilledInv, HandoffsCount
  <2>2. ASSUME NEW x \in archives, RestoreStores(x, h), g = h
        PROVE  /\ disk'[g].receipt.handoff = disk'[g].from
               /\ disk'[g].from = last' => posted' \subseteq Accounted(disk'[g].receipt.ledger)
    <3>1. disk'[g] = Copied(x) /\ posted' = posted /\ last' = last
      BY <1>1, <2>2 DEF RestoreStores
    <3>2. /\ disk'[g].from = x.host
          /\ disk'[g].receipt = IF x.handoff = None THEN None
                                ELSE [handoff |-> x.handoff, ledger |-> x.ledger]
      BY <3>1 DEF Copied
    <3>3. x.handoff # None /\ disk'[g].receipt = [handoff |-> x.handoff, ledger |-> x.ledger]
      BY <1>5, <3>2
    <3>4. disk'[g].receipt.handoff = x.handoff /\ disk'[g].receipt.ledger = x.ledger
      BY <3>3
    <3> QED BY <3>1, <3>2, <3>3, <3>4 DEF BilledInv, HandoffsCount
  <2>3. CASE g # h
    <3>1. disk'[g] = disk[g]
      BY <1>1, <2>3 DEF Move, OthersSame
    <3> QED BY <2>1, <3>1
  <2>4. CASE Lose(h) /\ g = h
    BY <1>1, <1>5, <2>4 DEF Lose, Unmarked
  <2>5. CASE ~Lose(h) /\ \A x \in archives : ~RestoreStores(x, h)
    <3>1. disk'[h].receipt = disk[h].receipt /\ disk'[h].from = disk[h].from
      BY <2>5, StepKeeps DEF BilledInv
    <3> QED BY <2>1, <2>3, <3>1
  <2> QED BY <2>2, <2>3, <2>4, <2>5
<1> QED BY <1>4, <1>5 DEF HandoffsCount

(* The host that is let pay has every billed call.                         *)
LEMMA GrantCounts ==
  ASSUME IInv, BilledInv, NEW h \in Hosts, AllowPaidWorker(h) \/ ReleaseAfterLoss(h)
  PROVE  posted \subseteq Accounted(ledger'[h])
<1>1. TypeOK /\ Ready(h) /\ ~Fenced(h)
  BY DEF IInv, AllowPaidWorker, ReleaseAfterLoss, Free
<1>2. CASE AllowPaidWorker(h)
  <2>1. /\ disk[h].receipt # None /\ disk[h].receipt.ledger = ledger[h] /\ ledger' = ledger
        /\ last \in {disk[h].receipt.handoff, h}
    BY <1>2 DEF AllowPaidWorker
  <2>2. CASE last = disk[h].receipt.handoff
    BY <2>1, <2>2 DEF BilledInv, HandoffsCount
  <2>3. CASE last = h
    BY <1>1, <2>1, <2>3 DEF BilledInv, LastCounts
  <2> QED BY <2>1, <2>2, <2>3
<1>3. CASE ReleaseAfterLoss(h)
  <2>1. disk[h].receipt = None /\ disk[h].pause # None
    BY <1>3 DEF ReleaseAfterLoss
  <2>2. disk[h].pause \subseteq posted /\ disk[h].pause \subseteq Accounted(ledger[h])
    BY <1>1, <2>1 DEF BilledInv, PausedCounts
  <2>3. HistoryKept(h) /\ posted \ disk[h].pause \subseteq Accounted(ledger'[h])
    BY <1>1, <1>3, LossKeeps
  <2>4. disk[h].pause \subseteq Accounted(ledger'[h])
    BY <2>2, <2>3, KeptAccounts
  <2> QED BY <2>3, <2>4
<1> QED BY <1>2, <1>3

LEMMA LastKept ==
  ASSUME IInv, BilledInv, NEW h \in Hosts, Step(h)
  PROVE  LastCounts'
<1>1. /\ TypeOK /\ HostInv(h) /\ Move(h) /\ disk \in [Hosts -> Disk] /\ last \in Hosts
      /\ ledger \in [Hosts -> Ledger]
  BY WorkerMoves, HandoffMoves, BackupMoves, OtherMoves DEF Step, IInv, TypeOK
<1>2. \A g \in Hosts \ {h} : Active(g)' = Active(g) /\ disk'[g] = disk[g]
  BY <1>1 DEF Move, OthersSame, Active, MayPay, Releasing, Ready, Retired, Unpaused
<1>3. /\ worker[h].pc = "calling" => h = last
      /\ \A g \in Hosts : Active(g) => g = last
      /\ disk[last].root \in {"ready", "lost"} /\ (Ready(last) => posted \subseteq Accounted(ledger[last]))
  BY DEF BilledInv, LastCounts, Active, MayPay
<1>4. \A g \in Hosts \ {h} : ledger'[g] = ledger[g]
  <2>1. CASE Lose(h) \/ \E x \in archives : RestoreStores(x, h)
    BY <1>1, <2>1 DEF Lose, RestoreStores
  <2>2. CASE ~Lose(h) /\ \A x \in archives : ~RestoreStores(x, h)
    BY <2>2, StepKeeps DEF BilledInv, HistoryKept
  <2> QED BY <2>1, <2>2
<1>5. CASE last' # last
  <2>1. last' = h /\ (AllowPaidWorker(h) \/ ReleaseAfterLoss(h))
    BY <1>1, <1>5, Payers
  <2>2. /\ posted' = posted /\ Ready(h) /\ disk' = disk /\ SoleAmong(h, Hosts \ {disk[h].from})
        /\ Stopped(h) /\ ~Releasing(h)
    BY <2>1 DEF AllowPaidWorker, ReleaseAfterLoss, Free, SoleAmong, Releasing
  <2>3. posted' \subseteq Accounted(ledger'[h])
    BY <2>1, <2>2, GrantCounts
  <2>4. \A g \in Hosts : Active(g)' => g = h
    <3>1. OneActive'
      BY <1>1, MoveKeeps
    <3>2. Active(h)'
      BY <1>1, <2>1 DEF AllowPaidWorker, ReleaseAfterLoss, Active, Releasing, TypeOK
    <3> QED BY <3>1, <3>2 DEF OneActive
  <2> QED BY <2>1, <2>2, <2>3, <2>4 DEF LastCounts, Ready
<1>6. CASE last' = last
  <2>1. \A g \in Hosts : Active(g)' => g = last
    <3>1. Active(h)' => h = last
      <4>1. CASE Active(h)
        BY <1>3, <4>1
      <4>2. CASE AllowPaidWorker(h) \/ ReleaseAfterLoss(h)
        BY <1>6, <4>2 DEF AllowPaidWorker, ReleaseAfterLoss
      <4>3. CASE ~Active(h) /\ ~AllowPaidWorker(h) /\ ~ReleaseAfterLoss(h)
        <5>1. ~Granted(h)
          <6>1. command \in [Hosts -> Commands]
            BY <1>1 DEF TypeOK
          <6>2. CASE WorkerStep(h) \/ OperatorStep(h)
            BY <6>2 DEF WorkerStep, StartWorker, StopWorker, WorkerRestarts, Claim, Calling,
                        CallingRetired, Submit, Submitted, Fail, Retrieve, OperatorStep, Reconcile,
                        Release, Granted
          <6>3. CASE HandoffStep(h) \/ BackupStep(h)
            BY <6>1, <6>3 DEF HandoffStep, RetireSync, RetireCompanion, AbandonRetiredClaims, Down,
                              Export, BackupStep, BeginBackup, EndBackup, MarkRoot, RestoreStores,
                              Granted
          <6>4. CASE UnlinkPending(h) \/ UnlinkPause(h) \/ Interrupted(h) \/ Lose(h)
            BY <6>1, <6>4 DEF UnlinkPending, UnlinkPause, Interrupted, Lose, Granted
          <6> QED BY <4>3, <6>2, <6>3, <6>4 DEF Step, ReleaseStep
        <5> QED BY <1>1, <4>3, <5>1 DEF Move, AloneWhenActive
      <4> QED BY <4>1, <4>2, <4>3
    <3> QED BY <1>2, <1>3, <3>1
  <2>2. CASE h # last
    BY <1>1, <1>2, <1>3, <1>4, <1>6, <2>1, <2>2, Payers DEF LastCounts, Ready
  <2>3. CASE h = last /\ Lose(h)
    BY <1>1, <1>6, <2>1, <2>3 DEF Lose, Unmarked, LastCounts, Ready
  <2>4. CASE h = last /\ ~Lose(h)
    <3>1. \A x \in archives : ~RestoreStores(x, h)
      BY <1>3, <2>4 DEF RestoreStores
    <3>2. HistoryKept(h) /\ disk'[h].root = disk[h].root
      <4>1. ~MarkRoot(h)
        BY <1>1, <1>3, <2>4 DEF MarkRoot, HostInv
      <4> QED BY <2>4, <3>1, <4>1, StepKeeps DEF BilledInv
    <3>3. Ready(h) => posted' \subseteq Accounted(ledger'[h])
      <4>1. CASE posted' = posted
        BY <1>3, <2>4, <3>2, <4>1, KeptAccounts
      <4>2. CASE posted' # posted
        <5>1. /\ worker[h].pc = "calling" /\ posted' = posted \union {<<h, worker[h].job>>}
              /\ ledger' = ledger
          BY <1>1, <4>2, Payers
        <5>2. worker[h].job \in Jobs /\ Counts(ledger[h].rows[worker[h].job], h)
          <6>1. worker[h].job \in Jobs
            BY <1>1, <5>1 DEF HostInv
          <6>2. ledger[h].rows[worker[h].job] = [stage |-> "calling", by |-> h]
            BY <5>1 DEF BilledInv, CallInv
          <6> QED BY <6>1, <6>2 DEF Counts
        <5>3. <<h, worker[h].job>> \in Accounted(ledger[h])
          BY <5>2 DEF Accounted, Calls
        <5> QED BY <1>3, <2>4, <5>1, <5>3
      <4> QED BY <4>1, <4>2
    <3> QED BY <1>3, <1>6, <2>1, <2>4, <3>2, <3>3 DEF LastCounts, Ready
  <2> QED BY <2>2, <2>3, <2>4
<1> QED BY <1>5, <1>6

LEMMA BilledStep ==
  ASSUME ~PausedCopies, IInv, BilledInv, NEW h \in Hosts, Step(h)
  PROVE  BilledInv'
<1>1. TypeOK /\ Move(h)
  BY WorkerMoves, HandoffMoves, BackupMoves, OtherMoves DEF Step, IInv
<1>2. PauseInv(h)' /\ CallInv(h)' /\ PausedCounts(h)'
  BY PauseKept, CallKept, PausedKept DEF BilledInv
<1>3. ASSUME NEW g \in Hosts \ {h}
      PROVE  PauseInv(g)' /\ CallInv(g)' /\ PausedCounts(g)'
  <2>1. disk'[g] = disk[g] /\ worker'[g] = worker[g] /\ command'[g] = command[g]
    BY <1>1 DEF Move, OthersSame
  <2>2. ledger'[g] = ledger[g]
    <3>1. CASE Lose(h) \/ \E x \in archives : RestoreStores(x, h)
      BY <1>1, <3>1 DEF Lose, RestoreStores, TypeOK
    <3>2. CASE ~Lose(h) /\ \A x \in archives : ~RestoreStores(x, h)
      BY <3>2, StepKeeps DEF BilledInv, HistoryKept
    <3> QED BY <3>1, <3>2
  <2>3. posted \subseteq posted' /\ \A j : <<g, j>> \in posted' => <<g, j>> \in posted
    <3>1. posted' = posted \/ posted' = posted \union {<<h, worker[h].job>>}
      BY <1>1, Payers
    <3> QED BY <3>1
  <2>4. PauseInv(g) /\ CallInv(g) /\ PausedCounts(g)
    BY DEF BilledInv
  <2> QED BY <2>1, <2>2, <2>3, <2>4 DEF PauseInv, CallInv, PausedCounts, Ready, Fenced
<1> QED BY <1>2, <1>3, HandoffsKept, LastKept DEF BilledInv

\* While only released copies are backed up, every call the provider billed, on any
\* host, counts on the host that may make the next one (settle_after_host_loss,
\* allow_paid_worker; LINUX.md: "never too little").
THEOREM BilledOnceAtLeast ==
  ASSUME ~PausedCopies
  PROVE  Spec => []NeverTooLittle
<1>1. Init => BilledInv
  <2> SUFFICES ASSUME Init PROVE BilledInv
    OBVIOUS
  <2>1. \A h \in Hosts : disk[h] = Unmarked(IF h = First THEN "ready" ELSE "none")
    BY DEF Init
  <2>2. \A h \in Hosts :
          /\ command[h] = "none" /\ worker[h].pc = "off" /\ disk[h].pause = None
          /\ ~disk[h].pending /\ disk[h].receipt = None /\ disk[h].fence = NoFence
          /\ disk[h].root = IF h = First THEN "ready" ELSE "none"
    BY <2>1 DEF Init, Off, Unmarked
  <2>3. posted = {} /\ archives = {} /\ last = First /\ First \in Hosts
    BY HostAssumption DEF Init
  <2>4. \A h \in Hosts : PauseInv(h) /\ CallInv(h) /\ PausedCounts(h)
    BY <2>2, <2>3 DEF PauseInv, CallInv, PausedCounts, NoFence
  <2>5. HandoffsCount
    BY <2>2, <2>3 DEF HandoffsCount
  <2>6. LastCounts
    BY <2>2, <2>3 DEF LastCounts, Active, MayPay, Releasing, Ready
  <2> QED BY <2>4, <2>5, <2>6 DEF BilledInv
<1>2. IInv /\ BilledInv /\ [Next]_vars => BilledInv'
  <2> SUFFICES ASSUME IInv, BilledInv, [Next]_vars PROVE BilledInv'
    OBVIOUS
  <2>1. CASE UNCHANGED vars
    BY <2>1 DEF vars, BilledInv, PauseInv, CallInv, PausedCounts, HandoffsCount, LastCounts,
                Active, MayPay, Releasing, Ready, Retired, Unpaused, Fenced
  <2>2. CASE Next
    <3>1. PICK h \in Hosts : Step(h)
      BY <2>2 DEF Next, Step
    <3> QED BY <3>1, BilledStep
  <2> QED BY <2>1, <2>2
<1>3. IInv /\ BilledInv => NeverTooLittle
  BY DEF IInv, HostInv, Stopped, BilledInv, LastCounts, Active, MayPay, NeverTooLittle
<1> QED BY <1>1, <1>2, <1>3, HostsInductive, PTL DEF Spec
=============================================================================
