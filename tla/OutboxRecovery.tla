--------------------------- MODULE OutboxRecovery ---------------------------
(***************************************************************************)
(* ClientOutbox with backups: a collection backup holds the client's       *)
(* queue, a backend backup what the companion received, and either may be  *)
(* restored while the other goes on.  A restored client sends nothing      *)
(* before it is reconnected to its skills (learnrecur_skill_identities),   *)
(* which only delays its steps.                                            *)
(***************************************************************************)
EXTENDS ClientOutbox

CONSTANT
  MaxRestores  \* bound: backups restored, of either side

ASSUME RestoresAssumption == MaxRestores \in Nat

VARIABLES
  clientBackup,    \* the queue in the collection backup
  serverBackup,    \* the received states in the backend backup
  clientRestores,  \* collection backups restored so far
  serverRestores   \* backend backups restored so far

MayRestore == clientRestores + serverRestores < MaxRestores

backups == <<clientBackup, serverBackup>>
recoveryVars == <<vars, backups, clientRestores, serverRestores>>

RecoveryInit ==
  /\ Init
  /\ clientBackup = outbox /\ serverBackup = companion
  /\ clientRestores = 0 /\ serverRestores = 0

BackUpClient ==
  /\ MayRestore /\ clientBackup # outbox
  /\ clientBackup' = outbox
  /\ UNCHANGED <<vars, serverBackup, clientRestores, serverRestores>>

BackUpServer ==
  /\ MayRestore /\ serverBackup # companion
  /\ serverBackup' = companion
  /\ UNCHANGED <<vars, clientBackup, clientRestores, serverRestores>>

\* A row the backup lacks would be queued again under another id, so a backup is
\* restored here only when it has the rows there are.
RestoreClient ==
  /\ MayRestore /\ clientRestores' = clientRestores + 1
  /\ clientBackup # outbox
  /\ \A r \in Rows : Queued(r) <=> clientBackup[r].version > 0
  /\ outbox' = clientBackup
  /\ NewController
  /\ UNCHANGED <<companion, changes, losses, backups, serverRestores>>

RestoreServer ==
  /\ MayRestore /\ serverRestores' = serverRestores + 1
  /\ serverBackup # companion
  /\ companion' = serverBackup
  /\ UNCHANGED <<clientVars, controllerVars, delayed, changes, losses, backups, clientRestores>>

RecoveryNext ==
  \/ Next /\ UNCHANGED <<backups, clientRestores, serverRestores>>
  \/ BackUpClient \/ BackUpServer \/ RestoreClient \/ RestoreServer

RecoverySpec == RecoveryInit /\ [][RecoveryNext]_recoveryVars
FairRecoverySpec == RecoverySpec /\ Fairness

-----------------------------------------------------------------------------
(* Properties.                                                               *)

\* REPORTS.md: a receipt for an earlier version cannot acknowledge a later local
\* change.  Until a backup is restored, a row that the client counts as acknowledged
\* is what the companion holds, whatever was lost, delayed or changed while it was
\* sent.
HeldUntilRestored == clientRestores + serverRestores = 0 => AckedIsHeld

\* A delayed request cannot reactivate a withdrawn report, nor an old one a skill:
\* only a restore takes back what the companion received.
OnlyRestoresGoBack ==
  [][serverRestores' = serverRestores =>
       \A r \in Rows : companion'[r] # companion[r] =>
                         companion'[r].version > companion[r].version]_recoveryVars

\* No receipt, however late, makes the client count more as acknowledged than the
\* companion has received, also when the client's queue comes from an older backup.
AckedNotAhead ==
  serverRestores = 0 => \A r \in Rows : outbox[r].acked <= companion[r].version

\* REPORTS.md: the client resends acknowledged states, which lets a surviving
\* client restore what is missing from an older backend backup.  Both sides agree
\* in the end.
RestoredSidesAgree ==
  <>[](clientRestores = 0 => \A r \in Rows : Queued(r) => companion[r] = Said(outbox[r]))

\* A restored client that is behind moves past the companion's version, and what
\* is refused for good must not hold up the delivery: what waits is in the end
\* acknowledged or replaced, from whatever backup it comes.
NothingWaitsForever == []<>(Pending = {})
=============================================================================
