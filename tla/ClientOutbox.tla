---------------------------- MODULE ClientOutbox ----------------------------
(***************************************************************************)
(* How a desktop client tells the companion about reported exercises and   *)
(* deleted skills.  Both use the same kind of queue                        *)
(* (learnrecur_report_outbox, learnrecur_retirement_outbox), the same      *)
(* delivery controller (ReportDelivery, RetirementDelivery) and the same   *)
(* rule on the companion (Reports.receive, Retirements.receive): the       *)
(* newest version wins.                                                    *)
(*                                                                         *)
(* outbox[r] is the client's row: what the user last said and the version  *)
(* the companion acknowledged.  Undo of a report withdraws it, so what is  *)
(* said is a version, active or not, and the time in the payload.  Replies *)
(* get lost, and a request the client gave up on may still arrive          *)
(* (delayed).  The skills exist on both sides: refusals for another reason *)
(* than conflicting content are left out.                                  *)
(***************************************************************************)
EXTENDS Integers, FiniteSets, FiniteSetsExt

CONSTANTS
  NumRows,     \* rows the queue may come to hold, in the order of their ids
  Limit,       \* rows per pass (10 in the code)
  Kind,        \* "report" or "retirement"
  MaxChanges,  \* bound: times the user reports, deletes, undoes or redoes
  MaxLosses    \* bound: failed passes and restarts

ASSUME RowsAssumption == NumRows \in Nat /\ Limit \in Nat \ {0}
ASSUME KindAssumption == Kind \in {"report", "retirement"}
ASSUME BoundsAssumption == MaxChanges \in Nat /\ MaxLosses \in Nat

VARIABLES
  outbox,     \* the client's queue, saved with its collection
  session,    \* what native Undo or Redo would do to each row
  sender,     \* the controller's pass: where it is, what it sends and got back
  after,      \* controller.after: how far the replay of old rows came
  replayed,   \* controller.replayed
  again,      \* controller.again
  companion,  \* exercise_reports or skill_retirements
  delayed,    \* requests the client gave up on and that may still arrive
  changes,    \* user actions so far; also the clock of created_at_ms
  losses      \* failed passes and restarts so far

clientVars == <<outbox, session>>
controllerVars == <<sender, after, replayed, again>>
vars == <<outbox, session, sender, after, replayed, again, companion, delayed, changes, losses>>

Rows == 1..NumRows
State == [version : Nat, active : BOOLEAN, time : Nat]
Row == [version : Nat, active : BOOLEAN, time : Nat, acked : Nat]
Message == [row : Rows, version : Nat, active : BOOLEAN, time : Nat]
Receipt == [row : Rows, version : Nat, active : BOOLEAN]
Pass == [pc : {"idle", "preparing", "sending"}, replay : BOOLEAN,
         batch : SUBSET Message, receipts : SUBSET Receipt]

NoState == [version |-> 0, active |-> FALSE, time |-> 0]
NoRow == [version |-> 0, active |-> FALSE, time |-> 0, acked |-> 0]
Resting == [pc |-> "idle", replay |-> FALSE, batch |-> {}, receipts |-> {}]

Said(x) == [version |-> x.version, active |-> x.active, time |-> x.time]
Queued(r) == outbox[r].version > 0
Pending == {r \in Rows : outbox[r].version > outbox[r].acked}

Init ==
  /\ outbox = [r \in Rows |-> NoRow] /\ session = [r \in Rows |-> "none"]
  /\ sender = Resting /\ after = 0 /\ replayed = FALSE /\ again = FALSE
  /\ companion = [r \in Rows |-> NoState] /\ delayed = {}
  /\ changes = 0 /\ losses = 0

-----------------------------------------------------------------------------
(* The user.  Every change is one undoable transaction that also queues the  *)
(* row with its next version.                                                *)

\* created_at_ms; a retirement carries no time.
Now == IF Kind = "report" THEN changes + 1 ELSE 0

\* queue_skill_report, queue_skill_retirement: insert with version 1, or version + 1.
Requeued(row, active, time) ==
  [version |-> row.version + 1, active |-> active, time |-> time, acked |-> row.acked]

Requeue(r, active, time) ==
  /\ changes < MaxChanges /\ changes' = changes + 1
  /\ outbox' = [outbox EXCEPT ![r] = Requeued(outbox[r], active, time)]
  /\ UNCHANGED <<controllerVars, companion, delayed, losses>>

\* Report an exercise that is not excluded, or delete a skill that is there; a
\* new operation clears what could be redone.
Say(r) ==
  /\ ~outbox[r].active
  /\ Requeue(r, TRUE, Now)
  /\ session' = [q \in Rows |-> IF q = r THEN "undo"
                                ELSE IF session[q] = "redo" THEN "none" ELSE session[q]]

Undo(r) ==
  /\ session[r] = "undo"
  /\ Requeue(r, FALSE, outbox[r].time)
  /\ session' = [session EXCEPT ![r] = "redo"]

Redo(r) ==
  /\ session[r] = "redo"
  /\ Requeue(r, TRUE, outbox[r].time)
  /\ session' = [session EXCEPT ![r] = "undo"]

-----------------------------------------------------------------------------
(* The companion.                                                            *)

\* The same version with another content is refused with a conflict.
Conflicts(m) ==
  LET saved == companion[m.row] IN
  /\ saved.version = m.version
  /\ saved.active # m.active \/ (Kind = "report" /\ saved.time # m.time)

\* Faulty form of Received: a delayed request replaces a later one.
LastReceived(m) ==
  IF Conflicts(m) THEN companion ELSE [companion EXCEPT ![m.row] = Said(m)]

\* receive: only a newer version is saved.
Received(m) ==
  IF m.version > companion[m.row].version
    THEN [companion EXCEPT ![m.row] = Said(m)] ELSE companion

\* A request its sender no longer waits for.
Arrive(m) ==
  /\ m \in delayed /\ delayed' = delayed \ {m}
  /\ companion' = Received(m)
  /\ UNCHANGED <<clientVars, controllerVars, changes, losses>>

-----------------------------------------------------------------------------
(* The controller: check, prepare, send, acknowledge.                        *)

Unsent == {m \in sender.batch : \A c \in sender.receipts : c.row # m.row}

\* check, up to the guards that let a pass begin.
MayStart(force) ==
  /\ \E r \in Rows : Queued(r)
  /\ ~(force /\ replayed /\ Pending = {})

\* Faulty form of StartPass: an acknowledged row is never sent again.
StartOnce(force) ==
  /\ UNCHANGED <<after, replayed>>
  /\ sender' = [Resting EXCEPT !.pc = "preparing"]

StartPass(force) ==
  /\ IF replayed /\ ~force THEN after' = 0 /\ replayed' = FALSE
                           ELSE UNCHANGED <<after, replayed>>
  /\ sender' = [Resting EXCEPT !.pc = "preparing"]

\* At the deck list or the overview, or forced by a change of a note.
Check(force) ==
  /\ sender.pc = "idle" /\ ~again /\ MayStart(force)
  /\ StartPass(force)
  /\ UNCHANGED <<clientVars, again, companion, delayed, changes, losses>>

CheckBusy ==
  /\ sender.pc # "idle" /\ ~again
  /\ again' = TRUE
  /\ UNCHANGED <<clientVars, sender, after, replayed, companion, delayed, changes, losses>>

\* finish runs the check that was asked for meanwhile.
CheckAgain ==
  /\ sender.pc = "idle" /\ again /\ again' = FALSE
  /\ IF MayStart(TRUE) THEN StartPass(TRUE) ELSE UNCHANGED <<sender, after, replayed>>
  /\ UNCHANGED <<clientVars, companion, delayed, changes, losses>>

\* "order by id limit 10"
FirstRows(S) == {r \in S : Cardinality({q \in S : q < r}) < Limit}

MessageOf(r) ==
  [row |-> r, version |-> outbox[r].version, active |-> outbox[r].active, time |-> outbox[r].time]

\* prepare and prepared: the pending rows, or else the next rows of the replay.
Prepare ==
  /\ sender.pc = "preparing"
  /\ LET replay == Pending = {} /\ ~replayed
         rows == FirstRows(IF replay THEN {r \in Rows : Queued(r) /\ r > after} ELSE Pending)
     IN /\ sender' = IF rows = {} THEN Resting
                     ELSE [pc |-> "sending", replay |-> replay, receipts |-> {},
                           batch |-> {MessageOf(r) : r \in rows}]
        /\ replayed' = (replayed \/ rows = {})
  /\ UNCHANGED <<clientVars, after, again, companion, delayed, changes, losses>>

\* failed drops what was received and the check that was asked for.
FailPass == sender' = Resting /\ again' = FALSE

ReceiptOf(m, saved) == [row |-> m.row, version |-> saved.version, active |-> saved.active]

\* _send: one request and its reply.  A conflict is final for a retirement, which
\* counts as handled; for a report it ends the pass.
Send(m) ==
  /\ sender.pc = "sending"
  /\ m \in Unsent /\ \A other \in Unsent : m.row <= other.row
  /\ companion' = Received(m)
  /\ IF Conflicts(m) /\ Kind = "report" THEN FailPass
     ELSE /\ LET reply == IF Conflicts(m) THEN m ELSE companion'[m.row]
             IN sender' = [sender EXCEPT !.receipts = @ \union {ReceiptOf(m, reply)}]
          /\ UNCHANGED again
  /\ UNCHANGED <<clientVars, after, replayed, delayed, changes, losses>>

\* No snapshot, no connection or no reply in time; the request may yet arrive.
Fail ==
  /\ sender.pc # "idle" /\ losses < MaxLosses /\ losses' = losses + 1
  /\ FailPass
  /\ \/ UNCHANGED delayed
     \/ \E m \in Unsent : /\ \A other \in Unsent : m.row <= other.row
                          /\ delayed' = delayed \union {m}
  /\ UNCHANGED <<clientVars, after, replayed, companion, changes>>

\* Faulty form of Acknowledged: whatever version the row has by now.
AcknowledgedAnyVersion(row, m, c) ==
  IF c.version = m.version /\ c.active = row.active
    THEN [row EXCEPT !.acked = row.version]
    ELSE [row EXCEPT !.version = c.version + 1, !.acked = 0]

\* Faulty form of Acknowledged: the increment goes to the wrong column.
AcknowledgedNext(row, m, c) ==
  IF row.version # m.version THEN row
  ELSE IF c.version = row.version /\ c.active = row.active
    THEN [row EXCEPT !.acked = row.version + 1]
    ELSE [row EXCEPT !.version = c.version, !.acked = 0]

\* Faulty form of Acknowledged: a receipt for a newer version changes nothing.
AcknowledgedOrKept(row, m, c) ==
  IF row.version = m.version /\ c.version = row.version /\ c.active = row.active
    THEN [row EXCEPT !.acked = row.version] ELSE row

\* acknowledge_skill_report, acknowledge_skill_retirement: one update of the row
\* that still has the version sent.
Acknowledged(row, m, c) ==
  IF row.version # m.version THEN row
  ELSE IF c.version = row.version /\ c.active = row.active
    THEN [row EXCEPT !.acked = row.version]
    ELSE [row EXCEPT !.version = c.version + 1, !.acked = 0]

\* received and acknowledged: the receipts of the whole batch in one operation.
Acknowledge ==
  /\ sender.pc = "sending" /\ Unsent = {}
  /\ outbox' = [r \in Rows |->
       IF \E m \in sender.batch : m.row = r
         THEN Acknowledged(outbox[r], CHOOSE m \in sender.batch : m.row = r,
                                      CHOOSE c \in sender.receipts : c.row = r)
         ELSE outbox[r]]
  /\ after' = IF sender.replay THEN Max({m.row : m \in sender.batch}) ELSE after
  /\ again' = TRUE
  /\ sender' = Resting
  /\ UNCHANGED <<session, replayed, companion, delayed, changes, losses>>

-----------------------------------------------------------------------------
(* Restarts and full downloads.                                              *)

\* A new controller; what the old one was sending may still arrive.
NewController ==
  /\ sender' = Resting /\ after' = 0 /\ replayed' = FALSE /\ again' = FALSE
  /\ session' = [r \in Rows |-> "none"]
  /\ \E lost \in SUBSET Unsent : delayed' = delayed \union lost

Reopen ==
  /\ losses < MaxLosses /\ losses' = losses + 1
  /\ NewController
  /\ UNCHANGED <<outbox, companion, changes>>

\* withdraw_restored_retirements: the downloaded collection has the skill back.
Download(r) ==
  /\ Kind = "retirement" /\ outbox[r].active
  /\ changes < MaxChanges /\ changes' = changes + 1
  /\ outbox' = [outbox EXCEPT ![r] = Requeued(outbox[r], FALSE, outbox[r].time)]
  /\ NewController
  /\ UNCHANGED <<companion, losses>>

UserStep == \E r \in Rows : Say(r) \/ Undo(r) \/ Redo(r) \/ Download(r)

Next ==
  \/ UserStep
  \/ \E force \in BOOLEAN : Check(force)
  \/ CheckBusy \/ CheckAgain \/ Prepare
  \/ \E m \in sender.batch : Send(m)
  \/ Acknowledge \/ Fail \/ Reopen
  \/ \E m \in delayed : Arrive(m)

\* The user comes back to the deck list, and calls that are made come back.
Fairness ==
  /\ WF_vars(Check(FALSE)) /\ WF_vars(CheckAgain) /\ WF_vars(Prepare)
  /\ WF_vars(\E m \in sender.batch : Send(m)) /\ WF_vars(Acknowledge)

Spec == Init /\ [][Next]_vars
FairSpec == Spec /\ Fairness

-----------------------------------------------------------------------------
(* Properties.                                                               *)

TypeOK ==
  /\ outbox \in [Rows -> Row] /\ \A r \in Rows : outbox[r].acked <= outbox[r].version
  /\ session \in [Rows -> {"none", "undo", "redo"}] /\ sender \in Pass /\ after \in 0..NumRows
  /\ replayed \in BOOLEAN /\ again \in BOOLEAN
  /\ companion \in [Rows -> State] /\ delayed \subseteq Message
  /\ changes \in 0..MaxChanges /\ losses \in 0..MaxLosses

\* REPORTS.md: a receipt for an earlier version cannot acknowledge a later local
\* change, and a delayed request cannot reactivate a withdrawn report.  A row that
\* the client counts as acknowledged is what the companion holds, whatever was
\* lost, delayed or changed while it was sent.
AckedIsHeld ==
  \A r \in Rows : Queued(r) /\ outbox[r].acked = outbox[r].version => companion[r] = Said(outbox[r])
=============================================================================
