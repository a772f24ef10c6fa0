---------------------------- MODULE OutboxProofs ----------------------------
(***************************************************************************)
(* For every number of rows, rows per pass and user actions, and for both  *)
(* kinds of row: what the client counts as acknowledged is what the        *)
(* companion holds.                                                        *)
(*                                                                         *)
(* The row is the newest: whatever the companion holds, or may yet receive *)
(* about a row, has no newer version than the row, and the row's content   *)
(* if it has the row's version.  The companion has received what a receipt *)
(* names and what the client counts as acknowledged.  With backups, this   *)
(* holds until one is restored; what concerns receipts alone also holds of *)
(* a client restored from a backup, until the companion is restored.       *)
(***************************************************************************)
EXTENDS OutboxRecovery, TLAPS

TypesOK ==
  /\ outbox \in [Rows -> Row] /\ companion \in [Rows -> State]
  /\ delayed \subseteq Message /\ sender \in Pass /\ changes \in Nat

Covers(r, x) ==
  /\ x.version <= outbox[r].version
  /\ x.version = outbox[r].version => Said(x) = Said(outbox[r])

RowIsNewest ==
  /\ \A r \in Rows : Covers(r, companion[r])
  /\ \A m \in delayed \union sender.batch : Covers(m.row, m)

ReceiptsAreReceived ==
  \A c \in sender.receipts :
    /\ c.version <= companion[c.row].version
    /\ \A m \in sender.batch : m.row = c.row => m.version <= c.version

AckedIsReceived == \A r \in Rows : outbox[r].acked <= companion[r].version

OneMessageEach == \A m, n \in sender.batch : m.row = n.row => m = n

\* What also a client whose queue was restored from a backup keeps to.
QueueOK == TypesOK /\ ReceiptsAreReceived /\ AckedIsReceived /\ OneMessageEach

IInv == QueueOK /\ RowIsNewest

QueueKept == QueueOK' /\ (RowIsNewest => RowIsNewest')

-----------------------------------------------------------------------------

\* A row whose content stays, or whose version grows, still covers what it did.
LEMMA CoversStill ==
  ASSUME NEW r \in Rows, NEW x, x.version \in Nat, TypesOK, TypesOK', Covers(r, x),
         \/ Said(outbox'[r]) = Said(outbox[r])
         \/ outbox'[r].version > outbox[r].version
  PROVE  x.version <= outbox'[r].version
         /\ (x.version = outbox'[r].version => Said(x) = Said(outbox'[r]))
<1>1. outbox[r] \in Row /\ outbox'[r] \in Row
  BY DEF TypesOK
<1>2. outbox[r].version \in Nat /\ outbox'[r].version \in Nat
  BY <1>1 DEF Row
<1>3. CASE Said(outbox'[r]) = Said(outbox[r])
  <2>1. outbox'[r].version = outbox[r].version
    BY <1>3 DEF Said
  <2> QED
    BY <2>1, <1>3 DEF Covers
<1>4. CASE outbox'[r].version > outbox[r].version
  BY <1>2, <1>4 DEF Covers
<1> QED
  BY <1>3, <1>4

\* What a step does to the client's rows, for the rest of the proof.
RowsAdvance ==
  \A r \in Rows : \/ Said(outbox'[r]) = Said(outbox[r])
                  \/ outbox'[r].version > outbox[r].version

\* The companion keeps what it has or takes over a newer request that was sent.
Takes(r) ==
  \E m \in delayed \union sender.batch :
    m.row = r /\ m.version > companion[r].version /\ companion'[r] = Said(m)

LEMMA NewestStays ==
  ASSUME TypesOK, TypesOK', RowIsNewest, RowsAdvance,
         \A r \in Rows : companion'[r] = companion[r] \/ Takes(r),
         \A m \in (delayed \union sender.batch)' :
            \/ m \in delayed \union sender.batch
            \/ m.row \in Rows /\ Said(m) = Said(outbox[m.row]) /\ outbox' = outbox
  PROVE  RowIsNewest'
<1>1. ASSUME NEW r \in Rows PROVE Covers(r, companion[r])'
  <2>1. companion[r] \in State /\ companion[r].version \in Nat
    BY DEF TypesOK, State
  <2>2. CASE companion'[r] = companion[r]
    <3>1. Covers(r, companion[r])
      BY DEF RowIsNewest
    <3> QED
      BY <2>1, <2>2, <3>1, CoversStill DEF RowsAdvance, Covers
  <2>3. CASE Takes(r)
    <3>1. PICK m \in delayed \union sender.batch : m.row = r /\ companion'[r] = Said(m)
      BY <2>3 DEF Takes
    <3>2. m.version \in Nat
      BY <3>1 DEF TypesOK, Message, Pass
    <3>3. Covers(r, m)
      BY <3>1 DEF RowIsNewest
    <3>4. m.version <= outbox'[r].version
          /\ (m.version = outbox'[r].version => Said(m) = Said(outbox'[r]))
      BY <3>2, <3>3, CoversStill DEF RowsAdvance
    <3>5. companion'[r].version = m.version /\ Said(companion'[r]) = Said(m)
      BY <3>1 DEF Said
    <3> QED
      BY <3>4, <3>5 DEF Covers
  <2> QED
    BY <2>2, <2>3
<1>2. ASSUME NEW m \in (delayed \union sender.batch)' PROVE Covers(m.row, m)'
  <2>1. m \in Message /\ m.row \in Rows /\ m.version \in Nat
    BY <1>2 DEF TypesOK, Message, Pass
  <2>2. CASE m \in delayed \union sender.batch
    <3>1. Covers(m.row, m)
      BY <2>2 DEF RowIsNewest
    <3> QED
      BY <2>1, <3>1, CoversStill DEF RowsAdvance, Covers
  <2>3. CASE Said(m) = Said(outbox[m.row]) /\ outbox' = outbox
    <3>1. m.version = outbox[m.row].version
      BY <2>3 DEF Said
    <3>2. outbox[m.row].version \in Nat
      BY <2>1 DEF TypesOK, Row
    <3> QED
      BY <2>3, <3>1, <3>2 DEF Covers
  <2> QED
    BY <1>2, <2>2, <2>3
<1> QED
  BY <1>1, <1>2 DEF RowIsNewest

LEMMA CompanionGrows ==
  ASSUME TypesOK, TypesOK', \A r \in Rows : companion'[r] = companion[r] \/ Takes(r)
  PROVE  /\ \A r \in Rows : outbox[r].acked <= companion[r].version
                              => outbox[r].acked <= companion'[r].version
         /\ \A c \in sender.receipts : c.version <= companion[c.row].version
                                         => c.version <= companion'[c.row].version
<1>1. ASSUME NEW r \in Rows, NEW n \in Nat, n <= companion[r].version
      PROVE  n <= companion'[r].version
  <2>1. companion[r].version \in Nat /\ companion'[r].version \in Nat
    BY DEF TypesOK, State
  <2>2. CASE Takes(r)
    <3>1. PICK m \in delayed \union sender.batch :
            m.version > companion[r].version /\ companion'[r] = Said(m)
      BY <2>2 DEF Takes
    <3>2. companion'[r].version = m.version
      BY <3>1 DEF Said
    <3> QED
      BY <1>1, <2>1, <3>1, <3>2
  <2> QED
    BY <1>1, <2>1, <2>2
<1>2. \A r \in Rows : outbox[r].acked \in Nat
  BY DEF TypesOK, Row
<1>3. \A c \in sender.receipts : c.row \in Rows /\ c.version \in Nat
  BY DEF TypesOK, Pass, Receipt
<1> QED
  BY <1>1, <1>2, <1>3

\* What the rest of a step must not do: take a receipt back, or count more as
\* acknowledged than was received.
LEMMA ReceivedStays ==
  ASSUME TypesOK, TypesOK', ReceiptsAreReceived, AckedIsReceived,
         \A r \in Rows : companion'[r] = companion[r] \/ Takes(r),
         \A r \in Rows : \/ outbox'[r].acked = outbox[r].acked
                         \/ outbox'[r].acked <= companion[r].version,
         \/ sender'.receipts = {}
         \/ sender'.receipts = sender.receipts /\ sender'.batch = sender.batch
  PROVE  ReceiptsAreReceived' /\ AckedIsReceived'
<1>1. ASSUME NEW r \in Rows
      PROVE  /\ companion[r].version \in Nat /\ companion'[r].version \in Nat
             /\ companion[r].version <= companion'[r].version
             /\ outbox[r].acked \in Nat /\ outbox'[r].acked \in Nat
  <2>1. companion[r] \in State /\ companion'[r] \in State
        /\ outbox[r] \in Row /\ outbox'[r] \in Row
    BY DEF TypesOK
  <2>2. companion[r].version \in Nat /\ companion'[r].version \in Nat
        /\ outbox[r].acked \in Nat /\ outbox'[r].acked \in Nat
    BY <2>1 DEF State, Row
  <2>3. CASE Takes(r)
    <3>1. PICK m \in delayed \union sender.batch :
            m.version > companion[r].version /\ companion'[r] = Said(m)
      BY <2>3 DEF Takes
    <3>2. companion'[r].version = m.version
      BY <3>1 DEF Said
    <3> QED
      BY <2>2, <3>1, <3>2
  <2> QED
    BY <2>2, <2>3
<1>2. AckedIsReceived'
  <2>1. ASSUME NEW r \in Rows PROVE outbox'[r].acked <= companion'[r].version
    <3>1. outbox[r].acked <= companion[r].version
      BY DEF AckedIsReceived
    <3> QED
      BY <1>1, <3>1
  <2> QED
    BY <2>1 DEF AckedIsReceived
<1>3. ReceiptsAreReceived'
  <2>1. CASE sender'.receipts = {}
    BY <2>1 DEF ReceiptsAreReceived
  <2>2. CASE sender'.receipts = sender.receipts /\ sender'.batch = sender.batch
    <3>1. ASSUME NEW c \in sender.receipts PROVE c.version <= companion'[c.row].version
      <4>1. c.row \in Rows /\ c.version \in Nat
        BY DEF TypesOK, Pass, Receipt
      <4>2. c.version <= companion[c.row].version
        BY DEF ReceiptsAreReceived
      <4> QED
        BY <1>1, <4>1, <4>2
    <3> QED
      BY <2>2, <3>1 DEF ReceiptsAreReceived
  <2> QED
    BY <2>1, <2>2
<1> QED
  BY <1>2, <1>3

-----------------------------------------------------------------------------
(* One lemma per action.                                                     *)

LEMMA RequeuedRow ==
  ASSUME TypesOK, NEW r \in Rows, NEW active \in BOOLEAN, NEW time \in Nat,
         outbox' = [outbox EXCEPT ![r] = Requeued(outbox[r], active, time)]
  PROVE  /\ outbox' \in [Rows -> Row] /\ RowsAdvance
         /\ \A q \in Rows : outbox'[q].acked = outbox[q].acked
<1>1. outbox[r] \in Row
  BY DEF TypesOK
<1>2. outbox[r].version \in Nat /\ outbox[r].version + 1 \in Nat /\ outbox[r].acked \in Nat
  BY <1>1 DEF Row
<1>3. Requeued(outbox[r], active, time) \in Row
  BY <1>2, Zenon DEF Requeued, Row
<1>4. outbox' \in [Rows -> Row]
  BY <1>3 DEF TypesOK
<1>5. ASSUME NEW q \in Rows
      PROVE  /\ q # r => outbox'[q] = outbox[q]
             /\ q = r => outbox'[q] = Requeued(outbox[r], active, time)
  BY DEF TypesOK
<1>6. /\ Requeued(outbox[r], active, time).version = outbox[r].version + 1
      /\ Requeued(outbox[r], active, time).acked = outbox[r].acked
  BY Zenon DEF Requeued
<1>7. Requeued(outbox[r], active, time).version > outbox[r].version
  BY <1>2, <1>6
<1> QED
  BY <1>4, <1>5, <1>6, <1>7 DEF RowsAdvance

LEMMA RequeueKeeps ==
  ASSUME QueueOK, NEW r \in Rows, NEW active \in BOOLEAN, NEW time \in Nat, Requeue(r, active, time)
  PROVE  QueueKept
<1>1. /\ outbox' = [outbox EXCEPT ![r] = Requeued(outbox[r], active, time)]
      /\ companion' = companion /\ delayed' = delayed /\ sender' = sender /\ changes' = changes + 1
  BY DEF Requeue, controllerVars
<1>2. /\ outbox' \in [Rows -> Row] /\ RowsAdvance
      /\ \A q \in Rows : outbox'[q].acked = outbox[q].acked
  BY <1>1, RequeuedRow DEF QueueOK
<1>3. TypesOK'
  BY <1>1, <1>2 DEF QueueOK, TypesOK
<1>4. RowIsNewest => RowIsNewest'
  BY <1>1, <1>2, <1>3, NewestStays DEF QueueOK
<1>5. ReceiptsAreReceived' /\ AckedIsReceived'
  BY <1>1, <1>2, <1>3, ReceivedStays DEF QueueOK
<1>6. OneMessageEach'
  BY <1>1 DEF QueueOK, OneMessageEach
<1> QED
  BY <1>3, <1>4, <1>5, <1>6 DEF QueueOK, QueueKept

\* A step that gives up the pass and leaves the companion alone.
LEMMA RestKeeps ==
  ASSUME QueueOK, companion' = companion, changes' \in Nat, outbox' \in [Rows -> Row], RowsAdvance,
         \A r \in Rows : outbox'[r].acked = outbox[r].acked,
         sender' \in Pass, sender'.batch = {}, sender'.receipts = {},
         \E lost \in SUBSET sender.batch : delayed' = delayed \union lost
  PROVE  QueueKept
<1>1. TypesOK'
  BY DEF QueueOK, TypesOK, Pass
<1>2. RowIsNewest => RowIsNewest'
  BY <1>1, NewestStays DEF QueueOK
<1>3. ReceiptsAreReceived' /\ AckedIsReceived'
  BY <1>1, ReceivedStays DEF QueueOK
<1>4. OneMessageEach'
  BY DEF OneMessageEach
<1> QED
  BY <1>1, <1>2, <1>3, <1>4 DEF QueueOK, QueueKept

LEMMA RestingPass == Resting \in Pass /\ Resting.batch = {} /\ Resting.receipts = {}
  BY Zenon DEF Resting, Pass

LEMMA SameRows ==
  ASSUME TypesOK, outbox' = outbox
  PROVE  /\ outbox' \in [Rows -> Row] /\ RowsAdvance
         /\ \A r \in Rows : outbox'[r].acked = outbox[r].acked
  BY DEF TypesOK, RowsAdvance

LEMMA UserKeeps ==
  ASSUME QueueOK, NEW r \in Rows, Say(r) \/ Undo(r) \/ Redo(r)
  PROVE  QueueKept
<1>1. outbox[r].time \in Nat /\ Now \in Nat
  BY DEF QueueOK, TypesOK, Row, Now
<1>2. CASE Say(r)
  BY <1>1, <1>2, RequeueKeeps DEF Say
<1>3. CASE Undo(r)
  BY <1>1, <1>3, RequeueKeeps DEF Undo
<1>4. CASE Redo(r)
  BY <1>1, <1>4, RequeueKeeps DEF Redo
<1> QED
  BY <1>2, <1>3, <1>4

LEMMA DownloadKeeps ==
  ASSUME QueueOK, NEW r \in Rows, Download(r)
  PROVE  QueueKept
<1>1. outbox[r].time \in Nat /\ changes' \in Nat /\ companion' = companion
  BY DEF QueueOK, TypesOK, Row, Download
<1>2. /\ outbox' \in [Rows -> Row] /\ RowsAdvance
      /\ \A q \in Rows : outbox'[q].acked = outbox[q].acked
  BY <1>1, RequeuedRow DEF QueueOK, Download
<1>3. sender' = Resting /\ \E lost \in SUBSET sender.batch : delayed' = delayed \union lost
  BY DEF Download, NewController, Unsent
<1> QED
  BY <1>1, <1>2, <1>3, RestKeeps, RestingPass

LEMMA ReopenKeeps ==
  ASSUME QueueOK, Reopen
  PROVE  QueueKept
<1>1. sender' = Resting /\ \E lost \in SUBSET sender.batch : delayed' = delayed \union lost
  BY DEF Reopen, NewController, Unsent
<1> QED
  BY <1>1, RestKeeps, RestingPass, SameRows DEF Reopen, QueueOK, TypesOK

LEMMA FailKeeps ==
  ASSUME QueueOK, Fail
  PROVE  QueueKept
<1>1. \E lost \in SUBSET sender.batch : delayed' = delayed \union lost
  <2>1. CASE delayed' = delayed
    <3>1. {} \in SUBSET sender.batch /\ delayed' = delayed \union {}
      BY <2>1
    <3> QED
      BY <3>1
  <2>2. ASSUME NEW m \in Unsent, delayed' = delayed \union {m}
        PROVE  \E lost \in SUBSET sender.batch : delayed' = delayed \union lost
    <3>1. {m} \in SUBSET sender.batch
      BY DEF Unsent
    <3> QED
      BY <2>2, <3>1
  <2> QED
    BY <2>1, <2>2 DEF Fail
<1> QED
  BY <1>1, RestKeeps, RestingPass, SameRows DEF Fail, FailPass, QueueOK, TypesOK, clientVars

LEMMA StartKeeps ==
  ASSUME QueueOK, NEW force \in BOOLEAN, StartPass(force),
         UNCHANGED <<clientVars, companion, delayed, changes, losses>>
  PROVE  QueueKept
<1>1. sender' = [pc |-> "preparing", replay |-> FALSE, batch |-> {}, receipts |-> {}]
  BY DEF StartPass, Resting
<1>2. sender' \in Pass /\ sender'.batch = {} /\ sender'.receipts = {}
  BY <1>1, Zenon DEF Pass
<1>3. delayed' = delayed \union {}
  BY DEF clientVars
<1> QED
  BY <1>2, <1>3, RestKeeps, SameRows DEF QueueOK, TypesOK, clientVars

\* A step that touches none of the variables the invariant speaks of.
LEMMA SameKeeps ==
  ASSUME QueueOK, UNCHANGED <<outbox, companion, delayed, sender, changes>>
  PROVE  QueueKept
  BY DEF QueueOK, QueueKept, TypesOK, RowIsNewest, ReceiptsAreReceived, AckedIsReceived,
         OneMessageEach, Covers

LEMMA CheckKeeps ==
  ASSUME QueueOK, (\E force \in BOOLEAN : Check(force)) \/ CheckBusy \/ CheckAgain
  PROVE  QueueKept
<1>1. CASE \E force \in BOOLEAN : Check(force)
  BY <1>1, StartKeeps DEF Check
<1>2. CASE CheckBusy
  BY <1>2, SameKeeps DEF CheckBusy, clientVars
<1>3. CASE CheckAgain
  BY <1>3, StartKeeps, SameKeeps DEF CheckAgain, clientVars
<1> QED
  BY <1>1, <1>2, <1>3

LEMMA PrepareKeeps ==
  ASSUME QueueOK, Prepare
  PROVE  QueueKept
<1>1. UNCHANGED <<outbox, companion, delayed, changes>>
  BY DEF Prepare, clientVars
<1>2. CASE sender' = Resting
  <2>1. delayed' = delayed \union {}
    BY <1>1
  <2> QED
    BY <1>1, <1>2, <2>1, RestKeeps, RestingPass, SameRows DEF QueueOK, TypesOK
<1>3. ASSUME NEW replay \in BOOLEAN, NEW rows \in SUBSET Rows,
             sender' = [pc |-> "sending", replay |-> replay, receipts |-> {},
                        batch |-> {MessageOf(r) : r \in rows}]
      PROVE  QueueKept
  <2>1. ASSUME NEW r \in Rows
        PROVE  MessageOf(r) \in Message /\ MessageOf(r).row = r /\ Said(MessageOf(r)) = Said(outbox[r])
    <3>1. outbox[r].version \in Nat /\ outbox[r].active \in BOOLEAN /\ outbox[r].time \in Nat
      BY Zenon DEF QueueOK, TypesOK, Row
    <3> QED
      BY <3>1, Zenon DEF MessageOf, Message, Said
  <2>2. /\ sender'.batch = {MessageOf(r) : r \in rows} /\ sender'.receipts = {}
        /\ sender'.pc = "sending" /\ sender'.replay = replay
    BY <1>3
  <2>3. sender'.batch \in SUBSET Message
    BY <2>1, <2>2
  <2>4. sender' \in Pass
    BY <1>3, <2>2, <2>3, Zenon DEF Pass
  <2>5. TypesOK' /\ RowsAdvance
    BY <1>1, <2>4, SameRows DEF QueueOK, TypesOK
  <2>6. \A m \in sender'.batch : m.row \in Rows /\ Said(m) = Said(outbox[m.row])
    BY <2>1, <2>2
  <2>7. RowIsNewest => RowIsNewest'
    BY <1>1, <2>5, <2>6, NewestStays DEF QueueOK
  <2>8. ReceiptsAreReceived' /\ AckedIsReceived'
    BY <1>1, <2>2, <2>5, ReceivedStays DEF QueueOK
  <2>9. OneMessageEach'
    BY <2>1, <2>2 DEF OneMessageEach
  <2> QED
    BY <2>5, <2>7, <2>8, <2>9 DEF QueueOK, QueueKept
<1>4. FirstRows(Pending) \in SUBSET Rows
      /\ FirstRows({r \in Rows : Queued(r) /\ r > after}) \in SUBSET Rows
  BY DEF FirstRows, Pending
<1> QED
  BY <1>2, <1>3, <1>4 DEF Prepare

\* What receive does to the companion: nothing, or it takes a newer request.
LEMMA ReceivedTakes ==
  ASSUME TypesOK, NEW m \in delayed \union sender.batch, companion' = Received(m)
  PROVE  /\ companion' \in [Rows -> State]
         /\ \A r \in Rows : companion'[r] = companion[r] \/ Takes(r)
         /\ m.version <= companion'[m.row].version
<1>1. m \in Message /\ m.row \in Rows /\ m.version \in Nat
  BY DEF TypesOK, Pass, Message
<1>2. Said(m) \in State /\ Said(m).version = m.version
  BY <1>1, Zenon DEF Said, State, Message
<1>3. companion[m.row].version \in Nat
  BY <1>1 DEF TypesOK, State
<1>4. CASE m.version > companion[m.row].version
  <2>1. companion' = [companion EXCEPT ![m.row] = Said(m)]
    BY <1>4 DEF Received
  <2> QED
    BY <1>1, <1>2, <1>4, <2>1 DEF TypesOK, Takes
<1>5. CASE ~(m.version > companion[m.row].version)
  BY <1>1, <1>3, <1>5 DEF TypesOK, Received
<1> QED
  BY <1>4, <1>5

LEMMA ArriveKeeps ==
  ASSUME QueueOK, NEW m \in delayed, Arrive(m)
  PROVE  QueueKept
<1>1. /\ companion' \in [Rows -> State] /\ delayed' \subseteq delayed
      /\ \A r \in Rows : companion'[r] = companion[r] \/ Takes(r)
      /\ UNCHANGED <<outbox, sender, changes>>
  BY ReceivedTakes DEF QueueOK, Arrive, clientVars, controllerVars
<1>2. TypesOK' /\ RowsAdvance
  BY <1>1, SameRows DEF QueueOK, TypesOK
<1>3. RowIsNewest => RowIsNewest'
  BY <1>1, <1>2, NewestStays DEF QueueOK
<1>4. ReceiptsAreReceived' /\ AckedIsReceived'
  BY <1>1, <1>2, ReceivedStays DEF QueueOK
<1>5. OneMessageEach'
  BY <1>1 DEF QueueOK, OneMessageEach
<1> QED
  BY <1>2, <1>3, <1>4, <1>5 DEF QueueOK, QueueKept

LEMMA SendKeeps ==
  ASSUME QueueOK, NEW m \in sender.batch, Send(m)
  PROVE  QueueKept
<1>1. /\ companion' = Received(m) /\ UNCHANGED <<outbox, delayed, changes>>
      /\ m \in Message /\ m.row \in Rows /\ m.version \in Nat
  BY DEF Send, clientVars, QueueOK, TypesOK, Pass, Message
<1>2. /\ companion' \in [Rows -> State] /\ m.version <= companion'[m.row].version
      /\ \A r \in Rows : companion'[r] = companion[r] \/ Takes(r)
  BY <1>1, ReceivedTakes DEF QueueOK
<1>3. CASE sender' = Resting
  <2>1. TypesOK' /\ RowsAdvance
    BY <1>1, <1>2, <1>3, RestingPass, SameRows DEF QueueOK, TypesOK
  <2>2. RowIsNewest => RowIsNewest'
    BY <1>1, <1>2, <1>3, <2>1, RestingPass, NewestStays DEF QueueOK
  <2>3. ReceiptsAreReceived' /\ AckedIsReceived'
    BY <1>1, <1>2, <1>3, <2>1, RestingPass, ReceivedStays DEF QueueOK
  <2>4. OneMessageEach'
    BY <1>3, RestingPass DEF OneMessageEach
  <2> QED
    BY <2>1, <2>2, <2>3, <2>4 DEF QueueOK, QueueKept
<1>4. ASSUME NEW reply, reply = IF Conflicts(m) THEN m ELSE companion'[m.row],
             sender' = [sender EXCEPT !.receipts = @ \union {ReceiptOf(m, reply)}]
      PROVE  QueueKept
  <2>1. reply.version \in Nat /\ reply.active \in BOOLEAN /\ reply.version = companion'[m.row].version
    <3>1. companion'[m.row] \in State /\ companion[m.row] \in State
      BY <1>1, <1>2 DEF QueueOK, TypesOK
    <3>2. CASE Conflicts(m)
      <4>1. m.version = companion[m.row].version
        BY <3>2, Zenon DEF Conflicts
      <4>2. companion' = companion
        BY <1>1, <4>1 DEF Received
      <4> QED
        BY <1>1, <1>4, <3>2, <4>1, <4>2 DEF Message
    <3>3. CASE ~Conflicts(m)
      BY <1>4, <3>1, <3>3 DEF State
    <3> QED
      BY <3>2, <3>3
  <2> DEFINE c == ReceiptOf(m, reply)
  <2>2. c \in Receipt /\ c.row = m.row /\ c.version = companion'[m.row].version
    BY <1>1, <2>1, Zenon DEF ReceiptOf, Receipt
  <2> HIDE DEF c
  <2>3. sender \in Pass
    BY DEF QueueOK, TypesOK
  <2>4. sender'.receipts = sender.receipts \union {c} /\ sender'.batch = sender.batch
    BY <1>4, <2>3 DEF c, Pass
  <2>5. sender' \in Pass
    BY <1>4, <2>2, <2>3 DEF c, Pass
  <2>6. TypesOK' /\ RowsAdvance
    BY <1>1, <1>2, <2>5, SameRows DEF QueueOK, TypesOK
  <2>7. RowIsNewest => RowIsNewest'
    BY <1>1, <1>2, <2>4, <2>6, NewestStays DEF QueueOK
  <2>8. AckedIsReceived' /\ \A d \in sender.receipts : d.version <= companion'[d.row].version
    BY <1>1, <1>2, <2>6, CompanionGrows DEF QueueOK, AckedIsReceived, ReceiptsAreReceived
  <2>9. ReceiptsAreReceived'
    <3>1. \A n \in sender.batch : n.row = c.row => n.version <= c.version
      BY <1>2, <2>2 DEF QueueOK, OneMessageEach
    <3>2. ASSUME NEW d \in sender.receipts \union {c}
          PROVE  /\ d.version <= companion'[d.row].version
                 /\ \A n \in sender.batch : n.row = d.row => n.version <= d.version
      <4>1. CASE d = c
        <5>1. companion'[m.row].version \in Nat
          BY <1>1, <1>2 DEF State
        <5> QED
          BY <2>2, <3>1, <4>1, <5>1
      <4>2. CASE d \in sender.receipts
        BY <2>8, <4>2 DEF QueueOK, ReceiptsAreReceived
      <4> QED
        BY <4>1, <4>2
    <3> QED
      BY <2>4, <3>2 DEF ReceiptsAreReceived
  <2>10. OneMessageEach'
    BY <2>4 DEF QueueOK, OneMessageEach
  <2> QED
    BY <2>6, <2>7, <2>8, <2>9, <2>10 DEF QueueOK, QueueKept
<1> QED
  BY <1>3, <1>4 DEF Send, FailPass

LEMMA RowOf ==
  ASSUME NEW v \in Nat, NEW a \in BOOLEAN, NEW t \in Nat, NEW k \in Nat
  PROVE  [version |-> v, active |-> a, time |-> t, acked |-> k] \in Row
  BY Zenon DEF Row

\* What acknowledging a row does to it.
LEMMA AcknowledgedRow ==
  ASSUME NEW row \in Row, NEW m \in Message, NEW c \in Receipt, m.version <= c.version
  PROVE  /\ Acknowledged(row, m, c) \in Row
         /\ \/ Said(Acknowledged(row, m, c)) = Said(row)
            \/ Acknowledged(row, m, c).version > row.version
         /\ \/ Acknowledged(row, m, c).acked = row.acked
            \/ Acknowledged(row, m, c).acked <= c.version
<1>1. /\ row.version \in Nat /\ row.active \in BOOLEAN /\ row.time \in Nat /\ row.acked \in Nat
      /\ m.version \in Nat /\ c.version \in Nat
  BY Zenon DEF Row, Message, Receipt
<1>2. CASE row.version # m.version
  BY <1>2 DEF Acknowledged
<1>3. CASE row.version = m.version /\ c.version = row.version /\ c.active = row.active
  <2>1. Acknowledged(row, m, c) = [row EXCEPT !.acked = row.version]
    BY <1>3 DEF Acknowledged
  <2> QED
    BY <1>1, <1>3, <2>1 DEF Row, Said
<1>4. CASE row.version = m.version /\ ~(c.version = row.version /\ c.active = row.active)
  <2>1. Acknowledged(row, m, c) = [row EXCEPT !.version = c.version + 1, !.acked = 0]
    BY <1>4 DEF Acknowledged
  <2>2. c.version + 1 \in Nat /\ 0 \in Nat /\ 0 <= c.version /\ c.version + 1 > row.version
    BY <1>1, <1>4
  <2>3. row = [version |-> row.version, active |-> row.active, time |-> row.time, acked |-> row.acked]
    BY Zenon DEF Row
  <2>4. Acknowledged(row, m, c)
          = [version |-> c.version + 1, active |-> row.active, time |-> row.time, acked |-> 0]
    BY <2>1, <2>3
  <2>5. Acknowledged(row, m, c) \in Row
    BY <1>1, <2>2, <2>4, RowOf
  <2> QED
    BY <2>2, <2>4, <2>5
<1> QED
  BY <1>2, <1>3, <1>4

LEMMA AcknowledgeKeeps ==
  ASSUME QueueOK, Acknowledge
  PROVE  QueueKept
<1>1. sender' = Resting /\ UNCHANGED <<companion, delayed, changes>>
  BY DEF Acknowledge
<1>2. ASSUME NEW r \in Rows
      PROVE  /\ outbox'[r] \in Row
             /\ \/ Said(outbox'[r]) = Said(outbox[r])
                \/ outbox'[r].version > outbox[r].version
             /\ \/ outbox'[r].acked = outbox[r].acked
                \/ outbox'[r].acked <= companion[r].version
  <2>1. outbox[r] \in Row /\ companion[r].version \in Nat
    BY DEF QueueOK, TypesOK, State
  <2>2. CASE ~\E m \in sender.batch : m.row = r
    BY <2>1, <2>2 DEF Acknowledge
  <2>3. CASE \E m \in sender.batch : m.row = r
    <3> DEFINE m == CHOOSE n \in sender.batch : n.row = r
               c == CHOOSE d \in sender.receipts : d.row = r
    <3>1. m \in sender.batch /\ m.row = r
      BY <2>3
    <3>2. \E d \in sender.receipts : d.row = r
      BY <3>1 DEF Acknowledge, Unsent
    <3>3. c \in sender.receipts /\ c.row = r
      BY <3>2
    <3>4. outbox'[r] = Acknowledged(outbox[r], m, c)
      BY <2>3 DEF Acknowledge
    <3> HIDE DEF m, c
    <3>5. m \in Message /\ c \in Receipt /\ c.version \in Nat
      BY <3>1, <3>3 DEF QueueOK, TypesOK, Pass, Receipt
    <3>6. m.version <= c.version /\ c.version <= companion[r].version
      BY <3>1, <3>3 DEF QueueOK, ReceiptsAreReceived
    <3>7. /\ outbox'[r] \in Row
          /\ \/ Said(outbox'[r]) = Said(outbox[r])
             \/ outbox'[r].version > outbox[r].version
          /\ \/ outbox'[r].acked = outbox[r].acked
             \/ outbox'[r].acked <= c.version
      BY <2>1, <3>4, <3>5, <3>6, AcknowledgedRow
    <3>8. outbox'[r].acked \in Nat
      BY <3>7 DEF Row
    <3> QED
      BY <2>1, <3>5, <3>6, <3>7, <3>8
  <2> QED
    BY <2>2, <2>3
<1>3. outbox' \in [Rows -> Row]
  BY <1>2 DEF Acknowledge
<1>4. TypesOK' /\ RowsAdvance
  BY <1>1, <1>2, <1>3, RestingPass DEF QueueOK, TypesOK, RowsAdvance
<1>5. RowIsNewest => RowIsNewest'
  BY <1>1, <1>4, RestingPass, NewestStays DEF QueueOK
<1>6. ReceiptsAreReceived' /\ AckedIsReceived'
  BY <1>1, <1>2, <1>4, RestingPass, ReceivedStays DEF QueueOK
<1>7. OneMessageEach'
  BY <1>1, RestingPass DEF OneMessageEach
<1> QED
  BY <1>4, <1>5, <1>6, <1>7 DEF QueueOK, QueueKept

-----------------------------------------------------------------------------
(* The theorems.                                                             *)

LEMMA InitEstablishes == Init => IInv
<1> SUFFICES ASSUME Init PROVE IInv
  OBVIOUS
<1>1. NoRow \in Row /\ NoState \in State /\ Said(NoState) = Said(NoRow)
      /\ NoRow.version = 0 /\ NoState.version = 0 /\ NoRow.acked = 0
  BY DEF NoRow, NoState, Row, State, Said
<1>2. TypesOK
  BY <1>1, RestingPass DEF Init, TypesOK
<1>3. RowIsNewest
  BY <1>1, RestingPass DEF Init, RowIsNewest, Covers
<1>4. ReceiptsAreReceived /\ OneMessageEach
  BY RestingPass DEF Init, ReceiptsAreReceived, OneMessageEach
<1>5. AckedIsReceived
  BY <1>1 DEF Init, AckedIsReceived
<1> QED
  BY <1>2, <1>3, <1>4, <1>5 DEF IInv, QueueOK

LEMMA QueueStep ==
  ASSUME QueueOK, [Next]_vars
  PROVE  QueueKept
<1>1. CASE UNCHANGED vars
  BY <1>1, SameKeeps DEF vars
<1>2. CASE UserStep
  BY <1>2, UserKeeps, DownloadKeeps DEF UserStep
<1>3. CASE (\E force \in BOOLEAN : Check(force)) \/ CheckBusy \/ CheckAgain
  BY <1>3, CheckKeeps
<1>4. CASE Prepare
  BY <1>4, PrepareKeeps
<1>5. CASE \E m \in sender.batch : Send(m)
  BY <1>5, SendKeeps
<1>6. CASE Acknowledge
  BY <1>6, AcknowledgeKeeps
<1>7. CASE Fail
  BY <1>7, FailKeeps
<1>8. CASE Reopen
  BY <1>8, ReopenKeeps
<1>9. CASE \E m \in delayed : Arrive(m)
  BY <1>9, ArriveKeeps
<1> QED
  BY <1>1, <1>2, <1>3, <1>4, <1>5, <1>6, <1>7, <1>8, <1>9 DEF Next

LEMMA StepKeeps == IInv /\ [Next]_vars => IInv'
  BY QueueStep DEF IInv, QueueKept

\* The inductive invariant holds in every reachable state: no message, received
\* or still under way, is newer than the row it was made from (queue_skill_report,
\* receive, acknowledge_skill_report).
THEOREM OutboxInductive == Spec => []IInv
  BY InitEstablishes, StepKeeps, PTL DEF Spec

\* A row the client counts as acknowledged is what the companion holds.
LEMMA HeldByInvariant == IInv => AckedIsHeld
<1> SUFFICES ASSUME IInv, NEW r \in Rows, Queued(r), outbox[r].acked = outbox[r].version
             PROVE  companion[r] = Said(outbox[r])
  BY DEF AckedIsHeld
<1>1. companion[r] \in State /\ outbox[r].version \in Nat
  BY DEF IInv, QueueOK, TypesOK, Row
<1>2. companion[r].version = outbox[r].version
  <2>1. companion[r].version <= outbox[r].version
    BY DEF IInv, RowIsNewest, Covers
  <2>2. outbox[r].acked <= companion[r].version
    BY DEF IInv, QueueOK, AckedIsReceived
  <2>3. companion[r].version \in Nat
    BY <1>1 DEF State
  <2> QED
    BY <1>1, <2>1, <2>2, <2>3
<1>3. Said(companion[r]) = Said(outbox[r])
  BY <1>2 DEF IInv, RowIsNewest, Covers
<1>4. Said(companion[r]) = companion[r]
  BY <1>1, Zenon DEF Said, State
<1> QED
  BY <1>3, <1>4

-----------------------------------------------------------------------------
(* With backups.                                                             *)

Counted == clientRestores \in Nat /\ serverRestores \in Nat

BeforeRestores == clientRestores + serverRestores = 0 => IInv

\* A step of OutboxRecovery that restores nothing is a step of ClientOutbox.
LEMMA StepOrRestore ==
  ASSUME [RecoveryNext]_recoveryVars
  PROVE  \/ [Next]_vars /\ UNCHANGED <<clientRestores, serverRestores>>
         \/ RestoreClient \/ RestoreServer
<1>1. CASE UNCHANGED recoveryVars
  BY <1>1 DEF recoveryVars
<1>2. CASE Next /\ UNCHANGED <<backups, clientRestores, serverRestores>>
  BY <1>2
<1>3. CASE BackUpClient \/ BackUpServer
  BY <1>3 DEF BackUpClient, BackUpServer
<1> QED
  BY <1>1, <1>2, <1>3 DEF RecoveryNext

LEMMA RestoreCounts ==
  ASSUME Counted, RestoreClient \/ RestoreServer
  PROVE  Counted' /\ clientRestores' + serverRestores' # 0
  BY DEF Counted, RestoreClient, RestoreServer

LEMMA RecoveryKeeps ==
  ASSUME Counted, BeforeRestores, [RecoveryNext]_recoveryVars
  PROVE  Counted' /\ BeforeRestores'
<1>1. CASE [Next]_vars /\ UNCHANGED <<clientRestores, serverRestores>>
  BY <1>1, StepKeeps DEF Counted, BeforeRestores
<1>2. CASE RestoreClient \/ RestoreServer
  BY <1>2, RestoreCounts DEF BeforeRestores
<1> QED
  BY <1>1, <1>2, StepOrRestore

\* The invariant of the queue alone holds until a backup of either side is restored.
THEOREM RecoveryInductive == RecoverySpec => [](Counted /\ BeforeRestores)
<1>1. RecoveryInit => Counted /\ BeforeRestores
  BY InitEstablishes DEF RecoveryInit, Counted, BeforeRestores
<1>2. Counted /\ BeforeRestores /\ [RecoveryNext]_recoveryVars => (Counted /\ BeforeRestores)'
  BY RecoveryKeeps
<1> QED
  BY <1>1, <1>2, PTL DEF RecoverySpec

\* What the client counts as acknowledged is held, for every number of rows, batch
\* size, loss and change while sending, as long as no backup was restored
\* (acknowledge_skill_report, Reports.receive).
THEOREM AcknowledgedHeld == RecoverySpec => []HeldUntilRestored
<1>1. BeforeRestores => HeldUntilRestored
  BY HeldByInvariant DEF BeforeRestores, HeldUntilRestored
<1> QED
  BY <1>1, RecoveryInductive, PTL

\* The companion and its backup have a state for every row.
RowsHeld ==
  /\ companion = [r \in Rows |-> companion[r]]
  /\ serverBackup = [r \in Rows |-> serverBackup[r]]

LEMMA CompanionSteps ==
  ASSUME [RecoveryNext]_recoveryVars
  PROVE  \/ companion' = companion
         \/ serverRestores' = serverRestores
            /\ \E m \in delayed \union sender.batch : companion' = Received(m)
         \/ RestoreServer
  BY DEF RecoveryNext, recoveryVars, vars, Next, UserStep, Say, Undo, Redo, Requeue, Download, Check,
         CheckBusy, CheckAgain, Prepare, Acknowledge, Fail, Reopen, Send, Arrive, BackUpClient,
         BackUpServer, RestoreClient

LEMMA ReceivedRow ==
  ASSUME RowsHeld, NEW m, companion' = Received(m), NEW r \in Rows
  PROVE  \/ companion'[r] = companion[r]
         \/ companion'[r].version > companion[r].version
<1>1. CASE m.version > companion[m.row].version
  <2>1. companion' = [companion EXCEPT ![m.row] = Said(m)]
    BY <1>1 DEF Received
  <2>2. CASE r = m.row
    <3>1. companion'[r] = Said(m)
      BY <2>1, <2>2 DEF RowsHeld
    <3> QED
      BY <1>1, <2>2, <3>1 DEF Said
  <2>3. CASE r # m.row
    BY <2>1, <2>3 DEF RowsHeld
  <2> QED
    BY <2>2, <2>3
<1>2. CASE ~(m.version > companion[m.row].version)
  BY <1>2 DEF Received
<1> QED
  BY <1>1, <1>2

LEMMA RowsHeldKept ==
  ASSUME RowsHeld, [RecoveryNext]_recoveryVars
  PROVE  RowsHeld'
<1>1. serverBackup' \in {serverBackup, companion}
  BY DEF RecoveryNext, recoveryVars, backups, BackUpClient, BackUpServer, RestoreClient, RestoreServer
<1>2. companion' = [r \in Rows |-> companion'[r]]
  <2>1. CASE companion' = companion
    BY <2>1 DEF RowsHeld
  <2>2. ASSUME NEW m, companion' = Received(m) PROVE companion' = [r \in Rows |-> companion'[r]]
    BY <2>2 DEF RowsHeld, Received
  <2>3. CASE RestoreServer
    BY <2>3 DEF RestoreServer, RowsHeld
  <2> QED
    BY <2>1, <2>2, <2>3, CompanionSteps
<1> QED
  BY <1>1, <1>2 DEF RowsHeld

\* What the companion holds about a row is only ever replaced by a newer version,
\* but for a restore of the companion itself (Reports.receive, Retirements.receive).
THEOREM CompanionForward == RecoverySpec => OnlyRestoresGoBack
<1>1. RecoveryInit => RowsHeld
  BY DEF RecoveryInit, Init, RowsHeld
<1>2. RowsHeld /\ [RecoveryNext]_recoveryVars => RowsHeld'
  BY RowsHeldKept
<1>3. Counted /\ RowsHeld /\ [RecoveryNext]_recoveryVars
        => [serverRestores' = serverRestores =>
              \A r \in Rows : companion'[r] # companion[r] =>
                                companion'[r].version > companion[r].version]_recoveryVars
  <2> SUFFICES ASSUME Counted, RowsHeld, RecoveryNext, serverRestores' = serverRestores,
                      NEW r \in Rows, companion'[r] # companion[r]
               PROVE  companion'[r].version > companion[r].version
    OBVIOUS
  <2>1. ~RestoreServer
    BY DEF Counted, RestoreServer
  <2>2. PICK m \in delayed \union sender.batch : companion' = Received(m)
    BY <2>1, CompanionSteps
  <2> QED
    BY <2>2, ReceivedRow
<1> QED
  BY <1>1, <1>2, <1>3, RecoveryInductive, PTL DEF RecoverySpec, OnlyRestoresGoBack

\* What a client's backup counts as acknowledged was received before it was taken.
BackupAcked ==
  /\ clientBackup \in [Rows -> Row]
  /\ \A r \in Rows : clientBackup[r].acked <= companion[r].version

ServerKept == serverRestores = 0 => QueueOK /\ BackupAcked

LEMMA BackupStillAcked ==
  ASSUME QueueOK, QueueOK', BackupAcked, clientBackup' = clientBackup,
         \A r \in Rows : \/ companion'[r] = companion[r]
                        \/ companion'[r].version > companion[r].version
  PROVE  BackupAcked'
<1>1. ASSUME NEW r \in Rows PROVE clientBackup[r].acked <= companion'[r].version
  <2>1. companion[r] \in State /\ companion'[r] \in State /\ clientBackup[r] \in Row
    BY DEF QueueOK, TypesOK, BackupAcked
  <2>2. /\ companion[r].version \in Nat /\ companion'[r].version \in Nat
        /\ clientBackup[r].acked \in Nat
    BY <2>1 DEF State, Row
  <2>3. clientBackup[r].acked <= companion[r].version
    BY DEF BackupAcked
  <2> QED
    BY <2>2, <2>3
<1> QED
  BY <1>1 DEF BackupAcked

\* A client goes back to a queue that counts nothing the companion has not received.
LEMMA ClientRestored ==
  ASSUME QueueOK, BackupAcked, RestoreClient
  PROVE  QueueOK' /\ BackupAcked'
<1>1. /\ outbox' = clientBackup /\ sender' = Resting
      /\ UNCHANGED <<companion, changes, clientBackup>>
      /\ \E lost \in SUBSET sender.batch : delayed' = delayed \union lost
  BY DEF RestoreClient, NewController, Unsent, backups
<1>2. TypesOK'
  BY <1>1, RestingPass DEF QueueOK, TypesOK, BackupAcked, Pass
<1>3. ReceiptsAreReceived' /\ AckedIsReceived' /\ OneMessageEach'
  BY <1>1, RestingPass DEF ReceiptsAreReceived, AckedIsReceived, OneMessageEach, BackupAcked
<1> QED
  BY <1>1, <1>2, <1>3 DEF QueueOK, BackupAcked

LEMMA ServerKeptKept ==
  ASSUME Counted, RowsHeld, ServerKept, [RecoveryNext]_recoveryVars
  PROVE  ServerKept'
<1>1. CASE serverRestores' # 0
  BY <1>1 DEF ServerKept
<1>2. CASE serverRestores' = 0
  <2>1. serverRestores = 0 /\ ~RestoreServer /\ QueueOK /\ BackupAcked
    BY <1>2, StepOrRestore DEF Counted, RestoreServer, RestoreClient, ServerKept
  <2>2. CASE RestoreClient
    BY <2>1, <2>2, ClientRestored DEF ServerKept
  <2>3. CASE BackUpClient
    BY <2>1, <2>3 DEF BackUpClient, ServerKept, BackupAcked, QueueOK, TypesOK,
                      ReceiptsAreReceived, AckedIsReceived, OneMessageEach, vars
  <2>4. CASE [Next]_vars /\ clientBackup' = clientBackup
    <3>1. QueueOK'
      BY <2>1, <2>4, QueueStep DEF QueueKept
    <3>2. \A r \in Rows : \/ companion'[r] = companion[r]
                         \/ companion'[r].version > companion[r].version
      BY <2>1, CompanionSteps, ReceivedRow
    <3> QED
      BY <2>1, <2>4, <3>1, <3>2, BackupStillAcked DEF ServerKept
  <2> QED
    BY <2>1, <2>2, <2>3, <2>4 DEF RecoveryNext, recoveryVars, backups, BackUpServer
<1> QED
  BY <1>1, <1>2

\* Until the companion itself is restored, no receipt makes a client count more as
\* acknowledged than the companion has received, whichever backup its queue comes
\* from (acknowledge_skill_report, acknowledge_skill_retirement).
THEOREM NeverAhead == RecoverySpec => []AckedNotAhead
<1>1. RecoveryInit => RowsHeld /\ ServerKept
  <2> SUFFICES ASSUME RecoveryInit PROVE RowsHeld /\ ServerKept
    OBVIOUS
  <2>1. QueueOK
    BY InitEstablishes DEF RecoveryInit, IInv
  <2>2. BackupAcked
    BY <2>1 DEF RecoveryInit, QueueOK, TypesOK, AckedIsReceived, BackupAcked
  <2> QED
    BY <2>1, <2>2 DEF RecoveryInit, Init, RowsHeld, ServerKept
<1>2. Counted /\ RowsHeld /\ ServerKept /\ [RecoveryNext]_recoveryVars => (RowsHeld /\ ServerKept)'
  BY RowsHeldKept, ServerKeptKept
<1>3. ServerKept => AckedNotAhead
  BY DEF ServerKept, QueueOK, AckedIsReceived, AckedNotAhead
<1> QED
  BY <1>1, <1>2, <1>3, RecoveryInductive, PTL DEF RecoverySpec
=============================================================================
