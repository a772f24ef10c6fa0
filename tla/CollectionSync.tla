--------------------------- MODULE CollectionSync ---------------------------
(* Normal and full sync of several devices with one account on the sync      *)
(* server (rslib/src/sync/collection, rslib/src/sync/http_server).  Changed  *)
(* objects carry an update sequence number: -1 on a device until they are    *)
(* sent, and then the server's.  A sync is one transaction on each side, and *)
(* any other device's request ends a sync that is under way.                 *)
EXTENDS Integers, FiniteSets, Sequences, SequencesExt

CONSTANTS
  Clients, Notes, Cards, Decks,
  NoteOf,         \* the note of a card; a skill's only card, where it has one
  Texts, Batches, \* what a user may write, and what a companion may append
  ChunkSize,      \* CHUNK_SIZE
  Overtaken,      \* may another sync end between a device's meta and its start?
  MaxClock, MaxEdits, MaxFaults, MaxRevision, MaxBank,  \* bounds
  Gone, None, Refused

Objects == Notes \union Cards \union Decks

\* The columns of a note and of any other row
NoteRows ==
  [mtime : Nat, usn : Int, rev : 1..MaxRevision, bank : BoundedSeq(Batches, MaxBank), text : Texts]
NativeRows == [mtime : Nat, usn : Int]

\* Every kind of object has a table of its own, and graves say the kind.
ASSUME SyncAssumption ==
  /\ NoteOf \in [Cards -> Notes] /\ Texts # {}
  /\ Notes \intersect Cards = {} /\ Notes \intersect Decks = {} /\ Cards \intersect Decks = {}
  /\ ChunkSize \in Nat \ {0} /\ MaxClock \in Nat /\ MaxEdits \in Nat /\ MaxFaults \in Nat
  /\ Overtaken \in BOOLEAN /\ MaxRevision \in Nat \ {0} /\ MaxBank \in Nat
  /\ None \notin Int /\ Gone \notin NoteRows \union NativeRows

VARIABLES
  local,    \* the collection file of each device
  server,   \* the committed collection on the server
  session,  \* the server's sync state and open transaction, or None
  sync,     \* what each device is doing, with its open transaction
  clock,    \* one clock, which every edit and every finish advances
  edits, faults

vars == <<local, server, session, sync, clock, edits, faults>>

-----------------------------------------------------------------------------
(* Which objects a side has to send. *)

\* Mutant: what was sent just before the last sync ended is not asked for.
PendingAfter(usn, since) == IF since = -1 THEN usn = -1 ELSE usn > since

Pending(usn, since) == IF since = -1 THEN usn = -1 ELSE usn >= since

PendingRows(table, since) ==
  {o \in DOMAIN table : table[o] # Gone /\ Pending(table[o].usn, since)}

PendingGraves(col, since) ==
  {o \in Objects : col.grave[o] # None /\ Pending(col.grave[o], since)}

PendingMarkers(col, since) ==
  {n \in Notes : col.marker[n] # None /\ Pending(col.marker[n], since)}

Stamp(table, set, usn) ==
  [o \in DOMAIN table |-> IF o \in set THEN [table[o] EXCEPT !.usn = usn] ELSE table[o]]

StampOld(stamps, usn) == [o \in DOMAIN stamps |-> IF stamps[o] = -1 THEN usn ELSE stamps[o]]

-----------------------------------------------------------------------------
(* Deletions. *)

Trusted(col, n) == col.note[n] # Gone /\ n \in col.ids

SafeDeletion(col, n) == Trusted(col, n) => col.marker[n] # None

Recorded(col, markers, usn) ==
  [col EXCEPT !.marker = [n \in Notes |->
     IF n \in markers /\ @[n] = None THEN usn ELSE @[n]]]

Removed(col, set, usn) ==
  LET Drop(table) == [o \in DOMAIN table |-> IF o \in set THEN Gone ELSE table[o]]
  IN [col EXCEPT !.note = Drop(@), !.card = Drop(@), !.deck = Drop(@),
                 !.grave = [o \in Objects |->
                    IF o \in set /\ @[o] = None THEN usn ELSE @[o]]]

ApplyGraves(col, markers, set, usn) ==
  LET marked == Recorded(col, markers, usn)
      skills == (set \intersect Notes)
                  \union {NoteOf[k] : k \in {k \in set \intersect Cards : col.card[k] # Gone}}
  IN IF \A n \in skills : SafeDeletion(marked, n) THEN Removed(marked, set, usn)
     ELSE Refused

-----------------------------------------------------------------------------
(* Merging rows that arrive. *)

Fields(row) == [rev |-> row.rev, bank |-> row.bank, text |-> row.text]

Earlier(a, b) == a.rev < b.rev \/ (a.rev = b.rev /\ Len(a.bank) < Len(b.bank))

SameRevision(a, b) == a.rev = b.rev /\ Len(a.bank) = Len(b.bank)

\* validate_skill_bank_append, of two rows one of which is earlier
Appends(a, b) ==
  LET older == IF Earlier(a, b) THEN a ELSE b
      newer == IF Earlier(a, b) THEN b ELSE a
  IN older.text = newer.text /\ IsPrefix(older.bank, newer.bank)

\* Mutant: exercises of both sides are kept.
MergedBanks(old, new, changed, newWins, own) ==
  LET row == IF newWins THEN new ELSE old
  IN IF SameRevision(old, new) THEN row
     ELSE [row EXCEPT !.bank = old.bank \o new.bank, !.usn = own]

\* Mutant: content kept from one side under the other's stamp is not sent again.
MergedQuietly(old, new, changed, newWins, own) ==
  IF SameRevision(old, new) THEN IF newWins THEN new ELSE old
  ELSE LET content == IF Earlier(new, old) THEN old ELSE new
           row     == IF newWins THEN new ELSE old
       IN [row EXCEPT !.rev = content.rev, !.bank = content.bank, !.text = content.text]

\* Revision order chooses a skill's content, native rules choose the rest.
MergedSkill(old, new, changed, newWins, own) ==
  IF SameRevision(old, new)
  THEN IF changed /\ Fields(old) # Fields(new) THEN Refused
       ELSE IF newWins THEN new ELSE old
  ELSE IF old.rev = new.rev /\ ~Appends(old, new) THEN Refused
  ELSE LET oldContent == Earlier(new, old)
           content == IF oldContent THEN old ELSE new
           row     == IF newWins THEN new ELSE old
       IN [row EXCEPT !.rev = content.rev, !.bank = content.bank, !.text = content.text,
                      !.usn = IF newWins = oldContent THEN own ELSE @]

\* Mutant: a skill's note merges like any other.
MergedNative(col, n, new, since, own) ==
  LET old == col.note[n]
  IN IF old = Gone \/ ~Pending(old.usn, since) \/ old.mtime < new.mtime THEN new ELSE old

MergedNote(col, n, new, since, own) ==
  LET old     == col.note[n]
      changed == Pending(old.usn, since)
      newWins == ~changed \/ old.mtime < new.mtime
  IN IF old = Gone THEN new
     ELSE IF n \in col.ids THEN MergedSkill(old, new, changed, newWins, own)
     ELSE IF newWins THEN new ELSE old

MergedCard(old, new, since) ==
  IF old # Gone /\ Pending(old.usn, since) /\ old.mtime >= new.mtime THEN old ELSE new

\* A newer deck wins whether it was changed here or not.
MergeDecks(table, rows) ==
  [d \in Decks |-> IF d \in DOMAIN rows
                      /\ (table[d] # Gone => table[d].mtime <= rows[d].mtime)
                   THEN rows[d] ELSE table[d]]

ApplyChanges(col, changes) ==
  [col EXCEPT !.deck = MergeDecks(@, changes.deck),
              !.conf = IF changes.conf = None THEN @ ELSE changes.conf]

\* own is -1 on a device and the collection's number on the server.
ApplyChunk(col, chunk, since, own) ==
  LET known  == [col EXCEPT !.ids = @ \union chunk.ids]
      resend == IF own = -1
                THEN (DOMAIN chunk.note \intersect col.ids) \ chunk.ids
                ELSE chunk.ids \ col.ids
      merged == [n \in Notes |-> IF n \in DOMAIN chunk.note
                                 THEN MergedNote(known, n, chunk.note[n], since, own)
                                 ELSE col.note[n]]
  IN IF \E n \in Notes : merged[n] = Refused THEN Refused
     ELSE [known EXCEPT
             !.note = Stamp(merged, resend, own),
             !.card = [k \in Cards |-> IF k \in DOMAIN chunk.card
                                       THEN MergedCard(@[k], chunk.card[k], since)
                                       ELSE @[k]]]

-----------------------------------------------------------------------------
(* Gathering what is sent. *)

Rows(table, set) == [o \in set |-> table[o]]

\* local_unchunked_changes; a newer side sends all of its configuration.
Changes(col, since, newer) ==
  [deck |-> Rows(col.deck, PendingRows(col.deck, since)),
   conf |-> IF newer THEN col.conf ELSE None]

ChunkIds(col, since) == PendingRows(col.note, since) \union PendingRows(col.card, since)

Chunk(col, set) ==
  [note |-> Rows(col.note, set \intersect Notes), card |-> Rows(col.card, set \intersect Cards),
   ids |-> set \intersect col.ids]

\* A full chunk says that more may follow.
Parts(ids) ==
  IF Cardinality(ids) <= ChunkSize THEN {ids}
  ELSE {part \in SUBSET ids : Cardinality(part) = ChunkSize}

Short(part) == Cardinality(part) < ChunkSize

\* Markers come first in a chunk of graves.
GraveParts(markers, graves) ==
  LET room == IF Cardinality(markers) >= ChunkSize THEN 0 ELSE ChunkSize - Cardinality(markers)
  IN {p \in (SUBSET markers) \X (SUBSET graves) :
        /\ Cardinality(p[1]) = IF room = 0 THEN ChunkSize ELSE Cardinality(markers)
        /\ Cardinality(p[2]) = IF Cardinality(graves) <= room THEN Cardinality(graves) ELSE room}

-----------------------------------------------------------------------------
NoteRow(mtime, usn) ==
  [mtime |-> mtime, usn |-> usn, rev |-> 1, bank |-> <<>>, text |-> CHOOSE t \in Texts : TRUE]

FirstCollection(known) ==
  [mod |-> 0, scm |-> 0, usn |-> 1, conf |-> 0, ids |-> known,
   note |-> [n \in Notes |-> NoteRow(0, 0)],
   card |-> [k \in Cards |-> [mtime |-> 0, usn |-> 0]],
   deck |-> [d \in Decks |-> [mtime |-> 0, usn |-> 0]],
   grave |-> [o \in Objects |-> None], marker |-> [n \in Notes |-> None]]

Idle == [pc |-> "idle"]

\* Every device has just downloaded the server's collection.
Init ==
  /\ \E known \in SUBSET Notes :
       /\ local = [c \in Clients |-> FirstCollection(known)]
       /\ server = FirstCollection(known)
  /\ session = None /\ sync = [c \in Clients |-> Idle]
  /\ clock = 0 /\ edits = 0 /\ faults = 0

-----------------------------------------------------------------------------
(* What a user does on a device.  A collection that is syncing is locked.    *)

Edit(c, col) ==
  /\ sync[c].pc = "idle" /\ edits < MaxEdits
  /\ edits' = edits + 1 /\ clock' = clock + 1
  /\ local' = [local EXCEPT ![c] = [col EXCEPT !.mod = clock + 1]]
  /\ UNCHANGED <<server, session, sync, faults>>

EditCard(c, k) ==
  /\ local[c].card[k] # Gone
  /\ Edit(c, [local[c] EXCEPT !.card[k] = [mtime |-> clock + 1, usn |-> -1]])

EditDeck(c, d) ==
  /\ local[c].deck[d] # Gone
  /\ Edit(c, [local[c] EXCEPT !.deck[d] = [mtime |-> clock + 1, usn |-> -1]])

EditConfig(c) == Edit(c, [local[c] EXCEPT !.conf = clock + 1])

\* The note editor changes any field, a skill's text included.
EditNote(c, n, text) ==
  /\ local[c].note[n] # Gone /\ text # local[c].note[n].text
  /\ Edit(c, [local[c] EXCEPT !.note[n].text = text, !.note[n].mtime = clock + 1,
                              !.note[n].usn = -1])

Advanced(row, bank, rev, mtime) ==
  [row EXCEPT !.bank = bank, !.rev = rev, !.mtime = mtime, !.usn = -1]

\* add_skill_notes with an update: a batch appended, or a new revision
AppendBatch(c, n, batch) ==
  /\ Trusted(local[c], n) /\ Len(local[c].note[n].bank) < MaxBank
  /\ LET row == local[c].note[n] IN
       Edit(c, [local[c] EXCEPT
                  !.note[n] = Advanced(row, Append(row.bank, batch), row.rev, clock + 1)])

Revise(c, n) ==
  /\ Trusted(local[c], n) /\ local[c].note[n].rev < MaxRevision
  /\ Edit(c, [local[c] EXCEPT
                !.note[n] = Advanced(@, <<>>, @.rev + 1, clock + 1)])

\* reconnect_skill_notes: the identity travels with the note
Reconnect(c, n) ==
  /\ local[c].note[n] # Gone /\ n \notin local[c].ids /\ local[c].marker[n] = None
  /\ Edit(c, [local[c] EXCEPT !.ids = @ \union {n}, !.note[n].usn = -1])

\* remove_notes and remove_cards, with the marker of a skill
Delete(c, set) ==
  /\ \A o \in set : o \in Decks \/ local[c].grave[o] = None
  /\ Edit(c, Removed(Recorded(local[c], {n \in set \intersect Notes : Trusted(local[c], n)}, -1),
                     set, -1))

DeleteNote(c, n) ==
  /\ local[c].note[n] # Gone
  /\ Delete(c, {n} \union {k \in Cards : NoteOf[k] = n /\ local[c].card[k] # Gone})

DeleteDeck(c, d) == local[c].deck[d] # Gone /\ Delete(c, {d})

\* An operation that changes the schema, or the request to sync in one direction
ChangeSchema(c) == Edit(c, [local[c] EXCEPT !.scm = clock + 1])

User(c) ==
  \/ \E k \in Cards : EditCard(c, k)
  \/ \E d \in Decks : EditDeck(c, d) \/ DeleteDeck(c, d)
  \/ EditConfig(c) \/ ChangeSchema(c)
  \/ \E n \in Notes : \/ \E t \in Texts : EditNote(c, n, t)
                      \/ \E b \in Batches : AppendBatch(c, n, b)
                      \/ Revise(c, n) \/ Reconnect(c, n) \/ DeleteNote(c, n)

-----------------------------------------------------------------------------
(* A sync that ends early.  The device rolls its transaction back and asks   *)
(* the server to abort whatever sync is active; the request may be lost.     *)

\* Mutant: the device commits what it has when a sync fails.
AbandonCommitted(c) ==
  /\ sync' = [sync EXCEPT ![c] = Idle]
  /\ local' = IF "db" \in DOMAIN sync[c] THEN [local EXCEPT ![c] = sync[c].db] ELSE local
  /\ session' \in {session, None}
  /\ UNCHANGED <<server, clock, edits, faults>>

Abandon(c) ==
  /\ sync' = [sync EXCEPT ![c] = Idle]
  /\ session' \in {session, None}
  /\ UNCHANGED <<local, server, clock, edits, faults>>

\* The server has no sync of this device any more.
Conflict(c) ==
  /\ sync[c].pc \notin {"idle", "start", "full"}
  /\ session # None => session.owner # c
  /\ Abandon(c)

\* A request is lost, the user cancels or the app is closed.
Interrupted(c) ==
  /\ sync[c].pc # "idle" /\ faults < MaxFaults
  /\ sync' = [sync EXCEPT ![c] = Idle] /\ session' \in {session, None}
  /\ faults' = faults + 1
  /\ UNCHANGED <<local, server, clock, edits>>

\* The server restarts, or drops an active sync.
Restart ==
  /\ session # None /\ faults < MaxFaults
  /\ session' = None /\ faults' = faults + 1
  /\ UNCHANGED <<local, server, sync, clock, edits>>

-----------------------------------------------------------------------------
(* The steps of a normal sync. *)

Empty(col) == \A k \in Cards : col.card[k] = Gone

\* meta and compared_to_remote; asking for meta ends an active sync.
Meta(c) ==
  /\ sync[c].pc = "idle" /\ local[c].mod # server.mod /\ clock < MaxClock
  /\ sync' = [sync EXCEPT ![c] =
       IF local[c].scm # server.scm
       THEN [pc |-> "full", upload |-> ~Empty(local[c]) \/ Empty(server),
             download |-> ~Empty(server) \/ Empty(local[c])]
       ELSE [pc |-> "start", newer |-> local[c].mod > server.mod,
             usn |-> server.usn, since |-> local[c].usn, seen |-> server.mod]]
  /\ session' = None
  /\ UNCHANGED <<local, server, clock, edits, faults>>

\* start_new_sync and server_start; the device takes its own graves.
Start(c) ==
  LET s == sync[c] IN
  /\ s.pc = "start" /\ (Overtaken \/ server.mod = s.seen)
  /\ session' = [owner |-> c, db |-> server, usn |-> server.usn, since |-> s.since,
                 newer |-> s.newer, ids |-> None]
  /\ sync' = [sync EXCEPT ![c] =
       [pc |-> "graves", newer |-> s.newer, usn |-> s.usn,
        db |-> [local[c] EXCEPT !.grave = StampOld(@, s.usn), !.marker = StampOld(@, s.usn)],
        markers |-> PendingMarkers(local[c], -1), graves |-> PendingGraves(local[c], -1),
        remoteMarkers |-> PendingMarkers(server, s.since),
        remoteGraves |-> PendingGraves(server, s.since)]]
  /\ UNCHANGED <<local, server, clock, edits, faults>>

Active(c, pc) == sync[c].pc = pc /\ session # None /\ session.owner = c

SendGraves(c) ==
  LET s == sync[c] IN
  /\ Active(c, "graves") /\ s.markers \union s.graves # {}
  /\ \E p \in GraveParts(s.markers, s.graves) :
       LET db == ApplyGraves(session.db, p[1], p[2], session.usn) IN
       IF db = Refused THEN Abandon(c)
       ELSE /\ session' = [session EXCEPT !.db = db]
            /\ sync' = [sync EXCEPT ![c].markers = @ \ p[1], ![c].graves = @ \ p[2]]
            /\ UNCHANGED <<local, server, clock, edits, faults>>

Step(c, pc, db) == [pc |-> pc, newer |-> sync[c].newer, usn |-> sync[c].usn, db |-> db]

ApplyRemoteGraves(c) ==
  LET s == sync[c] IN
  /\ s.pc = "graves" /\ s.markers \union s.graves = {}
  /\ LET db == ApplyGraves(s.db, s.remoteMarkers, s.remoteGraves, s.usn) IN
       IF db = Refused THEN Abandon(c)
       ELSE /\ sync' = [sync EXCEPT ![c] = Step(c, "changes", db)]
            /\ UNCHANGED <<local, server, session, clock, edits, faults>>

\* process_unchunked_changes and server_apply_changes; the server gathers its
\* changes before it applies the device's.
ExchangeChanges(c) ==
  LET s      == sync[c]
      stamped == [s.db EXCEPT !.deck = Stamp(@, PendingRows(@, -1), s.usn)]
      mine   == [Changes(s.db, -1, s.newer) EXCEPT
                   !.deck = Rows(stamped.deck, DOMAIN @)]
      theirs == Changes(session.db, session.since, ~session.newer)
  IN /\ Active(c, "changes")
     /\ session' = [session EXCEPT !.db = ApplyChanges(@, mine)]
     /\ sync' = [sync EXCEPT ![c] = Step(c, "receive", ApplyChanges(stamped, theirs))]
     /\ UNCHANGED <<local, server, clock, edits, faults>>

\* server_chunk and the device's apply_chunk
ReceiveChunk(c) ==
  /\ Active(c, "receive")
  /\ LET ids == IF session.ids = None THEN ChunkIds(session.db, session.since)
                ELSE session.ids IN
     \E part \in Parts(ids) :
       LET db == ApplyChunk(sync[c].db, Chunk(session.db, part), -1, -1) IN
       IF db = Refused THEN Abandon(c)
       ELSE /\ session' = [session EXCEPT !.ids = ids \ part]
            /\ sync' = [sync EXCEPT ![c] =
                 Step(c, IF Short(part) THEN "send" ELSE "receive", db)]
            /\ UNCHANGED <<local, server, clock, edits, faults>>

\* send_chunks_to_server and server_apply_chunk; what is sent loses its mark.
SendChunk(c) ==
  LET s == sync[c] IN
  /\ Active(c, "send")
  /\ \E part \in Parts(ChunkIds(s.db, -1)) :
       LET sent == [s.db EXCEPT !.note = Stamp(@, part \intersect Notes, s.usn),
                                !.card = Stamp(@, part \intersect Cards, s.usn)]
           db   == ApplyChunk(session.db, Chunk(sent, part), session.since, session.db.usn)
       IN IF db = Refused THEN Abandon(c)
          ELSE /\ session' = [session EXCEPT !.db = db]
               /\ sync' = [sync EXCEPT ![c] =
                    Step(c, IF Short(part) THEN "sanity" ELSE "send", sent)]
               /\ UNCHANGED <<local, server, clock, edits, faults>>

Counts(col) ==
  LET Count(table) == Cardinality({o \in DOMAIN table : table[o] # Gone})
  IN <<Count(col.note), Count(col.card), Count(col.deck)>>

\* sanity_check_info also fails while a row is still marked.
Unsent(col) ==
  \/ \E t \in {col.note, col.card, col.deck} : PendingRows(t, -1) # {}
  \/ \E o \in Objects : col.grave[o] = -1

\* A device whose counts differ rolls back and asks for a full sync.
SanityCheck(c) ==
  LET s == sync[c] IN
  /\ Active(c, "sanity")
  /\ IF Unsent(s.db) THEN Abandon(c)
     ELSE IF Unsent(session.db) \/ Counts(s.db) # Counts(session.db)
     THEN /\ sync' = [sync EXCEPT ![c] = Idle] /\ session' = None
          /\ clock' = clock + 1
          /\ local' = [local EXCEPT ![c].scm = clock + 1]
          /\ UNCHANGED <<server, edits, faults>>
     ELSE /\ sync' = [sync EXCEPT ![c] = Step(c, "finish", s.db)]
          /\ UNCHANGED <<local, server, session, clock, edits, faults>>

\* Mutant: the server keeps its number.
FinishUncounted(c, replied) ==
  LET s == sync[c] IN
  /\ Active(c, "finish")
  /\ replied \/ faults < MaxFaults
  /\ clock' = clock + 1 /\ faults' = IF replied THEN faults ELSE faults + 1
  /\ server' = [session.db EXCEPT !.mod = clock + 1]
  /\ session' = None /\ sync' = [sync EXCEPT ![c] = Idle]
  /\ local' = IF replied
              THEN [local EXCEPT ![c] = [s.db EXCEPT !.usn = s.usn + 1, !.mod = clock + 1]]
              ELSE local
  /\ UNCHANGED edits

\* server_finish, then finalize_sync if the reply arrives
Finish(c, replied) ==
  LET s == sync[c] IN
  /\ Active(c, "finish")
  /\ replied \/ faults < MaxFaults
  /\ clock' = clock + 1 /\ faults' = IF replied THEN faults ELSE faults + 1
  /\ server' = [session.db EXCEPT !.usn = @ + 1, !.mod = clock + 1]
  /\ session' = None /\ sync' = [sync EXCEPT ![c] = Idle]
  /\ local' = IF replied
              THEN [local EXCEPT ![c] = [s.db EXCEPT !.usn = s.usn + 1, !.mod = clock + 1]]
              ELSE local
  /\ UNCHANGED edits

-----------------------------------------------------------------------------
(* Full sync, when the schema stamps differ and the user chooses a side.     *)

\* before_upload: nothing is left to send, and the schema is new.
Prepared(col) ==
  LET All(table) == Stamp(table, PendingRows(table, -1), 0)
  IN [col EXCEPT !.grave = [o \in Objects |-> None], !.marker = StampOld(@, 0),
                 !.note = All(@), !.card = All(@), !.deck = All(@),
                 !.usn = @ + 1, !.scm = clock + 1, !.mod = clock + 1]

Upload(c, arrived) ==
  /\ sync[c].pc = "full" /\ sync[c].upload
  /\ arrived \/ faults < MaxFaults
  /\ clock' = clock + 1 /\ faults' = IF arrived THEN faults ELSE faults + 1
  /\ local' = [local EXCEPT ![c] = Prepared(@)]
  /\ IF arrived THEN server' = Prepared(local[c]) /\ session' = None
     ELSE UNCHANGED <<server, session>>
  /\ sync' = [sync EXCEPT ![c] = Idle]
  /\ UNCHANGED edits

\* server_download counts as a change on the server.
Download(c, arrived) ==
  LET copy == [server EXCEPT !.usn = @ + 1, !.mod = clock + 1] IN
  /\ sync[c].pc = "full" /\ sync[c].download
  /\ arrived \/ faults < MaxFaults
  /\ clock' = clock + 1 /\ faults' = IF arrived THEN faults ELSE faults + 1
  /\ server' = copy /\ session' = None
  /\ local' = IF arrived THEN [local EXCEPT ![c] = copy] ELSE local
  /\ sync' = [sync EXCEPT ![c] = Idle]
  /\ UNCHANGED edits

-----------------------------------------------------------------------------
Sync(c) ==
  \/ Meta(c) \/ Start(c) \/ SendGraves(c) \/ ApplyRemoteGraves(c) \/ ExchangeChanges(c)
  \/ ReceiveChunk(c) \/ SendChunk(c) \/ SanityCheck(c)
  \/ Conflict(c)
  \/ \E ok \in BOOLEAN : Finish(c, ok) \/ Upload(c, ok) \/ Download(c, ok)

Next == Restart \/ \E c \in Clients : User(c) \/ Sync(c) \/ Interrupted(c)

Spec == Init /\ [][Next]_vars

-----------------------------------------------------------------------------
Row(col, o) ==
  IF o \in Notes THEN col.note[o] ELSE IF o \in Cards THEN col.card[o] ELSE col.deck[o]

Collections ==
  [mod : Nat, scm : Nat, usn : Nat, conf : Nat, ids : SUBSET Notes,
   note : [Notes -> NoteRows \union {Gone}],
   card : [Cards -> NativeRows \union {Gone}],
   deck : [Decks -> NativeRows \union {Gone}],
   grave : [Objects -> Int \union {None}], marker : [Notes -> Int \union {None}]]

Sessions ==
  [owner : Clients, db : Collections, usn : Nat, since : Nat, newer : BOOLEAN,
   ids : (SUBSET Objects) \union {None}]

\* What a device may be doing, with what it then remembers
Syncs ==
  {Idle} \union [pc : {"full"}, upload : BOOLEAN, download : BOOLEAN]
    \union [pc : {"start"}, newer : BOOLEAN, usn : Nat, since : Nat, seen : Nat]
    \union [pc : {"graves"}, newer : BOOLEAN, usn : Nat, db : Collections,
            markers : SUBSET Notes, graves : SUBSET Objects,
            remoteMarkers : SUBSET Notes, remoteGraves : SUBSET Objects]
    \union [pc : {"changes", "receive", "send", "sanity", "finish"},
            newer : BOOLEAN, usn : Nat, db : Collections]

\* The fields of every collection, open or committed, stay what the code's tables hold.
TypeOK ==
  /\ local \in [Clients -> Collections] /\ server \in Collections
  /\ session \in Sessions \union {None} /\ sync \in [Clients -> Syncs]
  /\ clock \in Nat /\ edits \in Nat /\ faults \in Nat

RowContent(col, o) == IF Row(col, o) = Gone THEN Gone ELSE [Row(col, o) EXCEPT !.usn = 0]

Content(col) == <<col.conf, [o \in Objects |-> RowContent(col, o)]>>

\* compared_to_remote reports NO_CHANGES when the modification times agree; a
\* device the server says this to has the server's notes, cards, decks and
\* configuration, whatever was edited, merged, interrupted or lost before.
NoChangesMeansSame ==
  \A c \in Clients : sync[c].pc = "idle" /\ local[c].mod = server.mod
                       => Content(local[c]) = Content(server)

\* No merge brings a deleted object back: where its grave is, its row is not.
DeletedStaysDeleted ==
  \A col \in {server} \union {local[c] : c \in Clients} :
    \A o \in Objects : col.grave[o] # None => Row(col, o) = Gone

\* A change loses its mark only when the server has it or something newer, so
\* that a sync which ends early leaves everything unsent still to send.
SettledIsOnServer ==
  \A c \in Clients : local[c].scm = server.scm =>
    \A o \in Objects : Row(local[c], o) # Gone /\ Row(local[c], o).usn # -1 =>
      \/ server.grave[o] # None
      \/ Row(server, o) # Gone /\ Row(server, o).mtime >= Row(local[c], o).mtime

\* What a device has yet to see carries a number it will ask for: the rows it
\* sends are rewritten to the latest number of the server (normal.rs).
UnseenIsAsked ==
  \A c \in Clients : local[c].scm = server.scm =>
    \A o \in Objects : RowContent(server, o) # RowContent(local[c], o) =>
      \/ Row(server, o) # Gone /\ Row(server, o).usn >= local[c].usn
      \/ Row(local[c], o) # Gone /\ Row(local[c], o).usn = -1
      \/ local[c].grave[o] = -1
      \/ server.grave[o] # None /\ server.grave[o] >= local[c].usn

Forward(old, new) ==
  old.scm = new.scm =>
    \A n \in old.ids : old.note[n] # Gone /\ new.note[n] # Gone =>
      /\ ~Earlier(new.note[n], old.note[n])
      /\ new.note[n].rev = old.note[n].rev => IsPrefix(old.note[n].bank, new.note[n].bank)

\* Whatever merges, a known skill keeps its revision and its exercises or moves
\* on; only a full sync, which the user asks for, puts an older copy back.
SkillsAdvance ==
  [][Forward(server, server') /\ \A c \in Clients : Forward(local[c], local'[c])]_vars
=============================================================================
