----------------------------- MODULE SyncProofs -----------------------------
(***************************************************************************)
(* For every number of devices, objects, texts and exercises, every chunk  *)
(* size and every edit, interruption and lost reply: what a normal sync    *)
(* promises, as long as no other sync ends between a device's meta and its *)
(* start (~Overtaken).                                                     *)
(*                                                                         *)
(* A device whose schema is the server's is Behind it: what it has settled *)
(* the server has, or something later, and what it has not seen is in rows *)
(* and graves it will ask for.  A sync under way is Linked: each side's    *)
(* open transaction has moved on from its collection, and the two are      *)
(* Level but for the objects that are still to be exchanged.               *)
(***************************************************************************)
EXTENDS CollectionSync, SequenceTheorems, TLAPS

-----------------------------------------------------------------------------
(* Two copies of an object.                                                  *)

Graved(col) == {o \in Objects : col.grave[o] # None}
Present(col, o) == Row(col, o) # Gone
Settled(col, o) == Present(col, o) /\ Row(col, o).usn # -1

\* A skill's content is at least as far as another's; other content has no order.
Ahead(new, old) == old.rev < new.rev \/ (old.rev = new.rev /\ IsPrefix(old.bank, new.bank))

Covers(o, new, old) == old.mtime <= new.mtime /\ (o \in Notes => Ahead(new, old))

SameRow(o, x, y) == x.mtime = y.mtime /\ (o \in Notes => Fields(x) = Fields(y))

-----------------------------------------------------------------------------
(* One collection.                                                           *)

Clean(col) == \A o \in Graved(col) : Row(col, o) = Gone

\* Only a known skill is revised, or has exercises.
Plain(col) ==
  \A n \in Notes \ col.ids : col.note[n] # Gone => col.note[n].rev = 1 /\ col.note[n].bank = <<>>

Sound(col) == Clean(col) /\ Plain(col)

\* Two collections: the rows of a device and those of the server
Level(mine, theirs, rest) ==
  \A o \in Objects \ (Graved(mine) \union Graved(theirs)) :
    /\ Settled(mine, o) =>
         Present(theirs, o) /\ Covers(o, Row(theirs, o), Row(mine, o))
    /\ Present(theirs, o) /\ o \notin rest =>
         Present(mine, o) /\ Covers(o, Row(mine, o), Row(theirs, o))
    /\ Settled(mine, o) /\ o \notin rest => SameRow(o, Row(mine, o), Row(theirs, o))

Unseen(col, since) == {o \in Objects : Present(col, o) /\ Row(col, o).usn >= since}

\* A device between two syncs: what it settled is on the server, and what the server
\* has that it does not is in rows and graves from its own number on.
Behind(mine, theirs) ==
  /\ mine.usn <= theirs.usn
  /\ \A o \in Objects : mine.grave[o] # -1 /\ mine.grave[o] # None => o \in Graved(theirs)
  /\ \A o \in Objects : theirs.grave[o] # None /\ theirs.grave[o] < mine.usn => o \in Graved(mine)
  /\ Level(mine, theirs, Unseen(theirs, mine.usn))

\* Notes that neither knows as a skill are as they were written, at a time of its own.
OneText(x, y) ==
  \A n \in Notes \ (x.ids \union y.ids) :
    x.note[n] # Gone /\ y.note[n] # Gone /\ x.note[n].mtime = y.note[n].mtime
      => x.note[n].text = y.note[n].text

SameNote(x, y, n) ==
  /\ n \notin y.ids /\ y.note[n] # Gone
  /\ x.note[n].mtime = y.note[n].mtime /\ x.note[n].text = y.note[n].text

TakenFrom(x, y, z) ==
  \A n \in Notes \ x.ids : x.note[n] # Gone => SameNote(x, y, n) \/ SameNote(x, z, n)

\* The open transaction of the server
Grown(old, new) ==
  \A o \in Objects :
    /\ new.grave[o] = old.grave[o] \/ (old.grave[o] = None /\ new.grave[o] = old.usn)
    /\ \/ Row(new, o) = Row(old, o)
       \/ o \in Graved(new)
       \/ /\ Present(new, o) /\ Row(new, o).usn >= old.usn
          /\ Present(old, o) => Covers(o, Row(new, o), Row(old, o))

\* The open transaction of a device
Kept(old, new) ==
  \A o \in Objects \ Graved(new) :
    Present(old, o) => Present(new, o) /\ Covers(o, Row(new, o), Row(old, o))

Aged(col) == \A o \in Objects : Present(col, o) => Row(col, o).mtime <= clock

-----------------------------------------------------------------------------
Open == {"graves", "changes", "receive", "send", "sanity", "finish"}

Linked(c) == session # None /\ session.owner = c /\ sync[c].pc \in Open

Waiting(ses) == IF ses.ids = None THEN ChunkIds(ses.db, ses.since) ELSE ses.ids

Rest(pc, ses) ==
  IF pc = "changes" THEN Unseen(ses.db, ses.since)
  ELSE IF pc = "receive" THEN Waiting(ses) ELSE {}

\* A device's collection and the server's, with what the two of them have open
SameStamps(mine, theirs, s, ses) ==
  /\ mine.scm = theirs.scm /\ s.db.scm = theirs.scm /\ ses.db.scm = theirs.scm
  /\ s.usn = theirs.usn /\ ses.usn = theirs.usn /\ ses.db.usn = theirs.usn
  /\ ses.since = mine.usn /\ ses.newer = s.newer

\* While graves travel: each side has the other's graves but for those still to come.
GravesLink(mine, theirs, s, ses) ==
  /\ s.graves \subseteq Graved(s.db) /\ Graved(s.db) \subseteq Graved(ses.db) \union s.graves
  /\ s.remoteGraves \subseteq Graved(ses.db)
  /\ Graved(ses.db) \subseteq Graved(s.db) \union s.remoteGraves
  /\ Graved(s.db) = Graved(mine)
  /\ \A o \in Objects : /\ Row(s.db, o) = Row(mine, o)
                        /\ Row(ses.db, o) = Row(theirs, o) \/ o \in Graved(ses.db)

\* Afterwards the graves are the same, and the rows are level but for those to come.
RowsLink(s, ses) ==
  /\ Graved(s.db) = Graved(ses.db)
  /\ Level(s.db, ses.db, Rest(s.pc, ses))
  /\ s.pc # "changes" => s.db.conf = ses.db.conf
  /\ s.pc = "receive" => Waiting(ses) \subseteq ChunkIds(ses.db, ses.since)
  /\ s.pc = "finish" => \A o \in Objects : Present(s.db, o) => Settled(s.db, o)

LinkOf(mine, theirs, s, ses) ==
  /\ SameStamps(mine, theirs, s, ses)
  /\ Sound(s.db) /\ Sound(ses.db) /\ Aged(s.db) /\ Aged(ses.db)
  /\ Kept(mine, s.db) /\ Grown(theirs, ses.db)
  /\ TakenFrom(s.db, mine, theirs) /\ TakenFrom(ses.db, mine, theirs)
  /\ s.pc \in {"graves", "changes"} => ses.ids = None
  /\ IF s.pc = "graves" THEN GravesLink(mine, theirs, s, ses) ELSE RowsLink(s, ses)

Link(c) == LinkOf(local[c], server, sync[c], session)

-----------------------------------------------------------------------------
\* Nothing committed is dated ahead of the clock, so a new stamp is like no other.
Stamps ==
  /\ server.scm <= clock /\ server.mod <= clock
  /\ \A c \in Clients : local[c].scm <= clock /\ local[c].mod <= clock

Committed == {server} \union {local[c] : c \in Clients}

Texted == \A x, y \in Committed : OneText(x, y)

AllSound == \A x \in Committed : Sound(x) /\ Aged(x)

AllBehind == \A c \in Clients : local[c].scm = server.scm => Behind(local[c], server)

SameContent(x, y) ==
  /\ x.conf = y.conf
  /\ \A o \in Objects : /\ Present(x, o) <=> Present(y, o)
                        /\ Present(x, o) => SameRow(o, Row(x, o), Row(y, o))

\* Equal modification times mean equal content.
ModTells == \A c \in Clients : local[c].mod = server.mod => SameContent(local[c], server)

\* What a device decided from the server's meta, unless the server has moved on since
Decided(c) ==
  /\ sync[c].pc = "full" => local[c].scm # server.scm
  /\ sync[c].pc = "start" =>
       /\ sync[c].seen <= clock
       /\ server.mod = sync[c].seen =>
            /\ local[c].scm = server.scm
            /\ sync[c].usn = server.usn /\ sync[c].since = local[c].usn

AllDecided == \A c \in Clients : Decided(c)
AllLinked == \A c \in Clients : Linked(c) => Link(c)

IInv ==
  /\ TypeOK /\ Stamps /\ AllSound /\ Texted /\ AllBehind /\ ModTells /\ AllDecided /\ AllLinked

-----------------------------------------------------------------------------
(* Prefixes of banks.                                                        *)

Banks == BoundedSeq(Batches, MaxBank)

LEMMA BankIsSequence == \A s \in Banks : s \in Seq(Batches) /\ Len(s) \in Nat /\ Len(s) <= MaxBank
<1> TAKE s \in Banks
<1>1. PICK m \in 0..MaxBank : s \in [1..m -> Batches]
  BY SyncAssumption DEF Banks, BoundedSeq, SeqOf
<1>2. s \in Seq(Batches) /\ Len(s) = m
  BY <1>1, SyncAssumption, SMT
<1> QED BY <1>1, <1>2, SyncAssumption

\* What IsPrefix says of two banks, position by position
LEMMA PrefixByPosition ==
  ASSUME NEW s \in Seq(Batches), NEW t \in Seq(Batches)
  PROVE  IsPrefix(s, t) <=> Len(s) <= Len(t) /\ \A i \in 1..Len(s) : s[i] = t[i]
<1>1. Len(s) \in Nat /\ Len(t) \in Nat
  OBVIOUS
<1>2. SubSeq(s, 1, Len(s)) = s
  BY SubSeqFull, Zenon
<1>3. ASSUME Len(s) <= Len(t)
      PROVE  SubSeq(s, 1, Len(s)) = SubSeq(t, 1, Len(s)) <=> \A i \in 1..Len(s) : s[i] = t[i]
  <2>2. SubSeq(t, 1, Len(s)) \in Seq(Batches) /\ Len(SubSeq(t, 1, Len(s))) = Len(s)
    BY <1>3, SMT
  <2>3. ASSUME NEW i \in 1..Len(s) PROVE SubSeq(t, 1, Len(s))[i] = t[i]
    BY <1>3, SMT
  <2>4. (\A i \in 1..Len(s) : s[i] = t[i]) => s = SubSeq(t, 1, Len(s))
    BY <2>2, <2>3, SeqEqual, Zenon
  <2> QED BY <1>2, <2>3, <2>4
<1> QED BY <1>3 DEF IsPrefix

LEMMA PrefixReflexive == \A s \in Seq(Batches) : IsPrefix(s, s)
  BY PrefixByPosition

LEMMA PrefixTransitive ==
  ASSUME NEW s \in Seq(Batches), NEW t \in Seq(Batches), NEW u \in Seq(Batches),
         IsPrefix(s, t), IsPrefix(t, u)
  PROVE  IsPrefix(s, u)
<1>1. Len(s) <= Len(t) /\ \A i \in 1..Len(s) : s[i] = t[i]
  BY PrefixByPosition
<1>2. Len(t) <= Len(u) /\ \A i \in 1..Len(t) : t[i] = u[i]
  BY PrefixByPosition
<1>3. Len(s) \in Nat /\ Len(t) \in Nat /\ Len(u) \in Nat
  OBVIOUS
<1>4. Len(s) <= Len(u) /\ \A i \in 1..Len(s) : s[i] = u[i]
  BY <1>1, <1>2, <1>3
<1> QED BY <1>4, PrefixByPosition

LEMMA PrefixOfSameLength ==
  ASSUME NEW s \in Seq(Batches), NEW t \in Seq(Batches), IsPrefix(s, t), Len(s) = Len(t)
  PROVE  s = t
  BY PrefixByPosition, SeqEqual

LEMMA PrefixOfAppend ==
  ASSUME NEW s \in Seq(Batches), NEW e \in Batches
  PROVE  IsPrefix(s, Append(s, e))
<1>1. /\ Append(s, e) \in Seq(Batches) /\ Len(Append(s, e)) = Len(s) + 1
      /\ \A i \in 1..Len(s) : Append(s, e)[i] = s[i]
  BY SMT
<1>2. Len(s) <= Len(s) + 1 /\ \A i \in 1..Len(s) : s[i] = Append(s, e)[i]
  BY <1>1
<1> QED BY <1>1, <1>2, PrefixByPosition, Zenon

LEMMA EmptyPrefix == \A s \in Seq(Batches) : IsPrefix(<<>>, s)
<1> TAKE s \in Seq(Batches)
<1>1. <<>> \in Seq(Batches) /\ Len(<<>>) <= Len(s) /\ \A i \in 1..Len(<<>>) : <<>>[i] = s[i]
  OBVIOUS
<1> QED BY <1>1, PrefixByPosition, Zenon

LEMMA SequenceAsFunction ==
  ASSUME NEW n \in Nat, NEW s \in Seq(Batches), Len(s) = n
  PROVE  s \in [1..n -> Batches]
  BY SMT

LEMMA AppendedBank ==
  ASSUME NEW s \in Banks, NEW e \in Batches, Len(s) < MaxBank
  PROVE  Append(s, e) \in Banks
<1>1. PICK m \in 0..MaxBank : s \in [1..m -> Batches]
  BY SyncAssumption DEF Banks, BoundedSeq, SeqOf
<1>2. s \in Seq(Batches) /\ Len(s) = m /\ m + 1 \in 0..MaxBank /\ m + 1 \in Nat
  BY <1>1, SyncAssumption
<1>3. Append(s, e) \in Seq(Batches) /\ Len(Append(s, e)) = m + 1
  BY <1>2, SMT
<1>4. Append(s, e) \in [1..m+1 -> Batches]
  BY <1>2, <1>3, SequenceAsFunction, Zenon
<1> QED BY <1>2, <1>4 DEF Banks, BoundedSeq, SeqOf

LEMMA EmptyBank == <<>> \in Banks
<1>1. <<>> \in [1..0 -> Batches] /\ 0 \in 0..MaxBank
  BY SyncAssumption
<1> QED BY <1>1 DEF Banks, BoundedSeq, SeqOf

-----------------------------------------------------------------------------
(* Rows and tables.                                                          *)

LEMMA RowOf ==
  ASSUME NEW col
  PROVE  /\ \A n \in Notes : Row(col, n) = col.note[n]
         /\ \A k \in Cards : Row(col, k) = col.card[k]
         /\ \A d \in Decks : Row(col, d) = col.deck[d]
  BY SyncAssumption DEF Row

LEMMA NoteColumns ==
  ASSUME NEW x \in NoteRows
  PROVE  /\ x.mtime \in Nat /\ x.usn \in Int /\ x.rev \in Nat /\ x.rev \in 1..MaxRevision
         /\ x.bank \in Seq(Batches) /\ x.bank \in Banks /\ Len(x.bank) \in Nat /\ x.text \in Texts
<1>1. /\ x.mtime \in Nat /\ x.usn \in Int /\ x.rev \in 1..MaxRevision /\ x.text \in Texts
      /\ x.bank \in Banks
  BY DEF NoteRows, Banks
<1> QED BY <1>1, BankIsSequence, SyncAssumption

LEMMA CollectionTables ==
  ASSUME NEW col \in Collections
  PROVE  /\ col.mod \in Nat /\ col.scm \in Nat /\ col.usn \in Nat /\ col.conf \in Nat
         /\ col.ids \subseteq Notes
         /\ col.note \in [Notes -> NoteRows \union {Gone}]
         /\ col.card \in [Cards -> NativeRows \union {Gone}]
         /\ col.deck \in [Decks -> NativeRows \union {Gone}]
         /\ col.grave \in [Objects -> Int \union {None}]
         /\ col.marker \in [Notes -> Int \union {None}]
  BY DEF Collections

LEMMA PresentRow ==
  ASSUME NEW col \in Collections, NEW o \in Objects, Present(col, o)
  PROVE  /\ Row(col, o).mtime \in Nat /\ Row(col, o).usn \in Int
         /\ o \in Notes => Row(col, o) \in NoteRows
         /\ o \notin Notes => Row(col, o) \in NativeRows
<1>1. o \in Notes => Row(col, o) \in NoteRows
  BY CollectionTables, RowOf DEF Present
<1>2. o \notin Notes => Row(col, o) \in NativeRows
  BY CollectionTables, RowOf DEF Present, Objects
<1> QED BY <1>1, <1>2 DEF NoteRows, NativeRows

-----------------------------------------------------------------------------
(* How far the content of a skill is.                                        *)

LEMMA AheadReflexive == \A x \in NoteRows : Ahead(x, x)
  BY NoteColumns, PrefixReflexive DEF Ahead

LEMMA AheadTransitive ==
  ASSUME NEW x \in NoteRows, NEW y \in NoteRows, NEW z \in NoteRows, Ahead(x, y), Ahead(y, z)
  PROVE  Ahead(x, z)
<1>1. /\ x.rev \in Nat /\ y.rev \in Nat /\ z.rev \in Nat
      /\ x.bank \in Seq(Batches) /\ y.bank \in Seq(Batches) /\ z.bank \in Seq(Batches)
  BY NoteColumns
<1>2. IsPrefix(z.bank, y.bank) /\ IsPrefix(y.bank, x.bank) => IsPrefix(z.bank, x.bank)
  BY <1>1, PrefixTransitive
<1> QED BY <1>1, <1>2 DEF Ahead

LEMMA CoversReflexive ==
  ASSUME NEW col \in Collections, NEW o \in Objects, Present(col, o)
  PROVE  Covers(o, Row(col, o), Row(col, o))
  BY PresentRow, AheadReflexive DEF Covers

LEMMA CoversTransitive ==
  ASSUME NEW o, NEW x, NEW y, NEW z,
         x.mtime \in Nat, y.mtime \in Nat, z.mtime \in Nat,
         o \in Notes => x \in NoteRows /\ y \in NoteRows /\ z \in NoteRows,
         Covers(o, x, y), Covers(o, y, z)
  PROVE  Covers(o, x, z)
<1>1. o \in Notes => Ahead(x, z)
  BY AheadTransitive DEF Covers
<1> QED BY <1>1 DEF Covers

\* Rows that cover each other differ in their text alone.
LEMMA AheadBothWays ==
  ASSUME NEW x \in NoteRows, NEW y \in NoteRows, Ahead(x, y), Ahead(y, x)
  PROVE  x.rev = y.rev /\ x.bank = y.bank
<1>1. /\ x.rev \in Nat /\ y.rev \in Nat
      /\ x.bank \in Seq(Batches) /\ y.bank \in Seq(Batches)
      /\ Len(x.bank) \in Nat /\ Len(y.bank) \in Nat
  BY NoteColumns
<1>2. x.rev = y.rev /\ IsPrefix(x.bank, y.bank) /\ IsPrefix(y.bank, x.bank)
  BY <1>1 DEF Ahead
<1>3. Len(x.bank) = Len(y.bank)
  BY <1>1, <1>2 DEF IsPrefix
<1> QED BY <1>1, <1>2, <1>3, PrefixOfSameLength

\* A plain note is behind every other, and two plain notes are level.
LEMMA PlainBehind ==
  ASSUME NEW x \in NoteRows, NEW y \in NoteRows, y.rev = 1, y.bank = <<>>
  PROVE  Ahead(x, y)
<1>1. x.rev \in 1..MaxRevision /\ x.rev \in Nat /\ x.bank \in Seq(Batches)
  BY NoteColumns
<1>2. IsPrefix(<<>>, x.bank)
  BY <1>1, EmptyPrefix
<1> QED BY <1>1, <1>2, SyncAssumption DEF Ahead

\* Content that is ahead, and is not of the same revision, is later.
LEMMA AheadIsLater ==
  ASSUME NEW x \in NoteRows, NEW y \in NoteRows, Ahead(x, y), ~SameRevision(y, x)
  PROVE  Earlier(y, x) /\ ~Earlier(x, y)
<1>1. /\ x.rev \in Nat /\ y.rev \in Nat /\ Len(x.bank) \in Nat /\ Len(y.bank) \in Nat
  BY NoteColumns
<1> QED BY <1>1 DEF Ahead, IsPrefix, SameRevision, Earlier

-----------------------------------------------------------------------------
(* Stamps and deletions.                                                     *)

LEMMA RowStamped ==
  ASSUME NEW x, NEW usn \in Int
  PROVE  /\ x \in NoteRows =>
              /\ [x EXCEPT !.usn = usn] \in NoteRows
              /\ [x EXCEPT !.usn = usn].rev = x.rev /\ [x EXCEPT !.usn = usn].bank = x.bank
              /\ [x EXCEPT !.usn = usn].text = x.text
         /\ x \in NativeRows => [x EXCEPT !.usn = usn] \in NativeRows
         /\ x \in NoteRows \union NativeRows =>
              [x EXCEPT !.usn = usn].mtime = x.mtime /\ [x EXCEPT !.usn = usn].usn = usn
  BY DEF NoteRows, NativeRows

LEMMA StampedTable ==
  ASSUME NEW T, NEW table, NEW set, NEW usn \in Int, \A o \in set \intersect T : table[o] # Gone
  PROVE  /\ table \in [T -> NoteRows \union {Gone}] =>
              Stamp(table, set, usn) \in [T -> NoteRows \union {Gone}]
         /\ table \in [T -> NativeRows \union {Gone}] =>
              Stamp(table, set, usn) \in [T -> NativeRows \union {Gone}]
         /\ DOMAIN table = T =>
              \A o \in T : Stamp(table, set, usn)[o] =
                IF o \in set THEN [table[o] EXCEPT !.usn = usn] ELSE table[o]
<1>1. ASSUME table \in [T -> NoteRows \union {Gone}]
      PROVE  Stamp(table, set, usn) \in [T -> NoteRows \union {Gone}]
  <2>1. \A o \in T : o \in set => [table[o] EXCEPT !.usn = usn] \in NoteRows
    BY <1>1, RowStamped
  <2> QED BY <1>1, <2>1 DEF Stamp
<1>2. ASSUME table \in [T -> NativeRows \union {Gone}]
      PROVE  Stamp(table, set, usn) \in [T -> NativeRows \union {Gone}]
  <2>1. \A o \in T : o \in set => [table[o] EXCEPT !.usn = usn] \in NativeRows
    BY <1>2, RowStamped
  <2> QED BY <1>2, <2>1 DEF Stamp
<1> QED BY <1>1, <1>2 DEF Stamp

LEMMA StampedOld ==
  ASSUME NEW T, NEW stamps \in [T -> Int \union {None}], NEW usn \in Int
  PROVE  /\ StampOld(stamps, usn) \in [T -> Int \union {None}]
         /\ \A o \in T : StampOld(stamps, usn)[o] = IF stamps[o] = -1 THEN usn ELSE stamps[o]
         /\ \A o \in T : StampOld(stamps, usn)[o] # None <=> stamps[o] # None
  BY SyncAssumption DEF StampOld

LEMMA RecordedFacts ==
  ASSUME NEW col \in Collections, NEW markers, NEW usn \in Int
  PROVE  /\ Recorded(col, markers, usn) \in Collections
         /\ Recorded(col, markers, usn) = [col EXCEPT !.marker = Recorded(col, markers, usn).marker]
  BY DEF Recorded, Collections

LEMMA RemovedFacts ==
  ASSUME NEW col \in Collections, NEW set, NEW usn \in Int
  PROVE  LET r == Removed(col, set, usn) IN
         /\ r \in Collections
         /\ r.mod = col.mod /\ r.scm = col.scm /\ r.usn = col.usn /\ r.conf = col.conf
         /\ r.ids = col.ids
         /\ \A o \in Objects : Row(r, o) = IF o \in set THEN Gone ELSE Row(col, o)
         /\ \A o \in Objects :
              r.grave[o] = IF o \in set /\ col.grave[o] = None THEN usn ELSE col.grave[o]
<1> DEFINE r == Removed(col, set, usn)
<1>1. r \in Collections
  BY DEF Removed, Collections
<1>2. /\ r.mod = col.mod /\ r.scm = col.scm /\ r.usn = col.usn /\ r.conf = col.conf
      /\ r.ids = col.ids
  BY DEF Removed, Collections
<1>3. /\ \A n \in Notes : r.note[n] = IF n \in set THEN Gone ELSE col.note[n]
      /\ \A k \in Cards : r.card[k] = IF k \in set THEN Gone ELSE col.card[k]
      /\ \A d \in Decks : r.deck[d] = IF d \in set THEN Gone ELSE col.deck[d]
  BY DEF Removed, Collections
<1>4. \A o \in Objects : r.grave[o] = IF o \in set /\ col.grave[o] = None THEN usn ELSE col.grave[o]
  BY DEF Removed, Collections
<1>5. \A o \in Objects : Row(r, o) = IF o \in set THEN Gone ELSE Row(col, o)
  <2> HIDE DEF r
  <2> QED BY <1>3 DEF Row, Objects
<1> QED BY <1>1, <1>2, <1>4, <1>5

\* Graves that arrive: what they take, and nothing else
LEMMA GravesApplied ==
  ASSUME NEW col \in Collections, NEW markers, NEW set, NEW usn \in Int,
         ApplyGraves(col, markers, set, usn) # Refused
  PROVE  LET r == ApplyGraves(col, markers, set, usn) IN
         /\ r \in Collections
         /\ r.mod = col.mod /\ r.scm = col.scm /\ r.usn = col.usn /\ r.conf = col.conf
         /\ r.ids = col.ids
         /\ \A o \in Objects : Row(r, o) = IF o \in set THEN Gone ELSE Row(col, o)
         /\ \A o \in Objects :
              r.grave[o] = IF o \in set /\ col.grave[o] = None THEN usn ELSE col.grave[o]
         /\ Graved(r) = Graved(col) \union (set \intersect Objects)
<1> DEFINE marked == Recorded(col, markers, usn)
           r == Removed(marked, set, usn)
<1>1. ApplyGraves(col, markers, set, usn) = r
  BY DEF ApplyGraves
<1>2. /\ marked \in Collections
      /\ marked.mod = col.mod /\ marked.scm = col.scm /\ marked.usn = col.usn
      /\ marked.conf = col.conf /\ marked.ids = col.ids /\ marked.grave = col.grave
      /\ marked.note = col.note /\ marked.card = col.card /\ marked.deck = col.deck
  BY DEF Recorded, Collections
<1>3. \A o \in Objects : Row(marked, o) = Row(col, o)
  BY <1>2 DEF Row
<1> HIDE DEF marked
<1>4. /\ r \in Collections
      /\ r.mod = col.mod /\ r.scm = col.scm /\ r.usn = col.usn /\ r.conf = col.conf
      /\ r.ids = col.ids
      /\ \A o \in Objects : Row(r, o) = IF o \in set THEN Gone ELSE Row(col, o)
      /\ \A o \in Objects : r.grave[o] = IF o \in set /\ col.grave[o] = None THEN usn ELSE col.grave[o]
  BY <1>2, <1>3, RemovedFacts
<1> HIDE DEF r
<1>5. Graved(r) = Graved(col) \union (set \intersect Objects)
  BY <1>4, SyncAssumption DEF Graved
<1> QED BY <1>1, <1>4, <1>5

\* Deleting takes nothing that has a grave already, and clears what it buries.
LEMMA RemovedIsSound ==
  ASSUME NEW col \in Collections, NEW r \in Collections, NEW set, Sound(col), r.ids = col.ids,
         \A o \in Objects : Row(r, o) = IF o \in set THEN Gone ELSE Row(col, o),
         Graved(r) \subseteq Graved(col) \union set
  PROVE  Sound(r)
<1>1. Clean(r)
  BY DEF Sound, Clean, Graved
<1>2. Plain(r)
  <2>1. \A n \in Notes : r.note[n] # Gone => r.note[n] = col.note[n]
    BY RowOf DEF Objects
  <2> QED BY <2>1 DEF Sound, Plain
<1> QED BY <1>1, <1>2 DEF Sound

-----------------------------------------------------------------------------
(* Merging one row.                                                          *)

\* What is kept of a note that neither side knows as a skill
PlainPair(ids, n, old, new) ==
  n \notin ids => /\ old.rev = 1 /\ old.bank = <<>> /\ new.rev = 1 /\ new.bank = <<>>
                  /\ old.mtime = new.mtime => old.text = new.text

LEMMA MergedSkillCases ==
  ASSUME NEW old \in NoteRows, NEW new \in NoteRows, NEW changed \in BOOLEAN,
         NEW newWins \in BOOLEAN, NEW own \in Int,
         MergedSkill(old, new, changed, newWins, own) # Refused
  PROVE  LET m == MergedSkill(old, new, changed, newWins, own) IN
         \/ /\ SameRevision(old, new) /\ (changed => Fields(old) = Fields(new))
            /\ m = IF newWins THEN new ELSE old
         \/ /\ ~SameRevision(old, new) /\ Earlier(new, old)
            /\ old.rev = new.rev => IsPrefix(new.bank, old.bank)
            /\ ~newWins => m = old
            /\ newWins => m \in NoteRows /\ m.mtime = new.mtime /\ m.usn = own
                          /\ m.rev = old.rev /\ m.bank = old.bank /\ m.text = old.text
         \/ /\ ~SameRevision(old, new) /\ ~Earlier(new, old)
            /\ old.rev = new.rev => IsPrefix(old.bank, new.bank)
            /\ newWins => m = new
            /\ ~newWins => m \in NoteRows /\ m.mtime = old.mtime /\ m.usn = own
                           /\ m.rev = new.rev /\ m.bank = new.bank /\ m.text = new.text
<1> DEFINE m == MergedSkill(old, new, changed, newWins, own)
<1>1. CASE SameRevision(old, new)
  BY <1>1 DEF MergedSkill
<1>2. ASSUME ~SameRevision(old, new)
      PROVE  old.rev = new.rev => Appends(old, new)
  BY <1>2 DEF MergedSkill
<1>3. ASSUME ~SameRevision(old, new), Earlier(new, old)
      PROVE  /\ old.rev = new.rev => IsPrefix(new.bank, old.bank)
             /\ ~newWins => m = old
             /\ newWins => m \in NoteRows /\ m.mtime = new.mtime /\ m.usn = own
                          /\ m.rev = old.rev /\ m.bank = old.bank /\ m.text = old.text
  <2>1. ~Earlier(old, new)
    <3>1. old.rev \in Nat /\ new.rev \in Nat /\ Len(old.bank) \in Nat /\ Len(new.bank) \in Nat
      BY NoteColumns
    <3> QED BY <1>3, <3>1 DEF Earlier
  <2>2. old.rev = new.rev => IsPrefix(new.bank, old.bank)
    BY <1>2, <1>3, <2>1 DEF Appends
  <2>3. ASSUME ~newWins PROVE m = old
    BY <1>3, <2>3, <1>2 DEF MergedSkill, NoteRows
  <2>4. ASSUME newWins
        PROVE  m = [new EXCEPT !.rev = old.rev, !.bank = old.bank, !.text = old.text, !.usn = own]
    BY <1>3, <2>4, <1>2 DEF MergedSkill
  <2> QED BY <2>2, <2>3, <2>4 DEF NoteRows
<1>4. ASSUME ~SameRevision(old, new), ~Earlier(new, old)
      PROVE  /\ old.rev = new.rev => IsPrefix(old.bank, new.bank)
             /\ newWins => m = new
             /\ ~newWins => m \in NoteRows /\ m.mtime = old.mtime /\ m.usn = own
                           /\ m.rev = new.rev /\ m.bank = new.bank /\ m.text = new.text
  <2>1. Earlier(old, new)
    <3>1. old.rev \in Nat /\ new.rev \in Nat /\ Len(old.bank) \in Nat /\ Len(new.bank) \in Nat
      BY NoteColumns
    <3> QED BY <1>4, <3>1 DEF Earlier, SameRevision
  <2>2. old.rev = new.rev => IsPrefix(old.bank, new.bank)
    BY <1>2, <1>4, <2>1 DEF Appends
  <2>3. ASSUME newWins PROVE m = new
    BY <1>4, <2>3, <1>2 DEF MergedSkill, NoteRows
  <2>4. ASSUME ~newWins
        PROVE  m = [old EXCEPT !.rev = new.rev, !.bank = new.bank, !.text = new.text, !.usn = own]
    <3>1. Earlier(new, old) = FALSE /\ newWins = FALSE
      BY <1>4, <2>4 DEF Earlier
    <3> QED BY <3>1, <1>4, <1>2 DEF MergedSkill
  <2> QED BY <2>2, <2>3, <2>4 DEF NoteRows
<1> QED BY <1>1, <1>3, <1>4

\* A device that takes a row keeps its place in what both sides wrote: the result
\* covers both, and only what arrived is settled.
LEMMA MergeOnDevice ==
  ASSUME NEW col, NEW n \in Notes, NEW new \in NoteRows, NEW old \in NoteRows,
         old = col.note[n], old # Gone,
         old.usn # -1 => Covers(n, new, old),
         n \notin col.ids => old.rev = 1 /\ old.bank = <<>> /\ new.rev = 1 /\ new.bank = <<>>,
         MergedNote(col, n, new, -1, -1) # Refused
  PROVE  LET m == MergedNote(col, n, new, -1, -1) IN
         /\ m \in NoteRows /\ Covers(n, m, old) /\ Covers(n, m, new)
         /\ m.usn # -1 => m = new
         /\ m.mtime = old.mtime \/ m.mtime = new.mtime
         /\ n \notin col.ids => m = old \/ m = new
<1> DEFINE m == MergedNote(col, n, new, -1, -1)
           changed == Pending(old.usn, -1)
           newWins == ~changed \/ old.mtime < new.mtime
<1>1. /\ changed <=> old.usn = -1
      /\ newWins <=> (old.usn # -1 \/ old.mtime < new.mtime)
  BY DEF Pending
<1>2. /\ old.mtime \in Nat /\ new.mtime \in Nat /\ old.usn \in Int /\ old.rev \in Nat /\ new.rev \in Nat
      /\ old.bank \in Seq(Batches) /\ new.bank \in Seq(Batches)
  BY NoteColumns
<1>3. CASE n \notin col.ids
  <2>1. m = IF newWins THEN new ELSE old
    BY <1>3 DEF MergedNote
  <2>2. Ahead(old, new) /\ Ahead(new, old) /\ Ahead(old, old) /\ Ahead(new, new)
    BY <1>3, PlainBehind
  <2> QED BY <2>1, <2>2, <1>1, <1>2, <1>3 DEF Covers
<1>4. CASE n \in col.ids
  <2>1. m = MergedSkill(old, new, changed, newWins, -1)
    BY <1>4 DEF MergedNote
  <2>2. MergedSkill(old, new, changed, newWins, -1) # Refused
    BY <2>1
  <2>3. changed \in BOOLEAN /\ newWins \in BOOLEAN
    BY DEF Pending
  <2>4. Ahead(old, old) /\ Ahead(new, new)
    BY AheadReflexive
  <2> HIDE DEF changed, newWins
  <2>5. \/ /\ SameRevision(old, new) /\ (changed => Fields(old) = Fields(new))
           /\ m = IF newWins THEN new ELSE old
        \/ /\ ~SameRevision(old, new) /\ Earlier(new, old)
           /\ old.rev = new.rev => IsPrefix(new.bank, old.bank)
           /\ ~newWins => m = old
           /\ newWins => m \in NoteRows /\ m.mtime = new.mtime /\ m.usn = -1
                         /\ m.rev = old.rev /\ m.bank = old.bank /\ m.text = old.text
        \/ /\ ~SameRevision(old, new) /\ ~Earlier(new, old)
           /\ old.rev = new.rev => IsPrefix(old.bank, new.bank)
           /\ newWins => m = new
           /\ ~newWins => m \in NoteRows /\ m.mtime = old.mtime /\ m.usn = -1
                          /\ m.rev = new.rev /\ m.bank = new.bank /\ m.text = new.text
    BY <2>1, <2>2, <2>3, MergedSkillCases, -1 \in Int
  <2>6. ASSUME SameRevision(old, new), changed => Fields(old) = Fields(new),
               m = IF newWins THEN new ELSE old
        PROVE  m \in NoteRows /\ Covers(n, m, old) /\ Covers(n, m, new) /\ (m.usn # -1 => m = new)
    <3>1. CASE changed
      <4>1. old.rev = new.rev /\ old.bank = new.bank
        BY <3>1, <2>6 DEF Fields
      <4>2. Ahead(new, old) /\ Ahead(old, new)
        BY <4>1, <2>4 DEF Ahead
      <4> QED BY <4>2, <3>1, <2>6, <2>4, <1>1, <1>2 DEF Covers
    <3>2. CASE ~changed
      BY <3>2, <2>6, <2>4, <1>1, <1>2 DEF Covers
    <3> QED BY <3>1, <3>2
  <2>7. ASSUME ~SameRevision(old, new), Earlier(new, old),
               old.rev = new.rev => IsPrefix(new.bank, old.bank), ~newWins => m = old,
               newWins => m \in NoteRows /\ m.mtime = new.mtime /\ m.usn = -1
                          /\ m.rev = old.rev /\ m.bank = old.bank /\ m.text = old.text
        PROVE  m \in NoteRows /\ Covers(n, m, old) /\ Covers(n, m, new) /\ (m.usn # -1 => m = new)
    <3>1. Ahead(old, new)
      BY <2>7, <1>2 DEF Earlier, Ahead
    <3>2. old.usn = -1
      <4>1. ASSUME old.usn # -1 PROVE FALSE
        <5>1. Ahead(new, old)
          BY <4>1 DEF Covers
        <5> QED BY <5>1, <2>7, AheadIsLater
      <4> QED BY <4>1
    <3>3. m.rev = old.rev /\ m.bank = old.bank
      BY <2>7
    <3>4. Ahead(m, old) /\ Ahead(m, new)
      BY <3>1, <3>3, <2>4 DEF Ahead
    <3> QED BY <3>2, <3>4, <2>7, <1>1, <1>2 DEF Covers
  <2>8. ASSUME ~SameRevision(old, new), ~Earlier(new, old),
               old.rev = new.rev => IsPrefix(old.bank, new.bank), newWins => m = new,
               ~newWins => m \in NoteRows /\ m.mtime = old.mtime /\ m.usn = -1
                           /\ m.rev = new.rev /\ m.bank = new.bank /\ m.text = new.text
        PROVE  m \in NoteRows /\ Covers(n, m, old) /\ Covers(n, m, new) /\ (m.usn # -1 => m = new)
    <3>1. Ahead(new, old)
      <4>1. Len(old.bank) \in Nat /\ Len(new.bank) \in Nat
        BY NoteColumns
      <4> QED BY <4>1, <2>8, <1>2 DEF Earlier, Ahead, SameRevision
    <3>2. m.rev = new.rev /\ m.bank = new.bank
      BY <2>8
    <3>3. Ahead(m, old) /\ Ahead(m, new)
      BY <3>1, <3>2, <2>4 DEF Ahead
    <3> QED BY <3>3, <2>8, <1>1, <1>2 DEF Covers
  <2>9. m \in NoteRows /\ Covers(n, m, old) /\ Covers(n, m, new) /\ (m.usn # -1 => m = new)
    BY <2>5, <2>6, <2>7, <2>8
  <2>10. m.mtime = old.mtime \/ m.mtime = new.mtime
    BY <2>5
  <2> QED BY <2>9, <2>10, <1>4
<1> QED BY <1>3, <1>4

\* The server, which the device has caught up with, ends with the device's row.
LEMMA MergeOnServer ==
  ASSUME NEW col, NEW n \in Notes, NEW new \in NoteRows, NEW old \in NoteRows,
         old = col.note[n], old # Gone, NEW since \in Nat, NEW own \in Nat,
         Covers(n, new, old), PlainPair(col.ids, n, old, new),
         MergedNote(col, n, new, since, own) # Refused
  PROVE  LET m == MergedNote(col, n, new, since, own) IN
         /\ m \in NoteRows /\ SameRow(n, m, new)
         /\ m = old \/ m.usn = new.usn \/ m.usn = own
         /\ n \notin col.ids => m = old \/ m = new
<1> DEFINE m == MergedNote(col, n, new, since, own)
           changed == Pending(old.usn, since)
           newWins == ~changed \/ old.mtime < new.mtime
<1>1. changed \in BOOLEAN /\ newWins \in BOOLEAN
  <2>1. changed = TRUE \/ changed = FALSE
    BY SMT DEF Pending
  <2> HIDE DEF changed
  <2> QED BY <2>1
<1>2. /\ old.mtime \in Nat /\ new.mtime \in Nat /\ old.rev \in Nat /\ new.rev \in Nat
      /\ old.bank \in Seq(Batches) /\ new.bank \in Seq(Batches)
      /\ Len(old.bank) \in Nat /\ Len(new.bank) \in Nat
  BY NoteColumns
<1>3. ~newWins => old.mtime = new.mtime
  BY <1>2 DEF Covers
<1>4. Ahead(new, old)
  BY DEF Covers
<1>5. CASE n \notin col.ids
  <2>1. m = IF newWins THEN new ELSE old
    BY <1>5 DEF MergedNote
  <2> QED BY <2>1, <1>3, <1>5 DEF SameRow, Fields, PlainPair
<1>6. CASE n \in col.ids
  <2>1. m = MergedSkill(old, new, changed, newWins, own)
    BY <1>6 DEF MergedNote
  <2>2. MergedSkill(old, new, changed, newWins, own) # Refused
    BY <2>1
  <2>3. old.rev # new.rev \/ Len(old.bank) # Len(new.bank) => ~Earlier(new, old)
    BY <1>4, AheadIsLater DEF SameRevision
  <2> HIDE DEF changed
  <2>4. \/ /\ SameRevision(old, new) /\ (changed => Fields(old) = Fields(new))
           /\ m = IF newWins THEN new ELSE old
        \/ ~SameRevision(old, new) /\ Earlier(new, old)
        \/ /\ ~SameRevision(old, new) /\ ~Earlier(new, old)
           /\ newWins => m = new
           /\ ~newWins => m \in NoteRows /\ m.mtime = old.mtime /\ m.usn = own
                          /\ m.rev = new.rev /\ m.bank = new.bank /\ m.text = new.text
    <3> HIDE DEF newWins
    <3> QED BY <2>1, <2>2, <1>1, MergedSkillCases, own \in Int
  <2>5. ASSUME SameRevision(old, new), changed => Fields(old) = Fields(new),
               m = IF newWins THEN new ELSE old
        PROVE  m \in NoteRows /\ SameRow(n, m, new) /\ (m = old \/ m.usn = new.usn \/ m.usn = own)
    BY <2>5, <1>3, <1>1 DEF SameRow
  <2>6. ~(~SameRevision(old, new) /\ Earlier(new, old))
    BY <2>3 DEF SameRevision
  <2>7. ASSUME newWins => m = new,
               ~newWins => m \in NoteRows /\ m.mtime = old.mtime /\ m.usn = own
                           /\ m.rev = new.rev /\ m.bank = new.bank /\ m.text = new.text
        PROVE  m \in NoteRows /\ SameRow(n, m, new) /\ (m = old \/ m.usn = new.usn \/ m.usn = own)
    BY <2>7, <1>3, <1>1 DEF SameRow, Fields
  <2>8. m \in NoteRows /\ SameRow(n, m, new) /\ (m = old \/ m.usn = new.usn \/ m.usn = own)
    BY <2>4, <2>5, <2>6, <2>7
  <2> QED BY <2>8, <1>6
<1> QED BY <1>5, <1>6

-----------------------------------------------------------------------------
(* Chunks.                                                                   *)

LEMMA ChunkIdsArePending ==
  ASSUME NEW col \in Collections, NEW since
  PROVE  \A o : o \in ChunkIds(col, since) <=>
                  o \in Notes \union Cards /\ Present(col, o) /\ Pending(Row(col, o).usn, since)
<1>1. \A n \in Notes : n \in PendingRows(col.note, since) <=>
                         Present(col, n) /\ Pending(Row(col, n).usn, since)
  BY RowOf, CollectionTables DEF PendingRows, Present
<1>2. \A k \in Cards : k \in PendingRows(col.card, since) <=>
                         Present(col, k) /\ Pending(Row(col, k).usn, since)
  BY RowOf, CollectionTables DEF PendingRows, Present
<1>3. PendingRows(col.note, since) \subseteq Notes /\ PendingRows(col.card, since) \subseteq Cards
  BY CollectionTables DEF PendingRows
<1> QED BY <1>1, <1>2, <1>3, SyncAssumption DEF ChunkIds

Known(col, src, part) == [col EXCEPT !.ids = @ \union (part \intersect src.ids)]

\* What a chunk changes, row by row
LEMMA ChunkApplied ==
  ASSUME NEW col \in Collections, NEW src \in Collections, NEW part, NEW since, NEW own \in Int,
         part \subseteq Notes \union Cards, \A o \in part : Present(src, o),
         ApplyChunk(col, Chunk(src, part), since, own) # Refused,
         \A n \in part \intersect Notes :
           LET m == MergedNote(Known(col, src, part), n, src.note[n], since, own) IN
           m # Refused => m \in NoteRows
  PROVE  LET r == ApplyChunk(col, Chunk(src, part), since, own) IN
         /\ r \in Collections
         /\ r.scm = col.scm /\ r.usn = col.usn /\ r.conf = col.conf /\ r.mod = col.mod
         /\ r.grave = col.grave /\ r.marker = col.marker /\ r.deck = col.deck
         /\ r.ids = col.ids \union (part \intersect src.ids)
         /\ \A o \in Objects \ part : Row(r, o) = Row(col, o)
         /\ \A n \in part \intersect Notes :
              LET m == MergedNote(Known(col, src, part), n, src.note[n], since, own) IN
              m \in NoteRows /\ m # Refused /\ (r.note[n] = m \/ r.note[n] = [m EXCEPT !.usn = own])
         /\ \A k \in part \intersect Cards : r.card[k] = MergedCard(col.card[k], src.card[k], since)
<1> DEFINE chunk == Chunk(src, part)
           r == ApplyChunk(col, chunk, since, own)
           known == Known(col, src, part)
           M(n) == MergedNote(known, n, src.note[n], since, own)
           merged == [n \in Notes |-> IF n \in part \intersect Notes THEN M(n) ELSE col.note[n]]
           resend == IF own = -1
                     THEN (part \intersect Notes \intersect col.ids) \ (part \intersect src.ids)
                     ELSE (part \intersect src.ids) \ col.ids
           cards == [k \in Cards |-> IF k \in part \intersect Cards
                                     THEN MergedCard(col.card[k], src.card[k], since) ELSE col.card[k]]
<1>1. /\ chunk.note = [n \in part \intersect Notes |-> src.note[n]]
      /\ chunk.card = [k \in part \intersect Cards |-> src.card[k]]
      /\ chunk.ids = part \intersect src.ids
      /\ DOMAIN chunk.note = part \intersect Notes /\ DOMAIN chunk.card = part \intersect Cards
  BY DEF Chunk, Rows
<1>2. /\ [n \in Notes |-> IF n \in DOMAIN chunk.note
                          THEN MergedNote([col EXCEPT !.ids = @ \union chunk.ids], n,
                                          chunk.note[n], since, own)
                          ELSE col.note[n]] = merged
      /\ [k \in Cards |-> IF k \in DOMAIN chunk.card
                          THEN MergedCard(col.card[k], chunk.card[k], since)
                          ELSE col.card[k]] = cards
      /\ (IF own = -1 THEN (DOMAIN chunk.note \intersect col.ids) \ chunk.ids
                      ELSE chunk.ids \ col.ids) = resend
      /\ [col EXCEPT !.ids = @ \union chunk.ids] = known
  BY <1>1, Zenon DEF Known
<1>3. /\ \A n \in Notes : merged[n] # Refused
      /\ r = [known EXCEPT !.note = Stamp(merged, resend, own), !.card = cards]
  <2> HIDE DEF chunk, merged, cards, resend, known
  <2>1. ApplyChunk(col, chunk, since, own) =
          IF \E n \in Notes : merged[n] = Refused THEN Refused
          ELSE [known EXCEPT !.note = Stamp(merged, resend, own),
                             !.card = [k \in Cards |-> IF k \in DOMAIN chunk.card
                                         THEN MergedCard(known.card[k], chunk.card[k], since)
                                         ELSE known.card[k]]]
    BY <1>2 DEF ApplyChunk
  <2>2. known.card = col.card
    BY DEF known, Known, Collections
  <2>3. [k \in Cards |-> IF k \in DOMAIN chunk.card
                          THEN MergedCard(known.card[k], chunk.card[k], since)
                          ELSE known.card[k]] = cards
    BY <2>2, <1>2
  <2>4. r = IF \E n \in Notes : merged[n] = Refused THEN Refused
            ELSE [known EXCEPT !.note = Stamp(merged, resend, own), !.card = cards]
    BY <2>1, <2>3, Zenon
  <2>5. r # Refused
    BY DEF chunk
  <2> HIDE DEF r
  <2> QED BY <2>4, <2>5, Zenon
<1>4. \A n \in part \intersect Notes : M(n) \in NoteRows /\ M(n) # Refused
  BY <1>3
<1> HIDE DEF M
<1>5. merged \in [Notes -> NoteRows \union {Gone}]
  BY <1>4, CollectionTables
<1>6. resend \subseteq part \intersect Notes
  BY CollectionTables
<1>7. \A n \in resend \intersect Notes : merged[n] # Gone
  BY <1>4, <1>6, SyncAssumption
<1>8. /\ Stamp(merged, resend, own) \in [Notes -> NoteRows \union {Gone}]
      /\ \A n \in Notes : Stamp(merged, resend, own)[n] =
           IF n \in resend THEN [merged[n] EXCEPT !.usn = own] ELSE merged[n]
  <2> HIDE DEF merged, resend
  <2>1. DOMAIN merged = Notes
    BY <1>5
  <2>2. own \in Int
    OBVIOUS
  <2>3. Stamp(merged, resend, own) \in [Notes -> NoteRows \union {Gone}]
    BY <2>2, <1>5, <1>7, StampedTable, Zenon
  <2>4. \A n \in Notes : Stamp(merged, resend, own)[n] =
           IF n \in resend THEN [merged[n] EXCEPT !.usn = own] ELSE merged[n]
    BY <2>1 DEF Stamp
  <2> QED BY <2>3, <2>4
<1>9. cards \in [Cards -> NativeRows \union {Gone}]
  <2>1. \A k \in part \intersect Cards : src.card[k] \in NativeRows /\ col.card[k] \in NativeRows \union {Gone}
    BY CollectionTables, RowOf DEF Present
  <2> QED BY <2>1, CollectionTables DEF MergedCard
<1>10. known \in Collections /\ known = [col EXCEPT !.ids = @ \union (part \intersect src.ids)]
  BY CollectionTables DEF Known, Collections
<1>11. /\ r \in Collections
       /\ r.scm = col.scm /\ r.usn = col.usn /\ r.conf = col.conf /\ r.mod = col.mod
       /\ r.grave = col.grave /\ r.marker = col.marker /\ r.deck = col.deck
       /\ r.ids = col.ids \union (part \intersect src.ids)
       /\ r.note = Stamp(merged, resend, own) /\ r.card = cards
  <2> HIDE DEF r, known, merged, resend, cards
  <2> QED BY <1>3, <1>8, <1>9, <1>10 DEF Collections
<1>12. \A n \in part \intersect Notes : r.note[n] = M(n) \/ r.note[n] = [M(n) EXCEPT !.usn = own]
  <2> HIDE DEF r
  <2> QED BY <1>8, <1>11
<1>13. \A o \in Objects \ part : Row(r, o) = Row(col, o)
  <2> HIDE DEF r
  <2>1. \A n \in Notes \ part : r.note[n] = col.note[n]
    BY <1>6, <1>8, <1>11
  <2>2. \A k \in Cards \ part : r.card[k] = col.card[k]
    BY <1>11
  <2> QED BY <2>1, <2>2, <1>11 DEF Row, Objects
<1>14. \A k \in part \intersect Cards : r.card[k] = MergedCard(col.card[k], src.card[k], since)
  <2> HIDE DEF r
  <2> QED BY <1>11
<1> QED BY <1>4, <1>11, <1>12, <1>13, <1>14 DEF M

LEMMA MergedCardCases ==
  ASSUME NEW old \in NativeRows \union {Gone}, NEW new \in NativeRows, NEW since \in Int
  PROVE  LET m == MergedCard(old, new, since) IN
         /\ m \in NativeRows /\ (old = Gone => m = new) /\ (m = old \/ m = new)
         /\ m # new => Pending(old.usn, since) /\ old.mtime >= new.mtime
  BY SyncAssumption DEF MergedCard

\* A note that arrives where there was none is taken as it is.
LEMMA MergedNoteNew ==
  ASSUME NEW col, NEW n, NEW new, NEW since, NEW own, col.note[n] = Gone
  PROVE  MergedNote(col, n, new, since, own) = new
  BY DEF MergedNote

LEMMA KnownFields ==
  ASSUME NEW col \in Collections, NEW src, NEW part
  PROVE  /\ Known(col, src, part).note = col.note
         /\ Known(col, src, part).ids = col.ids \union (part \intersect src.ids)
  BY DEF Known, Collections

\* What a device has after it took a chunk of the server's rows
LEMMA ChunkOnDevice ==
  ASSUME NEW col \in Collections, NEW src \in Collections, NEW part,
         part \subseteq Notes \union Cards, \A o \in part : Present(src, o),
         ApplyChunk(col, Chunk(src, part), -1, -1) # Refused,
         Sound(col), Plain(src), part \intersect Graved(col) = {},
         \A o \in part : Settled(col, o) => Covers(o, Row(src, o), Row(col, o))
  PROVE  LET r == ApplyChunk(col, Chunk(src, part), -1, -1) IN
         /\ r \in Collections
         /\ r.scm = col.scm /\ r.usn = col.usn /\ r.conf = col.conf /\ r.mod = col.mod
         /\ r.grave = col.grave
         /\ Sound(r) /\ TakenFrom(r, col, src)
         /\ \A o \in Objects \ part : Row(r, o) = Row(col, o)
         /\ \A o \in part :
              /\ Present(r, o) /\ Covers(o, Row(r, o), Row(src, o))
              /\ Present(col, o) => Covers(o, Row(r, o), Row(col, o))
              /\ Settled(r, o) => SameRow(o, Row(r, o), Row(src, o))
              /\ \/ Row(r, o).mtime = Row(src, o).mtime
                 \/ Present(col, o) /\ Row(r, o).mtime = Row(col, o).mtime
<1> DEFINE r == ApplyChunk(col, Chunk(src, part), -1, -1)
           known == Known(col, src, part)
           M(n) == MergedNote(known, n, src.note[n], -1, -1)
<1>0. -1 \in Int
  OBVIOUS
<1>1. \A n \in part \intersect Notes : src.note[n] \in NoteRows
  BY CollectionTables, RowOf DEF Present
<1>2. known.note = col.note /\ known.ids = col.ids \union (part \intersect src.ids)
  BY KnownFields
<1> HIDE DEF known
<1>3. \A n \in part \intersect Notes : n \notin known.ids =>
        /\ src.note[n].rev = 1 /\ src.note[n].bank = <<>>
        /\ col.note[n] # Gone => col.note[n].rev = 1 /\ col.note[n].bank = <<>>
  BY <1>1, <1>2, SyncAssumption DEF Sound, Plain
<1>4. ASSUME NEW n \in part \intersect Notes, M(n) # Refused
      PROVE  /\ M(n) \in NoteRows /\ Covers(n, M(n), src.note[n])
             /\ col.note[n] # Gone => Covers(n, M(n), col.note[n])
             /\ M(n).usn # -1 => M(n) = src.note[n]
             /\ M(n).mtime = src.note[n].mtime \/ (M(n).mtime = col.note[n].mtime /\ col.note[n] # Gone)
             /\ n \notin known.ids => M(n) = src.note[n] \/ (M(n) = col.note[n] /\ col.note[n] # Gone)
  <2>1. CASE col.note[n] = Gone
    <3>1. M(n) = src.note[n]
      BY <2>1, <1>2, MergedNoteNew
    <3> QED BY <2>1, <3>1, <1>1, NoteColumns, AheadReflexive DEF Covers
  <2>2. CASE col.note[n] # Gone
    <3>1. col.note[n] \in NoteRows
      BY <2>2, CollectionTables
    <3>2. col.note[n].usn # -1 => Covers(n, src.note[n], col.note[n])
      BY <2>2, RowOf DEF Settled, Present
    <3> QED BY <3>1, <3>2, <2>2, <1>1, <1>2, <1>3, <1>4, MergeOnDevice
  <2> QED BY <2>1, <2>2
<1>5. \A n \in part \intersect Notes : M(n) # Refused => M(n) \in NoteRows
  BY <1>4
<1> HIDE DEF M
<1>6. /\ r \in Collections
      /\ r.scm = col.scm /\ r.usn = col.usn /\ r.conf = col.conf /\ r.mod = col.mod
      /\ r.grave = col.grave /\ r.ids = known.ids
      /\ \A o \in Objects \ part : Row(r, o) = Row(col, o)
      /\ \A n \in part \intersect Notes :
           M(n) \in NoteRows /\ M(n) # Refused /\ (r.note[n] = M(n) \/ r.note[n] = [M(n) EXCEPT !.usn = -1])
      /\ \A k \in part \intersect Cards : r.card[k] = MergedCard(col.card[k], src.card[k], -1)
  BY <1>0, <1>2, <1>5, ChunkApplied DEF M, known
<1> HIDE DEF r
<1>7. ASSUME NEW n \in part \intersect Notes
      PROVE  /\ r.note[n] \in NoteRows /\ r.note[n] # Gone
             /\ r.note[n].mtime = M(n).mtime /\ r.note[n].text = M(n).text
             /\ r.note[n].rev = M(n).rev /\ r.note[n].bank = M(n).bank
             /\ r.note[n].usn # -1 => r.note[n] = M(n)
  <2>1. M(n) \in NoteRows /\ (r.note[n] = M(n) \/ r.note[n] = [M(n) EXCEPT !.usn = -1])
    BY <1>6
  <2>2. /\ [M(n) EXCEPT !.usn = -1] \in NoteRows /\ [M(n) EXCEPT !.usn = -1].usn = -1
        /\ [M(n) EXCEPT !.usn = -1].mtime = M(n).mtime /\ [M(n) EXCEPT !.usn = -1].text = M(n).text
        /\ [M(n) EXCEPT !.usn = -1].rev = M(n).rev /\ [M(n) EXCEPT !.usn = -1].bank = M(n).bank
    BY <2>1, <1>0, RowStamped
  <2> QED BY <2>1, <2>2, SyncAssumption
<1>8. ASSUME NEW o \in part
      PROVE  /\ Present(r, o) /\ Covers(o, Row(r, o), Row(src, o))
             /\ Present(col, o) => Covers(o, Row(r, o), Row(col, o))
             /\ Settled(r, o) => SameRow(o, Row(r, o), Row(src, o))
             /\ \/ Row(r, o).mtime = Row(src, o).mtime
                \/ Present(col, o) /\ Row(r, o).mtime = Row(col, o).mtime
  <2>1. CASE o \in Notes
    <3>1. Row(r, o) = r.note[o] /\ Row(col, o) = col.note[o] /\ Row(src, o) = src.note[o]
      BY <2>1, RowOf
    <3>2. /\ Covers(o, M(o), src.note[o])
          /\ col.note[o] # Gone => Covers(o, M(o), col.note[o])
          /\ M(o).usn # -1 => M(o) = src.note[o]
          /\ M(o).mtime = src.note[o].mtime \/ (M(o).mtime = col.note[o].mtime /\ col.note[o] # Gone)
      BY <2>1, <1>4, <1>6
    <3> QED BY <3>1, <3>2, <2>1, <1>7 DEF Present, Settled, Covers, Ahead, SameRow
  <2>2. CASE o \in Cards
    <3>1. /\ Row(r, o) = r.card[o] /\ Row(col, o) = col.card[o] /\ Row(src, o) = src.card[o]
          /\ o \notin Notes
      BY <2>2, RowOf, SyncAssumption
    <3>2. src.card[o] \in NativeRows /\ col.card[o] \in NativeRows \union {Gone}
      BY <2>2, <3>1, CollectionTables DEF Present
    <3>3. /\ r.card[o] \in NativeRows /\ (col.card[o] = Gone => r.card[o] = src.card[o])
          /\ (r.card[o] = col.card[o] \/ r.card[o] = src.card[o])
          /\ r.card[o] # src.card[o] => col.card[o].usn = -1 /\ col.card[o].mtime >= src.card[o].mtime
      BY <2>2, <3>2, <1>0, <1>6, MergedCardCases DEF Pending
    <3>4. Settled(col, o) => col.card[o].mtime <= src.card[o].mtime
      BY <3>1 DEF Covers
    <3>5. r.card[o] # Gone /\ src.card[o].mtime \in Nat /\ (col.card[o] # Gone => col.card[o].mtime \in Nat)
      BY <3>2, <3>3, SyncAssumption DEF NativeRows
    <3>6. ASSUME r.card[o] = src.card[o], col.card[o] # Gone
          PROVE  Covers(o, Row(r, o), Row(col, o))
      <4>1. CASE Settled(col, o)
        BY <4>1, <3>1, <3>4, <3>6 DEF Covers
      <4>2. CASE ~Settled(col, o)
        <5>1. col.card[o].usn = -1
          BY <4>2, <3>1, <3>6 DEF Settled, Present
        <5>2. r.card[o] = col.card[o] \/ col.card[o].mtime < src.card[o].mtime
          <6>1. Pending(col.card[o].usn, -1)
            BY <5>1 DEF Pending
          <6> QED BY <6>1, <3>5, <3>6, <2>2, <1>6 DEF MergedCard
        <5> QED BY <5>2, <3>1, <3>5, <3>6 DEF Covers
      <4> QED BY <4>1, <4>2
    <3> QED BY <3>1, <3>3, <3>5, <3>6 DEF Present, Settled, Covers, SameRow
  <2> QED BY <2>1, <2>2
<1>9. Graved(r) = Graved(col)
  BY <1>6 DEF Graved
<1>10. Clean(r)
  BY <1>6, <1>9 DEF Sound, Clean, Graved
<1>11. ASSUME NEW n \in Notes \ r.ids, r.note[n] # Gone
       PROVE  /\ r.note[n].rev = 1 /\ r.note[n].bank = <<>>
              /\ SameNote(r, col, n) \/ SameNote(r, src, n)
  <2>1. n \notin col.ids /\ (n \in part => n \notin src.ids)
    BY <1>2, <1>6
  <2>2. CASE n \notin part
    <3>1. r.note[n] = col.note[n]
      BY <2>2, <1>6, RowOf DEF Objects
    <3> QED BY <3>1, <2>1, <1>11 DEF Sound, Plain, SameNote
  <2>3. CASE n \in part
    <3>1. M(n) = src.note[n] \/ (M(n) = col.note[n] /\ col.note[n] # Gone)
      BY <2>3, <1>4, <1>6, <1>11
    <3>2. src.note[n] # Gone
      BY <2>3, <1>1, SyncAssumption
    <3> QED BY <3>1, <3>2, <2>1, <2>3, <1>3, <1>6, <1>7, <1>11 DEF SameNote
  <2> QED BY <2>2, <2>3
<1>12. Sound(r) /\ TakenFrom(r, col, src)
  BY <1>10, <1>11 DEF Sound, Plain, TakenFrom
<1> QED BY <1>6, <1>8, <1>12 DEF r

\* What the server has after it took a chunk of a device that has caught up with it
LEMMA ChunkOnServer ==
  ASSUME NEW col \in Collections, NEW src \in Collections, NEW part,
         NEW since \in Nat, NEW own \in Nat,
         part \subseteq Notes \union Cards, \A o \in part : Present(src, o),
         ApplyChunk(col, Chunk(src, part), since, own) # Refused,
         Sound(col), Plain(src), part \intersect Graved(col) = {}, OneText(col, src),
         \A o \in part : Present(col, o) => Covers(o, Row(src, o), Row(col, o))
  PROVE  LET r == ApplyChunk(col, Chunk(src, part), since, own) IN
         /\ r \in Collections
         /\ r.scm = col.scm /\ r.usn = col.usn /\ r.conf = col.conf /\ r.mod = col.mod
         /\ r.grave = col.grave
         /\ Sound(r) /\ TakenFrom(r, col, src)
         /\ \A o \in Objects \ part : Row(r, o) = Row(col, o)
         /\ \A o \in part :
              /\ Present(r, o) /\ SameRow(o, Row(r, o), Row(src, o))
              /\ Row(r, o) = Row(col, o) \/ Row(r, o).usn = Row(src, o).usn \/ Row(r, o).usn = own
<1> DEFINE r == ApplyChunk(col, Chunk(src, part), since, own)
           known == Known(col, src, part)
           M(n) == MergedNote(known, n, src.note[n], since, own)
<1>0. own \in Int /\ since \in Int
  OBVIOUS
<1>1. \A n \in part \intersect Notes : src.note[n] \in NoteRows
  BY CollectionTables, RowOf DEF Present
<1>2. known.note = col.note /\ known.ids = col.ids \union (part \intersect src.ids)
  BY KnownFields
<1> HIDE DEF known
<1>3. \A n \in part \intersect Notes : n \notin known.ids /\ col.note[n] # Gone =>
        PlainPair(known.ids, n, col.note[n], src.note[n])
  BY <1>1, <1>2, SyncAssumption DEF Sound, Plain, OneText, PlainPair
<1>4. ASSUME NEW n \in part \intersect Notes, M(n) # Refused
      PROVE  /\ M(n) \in NoteRows /\ SameRow(n, M(n), src.note[n])
             /\ (M(n) = col.note[n] /\ col.note[n] # Gone) \/ M(n).usn = src.note[n].usn \/ M(n).usn = own
             /\ n \notin known.ids => M(n) = src.note[n] \/ (M(n) = col.note[n] /\ col.note[n] # Gone)
  <2>1. CASE col.note[n] = Gone
    <3>1. M(n) = src.note[n]
      BY <2>1, <1>2, MergedNoteNew
    <3> QED BY <2>1, <3>1, <1>1 DEF SameRow
  <2>2. CASE col.note[n] # Gone
    <3>1. col.note[n] \in NoteRows
      BY <2>2, CollectionTables
    <3>2. Covers(n, src.note[n], col.note[n])
      BY <2>2, RowOf DEF Present
    <3>3. PlainPair(known.ids, n, col.note[n], src.note[n])
      BY <2>2, <1>3 DEF PlainPair
    <3> DEFINE old == col.note[n]
               new == src.note[n]
    <3>4. /\ n \in Notes /\ new \in NoteRows /\ old \in NoteRows /\ old = known.note[n] /\ old # Gone
          /\ MergedNote(known, n, new, since, own) # Refused
          /\ Covers(n, new, old) /\ PlainPair(known.ids, n, old, new)
      BY <3>1, <3>2, <3>3, <2>2, <1>1, <1>2, <1>4
    <3>6. M(n) = MergedNote(known, n, new, since, own)
      OBVIOUS
    <3> HIDE DEF old, new, M
    <3>7. /\ M(n) \in NoteRows /\ SameRow(n, M(n), new)
          /\ M(n) = old \/ M(n).usn = new.usn \/ M(n).usn = own
          /\ n \notin known.ids => M(n) = old \/ M(n) = new
      BY <3>4, <3>6, MergeOnServer
    <3>5. /\ M(n) \in NoteRows /\ SameRow(n, M(n), src.note[n])
          /\ M(n) = col.note[n] \/ M(n).usn = src.note[n].usn \/ M(n).usn = own
          /\ n \notin known.ids => M(n) = col.note[n] \/ M(n) = src.note[n]
      BY <3>7 DEF old, new
    <3> QED BY <3>5, <2>2
  <2> QED BY <2>1, <2>2
<1>5. \A n \in part \intersect Notes : M(n) # Refused => M(n) \in NoteRows
  BY <1>4
<1> HIDE DEF M
<1>6. /\ r \in Collections
      /\ r.scm = col.scm /\ r.usn = col.usn /\ r.conf = col.conf /\ r.mod = col.mod
      /\ r.grave = col.grave /\ r.ids = known.ids
      /\ \A o \in Objects \ part : Row(r, o) = Row(col, o)
      /\ \A n \in part \intersect Notes :
           M(n) \in NoteRows /\ M(n) # Refused /\ (r.note[n] = M(n) \/ r.note[n] = [M(n) EXCEPT !.usn = own])
      /\ \A k \in part \intersect Cards : r.card[k] = MergedCard(col.card[k], src.card[k], since)
  BY <1>0, <1>2, <1>5, ChunkApplied DEF M, known
<1> HIDE DEF r
<1>7. ASSUME NEW n \in part \intersect Notes
      PROVE  /\ r.note[n] \in NoteRows /\ r.note[n] # Gone
             /\ r.note[n].mtime = M(n).mtime /\ r.note[n].text = M(n).text
             /\ r.note[n].rev = M(n).rev /\ r.note[n].bank = M(n).bank
             /\ r.note[n] = M(n) \/ r.note[n].usn = own
  <2>1. M(n) \in NoteRows /\ (r.note[n] = M(n) \/ r.note[n] = [M(n) EXCEPT !.usn = own])
    BY <1>6
  <2>2. /\ [M(n) EXCEPT !.usn = own] \in NoteRows /\ [M(n) EXCEPT !.usn = own].usn = own
        /\ [M(n) EXCEPT !.usn = own].mtime = M(n).mtime /\ [M(n) EXCEPT !.usn = own].text = M(n).text
        /\ [M(n) EXCEPT !.usn = own].rev = M(n).rev /\ [M(n) EXCEPT !.usn = own].bank = M(n).bank
    BY <2>1, <1>0, RowStamped
  <2> QED BY <2>1, <2>2, SyncAssumption
<1>8. ASSUME NEW o \in part
      PROVE  /\ Present(r, o) /\ SameRow(o, Row(r, o), Row(src, o))
             /\ Row(r, o) = Row(col, o) \/ Row(r, o).usn = Row(src, o).usn \/ Row(r, o).usn = own
  <2>1. CASE o \in Notes
    <3>1. Row(r, o) = r.note[o] /\ Row(col, o) = col.note[o] /\ Row(src, o) = src.note[o]
      BY <2>1, RowOf
    <3>2. /\ SameRow(o, M(o), src.note[o])
          /\ M(o) = col.note[o] \/ M(o).usn = src.note[o].usn \/ M(o).usn = own
      BY <2>1, <1>4, <1>6
    <3> QED BY <3>1, <3>2, <2>1, <1>7 DEF Present, SameRow, Fields
  <2>2. CASE o \in Cards
    <3>1. /\ Row(r, o) = r.card[o] /\ Row(col, o) = col.card[o] /\ Row(src, o) = src.card[o]
          /\ o \notin Notes
      BY <2>2, RowOf, SyncAssumption
    <3>2. src.card[o] \in NativeRows /\ col.card[o] \in NativeRows \union {Gone}
      BY <2>2, <3>1, CollectionTables DEF Present
    <3>3. /\ r.card[o] \in NativeRows /\ (col.card[o] = Gone => r.card[o] = src.card[o])
          /\ (r.card[o] = col.card[o] \/ r.card[o] = src.card[o])
          /\ r.card[o] # src.card[o] => col.card[o].mtime >= src.card[o].mtime
      <4>1. r.card[o] = MergedCard(col.card[o], src.card[o], since)
        BY <2>2, <1>6
      <4> QED BY <3>2, <4>1, <1>0, MergedCardCases
    <3>4. col.card[o] # Gone => col.card[o].mtime <= src.card[o].mtime
      BY <3>1 DEF Covers, Present
    <3>5. r.card[o] # Gone /\ src.card[o].mtime \in Nat /\ (col.card[o] # Gone => col.card[o].mtime \in Nat)
      BY <3>2, <3>3, SyncAssumption DEF NativeRows
    <3>6. r.card[o].mtime = src.card[o].mtime
      BY <3>3, <3>4, <3>5
    <3> QED BY <3>1, <3>3, <3>5, <3>6 DEF Present, SameRow
  <2> QED BY <2>1, <2>2
<1>9. Graved(r) = Graved(col)
  BY <1>6 DEF Graved
<1>10. Clean(r)
  BY <1>6, <1>9 DEF Sound, Clean, Graved
<1>11. ASSUME NEW n \in Notes \ r.ids, r.note[n] # Gone
       PROVE  /\ r.note[n].rev = 1 /\ r.note[n].bank = <<>>
              /\ SameNote(r, col, n) \/ SameNote(r, src, n)
  <2>1. n \notin col.ids /\ (n \in part => n \notin src.ids)
    BY <1>2, <1>6
  <2>2. CASE n \notin part
    <3>1. r.note[n] = col.note[n]
      BY <2>2, <1>6, RowOf DEF Objects
    <3> QED BY <3>1, <2>1, <1>11 DEF Sound, Plain, SameNote
  <2>3. CASE n \in part
    <3>1. M(n) = src.note[n] \/ (M(n) = col.note[n] /\ col.note[n] # Gone)
      BY <2>3, <1>4, <1>6, <1>11
    <3>2. src.note[n] # Gone
      BY <2>3, <1>1, SyncAssumption
    <3>3. /\ src.note[n].rev = 1 /\ src.note[n].bank = <<>>
          /\ col.note[n] # Gone => col.note[n].rev = 1 /\ col.note[n].bank = <<>>
      BY <2>1, <2>3, <3>2 DEF Sound, Plain
    <3> QED BY <3>1, <3>2, <3>3, <2>1, <2>3, <1>7 DEF SameNote
  <2> QED BY <2>2, <2>3
<1>12. Sound(r) /\ TakenFrom(r, col, src)
  BY <1>10, <1>11 DEF Sound, Plain, TakenFrom
<1> QED BY <1>6, <1>8, <1>12 DEF r

-----------------------------------------------------------------------------
(* Decks and configuration.                                                  *)

LEMMA PendingDecks ==
  ASSUME NEW col \in Collections, NEW since
  PROVE  /\ PendingRows(col.deck, since) \subseteq Decks
         /\ \A d \in Decks : d \in PendingRows(col.deck, since) <=>
                               col.deck[d] # Gone /\ Pending(col.deck[d].usn, since)
  BY CollectionTables DEF PendingRows

\* What a device has, and what it sends, once its changed decks are numbered
Numbered(col, usn) == [col EXCEPT !.deck = Stamp(@, PendingRows(@, -1), usn)]

Sent(col, usn, newer) ==
  [Changes(col, -1, newer) EXCEPT !.deck = Rows(Numbered(col, usn).deck, DOMAIN @)]

\* The decks of both sides after each has taken what the other changed
Exchanged(mine, theirs, usn, since, a, b) ==
  /\ a \in Collections /\ b \in Collections /\ a.conf = b.conf
  /\ a.scm = mine.scm /\ a.usn = mine.usn /\ a.ids = mine.ids /\ a.grave = mine.grave
  /\ a.note = mine.note /\ a.card = mine.card
  /\ b.scm = theirs.scm /\ b.usn = theirs.usn /\ b.ids = theirs.ids /\ b.grave = theirs.grave
  /\ b.note = theirs.note /\ b.card = theirs.card
  /\ \A d \in Decks :
       LET changed == mine.deck[d] # Gone /\ mine.deck[d].usn = -1
           row == IF changed THEN [mine.deck[d] EXCEPT !.usn = usn] ELSE mine.deck[d]
           asked == theirs.deck[d] # Gone /\ Pending(theirs.deck[d].usn, since)
       IN /\ a.deck[d] = IF asked /\ (row # Gone => row.mtime <= theirs.deck[d].mtime)
                         THEN theirs.deck[d] ELSE row
          /\ b.deck[d] = IF changed /\ (theirs.deck[d] # Gone => theirs.deck[d].mtime <= row.mtime)
                         THEN row ELSE theirs.deck[d]

LEMMA ChangesExchanged ==
  ASSUME NEW mine \in Collections, NEW theirs \in Collections, NEW usn \in Nat, NEW since \in Nat,
         NEW newer \in BOOLEAN
  PROVE  Exchanged(mine, theirs, usn, since,
           ApplyChanges(Numbered(mine, usn), Changes(theirs, since, ~newer)),
           ApplyChanges(theirs, Sent(mine, usn, newer)))
<1> DEFINE stamped == Numbered(mine, usn)
           sent == Sent(mine, usn, newer)
           got == Changes(theirs, since, ~newer)
           a == ApplyChanges(stamped, got)
           b == ApplyChanges(theirs, sent)
           ours == PendingRows(mine.deck, -1)
           asked == PendingRows(theirs.deck, since)
<1>0. /\ stamped = [mine EXCEPT !.deck = Stamp(@, PendingRows(@, -1), usn)]
      /\ sent = [Changes(mine, -1, newer) EXCEPT !.deck = Rows(stamped.deck, DOMAIN @)]
      /\ got = Changes(theirs, since, ~newer)
  BY DEF Numbered, Sent
<1> HIDE DEF stamped, sent, got
<1>1. /\ ours \subseteq Decks /\ asked \subseteq Decks
      /\ \A d \in Decks : d \in ours <=> mine.deck[d] # Gone /\ mine.deck[d].usn = -1
      /\ \A d \in Decks : d \in asked <=> theirs.deck[d] # Gone /\ Pending(theirs.deck[d].usn, since)
  BY PendingDecks DEF Pending
<1> HIDE DEF ours, asked
<1>2. /\ stamped \in Collections /\ stamped.conf = mine.conf
      /\ stamped = [mine EXCEPT !.deck = stamped.deck]
      /\ \A d \in Decks : stamped.deck[d] =
           IF d \in ours THEN [mine.deck[d] EXCEPT !.usn = usn] ELSE mine.deck[d]
  <2>1. mine.deck \in [Decks -> NativeRows \union {Gone}] /\ DOMAIN mine.deck = Decks
    BY CollectionTables
  <2>2. \A d \in ours \intersect Decks : mine.deck[d] # Gone
    BY <1>1
  <2>3. usn \in Int
    OBVIOUS
  <2>4. Stamp(mine.deck, ours, usn) \in [Decks -> NativeRows \union {Gone}]
    BY <2>1, <2>2, <2>3, StampedTable, Zenon
  <2>5. \A d \in Decks : Stamp(mine.deck, ours, usn)[d] =
          IF d \in ours THEN [mine.deck[d] EXCEPT !.usn = usn] ELSE mine.deck[d]
    BY <2>1 DEF Stamp
  <2>6. stamped = [mine EXCEPT !.deck = Stamp(mine.deck, ours, usn)]
    BY <1>0 DEF ours
  <2> QED BY <2>4, <2>5, <2>6 DEF Collections
<1>3. /\ sent.deck = [d \in ours |-> stamped.deck[d]] /\ DOMAIN sent.deck = ours
      /\ sent.conf = IF newer THEN mine.conf ELSE None
  BY <1>0 DEF Changes, Rows, ours
<1>4. /\ got.deck = [d \in asked |-> theirs.deck[d]] /\ DOMAIN got.deck = asked
      /\ got.conf = IF ~newer THEN theirs.conf ELSE None
  BY <1>0 DEF Changes, Rows, asked
<1>5. \A d \in Decks :
        /\ MergeDecks(stamped.deck, got.deck)[d] =
             IF d \in asked /\ (stamped.deck[d] # Gone => stamped.deck[d].mtime <= theirs.deck[d].mtime)
             THEN theirs.deck[d] ELSE stamped.deck[d]
        /\ MergeDecks(theirs.deck, sent.deck)[d] =
             IF d \in ours /\ (theirs.deck[d] # Gone => theirs.deck[d].mtime <= stamped.deck[d].mtime)
             THEN stamped.deck[d] ELSE theirs.deck[d]
  BY <1>3, <1>4 DEF MergeDecks
<1>6. /\ stamped.deck \in [Decks -> NativeRows \union {Gone}]
      /\ theirs.deck \in [Decks -> NativeRows \union {Gone}]
      /\ mine.conf \in Nat /\ theirs.conf \in Nat /\ None \notin Nat
  <2>1. stamped.deck \in [Decks -> NativeRows \union {Gone}]
    BY <1>2, CollectionTables, Zenon
  <2>2. theirs.deck \in [Decks -> NativeRows \union {Gone}] /\ mine.conf \in Nat /\ theirs.conf \in Nat
    BY CollectionTables, Zenon
  <2>3. None \notin Nat
    BY SyncAssumption
  <2> QED BY <2>1, <2>2, <2>3
<1>7. /\ MergeDecks(stamped.deck, got.deck) \in [Decks -> NativeRows \union {Gone}]
      /\ MergeDecks(theirs.deck, sent.deck) \in [Decks -> NativeRows \union {Gone}]
  <2>1. /\ MergeDecks(stamped.deck, got.deck) = [d \in Decks |-> MergeDecks(stamped.deck, got.deck)[d]]
        /\ MergeDecks(theirs.deck, sent.deck) = [d \in Decks |-> MergeDecks(theirs.deck, sent.deck)[d]]
    BY DEF MergeDecks
  <2>2. \A d \in Decks : /\ MergeDecks(stamped.deck, got.deck)[d] \in NativeRows \union {Gone}
                         /\ MergeDecks(theirs.deck, sent.deck)[d] \in NativeRows \union {Gone}
    BY <1>5, <1>6
  <2> QED BY <2>1, <2>2
<1> DEFINE A == MergeDecks(stamped.deck, got.deck)
           B == MergeDecks(theirs.deck, sent.deck)
           conf == IF newer THEN mine.conf ELSE theirs.conf
<1>8. /\ a = [stamped EXCEPT !.deck = A, !.conf = conf]
      /\ b = [theirs EXCEPT !.deck = B, !.conf = conf]
  <2>1. /\ (IF got.conf = None THEN stamped.conf ELSE got.conf) = conf
        /\ (IF sent.conf = None THEN theirs.conf ELSE sent.conf) = conf
    BY <1>2, <1>3, <1>4, <1>6
  <2>2. /\ a = [stamped EXCEPT !.deck = A,
                               !.conf = IF got.conf = None THEN stamped.conf ELSE got.conf]
        /\ b = [theirs EXCEPT !.deck = B,
                              !.conf = IF sent.conf = None THEN theirs.conf ELSE sent.conf]
    BY DEF ApplyChanges
  <2> HIDE DEF a, b, A, B, conf
  <2> QED BY <2>1, <2>2, Zenon
<1>12. conf \in Nat
  BY <1>6
<1> HIDE DEF a, b, A, B, conf
<1>9. /\ a \in Collections /\ b \in Collections /\ a.conf = b.conf
      /\ a.deck = A /\ b.deck = B
      /\ a = [stamped EXCEPT !.deck = a.deck, !.conf = a.conf]
      /\ b = [theirs EXCEPT !.deck = b.deck, !.conf = b.conf]
  <2>1. A \in [Decks -> NativeRows \union {Gone}] /\ B \in [Decks -> NativeRows \union {Gone}]
    BY <1>7 DEF A, B
  <2> QED BY <1>2, <1>8, <1>12, <2>1 DEF Collections
<1>10. a = [mine EXCEPT !.deck = a.deck, !.conf = a.conf]
  BY <1>2, <1>9 DEF Collections
<1>11. \A d \in Decks :
         LET changed == mine.deck[d] # Gone /\ mine.deck[d].usn = -1
             row == IF changed THEN [mine.deck[d] EXCEPT !.usn = usn] ELSE mine.deck[d]
             wanted == theirs.deck[d] # Gone /\ Pending(theirs.deck[d].usn, since)
         IN /\ a.deck[d] = IF wanted /\ (row # Gone => row.mtime <= theirs.deck[d].mtime)
                           THEN theirs.deck[d] ELSE row
            /\ b.deck[d] = IF changed /\ (theirs.deck[d] # Gone => theirs.deck[d].mtime <= row.mtime)
                           THEN row ELSE theirs.deck[d]
  <2> TAKE d \in Decks
  <2> DEFINE changed == mine.deck[d] # Gone /\ mine.deck[d].usn = -1
             row == IF changed THEN [mine.deck[d] EXCEPT !.usn = usn] ELSE mine.deck[d]
             wanted == theirs.deck[d] # Gone /\ Pending(theirs.deck[d].usn, since)
  <2>1. (d \in ours <=> changed) /\ (d \in asked <=> wanted) /\ stamped.deck[d] = row
    BY <1>1, <1>2
  <2>2. /\ a.deck[d] = IF d \in asked /\ (stamped.deck[d] # Gone => stamped.deck[d].mtime <= theirs.deck[d].mtime)
                        THEN theirs.deck[d] ELSE stamped.deck[d]
        /\ b.deck[d] = IF d \in ours /\ (theirs.deck[d] # Gone => theirs.deck[d].mtime <= stamped.deck[d].mtime)
                        THEN stamped.deck[d] ELSE theirs.deck[d]
    BY <1>5, <1>9 DEF A, B
  <2> HIDE DEF changed, row, wanted
  <2>3. /\ a.deck[d] = IF wanted /\ (row # Gone => row.mtime <= theirs.deck[d].mtime)
                        THEN theirs.deck[d] ELSE row
        /\ b.deck[d] = IF changed /\ (theirs.deck[d] # Gone => theirs.deck[d].mtime <= row.mtime)
                        THEN row ELSE theirs.deck[d]
    BY <2>1, <2>2
  <2> QED BY <2>3 DEF changed, row, wanted
<1>14. /\ a.scm = mine.scm /\ a.usn = mine.usn /\ a.ids = mine.ids /\ a.grave = mine.grave
       /\ a.note = mine.note /\ a.card = mine.card
       /\ b.scm = theirs.scm /\ b.usn = theirs.usn /\ b.ids = theirs.ids /\ b.grave = theirs.grave
       /\ b.note = theirs.note /\ b.card = theirs.card
  BY <1>9, <1>10 DEF Collections
<1>15. Exchanged(mine, theirs, usn, since, a, b)
  BY <1>9, <1>11, <1>14 DEF Exchanged
<1> QED BY <1>15 DEF a, b, stamped, sent, got

-----------------------------------------------------------------------------
(* What a user's edit may do to a collection.                                *)

Edited(old, new) ==
  /\ new \in Collections /\ Sound(new)
  /\ new.usn = old.usn /\ old.ids \subseteq new.ids
  /\ new.scm = old.scm \/ new.scm = clock + 1
  /\ \A o \in Objects : new.grave[o] = old.grave[o] \/ (old.grave[o] = None /\ new.grave[o] = -1)
  /\ \A o \in Objects :
       \/ Row(new, o) = Row(old, o)
       \/ Row(new, o) = Gone /\ o \in Graved(new)
       \/ /\ Present(old, o) /\ Present(new, o) /\ Row(new, o).usn = -1
          /\ Covers(o, Row(new, o), Row(old, o)) /\ Row(new, o).mtime <= clock + 1
  /\ \A n \in Notes \ new.ids : new.note[n] # Gone =>
       SameNote(new, old, n) \/ new.note[n].mtime = clock + 1

LEMMA EditedThenStamped ==
  ASSUME NEW old, NEW new, Edited(old, new), NEW mod \in Nat
  PROVE  Edited(old, [new EXCEPT !.mod = mod]) /\ [new EXCEPT !.mod = mod].mod = mod
<1> DEFINE x == [new EXCEPT !.mod = mod]
<1>1. /\ x \in Collections /\ x.mod = mod
      /\ x.usn = new.usn /\ x.scm = new.scm /\ x.ids = new.ids /\ x.grave = new.grave
      /\ x.note = new.note /\ x.card = new.card /\ x.deck = new.deck
  BY DEF Edited, Collections
<1> HIDE DEF x
<1>2. \A o : Row(x, o) = Row(new, o)
  BY <1>1 DEF Row
<1>3. Graved(x) = Graved(new)
  BY <1>1 DEF Graved
<1>4. Sound(x)
  BY <1>1, <1>2, <1>3 DEF Edited, Sound, Clean, Plain
<1>5. Edited(old, x)
  BY <1>1, <1>2, <1>3, <1>4 DEF Edited, Present, SameNote
<1> QED BY <1>1, <1>5 DEF x

\* A row that is rewritten where there was one
LEMMA OneNoteWritten ==
  ASSUME NEW old \in Collections, Sound(old), NEW n \in Notes, old.note[n] # Gone,
         NEW row \in NoteRows, row.usn = -1, Covers(n, row, old.note[n]), row.mtime = clock + 1,
         n \notin old.ids => row.rev = old.note[n].rev /\ row.bank = old.note[n].bank
  PROVE  Edited(old, [old EXCEPT !.note[n] = row])
<1> DEFINE new == [old EXCEPT !.note[n] = row]
<1>1. /\ new \in Collections /\ new.usn = old.usn /\ new.scm = old.scm /\ new.ids = old.ids
      /\ new.grave = old.grave /\ new.card = old.card /\ new.deck = old.deck
      /\ \A x \in Notes : new.note[x] = IF x = n THEN row ELSE old.note[x]
  BY DEF Collections
<1> HIDE DEF new
<1>2. \A o \in Objects : Row(new, o) = IF o = n THEN row ELSE Row(old, o)
  BY <1>1, SyncAssumption DEF Row
<1>3. Graved(new) = Graved(old)
  BY <1>1 DEF Graved
<1>4. n \notin Graved(old) /\ Row(old, n) = old.note[n] /\ n \in Objects /\ row # Gone
  BY RowOf, SyncAssumption DEF Sound, Clean, Objects
<1>5. Sound(new)
  <2>1. Clean(new)
    BY <1>2, <1>3, <1>4 DEF Sound, Clean, Graved
  <2>2. Plain(new)
    BY <1>1 DEF Sound, Plain
  <2> QED BY <2>1, <2>2 DEF Sound
<1>6. \A o \in Objects :
        \/ Row(new, o) = Row(old, o)
        \/ /\ Present(old, o) /\ Present(new, o) /\ Row(new, o).usn = -1
           /\ Covers(o, Row(new, o), Row(old, o)) /\ Row(new, o).mtime <= clock + 1
  <2> TAKE o \in Objects
  <2>1. CASE o = n
    <3>1. row.mtime \in Nat /\ Row(new, o) = row
      BY <2>1, <1>2, NoteColumns
    <3> QED BY <3>1, <2>1, <1>4 DEF Present
  <2> QED BY <2>1, <1>2
<1>7. \A x \in Notes \ new.ids : new.note[x] # Gone =>
        SameNote(new, old, x) \/ new.note[x].mtime = clock + 1
  BY <1>1 DEF SameNote
<1>8. Edited(old, new)
  BY <1>1, <1>3, <1>5, <1>6, <1>7 DEF Edited
<1> QED BY <1>8 DEF new

LEMMA OneNativeWritten ==
  ASSUME NEW old \in Collections, Sound(old), Aged(old), clock \in Nat, NEW o \in Cards \union Decks,
         Present(old, o), NEW row, row = [mtime |-> clock + 1, usn |-> -1]
  PROVE  /\ o \in Cards => Edited(old, [old EXCEPT !.card[o] = row])
         /\ o \in Decks => Edited(old, [old EXCEPT !.deck[o] = row])
<1>1. row \in NativeRows /\ row # Gone
  BY SyncAssumption DEF NativeRows
<1>2. /\ o \in Objects /\ o \notin Notes /\ o \notin Graved(old)
      /\ Row(old, o).mtime <= clock /\ Row(old, o).mtime \in Nat
  BY PresentRow, SyncAssumption DEF Objects, Sound, Clean, Present, Aged
<1>3. ASSUME NEW new \in Collections, new.usn = old.usn, new.scm = old.scm, new.ids = old.ids,
             new.grave = old.grave, new.note = old.note,
             \A x \in Objects : Row(new, x) = IF x = o THEN row ELSE Row(old, x)
      PROVE  Edited(old, new)
  <2>1. Graved(new) = Graved(old)
    BY <1>3 DEF Graved
  <2>2. Sound(new)
    BY <2>1, <1>2, <1>3 DEF Sound, Clean, Plain, Graved
  <2>3. \A x \in Objects :
          \/ Row(new, x) = Row(old, x)
          \/ /\ Present(old, x) /\ Present(new, x) /\ Row(new, x).usn = -1
             /\ Covers(x, Row(new, x), Row(old, x)) /\ Row(new, x).mtime <= clock + 1
    BY <1>1, <1>2, <1>3 DEF Present, Covers
  <2>4. \A x \in Notes \ new.ids : new.note[x] # Gone => SameNote(new, old, x)
    BY <1>3 DEF SameNote
  <2> QED BY <2>2, <2>3, <2>4, <1>3 DEF Edited
<1>4. ASSUME o \in Cards
      PROVE  Edited(old, [old EXCEPT !.card[o] = row])
  <2> DEFINE new == [old EXCEPT !.card[o] = row]
  <2>1. /\ new \in Collections /\ new.usn = old.usn /\ new.scm = old.scm /\ new.ids = old.ids
        /\ new.grave = old.grave /\ new.note = old.note /\ new.deck = old.deck
        /\ \A x \in Cards : new.card[x] = IF x = o THEN row ELSE old.card[x]
    BY <1>1, <1>4 DEF Collections
  <2> HIDE DEF new
  <2>2. \A x \in Objects : Row(new, x) = IF x = o THEN row ELSE Row(old, x)
    BY <2>1, <1>4, SyncAssumption DEF Row, Objects
  <2>3. Edited(old, new)
    BY <1>3, <2>1, <2>2
  <2> QED BY <2>3 DEF new
<1>5. ASSUME o \in Decks
      PROVE  Edited(old, [old EXCEPT !.deck[o] = row])
  <2> DEFINE new == [old EXCEPT !.deck[o] = row]
  <2>1. /\ new \in Collections /\ new.usn = old.usn /\ new.scm = old.scm /\ new.ids = old.ids
        /\ new.grave = old.grave /\ new.note = old.note /\ new.card = old.card
        /\ \A x \in Decks : new.deck[x] = IF x = o THEN row ELSE old.deck[x]
    BY <1>1, <1>5 DEF Collections
  <2> HIDE DEF new
  <2>2. \A x \in Objects : Row(new, x) = IF x = o THEN row ELSE Row(old, x)
    BY <2>1, <1>5, SyncAssumption DEF Row, Objects
  <2>3. Edited(old, new)
    BY <1>3, <2>1, <2>2
  <2> QED BY <2>3 DEF new
<1> QED BY <1>4, <1>5

LEMMA UnchangedRows ==
  ASSUME NEW old \in Collections, Sound(old), NEW new \in Collections,
         new.usn = old.usn, new.ids = old.ids, new.grave = old.grave,
         new.note = old.note, new.card = old.card, new.deck = old.deck,
         new.scm = old.scm \/ new.scm = clock + 1
  PROVE  Edited(old, new)
<1>1. \A o : Row(new, o) = Row(old, o)
  BY DEF Row
<1>2. Graved(new) = Graved(old)
  BY DEF Graved
<1>3. Sound(new)
  BY <1>1, <1>2 DEF Sound, Clean, Plain
<1> QED BY <1>1, <1>3 DEF Edited, SameNote

LEMMA Reconnected ==
  ASSUME NEW old \in Collections, Sound(old), Aged(old), clock \in Nat,
         NEW n \in Notes, old.note[n] # Gone
  PROVE  Edited(old, [old EXCEPT !.ids = @ \union {n}, !.note[n].usn = -1])
<1> DEFINE row == [old.note[n] EXCEPT !.usn = -1]
           new == [old EXCEPT !.ids = @ \union {n}, !.note[n].usn = -1]
<1>1. /\ old.note[n] \in NoteRows /\ -1 \in Int /\ n \in Objects
      /\ Row(old, n) = old.note[n] /\ n \notin Graved(old)
  BY CollectionTables, RowOf DEF Objects, Sound, Clean
<1>2. /\ row \in NoteRows /\ row.usn = -1 /\ row.mtime = old.note[n].mtime
      /\ row.rev = old.note[n].rev /\ row.bank = old.note[n].bank
  BY <1>1, RowStamped
<1>3. row.mtime <= clock /\ row.mtime \in Nat /\ row # Gone /\ Covers(n, row, old.note[n])
  <2>1. Ahead(old.note[n], old.note[n])
    BY <1>1, AheadReflexive
  <2>2. old.note[n].mtime <= clock /\ old.note[n].mtime \in Nat
    BY <1>1, NoteColumns DEF Aged, Present
  <2> QED BY <1>2, <2>1, <2>2, SyncAssumption DEF Covers, Ahead
<1> HIDE DEF row
<1>4. /\ new \in Collections /\ new.usn = old.usn /\ new.scm = old.scm
      /\ new.ids = old.ids \union {n} /\ new.grave = old.grave
      /\ new.card = old.card /\ new.deck = old.deck
      /\ \A x \in Notes : new.note[x] = IF x = n THEN row ELSE old.note[x]
  BY <1>2 DEF Collections, row
<1> HIDE DEF new
<1>5. \A o \in Objects : Row(new, o) = IF o = n THEN row ELSE Row(old, o)
  BY <1>4, SyncAssumption DEF Row
<1>6. Graved(new) = Graved(old)
  BY <1>4 DEF Graved
<1>7. Sound(new)
  <2>1. Clean(new)
    BY <1>1, <1>5, <1>6 DEF Sound, Clean, Graved
  <2>2. Plain(new)
    BY <1>4 DEF Sound, Plain
  <2> QED BY <2>1, <2>2 DEF Sound
<1>8. \A o \in Objects :
        \/ Row(new, o) = Row(old, o)
        \/ /\ Present(old, o) /\ Present(new, o) /\ Row(new, o).usn = -1
           /\ Covers(o, Row(new, o), Row(old, o)) /\ Row(new, o).mtime <= clock + 1
  BY <1>1, <1>2, <1>3, <1>5 DEF Present
<1>9. \A x \in Notes \ new.ids : new.note[x] # Gone => SameNote(new, old, x)
  BY <1>4 DEF SameNote
<1> QED BY <1>4, <1>7, <1>8, <1>9 DEF Edited, new

LEMMA Deleted ==
  ASSUME NEW old \in Collections, Sound(old), NEW markers, NEW set
  PROVE  Edited(old, Removed(Recorded(old, markers, -1), set, -1))
<1> DEFINE marked == Recorded(old, markers, -1)
           new == Removed(marked, set, -1)
<1>0. -1 \in Int
  OBVIOUS
<1>1. /\ marked \in Collections /\ marked.usn = old.usn /\ marked.scm = old.scm
      /\ marked.ids = old.ids /\ marked.grave = old.grave
      /\ marked.note = old.note /\ marked.card = old.card /\ marked.deck = old.deck
  BY DEF Recorded, Collections
<1>2. \A o : Row(marked, o) = Row(old, o)
  BY <1>1 DEF Row
<1> HIDE DEF marked
<1>3. /\ new \in Collections /\ new.usn = old.usn /\ new.scm = old.scm /\ new.ids = old.ids
      /\ \A o \in Objects : Row(new, o) = IF o \in set THEN Gone ELSE Row(old, o)
      /\ \A o \in Objects :
           new.grave[o] = IF o \in set /\ old.grave[o] = None THEN -1 ELSE old.grave[o]
  BY <1>0, <1>1, <1>2, RemovedFacts
<1> HIDE DEF new
<1>4. Graved(new) = Graved(old) \union (set \intersect Objects)
  BY <1>0, <1>3, SyncAssumption DEF Graved
<1>5. Sound(new)
  BY <1>3, <1>4, RemovedIsSound
<1>6. \A n \in Notes \ new.ids : new.note[n] # Gone => SameNote(new, old, n)
  BY <1>3, RowOf DEF SameNote, Objects
<1>7. Edited(old, new)
  BY <1>3, <1>4, <1>5, <1>6 DEF Edited
<1> QED BY <1>7 DEF new, marked

LEMMA NoteWrites ==
  ASSUME NEW old \in Collections, Sound(old), Aged(old), clock \in Nat,
         NEW n \in Notes, old.note[n] # Gone
  PROVE  /\ \A t \in Texts :
              Edited(old, [old EXCEPT !.note[n].text = t, !.note[n].mtime = clock + 1,
                                      !.note[n].usn = -1])
         /\ \A e \in Batches : n \in old.ids /\ Len(old.note[n].bank) < MaxBank =>
              Edited(old, [old EXCEPT !.note[n] =
                Advanced(old.note[n], Append(old.note[n].bank, e), old.note[n].rev, clock + 1)])
         /\ n \in old.ids /\ old.note[n].rev < MaxRevision =>
              Edited(old, [old EXCEPT !.note[n] = Advanced(@, <<>>, @.rev + 1, clock + 1)])
<1> DEFINE was == old.note[n]
<1>1. /\ was \in NoteRows /\ Row(old, n) = was /\ n \in Objects
  BY CollectionTables, RowOf DEF Objects
<1>2. /\ was.mtime \in Nat /\ was.mtime <= clock /\ was.rev \in Nat /\ was.bank \in Banks
      /\ was.bank \in Seq(Batches) /\ Ahead(was, was) /\ was.rev \in 1..MaxRevision
  BY <1>1, NoteColumns, AheadReflexive DEF Aged, Present
<1>6. clock + 1 \in Nat /\ -1 \in Int
  OBVIOUS
<1>3. ASSUME NEW t \in Texts
      PROVE  Edited(old, [old EXCEPT !.note[n].text = t, !.note[n].mtime = clock + 1,
                                     !.note[n].usn = -1])
  <2> DEFINE row == [was EXCEPT !.text = t, !.mtime = clock + 1, !.usn = -1]
  <2>1. /\ row \in NoteRows /\ row.usn = -1 /\ row.mtime = clock + 1
        /\ row.rev = was.rev /\ row.bank = was.bank
    BY <1>1, <1>6 DEF NoteRows
  <2>2. Covers(n, row, was)
    BY <1>2, <2>1 DEF Covers, Ahead
  <2>3. [old EXCEPT !.note[n].text = t, !.note[n].mtime = clock + 1, !.note[n].usn = -1]
          = [old EXCEPT !.note[n] = row]
    BY <1>1 DEF Collections, NoteRows
  <2> HIDE DEF row
  <2>4. Edited(old, [old EXCEPT !.note[n] = row])
    BY <2>1, <2>2, OneNoteWritten
  <2> QED BY <2>3, <2>4
<1>4. ASSUME NEW e \in Batches, n \in old.ids, Len(was.bank) < MaxBank
      PROVE  Edited(old, [old EXCEPT !.note[n] =
                Advanced(was, Append(was.bank, e), was.rev, clock + 1)])
  <2> DEFINE bank == Append(was.bank, e)
             row == Advanced(was, bank, was.rev, clock + 1)
  <2>1. bank \in Banks /\ IsPrefix(was.bank, bank)
    BY <1>2, <1>4, AppendedBank, PrefixOfAppend
  <2> HIDE DEF bank
  <2>2. /\ row \in NoteRows /\ row.usn = -1 /\ row.mtime = clock + 1
        /\ row.rev = was.rev /\ row.bank = bank
    BY <1>1, <1>6, <2>1 DEF Advanced, NoteRows, Banks
  <2> HIDE DEF row
  <2>3. Covers(n, row, was)
    BY <1>2, <2>1, <2>2 DEF Covers, Ahead
  <2>4. Edited(old, [old EXCEPT !.note[n] = row])
    BY <2>2, <2>3, <1>4, OneNoteWritten
  <2> QED BY <2>4 DEF row, bank
<1>5. ASSUME n \in old.ids, was.rev < MaxRevision
      PROVE  Edited(old, [old EXCEPT !.note[n] = Advanced(@, <<>>, @.rev + 1, clock + 1)])
  <2> DEFINE row == Advanced(was, <<>>, was.rev + 1, clock + 1)
  <2>1. was.rev + 1 \in 1..MaxRevision
    <3>1. MaxRevision \in Nat
      BY SyncAssumption
    <3>2. was.rev \in Nat /\ was.rev < MaxRevision
      BY <1>2, <1>5
    <3> QED BY <3>1, <3>2
  <2>2. /\ row \in NoteRows /\ row.usn = -1 /\ row.mtime = clock + 1
        /\ row.rev = was.rev + 1
    BY <1>1, <1>6, <2>1, EmptyBank DEF Advanced, NoteRows, Banks
  <2>3. [old EXCEPT !.note[n] = Advanced(@, <<>>, @.rev + 1, clock + 1)]
          = [old EXCEPT !.note[n] = row]
    BY <1>1 DEF Collections
  <2> HIDE DEF row
  <2>4. Covers(n, row, was)
    BY <1>2, <2>2 DEF Covers, Ahead
  <2>5. Edited(old, [old EXCEPT !.note[n] = row])
    BY <2>2, <2>4, <1>5, OneNoteWritten
  <2> QED BY <2>3, <2>5
<1> QED BY <1>3, <1>4, <1>5

LEMMA UserEdits ==
  ASSUME TypeOK, AllSound, NEW c \in Clients, User(c)
  PROVE  /\ sync[c].pc = "idle" /\ clock' = clock + 1 /\ edits' = edits + 1
         /\ UNCHANGED <<server, session, sync, faults>>
         /\ \E col : Edited(local[c], col) /\ col.mod = clock + 1 /\ local' = [local EXCEPT ![c] = col]
<1> DEFINE old == local[c]
           Goal == /\ sync[c].pc = "idle" /\ clock' = clock + 1 /\ edits' = edits + 1
                   /\ UNCHANGED <<server, session, sync, faults>>
                   /\ \E col : /\ Edited(local[c], col) /\ col.mod = clock + 1
                               /\ local' = [local EXCEPT ![c] = col]
<1>1. old \in Collections /\ clock \in Nat /\ clock + 1 \in Nat
  BY DEF TypeOK
<1>2. Sound(old) /\ Aged(old)
  BY DEF AllSound, Committed
<1>3. ASSUME NEW col, Edited(old, col), Edit(c, col)
      PROVE  Goal
  <2>1. Edited(old, [col EXCEPT !.mod = clock + 1]) /\ [col EXCEPT !.mod = clock + 1].mod = clock + 1
    BY <1>1, <1>3, EditedThenStamped
  <2> QED BY <2>1, <1>3 DEF Edit
<1> HIDE DEF Goal
<1>4. ASSUME NEW k \in Cards, EditCard(c, k) PROVE Goal
  <2>1. Present(old, k)
    BY <1>4, RowOf DEF EditCard, Present
  <2>2. Edited(old, [old EXCEPT !.card[k] = [mtime |-> clock + 1, usn |-> -1]])
    BY <2>1, <1>1, <1>2, OneNativeWritten
  <2> QED BY <2>2, <1>3, <1>4 DEF EditCard
<1>5. ASSUME NEW d \in Decks, EditDeck(c, d) PROVE Goal
  <2>1. Present(old, d)
    BY <1>5, RowOf DEF EditDeck, Present
  <2>2. Edited(old, [old EXCEPT !.deck[d] = [mtime |-> clock + 1, usn |-> -1]])
    BY <2>1, <1>1, <1>2, OneNativeWritten
  <2> QED BY <2>2, <1>3, <1>5 DEF EditDeck
<1>6. ASSUME NEW set, Delete(c, set) PROVE Goal
  BY <1>1, <1>2, <1>3, <1>6, Deleted DEF Delete
<1>7. ASSUME EditConfig(c) PROVE Goal
  <2> DEFINE col == [old EXCEPT !.conf = clock + 1]
  <2>1. /\ col \in Collections /\ col.usn = old.usn /\ col.ids = old.ids /\ col.grave = old.grave
        /\ col.note = old.note /\ col.card = old.card /\ col.deck = old.deck /\ col.scm = old.scm
    BY <1>1 DEF Collections
  <2>2. Edited(old, col)
    BY <2>1, <1>1, <1>2, UnchangedRows
  <2> QED BY <2>2, <1>3, <1>7 DEF EditConfig
<1>8. ASSUME ChangeSchema(c) PROVE Goal
  <2> DEFINE col == [old EXCEPT !.scm = clock + 1]
  <2>1. /\ col \in Collections /\ col.usn = old.usn /\ col.ids = old.ids /\ col.grave = old.grave
        /\ col.note = old.note /\ col.card = old.card /\ col.deck = old.deck /\ col.scm = clock + 1
    BY <1>1 DEF Collections
  <2>2. Edited(old, col)
    BY <2>1, <1>1, <1>2, UnchangedRows
  <2> QED BY <2>2, <1>3, <1>8 DEF ChangeSchema
<1>9. ASSUME NEW n \in Notes, NEW t \in Texts, EditNote(c, n, t) PROVE Goal
  BY <1>1, <1>2, <1>3, <1>9, NoteWrites DEF EditNote
<1>10. ASSUME NEW n \in Notes, NEW b \in Batches, AppendBatch(c, n, b) PROVE Goal
  BY <1>1, <1>2, <1>3, <1>10, NoteWrites DEF AppendBatch, Trusted
<1>11. ASSUME NEW n \in Notes, Revise(c, n) PROVE Goal
  BY <1>1, <1>2, <1>3, <1>11, NoteWrites DEF Revise, Trusted
<1>12. ASSUME NEW n \in Notes, Reconnect(c, n) PROVE Goal
  BY <1>1, <1>2, <1>3, <1>12, Reconnected DEF Reconnect
<1>13. Goal
  BY <1>4, <1>5, <1>6, <1>7, <1>8, <1>9, <1>10, <1>11, <1>12 DEF User, DeleteNote, DeleteDeck
<1> QED BY <1>13 DEF Goal

-----------------------------------------------------------------------------
(* Types.                                                                    *)

LEMMA SyncAt ==
  ASSUME NEW s \in Syncs
  PROVE  /\ s.pc = "full" => s.upload \in BOOLEAN /\ s.download \in BOOLEAN
         /\ s.pc = "start" => s.newer \in BOOLEAN /\ s.usn \in Nat /\ s.since \in Nat /\ s.seen \in Nat
         /\ s.pc \in Open => s.newer \in BOOLEAN /\ s.usn \in Nat /\ s.db \in Collections
         /\ s.pc = "graves" => /\ s.markers \subseteq Notes /\ s.graves \subseteq Objects
                               /\ s.remoteMarkers \subseteq Notes /\ s.remoteGraves \subseteq Objects
  BY DEF Syncs, Idle, Open

LEMMA SyncSteps ==
  ASSUME NEW db \in Collections, NEW newer \in BOOLEAN, NEW usn \in Nat
  PROVE  /\ \A pc \in Open \ {"graves"} : [pc |-> pc, newer |-> newer, usn |-> usn, db |-> db] \in Syncs
         /\ Idle \in Syncs
  BY DEF Syncs, Open

LEMMA SessionFields ==
  ASSUME session \in Sessions
  PROVE  /\ session.owner \in Clients /\ session.db \in Collections /\ session.usn \in Nat
         /\ session.since \in Nat /\ session.newer \in BOOLEAN
         /\ session.ids = None \/ session.ids \subseteq Objects
  BY DEF Sessions

LEMMA SessionTyped == TypeOK /\ session # None => session \in Sessions
  BY DEF TypeOK

\* A collection prepared for an upload has nothing to send and no graves.
LEMMA PreparedFacts ==
  ASSUME NEW col \in Collections, clock \in Nat, Sound(col)
  PROVE  LET p == Prepared(col) IN
         /\ p \in Collections /\ Sound(p) /\ p.scm = clock + 1 /\ p.mod = clock + 1
         /\ p.usn = col.usn + 1 /\ p.ids = col.ids
         /\ \A o \in Objects : p.grave[o] = None
         /\ \A o \in Objects : Present(p, o) => Present(col, o) /\ Row(p, o).mtime = Row(col, o).mtime
         /\ \A n \in Notes : p.note[n] # Gone =>
              col.note[n] # Gone /\ p.note[n].mtime = col.note[n].mtime /\ p.note[n].text = col.note[n].text
<1> DEFINE p == Prepared(col)
           notes == PendingRows(col.note, -1)
           cards == PendingRows(col.card, -1)
           decks == PendingRows(col.deck, -1)
           note == Stamp(col.note, notes, 0)
           card == Stamp(col.card, cards, 0)
           deck == Stamp(col.deck, decks, 0)
<1>1. /\ col.note \in [Notes -> NoteRows \union {Gone}]
      /\ col.card \in [Cards -> NativeRows \union {Gone}]
      /\ col.deck \in [Decks -> NativeRows \union {Gone}]
      /\ col.usn \in Nat /\ col.marker \in [Notes -> Int \union {None}] /\ 0 \in Int
  BY CollectionTables
<1>2. /\ \A o \in notes \intersect Notes : col.note[o] # Gone
      /\ \A o \in cards \intersect Cards : col.card[o] # Gone
      /\ \A o \in decks \intersect Decks : col.deck[o] # Gone
  BY DEF PendingRows
<1> HIDE DEF notes, cards, decks
<1>3. /\ note \in [Notes -> NoteRows \union {Gone}]
      /\ card \in [Cards -> NativeRows \union {Gone}]
      /\ deck \in [Decks -> NativeRows \union {Gone}]
  <2>1. note \in [Notes -> NoteRows \union {Gone}]
    <3>1. col.note \in [Notes -> NoteRows \union {Gone}] /\ 0 \in Int
      BY <1>1
    <3>2. \A o \in notes \intersect Notes : col.note[o] # Gone
      BY <1>2
    <3> QED BY <3>1, <3>2, StampedTable, Zenon
  <2>2. card \in [Cards -> NativeRows \union {Gone}]
    <3>1. col.card \in [Cards -> NativeRows \union {Gone}] /\ 0 \in Int
      BY <1>1
    <3>2. \A o \in cards \intersect Cards : col.card[o] # Gone
      BY <1>2
    <3> QED BY <3>1, <3>2, StampedTable, Zenon
  <2>3. deck \in [Decks -> NativeRows \union {Gone}]
    <3>1. col.deck \in [Decks -> NativeRows \union {Gone}] /\ 0 \in Int
      BY <1>1
    <3>2. \A o \in decks \intersect Decks : col.deck[o] # Gone
      BY <1>2
    <3> QED BY <3>1, <3>2, StampedTable, Zenon
  <2> QED BY <2>1, <2>2, <2>3
<1>4. /\ \A n \in Notes : note[n] = col.note[n]
           \/ (col.note[n] # Gone /\ note[n] = [col.note[n] EXCEPT !.usn = 0])
      /\ \A k \in Cards : card[k] = col.card[k]
           \/ (col.card[k] # Gone /\ card[k] = [col.card[k] EXCEPT !.usn = 0])
      /\ \A d \in Decks : deck[d] = col.deck[d]
           \/ (col.deck[d] # Gone /\ deck[d] = [col.deck[d] EXCEPT !.usn = 0])
  BY <1>1, <1>2 DEF Stamp
<1>5. StampOld(col.marker, 0) \in [Notes -> Int \union {None}]
  BY <1>1, StampedOld
<1>6. p = [col EXCEPT !.grave = [o \in Objects |-> None], !.marker = StampOld(col.marker, 0),
                      !.note = note, !.card = card, !.deck = deck,
                      !.usn = col.usn + 1, !.scm = clock + 1, !.mod = clock + 1]
  BY DEF Prepared, Collections, notes, cards, decks
<1>7. [o \in Objects |-> None] \in [Objects -> Int \union {None}] /\ col.usn + 1 \in Nat /\ clock + 1 \in Nat
  BY <1>1
<1> HIDE DEF note, card, deck, p
<1>8. /\ p \in Collections /\ p.scm = clock + 1 /\ p.mod = clock + 1
      /\ p.usn = col.usn + 1 /\ p.ids = col.ids /\ p.grave = [o \in Objects |-> None]
      /\ p.note = note /\ p.card = card /\ p.deck = deck
  BY <1>3, <1>5, <1>6, <1>7 DEF Collections
<1>9. /\ \A n \in Notes : p.note[n] # Gone =>
           /\ col.note[n] # Gone /\ p.note[n].mtime = col.note[n].mtime
           /\ p.note[n].text = col.note[n].text /\ p.note[n].rev = col.note[n].rev
           /\ p.note[n].bank = col.note[n].bank
      /\ \A k \in Cards : p.card[k] # Gone => col.card[k] # Gone /\ p.card[k].mtime = col.card[k].mtime
      /\ \A d \in Decks : p.deck[d] # Gone => col.deck[d] # Gone /\ p.deck[d].mtime = col.deck[d].mtime
  <2>1. ASSUME NEW n \in Notes, p.note[n] # Gone
        PROVE  /\ col.note[n] # Gone /\ p.note[n].mtime = col.note[n].mtime
               /\ p.note[n].text = col.note[n].text /\ p.note[n].rev = col.note[n].rev
               /\ p.note[n].bank = col.note[n].bank
    <3> DEFINE row == col.note[n]
               new == [row EXCEPT !.usn = 0]
    <3>1. row # Gone /\ row \in NoteRows /\ (p.note[n] = row \/ p.note[n] = new)
      BY <1>1, <1>4, <1>8, <2>1
    <3>2. new.mtime = row.mtime /\ new.rev = row.rev /\ new.bank = row.bank /\ new.text = row.text
      BY <1>1, <3>1, RowStamped
    <3> HIDE DEF new
    <3> QED BY <3>1, <3>2
  <2>2. ASSUME NEW k \in Cards, p.card[k] # Gone
        PROVE  col.card[k] # Gone /\ p.card[k].mtime = col.card[k].mtime
    <3> DEFINE row == col.card[k]
               new == [row EXCEPT !.usn = 0]
    <3>1. row # Gone /\ row \in NativeRows /\ (p.card[k] = row \/ p.card[k] = new)
      BY <1>1, <1>4, <1>8, <2>2
    <3>2. new.mtime = row.mtime
      BY <1>1, <3>1, RowStamped
    <3> HIDE DEF new
    <3> QED BY <3>1, <3>2
  <2>3. ASSUME NEW d \in Decks, p.deck[d] # Gone
        PROVE  col.deck[d] # Gone /\ p.deck[d].mtime = col.deck[d].mtime
    <3> DEFINE row == col.deck[d]
               new == [row EXCEPT !.usn = 0]
    <3>1. row # Gone /\ row \in NativeRows /\ (p.deck[d] = row \/ p.deck[d] = new)
      BY <1>1, <1>4, <1>8, <2>3
    <3>2. new.mtime = row.mtime
      BY <1>1, <3>1, RowStamped
    <3> HIDE DEF new
    <3> QED BY <3>1, <3>2
  <2> QED BY <2>1, <2>2, <2>3
<1>10. \A o \in Objects : Present(p, o) => Present(col, o) /\ Row(p, o).mtime = Row(col, o).mtime
  BY <1>9, RowOf DEF Objects, Present
<1>11. Graved(p) = {}
  BY <1>8 DEF Graved
<1>12. Sound(p)
  BY <1>8, <1>9, <1>11 DEF Sound, Clean, Plain
<1> QED BY <1>8, <1>9, <1>10, <1>12 DEF p

-----------------------------------------------------------------------------
(* Steps that leave the committed collections alone.                         *)

LEMMA CommittedUnmoved ==
  ASSUME UNCHANGED <<local, server, clock>>,
         Stamps, AllSound, Texted, AllBehind, ModTells
  PROVE  Stamps' /\ AllSound' /\ Texted' /\ AllBehind' /\ ModTells'
<1>1. Stamps'
  BY DEF Stamps
<1>2. AllSound'
  BY DEF AllSound, Committed, Aged
<1>3. Texted'
  BY DEF Texted, Committed
<1>4. AllBehind'
  BY DEF AllBehind
<1>5. ModTells'
  BY DEF ModTells
<1> QED BY <1>1, <1>2, <1>3, <1>4, <1>5

\* The sync of a device goes on while others do something else.
LEMMA LinkUnmoved ==
  ASSUME TypeOK, NEW d \in Clients, Linked(d), Link(d),
         clock' \in Nat, clock <= clock',
         local'[d] = local[d], sync'[d] = sync[d], UNCHANGED <<server, session>>
  PROVE  Link(d)'
<1>1. sync[d].db \in Collections /\ session.db \in Collections
  BY SyncAt, SessionTyped, SessionFields DEF TypeOK, Linked
<1>2. \A o \in Objects :
        /\ Present(sync[d].db, o) => Row(sync[d].db, o).mtime <= clock'
        /\ Present(session.db, o) => Row(session.db, o).mtime <= clock'
  BY <1>1, PresentRow DEF TypeOK, Link, LinkOf, Aged
<1>3. Aged(sync[d].db)' /\ Aged(session.db)'
  BY <1>2 DEF Aged
<1> QED BY <1>3 DEF Link, LinkOf

LEMMA LinkBuilt ==
  ASSUME NEW c \in Clients, NEW x, NEW ses, LinkOf(local[c], server, x, ses),
         sync'[c] = x, session' = ses, UNCHANGED <<local, server, clock>>
  PROVE  Link(c)'
<1>1. Aged(sync[c].db)' /\ Aged(session.db)'
  BY DEF LinkOf, Aged
<1> QED BY <1>1 DEF Link, LinkOf

LEMMA DecidedUnmoved ==
  ASSUME TypeOK, Stamps, NEW d \in Clients, Decided(d),
         clock' \in Nat, clock <= clock',
         local'[d] = local[d], sync'[d] = sync[d],
         \/ server' = server
         \/ server'.mod = clock + 1 /\ (server'.scm = server.scm \/ server'.scm = clock + 1)
  PROVE  Decided(d)'
<1>1. /\ clock \in Nat /\ local[d].scm \in Nat /\ local[d].scm <= clock
      /\ sync[d].pc = "start" => sync[d].seen \in Nat
  BY SyncAt, CollectionTables DEF TypeOK, Stamps
<1> QED BY <1>1 DEF Decided

\* What is left to show of a step that one device, or nobody, takes
LEMMA QuietStep ==
  ASSUME IInv, NEW c \in Clients, NEW x \in Syncs, sync' = [sync EXCEPT ![c] = x],
         UNCHANGED <<local, server, clock>>, edits' \in Nat, faults' \in Nat,
         session' \in Sessions \union {None},
         session' \in {session, None} \/ session'.owner = c,
         Decided(c)', Linked(c)' => Link(c)'
  PROVE  IInv'
<1>1. /\ sync' \in [Clients -> Syncs]
      /\ \A d \in Clients \ {c} : sync'[d] = sync[d]
  BY DEF IInv, TypeOK
<1>2. TypeOK'
  BY <1>1 DEF IInv, TypeOK
<1>3. clock' \in Nat /\ clock <= clock'
  BY DEF IInv, TypeOK
<1>4. Stamps' /\ AllSound' /\ Texted' /\ AllBehind' /\ ModTells'
  BY CommittedUnmoved DEF IInv
<1>5. AllDecided'
  BY <1>1, <1>3, DecidedUnmoved DEF IInv, AllDecided
<1>6. ASSUME NEW d \in Clients \ {c}, Linked(d)' PROVE Link(d)'
  <2>1. session' = session /\ Linked(d)
    BY <1>1, <1>6 DEF Linked
  <2>2. Link(d)
    BY <2>1 DEF IInv, AllLinked
  <2> QED BY <1>1, <1>3, <2>1, <2>2, LinkUnmoved DEF IInv
<1>7. AllLinked'
  BY <1>6 DEF AllLinked
<1> QED BY <1>2, <1>4, <1>5, <1>7 DEF IInv

LEMMA Stopped ==
  ASSUME IInv, NEW c \in Clients, sync' = [sync EXCEPT ![c] = Idle],
         session' \in {session, None}, edits' \in Nat, faults' \in Nat,
         UNCHANGED <<local, server, clock>>
  PROVE  IInv'
<1>1. Idle \in Syncs /\ sync'[c].pc = "idle"
  BY DEF IInv, TypeOK, Syncs, Idle
<1>2. Decided(c)' /\ ~Linked(c)'
  BY <1>1 DEF Decided, Linked, Open
<1>3. session' \in Sessions \union {None}
  BY DEF IInv, TypeOK
<1> QED BY <1>1, <1>2, <1>3, QuietStep

LEMMA Abandoned == ASSUME IInv, NEW c \in Clients, Abandon(c) PROVE IInv'
<1>1. edits' \in Nat /\ faults' \in Nat
  BY DEF IInv, TypeOK, Abandon
<1> QED BY <1>1, Stopped DEF Abandon

LEMMA InterruptedStep == ASSUME IInv, NEW c \in Clients, Interrupted(c) PROVE IInv'
<1>1. edits' \in Nat /\ faults' \in Nat
  BY DEF IInv, TypeOK, Interrupted
<1> QED BY <1>1, Stopped DEF Interrupted

LEMMA RestartStep == ASSUME IInv, Restart PROVE IInv'
<1>1. PICK c \in Clients : TRUE
  BY SessionTyped, SessionFields DEF IInv, Restart
<1>2. /\ sync[c] \in Syncs /\ sync' = [sync EXCEPT ![c] = sync[c]]
      /\ edits' \in Nat /\ faults' \in Nat
  BY DEF IInv, TypeOK, Restart
<1>3. ~Linked(c)'
  BY DEF Restart, Linked
<1>4. clock' \in Nat /\ clock <= clock'
  BY DEF IInv, TypeOK, Restart
<1>5. Decided(c)'
  BY <1>4, DecidedUnmoved DEF IInv, AllDecided, Restart
<1> QED BY <1>2, <1>3, <1>5, QuietStep DEF Restart

-----------------------------------------------------------------------------
(* The beginning of a sync.                                                  *)

LEMMA MetaStep == ASSUME IInv, NEW c \in Clients, Meta(c) PROVE IInv'
<1> DEFINE full == [pc |-> "full", upload |-> ~Empty(local[c]) \/ Empty(server),
                    download |-> ~Empty(server) \/ Empty(local[c])]
           start == [pc |-> "start", newer |-> local[c].mod > server.mod,
                     usn |-> server.usn, since |-> local[c].usn, seen |-> server.mod]
           x == IF local[c].scm # server.scm THEN full ELSE start
<1>1. /\ local[c] \in Collections /\ server \in Collections /\ sync \in [Clients -> Syncs]
      /\ edits' \in Nat /\ faults' \in Nat /\ clock \in Nat
  BY DEF IInv, TypeOK, Meta
<1>2. /\ local[c].usn \in Nat /\ local[c].mod \in Nat /\ server.usn \in Nat /\ server.mod \in Nat
  BY <1>1, CollectionTables
<1>3. full \in Syncs /\ full.pc = "full"
  <2>1. (~Empty(local[c]) \/ Empty(server)) \in BOOLEAN /\ (~Empty(server) \/ Empty(local[c])) \in BOOLEAN
    BY DEF Empty
  <2> QED BY <2>1 DEF Syncs, Empty
<1>4. start \in Syncs /\ start.pc = "start"
  BY <1>2 DEF Syncs
<1>5. start.seen = server.mod /\ start.usn = server.usn /\ start.since = local[c].usn
  OBVIOUS
<1> HIDE DEF full, start
<1>6. sync' = [sync EXCEPT ![c] = x] /\ x \in Syncs /\ x.pc \in {"full", "start"}
  BY <1>3, <1>4 DEF Meta, full, start
<1>7. sync'[c] = x
  BY <1>1, <1>6
<1>8. Decided(c)'
  <2>1. server.mod <= clock
    BY DEF IInv, Stamps
  <2> QED BY <1>3, <1>4, <1>5, <1>7, <2>1 DEF Decided, Meta
<1>9. ~Linked(c)' /\ session' = None /\ UNCHANGED <<local, server, clock>>
  BY DEF Meta, Linked
<1> HIDE DEF x
<1> QED BY <1>1, <1>6, <1>8, <1>9, QuietStep

\* The transaction a device opens, with its graves already numbered
Opened(mine, usn) ==
  [mine EXCEPT !.grave = StampOld(@, usn), !.marker = StampOld(@, usn)]

LEMMA Started ==
  ASSUME NEW mine \in Collections, NEW theirs \in Collections, NEW usn \in Nat,
         Sound(mine), Sound(theirs), Behind(mine, theirs)
  PROVE  LET db == Opened(mine, usn) IN
         /\ db \in Collections /\ db.scm = mine.scm /\ Sound(db)
         /\ Graved(db) = Graved(mine) /\ \A o \in Objects : Row(db, o) = Row(mine, o)
         /\ Kept(mine, db) /\ Grown(theirs, theirs)
         /\ TakenFrom(db, mine, theirs) /\ TakenFrom(theirs, mine, theirs)
         /\ PendingGraves(mine, -1) \subseteq Graved(db)
         /\ Graved(db) \subseteq Graved(theirs) \union PendingGraves(mine, -1)
         /\ PendingGraves(theirs, mine.usn) \subseteq Graved(theirs)
         /\ Graved(theirs) \subseteq Graved(db) \union PendingGraves(theirs, mine.usn)
<1> DEFINE db == Opened(mine, usn)
           grave == StampOld(mine.grave, usn)
           marker == StampOld(mine.marker, usn)
<1>1. /\ mine.grave \in [Objects -> Int \union {None}] /\ theirs.grave \in [Objects -> Int \union {None}]
      /\ mine.marker \in [Notes -> Int \union {None}] /\ mine.usn \in Nat /\ usn \in Int
  BY CollectionTables
<1>2. /\ grave \in [Objects -> Int \union {None}]
      /\ \A o \in Objects : grave[o] # None <=> mine.grave[o] # None
  BY <1>1, StampedOld
<1>3. marker \in [Notes -> Int \union {None}]
  BY <1>1, StampedOld
<1> HIDE DEF grave, marker
<1>4. db = [mine EXCEPT !.grave = grave, !.marker = marker]
  BY DEF grave, marker, Collections, Opened
<1> HIDE DEF db
<1>5. /\ db \in Collections /\ db.scm = mine.scm /\ db.ids = mine.ids /\ db.grave = grave
      /\ db.note = mine.note /\ db.card = mine.card /\ db.deck = mine.deck
  BY <1>2, <1>3, <1>4 DEF Collections
<1>6. \A o : Row(db, o) = Row(mine, o)
  BY <1>5 DEF Row
<1>7. Graved(db) = Graved(mine)
  BY <1>2, <1>5 DEF Graved
<1>8. Sound(db)
  BY <1>5, <1>6, <1>7 DEF Sound, Clean, Plain
<1>9. Kept(mine, db)
  BY <1>6, CoversReflexive DEF Kept, Present
<1>10. Grown(theirs, theirs)
  BY DEF Grown
<1>11. TakenFrom(db, mine, theirs) /\ TakenFrom(theirs, mine, theirs)
  BY <1>5 DEF TakenFrom, SameNote
<1>12. PendingGraves(mine, -1) \subseteq Graved(db) /\ PendingGraves(theirs, mine.usn) \subseteq Graved(theirs)
  BY <1>7 DEF PendingGraves, Graved
<1>13. Graved(db) \subseteq Graved(theirs) \union PendingGraves(mine, -1)
  BY <1>7 DEF PendingGraves, Graved, Behind, Pending
<1>14. Graved(theirs) \subseteq Graved(db) \union PendingGraves(theirs, mine.usn)
  BY <1>1, <1>7 DEF PendingGraves, Graved, Behind, Pending
<1> QED BY <1>5, <1>6, <1>7, <1>8, <1>9, <1>10, <1>11, <1>12, <1>13, <1>14 DEF db

LEMMA StartStep == ASSUME IInv, ~Overtaken, NEW c \in Clients, Start(c) PROVE IInv'
<1> DEFINE s == sync[c]
           mine == local[c]
           db == Opened(mine, s.usn)
           x == [pc |-> "graves", newer |-> s.newer, usn |-> s.usn, db |-> db,
                 markers |-> PendingMarkers(mine, -1), graves |-> PendingGraves(mine, -1),
                 remoteMarkers |-> PendingMarkers(server, s.since),
                 remoteGraves |-> PendingGraves(server, s.since)]
           ses == [owner |-> c, db |-> server, usn |-> server.usn, since |-> s.since,
                   newer |-> s.newer, ids |-> None]
<1>1. /\ mine \in Collections /\ server \in Collections /\ sync \in [Clients -> Syncs] /\ s \in Syncs
      /\ edits' \in Nat /\ faults' \in Nat /\ s.pc = "start"
      /\ UNCHANGED <<local, server, clock>>
  BY DEF IInv, TypeOK, Start
<1>2. s.newer \in BOOLEAN /\ s.usn \in Nat /\ s.since \in Nat /\ server.usn \in Nat
  BY <1>1, SyncAt, CollectionTables
<1>3. mine.scm = server.scm /\ s.usn = server.usn /\ s.since = mine.usn
  BY <1>1 DEF Start, IInv, AllDecided, Decided
<1>4. Behind(mine, server)
  BY <1>3 DEF IInv, AllBehind
<1>5. Sound(mine) /\ Sound(server) /\ Aged(mine) /\ Aged(server)
  BY DEF IInv, AllSound, Committed
<1>6. /\ db \in Collections /\ db.scm = mine.scm /\ Sound(db)
      /\ Graved(db) = Graved(mine) /\ \A o \in Objects : Row(db, o) = Row(mine, o)
      /\ Kept(mine, db) /\ Grown(server, server)
      /\ TakenFrom(db, mine, server) /\ TakenFrom(server, mine, server)
      /\ PendingGraves(mine, -1) \subseteq Graved(db)
      /\ Graved(db) \subseteq Graved(server) \union PendingGraves(mine, -1)
      /\ PendingGraves(server, mine.usn) \subseteq Graved(server)
      /\ Graved(server) \subseteq Graved(db) \union PendingGraves(server, mine.usn)
  BY <1>1, <1>2, <1>4, <1>5, Started
<1>7. sync' = [sync EXCEPT ![c] = x] /\ session' = ses
  BY DEF Start, Opened
<1> HIDE DEF db
<1>8. PendingMarkers(mine, -1) \subseteq Notes /\ PendingMarkers(server, s.since) \subseteq Notes
  BY DEF PendingMarkers
<1>9. PendingGraves(mine, -1) \subseteq Objects /\ PendingGraves(server, s.since) \subseteq Objects
  BY DEF PendingGraves
<1>10. x \in Syncs
  BY <1>2, <1>6, <1>8, <1>9 DEF Syncs
<1>11. ses \in Sessions
  BY <1>1, <1>2 DEF Sessions
<1>12. sync'[c] = x
  BY <1>1, <1>7
<1>13. /\ x.pc = "graves" /\ x.newer = s.newer /\ x.usn = s.usn /\ x.db = db
       /\ x.graves = PendingGraves(mine, -1) /\ x.remoteGraves = PendingGraves(server, s.since)
       /\ ses.owner = c /\ ses.db = server /\ ses.usn = server.usn /\ ses.since = s.since
       /\ ses.newer = s.newer /\ ses.ids = None
  OBVIOUS
<1> HIDE DEF x, ses
<1>14. Decided(c)'
  BY <1>12, <1>13 DEF Decided
<1>15. SameStamps(mine, server, x, ses)
  BY <1>3, <1>6, <1>13 DEF SameStamps
<1>16. GravesLink(mine, server, x, ses)
  BY <1>3, <1>6, <1>13 DEF GravesLink
<1>17. Aged(db)
  BY <1>5, <1>6 DEF Aged, Present
<1>18. LinkOf(mine, server, x, ses)
  BY <1>5, <1>6, <1>13, <1>15, <1>16, <1>17 DEF LinkOf
<1>19. Link(c)'
  BY <1>1, <1>7, <1>12, <1>18, LinkBuilt
<1>20. session'.owner = c /\ session' \in Sessions \union {None}
  BY <1>7, <1>11, <1>13
<1> QED BY <1>1, <1>7, <1>10, <1>14, <1>19, <1>20, QuietStep

-----------------------------------------------------------------------------
(* Graves travel both ways.                                                  *)

LEMMA RowsTaken ==
  ASSUME NEW col \in Collections, NEW r \in Collections, NEW set, Sound(col), Aged(col),
         r.ids = col.ids, \A o \in Objects : Row(r, o) = IF o \in set THEN Gone ELSE Row(col, o),
         Graved(r) \subseteq Graved(col) \union set,
         NEW x, NEW y, TakenFrom(col, x, y)
  PROVE  Sound(r) /\ Aged(r) /\ TakenFrom(r, x, y)
<1>1. Sound(r)
  BY RemovedIsSound
<1>2. Aged(r)
  BY DEF Aged, Present
<1>3. \A n \in Notes : r.note[n] # Gone => r.note[n] = col.note[n]
  BY RowOf DEF Objects
<1>4. TakenFrom(r, x, y)
  BY <1>3 DEF TakenFrom, SameNote
<1> QED BY <1>1, <1>2, <1>4

\* What is known of a device whose sync the server has open
LEMMA LinkFacts ==
  ASSUME IInv, NEW c \in Clients, Linked(c)
  PROVE  /\ LinkOf(local[c], server, sync[c], session)
         /\ local[c] \in Collections /\ server \in Collections /\ sync[c] \in Syncs
         /\ sync[c].db \in Collections /\ sync[c].newer \in BOOLEAN /\ sync[c].usn \in Nat
         /\ session \in Sessions /\ session # None /\ session.db \in Collections
         /\ session.usn \in Nat /\ session.since \in Nat /\ session.newer \in BOOLEAN
         /\ session.ids = None \/ session.ids \subseteq Objects
         /\ Behind(local[c], server) /\ Sound(local[c]) /\ Sound(server) /\ Aged(local[c]) /\ Aged(server)
<1>1. Link(c) /\ sync[c].pc \in Open /\ session # None
  BY DEF IInv, AllLinked, Linked
<1>2. local[c] \in Collections /\ server \in Collections /\ sync[c] \in Syncs /\ session \in Sessions
  BY <1>1, SessionTyped DEF IInv, TypeOK
<1>3. Behind(local[c], server)
  BY <1>1 DEF Link, LinkOf, SameStamps, IInv, AllBehind
<1>4. Sound(local[c]) /\ Sound(server) /\ Aged(local[c]) /\ Aged(server)
  BY DEF IInv, AllSound, Committed
<1> QED BY <1>1, <1>2, <1>3, <1>4, SyncAt, SessionFields DEF Link

\* A step of a device and the server that leaves the sync open
LEMMA LinkedStep ==
  ASSUME IInv, NEW c \in Clients, NEW x \in Syncs, NEW ses,
         sync' = [sync EXCEPT ![c] = x], session' = ses, ses \in Sessions \union {None},
         ses = session \/ ses.owner = c, x.pc \in Open,
         UNCHANGED <<local, server, clock, edits, faults>>,
         ses # None /\ ses.owner = c => LinkOf(local[c], server, x, ses)
  PROVE  IInv'
<1>1. sync'[c] = x /\ edits' \in Nat /\ faults' \in Nat
  BY DEF IInv, TypeOK
<1>2. Decided(c)'
  BY <1>1 DEF Decided, Open
<1>3. Linked(c)' => Link(c)'
  BY <1>1, LinkBuilt DEF Linked
<1> QED BY <1>1, <1>2, <1>3, QuietStep

LEMMA SendGravesStep == ASSUME IInv, NEW c \in Clients, SendGraves(c) PROVE IInv'
<1> DEFINE s == sync[c]
           mine == local[c]
<1>1. PICK p \in GraveParts(s.markers, s.graves) :
        LET db == ApplyGraves(session.db, p[1], p[2], session.usn) IN
        IF db = Refused THEN Abandon(c)
        ELSE /\ session' = [session EXCEPT !.db = db]
             /\ sync' = [sync EXCEPT ![c].markers = @ \ p[1], ![c].graves = @ \ p[2]]
             /\ UNCHANGED <<local, server, clock, edits, faults>>
  BY DEF SendGraves
<1> DEFINE db == ApplyGraves(session.db, p[1], p[2], session.usn)
           x == [s EXCEPT !.markers = @ \ p[1], !.graves = @ \ p[2]]
           ses == [session EXCEPT !.db = db]
<1>2. CASE db = Refused
  BY <1>1, <1>2, Abandoned
<1>3. CASE db # Refused
  <2>1. p[2] \subseteq s.graves
    BY <1>1 DEF GraveParts
  <2>2. Linked(c) /\ s.pc = "graves" /\ session.owner = c
    BY DEF SendGraves, Active, Linked, Open
  <2>3. /\ LinkOf(mine, server, s, session)
        /\ mine \in Collections /\ server \in Collections /\ s \in Syncs
        /\ session \in Sessions /\ session.db \in Collections /\ session.usn \in Nat
    BY <2>2, LinkFacts
  <2>4. session.usn \in Int
    BY <2>3
  <2> HIDE DEF s, mine
  <2>5. /\ db \in Collections /\ db.scm = session.db.scm /\ db.usn = session.db.usn
        /\ db.ids = session.db.ids
        /\ \A o \in Objects : Row(db, o) = IF o \in p[2] THEN Gone ELSE Row(session.db, o)
        /\ \A o \in Objects : db.grave[o] =
             IF o \in p[2] /\ session.db.grave[o] = None THEN session.usn ELSE session.db.grave[o]
        /\ Graved(db) = Graved(session.db) \union (p[2] \intersect Objects)
    BY <2>3, <2>4, <1>3, GravesApplied
  <2> HIDE DEF db
  <2>6. /\ ses \in Sessions /\ ses.db = db /\ ses.owner = session.owner /\ ses.usn = session.usn
        /\ ses.since = session.since /\ ses.newer = session.newer /\ ses.ids = session.ids
    BY <2>3, <2>5 DEF Sessions
  <2>7. /\ x \in Syncs /\ x.pc = "graves" /\ x.graves = s.graves \ p[2] /\ x.db = s.db
        /\ x.remoteGraves = s.remoteGraves /\ x.usn = s.usn /\ x.newer = s.newer
    <3>1. s.pc = "graves" /\ s \in Syncs
      BY <2>2, <2>3 DEF s
    <3>2. s \in [pc : {"graves"}, newer : BOOLEAN, usn : Nat, db : Collections,
                 markers : SUBSET Notes, graves : SUBSET Objects,
                 remoteMarkers : SUBSET Notes, remoteGraves : SUBSET Objects]
      BY <3>1 DEF Syncs, Idle
    <3> QED BY <3>1, <3>2 DEF Syncs
  <2>8. sync' = [sync EXCEPT ![c] = x] /\ session' = ses /\ UNCHANGED <<local, server, clock, edits, faults>>
    BY <1>1, <1>3 DEF s, db
  <2> HIDE DEF x, ses
  <2>9. Sound(db) /\ Aged(db) /\ TakenFrom(db, mine, server)
    BY <2>3, <2>5, RowsTaken DEF LinkOf
  <2>10. Grown(server, db)
    BY <2>3, <2>5 DEF LinkOf, Grown, SameStamps, Graved, Present
  <2>11. SameStamps(mine, server, x, ses)
    BY <2>3, <2>5, <2>6, <2>7 DEF LinkOf, SameStamps
  <2>12. GravesLink(mine, server, x, ses)
    <3>1. GravesLink(mine, server, s, session)
      BY <2>2, <2>3 DEF LinkOf, s
    <3>2. p[2] \subseteq Graved(s.db)
      BY <3>1, <2>1 DEF GravesLink
    <3>3. Graved(session.db) \subseteq Graved(db) /\ Graved(db) \subseteq Graved(session.db) \union p[2]
      BY <2>5
    <3>4. /\ x.graves \subseteq Graved(s.db) /\ Graved(s.db) \subseteq Graved(db) \union x.graves
          /\ x.remoteGraves \subseteq Graved(db)
          /\ Graved(db) \subseteq Graved(s.db) \union x.remoteGraves
      <4>1. /\ s.graves \subseteq Graved(s.db) /\ Graved(s.db) \subseteq Graved(session.db) \union s.graves
            /\ s.remoteGraves \subseteq Graved(session.db)
            /\ Graved(session.db) \subseteq Graved(s.db) \union s.remoteGraves
            /\ Graved(s.db) \subseteq Objects
        BY <3>1 DEF GravesLink, Graved
      <4>2. p[2] \subseteq Graved(db)
        BY <3>2, <2>5, <4>1
      <4> QED BY <4>1, <4>2, <3>2, <3>3, <2>7
    <3>5. \A o \in Objects : Row(db, o) = Row(server, o) \/ o \in Graved(db)
      BY <3>1, <2>5 DEF GravesLink
    <3> QED BY <3>1, <3>4, <3>5, <2>6, <2>7 DEF GravesLink
  <2>13. LinkOf(mine, server, x, ses)
    BY <2>2, <2>3, <2>6, <2>7, <2>9, <2>10, <2>11, <2>12 DEF LinkOf, s
  <2>14. ses.owner = c /\ x.pc \in Open
    BY <2>2, <2>6, <2>7 DEF Open
  <2> QED BY <2>6, <2>7, <2>8, <2>13, <2>14, LinkedStep DEF mine
<1> QED BY <1>2, <1>3

LEMMA ApplyRemoteGravesStep ==
  ASSUME IInv, NEW c \in Clients, ApplyRemoteGraves(c) PROVE IInv'
<1> DEFINE s == sync[c]
           mine == local[c]
           db == ApplyGraves(s.db, s.remoteMarkers, s.remoteGraves, s.usn)
           x == Step(c, "changes", db)
<1>1. s.pc = "graves" /\ s.graves = {}
  BY DEF ApplyRemoteGraves
<1>2. /\ s \in Syncs /\ s.db \in Collections /\ s.usn \in Nat /\ s.newer \in BOOLEAN
      /\ s.remoteGraves \subseteq Objects /\ session \in Sessions \union {None}
  BY <1>1, SyncAt DEF IInv, TypeOK, Open
<1>3. CASE db = Refused
  BY <1>3, Abandoned DEF ApplyRemoteGraves
<1>4. CASE db # Refused
  <2>1. sync' = [sync EXCEPT ![c] = x] /\ UNCHANGED <<local, server, session, clock, edits, faults>>
    BY <1>4 DEF ApplyRemoteGraves
  <2>2. s.usn \in Int
    BY <1>2
  <2> DEFINE rg == s.remoteGraves
             rm == s.remoteMarkers
             usn == s.usn
             was == s.db
  <2>3. /\ db \in Collections /\ db.scm = s.db.scm /\ db.usn = s.db.usn /\ db.ids = s.db.ids
        /\ \A o \in Objects : Row(db, o) = IF o \in s.remoteGraves THEN Gone ELSE Row(s.db, o)
        /\ Graved(db) = Graved(s.db) \union (s.remoteGraves \intersect Objects)
    <3>1. was \in Collections /\ usn \in Int /\ ApplyGraves(was, rm, rg, usn) # Refused
      BY <1>2, <1>4, <2>2
    <3> HIDE DEF was, rg, rm, usn
    <3>2. LET r == ApplyGraves(was, rm, rg, usn) IN
          /\ r \in Collections /\ r.scm = was.scm /\ r.usn = was.usn /\ r.ids = was.ids
          /\ \A o \in Objects : Row(r, o) = IF o \in rg THEN Gone ELSE Row(was, o)
          /\ Graved(r) = Graved(was) \union (rg \intersect Objects)
      BY <3>1, GravesApplied
    <3> QED BY <3>2 DEF was, rg, rm, usn
  <2> HIDE DEF db
  <2>4. x.pc = "changes" /\ x.db = db /\ x.usn = s.usn /\ x.newer = s.newer
    BY DEF Step
  <2>5. x \in Syncs
    BY <1>2, <2>3, SyncSteps DEF Step, Open
  <2> HIDE DEF x
  <2>6. ASSUME session # None, session.owner = c
        PROVE  LinkOf(mine, server, x, session)
    <3>1. Linked(c)
      BY <1>1, <2>6 DEF Linked, Open
    <3>2. /\ LinkOf(mine, server, s, session)
          /\ mine \in Collections /\ server \in Collections
          /\ session.db \in Collections /\ Behind(mine, server)
      BY <3>1, LinkFacts
    <3> HIDE DEF s, mine
    <3>3. GravesLink(mine, server, s, session)
      BY <1>1, <3>2 DEF LinkOf
    <3>4. Sound(db) /\ Aged(db) /\ TakenFrom(db, mine, server)
      BY <1>2, <2>3, <3>2, RowsTaken DEF LinkOf
    <3>5. Graved(db) = Graved(session.db)
      BY <1>1, <1>2, <2>3, <3>3 DEF GravesLink
    <3>6. \A o \in Objects \ Graved(db) : Row(db, o) = Row(mine, o)
      BY <1>2, <2>3, <3>3 DEF GravesLink
    <3>7. Graved(mine) \subseteq Graved(db) /\ Graved(server) \subseteq Graved(session.db)
      BY <2>3, <3>2, <3>3 DEF GravesLink, LinkOf, Grown, Graved
    <3>8. Kept(mine, db)
      BY <3>2, <3>6, CoversReflexive DEF Kept, Present
    <3>9. \A o \in Objects \ Graved(session.db) : Row(session.db, o) = Row(server, o)
      BY <3>3 DEF GravesLink
    <3>10. session.since = mine.usn
      BY <3>2 DEF LinkOf, SameStamps
    <3>11. Level(db, session.db, Unseen(session.db, session.since))
      <4>1. Level(mine, server, Unseen(server, mine.usn))
        BY <3>2 DEF Behind
      <4>2. SUFFICES ASSUME NEW o \in Objects \ (Graved(db) \union Graved(session.db))
                     PROVE  LET rest == Unseen(session.db, session.since) IN
              /\ Settled(db, o) =>
                   Present(session.db, o) /\ Covers(o, Row(session.db, o), Row(db, o))
              /\ Present(session.db, o) /\ o \notin rest =>
                   Present(db, o) /\ Covers(o, Row(db, o), Row(session.db, o))
              /\ Settled(db, o) /\ o \notin rest => SameRow(o, Row(db, o), Row(session.db, o))
        BY DEF Level
      <4>3. /\ o \in Objects \ (Graved(mine) \union Graved(server))
            /\ Row(db, o) = Row(mine, o) /\ Row(session.db, o) = Row(server, o)
        BY <4>2, <3>6, <3>7, <3>9
      <4>4. /\ Present(db, o) <=> Present(mine, o)
            /\ Present(session.db, o) <=> Present(server, o)
            /\ Settled(db, o) <=> Settled(mine, o)
            /\ o \in Unseen(session.db, session.since) <=> o \in Unseen(server, mine.usn)
        BY <4>3, <3>10 DEF Present, Settled, Unseen
      <4> QED BY <4>1, <4>3, <4>4 DEF Level
    <3>12. RowsLink(x, session)
      BY <2>4, <3>5, <3>11 DEF RowsLink, Rest
    <3>13. SameStamps(mine, server, x, session)
      BY <2>3, <2>4, <3>2 DEF LinkOf, SameStamps
    <3> QED BY <1>1, <2>4, <3>2, <3>4, <3>8, <3>12, <3>13 DEF LinkOf
  <2>7. x.pc \in Open
    BY <2>4 DEF Open
  <2> QED BY <1>2, <2>1, <2>5, <2>6, <2>7, LinkedStep
<1> QED BY <1>3, <1>4

-----------------------------------------------------------------------------
(* Decks and configuration travel both ways.                                 *)

\* The rows a device and the server end with, when each has sent what it changed
DeckPair(was, their, row, changed, asked, ra, rb) ==
  /\ was # Gone => was.mtime \in Nat
  /\ their # Gone => their.mtime \in Nat
  /\ row = Gone <=> was = Gone
  /\ was # Gone => row.mtime = was.mtime
  /\ changed => was # Gone
  /\ asked => their # Gone
  /\ asked /\ (row # Gone => row.mtime <= their.mtime) => ra = their
  /\ ~(asked /\ (row # Gone => row.mtime <= their.mtime)) => ra = row
  /\ changed /\ (their # Gone => their.mtime <= row.mtime) => rb = row
  /\ ~(changed /\ (their # Gone => their.mtime <= row.mtime)) => rb = their

LEMMA LaterDeck ==
  ASSUME NEW was, NEW their, NEW row, NEW changed \in BOOLEAN, NEW asked \in BOOLEAN,
         NEW ra, NEW rb, DeckPair(was, their, row, changed, asked, ra, rb)
  PROVE  /\ was # Gone => ra # Gone /\ was.mtime <= ra.mtime
         /\ rb = their \/ (changed /\ rb = row /\ rb # Gone /\ (their # Gone => their.mtime <= rb.mtime))
         /\ (ra # Gone \/ rb # Gone) => (was # Gone \/ their # Gone)
         /\ ra # Gone => (was # Gone /\ ra.mtime = was.mtime) \/ (their # Gone /\ ra.mtime = their.mtime)
         /\ rb # Gone => (was # Gone /\ rb.mtime = was.mtime) \/ (their # Gone /\ rb.mtime = their.mtime)
         /\ (was # Gone /\ ~changed => their # Gone /\ was.mtime <= their.mtime)
            /\ (their # Gone /\ ~asked => was # Gone /\ their.mtime <= was.mtime)
            => (ra # Gone <=> rb # Gone) /\ (ra # Gone => ra.mtime = rb.mtime)
<1> USE DEF DeckPair
<1>1. was # Gone => row.mtime \in Nat
  OBVIOUS
<1>2. ra # Gone => (was # Gone /\ ra.mtime = was.mtime) \/ (their # Gone /\ ra.mtime = their.mtime)
  OBVIOUS
<1>3. rb # Gone => (was # Gone /\ rb.mtime = was.mtime) \/ (their # Gone /\ rb.mtime = their.mtime)
  OBVIOUS
<1>4. ra # Gone \/ rb # Gone => was # Gone \/ their # Gone
  BY <1>2, <1>3, Zenon
<1>5. was # Gone => ra # Gone /\ was.mtime <= ra.mtime
  <2>1. CASE ra = their /\ asked
    BY <2>1
  <2>2. CASE ra = row
    BY <2>2, <1>1
  <2> QED BY <2>1, <2>2
<1>6. rb = their \/ (changed /\ rb = row /\ rb # Gone /\ (their # Gone => their.mtime <= rb.mtime))
  BY <1>1
<1>7. ASSUME was # Gone /\ ~changed => their # Gone /\ was.mtime <= their.mtime,
             their # Gone /\ ~asked => was # Gone /\ their.mtime <= was.mtime
      PROVE  (ra # Gone <=> rb # Gone) /\ (ra # Gone => ra.mtime = rb.mtime)
  <2>2. CASE asked /\ changed
    BY <1>1, <2>2
  <2>3. CASE asked /\ ~changed
    BY <1>1, <2>3, <1>7
  <2>4. CASE ~asked /\ changed
    BY <1>1, <2>4, <1>7
  <2>5. CASE ~asked /\ ~changed
    BY <1>1, <2>5, <1>7
  <2> QED BY <2>2, <2>3, <2>4, <2>5
<1> QED BY <1>2, <1>3, <1>4, <1>5, <1>6, <1>7

\* Two sides that exchanged a deck both have the later of the two rows.
LEMMA DecksExchanged ==
  ASSUME NEW mine \in Collections, NEW theirs \in Collections, NEW usn \in Nat, NEW since \in Nat,
         NEW a, NEW b, Exchanged(mine, theirs, usn, since, a, b),
         Level(mine, theirs, Unseen(theirs, since)), NEW d \in Decks
  PROVE  /\ Present(mine, d) => Present(a, d) /\ Row(mine, d).mtime <= Row(a, d).mtime
         /\ \/ Row(b, d) = Row(theirs, d)
            \/ /\ Present(b, d) /\ Row(b, d).usn = usn
               /\ Present(theirs, d) => Row(theirs, d).mtime <= Row(b, d).mtime
         /\ (Present(a, d) \/ Present(b, d)) => (Present(mine, d) \/ Present(theirs, d))
         /\ Present(a, d) => \/ Present(mine, d) /\ Row(a, d).mtime = Row(mine, d).mtime
                             \/ Present(theirs, d) /\ Row(a, d).mtime = Row(theirs, d).mtime
         /\ Present(b, d) => \/ Present(mine, d) /\ Row(b, d).mtime = Row(mine, d).mtime
                             \/ Present(theirs, d) /\ Row(b, d).mtime = Row(theirs, d).mtime
         /\ d \notin Graved(mine) \union Graved(theirs) =>
              /\ Present(a, d) <=> Present(b, d)
              /\ Present(a, d) => Row(a, d).mtime = Row(b, d).mtime
<1> DEFINE was == mine.deck[d]
           their == theirs.deck[d]
           changed == was # Gone /\ was.usn = -1
           row == IF changed THEN [was EXCEPT !.usn = usn] ELSE was
           asked == their # Gone /\ Pending(their.usn, since)
           ra == a.deck[d]
           rb == b.deck[d]
<1>1. /\ was \in NativeRows \union {Gone} /\ their \in NativeRows \union {Gone}
      /\ d \in Objects /\ d \notin Notes
  BY CollectionTables, SyncAssumption DEF Objects
<1>2. Row(mine, d) = was /\ Row(theirs, d) = their /\ Row(a, d) = ra /\ Row(b, d) = rb
  BY RowOf
<1>3. /\ was # Gone => was.mtime \in Nat /\ was.usn \in Int
      /\ their # Gone => their.mtime \in Nat /\ their.usn \in Int
  BY <1>1 DEF NativeRows
<1>4. /\ row = Gone <=> was = Gone
      /\ was # Gone => row.mtime = was.mtime
      /\ changed => was # Gone /\ row.usn = usn
  BY <1>1, SyncAssumption DEF NativeRows
<1>5. d \notin Graved(mine) \union Graved(theirs) =>
        /\ was # Gone /\ ~changed => their # Gone /\ was.mtime <= their.mtime
        /\ their # Gone /\ ~asked => was # Gone /\ their.mtime <= was.mtime
  BY <1>1, <1>2 DEF Level, Settled, Present, Unseen, Covers, Pending
<1>6. /\ ra = IF asked /\ (row # Gone => row.mtime <= their.mtime) THEN their ELSE row
      /\ rb = IF changed /\ (their # Gone => their.mtime <= row.mtime) THEN row ELSE their
  BY DEF Exchanged
<1>7. changed \in BOOLEAN /\ asked \in BOOLEAN /\ (asked => their # Gone)
  BY DEF Pending
<1> HIDE DEF was, their, row, changed, asked, ra, rb
<1>8. DeckPair(was, their, row, changed, asked, ra, rb)
  BY <1>3, <1>4, <1>6, <1>7 DEF DeckPair
<1>9. /\ was # Gone => ra # Gone /\ was.mtime <= ra.mtime
      /\ rb = their \/ (changed /\ rb = row /\ rb # Gone /\ (their # Gone => their.mtime <= rb.mtime))
      /\ (ra # Gone \/ rb # Gone) => (was # Gone \/ their # Gone)
      /\ ra # Gone => (was # Gone /\ ra.mtime = was.mtime) \/ (their # Gone /\ ra.mtime = their.mtime)
      /\ rb # Gone => (was # Gone /\ rb.mtime = was.mtime) \/ (their # Gone /\ rb.mtime = their.mtime)
      /\ (was # Gone /\ ~changed => their # Gone /\ was.mtime <= their.mtime)
         /\ (their # Gone /\ ~asked => was # Gone /\ their.mtime <= was.mtime)
         => (ra # Gone <=> rb # Gone) /\ (ra # Gone => ra.mtime = rb.mtime)
  BY <1>7, <1>8, LaterDeck
<1> QED BY <1>2, <1>4, <1>5, <1>9 DEF Present

LEMMA ExchangeChangesStep ==
  ASSUME IInv, NEW c \in Clients, ExchangeChanges(c) PROVE IInv'
<1> DEFINE s == sync[c]
           mine == local[c]
           stamped == Numbered(s.db, s.usn)
           sent == Sent(s.db, s.usn, s.newer)
           got == Changes(session.db, session.since, ~session.newer)
           a == ApplyChanges(stamped, got)
           b == ApplyChanges(session.db, sent)
           x == Step(c, "receive", a)
           ses == [session EXCEPT !.db = b]
<1>1. /\ s.pc = "changes" /\ session # None /\ session.owner = c
      /\ sync' = [sync EXCEPT ![c] = x] /\ session' = ses
      /\ UNCHANGED <<local, server, clock, edits, faults>>
  BY DEF ExchangeChanges, Active, Numbered, Sent
<1>2. Linked(c)
  BY <1>1 DEF Linked, Open
<1>3. /\ LinkOf(mine, server, s, session)
      /\ mine \in Collections /\ server \in Collections
      /\ s.db \in Collections /\ s.usn \in Nat /\ s.newer \in BOOLEAN
      /\ session \in Sessions /\ session.db \in Collections /\ session.since \in Nat
  BY <1>2, LinkFacts
<1>4. session.newer = s.newer /\ session.ids = None /\ s.usn = server.usn
  BY <1>1, <1>3 DEF LinkOf, SameStamps
<1>5. Exchanged(s.db, session.db, s.usn, session.since, a, b)
  BY <1>3, <1>4, ChangesExchanged
<1> HIDE DEF stamped, sent, got, a, b
<1>6. /\ x.pc = "receive" /\ x.db = a /\ x.usn = s.usn /\ x.newer = s.newer
      /\ a \in Collections /\ b \in Collections
  BY <1>5 DEF Step, Exchanged
<1>7. x \in Syncs
  BY <1>3, <1>6, SyncSteps DEF Step, Open
<1>8. /\ ses \in Sessions /\ ses.db = b /\ ses.owner = session.owner /\ ses.usn = session.usn
      /\ ses.since = session.since /\ ses.newer = session.newer /\ ses.ids = session.ids
  BY <1>3, <1>6 DEF Sessions
<1> HIDE DEF x, ses
<1>9. LinkOf(mine, server, x, ses)
  <2> HIDE DEF s, mine
  <2>1. /\ SameStamps(mine, server, s, session) /\ s.pc = "changes"
        /\ Sound(s.db) /\ Sound(session.db) /\ Aged(s.db) /\ Aged(session.db)
        /\ Kept(mine, s.db) /\ Grown(server, session.db)
        /\ TakenFrom(s.db, mine, server) /\ TakenFrom(session.db, mine, server)
        /\ Graved(s.db) = Graved(session.db)
        /\ Level(s.db, session.db, Unseen(session.db, session.since))
    BY <1>1, <1>3 DEF LinkOf, RowsLink, Rest, s
  <2>2. /\ Graved(a) = Graved(s.db) /\ Graved(b) = Graved(session.db)
        /\ a.note = s.db.note /\ b.note = session.db.note
        /\ a.ids = s.db.ids /\ b.ids = session.db.ids
    BY <1>5 DEF Exchanged, Graved
  <2>3. \A o \in Notes \union Cards : Row(a, o) = Row(s.db, o) /\ Row(b, o) = Row(session.db, o)
    BY <1>5, RowOf DEF Exchanged
  <2>4. \A d \in Decks :
          /\ Present(s.db, d) => Present(a, d) /\ Row(s.db, d).mtime <= Row(a, d).mtime
          /\ \/ Row(b, d) = Row(session.db, d)
             \/ /\ Present(b, d) /\ Row(b, d).usn = s.usn
                /\ Present(session.db, d) => Row(session.db, d).mtime <= Row(b, d).mtime
          /\ (Present(a, d) \/ Present(b, d)) => (Present(s.db, d) \/ Present(session.db, d))
          /\ Present(a, d) => \/ Present(s.db, d) /\ Row(a, d).mtime = Row(s.db, d).mtime
                              \/ Present(session.db, d) /\ Row(a, d).mtime = Row(session.db, d).mtime
          /\ Present(b, d) => \/ Present(s.db, d) /\ Row(b, d).mtime = Row(s.db, d).mtime
                              \/ Present(session.db, d) /\ Row(b, d).mtime = Row(session.db, d).mtime
          /\ d \notin Graved(s.db) \union Graved(session.db) =>
               /\ Present(a, d) <=> Present(b, d)
               /\ Present(a, d) => Row(a, d).mtime = Row(b, d).mtime
    <3> TAKE d \in Decks
    <3> DEFINE md == s.db
               td == session.db
               since == session.since
               usn == s.usn
    <3>1. /\ md \in Collections /\ td \in Collections /\ usn \in Nat /\ since \in Nat
          /\ Exchanged(md, td, usn, since, a, b) /\ Level(md, td, Unseen(td, since))
      BY <1>3, <1>5, <2>1
    <3> HIDE DEF md, td, since, usn
    <3>2. /\ Present(md, d) => Present(a, d) /\ Row(md, d).mtime <= Row(a, d).mtime
          /\ \/ Row(b, d) = Row(td, d)
             \/ /\ Present(b, d) /\ Row(b, d).usn = usn
                /\ Present(td, d) => Row(td, d).mtime <= Row(b, d).mtime
          /\ (Present(a, d) \/ Present(b, d)) => (Present(md, d) \/ Present(td, d))
          /\ Present(a, d) => \/ Present(md, d) /\ Row(a, d).mtime = Row(md, d).mtime
                              \/ Present(td, d) /\ Row(a, d).mtime = Row(td, d).mtime
          /\ Present(b, d) => \/ Present(md, d) /\ Row(b, d).mtime = Row(md, d).mtime
                              \/ Present(td, d) /\ Row(b, d).mtime = Row(td, d).mtime
          /\ d \notin Graved(md) \union Graved(td) =>
               /\ Present(a, d) <=> Present(b, d)
               /\ Present(a, d) => Row(a, d).mtime = Row(b, d).mtime
      BY <3>1, DecksExchanged
    <3> QED BY <3>2 DEF md, td, since, usn
  <2>5. SameStamps(mine, server, x, ses)
    BY <1>5, <1>6, <1>8, <2>1 DEF SameStamps, Exchanged
  <2>6. Clean(a) /\ Clean(b)
    BY <2>1, <2>2, <2>3, <2>4 DEF Sound, Clean, Present, Graved, Objects
  <2>7. Sound(a) /\ Sound(b)
    BY <2>1, <2>2, <2>6 DEF Sound, Plain
  <2>8. Aged(a) /\ Aged(b)
    BY <2>1, <2>3, <2>4 DEF Aged, Present, Objects
  <2>9. Kept(mine, a)
    <3> SUFFICES ASSUME NEW o \in Objects \ Graved(a), Present(mine, o)
                 PROVE  Present(a, o) /\ Covers(o, Row(a, o), Row(mine, o))
      BY DEF Kept
    <3>1. Present(s.db, o) /\ Covers(o, Row(s.db, o), Row(mine, o))
      BY <2>1, <2>2 DEF Kept
    <3>2. CASE o \in Decks
      <4>1. Present(a, o) /\ Row(s.db, o).mtime <= Row(a, o).mtime
        BY <2>4, <3>1, <3>2
      <4>2. Row(s.db, o).mtime \in Nat /\ Row(mine, o).mtime \in Nat /\ Row(a, o).mtime \in Nat
        BY <1>3, <1>6, <3>1, <4>1, PresentRow
      <4> QED BY <3>1, <3>2, <4>1, <4>2, SyncAssumption DEF Covers
    <3>3. CASE o \notin Decks
      BY <2>3, <3>1, <3>3 DEF Objects, Present
    <3> QED BY <3>2, <3>3
  <2>10. Grown(server, b)
    <3>1. server.usn = s.usn /\ server.usn \in Nat
      BY <1>3, <1>4, CollectionTables
    <3>2. ASSUME NEW o \in Objects
          PROVE  b.grave[o] = server.grave[o] \/ (server.grave[o] = None /\ b.grave[o] = server.usn)
      BY <1>5, <2>1 DEF Exchanged, Grown
    <3>3. ASSUME NEW o \in Objects
          PROVE  \/ Row(b, o) = Row(server, o)
                 \/ o \in Graved(b)
                 \/ /\ Present(b, o) /\ Row(b, o).usn >= server.usn
                    /\ Present(server, o) => Covers(o, Row(b, o), Row(server, o))
      <4>1. \/ Row(session.db, o) = Row(server, o)
            \/ o \in Graved(session.db)
            \/ /\ Present(session.db, o) /\ Row(session.db, o).usn >= server.usn
               /\ Present(server, o) => Covers(o, Row(session.db, o), Row(server, o))
        BY <2>1 DEF Grown
      <4>2. CASE o \in Decks /\ o \notin Graved(b) /\ Row(b, o) # Row(session.db, o)
        <5>1. /\ Present(b, o) /\ Row(b, o).usn = s.usn
              /\ Present(session.db, o) => Row(session.db, o).mtime <= Row(b, o).mtime
          BY <2>4, <4>2
        <5>2. ASSUME Present(server, o) PROVE Row(server, o).mtime <= Row(b, o).mtime
          <6>1. Present(session.db, o) /\ Row(server, o).mtime <= Row(session.db, o).mtime
            BY <4>1, <4>2, <5>2, <2>2, <1>3, PresentRow DEF Covers, Present
          <6>2. /\ Row(server, o).mtime \in Nat /\ Row(session.db, o).mtime \in Nat
                /\ Row(b, o).mtime \in Nat
            BY <1>3, <1>6, <5>1, <5>2, <6>1, PresentRow
          <6> QED BY <5>1, <6>1, <6>2
        <5> QED BY <5>1, <5>2, <3>1, <4>2, SyncAssumption DEF Covers
      <4>3. CASE o \in Graved(b) \/ Row(b, o) = Row(session.db, o)
        BY <4>1, <4>3, <2>2 DEF Present
      <4> QED BY <4>2, <4>3, <2>3 DEF Objects
    <3> QED BY <3>2, <3>3 DEF Grown
  <2>11. TakenFrom(a, mine, server) /\ TakenFrom(b, mine, server)
    BY <2>1, <2>2 DEF TakenFrom, SameNote
  <2>12. Waiting(ses) = ChunkIds(b, ses.since)
    BY <1>4, <1>8 DEF Waiting
  <2>13. \A o \in Notes \union Cards : o \in Waiting(ses) <=> o \in Unseen(session.db, session.since)
    <3> TAKE o \in Notes \union Cards
    <3>1. o \in ChunkIds(b, session.since) <=> Present(b, o) /\ Pending(Row(b, o).usn, session.since)
      BY <1>6, ChunkIdsArePending
    <3>2. session.since # -1
      BY <1>3
    <3> QED BY <3>1, <3>2, <1>8, <2>3, <2>12 DEF Unseen, Pending, Present, Objects
  <2>14. Level(a, b, Waiting(ses))
    <3> SUFFICES ASSUME NEW o \in Objects \ (Graved(a) \union Graved(b))
                 PROVE  /\ Settled(a, o) => Present(b, o) /\ Covers(o, Row(b, o), Row(a, o))
                        /\ Present(b, o) /\ o \notin Waiting(ses) =>
                             Present(a, o) /\ Covers(o, Row(a, o), Row(b, o))
                        /\ Settled(a, o) /\ o \notin Waiting(ses) => SameRow(o, Row(a, o), Row(b, o))
      BY DEF Level
    <3>1. CASE o \in Decks
      <4>1. /\ Present(a, o) <=> Present(b, o)
            /\ Present(a, o) => Row(a, o).mtime = Row(b, o).mtime
        BY <2>2, <2>4, <3>1
      <4>2. Present(a, o) => Row(a, o).mtime \in Nat
        BY <1>6, PresentRow
      <4>3. o \notin Notes
        BY <3>1, SyncAssumption
      <4> QED BY <4>1, <4>2, <4>3 DEF Settled, Covers, SameRow
    <3>2. CASE o \in Notes \union Cards
      <4>1. Row(a, o) = Row(s.db, o) /\ Row(b, o) = Row(session.db, o)
        BY <2>3, <3>2
      <4>2. o \in Objects \ (Graved(s.db) \union Graved(session.db))
        BY <2>2
      <4> QED BY <2>1, <2>13, <3>2, <4>1, <4>2 DEF Level, Settled, Present
    <3> QED BY <3>1, <3>2 DEF Objects
  <2>15. RowsLink(x, ses)
    <3>1. a.conf = b.conf
      BY <1>5 DEF Exchanged
    <3> QED BY <1>6, <1>8, <2>1, <2>2, <2>12, <2>14, <3>1 DEF RowsLink, Rest
  <2> QED BY <1>6, <1>8, <2>5, <2>7, <2>8, <2>9, <2>10, <2>11, <2>15 DEF LinkOf
<1>10. ses.owner = c /\ x.pc \in Open
  BY <1>1, <1>6, <1>8 DEF Open
<1> QED BY <1>1, <1>7, <1>8, <1>9, <1>10, LinkedStep

-----------------------------------------------------------------------------
(* Notes and cards travel to the device.                                     *)

LEMMA SameRowCovers ==
  ASSUME NEW o, NEW x, NEW y, SameRow(o, x, y), x.mtime \in Nat,
         o \in Notes => x \in NoteRows /\ y \in NoteRows
  PROVE  Covers(o, x, y) /\ Covers(o, y, x)
<1>1. x.mtime = y.mtime /\ y.mtime \in Nat /\ x.mtime <= y.mtime /\ y.mtime <= x.mtime
  BY DEF SameRow
<1>2. ASSUME o \in Notes PROVE Ahead(x, y) /\ Ahead(y, x)
  <2>1. x.rev = y.rev /\ x.bank = y.bank
    BY <1>2 DEF SameRow, Fields
  <2>2. IsPrefix(x.bank, x.bank)
    BY <1>2, NoteColumns, PrefixReflexive
  <2> QED BY <2>1, <2>2 DEF Ahead
<1> QED BY <1>1, <1>2 DEF Covers

LEMMA TakenThrough ==
  ASSUME NEW r, NEW x, NEW y, NEW mine, NEW theirs,
         TakenFrom(r, x, y), TakenFrom(x, mine, theirs), TakenFrom(y, mine, theirs)
  PROVE  TakenFrom(r, mine, theirs)
  BY DEF TakenFrom, SameNote

LEMMA LevelWeakened ==
  ASSUME NEW x, NEW y, NEW small, NEW large, Level(x, y, small), small \subseteq large
  PROVE  Level(x, y, large)
  BY DEF Level

LEMMA PartOf ==
  ASSUME NEW ids, NEW part \in Parts(ids)
  PROVE  part \subseteq ids /\ (Short(part) => part = ids)
  BY SyncAssumption DEF Parts, Short

LEMMA ReceiveChunkStep ==
  ASSUME IInv, NEW c \in Clients, ReceiveChunk(c) PROVE IInv'
<1> DEFINE s == sync[c]
           mine == local[c]
           ids == Waiting(session)
<1>1. PICK part \in Parts(ids) :
        LET db == ApplyChunk(s.db, Chunk(session.db, part), -1, -1) IN
        IF db = Refused THEN Abandon(c)
        ELSE /\ session' = [session EXCEPT !.ids = ids \ part]
             /\ sync' = [sync EXCEPT ![c] =
                  Step(c, IF Short(part) THEN "send" ELSE "receive", db)]
             /\ UNCHANGED <<local, server, clock, edits, faults>>
  BY DEF ReceiveChunk, Waiting
<1> DEFINE db == ApplyChunk(s.db, Chunk(session.db, part), -1, -1)
           x == Step(c, IF Short(part) THEN "send" ELSE "receive", db)
           ses == [session EXCEPT !.ids = ids \ part]
<1>2. CASE db = Refused
  BY <1>1, <1>2, Abandoned
<1>3. CASE db # Refused
  <2>1. /\ s.pc = "receive" /\ session # None /\ session.owner = c
        /\ sync' = [sync EXCEPT ![c] = x] /\ session' = ses
        /\ UNCHANGED <<local, server, clock, edits, faults>>
    BY <1>1, <1>3 DEF ReceiveChunk, Active
  <2>2. Linked(c)
    BY <2>1 DEF Linked, Open
  <2>3. /\ LinkOf(mine, server, s, session)
        /\ mine \in Collections /\ server \in Collections
        /\ s.db \in Collections /\ s.usn \in Nat /\ s.newer \in BOOLEAN
        /\ session \in Sessions /\ session.db \in Collections /\ session.since \in Nat
    BY <2>2, LinkFacts
  <2>4. part \subseteq ids /\ (Short(part) => part = ids)
    BY <1>1, PartOf
  <2> HIDE DEF s, mine
  <2>5. /\ SameStamps(mine, server, s, session)
        /\ Sound(s.db) /\ Sound(session.db) /\ Aged(s.db) /\ Aged(session.db)
        /\ Kept(mine, s.db) /\ Grown(server, session.db)
        /\ TakenFrom(s.db, mine, server) /\ TakenFrom(session.db, mine, server)
        /\ Graved(s.db) = Graved(session.db)
        /\ Level(s.db, session.db, ids) /\ s.db.conf = session.db.conf
        /\ ids \subseteq ChunkIds(session.db, session.since)
    BY <2>1, <2>3 DEF LinkOf, RowsLink, Rest, s
  <2> HIDE DEF ids
  <2>6. /\ part \subseteq Notes \union Cards /\ part \subseteq Objects
        /\ \A o \in part : Present(session.db, o)
    BY <2>3, <2>4, <2>5, ChunkIdsArePending DEF Objects
  <2>7. part \intersect Graved(s.db) = {}
    BY <2>5, <2>6 DEF Sound, Clean, Present
  <2>8. \A o \in part : Settled(s.db, o) => Covers(o, Row(session.db, o), Row(s.db, o))
    BY <2>5, <2>6, <2>7 DEF Level
  <2>9. /\ db \in Collections
        /\ db.scm = s.db.scm /\ db.usn = s.db.usn /\ db.conf = s.db.conf
        /\ db.grave = s.db.grave
        /\ Sound(db) /\ TakenFrom(db, s.db, session.db)
        /\ \A o \in Objects \ part : Row(db, o) = Row(s.db, o)
        /\ \A o \in part :
             /\ Present(db, o) /\ Covers(o, Row(db, o), Row(session.db, o))
             /\ Present(s.db, o) => Covers(o, Row(db, o), Row(s.db, o))
             /\ Settled(db, o) => SameRow(o, Row(db, o), Row(session.db, o))
             /\ \/ Row(db, o).mtime = Row(session.db, o).mtime
                \/ Present(s.db, o) /\ Row(db, o).mtime = Row(s.db, o).mtime
    <3> DEFINE md == s.db
               td == session.db
               r == ApplyChunk(md, Chunk(td, part), -1, -1)
    <3>1. /\ md \in Collections /\ td \in Collections
          /\ part \subseteq Notes \union Cards /\ \A o \in part : Present(td, o)
          /\ r # Refused
          /\ Sound(md) /\ Plain(td) /\ part \intersect Graved(md) = {}
          /\ \A o \in part : Settled(md, o) => Covers(o, Row(td, o), Row(md, o))
      BY <1>3, <2>3, <2>5, <2>6, <2>7, <2>8 DEF Sound
    <3> HIDE DEF md, td
    <3>2. /\ r \in Collections
          /\ r.scm = md.scm /\ r.usn = md.usn /\ r.conf = md.conf /\ r.grave = md.grave
          /\ Sound(r) /\ TakenFrom(r, md, td)
          /\ \A o \in Objects \ part : Row(r, o) = Row(md, o)
          /\ \A o \in part :
               /\ Present(r, o) /\ Covers(o, Row(r, o), Row(td, o))
               /\ Present(md, o) => Covers(o, Row(r, o), Row(md, o))
               /\ Settled(r, o) => SameRow(o, Row(r, o), Row(td, o))
               /\ \/ Row(r, o).mtime = Row(td, o).mtime
                  \/ Present(md, o) /\ Row(r, o).mtime = Row(md, o).mtime
      BY <3>1, ChunkOnDevice
    <3> QED BY <3>2 DEF md, td
  <2> HIDE DEF db
  <2>10. Graved(db) = Graved(s.db)
    BY <2>9 DEF Graved
  <2>11. Aged(db)
    BY <2>5, <2>6, <2>9 DEF Aged, Present
  <2>12. Kept(mine, db)
    <3> SUFFICES ASSUME NEW o \in Objects \ Graved(db), Present(mine, o)
                 PROVE  Present(db, o) /\ Covers(o, Row(db, o), Row(mine, o))
      BY DEF Kept
    <3>1. Present(s.db, o) /\ Covers(o, Row(s.db, o), Row(mine, o))
      BY <2>5, <2>10 DEF Kept
    <3>2. CASE o \in part
      <4>1. Present(db, o) /\ Covers(o, Row(db, o), Row(s.db, o))
        BY <2>9, <3>1, <3>2
      <4>2. /\ Row(mine, o).mtime \in Nat /\ Row(s.db, o).mtime \in Nat /\ Row(db, o).mtime \in Nat
            /\ o \in Notes => /\ Row(mine, o) \in NoteRows /\ Row(s.db, o) \in NoteRows
                              /\ Row(db, o) \in NoteRows
        BY <2>3, <2>9, <3>1, <4>1, PresentRow
      <4>3. Covers(o, Row(db, o), Row(mine, o))
        BY <3>1, <4>1, <4>2, CoversTransitive
      <4> QED BY <4>1, <4>3
    <3>3. CASE o \notin part
      BY <2>9, <3>1, <3>3 DEF Present
    <3> QED BY <3>2, <3>3
  <2>13. Level(db, session.db, ids \ part)
    <3> SUFFICES ASSUME NEW o \in Objects \ (Graved(db) \union Graved(session.db))
                 PROVE  /\ Settled(db, o) =>
                             Present(session.db, o) /\ Covers(o, Row(session.db, o), Row(db, o))
                        /\ Present(session.db, o) /\ o \notin ids \ part =>
                             Present(db, o) /\ Covers(o, Row(db, o), Row(session.db, o))
                        /\ Settled(db, o) /\ o \notin ids \ part =>
                             SameRow(o, Row(db, o), Row(session.db, o))
      BY DEF Level
    <3>1. CASE o \in part
      <4>1. ASSUME Settled(db, o) PROVE Covers(o, Row(session.db, o), Row(db, o))
        <5>1. SameRow(o, Row(db, o), Row(session.db, o)) /\ Present(db, o) /\ Present(session.db, o)
          BY <2>6, <2>9, <3>1, <4>1
        <5>2. /\ Row(db, o).mtime \in Nat
              /\ o \in Notes => Row(db, o) \in NoteRows /\ Row(session.db, o) \in NoteRows
          BY <2>3, <2>9, <5>1, PresentRow
        <5> QED BY <5>1, <5>2, SameRowCovers
      <4> QED BY <2>6, <2>9, <3>1, <4>1
    <3>2. CASE o \notin part
      <4>1. Row(db, o) = Row(s.db, o) /\ o \in Objects \ (Graved(s.db) \union Graved(session.db))
        BY <2>9, <2>10, <3>2
      <4>2. /\ Settled(s.db, o) =>
                 Present(session.db, o) /\ Covers(o, Row(session.db, o), Row(s.db, o))
            /\ Present(session.db, o) /\ o \notin ids =>
                 Present(s.db, o) /\ Covers(o, Row(s.db, o), Row(session.db, o))
            /\ Settled(s.db, o) /\ o \notin ids => SameRow(o, Row(s.db, o), Row(session.db, o))
        BY <2>5, <4>1 DEF Level
      <4>3. Present(db, o) <=> Present(s.db, o)
        BY <4>1 DEF Present
      <4>4. Settled(db, o) <=> Settled(s.db, o)
        BY <4>1 DEF Settled, Present
      <4> QED BY <3>2, <4>1, <4>2, <4>3, <4>4
    <3> QED BY <3>1, <3>2
  <2>14. TakenFrom(db, mine, server)
    BY <2>5, <2>9, TakenThrough
  <2>15. /\ x.pc = IF Short(part) THEN "send" ELSE "receive"
         /\ x.db = db /\ x.usn = s.usn /\ x.newer = s.newer
    BY DEF Step, s
  <2>16. x \in Syncs
    <3>1. (IF Short(part) THEN "send" ELSE "receive") \in Open \ {"graves"}
      BY DEF Open
    <3> QED BY <2>3, <2>9, <3>1, SyncSteps DEF Step, s
  <2>17. /\ ses \in Sessions /\ ses.db = session.db /\ ses.owner = session.owner
         /\ ses.usn = session.usn /\ ses.since = session.since /\ ses.newer = session.newer
         /\ ses.ids = ids \ part
    <3>1. ids \ part \subseteq Objects
      BY <2>3, <2>5, ChunkIdsArePending DEF Objects
    <3> QED BY <2>3, <3>1 DEF Sessions
  <2> HIDE DEF x, ses
  <2>18. Waiting(ses) \subseteq ChunkIds(ses.db, ses.since) /\ ids \ part \subseteq Waiting(ses)
    BY <2>5, <2>17 DEF Waiting
  <2>19. RowsLink(x, ses)
    <3>1. ids \ part \subseteq Rest(x.pc, ses)
      BY <2>4, <2>15, <2>18 DEF Rest
    <3>2. Level(x.db, ses.db, Rest(x.pc, ses))
      BY <2>13, <2>15, <2>17, <3>1, LevelWeakened
    <3> QED BY <2>5, <2>9, <2>10, <2>15, <2>17, <2>18, <3>2 DEF RowsLink
  <2>20. SameStamps(mine, server, x, ses)
    BY <2>5, <2>9, <2>15, <2>17 DEF SameStamps
  <2>21. LinkOf(mine, server, x, ses)
    BY <2>5, <2>9, <2>11, <2>12, <2>14, <2>15, <2>17, <2>19, <2>20 DEF LinkOf
  <2>22. ses.owner = c /\ x.pc \in Open
    BY <2>1, <2>15, <2>17 DEF Open
  <2> QED BY <2>1, <2>16, <2>17, <2>21, <2>22, LinkedStep DEF mine
<1> QED BY <1>2, <1>3

-----------------------------------------------------------------------------
(* Notes and cards travel to the server.                                     *)

\* A device's collection once a chunk of it was sent
Stamped(col, part, usn) ==
  [col EXCEPT !.note = Stamp(@, part \intersect Notes, usn),
              !.card = Stamp(@, part \intersect Cards, usn)]

LEMMA StampedChunk ==
  ASSUME NEW col \in Collections, NEW part, part \subseteq Notes \union Cards,
         \A o \in part : Present(col, o), NEW usn \in Nat
  PROVE  LET r == Stamped(col, part, usn) IN
         /\ r \in Collections /\ r.scm = col.scm /\ r.usn = col.usn /\ r.conf = col.conf
         /\ r.ids = col.ids /\ r.grave = col.grave
         /\ \A o \in Objects \ part : Row(r, o) = Row(col, o)
         /\ \A o \in part : /\ Present(r, o) /\ Row(r, o).usn = usn
                            /\ SameRow(o, Row(r, o), Row(col, o))
<1> DEFINE r == Stamped(col, part, usn)
           notes == part \intersect Notes
           cards == part \intersect Cards
           note == Stamp(col.note, notes, usn)
           card == Stamp(col.card, cards, usn)
<1>1. /\ col.note \in [Notes -> NoteRows \union {Gone}]
      /\ col.card \in [Cards -> NativeRows \union {Gone}] /\ usn \in Int
  BY CollectionTables
<1>2. /\ \A n \in notes : col.note[n] # Gone /\ col.note[n] \in NoteRows
      /\ \A k \in cards : col.card[k] # Gone /\ col.card[k] \in NativeRows
  BY <1>1, RowOf DEF Present
<1> HIDE DEF notes, cards
<1>3. note \in [Notes -> NoteRows \union {Gone}]
  <2>1. col.note \in [Notes -> NoteRows \union {Gone}] /\ usn \in Int
    BY <1>1
  <2>2. \A n \in notes \intersect Notes : col.note[n] # Gone
    BY <1>2
  <2> QED BY <2>1, <2>2, StampedTable, Zenon
<1>4. card \in [Cards -> NativeRows \union {Gone}]
  <2>1. col.card \in [Cards -> NativeRows \union {Gone}] /\ usn \in Int
    BY <1>1
  <2>2. \A k \in cards \intersect Cards : col.card[k] # Gone
    BY <1>2
  <2> QED BY <2>1, <2>2, StampedTable, Zenon
<1>5. /\ \A n \in Notes : note[n] = IF n \in notes THEN [col.note[n] EXCEPT !.usn = usn] ELSE col.note[n]
      /\ \A k \in Cards : card[k] = IF k \in cards THEN [col.card[k] EXCEPT !.usn = usn] ELSE col.card[k]
  BY <1>1 DEF Stamp
<1>6. r = [col EXCEPT !.note = note, !.card = card]
  BY DEF Stamped, notes, cards, Collections
<1> HIDE DEF note, card, r
<1>7. /\ r \in Collections /\ r.scm = col.scm /\ r.usn = col.usn /\ r.conf = col.conf
      /\ r.ids = col.ids /\ r.grave = col.grave
      /\ r.note = note /\ r.card = card /\ r.deck = col.deck
  BY <1>3, <1>4, <1>6 DEF Collections
<1>8. \A o \in Objects \ part : Row(r, o) = Row(col, o)
  <2> TAKE o \in Objects \ part
  <2>1. CASE o \in Notes
    <3>1. Row(r, o) = r.note[o] /\ Row(col, o) = col.note[o]
      BY <2>1, RowOf
    <3>2. o \notin notes
      BY DEF notes
    <3>3. note[o] = col.note[o]
      BY <2>1, <3>2, <1>5
    <3> QED BY <3>1, <3>3, <1>7
  <2>2. CASE o \in Cards
    <3>1. Row(r, o) = r.card[o] /\ Row(col, o) = col.card[o]
      BY <2>2, RowOf
    <3>2. o \notin cards
      BY DEF cards
    <3>3. card[o] = col.card[o]
      BY <2>2, <3>2, <1>5
    <3> QED BY <3>1, <3>3, <1>7
  <2>3. CASE o \in Decks
    BY <2>3, <1>7, RowOf
  <2> QED BY <2>1, <2>2, <2>3 DEF Objects
<1>9. ASSUME NEW o \in part
      PROVE  Present(r, o) /\ Row(r, o).usn = usn /\ SameRow(o, Row(r, o), Row(col, o))
  <2>1. CASE o \in Notes
    <3> DEFINE was == col.note[o]
               new == [was EXCEPT !.usn = usn]
    <3>1. was \in NoteRows /\ o \in notes
      BY <1>2, <2>1 DEF notes
    <3>2. /\ new \in NoteRows /\ new.rev = was.rev /\ new.bank = was.bank /\ new.text = was.text
          /\ new.mtime = was.mtime /\ new.usn = usn
      BY <1>1, <3>1, RowStamped
    <3>3. Row(r, o) = new /\ Row(col, o) = was
      <4>1. Row(r, o) = r.note[o] /\ Row(col, o) = was
        BY <2>1, RowOf
      <4>2. note[o] = new
        BY <1>5, <2>1, <3>1
      <4> QED BY <1>7, <4>1, <4>2
    <3> HIDE DEF new, was
    <3>4. new # Gone
      BY <3>2, SyncAssumption
    <3> QED BY <3>2, <3>3, <3>4 DEF Present, SameRow, Fields
  <2>2. CASE o \in Cards
    <3> DEFINE was == col.card[o]
               new == [was EXCEPT !.usn = usn]
    <3>1. was \in NativeRows /\ o \in cards /\ o \notin Notes
      BY <1>2, <2>2, SyncAssumption DEF cards
    <3>2. new \in NativeRows /\ new.mtime = was.mtime /\ new.usn = usn
      BY <1>1, <3>1, RowStamped
    <3>3. Row(r, o) = new /\ Row(col, o) = was
      <4>1. Row(r, o) = r.card[o] /\ Row(col, o) = was
        BY <2>2, RowOf
      <4>2. card[o] = new
        BY <1>5, <2>2, <3>1
      <4> QED BY <1>7, <4>1, <4>2
    <3> HIDE DEF new, was
    <3>4. new # Gone
      BY <3>2, SyncAssumption
    <3> QED BY <3>1, <3>2, <3>3, <3>4 DEF Present, SameRow
  <2> QED BY <2>1, <2>2
<1> QED BY <1>7, <1>8, <1>9 DEF r

\* What a device and the server have open is in the same words where it says the same.
LEMMA OpenTexts ==
  ASSUME NEW x, NEW y, NEW mine, NEW theirs, TakenFrom(x, mine, theirs), TakenFrom(y, mine, theirs),
         OneText(mine, theirs), OneText(theirs, mine), OneText(mine, mine), OneText(theirs, theirs)
  PROVE  OneText(x, y)
<1> SUFFICES ASSUME NEW n \in Notes \ (x.ids \union y.ids),
                    x.note[n] # Gone, y.note[n] # Gone, x.note[n].mtime = y.note[n].mtime
             PROVE  x.note[n].text = y.note[n].text
  BY DEF OneText
<1>1. SameNote(x, mine, n) \/ SameNote(x, theirs, n)
  BY DEF TakenFrom
<1>2. SameNote(y, mine, n) \/ SameNote(y, theirs, n)
  BY DEF TakenFrom
<1> QED BY <1>1, <1>2 DEF SameNote, OneText

LEMMA SendChunkStep ==
  ASSUME IInv, NEW c \in Clients, SendChunk(c) PROVE IInv'
<1> DEFINE s == sync[c]
           mine == local[c]
           ids == ChunkIds(s.db, -1)
<1>1. PICK part \in Parts(ids) :
        LET sent == Stamped(s.db, part, s.usn)
            db == ApplyChunk(session.db, Chunk(sent, part), session.since, session.db.usn)
        IN IF db = Refused THEN Abandon(c)
           ELSE /\ session' = [session EXCEPT !.db = db]
                /\ sync' = [sync EXCEPT ![c] = Step(c, IF Short(part) THEN "sanity" ELSE "send", sent)]
                /\ UNCHANGED <<local, server, clock, edits, faults>>
  BY DEF SendChunk, Stamped
<1> DEFINE sent == Stamped(s.db, part, s.usn)
           db == ApplyChunk(session.db, Chunk(sent, part), session.since, session.db.usn)
           x == Step(c, IF Short(part) THEN "sanity" ELSE "send", sent)
           ses == [session EXCEPT !.db = db]
<1>2. CASE db = Refused
  BY <1>1, <1>2, Abandoned
<1>3. CASE db # Refused
  <2>1. /\ s.pc = "send" /\ session # None /\ session.owner = c
        /\ sync' = [sync EXCEPT ![c] = x] /\ session' = ses
        /\ UNCHANGED <<local, server, clock, edits, faults>>
    BY <1>1, <1>3 DEF SendChunk, Active
  <2>2. Linked(c)
    BY <2>1 DEF Linked, Open
  <2>3. /\ LinkOf(mine, server, s, session)
        /\ mine \in Collections /\ server \in Collections
        /\ s.db \in Collections /\ s.usn \in Nat /\ s.newer \in BOOLEAN
        /\ session \in Sessions /\ session.db \in Collections /\ session.since \in Nat
    BY <2>2, LinkFacts
  <2>4. part \subseteq ids
    BY <1>1, PartOf
  <2>5. /\ OneText(mine, server) /\ OneText(server, mine) /\ OneText(mine, mine) /\ OneText(server, server)
    BY DEF IInv, Texted, Committed
  <2> HIDE DEF s, mine
  <2>6. /\ SameStamps(mine, server, s, session)
        /\ Sound(s.db) /\ Sound(session.db) /\ Aged(s.db) /\ Aged(session.db)
        /\ Kept(mine, s.db) /\ Grown(server, session.db)
        /\ TakenFrom(s.db, mine, server) /\ TakenFrom(session.db, mine, server)
        /\ Graved(s.db) = Graved(session.db)
        /\ Level(s.db, session.db, {}) /\ s.db.conf = session.db.conf
    BY <2>1, <2>3 DEF LinkOf, RowsLink, Rest, s
  <2>7. /\ part \subseteq Notes \union Cards /\ part \subseteq Objects
        /\ \A o \in part : Present(s.db, o)
    BY <2>3, <2>4, ChunkIdsArePending DEF Objects
  <2> HIDE DEF ids
  <2>8. /\ sent \in Collections /\ sent.scm = s.db.scm /\ sent.usn = s.db.usn
        /\ sent.conf = s.db.conf /\ sent.ids = s.db.ids /\ sent.grave = s.db.grave
        /\ \A o \in Objects \ part : Row(sent, o) = Row(s.db, o)
        /\ \A o \in part : /\ Present(sent, o) /\ Row(sent, o).usn = s.usn
                           /\ SameRow(o, Row(sent, o), Row(s.db, o))
    <3> DEFINE md == s.db
               usn == s.usn
               done == Stamped(md, part, usn)
    <3>1. /\ md \in Collections /\ usn \in Nat /\ part \subseteq Notes \union Cards
          /\ \A o \in part : Present(md, o)
      BY <2>3, <2>7
    <3> HIDE DEF md, usn
    <3>2. /\ done \in Collections /\ done.scm = md.scm /\ done.usn = md.usn
          /\ done.conf = md.conf /\ done.ids = md.ids /\ done.grave = md.grave
          /\ \A o \in Objects \ part : Row(done, o) = Row(md, o)
          /\ \A o \in part : /\ Present(done, o) /\ Row(done, o).usn = usn
                             /\ SameRow(o, Row(done, o), Row(md, o))
      BY <3>1, StampedChunk
    <3> QED BY <3>2 DEF md, usn
  <2> HIDE DEF sent
  <2>9. Graved(sent) = Graved(s.db)
    BY <2>8 DEF Graved
  <2>10. \A o \in Objects : /\ Present(sent, o) <=> Present(s.db, o)
                            /\ Present(s.db, o) => SameRow(o, Row(sent, o), Row(s.db, o))
    BY <2>7, <2>8 DEF Present, SameRow
  <2>11. \A o \in Objects : Present(s.db, o) =>
           Covers(o, Row(sent, o), Row(s.db, o)) /\ Covers(o, Row(s.db, o), Row(sent, o))
    <3> SUFFICES ASSUME NEW o \in Objects, Present(s.db, o)
                 PROVE  Covers(o, Row(sent, o), Row(s.db, o)) /\ Covers(o, Row(s.db, o), Row(sent, o))
      OBVIOUS
    <3>1. Present(sent, o) /\ SameRow(o, Row(sent, o), Row(s.db, o))
      BY <2>10
    <3>2. /\ Row(sent, o).mtime \in Nat
          /\ o \in Notes => Row(sent, o) \in NoteRows /\ Row(s.db, o) \in NoteRows
      BY <2>3, <2>8, <3>1, PresentRow
    <3> QED BY <3>1, <3>2, SameRowCovers
  <2>12. Sound(sent)
    <3>1. Clean(sent)
      BY <2>6, <2>9, <2>10 DEF Sound, Clean, Present, Graved
    <3>2. \A n \in Notes : sent.note[n] # Gone =>
            s.db.note[n] # Gone /\ sent.note[n].rev = s.db.note[n].rev /\ sent.note[n].bank = s.db.note[n].bank
      <4> TAKE n \in Notes
      <4>1. n \in Objects /\ Row(sent, n) = sent.note[n] /\ Row(s.db, n) = s.db.note[n]
        BY RowOf DEF Objects
      <4> QED BY <2>10, <4>1 DEF Present, SameRow, Fields
    <3>3. Plain(sent)
      BY <2>6, <2>8, <3>2 DEF Sound, Plain
    <3> QED BY <3>1, <3>3 DEF Sound
  <2>13. TakenFrom(sent, mine, server)
    <3>1. \A n \in Notes : sent.note[n] # Gone =>
            /\ s.db.note[n] # Gone /\ sent.note[n].mtime = s.db.note[n].mtime
            /\ sent.note[n].text = s.db.note[n].text
      <4> TAKE n \in Notes
      <4>1. n \in Objects /\ Row(sent, n) = sent.note[n] /\ Row(s.db, n) = s.db.note[n]
        BY RowOf DEF Objects
      <4> QED BY <2>10, <4>1 DEF Present, SameRow, Fields
    <3> QED BY <2>6, <2>8, <3>1 DEF TakenFrom, SameNote
  <2>14. OneText(session.db, sent)
    BY <2>5, <2>6, <2>13, OpenTexts
  <2>15. part \intersect Graved(session.db) = {}
    BY <2>6, <2>7 DEF Sound, Clean, Present
  <2>16. \A o \in part : Present(session.db, o) => Covers(o, Row(sent, o), Row(session.db, o))
    <3> SUFFICES ASSUME NEW o \in part, Present(session.db, o)
                 PROVE  Covers(o, Row(sent, o), Row(session.db, o))
      OBVIOUS
    <3>1. Covers(o, Row(s.db, o), Row(session.db, o)) /\ Present(s.db, o)
      BY <2>6, <2>7, <2>15 DEF Level
    <3>2. Covers(o, Row(sent, o), Row(s.db, o)) /\ Present(sent, o)
      BY <2>7, <2>8, <2>11
    <3>3. /\ Row(sent, o).mtime \in Nat /\ Row(s.db, o).mtime \in Nat /\ Row(session.db, o).mtime \in Nat
          /\ o \in Notes => /\ Row(sent, o) \in NoteRows /\ Row(s.db, o) \in NoteRows
                            /\ Row(session.db, o) \in NoteRows
      BY <2>3, <2>7, <2>8, <3>1, <3>2, PresentRow
    <3> QED BY <3>1, <3>2, <3>3, CoversTransitive
  <2>17. /\ db \in Collections
         /\ db.scm = session.db.scm /\ db.usn = session.db.usn /\ db.conf = session.db.conf
         /\ db.grave = session.db.grave
         /\ Sound(db) /\ TakenFrom(db, session.db, sent)
         /\ \A o \in Objects \ part : Row(db, o) = Row(session.db, o)
         /\ \A o \in part :
              /\ Present(db, o) /\ SameRow(o, Row(db, o), Row(sent, o))
              /\ \/ Row(db, o) = Row(session.db, o)
                 \/ Row(db, o).usn = Row(sent, o).usn
                 \/ Row(db, o).usn = session.db.usn
    <3> DEFINE td == session.db
               since == session.since
               own == td.usn
               r == ApplyChunk(td, Chunk(sent, part), since, own)
    <3>1. td \in Collections /\ since \in Nat /\ own \in Nat
      BY <2>3, CollectionTables
    <3>2. /\ r # Refused /\ Sound(td) /\ Plain(sent) /\ part \intersect Graved(td) = {}
          /\ OneText(td, sent)
          /\ \A o \in part : Present(td, o) => Covers(o, Row(sent, o), Row(td, o))
      BY <1>3, <2>6, <2>12, <2>14, <2>15, <2>16 DEF Sound
    <3> HIDE DEF td, since, own
    <3>3. /\ r \in Collections
          /\ r.scm = td.scm /\ r.usn = td.usn /\ r.conf = td.conf /\ r.grave = td.grave
          /\ Sound(r) /\ TakenFrom(r, td, sent)
          /\ \A o \in Objects \ part : Row(r, o) = Row(td, o)
          /\ \A o \in part :
               /\ Present(r, o) /\ SameRow(o, Row(r, o), Row(sent, o))
               /\ Row(r, o) = Row(td, o) \/ Row(r, o).usn = Row(sent, o).usn \/ Row(r, o).usn = own
      BY <2>7, <2>8, <3>1, <3>2, ChunkOnServer
    <3> QED BY <3>3 DEF td, since, own
  <2> HIDE DEF db
  <2>18. Graved(db) = Graved(session.db)
    BY <2>17 DEF Graved
  <2>19. Aged(sent) /\ Aged(db)
    <3>1. Aged(sent)
      BY <2>6, <2>10 DEF Aged, SameRow
    <3>2. ASSUME NEW o \in Objects, Present(db, o) PROVE Row(db, o).mtime <= clock
      <4>1. CASE o \in part
        BY <2>8, <2>17, <3>1, <4>1 DEF Aged, SameRow
      <4>2. CASE o \notin part
        BY <2>6, <2>17, <3>2, <4>2 DEF Aged, Present
      <4> QED BY <4>1, <4>2
    <3>3. Aged(db)
      BY <3>2 DEF Aged
    <3> QED BY <3>1, <3>3
  <2>20. Kept(mine, sent)
    <3> SUFFICES ASSUME NEW o \in Objects \ Graved(sent), Present(mine, o)
                 PROVE  Present(sent, o) /\ Covers(o, Row(sent, o), Row(mine, o))
      BY DEF Kept
    <3>1. Present(s.db, o) /\ Covers(o, Row(s.db, o), Row(mine, o))
      BY <2>6, <2>9 DEF Kept
    <3>2. Present(sent, o) /\ Covers(o, Row(sent, o), Row(s.db, o))
      BY <2>10, <2>11, <3>1
    <3>3. /\ Row(mine, o).mtime \in Nat /\ Row(s.db, o).mtime \in Nat /\ Row(sent, o).mtime \in Nat
          /\ o \in Notes => /\ Row(mine, o) \in NoteRows /\ Row(s.db, o) \in NoteRows
                            /\ Row(sent, o) \in NoteRows
      BY <2>3, <2>8, <3>1, <3>2, PresentRow
    <3>4. Covers(o, Row(sent, o), Row(mine, o))
      BY <3>1, <3>2, <3>3, CoversTransitive
    <3> QED BY <3>2, <3>4
  <2>21. \A o \in part : Covers(o, Row(db, o), Row(sent, o)) /\ Covers(o, Row(sent, o), Row(db, o))
    <3> SUFFICES ASSUME NEW o \in part
                 PROVE  Covers(o, Row(db, o), Row(sent, o)) /\ Covers(o, Row(sent, o), Row(db, o))
      OBVIOUS
    <3>1. Present(db, o) /\ Present(sent, o) /\ SameRow(o, Row(db, o), Row(sent, o)) /\ o \in Objects
      BY <2>7, <2>8, <2>17
    <3>2. /\ Row(db, o).mtime \in Nat
          /\ o \in Notes => Row(db, o) \in NoteRows /\ Row(sent, o) \in NoteRows
      BY <2>8, <2>17, <3>1, PresentRow
    <3> QED BY <3>1, <3>2, SameRowCovers
  <2>22. Grown(server, db)
    <3>1. /\ server.usn = s.usn /\ session.db.usn = server.usn /\ server.usn \in Nat
      BY <2>3, <2>6, CollectionTables DEF SameStamps
    <3>2. \A o \in Objects :
            db.grave[o] = server.grave[o] \/ (server.grave[o] = None /\ db.grave[o] = server.usn)
      BY <2>6, <2>17 DEF Grown
    <3>3. ASSUME NEW o \in Objects
          PROVE  \/ Row(db, o) = Row(server, o)
                 \/ o \in Graved(db)
                 \/ /\ Present(db, o) /\ Row(db, o).usn >= server.usn
                    /\ Present(server, o) => Covers(o, Row(db, o), Row(server, o))
      <4>1. \/ Row(session.db, o) = Row(server, o)
            \/ o \in Graved(session.db)
            \/ /\ Present(session.db, o) /\ Row(session.db, o).usn >= server.usn
               /\ Present(server, o) => Covers(o, Row(session.db, o), Row(server, o))
        BY <2>6 DEF Grown
      <4>2. CASE o \in part /\ o \notin Graved(db) /\ Row(db, o) # Row(session.db, o)
        <5>1. Present(db, o) /\ Row(db, o).usn = server.usn /\ Present(sent, o)
          BY <2>8, <2>17, <3>1, <4>2
        <5>2. ASSUME Present(server, o) PROVE Covers(o, Row(db, o), Row(server, o))
          <6>1. Present(session.db, o)
            BY <2>18, <4>1, <4>2, <5>2 DEF Present
          <6>2. Covers(o, Row(session.db, o), Row(server, o))
            BY <2>3, <2>18, <4>1, <4>2, <5>2, CoversReflexive
          <6>3. /\ Row(db, o).mtime \in Nat /\ Row(sent, o).mtime \in Nat
                /\ Row(session.db, o).mtime \in Nat /\ Row(server, o).mtime \in Nat
                /\ o \in Notes => /\ Row(db, o) \in NoteRows /\ Row(sent, o) \in NoteRows
                                  /\ Row(session.db, o) \in NoteRows /\ Row(server, o) \in NoteRows
            BY <2>3, <2>8, <2>17, <5>1, <5>2, <6>1, PresentRow
          <6>4. Covers(o, Row(sent, o), Row(session.db, o)) /\ Covers(o, Row(db, o), Row(sent, o))
            BY <2>16, <2>21, <4>2, <6>1
          <6>5. Covers(o, Row(sent, o), Row(server, o))
            BY <6>2, <6>3, <6>4, CoversTransitive
          <6> QED BY <6>3, <6>4, <6>5, CoversTransitive
        <5> QED BY <3>1, <5>1, <5>2
      <4>3. CASE o \in Graved(db) \/ Row(db, o) = Row(session.db, o)
        BY <2>18, <4>1, <4>3 DEF Present
      <4> QED BY <2>17, <4>2, <4>3
    <3> QED BY <3>2, <3>3 DEF Grown
  <2>23. Level(sent, db, {})
    <3> SUFFICES ASSUME NEW o \in Objects \ (Graved(sent) \union Graved(db))
                 PROVE  /\ Settled(sent, o) => Present(db, o) /\ Covers(o, Row(db, o), Row(sent, o))
                        /\ Present(db, o) => Present(sent, o) /\ Covers(o, Row(sent, o), Row(db, o))
                        /\ Settled(sent, o) => SameRow(o, Row(sent, o), Row(db, o))
      BY DEF Level
    <3>1. CASE o \in part
      <4>1. SameRow(o, Row(sent, o), Row(db, o))
        BY <2>17, <3>1 DEF SameRow
      <4> QED BY <2>8, <2>17, <2>21, <3>1, <4>1
    <3>2. CASE o \notin part
      <4>1. Row(sent, o) = Row(s.db, o) /\ Row(db, o) = Row(session.db, o)
        BY <2>8, <2>17, <3>2
      <4>2. o \in Objects \ (Graved(s.db) \union Graved(session.db))
        BY <2>9, <2>18
      <4> QED BY <2>6, <4>1, <4>2 DEF Level, Settled, Present
    <3> QED BY <3>1, <3>2
  <2>24. TakenFrom(db, mine, server)
    BY <2>6, <2>13, <2>17, TakenThrough
  <2>25. /\ x.pc = IF Short(part) THEN "sanity" ELSE "send"
         /\ x.db = sent /\ x.usn = s.usn /\ x.newer = s.newer
    BY DEF Step, s
  <2>26. x \in Syncs
    <3>1. (IF Short(part) THEN "sanity" ELSE "send") \in Open \ {"graves"}
      BY DEF Open
    <3> QED BY <2>3, <2>8, <3>1, SyncSteps DEF Step, s
  <2>27. /\ ses \in Sessions /\ ses.db = db /\ ses.owner = session.owner
         /\ ses.usn = session.usn /\ ses.since = session.since /\ ses.newer = session.newer
    BY <2>3, <2>17 DEF Sessions
  <2> HIDE DEF x, ses
  <2>28. RowsLink(x, ses)
    <3>1. x.pc \in {"send", "sanity"}
      BY <2>25
    <3> QED BY <2>6, <2>8, <2>9, <2>17, <2>18, <2>23, <2>25, <2>27, <3>1 DEF RowsLink, Rest
  <2>29. SameStamps(mine, server, x, ses)
    BY <2>6, <2>8, <2>17, <2>25, <2>27 DEF SameStamps
  <2>30. LinkOf(mine, server, x, ses)
    BY <2>12, <2>13, <2>17, <2>19, <2>20, <2>22, <2>24, <2>25, <2>27, <2>28, <2>29 DEF LinkOf
  <2>31. ses.owner = c /\ x.pc \in Open
    BY <2>1, <2>25, <2>27 DEF Open
  <2> QED BY <2>1, <2>26, <2>27, <2>30, <2>31, LinkedStep DEF mine
<1> QED BY <1>2, <1>3

-----------------------------------------------------------------------------
(* What a step that commits has to show.                                     *)

LEMMA OneTextSymmetric == \A x, y : OneText(x, y) => OneText(y, x)
  BY DEF OneText

LEMMA WordsKept ==
  ASSUME NEW x, NEW y, NEW mine, NEW theirs, clock \in Nat, Aged(y), y \in Collections,
         \A n \in Notes \ x.ids : x.note[n] # Gone =>
           SameNote(x, mine, n) \/ SameNote(x, theirs, n) \/ x.note[n].mtime = clock + 1,
         OneText(mine, y), OneText(theirs, y)
  PROVE  OneText(x, y)
<1> SUFFICES ASSUME NEW n \in Notes \ (x.ids \union y.ids),
                    x.note[n] # Gone, y.note[n] # Gone, x.note[n].mtime = y.note[n].mtime
             PROVE  x.note[n].text = y.note[n].text
  BY DEF OneText
<1>1. y.note[n].mtime <= clock /\ y.note[n].mtime \in Nat
  <2>1. Row(y, n) = y.note[n] /\ n \in Objects /\ Present(y, n)
    BY RowOf DEF Objects, Present
  <2> QED BY <2>1, PresentRow DEF Aged
<1>2. SameNote(x, mine, n) \/ SameNote(x, theirs, n)
  BY <1>1
<1> QED BY <1>2 DEF SameNote, OneText

LEMMA CommitStep ==
  ASSUME IInv, NEW c \in Clients, NEW col \in Collections, NEW srv \in Collections,
         local' = [local EXCEPT ![c] = col], server' = srv, clock' = clock + 1,
         edits' \in Nat, faults' \in Nat, sync' = [sync EXCEPT ![c] = Idle],
         session' = None \/ (srv = server /\ session' = session),
         srv = server \/ (srv.mod = clock + 1 /\ (srv.scm = server.scm \/ srv.scm = clock + 1)),
         Sound(col), Sound(srv), Aged(srv),
         \A o \in Objects : Present(col, o) => Row(col, o).mtime <= clock + 1,
         col.scm <= clock + 1, col.mod <= clock + 1,
         TakenFrom(srv, local[c], server),
         \A n \in Notes \ col.ids : col.note[n] # Gone =>
           SameNote(col, local[c], n) \/ SameNote(col, server, n) \/ col.note[n].mtime = clock + 1,
         col.scm = srv.scm => Behind(col, srv),
         \A d \in Clients \ {c} : local[d].scm = srv.scm => Behind(local[d], srv),
         col.mod = srv.mod => SameContent(col, srv)
  PROVE  IInv'
<1>1. /\ local \in [Clients -> Collections] /\ server \in Collections
      /\ session \in Sessions \union {None} /\ sync \in [Clients -> Syncs] /\ clock \in Nat
  BY DEF IInv, TypeOK
<1>2. /\ local'[c] = col /\ sync'[c] = Idle
      /\ \A d \in Clients \ {c} : local'[d] = local[d] /\ sync'[d] = sync[d]
      /\ local' \in [Clients -> Collections]
  BY <1>1
<1>3. clock' \in Nat /\ clock <= clock'
  BY <1>1
<1>4. Idle \in Syncs /\ Idle.pc = "idle"
  BY DEF Syncs, Idle
<1>5. TypeOK'
  BY <1>1, <1>2, <1>3, <1>4 DEF TypeOK
<1>6. /\ srv.scm \in Nat /\ srv.mod \in Nat /\ col.scm \in Nat /\ col.mod \in Nat
      /\ server.scm \in Nat /\ server.mod \in Nat
      /\ \A d \in Clients : local[d].scm \in Nat /\ local[d].mod \in Nat
  BY <1>1, CollectionTables
<1>7. /\ server.scm <= clock /\ server.mod <= clock
      /\ \A d \in Clients : local[d].scm <= clock /\ local[d].mod <= clock
  BY DEF IInv, Stamps
<1>8. Stamps'
  BY <1>1, <1>2, <1>3, <1>6, <1>7 DEF Stamps
<1>9. \A x \in Committed' : x = col \/ x = srv \/ \E d \in Clients \ {c} : x = local[d]
  BY <1>2 DEF Committed
<1>10. /\ \A x \in Committed : Sound(x) /\ Aged(x) /\ x \in Collections
       /\ local[c] \in Committed /\ server \in Committed
       /\ \A d \in Clients : local[d] \in Committed
  BY <1>1 DEF IInv, AllSound, Committed
<1>11. AllSound'
  <2> SUFFICES ASSUME NEW x \in Committed'
               PROVE  Sound(x) /\ \A o \in Objects : Present(x, o) => Row(x, o).mtime <= clock'
    BY DEF AllSound, Aged
  <2>1. CASE x = col
    BY <2>1
  <2>2. ASSUME x \in Collections, Sound(x), Aged(x)
        PROVE  \A o \in Objects : Present(x, o) => Row(x, o).mtime <= clock'
    BY <1>1, <1>3, <2>2, PresentRow DEF Aged
  <2> QED BY <1>9, <1>10, <2>1, <2>2
<1>12. Texted'
  <2>1. \A x, y \in Committed : OneText(x, y)
    BY DEF IInv, Texted
  <2>2. ASSUME NEW y \in Committed PROVE OneText(srv, y)
    <3>1. OneText(local[c], y) /\ OneText(server, y) /\ Aged(y) /\ y \in Collections
      BY <1>10, <2>1
    <3> QED BY <1>1, <3>1, WordsKept DEF TakenFrom
  <2>3. OneText(srv, srv) /\ OneText(col, col)
    BY DEF OneText
  <2>4. ASSUME NEW y \in Committed PROVE OneText(col, y)
    <3>1. OneText(local[c], y) /\ OneText(server, y) /\ Aged(y) /\ y \in Collections
      BY <1>10, <2>1
    <3> QED BY <1>1, <3>1, WordsKept
  <2>5. OneText(col, srv)
    <3>1. OneText(local[c], srv) /\ OneText(server, srv)
      BY <1>10, <2>2, OneTextSymmetric
    <3> QED BY <1>1, <3>1, WordsKept
  <2>6. /\ OneText(srv, col)
        /\ \A y \in Committed : OneText(y, col) /\ OneText(y, srv)
    BY <2>2, <2>4, <2>5, OneTextSymmetric
  <2> SUFFICES ASSUME NEW x \in Committed', NEW y \in Committed'
               PROVE  OneText(x, y)
    BY DEF Texted
  <2>7. (x = col \/ x = srv \/ x \in Committed) /\ (y = col \/ y = srv \/ y \in Committed)
    BY <1>9, <1>10
  <2> QED BY <2>1, <2>2, <2>3, <2>4, <2>5, <2>6, <2>7
<1>13. AllBehind'
  <2> SUFFICES ASSUME NEW d \in Clients, local'[d].scm = srv.scm
               PROVE  Behind(local'[d], srv)
    BY DEF AllBehind
  <2> QED BY <1>2
<1>14. ModTells'
  <2> SUFFICES ASSUME NEW d \in Clients, local'[d].mod = srv.mod
               PROVE  SameContent(local'[d], srv)
    BY DEF ModTells
  <2>1. CASE d = c
    BY <1>2, <2>1
  <2>2. CASE d # c
    <3>1. local'[d] = local[d] /\ local[d].mod <= clock /\ local[d].mod \in Nat
      BY <1>2, <1>6, <1>7, <2>2
    <3>2. srv = server
      BY <1>1, <3>1
    <3>3. SameContent(local[d], server)
      BY <3>1, <3>2 DEF IInv, ModTells
    <3> QED BY <3>1, <3>2, <3>3
  <2> QED BY <2>1, <2>2
<1>15. AllDecided'
  <2> SUFFICES ASSUME NEW d \in Clients PROVE Decided(d)'
    BY DEF AllDecided
  <2>1. CASE d = c
    BY <1>2, <1>4, <2>1 DEF Decided
  <2>2. CASE d # c
    BY <1>2, <1>3, <2>2, DecidedUnmoved DEF IInv, AllDecided
  <2> QED BY <2>1, <2>2
<1>16. AllLinked'
  <2> SUFFICES ASSUME NEW d \in Clients, Linked(d)' PROVE Link(d)'
    BY DEF AllLinked
  <2>1. d # c
    BY <1>2, <1>4 DEF Linked, Open
  <2>2. session' = session /\ server' = server /\ Linked(d)
    BY <1>2, <2>1 DEF Linked
  <2>3. Link(d)
    BY <2>2 DEF IInv, AllLinked
  <2> QED BY <1>2, <1>3, <2>1, <2>2, <2>3, LinkUnmoved DEF IInv
<1> QED BY <1>5, <1>8, <1>11, <1>12, <1>13, <1>14, <1>15, <1>16 DEF IInv

\* Collections that differ in their header only
LEMMA SameTables ==
  ASSUME NEW x, NEW y, x.ids = y.ids, x.grave = y.grave,
         x.note = y.note, x.card = y.card, x.deck = y.deck
  PROVE  /\ \A o : Row(x, o) = Row(y, o)
         /\ \A o : Present(x, o) <=> Present(y, o)
         /\ Graved(x) = Graved(y)
         /\ Sound(y) => Sound(x)
         /\ Aged(y) => Aged(x)
         /\ \A a, b : TakenFrom(y, a, b) => TakenFrom(x, a, b)
         /\ \A n \in Notes \ x.ids : x.note[n] # Gone => SameNote(x, y, n)
<1>1. \A o : Row(x, o) = Row(y, o)
  BY DEF Row
<1>2. \A o : Present(x, o) <=> Present(y, o)
  BY <1>1 DEF Present
<1>3. Graved(x) = Graved(y)
  BY DEF Graved
<1>4. Sound(y) => Sound(x)
  BY <1>1, <1>3 DEF Sound, Clean, Plain
<1>5. Aged(y) => Aged(x)
  BY <1>1, <1>2 DEF Aged
<1>6. /\ \A a, b : TakenFrom(y, a, b) => TakenFrom(x, a, b)
      /\ \A n \in Notes \ x.ids : x.note[n] # Gone => SameNote(x, y, n)
  BY DEF TakenFrom, SameNote
<1> QED BY <1>1, <1>2, <1>3, <1>4, <1>5, <1>6

LEMMA LevelOfSame ==
  ASSUME NEW x, NEW y, NEW u, NEW v, NEW rest, Level(u, v, rest),
         \A o : Row(x, o) = Row(u, o), \A o : Row(y, o) = Row(v, o),
         Graved(x) = Graved(u), Graved(y) = Graved(v)
  PROVE  Level(x, y, rest)
  BY DEF Level, Settled, Present

LEMMA LevelReflexive == ASSUME NEW x \in Collections, NEW rest PROVE Level(x, x, rest)
  BY CoversReflexive DEF Level, Settled, SameRow

\* Another device is as far behind the server as it was, and no further.
LEMMA BehindGrown ==
  ASSUME NEW mine \in Collections, NEW old \in Collections, NEW new \in Collections,
         Behind(mine, old), Grown(old, new), old.usn <= new.usn
  PROVE  Behind(mine, new)
<1>1. /\ mine.usn \in Nat /\ old.usn \in Nat /\ new.usn \in Nat /\ mine.usn <= old.usn
      /\ old.grave \in [Objects -> Int \union {None}]
  BY CollectionTables DEF Behind
<1>2. mine.usn <= new.usn
  BY <1>1
<1>3. Graved(old) \subseteq Graved(new)
  BY DEF Grown, Graved
<1>4. \A o \in Objects : mine.grave[o] # -1 /\ mine.grave[o] # None => o \in Graved(new)
  BY <1>3 DEF Behind
<1>5. \A o \in Objects : new.grave[o] # None /\ new.grave[o] < mine.usn => o \in Graved(mine)
  <2> SUFFICES ASSUME NEW o \in Objects, new.grave[o] # None, new.grave[o] < mine.usn
               PROVE  o \in Graved(mine)
    OBVIOUS
  <2>1. new.grave[o] # old.usn
    BY <1>1
  <2>2. new.grave[o] = old.grave[o]
    BY <2>1 DEF Grown
  <2> QED BY <2>2 DEF Behind
<1>6. Level(mine, new, Unseen(new, mine.usn))
  <2> SUFFICES ASSUME NEW o \in Objects \ (Graved(mine) \union Graved(new))
               PROVE  LET rest == Unseen(new, mine.usn) IN
        /\ Settled(mine, o) => Present(new, o) /\ Covers(o, Row(new, o), Row(mine, o))
        /\ Present(new, o) /\ o \notin rest => Present(mine, o) /\ Covers(o, Row(mine, o), Row(new, o))
        /\ Settled(mine, o) /\ o \notin rest => SameRow(o, Row(mine, o), Row(new, o))
    BY DEF Level
  <2>1. /\ Settled(mine, o) => Present(old, o) /\ Covers(o, Row(old, o), Row(mine, o))
        /\ Present(old, o) /\ o \notin Unseen(old, mine.usn) =>
             Present(mine, o) /\ Covers(o, Row(mine, o), Row(old, o))
        /\ Settled(mine, o) /\ o \notin Unseen(old, mine.usn) => SameRow(o, Row(mine, o), Row(old, o))
    BY <1>3 DEF Behind, Level
  <2>2. CASE Row(new, o) = Row(old, o)
    BY <2>1, <2>2 DEF Present, Unseen
  <2>3. CASE Row(new, o) # Row(old, o)
    <3>1. /\ Present(new, o) /\ Row(new, o).usn >= old.usn
          /\ Present(old, o) => Covers(o, Row(new, o), Row(old, o))
      BY <2>3 DEF Grown
    <3>2. o \in Unseen(new, mine.usn)
      <4>1. Row(new, o).usn \in Int
        BY <3>1, PresentRow
      <4> QED BY <1>1, <3>1, <4>1 DEF Unseen
    <3>3. ASSUME Settled(mine, o) PROVE Covers(o, Row(new, o), Row(mine, o))
      <4>1. Present(mine, o) /\ Present(old, o)
        BY <2>1, <3>3 DEF Settled
      <4>2. Covers(o, Row(new, o), Row(old, o)) /\ Covers(o, Row(old, o), Row(mine, o))
        BY <2>1, <3>1, <3>3, <4>1
      <4>3. /\ Row(mine, o).mtime \in Nat /\ Row(old, o).mtime \in Nat /\ Row(new, o).mtime \in Nat
            /\ o \in Notes => /\ Row(mine, o) \in NoteRows /\ Row(old, o) \in NoteRows
                              /\ Row(new, o) \in NoteRows
        BY <3>1, <4>1, PresentRow
      <4> QED BY <4>2, <4>3, CoversTransitive
    <3> QED BY <3>1, <3>2, <3>3
  <2> QED BY <2>2, <2>3
<1> QED BY <1>2, <1>4, <1>5, <1>6 DEF Behind

-----------------------------------------------------------------------------
(* The steps that commit.                                                    *)

LEMMA ConflictStep == ASSUME IInv, NEW c \in Clients, Conflict(c) PROVE IInv'
  BY Abandoned DEF Conflict

LEMMA TakenAsItIs == \A x, y : TakenFrom(x, y, x) /\ TakenFrom(x, x, y)
  BY DEF TakenFrom, SameNote

\* What a user changes is marked, so the device stays as far behind as it was.
LEMMA EditedBehind ==
  ASSUME NEW old \in Collections, NEW new, NEW theirs \in Collections,
         Edited(old, new), Behind(old, theirs)
  PROVE  Behind(new, theirs)
<1>1. /\ new \in Collections /\ new.usn = old.usn
      /\ \A o \in Objects : new.grave[o] = old.grave[o] \/ (old.grave[o] = None /\ new.grave[o] = -1)
  BY DEF Edited
<1>2. -1 # None
  <2>1. -1 \in Int
    OBVIOUS
  <2> QED BY <2>1, SyncAssumption
<1>3. Graved(old) \subseteq Graved(new)
  BY <1>1, <1>2 DEF Graved
<1>4. \A o \in Objects : new.grave[o] # -1 /\ new.grave[o] # None => o \in Graved(theirs)
  BY <1>1 DEF Behind
<1>5. \A o \in Objects : theirs.grave[o] # None /\ theirs.grave[o] < new.usn => o \in Graved(new)
  BY <1>1, <1>3 DEF Behind
<1>6. Level(new, theirs, Unseen(theirs, new.usn))
  <2> DEFINE rest == Unseen(theirs, new.usn)
  <2> SUFFICES ASSUME NEW o \in Objects \ (Graved(new) \union Graved(theirs))
               PROVE  /\ Settled(new, o) =>
                           Present(theirs, o) /\ Covers(o, Row(theirs, o), Row(new, o))
                      /\ Present(theirs, o) /\ o \notin rest =>
                           Present(new, o) /\ Covers(o, Row(new, o), Row(theirs, o))
                      /\ Settled(new, o) /\ o \notin rest => SameRow(o, Row(new, o), Row(theirs, o))
    BY DEF Level
  <2> HIDE DEF rest
  <2>1. /\ Settled(old, o) =>
             Present(theirs, o) /\ Covers(o, Row(theirs, o), Row(old, o))
        /\ Present(theirs, o) /\ o \notin rest =>
             Present(old, o) /\ Covers(o, Row(old, o), Row(theirs, o))
        /\ Settled(old, o) /\ o \notin rest => SameRow(o, Row(old, o), Row(theirs, o))
    BY <1>1, <1>3 DEF Behind, Level, rest
  <2>2. CASE Row(new, o) = Row(old, o)
    BY <2>1, <2>2 DEF Settled, Present
  <2>3. CASE Row(new, o) # Row(old, o)
    <3>1. /\ Present(old, o) /\ Present(new, o) /\ ~Settled(new, o)
          /\ Covers(o, Row(new, o), Row(old, o))
      BY <2>3 DEF Edited, Settled
    <3>2. ASSUME Present(theirs, o), o \notin rest PROVE Covers(o, Row(new, o), Row(theirs, o))
      <4>1. Covers(o, Row(old, o), Row(theirs, o))
        BY <2>1, <3>2
      <4>2. /\ Row(new, o).mtime \in Nat /\ Row(old, o).mtime \in Nat /\ Row(theirs, o).mtime \in Nat
            /\ o \in Notes => /\ Row(new, o) \in NoteRows /\ Row(old, o) \in NoteRows
                              /\ Row(theirs, o) \in NoteRows
        BY <1>1, <3>1, <3>2, PresentRow
      <4> QED BY <3>1, <4>1, <4>2, CoversTransitive
    <3> QED BY <3>1, <3>2
  <2> QED BY <2>2, <2>3
<1>7. new.usn <= theirs.usn
  BY <1>1 DEF Behind
<1> QED BY <1>4, <1>5, <1>6, <1>7 DEF Behind

LEMMA UserStep == ASSUME IInv, NEW c \in Clients, User(c) PROVE IInv'
<1>1. /\ sync[c].pc = "idle" /\ clock' = clock + 1 /\ edits' = edits + 1
      /\ UNCHANGED <<server, session, sync, faults>>
      /\ \E col : Edited(local[c], col) /\ col.mod = clock + 1 /\ local' = [local EXCEPT ![c] = col]
  BY UserEdits DEF IInv
<1>2. PICK col : /\ Edited(local[c], col) /\ col.mod = clock + 1
                 /\ local' = [local EXCEPT ![c] = col]
  BY <1>1
<1>3. /\ local[c] \in Collections /\ server \in Collections /\ col \in Collections
      /\ clock \in Nat /\ edits' \in Nat /\ faults' \in Nat
      /\ sync \in [Clients -> Syncs]
  BY <1>1, <1>2 DEF IInv, TypeOK, Edited
<1>4. /\ local[c].scm \in Nat /\ server.scm \in Nat /\ server.mod \in Nat /\ col.scm \in Nat
      /\ local[c].scm <= clock /\ server.scm <= clock /\ server.mod <= clock
  BY <1>3, CollectionTables DEF IInv, Stamps
<1>5. Sound(local[c]) /\ Sound(server) /\ Aged(local[c]) /\ Aged(server) /\ Sound(col)
  BY <1>2 DEF IInv, AllSound, Committed, Edited
<1>6. sync' = [sync EXCEPT ![c] = Idle]
  <2>1. sync[c] = Idle
    <3>1. sync[c] \in Syncs
      BY <1>3
    <3> QED BY <1>1, <3>1 DEF Syncs, Idle
  <2> QED BY <1>1, <1>3, <2>1
<1>7. \A o \in Objects : Present(col, o) => Row(col, o).mtime <= clock + 1
  <2> SUFFICES ASSUME NEW o \in Objects, Present(col, o) PROVE Row(col, o).mtime <= clock + 1
    OBVIOUS
  <2>1. CASE Row(col, o) = Row(local[c], o)
    <3>1. Present(local[c], o)
      BY <2>1 DEF Present
    <3>2. Row(local[c], o).mtime \in Nat /\ Row(local[c], o).mtime <= clock
      BY <1>3, <1>5, <3>1, PresentRow DEF Aged
    <3> QED BY <1>3, <2>1, <3>2
  <2>2. CASE Row(col, o) # Row(local[c], o)
    BY <1>2, <2>2 DEF Edited, Present
  <2> QED BY <2>1, <2>2
<1>8. col.scm <= clock + 1 /\ col.mod <= clock + 1
  <2>1. col.scm = local[c].scm \/ col.scm = clock + 1
    BY <1>2 DEF Edited
  <2> QED BY <1>2, <1>3, <1>4, <2>1
<1>9. TakenFrom(server, local[c], server)
  BY TakenAsItIs
<1>10. \A n \in Notes \ col.ids : col.note[n] # Gone =>
         SameNote(col, local[c], n) \/ SameNote(col, server, n) \/ col.note[n].mtime = clock + 1
  BY <1>2 DEF Edited
<1>11. col.scm = server.scm => Behind(col, server)
  <2> SUFFICES ASSUME col.scm = server.scm PROVE Behind(col, server)
    OBVIOUS
  <2>1. local[c].scm = server.scm
    <3>1. col.scm = local[c].scm \/ col.scm = clock + 1
      BY <1>2 DEF Edited
    <3> QED BY <1>3, <1>4, <3>1
  <2>2. Behind(local[c], server)
    BY <2>1 DEF IInv, AllBehind
  <2> QED BY <1>2, <1>3, <2>2, EditedBehind
<1>12. \A d \in Clients \ {c} : local[d].scm = server.scm => Behind(local[d], server)
  BY DEF IInv, AllBehind
<1>13. col.mod # server.mod
  BY <1>2, <1>3, <1>4
<1>14. server' = server /\ session' = session
  BY <1>1
<1> QED BY <1>1, <1>2, <1>3, <1>5, <1>6, <1>7, <1>8, <1>9, <1>10, <1>11, <1>12, <1>13, <1>14, CommitStep

\* A device with nothing left to send has only settled rows.
LEMMA NothingMarked ==
  ASSUME NEW col \in Collections, ~Unsent(col), NEW o \in Objects, Present(col, o)
  PROVE  Settled(col, o)
<1>1. /\ col.note \in [Notes -> NoteRows \union {Gone}]
      /\ col.card \in [Cards -> NativeRows \union {Gone}]
      /\ col.deck \in [Decks -> NativeRows \union {Gone}]
  BY CollectionTables
<1>2. \A t \in {col.note, col.card, col.deck} : PendingRows(t, -1) = {}
  BY DEF Unsent
<1>3. \A t \in {col.note, col.card, col.deck} : \A r \in DOMAIN t : t[r] # Gone => t[r].usn # -1
  BY <1>2 DEF PendingRows, Pending
<1>4. Row(col, o) # Gone => Row(col, o).usn # -1
  BY <1>1, <1>3 DEF Row, Objects
<1> QED BY <1>4 DEF Settled, Present

LEMMA SanityCheckStep == ASSUME IInv, NEW c \in Clients, SanityCheck(c) PROVE IInv'
<1> DEFINE s == sync[c]
           mine == local[c]
<1>1. Linked(c) /\ s.pc = "sanity"
  BY DEF SanityCheck, Active, Linked, Open
<1>2. /\ LinkOf(mine, server, s, session) /\ mine \in Collections /\ server \in Collections
      /\ s.db \in Collections /\ s.newer \in BOOLEAN /\ s.usn \in Nat
      /\ session \in Sessions /\ session # None
      /\ Sound(mine) /\ Sound(server) /\ Aged(mine) /\ Aged(server)
  BY <1>1, LinkFacts
<1>3. /\ local \in [Clients -> Collections] /\ clock \in Nat /\ edits \in Nat /\ faults \in Nat
      /\ clock + 1 \in Nat
  BY DEF IInv, TypeOK
<1>4. CASE Unsent(s.db)
  <2>1. Abandon(c)
    BY <1>4 DEF SanityCheck
  <2> QED BY <2>1, Abandoned
<1>5. CASE ~Unsent(s.db) /\ (Unsent(session.db) \/ Counts(s.db) # Counts(session.db))
  <2> DEFINE col == [mine EXCEPT !.scm = clock + 1]
  <2>1. /\ sync' = [sync EXCEPT ![c] = Idle] /\ session' = None /\ clock' = clock + 1
        /\ local' = [local EXCEPT ![c].scm = clock + 1] /\ UNCHANGED <<server, edits, faults>>
    BY <1>5 DEF SanityCheck
  <2>2. local' = [local EXCEPT ![c] = col]
    BY <2>1, <1>3
  <2>3. /\ col \in Collections /\ col.scm = clock + 1 /\ col.mod = mine.mod /\ col.conf = mine.conf
        /\ col.ids = mine.ids /\ col.grave = mine.grave /\ col.note = mine.note
        /\ col.card = mine.card /\ col.deck = mine.deck
    BY <1>2, <1>3 DEF Collections
  <2> HIDE DEF col
  <2>4. /\ \A o : Row(col, o) = Row(mine, o)
        /\ \A o : Present(col, o) <=> Present(mine, o)
        /\ Sound(col)
        /\ \A n \in Notes \ col.ids : col.note[n] # Gone => SameNote(col, mine, n)
    BY <1>2, <2>3, SameTables
  <2>5. \A o \in Objects : Present(col, o) => Row(col, o).mtime <= clock + 1
    <3> SUFFICES ASSUME NEW o \in Objects, Present(col, o) PROVE Row(col, o).mtime <= clock + 1
      OBVIOUS
    <3>1. Row(mine, o).mtime \in Nat /\ Row(mine, o).mtime <= clock
      BY <1>2, <2>4, PresentRow DEF Aged
    <3> QED BY <1>3, <2>4, <3>1
  <2>6. /\ server.scm \in Nat /\ server.scm <= clock /\ mine.mod \in Nat /\ mine.mod <= clock
    BY <1>2, CollectionTables DEF IInv, Stamps
  <2>7. col.scm # server.scm /\ col.scm <= clock + 1 /\ col.mod <= clock + 1
    BY <1>3, <2>3, <2>6
  <2>8. col.mod = server.mod => SameContent(col, server)
    <3>1. mine.mod = server.mod => SameContent(mine, server)
      BY DEF IInv, ModTells
    <3> QED BY <2>3, <2>4, <3>1 DEF SameContent
  <2>9. \A d \in Clients \ {c} : local[d].scm = server.scm => Behind(local[d], server)
    BY DEF IInv, AllBehind
  <2>10. TakenFrom(server, mine, server) /\ edits' \in Nat /\ faults' \in Nat
    BY <1>3, <2>1, TakenAsItIs
  <2> QED BY <1>2, <2>1, <2>2, <2>3, <2>4, <2>5, <2>7, <2>8, <2>9, <2>10, CommitStep
<1>6. CASE ~Unsent(s.db) /\ ~(Unsent(session.db) \/ Counts(s.db) # Counts(session.db))
  <2> DEFINE x == Step(c, "finish", s.db)
  <2>1. /\ sync' = [sync EXCEPT ![c] = x]
        /\ UNCHANGED <<local, server, session, clock, edits, faults>>
    BY <1>6 DEF SanityCheck
  <2>2. x \in Syncs /\ x.pc = "finish" /\ x.newer = s.newer /\ x.usn = s.usn /\ x.db = s.db
    BY <1>2, SyncSteps DEF Step, Open
  <2> HIDE DEF x
  <2>3. \A o \in Objects : Present(s.db, o) => Settled(s.db, o)
    BY <1>2, <1>6, NothingMarked
  <2>4. SameStamps(mine, server, x, session)
    BY <1>2, <2>2 DEF LinkOf, SameStamps
  <2>5. RowsLink(x, session)
    BY <1>1, <1>2, <2>2, <2>3 DEF LinkOf, RowsLink, Rest
  <2>6. LinkOf(mine, server, x, session)
    BY <1>1, <1>2, <2>2, <2>4, <2>5 DEF LinkOf
  <2>7. session' = session /\ session \in Sessions \union {None} /\ x.pc \in Open
    BY <1>2, <2>1, <2>2 DEF Open
  <2> QED BY <2>1, <2>2, <2>6, <2>7, LinkedStep
<1> QED BY <1>4, <1>5, <1>6

LEMMA GrownHeader ==
  ASSUME NEW old, NEW new, NEW x, Grown(old, new), x.grave = new.grave,
         \A o : Row(x, o) = Row(new, o)
  PROVE  Grown(old, x)
  BY DEF Grown, Graved, Present

\* Two sides whose rows are all settled, and level, have the same content.
LEMMA LevelAndSettled ==
  ASSUME NEW x, NEW y, Level(x, y, {}), Clean(x), Clean(y), Graved(x) = Graved(y),
         x.conf = y.conf, \A o \in Objects : Present(x, o) => Settled(x, o)
  PROVE  SameContent(x, y)
<1>1. ASSUME NEW o \in Objects, o \in Graved(x) \union Graved(y)
      PROVE  ~Present(x, o) /\ ~Present(y, o)
  BY <1>1 DEF Clean, Present
<1>2. ASSUME NEW o \in Objects, o \notin Graved(x) \union Graved(y)
      PROVE  /\ Present(x, o) <=> Present(y, o)
             /\ Present(x, o) => SameRow(o, Row(x, o), Row(y, o))
  BY <1>2 DEF Level
<1> QED BY <1>1, <1>2 DEF SameContent

LEMMA SameLevelIsBehind ==
  ASSUME NEW x, NEW y, Level(x, y, {}), Graved(x) = Graved(y), x.usn = y.usn, x.usn \in Nat
  PROVE  Behind(x, y)
<1>1. Level(x, y, Unseen(y, x.usn))
  BY LevelWeakened
<1>2. /\ \A o \in Objects : x.grave[o] # -1 /\ x.grave[o] # None => o \in Graved(y)
      /\ \A o \in Objects : y.grave[o] # None /\ y.grave[o] < x.usn => o \in Graved(x)
  BY DEF Graved
<1>3. x.usn <= y.usn
  OBVIOUS
<1> QED BY <1>1, <1>2, <1>3 DEF Behind

LEMMA FinishStep ==
  ASSUME IInv, NEW c \in Clients, NEW replied \in BOOLEAN, Finish(c, replied) PROVE IInv'
<1> DEFINE s == sync[c]
           mine == local[c]
           theirs == session.db
           srv == [theirs EXCEPT !.usn = @ + 1, !.mod = clock + 1]
           copy == [s.db EXCEPT !.usn = s.usn + 1, !.mod = clock + 1]
           col == IF replied THEN copy ELSE mine
<1>1. Linked(c) /\ s.pc = "finish"
  BY DEF Finish, Active, Linked, Open
<1>2. /\ LinkOf(mine, server, s, session) /\ mine \in Collections /\ server \in Collections
      /\ s.db \in Collections /\ s.newer \in BOOLEAN /\ s.usn \in Nat
      /\ session \in Sessions /\ session # None /\ theirs \in Collections
      /\ Sound(mine) /\ Sound(server) /\ Aged(mine) /\ Aged(server)
  BY <1>1, LinkFacts
<1>3. /\ local \in [Clients -> Collections] /\ clock \in Nat /\ edits \in Nat /\ faults \in Nat
      /\ clock + 1 \in Nat
  BY DEF IInv, TypeOK
<1>4. SameStamps(mine, server, s, session) /\ RowsLink(s, session)
  BY <1>1, <1>2 DEF LinkOf
<1>5. /\ mine.scm = server.scm /\ s.db.scm = server.scm /\ theirs.scm = server.scm
      /\ s.usn = server.usn /\ theirs.usn = server.usn
  BY <1>4 DEF SameStamps
<1>6. /\ Graved(s.db) = Graved(theirs) /\ Level(s.db, theirs, {}) /\ s.db.conf = theirs.conf
      /\ \A o \in Objects : Present(s.db, o) => Settled(s.db, o)
  BY <1>1, <1>4 DEF RowsLink, Rest
<1>7. /\ Sound(s.db) /\ Sound(theirs) /\ Aged(s.db) /\ Aged(theirs) /\ Grown(server, theirs)
      /\ TakenFrom(s.db, mine, server) /\ TakenFrom(theirs, mine, server)
  BY <1>2 DEF LinkOf
<1>8. /\ server.usn \in Nat /\ server.usn + 1 \in Nat /\ s.usn + 1 \in Nat /\ theirs.usn \in Nat
      /\ mine.mod \in Nat /\ mine.scm \in Nat
      /\ mine.mod <= clock /\ mine.scm <= clock /\ server.scm <= clock
  BY <1>2, CollectionTables DEF IInv, Stamps
<1>9. /\ srv \in Collections /\ srv.mod = clock + 1 /\ srv.scm = server.scm /\ srv.usn = server.usn + 1
      /\ srv.conf = theirs.conf /\ srv.ids = theirs.ids /\ srv.grave = theirs.grave
      /\ srv.note = theirs.note /\ srv.card = theirs.card /\ srv.deck = theirs.deck
  BY <1>2, <1>3, <1>5, <1>8 DEF Collections
<1>10. /\ copy \in Collections /\ copy.mod = clock + 1 /\ copy.scm = server.scm
       /\ copy.usn = server.usn + 1 /\ copy.conf = s.db.conf
       /\ copy.ids = s.db.ids /\ copy.grave = s.db.grave
       /\ copy.note = s.db.note /\ copy.card = s.db.card /\ copy.deck = s.db.deck
  BY <1>2, <1>3, <1>5, <1>8 DEF Collections
<1>11. /\ local' = [local EXCEPT ![c] = col] /\ server' = srv /\ clock' = clock + 1
       /\ session' = None /\ sync' = [sync EXCEPT ![c] = Idle]
       /\ edits' \in Nat /\ faults' \in Nat
  <2>1. local' = [local EXCEPT ![c] = col]
    <3>1. local' = IF replied THEN [local EXCEPT ![c] = copy] ELSE local
      BY DEF Finish
    <3>2. local = [local EXCEPT ![c] = mine]
      BY <1>3
    <3> HIDE DEF copy, mine
    <3> QED BY <3>1, <3>2
  <2>2. faults' \in Nat /\ edits' \in Nat
    BY <1>3 DEF Finish
  <2>3. /\ server' = srv /\ clock' = clock + 1 /\ session' = None /\ sync' = [sync EXCEPT ![c] = Idle]
    BY DEF Finish
  <2> QED BY <2>1, <2>2, <2>3
<1> HIDE DEF srv, copy, theirs, s, mine
<1>12. /\ \A o : Row(srv, o) = Row(theirs, o)
       /\ Graved(srv) = Graved(theirs) /\ Sound(srv) /\ Aged(srv)
       /\ TakenFrom(srv, mine, server)
  BY <1>7, <1>9, SameTables
<1>13. /\ \A o : Row(copy, o) = Row(s.db, o)
       /\ Graved(copy) = Graved(s.db) /\ Sound(copy) /\ Aged(copy)
       /\ TakenFrom(copy, mine, server)
  BY <1>7, <1>10, SameTables
<1>14. \A d \in Clients : local[d].scm = srv.scm => Behind(local[d], srv)
  <2> SUFFICES ASSUME NEW d \in Clients, local[d].scm = srv.scm PROVE Behind(local[d], srv)
    OBVIOUS
  <2>1. Behind(local[d], server) /\ local[d] \in Collections
    BY <1>3, <1>9 DEF IInv, AllBehind
  <2>2. Grown(server, srv)
    BY <1>7, <1>9, <1>12, GrownHeader
  <2>3. server.usn <= srv.usn
    BY <1>8, <1>9
  <2> QED BY <1>2, <1>9, <2>1, <2>2, <2>3, BehindGrown
<1>15. Level(copy, srv, {}) /\ Graved(copy) = Graved(srv)
  <2>1. Level(copy, srv, {})
    BY <1>6, <1>12, <1>13, LevelOfSame
  <2> QED BY <1>6, <1>12, <1>13, <2>1
<1>16. Behind(copy, srv)
  BY <1>8, <1>9, <1>10, <1>15, SameLevelIsBehind
<1>17. SameContent(copy, srv)
  <2>1. \A o \in Objects : Present(copy, o) => Settled(copy, o)
    BY <1>6, <1>13 DEF Settled, Present
  <2>2. copy.conf = srv.conf
    BY <1>6, <1>9, <1>10
  <2> QED BY <1>12, <1>13, <1>15, <2>1, <2>2, LevelAndSettled DEF Sound
<1>18. CASE replied
  <2>1. col = copy
    BY <1>18
  <2>2. \A n \in Notes \ copy.ids : copy.note[n] # Gone =>
          SameNote(copy, mine, n) \/ SameNote(copy, server, n)
    BY <1>13 DEF TakenFrom
  <2>3. \A o \in Objects : Present(copy, o) => Row(copy, o).mtime <= clock + 1
    BY <1>3, <1>10, <1>13, PresentRow DEF Aged
  <2>4. copy.scm <= clock + 1 /\ copy.mod <= clock + 1
    BY <1>3, <1>5, <1>8, <1>10
  <2> HIDE DEF col
  <2> QED BY <1>2, <1>9, <1>10, <1>11, <1>12, <1>13, <1>14, <1>16, <1>17,
             <2>1, <2>2, <2>3, <2>4, CommitStep DEF mine
<1>19. CASE ~replied
  <2>1. col = mine
    BY <1>19
  <2>2. \A n \in Notes \ mine.ids : mine.note[n] # Gone => SameNote(mine, mine, n)
    BY DEF SameNote
  <2>3. \A o \in Objects : Present(mine, o) => Row(mine, o).mtime <= clock + 1
    BY <1>2, <1>3, PresentRow DEF Aged
  <2>4. mine.scm <= clock + 1 /\ mine.mod <= clock + 1 /\ mine.mod # srv.mod
    BY <1>3, <1>8, <1>9
  <2>5. mine.scm = srv.scm => Behind(mine, srv)
    BY <1>14 DEF mine
  <2> HIDE DEF col
  <2> QED BY <1>2, <1>9, <1>11, <1>12, <1>14,
             <2>1, <2>2, <2>3, <2>4, <2>5, CommitStep DEF mine
<1> QED BY <1>18, <1>19

LEMMA SameAsItself ==
  ASSUME NEW x \in Collections
  PROVE  SameContent(x, x) /\ Behind(x, x)
<1>1. SameContent(x, x)
  BY DEF SameContent, SameRow
<1>2. x.usn \in Nat /\ Level(x, x, {})
  BY CollectionTables, LevelReflexive
<1>3. Behind(x, x)
  BY <1>2, SameLevelIsBehind
<1> QED BY <1>1, <1>3

LEMMA UploadStep ==
  ASSUME IInv, NEW c \in Clients, NEW arrived \in BOOLEAN, Upload(c, arrived) PROVE IInv'
<1> DEFINE mine == local[c]
           p == Prepared(mine)
           srv == IF arrived THEN p ELSE server
<1>1. /\ local \in [Clients -> Collections] /\ mine \in Collections /\ server \in Collections
      /\ clock \in Nat /\ edits \in Nat /\ faults \in Nat /\ clock + 1 \in Nat
  BY DEF IInv, TypeOK
<1>2. Sound(mine) /\ Sound(server) /\ Aged(mine) /\ Aged(server)
  BY DEF IInv, AllSound, Committed
<1>3. /\ p \in Collections /\ Sound(p) /\ p.scm = clock + 1 /\ p.mod = clock + 1 /\ p.ids = mine.ids
      /\ \A o \in Objects : Present(p, o) => Present(mine, o) /\ Row(p, o).mtime = Row(mine, o).mtime
      /\ \A n \in Notes : p.note[n] # Gone =>
           mine.note[n] # Gone /\ p.note[n].mtime = mine.note[n].mtime /\ p.note[n].text = mine.note[n].text
  BY <1>1, <1>2, PreparedFacts
<1>4. /\ local' = [local EXCEPT ![c] = p] /\ clock' = clock + 1 /\ sync' = [sync EXCEPT ![c] = Idle]
      /\ server' = srv
      /\ session' = None \/ (srv = server /\ session' = session)
      /\ edits' \in Nat /\ faults' \in Nat
  <2>1. local' = [local EXCEPT ![c] = p]
    BY <1>1 DEF Upload
  <2>2. clock' = clock + 1 /\ sync' = [sync EXCEPT ![c] = Idle] /\ edits' \in Nat /\ faults' \in Nat
    BY <1>1 DEF Upload
  <2>3. /\ server' = srv
        /\ session' = None \/ (srv = server /\ session' = session)
    BY DEF Upload
  <2> QED BY <2>1, <2>2, <2>3
<1> HIDE DEF p
<1>5. \A n \in Notes \ p.ids : p.note[n] # Gone => SameNote(p, mine, n)
  BY <1>3 DEF SameNote
<1>6. TakenFrom(p, mine, server) /\ TakenFrom(server, mine, server)
  BY <1>5, TakenAsItIs DEF TakenFrom
<1>7. Aged(p) /\ \A o \in Objects : Present(p, o) => Row(p, o).mtime <= clock + 1
  <2>1. Aged(p)
    BY <1>2, <1>3 DEF Aged
  <2> QED BY <1>1, <1>3, <2>1, PresentRow DEF Aged
<1>8. SameContent(p, p) /\ Behind(p, p)
  BY <1>3, SameAsItself
<1>9. /\ server.scm \in Nat /\ server.mod \in Nat /\ server.scm <= clock /\ server.mod <= clock
      /\ \A d \in Clients : local[d].scm \in Nat /\ local[d].scm <= clock
  BY <1>1, CollectionTables DEF IInv, Stamps
<1>10. p.scm # server.scm /\ p.mod # server.mod /\ p.scm <= clock + 1 /\ p.mod <= clock + 1
  BY <1>1, <1>3, <1>9
<1>11. CASE arrived
  <2>1. srv = p
    BY <1>11
  <2>2. \A d \in Clients \ {c} : local[d].scm # p.scm
    BY <1>1, <1>3, <1>9
  <2> HIDE DEF srv
  <2> QED BY <1>3, <1>4, <1>5, <1>6, <1>7, <1>8, <1>10, <2>1, <2>2, CommitStep
<1>12. CASE ~arrived
  <2>1. srv = server
    BY <1>12
  <2>2. \A d \in Clients \ {c} : local[d].scm = server.scm => Behind(local[d], server)
    BY DEF IInv, AllBehind
  <2> HIDE DEF srv
  <2> QED BY <1>1, <1>2, <1>3, <1>4, <1>5, <1>6, <1>7, <1>10, <2>1, <2>2, CommitStep
<1> QED BY <1>11, <1>12

LEMMA DownloadStep ==
  ASSUME IInv, NEW c \in Clients, NEW arrived \in BOOLEAN, Download(c, arrived) PROVE IInv'
<1> DEFINE mine == local[c]
           copy == [server EXCEPT !.usn = @ + 1, !.mod = clock + 1]
           col == IF arrived THEN copy ELSE mine
<1>1. /\ local \in [Clients -> Collections] /\ mine \in Collections /\ server \in Collections
      /\ clock \in Nat /\ edits \in Nat /\ faults \in Nat /\ clock + 1 \in Nat
  BY DEF IInv, TypeOK
<1>2. Sound(mine) /\ Sound(server) /\ Aged(mine) /\ Aged(server)
  BY DEF IInv, AllSound, Committed
<1>3. /\ server.usn \in Nat /\ server.usn + 1 \in Nat /\ server.scm \in Nat /\ server.scm <= clock
      /\ mine.scm \in Nat /\ mine.mod \in Nat /\ mine.scm <= clock /\ mine.mod <= clock
  BY <1>1, CollectionTables DEF IInv, Stamps
<1>4. /\ copy \in Collections /\ copy.mod = clock + 1 /\ copy.scm = server.scm
      /\ copy.usn = server.usn + 1 /\ copy.conf = server.conf
      /\ copy.ids = server.ids /\ copy.grave = server.grave
      /\ copy.note = server.note /\ copy.card = server.card /\ copy.deck = server.deck
  BY <1>1, <1>3 DEF Collections
<1>5. /\ local' = [local EXCEPT ![c] = col] /\ server' = copy /\ clock' = clock + 1
      /\ session' = None /\ sync' = [sync EXCEPT ![c] = Idle] /\ edits' \in Nat /\ faults' \in Nat
  <2>1. local' = IF arrived THEN [local EXCEPT ![c] = copy] ELSE local
    BY DEF Download
  <2>2. local = [local EXCEPT ![c] = mine]
    BY <1>1
  <2>3. faults' \in Nat /\ edits' \in Nat
    BY <1>1 DEF Download
  <2>4. /\ server' = copy /\ clock' = clock + 1 /\ session' = None /\ sync' = [sync EXCEPT ![c] = Idle]
    BY DEF Download
  <2>5. local' = [local EXCEPT ![c] = col]
    <3> HIDE DEF copy, mine
    <3> QED BY <2>1, <2>2
  <2> QED BY <2>3, <2>4, <2>5
<1>6. mine.scm # server.scm
  BY DEF IInv, AllDecided, Decided, Download
<1> HIDE DEF copy, mine
<1>7. /\ \A o : Row(copy, o) = Row(server, o)
      /\ Graved(copy) = Graved(server) /\ Sound(copy) /\ Aged(copy)
      /\ TakenFrom(copy, mine, server)
      /\ \A n \in Notes \ copy.ids : copy.note[n] # Gone => SameNote(copy, server, n)
  BY <1>2, <1>4, SameTables, TakenAsItIs
<1>8. SameContent(copy, copy) /\ Behind(copy, copy)
  BY <1>4, SameAsItself
<1>9. \A d \in Clients : local[d].scm = copy.scm => Behind(local[d], copy)
  <2> SUFFICES ASSUME NEW d \in Clients, local[d].scm = copy.scm PROVE Behind(local[d], copy)
    OBVIOUS
  <2>1. Behind(local[d], server) /\ local[d] \in Collections
    BY <1>1, <1>4 DEF IInv, AllBehind
  <2>2. Grown(server, copy)
    BY <1>4, <1>7 DEF Grown
  <2>3. server.usn <= copy.usn
    BY <1>3, <1>4
  <2> QED BY <1>1, <1>4, <2>1, <2>2, <2>3, BehindGrown
<1>10. CASE arrived
  <2>1. col = copy
    BY <1>10
  <2>2. \A o \in Objects : Present(copy, o) => Row(copy, o).mtime <= clock + 1
    BY <1>1, <1>4, <1>7, PresentRow DEF Aged
  <2>3. copy.scm <= clock + 1 /\ copy.mod <= clock + 1
    BY <1>1, <1>3, <1>4
  <2> HIDE DEF col
  <2> QED BY <1>4, <1>5, <1>7, <1>8, <1>9, <2>1, <2>2, <2>3, CommitStep DEF mine
<1>11. CASE ~arrived
  <2>1. col = mine
    BY <1>11
  <2>2. \A n \in Notes \ mine.ids : mine.note[n] # Gone => SameNote(mine, mine, n)
    BY DEF SameNote
  <2>3. \A o \in Objects : Present(mine, o) => Row(mine, o).mtime <= clock + 1
    BY <1>1, <1>2, PresentRow DEF Aged, mine
  <2>4. mine.scm <= clock + 1 /\ mine.mod <= clock + 1 /\ mine.mod # copy.mod /\ mine.scm # copy.scm
    BY <1>1, <1>3, <1>4, <1>6
  <2> HIDE DEF col
  <2> QED BY <1>1, <1>2, <1>4, <1>5, <1>7, <1>9, <2>1, <2>2, <2>3, <2>4, CommitStep DEF mine
<1> QED BY <1>10, <1>11

-----------------------------------------------------------------------------
(* The first state, and every step.                                          *)

LEMMA FirstFacts ==
  ASSUME NEW known \in SUBSET Notes
  PROVE  LET f == FirstCollection(known) IN
         /\ f \in Collections /\ f.scm = 0 /\ f.mod = 0 /\ Sound(f)
         /\ \A o \in Objects : Present(f, o) => Row(f, o).mtime = 0
<1> DEFINE f == FirstCollection(known)
           row == NoteRow(0, 0)
           native == [mtime |-> 0, usn |-> 0]
<1>1. row \in NoteRows /\ row.mtime = 0 /\ row.rev = 1 /\ row.bank = <<>>
  <2>1. (CHOOSE t \in Texts : TRUE) \in Texts
    BY SyncAssumption
  <2>2. 1 \in 1..MaxRevision /\ 0 \in Int /\ 0 \in Nat
    BY SyncAssumption
  <2>3. <<>> \in BoundedSeq(Batches, MaxBank)
    BY EmptyBank DEF Banks
  <2> QED BY <2>1, <2>2, <2>3 DEF NoteRow, NoteRows
<1>2. native \in NativeRows /\ native.mtime = 0
  BY DEF NativeRows
<1> HIDE DEF row, native
<1>3. f = [mod |-> 0, scm |-> 0, usn |-> 1, conf |-> 0, ids |-> known,
           note |-> [n \in Notes |-> row], card |-> [k \in Cards |-> native],
           deck |-> [d \in Decks |-> native],
           grave |-> [o \in Objects |-> None], marker |-> [n \in Notes |-> None]]
  BY DEF FirstCollection, row, native
<1> HIDE DEF f
<1>4. /\ f \in Collections /\ f.scm = 0 /\ f.mod = 0 /\ \A o \in Objects : f.grave[o] = None
      /\ \A n \in Notes : f.note[n] = row
      /\ \A k \in Cards : f.card[k] = native
      /\ \A d \in Decks : f.deck[d] = native
  BY <1>1, <1>2, <1>3 DEF Collections
<1>5. \A o \in Objects : Row(f, o).mtime = 0
  BY <1>1, <1>2, <1>4, RowOf DEF Objects
<1>6. Sound(f)
  BY <1>1, <1>4 DEF Sound, Clean, Plain, Graved
<1> QED BY <1>4, <1>5, <1>6 DEF f

LEMMA InitIInv == Init => IInv
<1> SUFFICES ASSUME Init PROVE IInv
  OBVIOUS
<1>1. PICK known \in SUBSET Notes : /\ local = [c \in Clients |-> FirstCollection(known)]
                                    /\ server = FirstCollection(known)
  BY DEF Init
<1> DEFINE f == FirstCollection(known)
<1>2. /\ f \in Collections /\ f.scm = 0 /\ f.mod = 0 /\ Sound(f)
      /\ \A o \in Objects : Present(f, o) => Row(f, o).mtime = 0
  BY FirstFacts
<1>3. server = f /\ \A c \in Clients : local[c] = f
  BY <1>1
<1>4. /\ session = None /\ sync = [c \in Clients |-> Idle]
      /\ clock = 0 /\ edits = 0 /\ faults = 0
  BY DEF Init
<1>5. local \in [Clients -> Collections]
  BY <1>1, <1>2
<1> HIDE DEF f
<1>6. Idle \in Syncs /\ Idle.pc = "idle"
  BY DEF Syncs, Idle
<1>7. TypeOK
  BY <1>2, <1>3, <1>4, <1>5, <1>6 DEF TypeOK
<1>8. Stamps
  BY <1>2, <1>3, <1>4 DEF Stamps
<1>9. \A x \in Committed : x = f
  BY <1>3 DEF Committed
<1>10. AllSound
  BY <1>2, <1>4, <1>9 DEF AllSound, Aged
<1>11. Texted
  BY <1>9 DEF Texted, OneText
<1>12. AllBehind /\ ModTells
  BY <1>2, <1>3, SameAsItself DEF AllBehind, ModTells
<1>13. AllDecided /\ AllLinked
  BY <1>4, <1>6 DEF AllDecided, Decided, AllLinked, Linked
<1> QED BY <1>7, <1>8, <1>10, <1>11, <1>12, <1>13 DEF IInv

LEMMA StutterIInv == IInv /\ UNCHANGED vars => IInv'
<1> SUFFICES ASSUME IInv, UNCHANGED vars PROVE IInv'
  OBVIOUS
<1>1. UNCHANGED <<local, server, session, sync, clock, edits, faults>>
  BY DEF vars
<1>2. TypeOK'
  BY <1>1 DEF IInv, TypeOK
<1>3. Stamps' /\ AllSound' /\ Texted' /\ AllBehind' /\ ModTells'
  BY <1>1, CommittedUnmoved DEF IInv
<1>4. clock' \in Nat /\ clock <= clock'
  BY <1>1 DEF IInv, TypeOK
<1>5. AllDecided'
  BY <1>1, <1>4, DecidedUnmoved DEF IInv, AllDecided
<1>6. AllLinked'
  <2> SUFFICES ASSUME NEW d \in Clients, Linked(d)' PROVE Link(d)'
    BY DEF AllLinked
  <2>1. Linked(d)
    BY <1>1 DEF Linked
  <2>2. Link(d)
    BY <2>1 DEF IInv, AllLinked
  <2> QED BY <1>1, <1>4, <2>1, <2>2, LinkUnmoved DEF IInv
<1> QED BY <1>2, <1>3, <1>5, <1>6 DEF IInv

LEMMA NextIInv == ~Overtaken /\ IInv /\ [Next]_vars => IInv'
<1> SUFFICES ASSUME ~Overtaken, IInv, [Next]_vars PROVE IInv'
  OBVIOUS
<1>1. CASE UNCHANGED vars
  BY <1>1, StutterIInv
<1>2. CASE Restart
  BY <1>2, RestartStep
<1>3. ASSUME NEW c \in Clients, User(c) PROVE IInv'
  BY <1>3, UserStep
<1>4. ASSUME NEW c \in Clients, Interrupted(c) PROVE IInv'
  BY <1>4, InterruptedStep
<1>5. ASSUME NEW c \in Clients, Sync(c) PROVE IInv'
  <2>1. CASE Meta(c)
    BY <2>1, MetaStep
  <2>2. CASE Start(c)
    BY <2>2, StartStep
  <2>3. CASE SendGraves(c)
    BY <2>3, SendGravesStep
  <2>4. CASE ApplyRemoteGraves(c)
    BY <2>4, ApplyRemoteGravesStep
  <2>5. CASE ExchangeChanges(c)
    BY <2>5, ExchangeChangesStep
  <2>6. CASE ReceiveChunk(c)
    BY <2>6, ReceiveChunkStep
  <2>7. CASE SendChunk(c)
    BY <2>7, SendChunkStep
  <2>8. CASE SanityCheck(c)
    BY <2>8, SanityCheckStep
  <2>9. CASE Conflict(c)
    BY <2>9, ConflictStep
  <2>10. ASSUME NEW ok \in BOOLEAN, Finish(c, ok) PROVE IInv'
    BY <2>10, FinishStep
  <2>11. ASSUME NEW ok \in BOOLEAN, Upload(c, ok) PROVE IInv'
    BY <2>11, UploadStep
  <2>12. ASSUME NEW ok \in BOOLEAN, Download(c, ok) PROVE IInv'
    BY <2>12, DownloadStep
  <2> QED BY <1>5, <2>1, <2>2, <2>3, <2>4, <2>5, <2>6, <2>7, <2>8, <2>9, <2>10, <2>11, <2>12 DEF Sync
<1> QED BY <1>1, <1>2, <1>3, <1>4, <1>5 DEF Next

\* Where no other sync ends between a device's meta and its start, every state the
\* specification reaches satisfies the inductive invariant.
THEOREM SyncInductive == ASSUME ~Overtaken PROVE Spec => []IInv
<1>1. Init => IInv
  BY InitIInv
<1>2. IInv /\ [Next]_vars => IInv'
  BY NextIInv
<1> QED BY <1>1, <1>2, PTL DEF Spec

-----------------------------------------------------------------------------
(* What follows.                                                             *)

LEMMA SameRowContent ==
  ASSUME NEW x \in Collections, NEW y \in Collections, NEW o \in Objects,
         Present(x, o), Present(y, o), SameRow(o, Row(x, o), Row(y, o))
  PROVE  RowContent(x, o) = RowContent(y, o)
<1> DEFINE a == Row(x, o)
           b == Row(y, o)
<1>1. /\ o \in Notes => a \in NoteRows /\ b \in NoteRows
      /\ o \notin Notes => a \in NativeRows /\ b \in NativeRows
  BY PresentRow
<1>2. a.mtime = b.mtime /\ (o \in Notes => Fields(a) = Fields(b))
  BY DEF SameRow
<1> HIDE DEF a, b
<1>3. CASE o \in Notes
  <2>1. a.rev = b.rev /\ a.bank = b.bank /\ a.text = b.text
    BY <1>2, <1>3 DEF Fields
  <2>2. [a EXCEPT !.usn = 0] = [b EXCEPT !.usn = 0]
    BY <1>1, <1>2, <1>3, <2>1 DEF NoteRows
  <2> QED BY <2>2 DEF RowContent, Present, a, b
<1>4. CASE o \notin Notes
  <2>1. [a EXCEPT !.usn = 0] = [b EXCEPT !.usn = 0]
    BY <1>1, <1>2, <1>4 DEF NativeRows
  <2> QED BY <2>1 DEF RowContent, Present, a, b
<1> QED BY <1>3, <1>4

LEMMA NothingThere == \A x, o : ~Present(x, o) => RowContent(x, o) = Gone
  BY DEF RowContent, Present

LEMMA CommittedFacts ==
  ASSUME IInv, NEW x \in Committed
  PROVE  x \in Collections /\ Sound(x) /\ Aged(x)
  BY DEF IInv, TypeOK, AllSound, Committed

LEMMA DeletedFollows == IInv => DeletedStaysDeleted
  BY DEF IInv, AllSound, Committed, Sound, Clean, Graved, DeletedStaysDeleted

LEMMA SettledFollows == IInv => SettledIsOnServer
<1> SUFFICES ASSUME IInv, NEW c \in Clients, local[c].scm = server.scm, NEW o \in Objects,
                    Settled(local[c], o), o \notin Graved(server)
             PROVE  Present(server, o) /\ Row(server, o).mtime >= Row(local[c], o).mtime
  BY DEF SettledIsOnServer, Settled, Present, Graved
<1>1. /\ local[c] \in Collections /\ Sound(local[c]) /\ server \in Collections
      /\ Behind(local[c], server)
  BY CommittedFacts DEF Committed, IInv, AllBehind
<1>2. o \notin Graved(local[c])
  BY <1>1 DEF Sound, Clean, Settled, Present
<1>3. Present(server, o) /\ Covers(o, Row(server, o), Row(local[c], o))
  BY <1>1, <1>2 DEF Behind, Level
<1>4. Row(server, o).mtime \in Nat /\ Row(local[c], o).mtime \in Nat
  BY <1>1, <1>3, PresentRow DEF Settled
<1> QED BY <1>3, <1>4 DEF Covers

LEMMA UnseenFollows == IInv => UnseenIsAsked
<1> SUFFICES ASSUME IInv, NEW c \in Clients, local[c].scm = server.scm, NEW o \in Objects,
                    ~(Present(server, o) /\ Row(server, o).usn >= local[c].usn),
                    ~(Present(local[c], o) /\ Row(local[c], o).usn = -1),
                    local[c].grave[o] # -1,
                    ~(server.grave[o] # None /\ server.grave[o] >= local[c].usn)
             PROVE  RowContent(server, o) = RowContent(local[c], o)
  BY DEF UnseenIsAsked, Present
<1> DEFINE mine == local[c]
<1>1. /\ mine \in Collections /\ Sound(mine) /\ server \in Collections /\ Sound(server)
      /\ Behind(mine, server)
  BY CommittedFacts DEF Committed, IInv, AllBehind
<1>2. /\ mine.usn \in Nat /\ server.grave[o] \in Int \union {None}
  BY <1>1, CollectionTables
<1> HIDE DEF mine
<1>3. CASE o \in Graved(mine) \union Graved(server)
  <2>1. o \in Graved(mine) /\ o \in Graved(server)
    <3>1. o \in Graved(mine) => o \in Graved(server)
      BY <1>1 DEF Behind, Graved, mine
    <3>2. ASSUME o \in Graved(server) PROVE o \in Graved(mine)
      <4>1. server.grave[o] # None /\ server.grave[o] \in Int
        BY <1>2, <3>2 DEF Graved
      <4>2. server.grave[o] < mine.usn
        BY <1>2, <4>1 DEF mine
      <4> QED BY <1>1, <4>1, <4>2 DEF Behind
    <3> QED BY <1>3, <3>1, <3>2
  <2>2. ~Present(mine, o) /\ ~Present(server, o)
    BY <1>1, <2>1 DEF Sound, Clean, Present
  <2> QED BY <2>2, NothingThere DEF mine
<1>4. CASE o \notin Graved(mine) \union Graved(server)
  <2>1. o \notin Unseen(server, mine.usn)
    BY DEF Unseen, mine
  <2>2. Present(mine, o) => Settled(mine, o)
    BY DEF Settled, mine
  <2>3. /\ Settled(mine, o) => Present(server, o) /\ SameRow(o, Row(mine, o), Row(server, o))
        /\ Present(server, o) => Present(mine, o)
    BY <1>1, <1>4, <2>1 DEF Behind, Level
  <2>4. CASE Present(mine, o)
    <3>1. Present(server, o) /\ SameRow(o, Row(mine, o), Row(server, o))
      BY <2>2, <2>3, <2>4
    <3> QED BY <1>1, <2>4, <3>1, SameRowContent DEF mine
  <2>5. CASE ~Present(mine, o)
    <3>1. ~Present(server, o)
      BY <2>3, <2>5
    <3> QED BY <2>5, <3>1, NothingThere DEF mine
  <2> QED BY <2>4, <2>5
<1> QED BY <1>3, <1>4

LEMMA NoChangesFollows == IInv => NoChangesMeansSame
<1> SUFFICES ASSUME IInv, NEW c \in Clients, local[c].mod = server.mod
             PROVE  Content(local[c]) = Content(server)
  BY DEF NoChangesMeansSame
<1>1. local[c] \in Collections /\ server \in Collections /\ SameContent(local[c], server)
  BY CommittedFacts DEF Committed, IInv, ModTells
<1>2. ASSUME NEW o \in Objects PROVE RowContent(local[c], o) = RowContent(server, o)
  <2>1. CASE Present(local[c], o)
    BY <1>1, <2>1, SameRowContent DEF SameContent
  <2>2. CASE ~Present(local[c], o)
    BY <1>1, <2>2, NothingThere DEF SameContent
  <2> QED BY <2>1, <2>2
<1>3. [o \in Objects |-> RowContent(local[c], o)] = [o \in Objects |-> RowContent(server, o)]
  BY <1>2
<1>4. local[c].conf = server.conf
  BY <1>1 DEF SameContent
<1> QED BY <1>3, <1>4 DEF Content

-----------------------------------------------------------------------------
(* Skills move forward.                                                      *)

LEMMA AheadIsForward ==
  ASSUME NEW new \in NoteRows, NEW old \in NoteRows, Ahead(new, old)
  PROVE  ~Earlier(new, old) /\ (new.rev = old.rev => IsPrefix(old.bank, new.bank))
<1>1. /\ new.rev \in Nat /\ old.rev \in Nat /\ Len(new.bank) \in Nat /\ Len(old.bank) \in Nat
      /\ new.bank \in Seq(Batches) /\ old.bank \in Seq(Batches)
  BY NoteColumns
<1>2. CASE old.rev < new.rev
  BY <1>1, <1>2 DEF Earlier
<1>3. CASE old.rev = new.rev /\ IsPrefix(old.bank, new.bank)
  <2>1. Len(old.bank) <= Len(new.bank)
    BY <1>1, <1>3, PrefixByPosition
  <2> QED BY <1>1, <1>3, <2>1 DEF Earlier
<1> QED BY <1>2, <1>3 DEF Ahead

\* What is still there covers what was there.
LEMMA CoveredIsForward ==
  ASSUME NEW old \in Collections, NEW new \in Collections,
         \A n \in Notes : Present(old, n) /\ Present(new, n) => Covers(n, Row(new, n), Row(old, n))
  PROVE  Forward(old, new)
<1> SUFFICES ASSUME NEW n \in Notes, old.note[n] # Gone, new.note[n] # Gone
             PROVE  /\ ~Earlier(new.note[n], old.note[n])
                    /\ new.note[n].rev = old.note[n].rev =>
                         IsPrefix(old.note[n].bank, new.note[n].bank)
  <2>1. old.ids \subseteq Notes
    BY CollectionTables
  <2> QED BY <2>1 DEF Forward
<1>1. /\ Row(old, n) = old.note[n] /\ Row(new, n) = new.note[n]
      /\ old.note[n] \in NoteRows /\ new.note[n] \in NoteRows
  BY RowOf, CollectionTables
<1>2. Ahead(new.note[n], old.note[n])
  BY <1>1 DEF Present, Covers
<1> QED BY <1>1, <1>2, AheadIsForward

LEMMA SameIsForward ==
  ASSUME NEW old \in Collections, NEW new \in Collections, \A o : Row(new, o) = Row(old, o)
  PROVE  Forward(old, new)
<1>1. \A n \in Notes : Present(old, n) => Covers(n, Row(new, n), Row(old, n))
  BY CoversReflexive DEF Objects
<1> QED BY <1>1, CoveredIsForward

LEMMA EditedIsForward ==
  ASSUME NEW old \in Collections, NEW new, Edited(old, new)
  PROVE  Forward(old, new)
<1>1. new \in Collections
  BY DEF Edited
<1>2. \A n \in Notes : Present(old, n) /\ Present(new, n) => Covers(n, Row(new, n), Row(old, n))
  BY CoversReflexive DEF Edited, Objects, Present
<1> QED BY <1>1, <1>2, CoveredIsForward

LEMMA GrownIsForward ==
  ASSUME NEW old \in Collections, NEW new \in Collections, Grown(old, new), Clean(new)
  PROVE  Forward(old, new)
<1>1. \A n \in Notes : Present(old, n) /\ Present(new, n) => Covers(n, Row(new, n), Row(old, n))
  BY CoversReflexive DEF Grown, Clean, Objects, Present
<1> QED BY <1>1, CoveredIsForward

LEMMA KeptIsForward ==
  ASSUME NEW old \in Collections, NEW new \in Collections, Kept(old, new), Clean(new)
  PROVE  Forward(old, new)
<1>1. \A n \in Notes : Present(old, n) /\ Present(new, n) => Covers(n, Row(new, n), Row(old, n))
  BY DEF Kept, Clean, Objects, Present
<1> QED BY <1>1, CoveredIsForward

AllForward == Forward(server, server') /\ \A c \in Clients : Forward(local[c], local'[c])

\* Every device but one stays as it is.
LEMMA OneForward ==
  ASSUME IInv, NEW c \in Clients, NEW col, local' = [local EXCEPT ![c] = col],
         Forward(local[c], col), Forward(server, server')
  PROVE  AllForward
<1>1. /\ local'[c] = col /\ \A d \in Clients \ {c} : local'[d] = local[d]
      /\ \A d \in Clients : local[d] \in Collections
  BY DEF IInv, TypeOK
<1> QED BY <1>1, SameIsForward DEF AllForward

LEMMA UnmovedIsForward == ASSUME IInv, UNCHANGED <<local, server>> PROVE AllForward
<1>1. server \in Collections /\ \A d \in Clients : local[d] \in Collections
  BY DEF IInv, TypeOK
<1> QED BY <1>1, SameIsForward DEF AllForward

LEMMA FinishIsForward ==
  ASSUME IInv, NEW c \in Clients, NEW replied \in BOOLEAN, Finish(c, replied) PROVE AllForward
<1> DEFINE s == sync[c]
           mine == local[c]
           theirs == session.db
           srv == [theirs EXCEPT !.usn = @ + 1, !.mod = clock + 1]
           copy == [s.db EXCEPT !.usn = s.usn + 1, !.mod = clock + 1]
           col == IF replied THEN copy ELSE mine
<1>1. Linked(c) /\ s.pc = "finish"
  BY DEF Finish, Active, Linked, Open
<1>2. /\ LinkOf(mine, server, s, session) /\ mine \in Collections /\ server \in Collections
      /\ s.db \in Collections /\ s.usn \in Nat /\ theirs \in Collections
  BY <1>1, LinkFacts
<1>3. Kept(mine, s.db) /\ Clean(s.db) /\ Grown(server, theirs) /\ Clean(theirs)
  BY <1>2 DEF LinkOf, Sound
<1>4. clock \in Nat /\ clock + 1 \in Nat /\ theirs.usn + 1 \in Nat /\ s.usn + 1 \in Nat
  BY <1>2, CollectionTables DEF IInv, TypeOK
<1>5. /\ srv \in Collections /\ srv.note = theirs.note /\ srv.scm = theirs.scm /\ srv.ids = theirs.ids
      /\ copy \in Collections /\ copy.note = s.db.note /\ copy.scm = s.db.scm /\ copy.ids = s.db.ids
  BY <1>2, <1>4 DEF Collections
<1>6. server' = srv /\ local' = [local EXCEPT ![c] = col]
  <2>1. local' = IF replied THEN [local EXCEPT ![c] = copy] ELSE local
    BY DEF Finish
  <2>2. local = [local EXCEPT ![c] = mine]
    BY DEF IInv, TypeOK
  <2>3. server' = srv
    BY DEF Finish
  <2>4. local' = [local EXCEPT ![c] = col]
    <3> HIDE DEF copy, mine
    <3> QED BY <2>1, <2>2
  <2> QED BY <2>3, <2>4
<1> HIDE DEF srv, copy, theirs, s
<1>7. Forward(server, srv)
  BY <1>2, <1>3, <1>5, GrownIsForward DEF Forward
<1>8. Forward(mine, copy)
  BY <1>2, <1>3, <1>5, KeptIsForward DEF Forward
<1>9. Forward(mine, mine)
  BY <1>2, SameIsForward
<1> QED BY <1>6, <1>7, <1>8, <1>9, OneForward

LEMMA SanityCheckIsForward ==
  ASSUME IInv, NEW c \in Clients, SanityCheck(c) PROVE AllForward
<1>1. /\ local \in [Clients -> Collections] /\ local[c] \in Collections /\ server \in Collections
      /\ clock \in Nat /\ local[c].scm \in Nat /\ local[c].scm <= clock
  BY CollectionTables DEF IInv, TypeOK, Stamps
<1>2. CASE UNCHANGED <<local, server>>
  BY <1>2, UnmovedIsForward
<1>3. CASE local' = [local EXCEPT ![c].scm = clock + 1] /\ server' = server
  <2> DEFINE col == [local[c] EXCEPT !.scm = clock + 1]
  <2>1. local' = [local EXCEPT ![c] = col] /\ col.scm = clock + 1
    BY <1>1, <1>3 DEF Collections
  <2>2. Forward(local[c], col)
    BY <1>1, <2>1 DEF Forward
  <2>3. Forward(server, server')
    BY <1>1, <1>3, SameIsForward
  <2> HIDE DEF col
  <2> QED BY <2>1, <2>2, <2>3, OneForward
<1> QED BY <1>2, <1>3 DEF SanityCheck, Abandon

LEMMA UploadIsForward ==
  ASSUME IInv, NEW c \in Clients, NEW arrived \in BOOLEAN, Upload(c, arrived) PROVE AllForward
<1> DEFINE mine == local[c]
           p == Prepared(mine)
<1>1. /\ local \in [Clients -> Collections] /\ mine \in Collections /\ server \in Collections
      /\ clock \in Nat /\ mine.scm \in Nat /\ mine.scm <= clock
      /\ server.scm \in Nat /\ server.scm <= clock
  BY CollectionTables DEF IInv, TypeOK, Stamps
<1>2. p.scm = clock + 1
  BY <1>1, PreparedFacts, CommittedFacts DEF Committed
<1>3. local' = [local EXCEPT ![c] = p] /\ (server' = p \/ server' = server)
  BY <1>1 DEF Upload
<1> HIDE DEF p
<1>4. Forward(mine, p) /\ Forward(server, p)
  BY <1>1, <1>2 DEF Forward
<1>5. Forward(server, server)
  BY <1>1, SameIsForward
<1> QED BY <1>3, <1>4, <1>5, OneForward

LEMMA DownloadIsForward ==
  ASSUME IInv, NEW c \in Clients, NEW arrived \in BOOLEAN, Download(c, arrived) PROVE AllForward
<1> DEFINE mine == local[c]
           copy == [server EXCEPT !.usn = @ + 1, !.mod = clock + 1]
           col == IF arrived THEN copy ELSE mine
<1>1. /\ local \in [Clients -> Collections] /\ mine \in Collections /\ server \in Collections
      /\ server.usn + 1 \in Nat /\ clock + 1 \in Nat
  BY CollectionTables DEF IInv, TypeOK
<1>2. /\ copy \in Collections /\ copy.scm = server.scm
      /\ copy.note = server.note /\ copy.card = server.card /\ copy.deck = server.deck
  BY <1>1 DEF Collections
<1>3. mine.scm # server.scm
  BY DEF IInv, AllDecided, Decided, Download
<1>4. server' = copy /\ local' = [local EXCEPT ![c] = col]
  <2>1. local' = IF arrived THEN [local EXCEPT ![c] = copy] ELSE local
    BY DEF Download
  <2>2. local = [local EXCEPT ![c] = mine]
    BY <1>1
  <2>3. server' = copy
    BY DEF Download
  <2>4. local' = [local EXCEPT ![c] = col]
    <3> HIDE DEF copy, mine
    <3> QED BY <2>1, <2>2
  <2> QED BY <2>3, <2>4
<1> HIDE DEF copy
<1>5. Forward(server, copy)
  <2>1. \A o : Row(copy, o) = Row(server, o)
    BY <1>2 DEF Row
  <2> QED BY <1>1, <1>2, <2>1, SameIsForward
<1>6. Forward(mine, copy)
  BY <1>2, <1>3 DEF Forward
<1>7. Forward(mine, mine)
  BY <1>1, SameIsForward
<1> QED BY <1>4, <1>5, <1>6, <1>7, OneForward

LEMMA UserIsForward == ASSUME IInv, NEW c \in Clients, User(c) PROVE AllForward
<1>1. /\ server' = server
      /\ \E col : Edited(local[c], col) /\ col.mod = clock + 1 /\ local' = [local EXCEPT ![c] = col]
  BY UserEdits DEF IInv
<1>2. PICK col : Edited(local[c], col) /\ local' = [local EXCEPT ![c] = col]
  BY <1>1
<1>3. server \in Collections /\ local[c] \in Collections
  BY DEF IInv, TypeOK
<1>4. Forward(local[c], col)
  BY <1>2, <1>3, EditedIsForward
<1>5. Forward(server, server')
  BY <1>1, <1>3, SameIsForward
<1> QED BY <1>2, <1>4, <1>5, OneForward

LEMMA NextIsForward == IInv /\ [Next]_vars => [AllForward]_vars
<1> SUFFICES ASSUME IInv, Next PROVE AllForward
  OBVIOUS
<1>1. CASE Restart
  BY <1>1, UnmovedIsForward DEF Restart
<1>2. ASSUME NEW c \in Clients, User(c) PROVE AllForward
  BY <1>2, UserIsForward
<1>3. ASSUME NEW c \in Clients, Interrupted(c) PROVE AllForward
  BY <1>3, UnmovedIsForward DEF Interrupted
<1>4. ASSUME NEW c \in Clients, Sync(c) PROVE AllForward
  <2>1. CASE Meta(c) \/ Start(c)
    BY <2>1, UnmovedIsForward DEF Meta, Start
  <2>2. CASE SendGraves(c) \/ ApplyRemoteGraves(c)
    BY <2>2, UnmovedIsForward DEF SendGraves, ApplyRemoteGraves, Abandon
  <2>3. CASE ExchangeChanges(c) \/ Conflict(c)
    BY <2>3, UnmovedIsForward DEF ExchangeChanges, Conflict, Abandon
  <2>4. CASE ReceiveChunk(c) \/ SendChunk(c)
    <3>1. UNCHANGED <<local, server>>
      BY <2>4 DEF ReceiveChunk, SendChunk, Abandon
    <3> QED BY <3>1, UnmovedIsForward
  <2>5. CASE SanityCheck(c)
    BY <2>5, SanityCheckIsForward
  <2>6. ASSUME NEW ok \in BOOLEAN, Finish(c, ok) PROVE AllForward
    BY <2>6, FinishIsForward
  <2>7. ASSUME NEW ok \in BOOLEAN, Upload(c, ok) PROVE AllForward
    BY <2>7, UploadIsForward
  <2>8. ASSUME NEW ok \in BOOLEAN, Download(c, ok) PROVE AllForward
    BY <2>8, DownloadIsForward
  <2> QED BY <1>4, <2>1, <2>2, <2>3, <2>4, <2>5, <2>6, <2>7, <2>8 DEF Sync
<1> QED BY <1>1, <1>2, <1>3, <1>4 DEF Next

-----------------------------------------------------------------------------
(* The theorems.                                                             *)

\* Every collection, open or committed, and everything a device or the server
\* remembers of a sync keeps its type, for every number of devices and objects.
THEOREM SyncTypeCorrect == ASSUME ~Overtaken PROVE Spec => []TypeOK
<1>1. IInv => TypeOK
  BY DEF IInv
<1> QED BY <1>1, SyncInductive, PTL

\* No merge, resend or retry brings a deleted object back to a device or the server
\* (graves.rs, chunks.rs).
THEOREM DeletedStaysDeletedHolds == ASSUME ~Overtaken PROVE Spec => []DeletedStaysDeleted
  BY DeletedFollows, SyncInductive, PTL

\* A change that has lost its mark is on the server or was overtaken there, wherever
\* the sync that sent it was cut off (chunks.rs, finish.rs).
THEOREM SettledIsOnServerHolds == ASSUME ~Overtaken PROVE Spec => []SettledIsOnServer
  BY SettledFollows, SyncInductive, PTL

\* Whatever differs between a device and the server is marked on the device or has a
\* number on the server that the device will ask for (chunks.rs, finish.rs).
THEOREM UnseenIsAskedHolds == ASSUME ~Overtaken PROVE Spec => []UnseenIsAsked
  BY UnseenFollows, SyncInductive, PTL

\* Equal modification times mean equal content, as compared_to_remote takes them to
\* (meta.rs), so the two sides of a finished sync have the same collection.
THEOREM NoChangesMeansSameHolds == ASSUME ~Overtaken PROVE Spec => []NoChangesMeansSame
  BY NoChangesFollows, SyncInductive, PTL

\* But for a full sync, no step of any device or of the server takes a known skill back
\* to an earlier revision or drops an exercise of its revision (add_or_update_note_if_newer).
THEOREM SkillsAdvanceHolds == ASSUME ~Overtaken PROVE Spec => SkillsAdvance
<1>1. IInv /\ [Next]_vars => [AllForward]_vars
  BY NextIsForward
<1>2. Spec => [][AllForward]_vars
  BY <1>1, SyncInductive, PTL DEF Spec
<1>3. [][AllForward]_vars <=> SkillsAdvance
  BY DEF AllForward, SkillsAdvance
<1> QED BY <1>2, <1>3, PTL
=============================================================================
