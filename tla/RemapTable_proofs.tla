-------------------------- MODULE RemapTable_proofs --------------------------
(***************************************************************************)
(* Theorems about RemapTable for every number of processors, every set of  *)
(* requests and every limit that satisfies its assumptions.                *)
(***************************************************************************)
EXTENDS RemapTable, TLAPS

-----------------------------------------------------------------------------
(* The inductive invariant.                                                *)

\* The thread counts a failure only from below the limit.
BelowLimit == sync # "idle" => hdr.failed < SyncFailMax

\* No write is under way to a disk that is not there or has no capacity.
NoStrayWrite == dev \in {"absent", "gone", "unsized"} => sync # "entries"

\* The replacements that (h, d) counts follow each other from Base on.
Chain(h, d) ==
    /\ h.base = Base /\ h.n <= MaxRemap
    /\ \A i \in Counted(h) : Base <= d[i].new /\ End(d[i]) <= Base + i * MaxSectors
    /\ \A i, j \in Counted(h) : i < j => End(d[i]) <= d[j].new

\* At most one processor is in an add.
OneAdd == \A c, o \in Cpu : AddActive(c) /\ AddActive(o) => c = o

\* A table that is not read yet is empty, nobody adds to it, and what is being
\* written to the disk can only be a cleared table.
LoadingOK ==
    dev = "loading" =>
        /\ hdr.n = 0 /\ ~hdr.magic
        /\ \A c \in Cpu : ~AddActive(c)
        /\ sync = "entries" => ~disk.hdr.magic

\* The table in use and the one on disk.
TablesOK ==
    /\ dev = "on" => Chain(hdr, db)
    /\ disk.hdr.magic => Chain(disk.hdr, image) /\ disk.hdr.need /\ Wide

\* What a processor in an add has computed is still so.
AddOK ==
    dev = "on" => \A c \in Cpu :
        /\ add[c].pc \in {"write", "count"} => add[c].n = hdr.n /\ hdr.n < MaxRemap
        /\ add[c].pc = "write" => add[c].new = NextNew(hdr, db)
        /\ add[c].pc = "count" =>
               db[hdr.n + 1] = [lba |-> add[c].req.lba, new |-> NextNew(hdr, db),
                                sectors |-> add[c].req.sectors]

\* What has been saved is on the disk, if its table can be loaded, and in use,
\* unless the last completed write was one without the magic number.
SavedOK ==
    ~unmarked =>
        /\ dev = "on" => saved \subseteq Mapped(hdr, db)
        /\ disk.hdr.magic => saved \subseteq Mapped(disk.hdr, image)
        /\ ~disk.hdr.magic => saved = {}
        /\ dev = "on" /\ ~hdr.magic => saved = {}
        /\ dev = "loading" /\ hdr.need => saved = {}

\* The entries that follow a header with the magic number are the ones it
\* counts, unless the table has been cleared meanwhile.
WriteOK ==
    dev = "on" /\ hdr.magic /\ disk.hdr.magic /\ sync = "entries" =>
        disk.hdr.n <= hdr.n /\ Coherent(db)

\* The table in memory is the one whose header was written last.
Match ==
    /\ disk.hdr.n = hdr.n /\ disk.hdr.magic = hdr.magic
    /\ \A i \in Counted(hdr) : db[i] = image[i]

\* It is so while it is being written and as long as nothing is left to write.
FreshOK ==
    /\ dev = "on" /\ sync # "idle" => hdr.need
    /\ (/\ Wide /\ dev = "on" /\ ~missed /\ (Writing \/ ~hdr.need)
        /\ \A c \in Cpu : add[c].pc # "mark")
           => Match /\ (sync # "entries" => Coherent(disk.db))

Clean == OneAdd /\ LoadingOK /\ TablesOK /\ AddOK /\ SavedOK /\ WriteOK /\ FreshOK

IndInv == TypeOK /\ BelowLimit /\ LoadedCanSync /\ NoStrayWrite /\ (~tainted => Clean)
-----------------------------------------------------------------------------
(* Types.                                                                  *)

LEMMA EmptyTypes ==
    /\ EmptyHdr \in Header
    /\ EmptyDb \in [Index -> Entry]
    /\ NoEntry \in Entry
<1>1. NoEntry \in Entry
  BY DEF NoEntry, Entry
<1>2. EmptyDb \in [Index -> Entry]
  BY <1>1 DEF EmptyDb
<1>3. EmptyHdr \in Header
  BY LimitAssumption DEF EmptyHdr, Header
<1> QED  BY <1>1, <1>2, <1>3

LEMMA EntryType ==
    ASSUME NEW a \in Nat, NEW b \in Nat, NEW s \in Nat
    PROVE  [lba |-> a, new |-> b, sectors |-> s] \in Entry
BY DEF Entry

LEMMA HeaderParts ==
    ASSUME NEW h \in Header
    PROVE  /\ h.magic \in BOOLEAN /\ h.base \in {0, Base} /\ h.n \in Nat
           /\ h.need \in BOOLEAN /\ h.failed \in 0 .. SyncFailMax
           /\ h.base \in Nat
BY SpaceAssumption DEF Header

LEMMA EntryParts ==
    ASSUME NEW d \in [Index -> Entry], NEW i \in Index
    PROVE  d[i] \in Entry /\ d[i].lba \in Nat /\ d[i].new \in Nat /\ d[i].sectors \in Nat
BY DEF Entry

LEMMA NextNewType ==
    ASSUME NEW h \in Header, NEW d \in [Index -> Entry], h.n <= MaxRemap
    PROVE  NextNew(h, d) \in Nat
<1>1. CASE h.n = 0
  BY <1>1, HeaderParts DEF NextNew
<1>2. CASE h.n # 0
  <2>1. h.n \in Index
    BY <1>2, HeaderParts, LimitAssumption DEF Index
  <2>2. d[h.n].new \in Nat /\ d[h.n].sectors \in Nat
    BY <2>1, EntryParts
  <2> QED  BY <1>2, <2>2 DEF NextNew
<1> QED  BY <1>1, <1>2

LEMMA RequestType ==
    ASSUME NEW r \in Request
    PROVE  r.lba \in Nat /\ r.sectors \in 1 .. MaxSectors /\ r.sectors \in Nat
BY RequestAssumption, LimitAssumption

LEMMA AddParts ==
    ASSUME NEW a \in AddState, a.pc # "idle"
    PROVE  /\ a.pc \in {"write", "count", "mark"} /\ a.req \in Request
           /\ a.n \in Nat /\ a.new \in Nat
BY DEF AddState, NoAdd

LEMMA AddTypes ==
    /\ NoAdd \in AddState
    /\ \A p \in {"write", "count", "mark"}, r \in Request, n \in Nat, w \in Nat :
           [pc |-> p, req |-> r, n |-> n, new |-> w] \in AddState
BY DEF AddState

\* The steps of a processor.
LEMMA TypeAdd ==
    ASSUME TypeOK, NEW c \in Cpu, (\E r \in Request : AddBegin(c, r)) \/ AddOn(c)
    PROVE  TypeOK'
<1> USE DEF TypeOK
<1>1. ASSUME NEW r \in Request, AddBegin(c, r) PROVE TypeOK'
  <2>1. hdr.n \in Nat /\ hdr.n <= MaxRemap
    BY <1>1, HeaderParts, LimitAssumption DEF AddBegin
  <2>2. NextNew(hdr, db) \in Nat
    BY <2>1, NextNewType
  <2>3. [pc |-> "write", req |-> r, n |-> hdr.n, new |-> NextNew(hdr, db)] \in AddState
    BY <2>1, <2>2, AddTypes
  <2>4. add' \in [Cpu -> AddState]
    BY <1>1, <2>3 DEF AddBegin
  <2>5. tainted' \in BOOLEAN
    BY <1>1 DEF AddBegin
  <2> QED  BY <1>1, <2>4, <2>5 DEF AddBegin, tableVars
<1>2. CASE AddWrite(c)
  <2>1. /\ add[c].req \in Request /\ add[c].n \in Nat /\ add[c].new \in Nat
        /\ add[c].pc = "write"
    <3>1. add[c] \in AddState /\ add[c].pc = "write"
      BY <1>2 DEF AddWrite
    <3> QED  BY <3>1, AddParts
  <2>2. add[c].req.lba \in Nat /\ add[c].req.sectors \in Nat
    BY <2>1, RequestType
  <2>3. db' \in [Index -> Entry]
    <3>1. PICK i \in {add[c].n, hdr.n} :
              db' = IF i < MaxRemap
                    THEN [db EXCEPT ![i + 1] = [lba |-> add[c].req.lba, new |-> add[c].new,
                                                sectors |-> add[c].req.sectors]]
                    ELSE PastEnd(db, add[c].req.lba, add[c].new)
      BY <1>2 DEF AddWrite
    <3>2. [lba |-> add[c].req.lba, new |-> add[c].new, sectors |-> add[c].req.sectors] \in Entry
      BY <2>1, <2>2, EntryType
    <3>3. 1 \in Index
      BY LimitAssumption DEF Index
    <3>4. [lba |-> db[1].lba, new |-> add[c].req.lba, sectors |-> add[c].new] \in Entry
      <4>1. db[1].lba \in Nat
        BY <3>3, EntryParts
      <4> QED  BY <4>1, <2>1, <2>2, EntryType
    <3>5. PastEnd(db, add[c].req.lba, add[c].new) \in [Index -> Entry]
      <4>1. [db EXCEPT ![1] = [lba |-> db[1].lba, new |-> add[c].req.lba,
                               sectors |-> add[c].new]] \in [Index -> Entry]
        BY <3>4
      <4>2. ASSUME NEW d \in [Index -> Entry], NEW n \in Nat
            PROVE  [d EXCEPT ![2].sectors = n] \in [Index -> Entry]
        BY <4>2 DEF Entry
      <4>3. (IF Wide THEN 1 ELSE 0) \in Nat
        OBVIOUS
      <4>4. PastEnd(db, add[c].req.lba, add[c].new) =
                [[db EXCEPT ![1] = [lba |-> db[1].lba, new |-> add[c].req.lba,
                                    sectors |-> add[c].new]]
                    EXCEPT ![2].sectors = IF Wide THEN 1 ELSE 0]
        BY DEF PastEnd
      <4> DEFINE d == [db EXCEPT ![1] = [lba |-> db[1].lba, new |-> add[c].req.lba,
                                         sectors |-> add[c].new]]
                 m == IF Wide THEN 1 ELSE 0
      <4>5. d \in [Index -> Entry] /\ m \in Nat
        BY <4>1, <4>3
      <4>6. PastEnd(db, add[c].req.lba, add[c].new) = [d EXCEPT ![2].sectors = m]
        BY <4>4
      <4> HIDE DEF d, m
      <4>7. [d EXCEPT ![2].sectors = m] \in [Index -> Entry]
        BY ONLY <4>2, <4>5
      <4> QED  BY ONLY <4>6, <4>7
    <3> QED  BY <3>1, <3>2, <3>5
  <2>4. add' \in [Cpu -> AddState]
    <3>1. [add[c] EXCEPT !.pc = "count"] \in AddState
      <4>1. add[c] \in [pc : {"write", "count", "mark"}, req : Request, n : Nat, new : Nat]
        BY <2>1 DEF AddState, NoAdd
      <4> QED  BY <4>1 DEF AddState
    <3> QED  BY <1>2, <3>1 DEF AddWrite
  <2> QED  BY <1>2, <2>3, <2>4 DEF AddWrite, history
<1>3. CASE AddCount(c)
  <2>1. add[c].n \in Nat /\ add[c].pc = "count"
    <3>1. add[c] \in AddState /\ add[c].pc = "count"
      BY <1>3 DEF AddCount
    <3> QED  BY <3>1, AddParts
  <2>2. hdr' \in Header
    <3>1. PICK i \in {add[c].n, hdr.n} : hdr' = [hdr EXCEPT !.n = i + 1]
      BY <1>3 DEF AddCount
    <3>2. i + 1 \in Nat
      BY <2>1, HeaderParts
    <3> QED  BY <3>1, <3>2 DEF Header
  <2>3. add' \in [Cpu -> AddState]
    <3>1. [add[c] EXCEPT !.pc = "mark"] \in AddState
      <4>1. add[c] \in [pc : {"write", "count", "mark"}, req : Request, n : Nat, new : Nat]
        BY <2>1 DEF AddState, NoAdd
      <4> QED  BY <4>1 DEF AddState
    <3> QED  BY <1>3, <3>1 DEF AddCount
  <2> QED  BY <1>3, <2>2, <2>3 DEF AddCount, history
<1>4. CASE AddMark(c)
  <2>1. hdr' \in Header
    BY <1>4 DEF AddMark, Header
  <2>2. add' \in [Cpu -> AddState]
    BY <1>4, AddTypes DEF AddMark
  <2>3. missed' \in BOOLEAN
    BY <1>4 DEF AddMark, Writing
  <2> QED  BY <1>4, <2>1, <2>2, <2>3 DEF AddMark
<1> QED  BY <1>1, <1>2, <1>3, <1>4 DEF AddOn

\* The steps of the sync thread.
LEMMA TypeSync ==
    ASSUME TypeOK, BelowLimit, SyncThread
    PROVE  TypeOK'
<1> USE DEF TypeOK
<1>1. CASE SyncHeader
  <2>1. [disk EXCEPT !.hdr = hdr] \in [hdr : Header, db : [Index -> Entry]]
    OBVIOUS
  <2>2. [i \in Index |-> IF i <= hdr.n THEN db[i] ELSE NoEntry] \in [Index -> Entry]
    BY EmptyTypes
  <2> QED  BY <1>1, <2>1, <2>2 DEF SyncHeader, Transferred, tableVars
<1>2. CASE SyncEntries
  <2>1. [disk EXCEPT !.db = db] \in [hdr : Header, db : [Index -> Entry]]
    OBVIOUS
  <2>2. saved' \subseteq Request /\ unmarked' \in BOOLEAN
    BY <1>2 DEF SyncEntries, Transferred, Mapped
  <2> QED  BY <1>2, <2>1, <2>2 DEF SyncEntries, Transferred, tableVars
<1>3. CASE SyncDone
  <2>1. hdr' \in Header
    BY <1>3 DEF SyncDone, Header
  <2> QED  BY <1>3, <2>1 DEF SyncDone, history
<1>4. CASE SyncFail
  <2>1. hdr.failed \in Nat /\ hdr.failed < SyncFailMax
    BY <1>4, HeaderParts DEF SyncFail, Due, BelowLimit
  <2>2. hdr.failed + 1 \in 0 .. SyncFailMax
    BY <2>1, LimitAssumption
  <2>3. hdr' \in Header
    BY <1>4, <2>2 DEF SyncFail, Header
  <2> QED  BY <1>4, <2>3 DEF SyncFail, history
<1> QED  BY <1>1, <1>2, <1>3, <1>4 DEF SyncThread

LEMMA AdoptTypes ==
    ASSUME NEW h \in Header, NEW d \in [Index -> Entry], Adopt(h, d)
    PROVE  /\ hdr' \in Header /\ db' \in [Index -> Entry]
           /\ hdr'.magic
           /\ hdr'.failed \in {0, h.failed}
<1>1. CASE h.magic
  <2>1. (IF h.n > MaxRemap THEN MaxRemap ELSE h.n) \in Nat
    BY HeaderParts, LimitAssumption
  <2>2. hdr' = [h EXCEPT !.n = IF h.n > MaxRemap THEN MaxRemap ELSE h.n] /\ db' = d
    BY <1>1 DEF Adopt
  <2> QED  BY <1>1, <2>1, <2>2 DEF Header
<1>2. CASE ~h.magic
  <2>1. /\ hdr' = [EmptyHdr EXCEPT !.magic = TRUE, !.base = Base, !.need = TRUE]
        /\ db' = EmptyDb
    BY <1>2 DEF Adopt
  <2>2. hdr' = [magic |-> TRUE, base |-> Base, n |-> 0, need |-> TRUE, failed |-> 0]
    BY <2>1 DEF EmptyHdr
  <2>3. hdr' \in Header
    BY <2>2, LimitAssumption DEF Header
  <2>4. db' \in [Index -> Entry]
    BY <2>1, EmptyTypes
  <2> QED  BY <2>2, <2>3, <2>4
<1> QED  BY <1>1, <1>2

\* The disk, the clear command, the crash.
LEMMA TypeDisk ==
    ASSUME TypeOK, Disk \/ Clear \/ Crash
    PROVE  TypeOK'
<1> USE DEF TypeOK
<1>1. CASE Online
  <2>1. tainted' \in BOOLEAN
    BY <1>1 DEF Online
  <2> QED  BY <1>1, <2>1, EmptyTypes DEF Online
<1>7. CASE OnlineUnsized
  <2>1. hdr' \in Header
    <3>1. hdr' = [magic |-> TRUE, base |-> 0, n |-> 0, need |-> TRUE, failed |-> 0]
      BY <1>7 DEF OnlineUnsized, EmptyHdr
    <3> QED  BY <3>1, LimitAssumption DEF Header
  <2>2. tainted' \in BOOLEAN
    BY <1>7 DEF OnlineUnsized
  <2> QED  BY <1>7, <2>1, <2>2, EmptyTypes DEF OnlineUnsized
<1>2. CASE LoadDone
  <2>1. /\ Transferred(disk.hdr, hdr) \in Header
        /\ Transferred(disk.db, db) \in [Index -> Entry]
    BY DEF Transferred
  <2>2. hdr' \in Header /\ db' \in [Index -> Entry]
    BY <1>2, <2>1, AdoptTypes DEF LoadDone
  <2>3. tainted' \in BOOLEAN /\ missed' \in BOOLEAN
    BY <1>2 DEF LoadDone, Writing
  <2> QED  BY <1>2, <2>2, <2>3 DEF LoadDone
<1>3. CASE LoadFail
  <2>1. hdr' \in Header /\ db' \in [Index -> Entry]
    BY <1>3, AdoptTypes DEF LoadFail
  <2>2. tainted' \in BOOLEAN /\ missed' \in BOOLEAN
    BY <1>3 DEF LoadFail, Writing
  <2> QED  BY <1>3, <2>1, <2>2 DEF LoadFail
<1>4. CASE Offline
  BY <1>4 DEF Offline, tableVars, history
<1>5. CASE Clear
  <2>1. hdr' \in Header
    <3>1. hdr' = [magic |-> FALSE, base |-> hdr.base, n |-> 0, need |-> TRUE, failed |-> 0]
      BY <1>5 DEF Clear, EmptyHdr
    <3> QED  BY <3>1, HeaderParts, LimitAssumption DEF Header
  <2>2. tainted' \in BOOLEAN /\ missed' \in BOOLEAN
    BY <1>5 DEF Clear, Writing
  <2> QED  BY <1>5, <2>1, <2>2, EmptyTypes DEF Clear
<1>6. CASE Crash
  <2>1. add' \in [Cpu -> AddState]
    BY <1>6, AddTypes DEF Crash
  <2> QED  BY <1>6, <2>1, EmptyTypes DEF Crash, history
<1> QED  BY <1>1, <1>2, <1>3, <1>4, <1>5, <1>6, <1>7 DEF Disk

LEMMA TypeStep ==
    ASSUME TypeOK, BelowLimit, [Next]_vars
    PROVE  TypeOK'
<1>1. CASE Next
  BY <1>1, TypeAdd, TypeSync, TypeDisk DEF Next, Adding
<1>2. CASE UNCHANGED vars
  BY <1>2 DEF TypeOK, vars, tableVars, history
<1> QED  BY <1>1, <1>2

-----------------------------------------------------------------------------
(* The parts of the invariant that hold in every state.                    *)

LEMMA LimitStep ==
    ASSUME TypeOK, BelowLimit, LoadedCanSync, [Next]_vars
    PROVE  BelowLimit' /\ LoadedCanSync'
<1> USE DEF BelowLimit, LoadedCanSync
<1>0. disk.hdr \in Header /\ hdr \in Header
  BY DEF TypeOK
<1>1. ASSUME NEW c \in Cpu, (\E r \in Request : AddBegin(c, r)) \/ AddOn(c)
      PROVE  /\ hdr'.failed = hdr.failed /\ sync' = sync /\ disk' = disk
  BY <1>1, <1>0 DEF AddOn, AddBegin, AddWrite, AddCount, AddMark, tableVars, Header
<1>2. CASE SyncHeader
  <2>1. hdr.failed < SyncFailMax
    BY <1>2 DEF SyncHeader, Due
  <2>2. disk'.hdr = hdr \/ disk' = disk
    BY <1>2 DEF SyncHeader, Transferred, TypeOK
  <2> QED  BY <1>2, <2>1, <2>2 DEF SyncHeader, tableVars
<1>3. CASE SyncEntries
  <2>1. disk'.hdr = disk.hdr
    BY <1>3 DEF SyncEntries, Transferred, TypeOK
  <2> QED  BY <1>3, <2>1 DEF SyncEntries, tableVars
<1>4. CASE SyncDone
  BY <1>4 DEF SyncDone
<1>5. CASE SyncFail
  BY <1>5 DEF SyncFail
<1>6. CASE Online \/ OnlineUnsized
  <2>1. CASE Online
    BY <2>1, LimitAssumption DEF Online, EmptyHdr
  <2>2. CASE OnlineUnsized
    <3>1. hdr' = [magic |-> TRUE, base |-> 0, n |-> 0, need |-> TRUE, failed |-> 0]
      BY <2>2 DEF OnlineUnsized, EmptyHdr
    <3>2. hdr'.failed = 0
      BY <3>1
    <3> QED  BY <3>2, <2>2, LimitAssumption DEF OnlineUnsized
  <2> QED  BY <1>6, <2>1, <2>2
<1>7. CASE LoadDone \/ LoadFail
  <2>1. hdr'.failed \in {0, hdr.failed, disk.hdr.failed}
    <3>1. CASE LoadDone
      <4>1. Transferred(disk.hdr, hdr) \in Header /\ Transferred(disk.db, db) \in [Index -> Entry]
        BY DEF Transferred, TypeOK
      <4>2. hdr'.failed \in {0, Transferred(disk.hdr, hdr).failed}
        BY <3>1, <4>1, AdoptTypes DEF LoadDone
      <4> QED  BY <4>2 DEF Transferred
    <3>2. CASE LoadFail
      BY <3>2, AdoptTypes DEF LoadFail, TypeOK
    <3> QED  BY <1>7, <3>1, <3>2
  <2>2. sync' = sync /\ disk' = disk
    BY <1>7 DEF LoadDone, LoadFail
  <2>3. 0 < SyncFailMax
    BY LimitAssumption
  <2> QED  BY <2>1, <2>2, <2>3
<1>8. CASE Offline
  BY <1>8 DEF Offline, tableVars
<1>9. CASE Clear
  BY <1>9, LimitAssumption DEF Clear, EmptyHdr
<1>10. CASE Crash
  BY <1>10 DEF Crash
<1>11. CASE UNCHANGED vars
  BY <1>11 DEF vars, tableVars
<1> QED  BY <1>1, <1>2, <1>3, <1>4, <1>5, <1>6, <1>7, <1>8, <1>9, <1>10, <1>11
         DEF Next, Adding, SyncThread, Disk

LEMMA StrayStep ==
    ASSUME TypeOK, NoStrayWrite, [Next]_vars
    PROVE  NoStrayWrite'
<1> USE DEF NoStrayWrite
<1>1. ASSUME NEW c \in Cpu, (\E r \in Request : AddBegin(c, r)) \/ AddOn(c)
      PROVE  dev' = dev /\ sync' = sync
  BY <1>1 DEF AddOn, AddBegin, AddWrite, AddCount, AddMark
<1>2. CASE SyncThread
  BY <1>2 DEF SyncThread, SyncHeader, SyncEntries, SyncDone, SyncFail, Due
<1>3. CASE Disk \/ Clear \/ Crash
  BY <1>3 DEF Disk, Online, OnlineUnsized, LoadDone, LoadFail, Offline, Clear, Crash
<1>4. CASE UNCHANGED vars
  BY <1>4 DEF vars
<1> QED  BY <1>1, <1>2, <1>3, <1>4 DEF Next, Adding

\* tainted is never reset.
LEMMA StaysTainted ==
    ASSUME TypeOK, [Next]_vars, ~tainted'
    PROVE  ~tainted
<1>1. ASSUME NEW c \in Cpu, (\E r \in Request : AddBegin(c, r)) \/ AddOn(c)
      PROVE  ~tainted
  BY <1>1 DEF AddOn, AddBegin, AddWrite, AddCount, AddMark, history
<1>2. CASE SyncThread
  BY <1>2 DEF SyncThread, SyncHeader, SyncEntries, SyncDone, SyncFail, history
<1>3. CASE Disk \/ Clear \/ Crash
  BY <1>3 DEF Disk, Online, OnlineUnsized, LoadDone, LoadFail, Offline, Clear, Crash, history
<1>4. CASE UNCHANGED vars
  BY <1>4 DEF vars, history
<1> QED  BY <1>1, <1>2, <1>3, <1>4 DEF Next, Adding

-----------------------------------------------------------------------------
(* Chains of replacements.                                                 *)

LEMMA CountedParts ==
    ASSUME NEW h \in Header
    PROVE  \A i : i \in Counted(h) <=> i \in Nat /\ 1 <= i /\ i <= MaxRemap /\ i <= h.n
BY HeaderParts, LimitAssumption DEF Counted, Index

LEMMA ChainSame ==
    ASSUME NEW h \in Header, NEW g \in Header, NEW d, NEW e, Chain(h, d),
           g.base = h.base, g.n = h.n, \A i \in Counted(h) : e[i] = d[i]
    PROVE  Chain(g, e)
<1>1. Counted(g) = Counted(h)
  BY DEF Counted
<1> QED  BY <1>1 DEF Chain

LEMMA ChainEmpty ==
    ASSUME NEW h \in Header, NEW d, h.base = Base, h.n = 0
    PROVE  Chain(h, d)
<1>1. Counted(h) = {}
  BY CountedParts
<1> QED  BY <1>1, LimitAssumption DEF Chain

LEMMA NextEnd ==
    ASSUME NEW i \in Nat, NEW m \in Nat, NEW b \in Nat, NEW e \in Nat, NEW s \in Nat,
           e <= b + i * m, s <= m
    PROVE  e + s <= b + (i + 1) * m
<1>1. (i + 1) * m = i * m + m
  OBVIOUS
<1>2. i * m \in Nat
  OBVIOUS
<1>3. ASSUME NEW p \in Nat, e <= b + p PROVE e + s <= b + (p + m)
  BY <1>3
<1> QED  BY <1>1, <1>2, <1>3

LEMMA ChainGrows ==
    ASSUME NEW h \in Header, NEW g \in Header, NEW d \in [Index -> Entry], Chain(h, d),
           h.n < MaxRemap, g.base = h.base, g.n = h.n + 1,
           d[h.n + 1].new = NextNew(h, d), d[h.n + 1].sectors <= MaxSectors
    PROVE  Chain(g, d)
<1> DEFINE m == h.n + 1
<1>1. h.n \in Nat /\ MaxSectors \in Nat /\ MaxRemap \in Nat /\ Base \in Nat /\ h.base = Base
  BY HeaderParts, LimitAssumption, SpaceAssumption DEF Chain
<1>2. m \in Index /\ Counted(g) = Counted(h) \cup {m} /\ m \notin Counted(h)
  BY <1>1, CountedParts DEF Index
<1>3. d[m].new \in Nat /\ d[m].sectors \in Nat
  BY <1>2, EntryParts
<1>4. \A i \in Counted(h) : /\ i \in Nat /\ i < m
                            /\ d[i].new \in Nat /\ d[i].sectors \in Nat
                            /\ Base <= d[i].new /\ End(d[i]) <= Base + i * MaxSectors
  <2> SUFFICES ASSUME NEW i \in Counted(h)
               PROVE  /\ i \in Nat /\ i < h.n + 1
                      /\ d[i].new \in Nat /\ d[i].sectors \in Nat
                      /\ Base <= d[i].new /\ End(d[i]) <= Base + i * MaxSectors
    BY DEF m
  <2>1. i \in Nat /\ i <= h.n /\ i \in Index
    BY CountedParts DEF Counted
  <2>2. i < h.n + 1
    BY <2>1, <1>1
  <2>3. d[i].new \in Nat /\ d[i].sectors \in Nat
    BY <2>1, EntryParts
  <2>4. Base <= d[i].new /\ End(d[i]) <= Base + i * MaxSectors
    BY DEF Chain
  <2> QED  BY <2>1, <2>2, <2>3, <2>4
<1>5. CASE h.n = 0
  <2>1. Counted(h) = {}
    BY <1>5, CountedParts
  <2>2. d[m].new = Base
    BY <1>1, <1>5 DEF NextNew
  <2>3. Base <= Base + 0 * MaxSectors
    BY <1>1
  <2>4. End(d[m]) <= Base + m * MaxSectors
    <3>1. Base + d[m].sectors <= Base + (0 + 1) * MaxSectors
      BY <1>1, <1>3, <2>3, NextEnd
    <3>2. m = 0 + 1
      BY <1>5
    <3> HIDE DEF m
    <3> QED  BY <3>1, <3>2, <2>2 DEF End
  <2> QED  BY <1>1, <1>2, <1>5, <2>1, <2>2, <2>4 DEF Chain
<1>6. CASE h.n # 0
  <2>1. h.n \in Counted(h)
    BY <1>1, <1>6, CountedParts
  <2>2. d[m].new = End(d[h.n])
    BY <1>6 DEF NextNew, End
  <2>3. Base <= d[m].new
    BY <1>1, <1>4, <2>1, <2>2 DEF End
  <2>4. End(d[m]) <= Base + m * MaxSectors
    <3>1. End(d[h.n]) <= Base + h.n * MaxSectors /\ End(d[h.n]) \in Nat
      BY <1>4, <2>1 DEF End
    <3>2. End(d[h.n]) + d[m].sectors <= Base + (h.n + 1) * MaxSectors
      BY <1>1, <1>3, <3>1, NextEnd
    <3> QED  BY <2>2, <3>2 DEF End
  <2>5. \A i \in Counted(h) : End(d[i]) <= d[m].new
    <3> SUFFICES ASSUME NEW i \in Counted(h)
                 PROVE  End(d[i]) <= d[m].new
      OBVIOUS
    <3>1. CASE i = h.n
      BY <3>1, <2>2, <1>4, <1>3 DEF End
    <3>2. CASE i # h.n
      <4>1. i < h.n
        BY <3>2, <1>1, <1>4
      <4>2. End(d[i]) <= d[h.n].new
        BY <4>1, <2>1 DEF Chain
      <4>3. /\ d[i].new \in Nat /\ d[i].sectors \in Nat
            /\ d[h.n].new \in Nat /\ d[h.n].sectors \in Nat
        BY <1>4, <2>1
      <4> QED  BY <4>2, <4>3, <2>2 DEF End
    <3> QED  BY <3>1, <3>2
  <2>6. \A i, j \in Counted(g) : i < j => End(d[i]) <= d[j].new
    <3> SUFFICES ASSUME NEW i \in Counted(g), NEW j \in Counted(g), i < j
                 PROVE  End(d[i]) <= d[j].new
      OBVIOUS
    <3>1. i \in Nat /\ j \in Nat /\ j <= m
      BY <1>1, CountedParts
    <3>2. i # m
      BY <3>1, <1>1
    <3>3. i \in Counted(h)
      BY <3>2, <1>2
    <3>4. CASE j = m
      BY <3>4, <3>3, <2>5
    <3>5. CASE j # m
      BY <3>5, <3>3, <1>2 DEF Chain
    <3> QED  BY <3>4, <3>5
  <2>7. \A i \in Counted(g) : Base <= d[i].new /\ End(d[i]) <= Base + i * MaxSectors
    BY <1>2, <1>4, <2>3, <2>4
  <2>8. g.base = Base /\ g.n <= MaxRemap
    BY <1>1
  <2> QED  BY <2>6, <2>7, <2>8 DEF Chain
<1> QED  BY <1>5, <1>6

LEMMA MappedGrows ==
    ASSUME NEW h \in Header, NEW g \in Header, NEW d, NEW e, h.n <= g.n,
           \A i \in Counted(h) : e[i] = d[i]
    PROVE  Mapped(h, d) \subseteq Mapped(g, e)
<1>1. Counted(h) \subseteq Counted(g)
  BY CountedParts, HeaderParts
<1>2. ASSUME NEW r \in Request, Hits(h, d, r) # {}
      PROVE  Hits(g, e, r) # {}
  <2>1. PICK i \in Counted(h) : d[i].lba = r.lba /\ d[i].sectors = r.sectors
    BY <1>2 DEF Hits
  <2> QED  BY <1>1, <2>1 DEF Hits
<1> QED  BY <1>2 DEF Mapped

-----------------------------------------------------------------------------
(* The steps of a processor keep the clean part.                           *)

\* While one processor is in an add, the others are not, and the table is
\* not being read.
LEMMA SoleAdd ==
    ASSUME Clean, NEW c \in Cpu, AddActive(c)
    PROVE  /\ \A o \in Cpu : o # c => add[o].pc = "idle"
           /\ dev # "loading"
BY DEF Clean, OneAdd, LoadingOK, AddActive

\* What the steps of an add leave alone.
LEMMA AddKeeps ==
    ASSUME TypeOK, Clean, NEW c \in Cpu, AddOn(c)
    PROVE  /\ AddActive(c) /\ dev' = dev /\ disk' = disk /\ sync' = sync
           /\ image' = image /\ saved' = saved /\ unmarked' = unmarked /\ dev # "loading"
           /\ \A o \in Cpu : o # c => add'[o] = add[o] /\ add[o].pc = "idle"
           /\ OneAdd'
<1>1. AddActive(c)
  BY DEF AddOn, AddWrite, AddCount, AddMark, AddActive
<1>2. \A o \in Cpu : o # c => add'[o] = add[o]
  BY DEF AddOn, AddWrite, AddCount, AddMark, TypeOK
<1>3. dev # "loading" /\ \A o \in Cpu : o # c => add[o].pc = "idle"
  BY <1>1, SoleAdd
<1>4. \A o \in Cpu : AddActive(o)' => o = c
  BY <1>2, <1>3 DEF AddActive
<1>5. OneAdd'
  BY <1>4 DEF OneAdd
<1>6. /\ dev' = dev /\ disk' = disk /\ sync' = sync
      /\ image' = image /\ saved' = saved /\ unmarked' = unmarked
  BY DEF AddOn, AddWrite, AddCount, AddMark, history
<1> QED  BY <1>1, <1>2, <1>3, <1>5, <1>6

LEMMA CleanAddBegin ==
    ASSUME TypeOK, Clean, ~tainted', NEW c \in Cpu, NEW r \in Request, AddBegin(c, r)
    PROVE  Clean'
<1>1. /\ dev # "loading" /\ dev' = dev /\ hdr' = hdr /\ db' = db /\ disk' = disk
      /\ sync' = sync /\ missed' = missed /\ image' = image /\ saved' = saved
      /\ unmarked' = unmarked /\ hdr.n < MaxRemap
  BY DEF AddBegin, tableVars
<1>2. \A o \in Cpu : add[o].pc = "idle"
  BY DEF AddBegin, AddActive
<1>3. /\ add'[c] = [pc |-> "write", req |-> r, n |-> hdr.n, new |-> NextNew(hdr, db)]
      /\ \A o \in Cpu : o # c => add'[o] = add[o]
  BY DEF AddBegin, TypeOK
<1>4. OneAdd'
  BY <1>2, <1>3 DEF OneAdd, AddActive
<1>5. LoadingOK'
  BY <1>1 DEF LoadingOK
<1>6. TablesOK'
  BY <1>1 DEF TablesOK, Clean
<1>7. AddOK'
  <2>1. AddOK' <=> (dev = "on" => \A o \in Cpu :
            /\ add'[o].pc \in {"write", "count"} => add'[o].n = hdr.n /\ hdr.n < MaxRemap
            /\ add'[o].pc = "write" => add'[o].new = NextNew(hdr, db)
            /\ add'[o].pc = "count" =>
                   db[hdr.n + 1] = [lba |-> add'[o].req.lba, new |-> NextNew(hdr, db),
                                    sectors |-> add'[o].req.sectors])
    BY <1>1 DEF AddOK, NextNew
  <2>2. add'[c].pc = "write" /\ add'[c].n = hdr.n /\ add'[c].new = NextNew(hdr, db)
    BY <1>3
  <2>3. \A o \in Cpu : o # c => add'[o].pc = "idle"
    BY <1>2, <1>3
  <2> QED  BY <1>1, <2>1, <2>2, <2>3
<1>8. SavedOK' /\ WriteOK'
  BY <1>1 DEF SavedOK, WriteOK, Coherent, Clean
<1>9. FreshOK'
  BY <1>1, <1>2 DEF FreshOK, Clean, Writing, Match, Coherent
<1> QED  BY <1>4, <1>5, <1>6, <1>7, <1>8, <1>9 DEF Clean

\* An entry is stored behind the ones that are counted.
LEMMA WriteBehind ==
    ASSUME TypeOK, Clean, NEW c \in Cpu, AddWrite(c), dev = "on"
    PROVE  /\ add[c].n = hdr.n /\ hdr.n < MaxRemap
           /\ db'[hdr.n + 1] = [lba |-> add[c].req.lba, new |-> NextNew(hdr, db),
                                sectors |-> add[c].req.sectors]
           /\ \A i \in Counted(hdr) : db'[i] = db[i]
           /\ NextNew(hdr, db') = NextNew(hdr, db)
<1>1. add[c].pc = "write" /\ hdr \in Header
  BY DEF AddWrite, TypeOK
<1>2. add[c].n = hdr.n /\ hdr.n < MaxRemap /\ add[c].new = NextNew(hdr, db)
  BY <1>1 DEF Clean, AddOK
<1>3. db' = [db EXCEPT ![hdr.n + 1] = [lba |-> add[c].req.lba, new |-> NextNew(hdr, db),
                                       sectors |-> add[c].req.sectors]]
  BY <1>2 DEF AddWrite
<1>4. hdr.n + 1 \in Index /\ hdr.n \in Nat
  BY <1>1, <1>2, HeaderParts, LimitAssumption DEF Index
<1>5. db'[hdr.n + 1] = [lba |-> add[c].req.lba, new |-> NextNew(hdr, db),
                        sectors |-> add[c].req.sectors]
  BY <1>3, <1>4 DEF TypeOK
<1>6. ASSUME NEW i \in Counted(hdr)
      PROVE  db'[i] = db[i]
  <2>1. i \in Index /\ i # hdr.n + 1
    BY <1>4, <1>1, CountedParts DEF Counted
  <2> QED  BY <1>3, <2>1 DEF TypeOK
<1>7. NextNew(hdr, db') = NextNew(hdr, db)
  <2>1. hdr.n # 0 => hdr.n \in Counted(hdr)
    BY <1>1, <1>2, <1>4, CountedParts, LimitAssumption
  <2> QED  BY <1>6, <2>1 DEF NextNew
<1> QED  BY <1>2, <1>5, <1>6, <1>7

LEMMA CleanAddWrite ==
    ASSUME TypeOK, Clean, ~tainted', NEW c \in Cpu, AddWrite(c)
    PROVE  Clean'
<1>0. AddOn(c)
  BY DEF AddOn
<1>1. hdr' = hdr /\ missed' = missed /\ add[c].pc = "write" /\ hdr \in Header
  BY DEF AddWrite, history, TypeOK
<1>2. add'[c] = [add[c] EXCEPT !.pc = "count"]
  BY DEF AddWrite, TypeOK
<1>3. /\ add'[c].pc = "count" /\ add'[c].n = add[c].n
      /\ add'[c].req = add[c].req /\ add'[c].new = add[c].new
  <2>1. add[c] \in [pc : {"write", "count", "mark"}, req : Request, n : Nat, new : Nat]
    BY <1>1 DEF TypeOK, AddState, NoAdd
  <2> QED  BY <1>2, <2>1
<1>4. dev = "on" =>
          /\ add[c].n = hdr.n /\ hdr.n < MaxRemap
          /\ db'[hdr.n + 1] = [lba |-> add[c].req.lba, new |-> NextNew(hdr, db),
                               sectors |-> add[c].req.sectors]
          /\ \A i \in Counted(hdr) : db'[i] = db[i]
          /\ NextNew(hdr, db') = NextNew(hdr, db)
  BY WriteBehind
<1>5. OneAdd'
  BY <1>0, AddKeeps
<1>6. LoadingOK'
  BY <1>0, AddKeeps DEF LoadingOK
<1>7. TablesOK'
  <2>1. dev = "on" => Chain(hdr, db')
    BY <1>1, <1>4, ChainSame DEF Clean, TablesOK
  <2> QED  BY <1>0, <1>1, <2>1, AddKeeps DEF Clean, TablesOK
<1>8. AddOK'
  <2> SUFFICES ASSUME dev = "on", NEW o \in Cpu
               PROVE  /\ add'[o].pc \in {"write", "count"} => add'[o].n = hdr.n /\ hdr.n < MaxRemap
                      /\ add'[o].pc = "write" => add'[o].new = NextNew(hdr, db')
                      /\ add'[o].pc = "count" =>
                             db'[hdr.n + 1] = [lba |-> add'[o].req.lba, new |-> NextNew(hdr, db'),
                                               sectors |-> add'[o].req.sectors]
    BY <1>0, <1>1, AddKeeps DEF AddOK, NextNew
  <2>1. CASE o = c
    BY <2>1, <1>3, <1>4
  <2>2. CASE o # c
    <3>1. add'[o].pc = "idle"
      BY <2>2, <1>0, AddKeeps
    <3> QED  BY <3>1
  <2> QED  BY <2>1, <2>2
<1>9. SavedOK' /\ WriteOK'
  <2>1. dev = "on" => Mapped(hdr, db) \subseteq Mapped(hdr, db')
    <3>1. hdr.n <= hdr.n
      BY <1>1, HeaderParts
    <3> QED  BY <1>1, <1>4, <3>1, MappedGrows
  <2>2. ASSUME dev = "on", disk.hdr.n <= hdr.n, Coherent(db)
        PROVE  Coherent(db)'
    <3>1. Counted(disk.hdr) \subseteq Counted(hdr)
      <4>1. disk.hdr \in Header
        BY DEF TypeOK
      <4> QED  BY <1>1, <2>2, <4>1, CountedParts, HeaderParts
    <3> QED  BY <1>0, <1>4, <2>2, <3>1, AddKeeps DEF Coherent
  <2> QED  BY <1>0, <1>1, <2>1, <2>2, AddKeeps DEF Clean, SavedOK, WriteOK
<1>10. FreshOK'
  <2>1. dev = "on" => (Match => Match')
    BY <1>0, <1>1, <1>4, AddKeeps DEF Match
  <2>2. Coherent(disk.db) => Coherent(disk.db)'
    BY <1>0, AddKeeps DEF Coherent
  <2>3. (\A o \in Cpu : add'[o].pc # "mark") => (\A o \in Cpu : add[o].pc # "mark")
    BY <1>0, <1>1, <1>3, AddKeeps
  <2> QED  BY <1>0, <1>1, <2>1, <2>2, <2>3, AddKeeps DEF Clean, FreshOK, Writing
<1> QED  BY <1>5, <1>6, <1>7, <1>8, <1>9, <1>10 DEF Clean

LEMMA CleanAddCount ==
    ASSUME TypeOK, Clean, ~tainted', NEW c \in Cpu, AddCount(c)
    PROVE  Clean'
<1>0. AddOn(c)
  BY DEF AddOn
<1>1. db' = db /\ missed' = missed /\ add[c].pc = "count" /\ hdr \in Header
  BY DEF AddCount, history, TypeOK
<1>2. add'[c].pc = "mark"
  <2>1. add[c] \in [pc : {"write", "count", "mark"}, req : Request, n : Nat, new : Nat]
    BY <1>1 DEF TypeOK, AddState, NoAdd
  <2>2. add'[c] = [add[c] EXCEPT !.pc = "mark"]
    BY DEF AddCount, TypeOK
  <2> QED  BY <2>1, <2>2
<1>3. hdr'.base = hdr.base /\ hdr'.magic = hdr.magic /\ hdr'.need = hdr.need
  BY <1>1 DEF AddCount, Header
<1>4. hdr' \in Header
  BY <1>0, TypeAdd DEF TypeOK
<1>5. dev = "on" => /\ add[c].n = hdr.n /\ hdr'.n = hdr.n + 1 /\ hdr.n < MaxRemap
                    /\ db[hdr.n + 1] = [lba |-> add[c].req.lba, new |-> NextNew(hdr, db),
                                        sectors |-> add[c].req.sectors]
  <2>1. dev = "on" => /\ add[c].n = hdr.n /\ hdr.n < MaxRemap
                      /\ db[hdr.n + 1] = [lba |-> add[c].req.lba, new |-> NextNew(hdr, db),
                                          sectors |-> add[c].req.sectors]
    BY <1>1 DEF Clean, AddOK
  <2> QED  BY <1>1, <2>1 DEF AddCount, Header
<1>6. OneAdd'
  BY <1>0, AddKeeps
<1>7. LoadingOK'
  BY <1>0, AddKeeps DEF LoadingOK
<1>8. TablesOK'
  <2>1. ASSUME dev = "on" PROVE Chain(hdr', db')
    <3>1. db[hdr.n + 1].new = NextNew(hdr, db) /\ db[hdr.n + 1].sectors = add[c].req.sectors
      BY <1>5, <2>1
    <3>2. add[c].req \in Request
      <4>1. add[c] \in AddState
        BY DEF TypeOK
      <4> QED  BY <1>1, <4>1, AddParts
    <3>3. db[hdr.n + 1].sectors <= MaxSectors
      BY <3>1, <3>2, RequestType, LimitAssumption
    <3>4. Chain(hdr, db) /\ db \in [Index -> Entry]
      BY <2>1 DEF Clean, TablesOK, TypeOK
    <3> QED  BY <1>1, <1>3, <1>4, <1>5, <2>1, <3>1, <3>3, <3>4, ChainGrows
  <2> QED  BY <1>0, <2>1, AddKeeps DEF Clean, TablesOK
<1>9. AddOK'
  BY <1>0, <1>2, AddKeeps DEF AddOK
<1>10. SavedOK' /\ WriteOK'
  <2>1. dev = "on" => hdr.n <= hdr'.n
    BY <1>1, <1>5, HeaderParts
  <2>2. dev = "on" => Mapped(hdr, db) \subseteq Mapped(hdr', db')
    BY <1>1, <1>4, <2>1, MappedGrows
  <2>3. dev = "on" /\ disk.hdr.n <= hdr.n => disk.hdr.n <= hdr'.n
    <3>1. disk.hdr.n \in Nat
      BY HeaderParts DEF TypeOK
    <3> QED  BY <1>1, <1>4, <2>1, <3>1, HeaderParts
  <2> QED  BY <1>0, <1>1, <1>3, <2>2, <2>3, AddKeeps DEF Clean, SavedOK, WriteOK, Coherent
<1>11. FreshOK'
  BY <1>0, <1>2, <1>3, AddKeeps DEF Clean, FreshOK
<1> QED  BY <1>6, <1>7, <1>8, <1>9, <1>10, <1>11 DEF Clean

LEMMA CleanAddMark ==
    ASSUME TypeOK, Clean, ~tainted', NEW c \in Cpu, AddMark(c)
    PROVE  Clean'
<1>0. AddOn(c)
  BY DEF AddOn
<1>1. /\ hdr \in Header /\ db' = db /\ missed' = (missed \/ Writing)
      /\ hdr'.base = hdr.base /\ hdr'.magic = hdr.magic /\ hdr'.n = hdr.n /\ hdr'.need
  BY DEF AddMark, TypeOK, Header
<1>2. hdr' \in Header
  BY <1>0, TypeAdd DEF TypeOK
<1>3. \A o \in Cpu : add'[o].pc = "idle"
  <2>1. add'[c].pc = "idle"
    BY DEF AddMark, TypeOK, NoAdd
  <2> QED  BY <1>0, <2>1, AddKeeps
<1>4. OneAdd'
  BY <1>0, AddKeeps
<1>5. LoadingOK'
  BY <1>0, AddKeeps DEF LoadingOK
<1>6. TablesOK'
  <2>1. dev = "on" => Chain(hdr', db')
    BY <1>1, <1>2, ChainSame DEF Clean, TablesOK
  <2> QED  BY <1>0, <2>1, AddKeeps DEF Clean, TablesOK
<1>7. AddOK'
  BY <1>3 DEF AddOK
<1>8. SavedOK' /\ WriteOK'
  <2>1. hdr.n <= hdr'.n
    BY <1>1, HeaderParts
  <2>2. Mapped(hdr, db) \subseteq Mapped(hdr', db')
    BY <1>1, <1>2, <2>1, MappedGrows
  <2>3. hdr'.magic = hdr.magic
    BY <1>1
  <2> QED  BY <1>0, <1>1, <2>2, <2>3, AddKeeps DEF Clean, SavedOK, WriteOK, Coherent
<1>9. FreshOK'
  BY <1>0, <1>1, AddKeeps DEF FreshOK, Writing
<1> QED  BY <1>4, <1>5, <1>6, <1>7, <1>8, <1>9 DEF Clean

-----------------------------------------------------------------------------
(* The steps of the sync thread keep the clean part.                       *)

LEMMA CleanSyncHeader ==
    ASSUME TypeOK, Clean, NoStrayWrite, SyncHeader
    PROVE  Clean'
<1>1. /\ dev' = dev /\ dev \in {"loading", "on"} /\ hdr' = hdr /\ db' = db /\ add' = add
      /\ saved' = saved /\ unmarked' = unmarked
      /\ sync' = "entries" /\ missed' = FALSE /\ hdr.need
      /\ hdr \in Header /\ disk.hdr \in Header
  BY DEF SyncHeader, Due, tableVars, TypeOK
<1>2. /\ Wide => disk'.hdr = hdr /\ \A i \in Counted(hdr) : image'[i] = db[i]
      /\ ~Wide => disk' = disk /\ image' = image
  BY DEF SyncHeader, Transferred, TypeOK, Counted
<1>3. /\ dev = "loading" => hdr.n = 0 /\ ~hdr.magic /\ \A c \in Cpu : ~AddActive(c)
      /\ disk.hdr.magic => Wide
  BY DEF Clean, LoadingOK, TablesOK
<1>4. OneAdd'
  BY <1>1 DEF Clean, OneAdd, AddActive
<1>5. LoadingOK'
  BY <1>1, <1>2, <1>3 DEF LoadingOK, AddActive
<1>6. TablesOK'
  <2>1. dev' = "on" => Chain(hdr', db')
    BY <1>1 DEF Clean, TablesOK
  <2>2. ASSUME disk'.hdr.magic PROVE Chain(disk'.hdr, image') /\ disk'.hdr.need /\ Wide
    <3>1. Wide /\ disk'.hdr = hdr /\ hdr.magic
      BY <1>2, <1>3, <2>2
    <3>2. Chain(hdr, db)
      BY <1>1, <1>3, <3>1 DEF Clean, TablesOK
    <3> QED  BY <1>1, <1>2, <3>1, <3>2, ChainSame
  <2> QED  BY <2>1, <2>2 DEF TablesOK
<1>7. AddOK'
  BY <1>1 DEF Clean, AddOK, NextNew
<1>8. SavedOK'
  <2> SUFFICES ASSUME ~unmarked
               PROVE  /\ dev = "on" => saved \subseteq Mapped(hdr, db)
                      /\ disk'.hdr.magic => saved \subseteq Mapped(disk'.hdr, image')
                      /\ ~disk'.hdr.magic => saved = {}
                      /\ dev = "on" /\ ~hdr.magic => saved = {}
                      /\ dev = "loading" /\ hdr.need => saved = {}
    BY <1>1 DEF SavedOK
  <2>1. /\ dev = "on" => saved \subseteq Mapped(hdr, db)
        /\ dev = "on" /\ ~hdr.magic => saved = {}
        /\ dev = "loading" => saved = {}
        /\ ~disk.hdr.magic => saved = {}
    BY <1>1 DEF Clean, SavedOK
  <2>2. CASE Wide
    <3>1. hdr.n <= hdr.n
      BY <1>1, HeaderParts
    <3>2. Mapped(hdr, db) \subseteq Mapped(hdr, image')
      BY <1>1, <1>2, <2>2, <3>1, MappedGrows
    <3> QED  BY <1>1, <1>2, <1>3, <2>1, <2>2, <3>2
  <2>3. CASE ~Wide
    BY <1>2, <1>3, <2>1, <2>3
  <2> QED  BY <2>2, <2>3
<1>10. WriteOK'
  <2> SUFFICES ASSUME disk'.hdr.magic
               PROVE  disk'.hdr.n <= hdr'.n /\ Coherent(db)'
    BY DEF WriteOK
  <2>1. Wide /\ disk'.hdr = hdr
    BY <1>2, <1>3
  <2>2. hdr.n <= hdr.n
    BY <1>1, HeaderParts
  <2> QED  BY <1>1, <1>2, <2>1, <2>2 DEF Coherent
<1>9. FreshOK'
  <2>1. Wide => Match'
    BY <1>1, <1>2 DEF Match
  <2> QED  BY <1>1, <2>1 DEF FreshOK
<1> QED  BY <1>4, <1>5, <1>6, <1>7, <1>8, <1>9, <1>10 DEF Clean

LEMMA CleanSyncEntries ==
    ASSUME TypeOK, Clean, NoStrayWrite, SyncEntries
    PROVE  Clean'
<1>1. /\ dev' = dev /\ dev \in {"loading", "on"} /\ hdr' = hdr /\ db' = db /\ add' = add
      /\ sync = "entries" /\ sync' = "result" /\ missed' = missed /\ image' = image
      /\ hdr \in Header /\ disk.hdr \in Header
  BY DEF SyncEntries, tableVars, TypeOK, NoStrayWrite
<1>2. disk'.hdr = disk.hdr /\ (Wide => disk'.db = db)
  BY DEF SyncEntries, Transferred, TypeOK
<1>3. \/ ~Wide /\ saved' = saved /\ unmarked' = unmarked
      \/ Wide /\ unmarked'
      \/ /\ Wide /\ disk.hdr.magic /\ hdr.magic
         /\ saved' = Mapped(disk.hdr, db)
  BY DEF SyncEntries, Transferred
<1>4. OneAdd'
  BY <1>1 DEF Clean, OneAdd, AddActive
<1>5. LoadingOK'
  BY <1>1, <1>2 DEF Clean, LoadingOK, AddActive, Writing
<1>6. TablesOK'
  BY <1>1, <1>2 DEF Clean, TablesOK
<1>7. AddOK'
  BY <1>1 DEF Clean, AddOK, NextNew
<1>8. SavedOK'
  <2>1. CASE (saved' = saved /\ unmarked' = unmarked) \/ unmarked'
    BY <1>1, <1>2, <2>1 DEF Clean, SavedOK
  <2>2. CASE disk.hdr.magic /\ hdr.magic /\ saved' = Mapped(disk.hdr, db)
    <3>1. dev = "on" /\ disk.hdr.n <= hdr.n /\ Coherent(db)
      BY <1>1, <2>2 DEF Clean, LoadingOK, WriteOK
    <3>2. saved' \subseteq Mapped(hdr, db)
      BY <1>1, <2>2, <3>1, MappedGrows
    <3>3. saved' \subseteq Mapped(disk.hdr, image)
      <4>1. disk.hdr.n <= disk.hdr.n
        BY <1>1, HeaderParts
      <4>2. \A i \in Counted(disk.hdr) : image[i] = db[i]
        BY <3>1 DEF Coherent
      <4> QED  BY <1>1, <2>2, <4>1, <4>2, MappedGrows
    <3> QED  BY <1>1, <1>2, <2>2, <3>1, <3>2, <3>3 DEF SavedOK
  <2> QED  BY <1>3, <2>1, <2>2
<1>10. WriteOK'
  BY <1>1 DEF WriteOK
<1>9. FreshOK'
  <2>1. Match => Match'
    BY <1>1, <1>2 DEF Match
  <2>2. Wide /\ Match => Coherent(disk.db)'
    <3>1. ASSUME Wide, Match PROVE \A i \in Counted(disk'.hdr) : disk'.db[i] = image'[i]
      <4>1. Counted(disk'.hdr) = Counted(hdr)
        BY <1>2, <3>1 DEF Match, Counted
      <4> QED  BY <1>1, <1>2, <3>1, <4>1 DEF Match
    <3> QED  BY <3>1 DEF Coherent
  <2> QED  BY <1>1, <2>1, <2>2 DEF Clean, FreshOK, Writing
<1> QED  BY <1>4, <1>5, <1>6, <1>7, <1>8, <1>9, <1>10 DEF Clean

LEMMA CleanSyncDone ==
    ASSUME TypeOK, Clean, SyncDone
    PROVE  Clean'
<1>1. /\ dev' = dev /\ db' = db /\ disk' = disk /\ add' = add /\ sync = "result"
      /\ sync' = "idle" /\ missed' = missed /\ image' = image /\ saved' = saved
      /\ unmarked' = unmarked /\ hdr \in Header
  BY DEF SyncDone, history, TypeOK
<1>2. /\ hdr'.base = hdr.base /\ hdr'.magic = hdr.magic /\ hdr'.n = hdr.n /\ ~hdr'.need
      /\ hdr' \in Header
  BY <1>1 DEF SyncDone, Header
<1>3. OneAdd'
  BY <1>1 DEF Clean, OneAdd, AddActive
<1>4. LoadingOK'
  BY <1>1, <1>2 DEF Clean, LoadingOK, AddActive, Writing
<1>5. TablesOK'
  <2>1. dev = "on" => Chain(hdr', db')
    BY <1>1, <1>2, ChainSame DEF Clean, TablesOK
  <2> QED  BY <1>1, <2>1 DEF Clean, TablesOK
<1>6. AddOK'
  BY <1>1, <1>2 DEF Clean, AddOK, NextNew
<1>7. SavedOK' /\ WriteOK'
  <2>1. hdr.n <= hdr'.n
    BY <1>1, <1>2, HeaderParts
  <2>2. Mapped(hdr, db) \subseteq Mapped(hdr', db')
    BY <1>1, <1>2, <2>1, MappedGrows
  <2>3. WriteOK'
    BY <1>1 DEF WriteOK
  <2> QED  BY <1>1, <1>2, <2>2, <2>3 DEF Clean, SavedOK
<1>8. FreshOK'
  <2>1. Match => Match'
    BY <1>1, <1>2 DEF Match, Counted
  <2>2. Coherent(disk.db) => Coherent(disk.db)'
    BY <1>1 DEF Coherent
  <2> QED  BY <1>1, <2>1, <2>2 DEF Clean, FreshOK, Writing
<1> QED  BY <1>3, <1>4, <1>5, <1>6, <1>7, <1>8 DEF Clean

LEMMA CleanSyncFail ==
    ASSUME TypeOK, BelowLimit, Clean, SyncFail
    PROVE  Clean'
<1>1. /\ dev' = dev /\ db' = db /\ disk' = disk /\ add' = add
      /\ sync' = "idle" /\ missed' = missed /\ image' = image /\ saved' = saved
      /\ unmarked' = unmarked /\ hdr \in Header
  BY DEF SyncFail, history, TypeOK
<1>2. hdr'.base = hdr.base /\ hdr'.magic = hdr.magic /\ hdr'.n = hdr.n /\ hdr'.need = hdr.need
  BY <1>1 DEF SyncFail, Header
<1>3. hdr' \in Header
  BY TypeSync DEF SyncThread, TypeOK
<1>4. OneAdd'
  BY <1>1 DEF Clean, OneAdd, AddActive
<1>5. LoadingOK'
  BY <1>1, <1>2 DEF Clean, LoadingOK, AddActive, Writing
<1>6. TablesOK'
  <2>1. dev = "on" => Chain(hdr', db')
    BY <1>1, <1>2, <1>3, ChainSame DEF Clean, TablesOK
  <2> QED  BY <1>1, <2>1 DEF Clean, TablesOK
<1>7. AddOK'
  BY <1>1, <1>2 DEF Clean, AddOK, NextNew
<1>8. SavedOK' /\ WriteOK'
  <2>1. hdr.n <= hdr'.n
    BY <1>1, <1>2, HeaderParts
  <2>2. Mapped(hdr, db) \subseteq Mapped(hdr', db')
    BY <1>1, <1>3, <2>1, MappedGrows
  <2>3. WriteOK'
    BY <1>1 DEF WriteOK
  <2> QED  BY <1>1, <1>2, <2>2, <2>3 DEF Clean, SavedOK
<1>9. FreshOK'
  <2>1. Match => Match'
    BY <1>1, <1>2 DEF Match, Counted
  <2>2. Coherent(disk.db) => Coherent(disk.db)'
    BY <1>1 DEF Coherent
  <2>3. dev = "on" /\ ~hdr.need => sync = "idle"
    BY DEF Clean, FreshOK
  <2> QED  BY <1>1, <1>2, <2>1, <2>2, <2>3 DEF Clean, FreshOK, Writing
<1> QED  BY <1>4, <1>5, <1>6, <1>7, <1>8, <1>9 DEF Clean

-----------------------------------------------------------------------------
(* The disk, the clear command and the crash keep the clean part.          *)

LEMMA CleanOnline ==
    ASSUME TypeOK, NoStrayWrite, Clean, ~tainted', Online
    PROVE  Clean'
<1>1. /\ dev' = "loading" /\ disk' = disk /\ add' = add /\ sync' = sync
      /\ image' = image /\ saved' = saved /\ unmarked' = unmarked
      /\ sync # "entries" /\ \A c \in Cpu : ~AddActive(c)
  BY DEF Online, NoStrayWrite
<1>2. hdr'.n = 0 /\ ~hdr'.magic /\ ~hdr'.need
  BY DEF Online, EmptyHdr
<1>3. OneAdd'
  BY <1>1 DEF Clean, OneAdd, AddActive
<1>4. LoadingOK'
  BY <1>1, <1>2 DEF LoadingOK, AddActive
<1>5. TablesOK'
  BY <1>1 DEF Clean, TablesOK
<1>6. AddOK' /\ WriteOK'
  BY <1>1 DEF AddOK, WriteOK
<1>7. SavedOK'
  BY <1>1, <1>2 DEF Clean, SavedOK
<1>8. FreshOK'
  BY <1>1 DEF FreshOK
<1> QED  BY <1>3, <1>4, <1>5, <1>6, <1>7, <1>8 DEF Clean

LEMMA CleanUnsized ==
    ASSUME Clean, OnlineUnsized
    PROVE  Clean'
<1>1. /\ dev' = "unsized" /\ disk' = disk /\ add' = add
      /\ image' = image /\ saved' = saved /\ unmarked' = unmarked
  BY DEF OnlineUnsized
<1>2. OneAdd' /\ LoadingOK' /\ AddOK' /\ WriteOK' /\ FreshOK'
  BY <1>1 DEF Clean, OneAdd, AddActive, LoadingOK, AddOK, WriteOK, FreshOK
<1>3. TablesOK' /\ SavedOK'
  BY <1>1 DEF Clean, TablesOK, SavedOK
<1> QED  BY <1>2, <1>3 DEF Clean

\* A new table.
Fresh(h) == h.magic /\ h.base = Base /\ h.n = 0 /\ h.need

LEMMA AdoptFresh ==
    ASSUME NEW h, NEW d, ~h.magic, Adopt(h, d)
    PROVE  Fresh(hdr')
<1>1. hdr' = [magic |-> TRUE, base |-> Base, n |-> 0, need |-> TRUE, failed |-> 0]
  BY DEF Adopt, EmptyHdr
<1> QED  BY <1>1 DEF Fresh

\* A load gives the table on disk, or a new one when the disk has none or
\* nothing is saved any more.
LEMMA LoadCases ==
    ASSUME TypeOK, Clean, ~tainted', LoadDone \/ LoadFail
    PROVE  \/ /\ Wide /\ disk.hdr.magic /\ Coherent(disk.db) /\ saved' = saved
              /\ hdr'.magic /\ hdr'.base = disk.hdr.base /\ hdr'.n = disk.hdr.n
              /\ hdr'.need = disk.hdr.need /\ db' = disk.db
              /\ unmarked' = unmarked
           \/ Fresh(hdr') /\ (saved' = {} \/ unmarked')
<1>1. dev = "loading" /\ ~hdr.magic /\ (disk.hdr.magic => Wide) /\ disk.hdr \in Header
  BY DEF LoadDone, LoadFail, Clean, LoadingOK, TablesOK, TypeOK
<1>2. CASE LoadFail
  <2>1. Adopt(hdr, db) /\ saved' = {}
    BY <1>2 DEF LoadFail
  <2> QED  BY <1>1, <2>1, AdoptFresh
<1>3. CASE LoadDone /\ ~disk.hdr.magic
  <2>1. saved' = saved /\ unmarked' = unmarked /\ (saved = {} \/ unmarked)
    BY <1>3 DEF LoadDone, Clean, SavedOK
  <2>2. ~Transferred(disk.hdr, hdr).magic
    BY <1>1, <1>3 DEF Transferred
  <2>3. Fresh(hdr')
    BY <1>3, <2>2, AdoptFresh DEF LoadDone
  <2> QED  BY <2>1, <2>3
<1>4. CASE LoadDone /\ disk.hdr.magic
  <2>1. Wide /\ saved' = saved /\ unmarked' = unmarked /\ Coherent(disk.db) /\ Adopt(disk.hdr, disk.db)
    BY <1>1, <1>4 DEF LoadDone, Transferred
  <2>2. disk.hdr.n <= MaxRemap /\ disk.hdr.n \in Nat /\ MaxRemap \in Nat
    BY <1>1, <1>4, HeaderParts, LimitAssumption DEF Clean, TablesOK, Chain
  <2>3. ~(disk.hdr.n > MaxRemap)
    BY <2>2
  <2>4. hdr' = [disk.hdr EXCEPT !.n = disk.hdr.n] /\ db' = disk.db
    BY <1>4, <2>1, <2>3 DEF Adopt
  <2>5. /\ hdr'.magic /\ hdr'.base = disk.hdr.base /\ hdr'.n = disk.hdr.n
        /\ hdr'.need = disk.hdr.need
    BY <1>1, <1>4, <2>4 DEF Header
  <2> QED  BY <1>4, <2>1, <2>4, <2>5
<1> QED  BY <1>2, <1>3, <1>4

LEMMA CleanLoad ==
    ASSUME TypeOK, Clean, ~tainted', LoadDone \/ LoadFail
    PROVE  Clean'
<1>1. /\ dev = "loading" /\ dev' = "on" /\ disk' = disk /\ add' = add /\ sync' = sync
      /\ missed' = Writing /\ image' = image /\ disk.hdr \in Header
  BY DEF LoadDone, LoadFail, TypeOK
<1>2. (\A c \in Cpu : add[c].pc = "idle") /\ (sync = "entries" => ~disk.hdr.magic)
  BY <1>1 DEF Clean, LoadingOK, AddActive
<1>3. hdr' \in Header
  BY TypeDisk DEF Disk, TypeOK
<1>4. CASE /\ Wide /\ disk.hdr.magic /\ Coherent(disk.db) /\ saved' = saved
           /\ hdr'.magic /\ hdr'.base = disk.hdr.base /\ hdr'.n = disk.hdr.n
           /\ hdr'.need = disk.hdr.need /\ db' = disk.db
           /\ unmarked' = unmarked
  <2>1. Chain(disk.hdr, image) /\ disk.hdr.need
    BY <1>4 DEF Clean, TablesOK
  <2>2. \A i \in Counted(disk.hdr) : db'[i] = image[i]
    BY <1>4 DEF Coherent
  <2>0. hdr'.base = disk.hdr.base /\ hdr'.n = disk.hdr.n
    BY <1>4
  <2>3. Chain(hdr', db')
    BY <1>1, <1>3, <2>0, <2>1, <2>2, ChainSame
  <2>4. disk.hdr.n <= hdr'.n
    BY <1>1, <1>4, HeaderParts
  <2>5. Mapped(disk.hdr, image) \subseteq Mapped(hdr', db')
    BY <1>1, <1>3, <2>2, <2>4, MappedGrows
  <2>6. TablesOK'
    BY <1>1, <2>3 DEF Clean, TablesOK
  <2>7. SavedOK'
    BY <1>1, <1>4, <2>4, <2>5 DEF Clean, SavedOK
  <2>8. FreshOK'
    BY <1>1, <1>4, <2>1 DEF FreshOK, Writing
  <2>9. OneAdd' /\ LoadingOK' /\ AddOK' /\ WriteOK'
    BY <1>1, <1>2 DEF OneAdd, LoadingOK, AddOK, WriteOK, AddActive
  <2> QED  BY <2>6, <2>7, <2>8, <2>9 DEF Clean
<1>5. CASE Fresh(hdr') /\ (saved' = {} \/ unmarked')
  <2>1. Chain(hdr', db')
    BY <1>3, <1>5, ChainEmpty DEF Fresh
  <2>2. TablesOK'
    BY <1>1, <2>1 DEF Clean, TablesOK
  <2>4. SavedOK'
    BY <1>1, <1>5 DEF SavedOK
  <2>5. FreshOK'
    BY <1>1, <1>5 DEF FreshOK, Fresh, Writing
  <2>6. OneAdd' /\ LoadingOK' /\ AddOK' /\ WriteOK'
    BY <1>1, <1>2 DEF OneAdd, LoadingOK, AddOK, WriteOK, AddActive
  <2> QED  BY <2>2, <2>4, <2>5, <2>6 DEF Clean
<1> QED  BY <1>4, <1>5, LoadCases

LEMMA CleanOffline ==
    ASSUME Clean, Offline
    PROVE  Clean'
<1>1. /\ dev' \in {"gone", "absent"} /\ disk' = disk /\ add' = add
      /\ image' = image /\ saved' = saved /\ unmarked' = unmarked
  BY DEF Offline, tableVars, history
<1>2. OneAdd' /\ LoadingOK' /\ AddOK' /\ WriteOK' /\ FreshOK'
  BY <1>1 DEF Clean, OneAdd, AddActive, LoadingOK, AddOK, WriteOK, FreshOK
<1>3. TablesOK' /\ SavedOK'
  BY <1>1 DEF Clean, TablesOK, SavedOK
<1> QED  BY <1>2, <1>3 DEF Clean

LEMMA CleanClear ==
    ASSUME TypeOK, Clean, ~tainted', Clear
    PROVE  Clean'
<1>1. /\ dev' = dev /\ disk' = disk /\ add' = add /\ sync' = sync /\ image' = image
      /\ saved' = {} /\ missed' = (missed \/ Writing)
      /\ \A c \in Cpu : add[c].pc = "idle"
  BY DEF Clear, AddActive
<1>2. hdr'.base = hdr.base /\ hdr'.n = 0 /\ ~hdr'.magic /\ hdr'.need
  BY DEF Clear, EmptyHdr
<1>3. hdr' \in Header
  BY TypeDisk DEF TypeOK
<1>4. OneAdd' /\ AddOK' /\ WriteOK'
  BY <1>1, <1>2 DEF OneAdd, AddOK, WriteOK, AddActive
<1>5. LoadingOK'
  BY <1>1, <1>2 DEF Clean, LoadingOK, AddActive
<1>6. TablesOK'
  <2>1. dev = "on" => Chain(hdr', db')
    BY <1>2, <1>3, ChainEmpty DEF Clean, TablesOK, Chain
  <2> QED  BY <1>1, <2>1 DEF Clean, TablesOK
<1>7. SavedOK'
  BY <1>1, <1>2 DEF SavedOK
<1>8. FreshOK'
  BY <1>1, <1>2 DEF FreshOK, Writing
<1> QED  BY <1>4, <1>5, <1>6, <1>7, <1>8 DEF Clean

LEMMA CleanCrash ==
    ASSUME TypeOK, Clean, Crash
    PROVE  Clean'
<1>1. /\ dev' = "absent" /\ sync' = "idle" /\ disk' = disk
      /\ image' = image /\ saved' = saved /\ unmarked' = unmarked
      /\ \A c \in Cpu : add'[c].pc = "idle"
  BY DEF Crash, history, NoAdd
<1>2. OneAdd' /\ LoadingOK' /\ AddOK' /\ WriteOK' /\ FreshOK'
  BY <1>1 DEF OneAdd, AddActive, LoadingOK, AddOK, WriteOK, FreshOK
<1>3. TablesOK' /\ SavedOK'
  BY <1>1 DEF Clean, TablesOK, SavedOK
<1> QED  BY <1>2, <1>3 DEF Clean

LEMMA CleanStep ==
    ASSUME TypeOK, BelowLimit, NoStrayWrite, Clean, [Next]_vars, ~tainted'
    PROVE  Clean'
<1>1. CASE Adding
  BY <1>1, CleanAddBegin, CleanAddWrite, CleanAddCount, CleanAddMark DEF Adding, AddOn
<1>2. CASE SyncThread
  BY <1>2, CleanSyncHeader, CleanSyncEntries, CleanSyncDone, CleanSyncFail DEF SyncThread
<1>3. CASE Disk
  BY <1>3, CleanOnline, CleanUnsized, CleanLoad, CleanOffline DEF Disk
<1>4. CASE Clear \/ Crash
  BY <1>4, CleanClear, CleanCrash
<1>5. CASE UNCHANGED vars
  <2>1. /\ dev' = dev /\ hdr' = hdr /\ db' = db /\ disk' = disk /\ add' = add
        /\ sync' = sync /\ missed' = missed /\ image' = image /\ saved' = saved
        /\ unmarked' = unmarked
    BY <1>5 DEF vars, tableVars, history
  <2>2. OneAdd' /\ LoadingOK' /\ AddOK' /\ WriteOK'
    BY <2>1 DEF Clean, OneAdd, AddActive, LoadingOK, AddOK, NextNew, WriteOK, Coherent
  <2>3. TablesOK' /\ SavedOK'
    BY <2>1 DEF Clean, TablesOK, SavedOK
  <2>4. FreshOK'
    BY <2>1 DEF Clean, FreshOK, Writing, Match, Coherent
  <2> QED  BY <2>2, <2>3, <2>4 DEF Clean
<1> QED  BY <1>1, <1>2, <1>3, <1>4, <1>5 DEF Next

-----------------------------------------------------------------------------
(* The invariant, and what follows from it.                                *)

LEMMA IndInit == Init => IndInv
<1> SUFFICES ASSUME Init PROVE IndInv
  OBVIOUS
<1>1. TypeOK
  <2>1. add \in [Cpu -> AddState]
    BY AddTypes DEF Init
  <2>2. disk \in [hdr : Header, db : [Index -> Entry]]
    BY EmptyTypes DEF Init
  <2> QED  BY <2>1, <2>2, EmptyTypes DEF Init, TypeOK
<1>2. /\ dev = "absent" /\ sync = "idle" /\ disk.hdr = EmptyHdr /\ saved = {}
      /\ \A c \in Cpu : add[c].pc = "idle"
  BY DEF Init, NoAdd
<1>3. ~disk.hdr.magic /\ disk.hdr.failed = 0
  BY <1>2 DEF EmptyHdr
<1>4. BelowLimit /\ LoadedCanSync /\ NoStrayWrite
  BY <1>2, <1>3, LimitAssumption DEF BelowLimit, LoadedCanSync, NoStrayWrite
<1>5. Clean
  BY <1>2, <1>3 DEF Clean, OneAdd, AddActive, LoadingOK, TablesOK, AddOK, SavedOK, WriteOK, FreshOK
<1> QED  BY <1>1, <1>4, <1>5 DEF IndInv

LEMMA IndStep == IndInv /\ [Next]_vars => IndInv'
<1> SUFFICES ASSUME IndInv, [Next]_vars PROVE IndInv'
  OBVIOUS
<1>1. TypeOK /\ BelowLimit /\ LoadedCanSync /\ NoStrayWrite /\ (~tainted => Clean)
  BY DEF IndInv
<1>2. TypeOK' /\ BelowLimit' /\ LoadedCanSync' /\ NoStrayWrite'
  BY <1>1, TypeStep, LimitStep, StrayStep
<1>3. ~tainted' => Clean'
  BY <1>1, StaysTainted, CleanStep
<1> QED  BY <1>2, <1>3 DEF IndInv

\* IndInv holds in every reachable state.
THEOREM RemapInductive == Spec => []IndInv
<1> QED  BY IndInit, IndStep, PTL DEF Spec

\* The variables keep their types: the header that reaches the disk and the
\* one that is loaded are headers, and the failures never exceed the limit.
THEOREM TypeCorrect == Spec => []TypeOK
<1>1. IndInv => TypeOK
  BY DEF IndInv
<1> QED  BY <1>1, RemapInductive, PTL

\* The table nvd_remap_init_and_load finds can be written again.
THEOREM CanSync == Spec => []LoadedCanSync
<1>1. IndInv => LoadedCanSync
  BY DEF IndInv
<1> QED  BY <1>1, RemapInductive, PTL

LEMMA TimesGrows ==
    ASSUME NEW i \in Nat, NEW k \in Nat, NEW m \in Nat, i <= k
    PROVE  i * m <= k * m
OBVIOUS

LEMMA WithinSpare ==
    ASSUME NEW i \in Index
    PROVE  /\ i * MaxSectors \in Nat
           /\ Base + i * MaxSectors <= Base + Spare
<1>1. i \in Nat /\ i <= MaxRemap /\ MaxRemap \in Nat /\ MaxSectors \in Nat
  BY LimitAssumption DEF Index
<1>2. i * MaxSectors <= MaxRemap * MaxSectors
  BY <1>1, TimesGrows
<1>3. i * MaxSectors \in Nat /\ MaxRemap * MaxSectors \in Nat
  BY <1>1
<1>4. ASSUME NEW p \in Nat, NEW q \in Nat, p <= q, q <= Spare
      PROVE  Base + p <= Base + Spare
  BY <1>4, SpaceAssumption
<1> QED  BY <1>2, <1>3, <1>4, SpaceAssumption

\* The replacements nvd_add_remap_request hands out do not overlap and stay
\* between the table and the end of the capacity.
THEOREM Disjoint == Spec => []ReplacementsDisjoint
<1>1. IndInv => ReplacementsDisjoint
  <2> SUFFICES ASSUME IndInv, ~tainted, dev = "on"
               PROVE  /\ \A i \in Counted(hdr) : Base <= db[i].new /\ End(db[i]) <= Base + Spare
                      /\ \A i, j \in Counted(hdr) : i < j => End(db[i]) <= db[j].new
    BY DEF ReplacementsDisjoint
  <2>1. Chain(hdr, db)
    BY DEF IndInv, Clean, TablesOK
  <2>2. ASSUME NEW i \in Counted(hdr)
        PROVE  End(db[i]) <= Base + Spare
    <3>1. i \in Index
      BY DEF Counted
    <3>2. End(db[i]) \in Nat
      BY <3>1, EntryParts DEF IndInv, TypeOK, End
    <3>3. End(db[i]) <= Base + i * MaxSectors
      BY <2>1 DEF Chain
    <3>4. ASSUME NEW e \in Nat, NEW p \in Nat, e <= Base + p, Base + p <= Base + Spare
          PROVE  e <= Base + Spare
      BY <3>4, SpaceAssumption
    <3> QED  BY <3>1, <3>2, <3>3, <3>4, WithinSpare
  <2> QED  BY <2>1, <2>2 DEF Chain
<1> QED  BY <1>1, RemapInductive, PTL

\* When nothing is left to write, the disk has the table that is in memory.
THEOREM UpToDate == Spec => []SavedUpToDate
<1>1. IndInv => SavedUpToDate
  <2> SUFFICES ASSUME IndInv, Wide, dev = "on", sync = "idle", ~hdr.need, ~missed, ~tainted,
                      ~\E c \in Cpu : AddActive(c)
               PROVE  /\ disk.hdr.n = hdr.n /\ disk.hdr.magic = hdr.magic
                      /\ \A i \in Counted(hdr) : disk.db[i] = db[i]
    BY DEF SavedUpToDate
  <2>1. Match /\ Coherent(disk.db)
    BY DEF IndInv, Clean, FreshOK, AddActive
  <2>2. Counted(disk.hdr) = Counted(hdr)
    BY <2>1 DEF Match, Counted
  <2> QED  BY <2>1, <2>2 DEF Match, Coherent
<1> QED  BY <1>1, RemapInductive, PTL

\* A remap that the last completed write saved is in use whenever the disk is
\* online, unless that write was one without the magic number.
THEOREM Survives == Spec => []SavedSurvives
<1>1. IndInv => SavedSurvives
  BY DEF IndInv, Clean, SavedOK, SavedSurvives
<1> QED  BY <1>1, RemapInductive, PTL
-----------------------------------------------------------------------------
(* Redirection.                                                            *)

\* Entries behind the counted ones do not hide the first match.
LEMMA RedirectGrows ==
    ASSUME NEW h \in Header, NEW g \in Header, NEW d, NEW e, h.n <= g.n,
           \A i \in Counted(h) : e[i] = d[i], NEW r \in Mapped(h, d)
    PROVE  Redirect(g, e, r) = Redirect(h, d, r)
<1> DEFINE First(H) == {j \in H : \A k \in H : j <= k}
<1>1. h.n \in Nat /\ g.n \in Nat
  BY HeaderParts
<1>2. Counted(h) \subseteq Counted(g)
  BY CountedParts, <1>1
<1>3. Hits(h, d, r) = {i \in Hits(g, e, r) : i \in Counted(h)}
  BY <1>2 DEF Hits
<1>4. \A i \in Hits(g, e, r) : i \in Nat /\ (i \in Counted(h) <=> i <= h.n)
  BY CountedParts, <1>1 DEF Hits
<1>5. Hits(h, d, r) # {}
  BY DEF Mapped
<1>6. First(Hits(g, e, r)) = First(Hits(h, d, r))
  <2>1. ASSUME NEW j \in First(Hits(h, d, r)), NEW k \in Hits(g, e, r)
        PROVE  j <= k
    <3>1. CASE k \in Counted(h)
      BY <1>3, <2>1, <3>1
    <3>2. CASE k \notin Counted(h)
      BY <1>1, <1>3, <1>4, <2>1, <3>2
    <3> QED  BY <3>1, <3>2
  <2>2. ASSUME NEW j \in First(Hits(g, e, r))
        PROVE  j \in Hits(h, d, r)
    <3>1. PICK k \in Hits(h, d, r) : TRUE
      BY <1>5
    <3>2. j <= k /\ k <= h.n /\ j \in Nat /\ k \in Nat
      BY <1>3, <1>4, <2>2, <3>1
    <3> QED  BY <1>1, <1>3, <1>4, <2>2, <3>2
  <2>3. First(Hits(h, d, r)) \subseteq First(Hits(g, e, r))
    BY <1>3, <2>1
  <2>4. First(Hits(g, e, r)) \subseteq First(Hits(h, d, r))
    BY <1>3, <2>2
  <2> QED  BY <2>3, <2>4
<1>7. \A i \in First(Hits(h, d, r)) : e[i].new = d[i].new
  BY <1>3
<1>8. Redirect(g, e, r) = {e[i].new : i \in First(Hits(g, e, r))}
  BY DEF Redirect
<1>9. Redirect(h, d, r) = {d[i].new : i \in First(Hits(h, d, r))}
  BY DEF Redirect
<1> HIDE DEF First
<1> QED  BY <1>6, <1>7, <1>8, <1>9

\* As long as the disk stays online and is not cleared, the table only grows.
LEMMA TableGrows ==
    ASSUME TypeOK, BelowLimit, Clean, [Next]_vars, ~Clear, dev = "on", dev' = "on"
    PROVE  hdr.n <= hdr'.n /\ \A i \in Counted(hdr) : db'[i] = db[i]
<1>0. hdr.n \in Nat /\ hdr \in Header
  BY HeaderParts DEF TypeOK
<1>1. ASSUME NEW c \in Cpu, AddWrite(c)
      PROVE  hdr.n <= hdr'.n /\ \A i \in Counted(hdr) : db'[i] = db[i]
  <2>1. hdr' = hdr
    BY <1>1 DEF AddWrite
  <2>2. hdr.n <= hdr'.n
    BY <1>0, <2>1
  <2>3. \A i \in Counted(hdr) : db'[i] = db[i]
    BY <1>1, WriteBehind
  <2> QED  BY <2>2, <2>3
<1>2. ASSUME NEW c \in Cpu, AddCount(c)
      PROVE  hdr'.n = hdr.n + 1 /\ db' = db
  <2>1. add[c].n = hdr.n
    BY <1>2 DEF AddCount, Clean, AddOK
  <2> QED  BY <1>0, <1>2, <2>1 DEF AddCount, Header
<1>3. ASSUME NEW c \in Cpu, (\E r \in Request : AddBegin(c, r)) \/ AddMark(c)
      PROVE  hdr'.n = hdr.n /\ db' = db
  BY <1>0, <1>3 DEF AddBegin, AddMark, tableVars, Header
<1>4. CASE SyncThread
  <2>1. hdr'.n = hdr.n /\ db' = db
    BY <1>0, <1>4 DEF SyncThread, SyncHeader, SyncEntries, SyncDone, SyncFail, tableVars, Header
  <2> QED  BY <1>0, <2>1
<1>5. ~Disk /\ ~Crash
  BY DEF Disk, Online, OnlineUnsized, LoadDone, LoadFail, Offline, Crash
<1>6. CASE UNCHANGED vars
  BY <1>0, <1>6 DEF vars, tableVars
<1>7. CASE Adding
  BY <1>0, <1>1, <1>2, <1>3, <1>7 DEF Adding, AddOn
<1> QED  BY <1>4, <1>5, <1>6, <1>7 DEF Next

\* What nvd_if_lba_remapped answers for a remapped request does not change.
THEOREM Redirects == Spec => StableRedirect
<1>1. IndInv /\ IndInv' /\ [Next]_vars =>
          [ ~tainted' /\ dev = "on" /\ dev' = "on" /\ ~Clear =>
                \A r \in Mapped(hdr, db) : Redirect(hdr', db', r) = Redirect(hdr, db, r) ]_vars
  <2> SUFFICES ASSUME IndInv, IndInv', [Next]_vars, ~tainted', dev = "on", dev' = "on", ~Clear,
                      NEW r \in Mapped(hdr, db)
               PROVE  Redirect(hdr', db', r) = Redirect(hdr, db, r)
    OBVIOUS
  <2>1. TypeOK /\ BelowLimit /\ Clean
    BY StaysTainted DEF IndInv
  <2>2. hdr \in Header /\ hdr' \in Header
    BY DEF IndInv, TypeOK
  <2> QED  BY <2>1, <2>2, TableGrows, RedirectGrows
<1> QED  BY <1>1, RemapInductive, PTL DEF Spec, StableRedirect
=============================================================================
