----------------------------- MODULE RemapTable -----------------------------
(***************************************************************************)
(* The remapping table of one disk in nvdisk (remap.c, its callers in      *)
(* nvdisk.c and the "clear" command of nv_proc.c).  The completion of a    *)
(* read or write that failed with an unrecovered medium error adds an      *)
(* entry, on any processor and without a lock; every later request of the  *)
(* same position and length is sent to the entry's replacement.  A kernel  *)
(* thread writes the whole table near the end of the visible disk, from    *)
(* where it is loaded when the disk comes online.                          *)
(*                                                                         *)
(* The write is one command; its transfer is modelled in two parts, first  *)
(* the sector with the header, then the entries, both read from the live   *)
(* table.  A crash between them leaves a torn table.                       *)
(***************************************************************************)
EXTENDS Naturals, FiniteSets

CONSTANTS
    Cpu,          \* the processors that complete requests
    Request,      \* the requests that can fail: [lba, sectors], up to the 10 TB
                  \* above which nvd_add_remap_request leaves them alone
    MaxSectors,   \* the longest request
    MaxRemap,     \* MAX_REMAP_PER_DISK
    SyncFailMax,  \* DEV_REMAP_SYNC_FAIL_MAX
    Wide,         \* the disk has more than 2^32 sectors, that is 2 TB
    Base,         \* the first replacement: 1 MB into the last GB of the capacity
                  \* nvdisk was told
    Spare         \* the sectors from there to its end

ASSUME CpuAssumption == IsFiniteSet(Cpu)
ASSUME RequestAssumption == Request \subseteq [lba : Nat, sectors : 1 .. MaxSectors]
ASSUME LimitAssumption ==
    MaxSectors \in Nat /\ MaxRemap \in Nat \ {0} /\ SyncFailMax \in Nat \ {0} /\ Wide \in BOOLEAN
ASSUME SpaceAssumption == Base \in Nat \ {0} /\ Spare \in Nat /\ MaxRemap * MaxSectors <= Spare

VARIABLES
    dev,      \* the slot: absent, loading (in use, table being read), on, gone,
              \* unsized (in use, its capacity could not be read)
    hdr,      \* the table's header in memory: magic, base_lba, no_of_remapped,
              \* need_sync and sync_failed
    db,       \* its entries
    disk,     \* the table on the disk
    add,      \* the add each processor is in
    sync,     \* the write of the sync thread: idle, entries, result, aborted
    tainted,  \* history: an add overlapped another change of the table, or a
              \* torn table was loaded
    missed,   \* history: the table changed during the last write
    image,    \* history: the entries it counts when the header was written
    saved,    \* history: the requests the last completed write has saved
    unmarked  \* history: it was a write of a table without the magic number

tableVars == <<hdr, db>>
history == <<tainted, missed, image, saved, unmarked>>
vars == <<dev, hdr, db, disk, add, sync, history>>

Index == 1 .. MaxRemap
NoEntry == [lba |-> 0, new |-> 0, sectors |-> 0]
EmptyDb == [i \in Index |-> NoEntry]
EmptyHdr == [magic |-> FALSE, base |-> 0, n |-> 0, need |-> FALSE, failed |-> 0]
NoAdd == [pc |-> "idle"]

AddActive(c) == add[c].pc # "idle"
Writing == sync \in {"entries", "result"}

\* The entries that table (h, d) counts.
Counted(h) == {i \in Index : i <= h.n}
Hits(h, d, r) == {i \in Counted(h) : d[i].lba = r.lba /\ d[i].sectors = r.sectors}

\* Faulty: the scan does not stop at the first match.
Redirect_Last(h, d, r) ==
    {d[i].new : i \in {j \in Hits(h, d, r) : \A k \in Hits(h, d, r) : j >= k}}

\* nvd_if_lba_remapped: the replacement of request r, of the first entry with
\* its exact position and length; {} if there is none.
Redirect(h, d, r) ==
    {d[i].new : i \in {j \in Hits(h, d, r) : \A k \in Hits(h, d, r) : j <= k}}

Mapped(h, d) == {r \in Request : Hits(h, d, r) # {}}

-----------------------------------------------------------------------------
(* The completion of a failed request: nvd_add_remap_request.              *)

\* Faulty: the length of the last replacement is forgotten.
NextNew_NoLength(h, d) == IF h.n = 0 THEN h.base ELSE d[h.n].new

\* Where the next replacement goes: behind the last one.
NextNew(h, d) == IF h.n = 0 THEN h.base ELSE d[h.n].new + d[h.n].sectors

\* scsi_dev_find has found the slot, the table has room, and new_lba is
\* computed; n keeps the count the processor has seen.
AddBegin(c, r) ==
    /\ ~AddActive(c)
    /\ dev \in {"loading", "on", "unsized"}
    /\ hdr.n < MaxRemap
    /\ add' = [add EXCEPT ![c] = [pc |-> "write", req |-> r, n |-> hdr.n,
                                  new |-> NextNew(hdr, db)]]
    /\ tainted' = (tainted \/ dev = "loading" \/ \E o \in Cpu : AddActive(o))
    /\ UNCHANGED <<dev, tableVars, disk, sync, missed, image, saved, unmarked>>

\* An entry stored behind the last one falls into the arrays that follow: the
\* first entry's new_lba becomes the position, and the 64 bits of the new lba
\* the lengths of the first two entries.
PastEnd(d, lba, new) ==
    [d EXCEPT ![1] = [lba |-> @.lba, new |-> lba, sectors |-> new],
              ![2].sectors = IF Wide THEN 1 ELSE 0]

\* The entry is stored at the count, which the compiled code has kept or reads
\* again.
AddWrite(c) ==
    /\ add[c].pc = "write"
    /\ \E i \in {add[c].n, hdr.n} :
           db' = IF i < MaxRemap
                 THEN [db EXCEPT ![i + 1] = [lba |-> add[c].req.lba, new |-> add[c].new,
                                             sectors |-> add[c].req.sectors]]
                 ELSE PastEnd(db, add[c].req.lba, add[c].new)
    /\ add' = [add EXCEPT ![c].pc = "count"]
    /\ UNCHANGED <<dev, hdr, disk, sync, history>>

\* remap->no_of_remapped ++, without a lock.
AddCount(c) ==
    /\ add[c].pc = "count"
    /\ \E i \in {add[c].n, hdr.n} : hdr' = [hdr EXCEPT !.n = i + 1]
    /\ add' = [add EXCEPT ![c].pc = "mark"]
    /\ UNCHANGED <<dev, db, disk, sync, history>>

\* need_sync = 1 and the thread is woken.
AddMark(c) ==
    /\ add[c].pc = "mark"
    /\ hdr' = [hdr EXCEPT !.need = TRUE]
    /\ add' = [add EXCEPT ![c] = NoAdd]
    /\ missed' = (missed \/ Writing)
    /\ UNCHANGED <<dev, db, disk, sync, tainted, image, saved, unmarked>>

-----------------------------------------------------------------------------
(* The sync thread: nvd_remap_check_and_sync.                              *)

\* Faulty: the limit of failures is off by one, or not looked at.
Due_OneMore == dev \notin {"absent", "unsized"} /\ hdr.need /\ hdr.failed <= SyncFailMax
Due_NoLimit == dev \notin {"absent", "unsized"} /\ hdr.need

\* The slot has a capacity, the table must be written, and it has not failed
\* too often.
Due == dev \notin {"absent", "unsized"} /\ hdr.need /\ hdr.failed < SyncFailMax

\* nvd_rw_disk: nvd_scsi_cdb sets the opcode only if the address needs more
\* than 32 bits.  Opcode 0 moves no data and succeeds.
Transferred(new, old) == IF Wide THEN new ELSE old

\* The header, with the flags it has now, reaches the disk.
SyncHeader ==
    /\ sync = "idle" /\ Due /\ dev # "gone"
    /\ disk' = Transferred([disk EXCEPT !.hdr = hdr], disk)
    /\ image' = Transferred([i \in Index |-> IF i <= hdr.n THEN db[i] ELSE NoEntry], image)
    /\ sync' = "entries"
    /\ missed' = FALSE
    /\ UNCHANGED <<dev, tableVars, add, tainted, saved, unmarked>>

\* The part of the entries on disk that its header counts is the part that
\* the memory had when the header was written.
Coherent(d) == \A i \in Counted(disk.hdr) : d[i] = image[i]

\* Faulty: the command is as long as the header.
SyncEntries_Short ==
    /\ sync = "entries"
    /\ sync' = "result"
    /\ UNCHANGED <<dev, tableVars, disk, add, history>>

\* The entries reach the disk.
SyncEntries ==
    /\ sync = "entries"
    /\ disk' = Transferred([disk EXCEPT !.db = db], disk)
    /\ sync' = "result"
    /\ saved' = Transferred(Mapped(disk.hdr, db), saved)
    /\ unmarked' = Transferred(~(disk.hdr.magic /\ hdr.magic), unmarked)
    /\ UNCHANGED <<dev, tableVars, add, tainted, missed, image>>

\* NVD_RET_SUCC: need_sync = 0, whatever has been added meanwhile.
SyncDone ==
    /\ sync = "result"
    /\ hdr' = [hdr EXCEPT !.need = FALSE]
    /\ sync' = "idle"
    /\ UNCHANGED <<dev, db, disk, add, history>>

\* Faulty: need_sync is reset whatever the result.
SyncFail_Forgets ==
    /\ sync = "idle" => Due
    /\ hdr' = [hdr EXCEPT !.failed = @ + 1, !.need = FALSE]
    /\ sync' = "idle"
    /\ UNCHANGED <<dev, db, disk, add, history>>

\* The command fails, before or after a part of it has been written, or the
\* disk is gone (p_sdev == NULL); the failures are never forgotten.
SyncFail ==
    /\ sync = "idle" => Due
    /\ hdr' = [hdr EXCEPT !.failed = @ + 1]
    /\ sync' = "idle"
    /\ UNCHANGED <<dev, db, disk, add, history>>

-----------------------------------------------------------------------------
(* The disk comes and goes: scsi_dev_add, slave_destroy, the clear command. *)

\* scsi_dev_add takes the slot and zeroes it, and sets in_used before the
\* table is read.
Online ==
    /\ dev \in {"absent", "gone"}
    /\ dev' = "loading"
    /\ hdr' = EmptyHdr /\ db' = EmptyDb
    /\ tainted' = (tainted \/ \E c \in Cpu : AddActive(c))
    /\ UNCHANGED <<disk, add, sync, missed, image, saved, unmarked>>

\* READ CAPACITY fails and the slot is taken with a capacity of 0.  The table
\* is looked for beyond every disk and made a new one with the replacements
\* there too; the thread and the clear command pass the slot over.
OnlineUnsized ==
    /\ dev \in {"absent", "gone"}
    /\ dev' = "unsized"
    /\ hdr' = [EmptyHdr EXCEPT !.magic = TRUE, !.need = TRUE] /\ db' = EmptyDb
    /\ tainted' = (tainted \/ \E c \in Cpu : AddActive(c))
    /\ UNCHANGED <<disk, add, sync, missed, image, saved, unmarked>>

\* Faulty: every load makes a new table.
Adopt_New(h, d) ==
    /\ hdr' = [EmptyHdr EXCEPT !.magic = TRUE, !.base = Base, !.need = TRUE]
    /\ db' = EmptyDb

\* nvd_remap_init_and_load behind the read: a table with the magic number is
\* used, its count cut to the maximum, anything else is made a new table.
Adopt(h, d) ==
    IF h.magic
    THEN /\ hdr' = [h EXCEPT !.n = IF @ > MaxRemap THEN MaxRemap ELSE @]
         /\ db' = d
    ELSE /\ hdr' = [EmptyHdr EXCEPT !.magic = TRUE, !.base = Base, !.need = TRUE]
         /\ db' = EmptyDb

LoadDone ==
    /\ dev = "loading"
    /\ Adopt(Transferred(disk.hdr, hdr), Transferred(disk.db, db))
    /\ dev' = "on"
    /\ missed' = Writing
    /\ tainted' = (tainted \/ (disk.hdr.magic /\ ~Coherent(disk.db))
                           \/ \E c \in Cpu : AddActive(c))
    /\ UNCHANGED <<disk, add, sync, image, saved, unmarked>>

\* The read fails, which nobody looks at: the zeroed table becomes a new one,
\* and will overwrite the one on disk.
LoadFail ==
    /\ dev = "loading"
    /\ Adopt(hdr, db)
    /\ dev' = "on"
    /\ missed' = Writing
    /\ saved' = {}
    /\ tainted' = (tainted \/ \E c \in Cpu : AddActive(c))
    /\ UNCHANGED <<disk, add, sync, image, unmarked>>

\* host_slave_common for a disk that leaves; a write that has not ended is
\* aborted.  A slot without a capacity is as good as absent afterwards.
Offline ==
    /\ dev \in {"on", "unsized"}
    /\ dev' = IF dev = "on" THEN "gone" ELSE "absent"
    /\ sync' = IF sync = "entries" THEN "aborted" ELSE sync
    /\ UNCHANGED <<tableVars, disk, add, history>>

\* echo "clear ..." > /proc/nvdisk/remap: all but the base is zeroed, the
\* magic number too.
Clear ==
    /\ dev \in {"loading", "on"}
    /\ hdr' = [EmptyHdr EXCEPT !.base = hdr.base, !.need = TRUE]
    /\ db' = EmptyDb
    /\ missed' = (missed \/ Writing)
    /\ saved' = {}
    /\ tainted' = (tainted \/ \E c \in Cpu : AddActive(c))
    /\ UNCHANGED <<dev, disk, add, sync, image, unmarked>>

\* The machine stops, or the module is removed: nothing is flushed.
Crash ==
    /\ dev # "absent"
    /\ dev' = "absent"
    /\ hdr' = EmptyHdr /\ db' = EmptyDb
    /\ add' = [c \in Cpu |-> NoAdd]
    /\ sync' = "idle"
    /\ UNCHANGED <<disk, history>>

-----------------------------------------------------------------------------
Init ==
    /\ dev = "absent"
    /\ hdr = EmptyHdr /\ db = EmptyDb
    /\ disk = [hdr |-> EmptyHdr, db |-> EmptyDb]
    /\ add = [c \in Cpu |-> NoAdd]
    /\ sync = "idle"
    /\ tainted = FALSE /\ missed = FALSE
    /\ image = EmptyDb /\ saved = {} /\ unmarked = FALSE

AddOn(c) == AddWrite(c) \/ AddCount(c) \/ AddMark(c)

Adding == \E c \in Cpu : (\E r \in Request : AddBegin(c, r)) \/ AddOn(c)

SyncThread == SyncHeader \/ SyncEntries \/ SyncDone \/ SyncFail

Disk == Online \/ OnlineUnsized \/ LoadDone \/ LoadFail \/ Offline

Next == Adding \/ SyncThread \/ Disk \/ Clear \/ Crash

\* The sync thread wakes up at least every minute, a command ends, and a
\* completion that has begun to add an entry is not held up for ever.
Spec == Init /\ [][Next]_vars /\ WF_vars(SyncThread) /\ \A c \in Cpu : WF_vars(AddOn(c))

-----------------------------------------------------------------------------
Entry == [lba : Nat, new : Nat, sectors : Nat]
Header == [magic : BOOLEAN, base : {0, Base}, n : Nat, need : BOOLEAN, failed : 0 .. SyncFailMax]
AddState == {NoAdd} \cup [pc : {"write", "count", "mark"}, req : Request, n : Nat, new : Nat]

\* Every variable has its type.
TypeOK ==
    /\ dev \in {"absent", "loading", "on", "gone", "unsized"}
    /\ hdr \in Header /\ db \in [Index -> Entry]
    /\ disk \in [hdr : Header, db : [Index -> Entry]]
    /\ add \in [Cpu -> AddState]
    /\ sync \in {"idle", "entries", "result", "aborted"}
    /\ tainted \in BOOLEAN /\ missed \in BOOLEAN
    /\ image \in [Index -> Entry] /\ saved \subseteq Request /\ unmarked \in BOOLEAN

End(e) == e.new + e.sectors

\* Unless adds overlapped or a torn table was loaded, the replacements do not
\* overlap each other and stay between the table and the end of the capacity,
\* however the table is filled, saved, loaded, cleared and lost.
ReplacementsDisjoint ==
    ~tainted /\ dev = "on" =>
        /\ \A i \in Counted(hdr) : Base <= db[i].new /\ End(db[i]) <= Base + Spare
        /\ \A i, j \in Counted(hdr) : i < j => End(db[i]) <= db[j].new

\* Unless adds overlapped, a request once sent to a replacement is sent to the
\* same one as long as the disk stays online and is not cleared: what was
\* written there is read from there, also when the replacement fails in turn.
StableRedirect ==
    [][ ~tainted' /\ dev = "on" /\ dev' = "on" /\ ~Clear =>
            \A r \in Mapped(hdr, db) : Redirect(hdr', db', r) = Redirect(hdr, db, r) ]_vars

\* On a large disk, when nothing is left to write and no add is under way, the
\* disk has the table that is in memory, unless an add or a clear came during
\* the last write.
SavedUpToDate ==
    (/\ Wide /\ dev = "on" /\ sync = "idle" /\ ~hdr.need /\ ~missed /\ ~tainted
     /\ ~\E c \in Cpu : AddActive(c))
        => /\ disk.hdr.n = hdr.n /\ disk.hdr.magic = hdr.magic
           /\ \A i \in Counted(hdr) : disk.db[i] = db[i]

\* A remap that the last completed write saved is in use whenever the disk is
\* online, after any number of crashes, failed writes and replugs, unless the
\* table was cleared since, its read failed, a torn table was loaded, or that
\* write was one without the magic number: the clear command zeroes it, and
\* what is remapped and written between a clear and the next load is lost at
\* that load, which does not know the table.
SavedSurvives == dev = "on" /\ ~tainted => saved \subseteq Mapped(hdr, db) \/ unmarked

\* A table that is loaded can be written again: the table on disk never has
\* the count of failures at which the thread gives up.
LoadedCanSync == disk.hdr.failed < SyncFailMax

\* On a large disk, a table that must be written comes to be on the disk with
\* every remap it has by then, unless it changes during the write, writes fail
\* too often, or the disk goes.
RemapsReachDisk ==
    Wide /\ dev = "on" /\ hdr.need
        ~> \/ Mapped(hdr, db) \subseteq Mapped(disk.hdr, disk.db)
           \/ dev # "on" \/ missed \/ tainted \/ hdr.failed >= SyncFailMax

\* Every block in the table of an online disk is remapped into the last GB.
RemappedToReserve ==
    dev = "on" => \A i \in Counted(hdr) : Base <= db[i].new
=============================================================================
