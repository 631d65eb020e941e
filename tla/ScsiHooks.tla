------------------------------ MODULE ScsiHooks ------------------------------
(***************************************************************************)
(* How nvdisk gets between the SCSI layer and the driver of its hosts      *)
(* (nvdisk/nvdisk.c): the scan at the start of the module, which replaces  *)
(* functions of the host template and registers the disks; disks that come *)
(* and go; commands that are dispatched, repeated and completed; and the   *)
(* return of the functions when the time of the module is over.            *)
(* Timeouts are in DiskHealth, the remapping table of a registered disk in *)
(* RemapTable, what is reported in NetlinkQueue.                           *)
(*                                                                         *)
(* All hosts have one template.  scsi_dev_add looks for a slot and fills   *)
(* it later, without a lock.                                               *)
(***************************************************************************)
EXTENDS Naturals

CONSTANTS
    LastHost,  \* hosts are scanned from 0 to LastHost
    Target,    \* addresses on each
    OtherHost, \* hosts whose devices are no disks
    LastSlot,  \* slots of G_dev_pool (DEV_NUM_MAX)
    Command    \* commands there may be at a time

VARIABLES
    hostt,         \* the functions in the template: the driver's or nvdisk's
    old,           \* those that were saved
    replace_done,
    scan,          \* where scsi_dev_scan stands
    limited,       \* g_limited
    unhook,        \* the function host_recovery_funcs puts back next, 0 if it
                   \* has none to put back
    disk,          \* [disk -> state in the SCSI layer], and the slot its
    found,         \* slave_configure has found for it
    pool,          \* G_dev_pool
    cmd,           \* the scsi_cmnd of commands that are with the driver
    bio,           \* bi_end_io of their bios: the owner's, nvdisk's or none
    odd,           \* history: a registration went wrong
    renewed        \* history: commands prepared anew with bi_end_io replaced

hookVars == <<hostt, old, replace_done, scan, limited, unhook>>
diskVars == <<disk, found, pool, odd>>
cmdVars  == <<cmd, bio, renewed>>
vars == <<hookVars, diskVars, cmdVars>>

Slot == 1..LastSlot
Disk == (0..LastHost) \X Target
Nobody == <<>>

\* The functions, in the order in which they are replaced and put back.
Function == <<"slave_configure", "slave_destroy", "queuecommand", "eh_timed_out">>
Template(who) == [f \in {Function[k] : k \in DOMAIN Function} |-> who]
Hooked(f) == hostt[f] = "nvdisk"

Empty == [used |-> FALSE, sdev |-> Nobody]

Min(S) == CHOOSE s \in S : \A u \in S : s <= u
First(S) == IF S = {} THEN 0 ELSE Min(S)

Free == First({s \in Slot : ~pool[s].used /\ pool[s].sdev = Nobody})

\* scsi_dev_find: the slot of a disk, 0 if it has none.
Find(d) == First({s \in Slot : pool[s].used /\ pool[s].sdev = d})

-----------------------------------------------------------------------------
(* The scan.                                                               *)

\* Nothing is scanned if the time was over before.
Start ==
    /\ scan.pc = "off"
    /\ scan' = [scan EXCEPT !.pc = IF limited THEN "over" ELSE "save"]
    /\ UNCHANGED <<hostt, old, replace_done, limited, unhook, diskVars, cmdVars>>

\* host_replace_funcs does nothing for a second host.
Save ==
    /\ scan.pc = "save"
    /\ IF replace_done
       THEN scan' = [scan EXCEPT !.pc = "devices"] /\ old' = old
       ELSE scan' = [scan EXCEPT !.pc = "replace", !.step = 1] /\ old' = hostt
    /\ UNCHANGED <<hostt, replace_done, limited, unhook, diskVars, cmdVars>>

Replace ==
    /\ scan.pc = "replace"
    /\ IF scan.step \in DOMAIN Function
       THEN /\ hostt' = [hostt EXCEPT ![Function[scan.step]] = "nvdisk"]
            /\ scan' = [scan EXCEPT !.step = @ + 1]
            /\ replace_done' = replace_done
       ELSE /\ replace_done' = TRUE
            /\ scan' = [scan EXCEPT !.pc = "devices"]
            /\ hostt' = hostt
    /\ UNCHANGED <<old, limited, unhook, diskVars, cmdVars>>

IsDisk(d) == d[1] \notin OtherHost

\* shost_for_each_device, which comes to the disks that are being configured
\* as well, and passes over what is no disk.  Without a slot for a disk the
\* whole scan ends.
Listed ==
    {d \in Disk : IsDisk(d) /\ d[1] = scan.host /\ disk[d] # "absent"} \ scan.seen

ScanFind ==
    /\ scan.pc = "devices"
    /\ IF Listed = {}
       THEN scan' = IF scan.host = LastHost THEN [scan EXCEPT !.pc = "over"]
                    ELSE [scan EXCEPT !.pc = "save", !.host = @ + 1]
       ELSE \E d \in Listed :
              scan' = IF Free = 0 THEN [scan EXCEPT !.pc = "cut"]
                      ELSE [scan EXCEPT !.pc = "add", !.slot = Free, !.sdev = d,
                                        !.seen = @ \cup {d}]
    /\ UNCHANGED <<hostt, old, replace_done, limited, unhook, diskVars, cmdVars>>

\* scsi_dev_add: the slot is cleared and filled.  It goes wrong if the disk is registered
\* already, or is gone, or if the slot was taken meanwhile.
Fill(d, s) ==
    /\ pool' = [pool EXCEPT ![s] = [used |-> TRUE, sdev |-> d]]
    /\ odd' = (odd \/ Find(d) # 0 \/ disk[d] = "absent" \/ pool[s].used)

\* A serial number that cannot be read is "unknown", but the error is returned
\* as that of the registration, and the scan ends as well.
ScanFill ==
    /\ scan.pc = "add"
    /\ Fill(scan.sdev, scan.slot)
    /\ \E label \in {"devices", "cut"} :
         scan' = [scan EXCEPT !.pc = label, !.slot = 0, !.sdev = Nobody]
    /\ UNCHANGED <<hostt, old, replace_done, limited, unhook, disk, found, cmdVars>>

-----------------------------------------------------------------------------
(* limited_set, called by the thread of netlink.c for every event it has   *)
(* when the time is over, one call after the other.                        *)

limited_set ==
    /\ unhook \notin DOMAIN Function
    /\ limited' = TRUE
    /\ unhook' = IF replace_done THEN 1 ELSE 0
    /\ UNCHANGED <<hostt, old, replace_done, scan, diskVars, cmdVars>>

Recover ==
    /\ unhook \in DOMAIN Function
    /\ hostt' = [hostt EXCEPT ![Function[unhook]] = old[Function[unhook]]]
    /\ unhook' = unhook + 1
    /\ UNCHANGED <<old, replace_done, scan, limited, diskVars, cmdVars>>

-----------------------------------------------------------------------------
(* host_slave_common.                                                      *)

\* A disk comes, at an address that no command refers to any more.  Bound: none
\* comes after a registration went wrong.
Attach(d) ==
    /\ ~odd
    /\ disk[d] = "absent" /\ scan.sdev # d /\ \A c \in Command : cmd[c].sdev # d
    /\ disk' = [disk EXCEPT ![d] = "new"]
    /\ UNCHANGED <<hookVars, found, pool, odd, cmdVars>>

\* slave_configure, of a device of whatever type.  The SCSI layer refuses one for
\* which it returns an error: the driver's own, or that of nvdisk in its place,
\* when there is no slot, or the serial number cannot be read, though such a
\* device is registered.
Configure(d) ==
    /\ disk[d] = "new"
    /\ \E answer \in {"present", "refused", "adding"} :
         /\ disk' = [disk EXCEPT ![d] = answer]
         /\ answer = "adding" <=> Hooked("slave_configure") /\ Free # 0
         /\ Hooked("slave_configure") => answer # "present"
         /\ found' = [found EXCEPT ![d] = IF answer = "adding" THEN Free ELSE 0]
    /\ UNCHANGED <<hookVars, pool, odd, cmdVars>>

ConfigureFill(d) ==
    /\ disk[d] = "adding"
    /\ Fill(d, found[d])
    /\ \E answer \in {"present", "refused"} : disk' = [disk EXCEPT ![d] = answer]
    /\ found' = [found EXCEPT ![d] = 0]
    /\ UNCHANGED <<hookVars, cmdVars>>

\* Faulty: the slot keeps its pointer, and is neither free nor used.
Detach_KeepsPointer(d) ==
    /\ disk[d] \in {"present", "refused"}
    /\ disk' = [disk EXCEPT ![d] = "absent"]
    /\ IF Hooked("slave_destroy") /\ Find(d) # 0
       THEN /\ pool' = [pool EXCEPT ![Find(d)] = [Empty EXCEPT !.sdev = d]]
            /\ odd' = odd
       ELSE pool' = pool /\ odd' = (odd \/ Find(d) # 0)
    /\ UNCHANGED <<hookVars, found, cmdVars>>

\* A disk leaves, or is destroyed because it was refused.  What its slot still
\* has is cleared before it is used again.
Detach(d) ==
    /\ disk[d] \in {"present", "refused"}
    /\ disk' = [disk EXCEPT ![d] = "absent"]
    /\ IF Hooked("slave_destroy") /\ Find(d) # 0
       THEN pool' = [pool EXCEPT ![Find(d)] = Empty] /\ odd' = odd
       ELSE pool' = pool /\ odd' = (odd \/ Find(d) # 0)
    /\ UNCHANGED <<hookVars, found, cmdVars>>

-----------------------------------------------------------------------------
(* Commands.                                                               *)

\* A scsi_cmnd as it is prepared; SCp.ptr is where nvdisk saves bi_end_io.
Prepared(d) == [sdev |-> d, ptr |-> "none"]
NoCommand == Prepared(Nobody)

\* Faulty: bi_end_io is saved and replaced whatever it is.
Queue_Again(c, r) ==
    IF Hooked("queuecommand")
    THEN /\ cmd' = [cmd EXCEPT ![c] = [r EXCEPT !.ptr = bio[c]]]
         /\ bio' = [bio EXCEPT ![c] = "nvdisk"]
    ELSE cmd' = [cmd EXCEPT ![c] = r] /\ bio' = bio

\* host_queuecommand, given a scsi_cmnd: bi_end_io is replaced in the bio and
\* saved in the scsi_cmnd, unless nvdisk's is there.
Queue(c, r) ==
    IF Hooked("queuecommand") /\ bio[c] # "nvdisk"
    THEN /\ cmd' = [cmd EXCEPT ![c] = [r EXCEPT !.ptr = bio[c]]]
         /\ bio' = [bio EXCEPT ![c] = "nvdisk"]
    ELSE cmd' = [cmd EXCEPT ![c] = r] /\ bio' = bio

Dispatch(c, d) ==
    /\ cmd[c] = NoCommand /\ bio[c] = "own" /\ disk[d] = "present"
    /\ Queue(c, Prepared(d))
    /\ UNCHANGED <<hookVars, diskVars, renewed>>

\* After an error or a timeout the SCSI layer dispatches it again: the same
\* scsi_cmnd, or one that it prepares anew for the request.
Redispatch(c) ==
    /\ cmd[c] # NoCommand
    /\ \/ Queue(c, cmd[c]) /\ renewed' = renewed
       \/ /\ Queue(c, Prepared(cmd[c].sdev))
          /\ renewed' = IF bio[c] = "nvdisk" THEN renewed \cup {c} ELSE renewed
    /\ UNCHANGED <<hookVars, diskVars>>

\* nvd_bio_end_io, if it is in place, puts back what SCp.ptr has and calls it,
\* unless it is NULL: then nobody is told, for ever.
Complete(c) ==
    /\ cmd[c] # NoCommand
    /\ bio' = [bio EXCEPT ![c] = IF @ = "nvdisk" THEN cmd[c].ptr ELSE @]
    /\ cmd' = [cmd EXCEPT ![c] = NoCommand]
    /\ UNCHANGED <<hookVars, diskVars, renewed>>

-----------------------------------------------------------------------------

Init ==
    /\ hostt = Template("driver") /\ old = Template("none")
    /\ replace_done = FALSE
    /\ scan = [pc |-> "off", host |-> 0, step |-> 0, slot |-> 0,
               sdev |-> Nobody, seen |-> {}]
    /\ limited = FALSE /\ unhook = 0
    /\ disk \in [Disk -> {"absent", "present"}]
    /\ found = [d \in Disk |-> 0]
    /\ pool = [s \in Slot |-> Empty]
    /\ cmd = [c \in Command |-> NoCommand] /\ bio = [c \in Command |-> "own"]
    /\ odd = FALSE /\ renewed = {}

Scan == Start \/ Save \/ Replace \/ ScanFind \/ ScanFill

Next ==
    \/ Scan \/ limited_set \/ Recover
    \/ \E d \in Disk :
         \/ Attach(d) \/ Configure(d) \/ ConfigureFill(d) \/ Detach(d)
         \/ \E c \in Command : Dispatch(c, d)
    \/ \E c \in Command : Redispatch(c) \/ Complete(c)

Spec == Init /\ [][Next]_vars

-----------------------------------------------------------------------------
(* Properties.                                                             *)

TypeOK ==
    /\ DOMAIN hostt = DOMAIN Template("own") /\ DOMAIN old = DOMAIN hostt
    /\ \A f \in DOMAIN hostt : /\ hostt[f] \in {"driver", "nvdisk"}
                               /\ old[f] \in {"none", "driver"}
    /\ replace_done \in BOOLEAN /\ limited \in BOOLEAN /\ odd \in BOOLEAN
    /\ unhook \in 0..5
    /\ scan.host \in 0..LastHost /\ scan.seen \subseteq Disk
    /\ disk \in [Disk -> {"absent", "new", "adding", "refused", "present"}]
    /\ found \in [Disk -> 0..LastSlot]
    /\ \A s \in Slot : /\ pool[s].sdev \in Disk \cup {Nobody}
                       /\ pool[s].used \in BOOLEAN
    /\ \A c \in Command : cmd[c].sdev \in Disk \cup {Nobody}
    /\ bio \in [Command -> {"own", "nvdisk", "none"}] /\ renewed \subseteq Command

\* Every disk that is present after the scan has one slot, and no other slot is
\* taken, whatever the order in which devices came, were refused and left: slots
\* are never used up by devices that are gone.  That is so as long as no
\* registration went wrong: no device was added twice or too late, no two were
\* put into one slot, and none left while slave_destroy was not nvdisk's.  A scan
\* that was cut short, by an error or because there were more disks than slots,
\* gives only the second half: the disks it has not come to are not watched.
EveryDiskHasSlot ==
    (scan.pc \in {"over", "cut"} /\ ~limited /\ ~odd) =>
        /\ scan.pc = "over" =>
              \A d \in Disk : IsDisk(d) /\ disk[d] = "present" => Find(d) # 0
        /\ \A s \in Slot : pool[s].sdev # Nobody =>
              disk[pool[s].sdev] # "absent" /\ Find(pool[s].sdev) = s

\* The owner of a bio is told of its end: nvd_bio_end_io is in a bio only as long
\* as the scsi_cmnd has the way back, however often the command is dispatched
\* while hooks come and go.  That is lost, and the bio with it, when the SCSI
\* layer prepares the command anew with nvd_bio_end_io in its bio.
EndIoKept ==
    \A c \in Command \ renewed :
        bio[c] # "none" /\ (bio[c] = "nvdisk" => cmd[c].ptr = "own")

\* When the functions have been put back they stay so, though the scan goes on
\* with the next host.  (When the time ends before the scan has replaced the
\* last of them, it is a later call of limited_set that puts them back.)
RestoredForGood == unhook = 5 => hostt = Template("driver")

=============================================================================
