----------------------------- MODULE DiskHealth -----------------------------
(***************************************************************************)
(* How nvdisk judges a registered disk by its timeouts (nvdisk/nvdisk.c,   *)
(* host_eh_timeout): it counts all timeouts, and those in a row between    *)
(* which the number of outstanding commands has not changed.               *)
(***************************************************************************)
EXTENDS Naturals

CONSTANTS
    CurrFailMax,  \* HOST_CMD_FAIL_MAX (15)
    DevFailMax,   \* DEV_CMD_FAIL_MAX (50)
    Depth,        \* commands that may be outstanding
    MaxTimeouts   \* bound: timeouts

VARIABLES
    outstanding,   \* iorequest_cnt - iodone_cnt
    status,        \* of the slot of the disk
    total_tm_cnt, curr_tm_cnt, curr_prc_cnt,
    told,          \* what was put into the queue to the client last
    timeouts,      \* history: timeouts so far,
    stuck          \* and those since a command was issued or done

counters == <<total_tm_cnt, curr_tm_cnt, curr_prc_cnt>>
vars == <<outstanding, status, counters, told, timeouts, stuck>>

\* A command is issued, or one is done.
Progress(n) ==
    /\ outstanding' = n /\ stuck' = 0
    /\ UNCHANGED <<status, counters, told, timeouts>>

Issue == outstanding < Depth /\ Progress(outstanding + 1)
Done  == outstanding > 0 /\ Progress(outstanding - 1)

\* A disk that has failed stays failed, but is then reported with DISK_ERR.
Judge(curr, total) ==
    IF curr >= CurrFailMax \/ total >= DevFailMax
    THEN status' = "fail" /\ told' = "DISK_STATE"
    ELSE /\ status' = IF status = "fail" THEN "fail" ELSE "err"
         /\ told' = "DISK_ERR"

host_eh_timeout ==
    /\ outstanding > 0
    /\ timeouts < MaxTimeouts /\ timeouts' = timeouts + 1
    /\ stuck' = stuck + 1
    /\ total_tm_cnt' = total_tm_cnt + 1
    /\ curr_prc_cnt' = outstanding
    /\ curr_tm_cnt' = IF outstanding = curr_prc_cnt THEN curr_tm_cnt + 1 ELSE 0
    /\ Judge(curr_tm_cnt', total_tm_cnt')
    /\ outstanding' = outstanding

\* The disk leaves, and is added again to a cleared slot, with a new
\* scsi_device.
Replug ==
    /\ outstanding' = 0 /\ status' = "good"
    /\ total_tm_cnt' = 0 /\ curr_tm_cnt' = 0 /\ curr_prc_cnt' = 0
    /\ stuck' = 0
    /\ UNCHANGED <<told, timeouts>>

Init ==
    /\ outstanding = 0 /\ status = "good"
    /\ total_tm_cnt = 0 /\ curr_tm_cnt = 0 /\ curr_prc_cnt = 0
    /\ told = "nothing"
    /\ timeouts = 0 /\ stuck = 0

Next == Issue \/ Done \/ host_eh_timeout \/ Replug

Spec == Init /\ [][Next]_vars

-----------------------------------------------------------------------------
(* Properties.                                                             *)

TypeOK ==
    /\ outstanding \in 0..Depth /\ curr_prc_cnt \in 0..Depth
    /\ status \in {"good", "err", "fail"}
    /\ total_tm_cnt \in 0..MaxTimeouts /\ curr_tm_cnt \in 0..MaxTimeouts
    /\ told \in {"nothing", "DISK_STATE", "DISK_ERR"}
    /\ timeouts \in 0..MaxTimeouts /\ stuck \in 0..MaxTimeouts

\* A disk on which nothing was issued or done during CurrFailMax + 1 timeouts
\* has failed, wherever the counters stood when it got stuck.
StuckIsFailed == stuck > CurrFailMax => status = "fail"

\* A disk is failed until it is plugged in again, however well it goes on, and
\* the message for the timeout at which it fails says so.
StaysFailed ==
    /\ status = "fail" => status' = "fail" \/ Replug
    /\ (status # "fail" /\ status' = "fail") => told' = "DISK_STATE"

FailedForGood == [][StaysFailed]_vars

=============================================================================
