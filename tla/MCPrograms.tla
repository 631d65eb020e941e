----------------------------- MODULE MCPrograms -----------------------------
(***************************************************************************)
(* The programs of the repository that are small enough to be checked      *)
(* together: the joke service, the network store, the runner of the comet  *)
(* tests, the scripts that stamp a volume, and the hooks and the judgement *)
(* of disks of nvdisk.  They share nothing, so each behaviour is one of    *)
(* one of them, on, and the others stay as they are.                       *)
(***************************************************************************)
EXTENDS Naturals, Sequences, FiniteSets

CONSTANTS
    Program,                              \* those a behaviour may be one of
    Request, Limit,                       \* JokeService
    Client, Uuid, Network,                \* NetworkStore
    Host, ThreadNumber, Last, Deletable,  \* TestRunner
    MaxStamp, TimeLoop, MaxStarts,        \* VolumeStamps
    LastHost, Target, OtherHost, LastSlot, Command,  \* ScsiHooks
    CurrFailMax, DevFailMax, Depth, MaxTimeouts  \* DiskHealth

ASSUME RequestAssumption == IsFiniteSet(Request) /\ Limit \in Nat
ASSUME NetworkAssumption == IsFiniteSet(Uuid) /\ Uuid # {} /\ Network # {}
ASSUME RunnerAssumption == Last \in Nat \ {0}
ASSUME StampsAssumption ==
    MaxStamp \in Nat /\ TimeLoop \in Nat \ {0} /\ MaxStarts \in Nat
ASSUME DiskAssumption == LastHost \in Nat /\ LastSlot \in Nat
ASSUME TimeoutAssumption ==
    /\ CurrFailMax \in Nat /\ DevFailMax \in Nat
    /\ Depth \in Nat /\ MaxTimeouts \in Nat

VARIABLES
    on,
    jokePc, fetcher, count, parsed, loaded, Stat, raced,
    storePc, networks, issued, writer, readers, op, id, body, size,
    main, runnerPc, number, xml, verdict, volumes, report,
    stampsPc, file, key, stamp, i, starts, cut, lost,
    hostt, old, replace_done, scan, limited, unhook, disk, found, pool,
    cmd, bio, odd, renewed,
    outstanding, status, total_tm_cnt, curr_tm_cnt, curr_prc_cnt,
    told, timeouts, stuck

Joke   == INSTANCE JokeService  WITH pc <- jokePc
Net    == INSTANCE NetworkStore WITH pc <- storePc, Store <- networks
Runner == INSTANCE TestRunner   WITH pc <- runnerPc
Stamps == INSTANCE VolumeStamps WITH pc <- stampsPc
Hooks  == INSTANCE ScsiHooks
Health == INSTANCE DiskHealth

jokeVars   == <<jokePc, fetcher, count, parsed, loaded, Stat, raced>>
netVars    == <<storePc, networks, issued, writer, readers, op, id, body, size>>
runnerVars == <<main, runnerPc, number, xml, verdict, volumes, report>>
stampsVars == <<stampsPc, file, key, stamp, i, starts, cut, lost>>
hooksVars  == <<hostt, old, replace_done, scan, limited, unhook,
                disk, found, pool, cmd, bio, odd, renewed>>
healthVars == <<outstanding, status, total_tm_cnt, curr_tm_cnt, curr_prc_cnt,
                told, timeouts, stuck>>

goVars   == <<jokeVars, netVars>>
cometVars == <<runnerVars, stampsVars>>
nvdiskVars == <<hooksVars, healthVars>>

vars == <<on, goVars, cometVars, nvdiskVars>>

Init ==
    /\ on \in Program
    /\ Joke!Init /\ Net!Init /\ Runner!Init /\ Stamps!Init
    /\ Hooks!Init /\ Health!Init
    /\ on # "runner" => DOMAIN xml = {}
    /\ on \notin {"hooks", "devices", "commands"} => disk = [d \in DOMAIN disk |-> "absent"]

JokeNext ==
    /\ on = "joke" /\ Joke!Next
    /\ UNCHANGED <<on, netVars, cometVars, nvdiskVars>>

NetNext ==
    /\ on = "net" /\ Net!Next
    /\ UNCHANGED <<on, jokeVars, cometVars, nvdiskVars>>

RunnerNext ==
    /\ on = "runner" /\ Runner!Next
    /\ UNCHANGED <<on, goVars, stampsVars, nvdiskVars>>

StampsNext ==
    /\ on = "stamps" /\ Stamps!Next
    /\ UNCHANGED <<on, goVars, runnerVars, nvdiskVars>>

\* Bounds: with the devices alone there are no commands, the time is never over
\* and nothing is done after a registration went wrong; with the commands alone
\* the devices stay where they are.  "hooks" has both.
HooksNext ==
    /\ on \in {"hooks", "devices", "commands"} /\ Hooks!Next
    /\ on = "devices" => ~odd /\ ~limited' /\ UNCHANGED <<cmd, bio, renewed>>
    /\ on = "commands" => UNCHANGED <<disk, found>>
    /\ UNCHANGED <<on, goVars, cometVars, healthVars>>

HealthNext ==
    /\ on = "health" /\ Health!Next
    /\ UNCHANGED <<on, goVars, cometVars, hooksVars>>

Next ==
    \/ JokeNext \/ NetNext \/ RunnerNext \/ StampsNext
    \/ HooksNext \/ HealthNext

\* Nothing of a program that is not on is enabled but the steps its fairness
\* leaves out: a request that arrives, or the start of the runner.
Spec ==
    /\ Init /\ [][Next]_vars
    /\ Joke!Fairness /\ Net!Fairness /\ Runner!Fairness

\* The Go services: a request for a joke leaves at most one goroutine behind,
\* and none if it got its joke; the statistics count requests and errors but
\* for increments that overlap; and the list of networks is made as long as
\* what it is then filled with, whoever writes meanwhile.
ServicesSafe ==
    /\ Joke!TypeOK /\ Joke!LeavesAtMostOne /\ Joke!StatAccounted
    /\ Net!TypeOK /\ Net!PoolFits

\* The comet tests: a thread goes by the verdict of its own test and leaves no
\* volume there is a delete test for, a report has the output of all; and
\* check_stamp accepts the files without a gap, among them that of every volume
\* that lost nothing, whose file was not cut at a start and of whose stamps etcd
\* was told.
TestsSafe ==
    /\ Runner!TypeOK /\ Runner!VerdictIsOwn /\ Runner!CleansUp
    /\ Runner!ReportComplete
    /\ Stamps!TypeOK /\ Stamps!GoodIsGapless /\ Stamps!NoFalseAlarm

\* nvdisk: after a scan that was not cut short every disk has one slot, and no
\* other slot is taken, unless a registration went wrong; and a disk on which
\* nothing moves is failed in time.
DisksSafe ==
    /\ Hooks!TypeOK /\ Hooks!EveryDiskHasSlot
    /\ Health!TypeOK /\ Health!StuckIsFailed

\* The functions nvdisk replaces: nvd_bio_end_io in a bio always has the owner's
\* to call, unless the command was prepared anew, while the hooks come and go;
\* and those of the template stay when they were put back.
HooksSafe == Hooks!EndIoKept /\ Hooks!RestoredForGood

\* Neither a network that was deleted nor a disk that failed comes back,
\* whatever was under way when it happened.
EndsForGood == Net!DeletedForGood /\ Health!FailedForGood

\* Every request for a joke is answered, and one to the network store if its own
\* body and those of all PUTs arrive, which hold the lock; and the runner of the
\* tests ends, with its report if rebot makes one, whatever servers and tests do.
EveryoneReturns ==
    Joke!EveryRequestAnswered /\ Net!EveryCallReturns /\ Runner!RunEnds

=============================================================================
