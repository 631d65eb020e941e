# Formal models of song_sample_projects

The repository collects small services and tools that have nothing in common but
their author. Modelled are the replication service for docker registries
(`docker_registry_replication`), the event server (`event-server`), the kernel module
`nvdisk`, the joke service (`joke`), the network store (`appnet`), and the runner and
the volume stamps of the comet tests (`comet-test`).

Everything here is plain TLA+. TLC checks the configurations, TLAPS the proofs:

    tlc -config TaskService_safety.cfg MCTaskService
    tlapm TaskService_proofs.tla

## 1. The system

### docker_registry_replication (Python 2, Flask, MongoDB, docker daemon)

A task replicates one namespace of a source registry to one target registry.

| part | state | operations |
|------|-------|------------|
| `api.py` | none of its own | create, details, job (start, resume, stop, delete), overwrite, testlink |
| `task.py` `Task` | status, `sync_job`, `overwrite` list | validate, kickoff, start, pause, resume, delete |
| `task.py` `Taskset` | the list of tasks | `init_tasks` at start, add, `get_task`, delete, add_overwrite |
| `db.py` | collections `tasks` and `logs` | insert, delete one, delete many, update status, find |
| `sync_job.py` `SyncJob` | one thread, flags `stop` and `quit`, two conditions, `log_index` | run, get_diff, add/del one repository, stop, resume, quit |
| `sync_job.py` `JobConfig` | two registry clients, a docker client | its constructor: log in, look for the namespace, copy it |
| `apphouse_sdk.py` | access key | login, namespaces, listings, delete a tag |

Flask's development server runs one handler at a time (`app.run` without
`threaded`), so the handlers exclude each other; the workers are threads of their
own, one per started task. They share with the handlers the flags, the overwrite
list and the database, and with each other the docker daemon. What is hard: a
request can come at every point of a worker's loop; `stop` is guarded by a
condition, `quit` is not; a crash can fall between any two writes to the database;
the difference of two listings is applied long after it was computed; errors of the
registries are turned into empty lists, errors of the docker client end the thread, and
those in the stream of a pull do so one call later.

What makes it correct: at most one image begins after a stop; no resume is lost;
what the service reports is what runs and what a restart brings back; logs are
numbered consecutively; a target only moves forward and loses only what the source
removed; and it catches up with a source that is quiet.

A task starts with a `JobConfig`, made for `testlink`, for a new task and for every
kickoff. It makes the namespace in the target if it is not there. Each data centre
runs a service of its own, so several may do that at the same target. What is hard:
of a request that fails it is not known whether it was served; a target that does
not answer looks like one without the namespace; a copy that was not got turns the
next request from a POST into a GET. What makes it correct: a service never
changes a namespace the target has, and makes it only with what its source had; a
configuration passes only if both registries had the namespace; and asking again
gets there.

### event-server (Go)

Each POST runs in a goroutine, is decoded, and its event is sent on an unbuffered
channel. `BatchWorker` receives events, drops those whose id and subject are in the
batch, and publishes the batch on NATS when its timer fires. The statistics are
plain integers and a map, written by handlers and worker and encoded by a GET, all
without a lock. What is hard: the increments race; the timer is made anew on every
pass through the select; batch and markers are two structures; a connection to NATS
that failed is used all the same; the process may be ended by a signal, by a body it
cannot decode, or by the Go runtime.

What makes it correct: a message has exactly the distinct events since the last
one; each is published in the end; no POST hangs; the statistics add up.

### nvdisk: sector remapping (C, Linux kernel module)

`nvdisk` hooks into the SCSI host. A read or write that ends with an unrecovered
medium error adds an entry to the table of its disk (`nvd_add_remap_request`), in
the context of its completion; every request is looked up before it is queued
(`nvd_find_remapped_lba`). One kernel thread writes each changed table to the last
gigabyte of its disk; the table is loaded when the disk comes online, and zeroed by
a write to `/proc/nvdisk/remap`. What is hard: nothing of this takes a lock; the
table is written while it changes; the count of failed writes is part of what is
written; a crash can leave half a table; the disk can leave under a write.

What makes it correct: replacements never overlap and stay in their gigabyte; a block
once moved stays where it is; what is saved survives; a table that changed is
written.

### nvdisk: event queue (C, Linux kernel module and its client)

`netlink_enq` takes a message node from a pool, fills it and appends it to a queue,
in the context of completions, time-outs and configuration. A kernel thread waits
until the client has sent an empty message, broadcasts the first node of the queue
on a netlink socket, and puts it back into the pool. What is hard: the pool is
tested without its lock; the thread drops the lock of the queue while it waits and
goes on with an entry it saw before; it sleeps and is woken without a lock; requests
of clients are only counted, so that they outlive the client; the thread ends when
memory is short; when the time of the module is over it puts back a node that is
still in the queue; the module can be unloaded at any of these points.

What makes it correct: no node is lost or used twice; events are sent once, in
order, and in the end; a client gets one message for each request.

### nvdisk: hooks and health (C, Linux kernel module)

At its start the module scans the SCSI hosts, replaces four functions in the template
they share, and registers each disk in one of a few slots. From then on
`slave_configure` and `slave_destroy` register disks that come and drop those that
leave, `queuecommand` replaces `bi_end_io` of reads and writes, and `eh_timed_out`
counts the timeouts of a disk and reports it. When the time of the module is over the
functions are put back. What is hard: functions are replaced and put back one by one,
without a lock, while all of this goes on; a slot is looked for and filled later; a
command may be dispatched again, or be prepared anew, when its `bi_end_io` has been
replaced already; the bio has what is called, the command what was saved. What makes it
correct: each disk that was scanned has one slot and none is kept by a disk that is gone;
a completed command ends with its owner; what was put back stays; a disk on which nothing
moves is failed.

### joke (Go)

A request starts two goroutines, for a name (with retries) and a joke, and joins them
over two unbuffered channels; the first error is answered at once. Counters are raised
without a lock. What is hard: nobody receives what comes after the first error; the
retries have a limit of their own; the name may be good and the joke no JSON. What
makes it correct: every request is answered, none that succeeded leaves a goroutine
behind, and the counters add up.

### appnet/api-server (Go)

A map of networks under a RWMutex. What is hard: PUT decodes a body, that is, waits for
a client, while it holds the lock for writing; POST does so before; the list of
networks is made and filled in two steps. What makes it correct: a deleted network
stays deleted, the list fits, every request is answered if the bodies arrive (the server
has no timeouts, so nothing makes them).

### comet-test (Python, shell)

`basic-test.py` runs threads of tests in order, a create test and its delete test, by
calling `pybot` and reading its verdict back from a directory all threads share.
`writetime.sh` stamps a file in a volume and tells etcd, from where the next container
goes on; `check-vol.py` looks whether the stamps follow each other. What is hard: the
files in one directory; what is done when a test fails or leaves no file; a container
that is killed between volume and etcd. What makes it correct: a thread goes by its own
verdict and leaves nothing there is a delete test for, a report has all, and a check
without false alarms that does find what is missing between two stamps.

### Not modelled

- **comet-test cbench.go** (Go): a disk benchmark whose writer and readers share
  offset, data and counters without synchronisation and meet by sleeping. A reader may
  compare with data that has changed only if it is late by a whole block interval; the
  program promises nothing but the numbers it prints, and a model would have to decide
  which schedules its sleeps exclude.
- **nvdisk**: the rewriting of READ CAPACITY answers (`cmd_change_cap`,
  `host_cmd_scsi_done`), which is arithmetic on a buffer; the monitor thread
  (`DEV_REMOVE_IN_KERNEL` is not defined); what happens to commands that are under way
  when the module is unloaded (their `bi_end_io` is then code that is gone, whatever
  they do); a system with more than one kind of host.
- **docker_registry_replication**: tokens and access keys (a key never expires in the
  models, and the code never logs in a second time), console output, curl scripts.
- Vendored code (`appnet/api-server/Godeps`), generated code (`notification.pb.go`),
  binaries, the Robot Framework suites and the other shell scripts (they drive a product
  that is not here), and the byte relays in `event-server/debug`. `get-pip.py` is a third-party installer of 19177 lines, most of them an
  encoded archive; it makes up most of the repository's lines and none of its logic.

## 2. The modules

| module | models | extends / uses |
|--------|--------|----------------|
| `TaskService` | handlers, task list, database, worker control, crash and restart | |
| `MCTaskService` | its instances | `TaskService` |
| `TaskService_proofs` | theorems about workers, flags and logs | `TaskService` |
| `TaskPersistence_proofs` | theorems about lists and rows | `TaskService_proofs` |
| `Replica` | what replication promises | |
| `RegistrySync` | listings, difference, overwrite, copying through the daemon | instantiates `Replica` |
| `MCRegistrySync` | its instances | `RegistrySync` |
| `RegistrySync_proofs` | theorems about the copying and its refinement | `RegistrySync` |
| `Digest` | what the event server promises its subscribers | |
| `EventBatch` | POST handlers, channel, batch worker, statistics, process | instantiates `Digest` |
| `MCEventBatch` | its instances | `EventBatch` |
| `EventBatch_proofs` | theorems about statistics and batch | `EventBatch` |
| `RemapTable` | the remapping table of a disk, in memory and on disk | |
| `MCRemapTable` | its instances | `RemapTable` |
| `RemapTable_proofs` | theorems about the table | `RemapTable` |
| `EventChannel` | what the event queue of nvdisk promises | |
| `KernelList` | the kernel's linked lists | |
| `NetlinkQueue` | pool, queue, sender thread, client, load and unload | instantiates `KernelList`, `EventChannel` |
| `MCNetlinkQueue` | its instances | `NetlinkQueue` |
| `NetlinkQueue_proofs` | theorems about lists, pool, queue and clients | `NetlinkQueue` |
| `JobSetup` | the configuration of a task, the namespaces of source and target | |
| `JobSetup_proofs` | theorems about the namespaces | `JobSetup` |
| `ScsiHooks` | host template, scan, slots, disks, commands | |
| `DiskHealth` | how a disk is judged by its timeouts | |
| `JokeService` | a request, its goroutines, the statistics | |
| `NetworkStore` | the map of networks, its lock, its handlers | |
| `TestRunner` | main, test threads, output files, report | |
| `VolumeStamps` | containers that stamp a volume, the check of the stamps | |
| `MCPrograms` | the last six together | instantiates them |
| `Programs_proofs` | theorems about the six | `MCPrograms` |

Every module carries, beside the definitions of the code, a few marked `Faulty:`.
They are versions with a plausible bug, not part of any specification; they show
that the property named after them in `PROJECT.json` does fail when the code is
wrong.

### TaskService

A `Task` object is a member of `Obj`; `uuid`, `status`, `stop`, `quit` and `index`
are its fields and those of its `SyncJob`, `pc` says where its thread stands
(`none` also means `sync_job == None`), `todo` is what is left of the difference.
`tasks[r]` is the part of `taskset.tasks` that requests with namespace and target
`r` can reach, in order: `get_task` takes its head. `dbTasks[u]` and `dbLogs[u]` are
the rows of one uuid in insertion order, because `delete_one` and
`find_one_and_update` act on the first.

| code | actions |
|------|---------|
| `SyncJob.run` | `Poll` (the while test and `get_diff`), `Loop` (the quit test of the for loops), `CheckForStop`, `Woken`, `Begin`, `Work`, `Store`, `WaitForCall` |
| `create_task` | `CreateTask` (constructor, row), `Validate`, then `Kick...` |
| `kickoff` | `KickoffRefused`, or `KickoffLaunch` (SyncJob, thread) and `KickoffDone` (status) |
| `task_action` | `StartTask`, `ResumeTask`, `PauseTask`, `DeleteTask` and `DeleteLogs`, `Refuse` |
| process | `Crash`, `BootTask` (one row of `init_tasks`) |

A handler is split where it calls a registry, where it makes two changes to the
database, and between the start of the thread and the write of the status, so that
a worker or a crash can come between. The test of `stop` and the wait are one step:
they are under the condition's lock, and so is `resume`. `quit` is read without a
lock; each read is a step of its own.

Abstractions: what a registry answers is a choice (valid or not, any difference up
to `MaxBatch` images of each kind); the docker calls of one image are one step, which
may end the thread; MongoDB's own failures are left out, as are Flask's responses. A
request for a task that was never started fails on `sync_job == None` with nothing
changed (`Refuse`). `late`, `dup` and `mixed` are history: images begun since the
last stop or quit request, uuids that once had two rows, and uuids whose logs may
have had two writers. They guard properties and no action.

### RegistrySync and Replica

Contents of an image are numbered; 0 is absence. `dest[t]` is a target, `localSrc`
and `localDest[t]` are the names `<source>/<image>` and `<target>/<image>` in the one
docker daemon. Each call of `add_one_repository` is an action: `Pull` and `PullFails` (the
error is in the stream and is not looked at; the tag that follows does not find the image,
raises, and the thread ends), `Tag`, `Push` (errors are in the stream too), `RemoveSource`,
`RemoveDest` (an error status is raised: `died`). Any of them may raise for reasons of the
daemon's own, before it has done anything (`CallRaises`) or after (`Returns`); these and
the pulls that fail though the source has the image are counted together (`CallFault`,
at most `MaxCallFault`). `ListSource` and
`ListDest` are the two listings of `get_diff`; a failed one gives the empty list.
Images of `d["add"]` are taken in any order, as they come out of a set, and the
overwritten ones after them.

`Publish`, `Withdraw` and the notice of an overwrite are the source registry and
its users, which the code only sees through its calls: `Publish` and `Withdraw` are
marked external. The workers may stop between any two steps, so what `stop` and
`quit` do is contained (`TaskService` has the details).

`Replica` has only `latest`, `withdrawn` and `dest`: a target receives a published
content no older than its own, or loses an image that was withdrawn at some time.
`ReplicaSpec` is that refinement, under the mapping `withdrawn <- removed`.

### EventBatch and Digest

A handler is a goroutine that serves a request at a time. `sendq` is the queue of
goroutines blocked on the channel. `Receive` takes the event of the first (`newEvent`) and
lets it go on, `Account` counts the event and puts it into the batch: between the two the
handler may count its request and return. `Load` and `Store` are the halves of
`TotalReq++` and `TotalBadReq++`; counters that only the worker writes change in one
step. An event stands for one pair of id and subject: the key
`"%d-%s"` of the markers is injective, as the number has no dash. `waited` is the age of the timer
that `time.After` made on the last entry of the select, in ticks. `Start` leaves open whether
`nats.Connect` succeeds; without a connection `PublishMsg` fails, unnoticed.
`Exit` stands for the signal, for `log.Fatal` in a handler and for the runtime's
check of concurrent map access. Counters are taken modulo `Width`, as Go's are
modulo 2^64, which also keeps the state space finite while requests never end.

`Digest` has `linked`, `pending` and `message`; `DigestSpec` maps the markers to
`pending`, so it relates `EventMarker`, `Events` and what was published.

### RemapTable

`hdr` and `db` are the two parts of `ddb_remap_result`, `disk` the same on the disk,
`dev` the state of the slot in `G_dev_pool`, `add[c]` what processor `c` has computed
in `nvd_add_remap_request`, `sync` where the write of the thread stands.

| code | actions |
|------|---------|
| `nvd_cmd_done_check_result`, `nvd_add_remap_request` | `AddBegin` (tests, `new_lba`), `AddWrite` (the entry), `AddCount`, `AddMark` (`need_sync`) |
| `nvd_if_lba_remapped` | `Redirect` |
| `nvd_remap_check_and_sync` | `SyncHeader`, `SyncEntries` (the transfer of one write), `SyncDone`, `SyncFail` |
| `scsi_dev_add`, `nvd_remap_init_and_load` | `Online` (slot taken and zeroed), `OnlineUnsized` (READ CAPACITY failed), `LoadDone`, `LoadFail` |
| `host_slave_common` (destroy) | `Offline` |
| `nvd_remap_SeqSet` | `Clear` |
| reset, power loss, `nvdisk_exit` | `Crash` |

`no_of_remapped` is read several times in `nvd_add_remap_request`, without a lock
and without anything that keeps the compiler from holding it in a register:
`AddWrite` and `AddCount` use the count seen first or the count there is now. The
write is a DMA from the live table; it is cut once, between the sector of the header
and the entries, so that an add, a clear or a crash can come between. A finer cut
would only tear the entries themselves. `Transferred` is `nvd_rw_disk`:
`nvd_scsi_cdb` sets the opcode only for addresses that need more than 32 bits, and
opcode 0 (TEST UNIT READY) moves no data. A slot whose capacity could not be read counts
it as 0, so that its table lies beyond every disk: it takes entries and never writes
them. `PastEnd` is what an entry behind the last one overwrites. The rewriting of the
redirected command and the loop over the other slots are left out; `Request` has no
request above 10 TB, which `nvd_add_remap_request` leaves alone.

`tainted`, `missed`, `image`, `saved` and `unmarked` are history. `tainted` is set, for
good, when an add overlaps an add, a load or a clear, and when a torn table is loaded:
then nothing is promised (`remap_race` shows what happens). `missed` says that the table
changed during the last write, which the code forgets. `saved` is what the last completed
write had, whatever its header; `unmarked` says that this header had no magic number,
because the table had been cleared and not loaded since. `SavedSurvives` names that case
instead of leaving it out of `saved`.

### NetlinkQueue, KernelList and EventChannel

`link` holds the `next` and `prev` of the nodes and the two list heads, as
`linux/list.h` keeps them (`KernelList`, external); a deleted entry points to
`Poison`. `Members` is what a walk over a list meets, `Sound` that the pointers of both
directions agree along it, and `PoolOf(k)` the pool when `netlink_init` has put `k` nodes
into it. Each section under a lock is one step, and so is each access without one.
`credit` is the count of the completion `client_ready`.

| code | actions |
|------|---------|
| `netlink_enq`, `netlink_node_get` | `EnqTest` (pool empty? without the lock), `EnqGet` (first entry), `EnqAdd` (fill and append), `EnqWake` |
| `netlink_thread` | `ThreadLoop`, `ThreadMark`, `ThreadTest`, `ThreadSleep` (the sleep), `ThreadScan`, `ThreadAdvance` (`list_for_each_safe`), `ThreadWait`, `ThreadLimit`, `ThreadLapse` (time over), `ThreadSend`, `ThreadFail`, `ThreadDel`, `ThreadPut` |
| `ntlk_demo.c` | `ClientStart`, `ClientAsk` (also `netlink_data_reply`), `ClientReceive`, `ClientEnd` |
| `nvdisk_init`, `netlink_init` | `Load` (also with too little memory) |
| `netlink_exit`, `netlink_node_free`, `nvdisk_exit` | `ExitStop`, `ExitJoin`, `ExitWalk`, `ExitFree`, `ExitUnhook` |

A step that would use a list head as a node, a freed node, a thread that has
returned, or code that is unloaded sets `broken`, and the model ends there. The
code does reach it: two processors that both see the last node of the pool
(`netlink.c:26`), an event after the thread has failed, an unload with calls under
way. The properties say what holds until then. What is in a message is its event;
the client's messages are counted only. At most one client runs: it binds a fixed
port. That a socket or a thread cannot be created is left out.

`EventChannel` has only the sequence of events accepted and not sent. `ChannelSpec`
maps it to the messages along the pointers of the queue (`Unsent`), but for the first
one once it was sent and until `ThreadDel` takes it out. `restarted` and `orphan`
are history: they say when `OneAnswerEach` and `EventsLeave` promise nothing, a
client that is not the first of its module, and one whose request went to a module
that is gone.

### JobSetup

`pc[v]` is the request that the `JobConfig` of service `v` makes next, `goal[v]` for
whom. The constructor is one action per request: `Login` (twice, and the docker client,
which raises where the others return), `GetSource`, `GetDest`, `CopyGet`,
`CreateNamespace` (the POST, or the GET it becomes without data). `Valid` is what the
three callers do with a valid configuration, `Refused` what they do with another.
A request may fail before it is served or after; `make_request` makes `None` of both.
`TaskService` has the same callers with all their effects on tasks and rows and leaves
open whether a configuration is valid; here it is the other way round. An exception of
the docker client while tasks are loaded at start ends the service, which is `Crash`
there. `had` is history: what source and target have had since the configuration of a
service was begun. Users may change every namespace at any time (`Edit`, external).

### ScsiHooks and DiskHealth

`hostt` is the template, by function; `old` what was saved of it; `scan` where
`scsi_dev_scan` stands; `unhook` which function `host_recovery_funcs` puts back next.

| code | actions |
|------|---------|
| `nvdisk_init`, `scsi_dev_scan`, `host_replace_funcs` | `Start`, `Save`, `Replace` (one function a step), `ScanFind`, `ScanFill` |
| `scsi_dev_add` | `ScanFind` / `Configure` (the free slot), `ScanFill` / `ConfigureFill` (cleared and filled) |
| `host_slave_common` | `Configure`, `ConfigureFill`, `Detach` |
| `limited_set`, `host_recovery_funcs` | `limited_set`, `Recover` |
| `host_queuecommand`, `nvd_bio_end_io` | `Queue` in `Dispatch` and `Redispatch`, `Complete` |
| `host_eh_timeout` | `DiskHealth!host_eh_timeout` |

What is called at the end of a bio (`bio`) and what was saved of it (`cmd`, the field
`SCp.ptr` of the `scsi_cmnd`) are two places, as in the code. `Redispatch` gives
`host_queuecommand` the same `scsi_cmnd`, or one that the SCSI layer has prepared anew and
cleared; the bio is the same in both. `nvd_bio_end_io` puts back what the command has: NULL,
if the command was prepared anew with `nvd_bio_end_io` in its bio. Then the owner is never
told. `renewed` is the history of such commands. `limited_set` is called for each event
the sender has after the time is over, so it happens again and again.
The devices of `OtherHost` are no disks: the scan passes them over, while `slave_configure`
registers them like any other.

`odd` is history: a disk was registered twice, or after it had gone, or in a slot that
was taken meanwhile, or left when nobody told the module. The code can do all four (the
source asks "need lock ?"), and `EveryDiskHasSlot` promises nothing after them; no disk
comes after that, which is a bound. An error of `scsi_dev_add` ends the scan (`cut`: there
was no slot, or the serial number could not be read, of a disk that is registered all the
same) or, in `slave_configure`, has the SCSI layer refuse the disk and destroy it. The
result of the driver's own `slave_configure` is overwritten by that of nvdisk's. In `DiskHealth` `stuck` counts the timeouts since a
command was issued or done. The message of a timeout is only what was put into the
queue last; the queue is `NetlinkQueue`, where any producer may report any event. The
remapping table of a slot is `RemapTable`.

### JokeService, NetworkStore, TestRunner and VolumeStamps

In `JokeService` a handler and its two goroutines have a place each; the two halves of
`++` are steps; a goroutine blocked on a channel is in `Sending` and stays there if the
handler has returned. A name is decoded twice, by the goroutine and by the handler, so
only a joke can be no JSON when it is received.

In `NetworkStore` taking the lock, what is done under it, and the arrival of a body are
steps of their own; lock and unlock are `sync.RWMutex` (external). Each identifier is
given once.

In `TestRunner` a test is one step and reading its verdict the next; `xml` is the shared
directory. A test may pass, fail, or leave no file. Whatever its verdict, a create test
leaves its volume or not: some delete what they make and have no delete test
(`B-Create-14`, `B-CD-1`, `B-Migrate-1`). A delete test that passes has removed its volume.
`main` may end before there is a thread (`refused`: the options, no directory of tests, a
test without a number), and raise over the report (`died`: rebot made none, because it
failed or no test left a file). The names of the output files are tuples of what the code
puts into them.

In `VolumeStamps` the line in the file and the request to etcd are two steps, and the
container may be killed at each. `Lose` is what the tests look for. `is_sublist` is the
recursive function of the script; `GoodIsGapless` says what it comes to.

`MCPrograms` instantiates these four and the two of nvdisk. They share nothing, so `on`
says which of them a behaviour is about, and the others keep their first state. For
`ScsiHooks` it has three modes: "devices" (no commands, the time never over), "commands"
(the devices stay where they are) and "hooks" (everything); `Program` says which a run
takes. Each of its properties joins those of several modules, by name.

## 3. What is checked

| run | instance | shows |
|-----|----------|-------|
| `task_safety` | 1 uuid, 2 objects, 2 rows, batches of 1 + 1, 1 log, 1 crash | the safety invariants of `TaskService` |
| `task_workers` | 1 uuid, 2 objects, 1 row, 2 logs, 1 crash | a worker with two images: at most one begins after a stop or a delete, and the logs are numbered over deletes and restarts; liveness |
| `job_setup` | 2 services, 2 contents, 1 fault, 1 change by users | what is made in the target, what passes, retries |
| `sync_copies` | 2 workers and targets, 1 image, 2 contents, 1 fault of each kind (listing; push or delete; pull or another call), 1 crash | survival, clean daemon, refinement of `Replica`, convergence |
| `sync_wipe` | 1 worker, 1 failed listing | finding |
| `sync_datacentres` | 2 workers, no failure at all | finding |
| `event_batches` | 2 handlers, 2 events, interval of 1 tick, counters modulo 2 | statistics, refinement of `Digest`, liveness |
| `event_starved` | 1 handler, interval of 2 ticks | finding |
| `remap_safety` | 2 processors, 2 requests, 2 entries, 2 failures, any number of crashes, replugs and clears | safety and liveness of `RemapTable` until it is tainted |
| `remap_race` | the same, no add during a load, no clear | finding |
| `netlink_events` | 2 processors, 2 nodes, 2 events, 2 requests under way, any number of loads and clients | nodes, order, refinement of `EventChannel`, answers, liveness |
| `programs` | 2 requests, 1 retry; 2 clients, 2 networks; 1 host, 2 threads, 2 tests; 3 containers of 2 stamps; 2 hosts of a disk each and one of another device, 2 slots, 1 command, modes "devices" and "commands"; limits of 2 and 4 in 6 timeouts | what the six small programs promise: `ServicesSafe`, `TestsSafe`, `DisksSafe`, `HooksSafe`, `EndsForGood`, `EveryoneReturns` |

The type invariant of a module is a conjunct of its first invariant where the run has no
`TypeOK` of its own.

**Bounds.** Two objects are the least for a deleted task's worker and its
successor, or two postings of one task; one crash meets every intermediate point,
since boot goes through the same handler steps; of more crashes the theorems speak.
Two log documents show a gap, a repetition and a restart at the wrong number. Two
tasks that share a route are covered by the theorems, which hold for every `RouteOf`. Two workers and one image are enough
for all collisions in the daemon, whose calls concern one image each, and for a
difference that is out of date when it is applied; what two images add is only the
order in which a round takes them. Two contents let an overwrite come while the content
before it is being listed, copied or removed, and with both workers one of them may be
done with it. An interval of two ticks is the least that can be cut short
(`event_starved`); with one tick the timer of `event_batches` can fire or be made anew at
any time. The
constants `MaxRows`, `MaxBatch`, `MaxLogs`, `MaxVersion`, `Max...Fault` and
`MaxCrash` are the only bounds and appear as guards (`MaxCallFault` is 0 in the runs of the
two findings, which need none). `RemapTable` needs none:
`MaxRemap` and `SyncFailMax` are the limits of the code, made small, and two entries
are the least with a place behind another. `remap_safety` does not go on from a
tainted state (`MCUntainted`): `tainted` is never reset, and all its properties but
`TypeOK` and `LoadedCanSync` say nothing of such states. `MaxLogs` counts the images of a
batch ahead, so a worker at the bound still polls, with a smaller difference, and
never stops in mid-image because of it.

Two processors and two nodes let both
take a node, see the last one together, or find none, and let the thread's saved
entry be the head, a node, or one that is appended behind. `MaxCredit` bounds when a
new client starts, never a client that runs. `MCSound` ends `netlink_events` where
`broken` is set and where a node is in both lists after the time of the module.

Two services are needed for one that makes the namespace while the other has found it
missing; one fault is met at each of the requests in turn, and one change by users falls
between any two. `Limit` is 1 instead of 10, `CurrFailMax` and `DevFailMax` are 2 and 4
instead of 15 and 50: each limit is reached, and passed, with the others below theirs.
Two clients are enough for a writer and a reader or two writers, two identifiers for
one network that is deleted and one that is put. Two hosts with disks are needed for a
scan that goes on after the functions were replaced, and two slots for slots that are
used up by a disk that came and left; the device that is no disk makes three for two
slots, so that a disk finds none. What the runs have apart, devices without commands and
commands without devices, the theorems `Disks` and `Functions` have together, for any
number of each. Three containers of two stamps let the second
repeat a stamp of the first and the third go on from either, and write more than the
check expects. `MaxFault`, `MaxEdit`, `MaxStarts`, `MaxTimeouts`, the identifiers for POST
(`MayPost`), and that no disk comes after a registration went wrong are bounds; a
request for a joke and a run of the tests is made once.

**Deadlock** is checked in `TaskService`, `EventBatch` and `JobSetup`. In `sync_copies`
it is not: with all threads dead and a source at its bounds nothing is left to do. Nor
is it in `RemapTable`, whose disk may stay as it is for ever, in `NetlinkQueue`,
whose module may be stuck in `kthread_stop`, or in `programs`, some of which end.

**Fairness.** `TaskService`: each worker thread and the handler under way are
weakly fair: both are threads of one process that are runnable in every one of their
steps (a worker in `wait` has none). Requests and crashes have no fairness.
`RegistrySync`: each worker, and the arrival of a notice. `EventBatch`: each
handler's steps other than the arrival of a request, each of the two cases of the
select, and the clock. Two cases, because a select is entered with a timer that has
just been made: a blocked sender is taken at once, and the timer's case waits only
as long as events keep coming. `RemapTable`: the sync thread, which wakes up every
minute and whose commands end, and a completion that has begun to add an entry.
`NetlinkQueue`: the thread where it can run, each call of `netlink_enq` that has
begun, and a client that runs; nobody has to start a client, load, unload or report.
`JobSetup`: each request of a `JobConfig`, which is answered or times out; nobody has to
ask for anything. `JokeService`: the handler, each goroutine, the pause before a retry;
the HTTP client has a timeout. `NetworkStore`: what a handler does is weakly fair, and
taking the lock strongly, since `sync.RWMutex` lets neither readers nor writers starve,
though the lock is not free all the time. The arrival of a body has no fairness:
`http.ListenAndServe` (`antman.go:34`) sets no timeouts. `EveryCallReturns` has it as a
proviso instead, for the client's own POST and for the PUTs of all.
`TestRunner`: main once it has begun, and each thread; `pybot` and `rebot` end. Nothing
else of a program that is not `on` is enabled in `programs`, so that its fairness asks
nothing. `ScsiHooks`, `DiskHealth` and `VolumeStamps` have safety properties only.

### Findings

1. `sync_wipe`: `get_repositories_nslist` returns an empty list when the request
   fails (`apphouse_sdk.py:122`). If that is the source's listing, `get_diff` puts
   all images of the target in `d["del"]` and `run` deletes them. The next round
   copies them again (`ImagesConverge` holds), but until then the target is empty.
2. `sync_datacentres`: two tasks of one namespace with two targets pull to the same
   local name. `remove_image` of one (`sync_job.py:155`) makes `tag` or
   `remove_image` of the other raise, its thread ends, the task still says
   `started`, and the second data centre gets nothing. The README proposes this use.
3. `event_starved`: the interval of `BatchWorker` starts again with each event, so
   it does not fire "every 5 seconds" while events come faster.
4. `remap_race`: two requests that fail at the same time on two processors store
   their entries at one index and both raise the count. One block is not remapped,
   and the table counts a zero entry, behind which the next block is remapped to
   sector 0 of the disk. A clear, or a load, during an add has the same effect, and
   so has a crash between header and entries of a write.

Behaviours the models show that no document contradicts: on a disk below 2 TB the
remapping table is never saved, while every write of it succeeds (`Transferred`); a
table that was cleared is saved without its magic number, and so is what is remapped
until the next load: that load does not know the table, and all of it is lost
(`unmarked`); table and replacements lie below the end of the capacity the system sees,
which READ CAPACITY was already shrunk to when `cap_sectors` is taken from it
(`nvdisk.c:376-388`, `513`); a disk whose capacity could not be read is watched, and what
is remapped on it is redirected beyond its end (`OnlineUnsized`); a failed read at load
lets an empty table overwrite the
saved one; an entry added during a write is saved only after the next one; only
requests of exactly the same position and length are redirected; one pull that fails,
and any call of the docker daemon that raises, ends a worker for good, also one that is
alone, while its task still says `started`; a task that is posted with a `uuid` would take
the branch for rows of the database (`task.py:20`) and be listed without a row, which is
not modelled; two tasks with one
namespace and one target (`create_task` does not look for one, `api.py:58`) can end each
other until no worker is left, and a push of one between the two listings of the other
makes that one delete from the target an image the source has (the hypothesis
`OneTaskEach` of the theorems); a paused task that is
deleted leaves its thread waiting for ever (`set_to_quit` does not notify;
`DeletedWorkerEnds` excludes it); one more image begins when a resume and a new stop
come while the worker waits; a rejected request leaves a row that becomes a task at the
next start; a task that was never started cannot be deleted; a delete in mid-image
leaves the log of that image behind; an image withdrawn and published again between two
listings keeps its old content in the target; `Stat.Subject` counts batched, not
published events; counters are raised for messages that no NATS server took; a client
that outlives a reload of nvdisk waits for ever for an answer to a request the old
module took, while the new thread waits for a request; nvdisk cannot be unloaded while
events wait and no client does; the client looks for errors with `len == 0`, though
`sendmsg` and `recvmsg` return -1; a namespace that could not be copied is asked for as
"add" at the target, and if the target has one of that name the task is valid without
its namespace; a disk whose serial number cannot be read ends the scan of all disks, or
is refused by the SCSI layer though the module has registered it; with more disks than the
8 slots, those the scan has not come to are not watched, and those that come later are
refused; two disks that are
registered at a time may share a slot, and a disk that comes during the scan gets two;
if the time of the module ends before the scan has replaced the last function, the
functions stay replaced until `limited_set` is called again; a command that the SCSI layer
prepares anew after a dispatch under the hooks gets NULL back and its bio never ends; a
goroutine of the joke service stays blocked for
ever after an error of the other one; one client that sends the body of a PUT slowly
stops the network store, and one that falls silent stops it for good; when no test has
left a file, or rebot fails, `basic-test.py` raises over the report; a container that is killed between volume and etcd makes the
next one repeat a stamp, and the check reports lost data; stamps lost at the end of the
file are not reported; a volume of a failed test is left, and so is one of a create test
without a delete test that does not delete it itself.

## 4. What is proved

`TaskService_proofs` proves, for all sets of uuids, routes and objects and all
bounds that satisfy the named assumptions of `TaskService`:

| theorem | property |
|---------|----------|
| `TypeCorrect` | `TypeOK` |
| `LateImages` | `AtMostOneLateImage` |
| `Wakeups` | `NoLostWakeup` |
| `StopAgrees` | `StopMatchesStatus` |
| `LogNumbers` | `LogsNumbered` |

`TaskPersistence_proofs` adds, under the same assumptions:

| theorem | property |
|---------|----------|
| `TasksPersist` | `EveryTaskPersisted` |
| `StatusPersists` | `StatusPersisted` |

The first table follows from `Inductive`: `Spec => []IndInv`. The properties are not
inductive:

- `AtMostOneLateImage` needs to know where a worker with a late image can be.
  `LateOK`: it has met the flag of the last request or will meet it before the next
  image (`gate` with `stop` set or nothing left to do), and it is not in `woken`,
  the one place from which an image begins without a test.
- `StopMatchesStatus` holds between requests; `StopStatusOK` says it for every
  listed object except the one a handler has half changed, and `HandlerOK` what
  each handler has established about its object when it pauses (for instance that
  the object being deleted is still the head of its list, so that
  `taskset.delete_task` removes that one).
- `LogsNumbered` needs the writer: `LogsOK` says that a uuid that was never mixed
  has at most one object whose worker can still reach `add_log`, and that its
  private `log_index` is the number of rows.
- `ListsByRoute` (no object twice in a list, each in the list of its uuid) and
  `AtImage` (a worker in an image has it at the head of its list) carry these.

The second table follows from `PersistInductive`: `Spec => []PersistInv`, proved
with `IndInv` as context. Both properties hold between requests only, so
`PersistInv` says at every moment where the row of each task is:

- `RowsOK` counts, for each uuid: the listed tasks (`Own`), the one that
  `create_task` has stored and not listed yet (`Arriving`) and the rows `init_tasks`
  has still to load are at most the rows, and one more in the middle of a delete
  (`Leaving`), which removes the row first. `OwnAdd` and `OwnDrop` follow the count
  over the one object that joins or leaves a list.
- `RowStatusOK` says of a uuid that was posted once that its only row is either
  still to be loaded, as it is, or has the status of its task. A status is written
  to the first row that matches; `SoleOwner` shows from the count that no second
  object of the uuid is listed then.
- `KickedListed`: `kickoff` changes the status of a listed task only.

Each action is a lemma for each part of the invariants it can disturb. All four
assumptions of `TaskService` are used; of `ObjAssumption` only that the objects are finitely many
(that they suffice for `init_tasks` matters to TLC's deadlock check).

`RemapTable_proofs` proves, for all sets of processors and requests and all limits,
large disks and small ones:

| theorem | property |
|---------|----------|
| `TypeCorrect` | `TypeOK` |
| `CanSync` | `LoadedCanSync` |
| `Disjoint` | `ReplacementsDisjoint` |
| `UpToDate` | `SavedUpToDate` |
| `Survives` | `SavedSurvives` |
| `Redirects` | `StableRedirect` |

All follow from `RemapInductive`: `Spec => []IndInv`. Three parts of it
hold in every state: no write is under way to a disk that is not there, and a count
of failures reaches the limit only in memory, never on the disk (`BelowLimit`,
`LoadedCanSync`). The rest, `Clean`, holds until the state is tainted:

- `Disjoint` needs a bound for each entry (`Chain`: the i-th replacement ends at
  most i requests behind `Base`), and that the processor in an add has computed a
  place which is still the next one when it counts the entry (`OneAdd`, `AddOK`).
- `UpToDate` needs what the disk has while a write is under way: its header and
  `image` are the table in memory as long as nothing is missed, and the entries
  follow (`Match`, `Coherent` in `FreshOK`).
- `Survives` needs the same across a crash: `TablesOK` and `SavedOK` say of the
  table on the disk, when it can be loaded, that it is a chain, is marked to be
  written again (the header is written before `need_sync` is reset) and, unless the
  last write had no magic number, maps all that was saved. `LoadingOK` excludes that a write begun during the load leaves
  a header with the magic number.
- `Redirects` needs that the table only grows (`TableGrows`), behind the first
  match (`RedirectGrows`).

`CpuAssumption` is for TLC only. `SpaceAssumption`, that a full table of longest
requests fits behind `Base`, is what `Disjoint` rests on: with 1024 entries
(`nvdisk.h`) and 1023 MB behind `Base` it holds if no request is longer than 2046
sectors.

`RegistrySync_proofs` proves, for all sets of workers, targets and images, and all
bounds:

| theorem | property |
|---------|----------|
| `TypeCorrect` | `TypeOK` |
| `Clean` | `DaemonClean` |
| `Survives` | `SomeWorkerSurvives`, if no two tasks have one target |
| `Replicates` | `ReplicaSpec`, if no two tasks have one target |

The hypothesis `OneTaskEach` is what the code leaves to its users (finding 2 is about two
targets, which it allows). Without it both are false: a worker can remove the local name
of the target another worker has just tagged, so that each ends the other; and a worker
whose listing of the source is older than the push of another takes the new image for
one to delete. The runs have a target for each worker. The inductive invariant:

- `HeldOK`, for `Clean`: until a crash, a local name is there only because a worker is
  between making and removing it, or has ended there. `NamesOK`: an image a worker
  has listed is at the source or was removed there.
- `AgeOK`, for `Replicates`: contents never get older from target to local names to
  source, whichever worker put them there.
- `TagOK` and `SomeGoesOn`, for `Survives`: a worker that has tagged finds its tag, and
  until a pull or another call has failed some worker either has its next calls succeed,
  or has met an image that was removed. Whoever removes a name is itself the one that
  goes on. After a failure nothing is promised: any of them does end its worker.
- `DeleteOK`, for `Replicates`: what a worker is going to delete was removed at the
  source, from the first listing on.

`JobSetup_proofs` proves, for all sets of services and contents and all bounds:

| theorem | property |
|---------|----------|
| `Ready` | `PassesReady` |
| `OnlyCopies` | `CopiesOnly` |

Neither is about the present state: by the time a configuration passes, the namespaces
may have changed or gone. The invariant (`Seen`) says what each configuration has
met in its course: the source's namespace from the second login on, what it got
of it when it comes to the POST, and the target's namespace, or one called "add", at the
end.

`EventBatch_proofs` proves, for all sets of handlers, events and subjects, all widths of
the counters and all intervals:

| theorem | property |
|---------|----------|
| `Subjects` | `SubjectsAccounted` |
| `Requests` | `RequestsAccounted` |
| `Digests` | `DigestSpec` |

`Subjects` needs that counting modulo `Width` commutes with adding up (`Division`,
`Remainder`, `WrapOnce`) and what a fold does when one term changes. `Requests` needs
`CountOK`, which counts the handlers between their two increments, whose event the worker
may have counted or only received, and `LoadOK`: until
two handlers were at one counter at a time, the one between load and store is alone
there and has loaded what the counter still is. `Digests` needs `BatchOK` (the batch lists each
marked event once) and `QueueOK` (a goroutine that waits at the channel is in its queue
once and has an event).

`NetlinkQueue_proofs` proves, for all numbers of nodes, processors and events and all
bounds of requests:

| theorem | property |
|---------|----------|
| `Nodes` | `NodesAccounted` |
| `Answers` | `OneAnswerEach` |
| `Channel` | `ChannelSpec` |

The heart of the invariant is `ListsOK`: while the module works there are two sequences
that the pointers of queue and pool spell out (`Lists`), and these and the nodes in
somebody's hands share out the nodes. It says too where the thread stands: at the
first node of the queue until it deletes it, and its saved entry (`list_for_each_safe`)
is the next one or the head. `DelFirst` and `AddTailRing` are what `list_del` and `list_add_tail`
do to such a ring, `PoolRing` what the loop of `netlink_init` has built after k nodes. `Phases`
relates the thread to the time of the module and to its loading; `Credits` bounds the
requests under way. Every step is mapped to what it does to the two sequences (`StepLists`:
nothing, one node sent, deleted, or accepted), and that to a step of `EventChannel` or a stutter
(`ChannelStep`).

The walk over a list and the building of the pool are recursive functions. What they
compute is proved by induction over the natural numbers (`NatInd`), which
comes here from the fact that a set of numbers has a least one (`NatLeast`); that a recursive
function has a value at all is `Recursion`. Both are stated with sets and functions, where
the library's theorems take operators.

Of the assumptions, `NodeAssumption` (finitely many nodes, distinct heads) and
`CreditAssumption` are used, `FiniteAssumption` and `NumberAssumption` in `EventBatch`, and the types of
the parameters elsewhere.

`Programs_proofs` proves, for all values of the constants of the six small programs:

| theorem | property |
|---------|----------|
| `Services` | `ServicesSafe` |
| `Ends` | `EndsForGood` |
| `Tests` | `TestsSafe` |
| `Disks` | `DisksSafe` |
| `Functions` | `HooksSafe` |

Each program has an invariant of its own, and `OwnSteps` says that a step is one of its
steps or leaves it alone.

- `JokeInv`: a counter is at most the requests that have passed it, and exactly these,
  with at most one request between load and store, until two were there at a time
  (`Tally`); what the handler has parsed are the goroutines that are done (`Fetchers`).
- `NetInv`: a writer is alone, readers exclude it, the network a PUT has found is still
  there while its body is awaited, and a list that is being filled was measured as long
  as the store still is (`Locked`).
- `RunnerInv`: the file of a test that has not been run does not exist (`Fresh`), so
  that a verdict that is read was written by the thread's own test, in this run; `Kept`
  says at each place of a thread which of its volumes are gone, `Behind` which files of
  its create tests there are.
- `StampsInv`: `Told` relates file, etcd and the container's stamp as long as no
  container was cut off between the two and nothing was lost; `StampsBound` keeps them
  in their types. `GoodIsGapless` is about `is_sublist`, a recursive function: if it ever
  differed from "there is an offset" there would be a least length where it does, and
  one step of the recursion excludes it (`SublistFound`).
- `HooksInv`: how far the functions are replaced, or put back, follows from the places of
  the scan (`Hooking`); until a registration went wrong each disk has at most one slot,
  and one that is present has its slot or the scan has still to come to it, if it was not
  cut short (`Single`, `Known`, `Covered`); a bio in which `bi_end_io` was replaced has its
  way back in the command that is with the driver, unless that was prepared anew
  (`WayBack`). For `Disks` and `Functions` the bounds of the modes do not count: "hooks" is
  one of those they are about.
- `HealthInv`: the timeouts since something moved are counted, all but the first.

There are 8 slots (`DEV_NUM_MAX`, `nvdisk.h:23`) and up to 128 hosts are scanned, so a scan
may run out of slots; in the run there are fewer slots than devices. After a scan that was
cut short `EveryDiskHasSlot` still says that no slot is kept by a disk that is gone, and
none is used twice. The assumptions of `MCPrograms` are that requests and
identifiers are finitely many, that there is a network to be named and a first test, and
that limits are numbers.

Two definitions were wrong in a way TLC cannot show, and the proofs did not go through:
`AfterCreate` and `is_sublist` had a CASE with overlapping guards, of which TLC takes
the first and TLA+ any. Both are now disjuncts that exclude each other, as in the code.

Only model-checked: all liveness (`EveryoneReturns` and the properties with `~>` or
`<>` of the other modules), which needs fairness and `ENABLED`, out of the prover's
reach; and that the findings are reached, which needs a behaviour and no proof.

## 5. Plan

Modelled first was what runs unattended on data that matters: `TaskService`,
`RegistrySync`, `EventBatch`, `RemapTable` and `NetlinkQueue`; then how a task is set up
(`JobSetup`), and the smaller programs. Every safety and action property that a passing
run checks, and each refinement, is a theorem by now. What is left:

1. The composition of `ScsiHooks` and `DiskHealth` with `NetlinkQueue`, whose producers
   they are, and with `RemapTable`, one for each slot.
2. The safety cores of the liveness properties, as far as they can be stated without
   `ENABLED`: from which states a worker, a batch or a table can always go on.
