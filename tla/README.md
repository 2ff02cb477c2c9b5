# A TLA+ verification project for s390-tools

s390-tools is a collection of tools for Linux on z Systems. This project models
the parts of it that carry logic which is hard to test: code with threads,
deadlines, cancelation, error paths, state kept twice, and long sequences of
operations. Seven programs are modelled: `dump2tar`, `fdasd` (with `libvtoc`),
`cpuplugd`, `iucvtty` with `iucvconn`, `cmsfs-fuse`, `hmcdrvfs` and `cpacfstatsd`.

## Inventory

| Component | State | Operations | Hard behaviour | What makes it correct |
|---|---|---|---|---|
| dump2tar engine (`dump2tar/src/dump.c`) | job queue, active count, abort flag, output mutex, per-thread job/flags/buffer, statistics | queue, dequeue, process, write, complete, time out, cancel, restart, abort, reap | worker threads and a supervising thread on two mutexes and two condition variables; cancelation at chosen points; deadlines; an abort at any moment | each entry is in the archive once and whole if the exit code is 0; a job has one owner; entries do not mix; the tool ends |
| dump2tar directory handles (`dref.c`) | reference counts | create, get, put | shared by scans and by jobs of several threads | open as long as needed, closed in the end |
| dump2tar data buffer (`buffer.c`) | memory area, temporary file, total | make room, read, flush, truncate, iterate, reset | spilling at a limit, errors of the temporary file, cancelation in the middle | what comes out is what was read |
| dump2tar tar stream (`tar.c`) | bytes emitted | header, contents, padding | an error between header and contents | the stream stays aligned and sizes match |
| libvtoc (`libvtoc/vtoc.c`) | free-space extents of format 5 and 7 labels | add, delete | merging and splitting extents, cylinders borrowed for tracks, full labels | free space is the complement of the partitions |
| fdasd (`fdasd/fdasd.c`) | list of partitions, counters between them, labels, map of data set numbers | menu commands, automatic mode, configuration file, write | the same fact kept in five places over several sessions | the places agree; what is on disk is a sound table |
| cpuplugd (`cpuplugd/*.c`) | limits, ring of samples, CPU and page counts, what was found at the start | start, read, evaluate, plug, unplug, reload, end | administrators who change the same things, signals at any time, wrap-around of the ring, reload with another depth | counts stay within limits; the ring is read right; the system is left as it was found |
| iucvterm (`iucvterm/src/*.c`) | terminal, pty and socket, one message buffer for both directions, child | copy, resize, escape, refuse, end | messages read in pieces, signals between a test and a wait, failures of the child | bytes arrive in order; failures are shown; both sides end |
| cmsfs-fuse (`cmsfs-fuse.c`, `amap.c`) | directory, allocation map, pointer trees, cache of addresses, open files | create, write, truncate, unlink, rename, remount | entries move while files are open; the disk runs full within an operation | every block has one owner; nothing is lost; caches are exact |
| hmcdrvfs (`hmcdrvfs.c`) | attribute cache, position of one shared device, scan | getattr, readdir, open, read, aging | listings cut anywhere, errors at each call, exchange of the DVD, the aging thread | nothing is read from a wrong place; what is there is found |
| cpacfstats (`cpacfstats/*.c`) | pid file, socket, counter states, clients | start, serve, stop | a daemon killed at any step; clients that go; CPUs that fail | one daemon, found by its files; its state is that of the counters; clients end |
| vmur | spool files | receive, hold, purge | failure between copy and purge | no file purged that was not received |
| zdev | active and persistent settings of devices | configure, deconfigure, import | a step of several failing | configurations agree afterwards |
| zipl, zgetdump, ziomon, hyptop, other dasd tools, zds access, ipl_tools, osasnmpd, qeth tools, tape390, mon_tools, vm tools, libraries | on-disk formats, ioctls, display | | mostly I/O and data formats, sequential | |

Components interact little: they are separate programs which share the
libraries (`libutil`, `libdasd`, `libvtoc`, ...). Inside dump2tar, the engine
calls the buffer (one per thread), the tar stream (under the output mutex) and
the directory handles (reference counts under a mutex of their own). fdasd calls
libvtoc for every change of the free space. iucvconn and iucvtty exchange typed
messages over a stream socket; cpacfstats and its daemon, queries and answers.

## Modules

| Module | Models | Composes or refines | Checked by | Proved in |
|---|---|---|---|---|
| `DumpTask` | the threaded engine of `dump.c`, with `dref.c` | | `MCDumpTask` | `DumpTaskProofs` |
| `TarArchive` | abstract: what a worker promises for the files it dumps | | | |
| `DataBuffer` | one worker's `read_fd`, `buffer.c`, and the contents part of `tar.c` | implements `TarArchive` | `MCDataBuffer` | `DataBufferProofs` |
| `FreeSpace` | operators: the free-space labels of libvtoc | | with `Fdasd` | `FdasdProofs` |
| `PartitionTable` | abstract: what a partitioning tool promises | | | |
| `Fdasd` | sessions of fdasd | uses `FreeSpace`, implements `PartitionTable` | `MCFdasd` | `FdasdProofs` |
| `CpuPlugd` | the daemon and its surroundings | | `MCCpuPlugd` | `CpuPlugdProofs` |
| `BytePipe` | abstract: one direction of a session | | | |
| `IucvTerm` | iucvconn, iucvtty, its child and the socket between them | implements `BytePipe` twice | `MCIucvTerm` | `IucvTermProofs` |
| `AllocMap` | operators: allocation map and sizes of pointer trees | | with `Cmsfs` | `CmsfsProofs` |
| `Cmsfs` | cmsfs-fuse | uses `AllocMap` | `MCCmsfs` | `CmsfsProofs` |
| `CmsfsInvariant` | the inductive invariant of `Cmsfs` | | | |
| `HmcDrive` | hmcdrvfs, the device and the drive | | `MCHmcDrive` | `HmcDriveProofs` |
| `Cpacfstats` | daemons, clients and the two files | | `MCCpacfstats` | `CpacfstatsProofs` |

`DumpTask` takes reading and writing an entry as steps that succeed, fail, block
or are canceled; `DataBuffer` opens these steps up for one worker and shows that
what is written is what was read. The two meet in `read_fd` and
`_write_job_data`: the buffer of a thread is used by one thread at a time, which
is what `UniqueOwner` and `OutputExclusion` of `DumpTask` say of its jobs.

Definitions that stand right before another one, with the same parameters and a
comment that says what is wrong, are its mutants: `PROJECT.json` names for each
property the one that breaks it.

### DumpTask: state and actions

Variables are named after the members of `struct task`, `struct job` and
`struct per_thread`; the comment beside each says which one it is. The position
of worker `t` is `pc[t]`, that of the main thread `mpc`.

* A worker: `WBegin` (entry of `worker_thread_main`, also after a restart),
  `WDequeue`/`WWait`/`WLeave` (`_get_next_job`), `WProc` with `WExclude`,
  `WNoRecursion` (`process_job`), `WOpen`, `WSpec`, `WEnqueue`, `WSpecsDone`
  (the first job: `open_output`, `queue_jobs_from_opts`), `WOpendir`,
  `WReaddir`, `WQueueJobs` (`queue_dir`), `WRead...` (reading), `WPost`
  (`account_stats`), `WEmitBegin`, `WEmit`, `WEmitFails`, `WSkip`, `WCheck`
  (`_write_job_data` under the output mutex), `WComplete`, `WTimedOut` (end of
  the loop), `WCancel` (the thread acts on `pthread_cancel`).
* The main thread: `MCreate`, `MMark`, `MCreateFails` (`start_worker_thread`),
  `MWait`, `MLeave`, `MExpire`, `MToolTimeout`, `MGrace`
  (`wait_for_completion`), `MTimeout`, `MTimeoutRaced`, `MCancel`, `MRestart`,
  `MRestartFails` (`_timeout_thread`), `MReap`, `MReapJoin`
  (`process_queue_threaded`), `MAbortQueued`, `MFinal` (end of `dump_to_tar`).

Steps are cut where another thread can see a difference: a section under
`task->mutex` is one step, and so is what is between two of them unless the
thread can be canceled in it. Releasing a job and taking the next one are two
steps.

What is abstracted:

* A job is the archive entry it is for. `Kind` and `Parent` replace path names:
  an entry is found by scanning its parent, or is on the command line.
* There is no clock. A deadline that is waited for may pass at any moment
  (`MExpire`); which deadline that is, is what the code computed before the wait.
* `--max-size` counts whole entries. `stats` is the sum of the counters of all
  threads, which is all that is ever read.
* A condition variable is modelled by letting the waiters look again; wakeups
  without a cause happen (`WSpurious`, `MSpurious`).
* Joining a thread that was never created or has been joined is undefined
  behaviour: `MReapJoin` may crash (`mpc = "crashed"`) or go on.
* Standard input is a file like others.

### DataBuffer: state and actions

`size`, `total`, `fdOpen` are members of `struct buffer`; `mem` is the memory up
to `off`, `file` and `pos` the temporary file and the position of its
descriptor. The i-th byte of the k-th file is the pair `<<k, i>>`, so that a
byte that is lost, repeated, out of order or of another file is noticed.
`Start`, `HasRoom`, `Enlarge`, `Spill`, `ReadSome`, `ReadLimit`, `ReadEnds`,
`ReadAborted` are `read_fd` with `buffer_make_room`, `buffer_flush` and
`buffer_truncate`; `EmitNothing`, `EmitMemory`, `Rewind`, `Copy` are
`buffer_iterate` with `emit_content_cb`; `Finish` is the padding and
`buffer_reset`. `SpillFails` and `RewindFails` are a full disk (or no temporary
file at all), `SpillCanceled` is a file timeout at the write to the temporary
file; in all three the entry is written with what there is. `ReadLink` is a
symbolic link dumped in between, which can leave more memory behind than
`max_buffer_size`.

Abstracted: layout of headers and long names; `lseek` on the temporary file and
reading back from it do not fail; a write to it is complete unless the disk is
full; errors of the output, which end the dump, are in `DumpTask`. The model is
that of `--ignore-failed-read`; without it a failed read ends the dump.

`TarArchive` is the promise: bytes are delivered (`Deliver`), an error may hit
the current entry (`Hit`), and the entry is added (`Add`), announcing and holding
exactly what was delivered up to `--file-max-size`. `ImplementsArchive` is its
specification as a property of `DataBuffer`.

### FreeSpace, Fdasd: state and actions

A free-space label is the set of its extents in use; `AddFree` and `DelFree` are
the four `vtoc_update_format5/7_label_add/del` functions with all their cases,
`CanAddFree` and `CanDelFree` the checks that end the program with `BUG: ...`.
A format 5 extent has cylinders and tracks of its own, as on the disk, and the
address of a track is cut to the width of its fields (`Cchh`).

`Fdasd` keeps what fdasd keeps side by side: the list `parts` with the free
tracks behind each element and `gap` in front, `used`, `dsrec`, `highest`, the
label `free` and the map `partno`. A session starts on an empty volume
(`StartNew`) or on its labels (`StartRead`); `AddPartition`, `RemovePartition`,
`ChangeType`, `ChangeVolser`, `ReuseVtoc`, `RecreateVtoc` are commands of the
menu; `Quit` drops and `WriteLabels` saves the table; `AutoPartition` and
`ConfigPartition` are the two modes without a menu. `AddBug` is a command that
ends in the consistency check of libvtoc, `WriteTorn` a write that the code
itself leaves in the middle. Abstracted: device names, the fields of labels that
are copied, messages; a command with input that is refused changes nothing.

`PartitionTable` is the promise: a sound table on disk, a copy that changes one
partition at a time, and a save or a drop.

### CpuPlugd: state and actions

`Start`, `ParseConfig`, `SetupHistory`, `CheckConfig` with `CpuConfig` and
`MemConfig`, `RaiseCpus`, `LowerCpus`, `CheckCmm` bring the daemon to its loop of
`ReadInterval`, `EvalCpuRules`, `EvalMemRules`; `ReloadDaemon` is SIGHUP, `Cleanup`,
`KillDaemon` and `Reactivate` are its ends. `AdminCpu`, `AdminPages`, `EditFile` and
`Hup` come from outside, between any two steps. Each slot of the ring holds how
many readings ago it was filled (`age`), which is all that the properties need.
What a rule computes is not modelled: each evaluation picks one of `Matches`, and
`cmm_inc` and `cmm_dec` have any value of `Steps`. Of a rule only the largest history
index in it is kept. A rule that the file does not have stays as it was (`Parsed`;
`kept` says which), while the depth of the ring comes from the file alone
(`Depth`). `StrayRead` is the evaluation of a rule that asks for more: it reads what
happens to be there, or ends the daemon.

### IucvTerm: state and actions

`up` and `down` are the messages in the socket; a message that was read in part is
left there with type `"REST"`. `ConnTop`, `ConnClear`, `ConnWait`, `ConnSelect`,
`ConnTerminal`, `ConnStdin`, `ConnClose` are the loop of iucvconn, cut where a
signal makes a difference; `Accept`, `RxTermenv`, `TtyTest`, `TtyWait`, `TtySelect`,
`TtyClient`, `TtyMaster`, `TtyClose` that of iucvtty. `ChildSetup` is the child
until it is the login program, or its failure. The login program, the user and
the window are the actions `LoginWrites`, `LoginExits`, `UserTypes`,
`WindowChanges`. Each byte of output is its number, each key a character that may
be part of an escape sequence.

### AllocMap, Cmsfs: state and actions

The allocator is a record that operators take and return, because every
operation of the file system is a chain of allocations that may fail in the
middle; `st` is the whole state in the same form. `Found`, `Lookup` and `Recache`
are the cache of addresses, `Reserved`, `Written`, `Shrunk`, `Repointed` the blocks
of a file and their pointer trees, `Copied`, `Popped`, `Deleted`, `Grown`, `Added`
the directory. The actions are the FUSE operations `Getattr`, `Readdir`, `Open`,
`Create`, `Write`, `Truncate`, `Unlink`, `Rename`, `Release`, and `Remount`. The
daemon serves one at a time. Abstracted: contents are counted in blocks, with
the last one full or not; binary mode only.

`Habits` keeps three known faults (see the observations) from hiding the others:
with `"alone"` nobody deletes a file while another one is open, which is the run
`CmsfsMoved` without it; with `"fresh"` nobody renames a file to its own name or
onto an open one.

### HmcDrive: state and actions

A request (`Begin`) holds the mutex until it ends; `Piece`, `EndOfListing`,
`ListingFails` are the scan of one directory, of which there may be several on
the way to the root, `ReadDone` and `ReadFails` a transfer. `Tick` and `Aging` are
the other thread, `Exchange` is the operator of the drive. A listing is a sequence
of lines of two halves, so that a piece may end in the middle of a line. `dev` is
the position of the device, `drv` what hmcdrvfs believes it to be.

### Cpacfstats: state and actions

A daemon starts (`Start`, `ReadPid`, `RemoveStale`, `Refuse`, `CreatePid`, `FillPid`,
`PerfInit`, `Bind`), serves (`Accept`, `AcceptGone`, `DoAsked`, `AnswerGone`, `Skip`,
`Finished`) and ends (`Term`, `RemoveSock`, `RemovePid`, `Exit`), or is killed at any
step (`Kill`), also by SIGPIPE. A client connects, and leaves with its answers
(`Leave`) or without (`Die`). The calls of a counter go to all CPUs, any of which
may fail. Assumed of whoever starts and stops daemons: not while another one
starts or ends (what happens otherwise is under the observations), and pids are
not reused.

## Runs

| Run | Expect | Shows |
|---|---|---|
| `DumpTree` | pass | a nested tree, two workers, ignored read, stat and opendir failures: exit code 0 means a complete archive (`CompleteDump`), handles are counted right (`HandleCount`), no wakeup is lost (`Termination`) |
| `DumpAbort` | pass | every way to abort (read, open, write and stat errors, `--max-size`, `--timeout`), reads that never return: the shutdown is complete (`QuietAtEnd`, `Accounting`) and ends |
| `DumpTimeout` | pass | three workers, `--file-timeout` at any moment, threads that cannot be created or restarted, reads that never return: one owner per job, exclusive output, exact count of active jobs, results final, no hang but the one of the observations (`LeftAsleep`); the inductive invariant `OwnerInv` |
| `DumpLostJob` | violation | `queue_jobs` does not set `jobs_tail`: a later `_queue_job_tail` drops the queue, and the engine waits for ever |
| `BufferEntries` | pass | `DataBuffer` implements `TarArchive`; the inductive invariant `BufferInv` |
| `FdasdTable` | pass | any number of sessions on volumes with format 5 and format 7/8 labels: free space is exact (`FreeSpaceExact`), so are counters, the last label and serials (`LabelsExact`); `BUG` only where a typed start wraps; fdasd implements `PartitionTable` |
| `CpuplugLoop` | pass | limits (`WithinLimits`, `NoOvershoot`), the ring (`HistoryExact`: every index in the rules of the file last read, and of rules kept from an earlier one as far as the ring reaches), restoring (`RestoredAtExit`), growth under load (`GrowsUnderLoad`) with administrators, reloads and kills |
| `IucvSession` | pass | both directions are byte pipes; continuation counters are exact and no output is lost (`SocketInv`); failures reach the user; both sides end together |
| `CmsfsDisk` | pass | map and counters (`BlocksExact`), directory, cache and open files agree after any sequence of operations, up to a full disk, and remounts |
| `CmsfsMoved` | violation | `delete_file` updates the wrong object when it moves the entry of an open file |
| `HmcRequests` | pass | the shared device is never read out of step (`InStep`); scans keep their entries and others expire in time (`CacheInv`); what is on the DVD is found and shown |
| `CpacfDaemon` | pass | one daemon serves and is found, leftovers never lock a new one out (`FilesInv`), a stopped one leaves nothing, states and answers are exact, after a failure on some CPUs too (`RequestInv`), and clients end |

The invariants of the modules are conjunctions of named parts, each with a comment
of its own (`FilesInv` is `OneServer`, `Reachable` and `CanCreate`); a run
names the conjunction.

Each violation run is described under `findings` in `PROJECT.json` with the line
that it contradicts. `DumpTree`, `DumpAbort` and `DumpTimeout` use trees in which
the lost job of `DumpLostJob` cannot happen (one directory specification, or no
recursion), so that the other properties are not hidden behind it.

Bounds.

* dump2tar: `DumpTree` and `DumpAbort` have two workers, enough for one that works
  while another one sleeps, writes or is reaped. `DumpTimeout` has three, because a
  thread that cannot be created matters most beside one that has the job and one that
  sleeps; its tree is a directory with one file. The other trees are the smallest
  with a nested directory and with a command beside a directory. More than three
  workers are left to the proofs; the liveness properties are checked for these
  numbers only. For the buffer, chunk 2, memory 5,
  block 3 and files of 0 to 9 bytes make memory grow by chunks, spill once and
  twice, end on and off a block boundary, and reach the limit of 8 in memory or
  spilled; two files are the least for something to be left behind by the first;
  `LinkMemory` 6 lets a link enlarge the memory beyond `max_buffer_size`.
* fdasd: two cylinders of three tracks, of which four are usable, so that extents
  begin and end within and on cylinders; three partitions; three changes in a
  session (the number of sessions is not bounded); `CcSize` 1 makes the address of
  the second cylinder overflow into the head field, as it does beyond 65536
  cylinders.
* cpuplugd: three CPUs, one of which may be deconfigured; files with CPU limits,
  memory limits, both, neither valid nor reachable; rules with history index 0, 1 and
  3, so that rings of depth one and three follow each other in reloads, with
  rules of one file kept under the depth of another; four events from outside.
* iucvterm: buffers of two bytes, two keys, two bytes of output, one signal, any of
  four failures: a message read in pieces, an escape sequence, and data in both
  directions at once all occur.
* cmsfs-fuse: a disk of seven blocks with two pointers in a block and three entries
  in a directory block, two files of up to three blocks. The disk fills, the
  directory grows by a block and shrinks, and files have pointer trees of one and
  two levels. Files and the directory have at most `Ptrs`^2 blocks, in the run and in
  the proofs (`CmsfsAssumption`): with a few more `update_levels` gives a tree with too
  few levels, behind which blocks are lost (see the observations). One write adds at most two blocks, as many as a block has
  pointers (`MaxWrite`): with larger ones a reservation is made for data that
  never fits (see the observations). Names are symmetric.
* hmcdrvfs: two DVDs with a directory, a file in it and a file in the root; lines
  of the table shared by two paths; a buffer that holds one and a half lines.
* cpacfstats: two daemons, one after the other, two clients, two counters, two
  CPUs, each of which may fail whenever a counter changes; to enable and to print all
  counters and to disable one. A reset is answered like a print and changes nothing
  that the model has.

Fairness.

* `DumpTask`: threads that can go on do, as the scheduler guarantees (weak
  fairness of the main thread and of each worker). A deadline passes, however
  often the wait for it is interrupted, as it is a point in time: strong fairness
  of `MExpire`. Reads end and output is taken, unless the instance has the fault
  `"hang"` or `"stall"`, in which case nothing is assumed of them. Nothing is
  assumed of cancelation other than that a canceled thread acts on it when it is
  at a cancelation point.
* `CpuPlugd`, `IucvTerm`, `Cpacfstats`: a process that can run does (weak fairness of
  the daemon, of both loops and the child, of daemons that serve or end and of
  clients that have what they wait for). Users, administrators and signals come
  or not. `GrowsUnderLoad` assumes in its premise that the rule matches and that
  nobody interferes from some time on.

## Proofs

All theorems hold for any number of threads, any tree, options and faults that
satisfy the named assumptions of the modules.

`DumpTaskProofs`: `OwnerInv` is inductive. `UniqueOwner` alone is not: that a
restarted thread gets the job of its predecessor and nobody else's needs to know
at which positions a thread has a job (`Positioned`), that the main thread's
pointer and its target agree while the mutex is released, and that a scan never
creates an entry that exists already (`CreatedOnce`: a directory is scanned
once, by the thread that has its job). `OutputExclusion` is inductive with the
positions. From it follow `TypeCorrect`, `OneOwner`, `OutputExclusive`, and the
action property `ResultsFinal`.

The counts rest on `OwnerInv` and on five more inductive invariants. `HandleInv`
says of every directory handle that its count is the number of allocated jobs
that need it plus the scan of its directory, as a sum of cardinalities
(`HandlesCounted`). `OrderInv` says that nothing is found before a specification
was worked on (`SpecsFirst`), that a thread creates jobs only for the entries of
the directory it scans (`OwnKids`), and that the tail pointer is the last job of
the queue as long as only `_queue_job_tail` is used (`TailInv`). `NumInv` is the balance of `num_jobs_active` against queue and threads;
it never says too little (`NeverTooLow`). `LeakInv` and `ReapInv` lead to the quiet
end (`EndIsQuiet`). `ActiveExact` and `EndIsQuiet` assume `NothingLost`: one
specification, or no recursion. Without it they are false, and `DumpLostJob` is
the run that shows how the count stays too high.

`CountsTrue` (`Accounting`) and `ArchiveComplete` (`CompleteDump`) assume
`NoDeadlines`, that is, no `--file-timeout`: with it the main thread can hit a
worker whose read has just ended, and the restarted worker counts and writes that
entry a second time (see Observations), so that both are false. Without it no
thread is restarted, and threads are canceled only after the wait for completion
(`OnTime`). `CountInv` is `Accounting` at every moment: each counter is the number
of entries with the results it stands for, less those that a worker has finished but
not yet accounted (`Unsettled`). The complete archive is a chain of invariants,
all but `WorkInv` about a task that is not aborted (`Clean`): `num_jobs_active` is
the number of allocated jobs but those that a scan has still to queue (`ExactInv`; it
holds even where a job is lost, when the engine waits for ever and so ends with
no wrong result); hence, when the main thread stops waiting, no job is left and
canceling hurts nobody (`IdleInv`); a worker past its work has a result, and what
it scanned is found (`WorkInv`); a job is not failed unless that is ignored, and a
job that is done has found all its entries or was not to or could not
(`StatusInv`); the archive has each entry with a result once, but for those still
with a worker (`EmitInv`); and the exit code tells of the end marker (`EofInv`).

`DataBufferProofs`: `BufferInv` is inductive: types; `RoomInv` (the read fits);
`PhaseInv` (what each position tells, for example that below the limit all that
was delivered is counted); and `ContentsInv`, the heart of it: the file up to the
position followed by the memory are the first `total` bytes of the current file.
It says nothing about the file behind the position, as a failed `ftruncate` can
leave anything there; that this is harmless is what makes the refinement
interesting: `emit_content_cb` stops at the announced size. `Implementation`
shows that every step is a step of `TarArchive` or leaves its variables alone.

`FdasdProofs` begins with libvtoc. The extents of a format 7 label neither overlap
nor touch (`Label7`); a format 5 label is one whose extents, with their cylinders
and tracks put together, are such extents (`Label5`, `As7`). `AddFacts` and `DelFacts`
say that adding and deleting keep this and add or take exactly the tracks given,
through every merge, split, carry and borrow. The list of partitions is ordered
(`Spans`) and each element counts the free tracks behind it (`Good`); `EnqueueFacts`
and `DequeueFacts` are the changes of it. `AddressFacts` is about addresses cut to
the width of their fields, and `CounterFacts` about `fdasd_reuse_vtoc`, which makes
the label from the counters: the fold along the list is described by a recursive
function that is first shown to exist. The inductive invariant says the same of two
places: of the labels on disk (`Stored`) and, in a session, of what is in memory
(`Kept`), with the flags of what is still to be written (`Flags`). `FreeSpaceExact`
and `LabelsExact` follow, and each step is one of `PartitionTable` or none
(`TableImplemented`), whose `Sound` is therefore true of every disk (`TableSound`).
`BugsExplained` needs one thing more: a label has at most one extent more than there
are partitions (`FewExtents`), so with fewer partitions than slots it is never full.
The code has 3 partitions for 26 or 16 slots; `FdasdAssumption` says so.

`CpuPlugdProofs`: the inductive invariant has the types, the ghosts that keep what
an administrator did (`GhostsOK`), that the flags set by `check_config` are those
of the limits it has seen (`ConfigInv`), the limits (`LimitInv`), the ring of readings
(`RingInv`: the slot that a rule computes from `history_current`, its depth and n is
the slot that was filled n readings ago, modulo the depth), that a rule which is not
kept asks for no more than the depth (`KeptInv`), and what was found at the start
(`StartInv`). From it follow `LimitsHold`, `RingExact`, `StateRestored`,
and the action property `StaleSnapshot`.

`IucvTermProofs`: the messages in a socket are pieces with a length that the reader
takes apart with buffers of its own size. `QueueInv` says of both sockets that what
a side still expects is what is left of the message it has begun; `PlaceInv` ties
positions to the state of the child and the sockets; `HelloInv` is the handshake;
`DataInv` says that what was sent is what arrived, what is in the socket and what
is held, in this order; `FailInv` follows a failure of the child to the screen.
`SocketsExact` and `FailuresShown` follow, and `PipesImplemented`: every step is in
each direction a step of `BytePipe` or leaves its variables alone. The bytes of a
queue of messages are a fold in the model, and the proof describes it by its runs.

`HmcDriveProofs`: `StepInv`, which is `InStep` and that both places are a command
with a position, is inductive. A transfer that fails at any of its calls leaves
no command that could be taken for the one of the device (`FailureForgets`); one
that succeeds leaves device and program at the same place (`SuccessAgrees`), and
all other steps leave both alone. `AgeInv` bounds the age of every entry by its
time and the distance of the aging thread's hand (`CacheAlways`); `OpInv` and
`ScanInv` say what the request in progress has seen of the listing, piece by piece,
and give the two action properties `FindsFiles` and `ShowsFiles`. It holds for any
DVDs, paths and table sizes; `TreeAssumption` says that the names on a DVD are a
tree, that is, that every path has a parent closer to the root.

`CpacfstatsProofs`: `FilesInv` for any number of daemons, each of which can be
killed at any step. The inductive invariant ties the pid file to the position of
each daemon (`PidInv`: a daemon that has filled it and not yet removed it finds its
own pid there; while one probes it, the file is still what it has read), the
socket file to the one that serves (`SockInv`), and says that at most one daemon is
past the check (`AloneInv`). The last part rests on the assumption in `Start` and
`Term` that nobody starts a daemon while another one starts or ends; without it
the observations below apply. `EndInv` adds who ended last and how, which gives
`StoppedClean`. `ReqInv` is about the requests: `StateExact` (the state of a counter
tells where it counts: on all CPUs or on none, but for those on which its last
change failed; inductive because a counter is only ever switched when its state says
the opposite), `OnceInv` (a client waits for one daemon or is served by
one) and `AnswerInv` (a client has no answers before it is served, and then those
for all counters that the loop has passed), and gives `RequestsExact`.

`CmsfsProofs`: the inductive invariant, `Good` of `CmsfsInvariant`, says of the whole
state as one record what the properties say of its parts, and more of it, so that
it can be followed through an operation. The properties speak of walks through
the directory; `DirOK` says instead which slots the entries are in, and the walk
finds them there (`WalkedIs`). `BlocksExact` says what the map is, `Owned` keeps it in
a form in which a change of one entry shows (`Owners`, `RepointFacts`). The operations break parts
of `Good` on the way and mend them: a delete leaves a hole at the end of the directory
before it gives the block back, a create adds a block before there is an entry in it.
What holds all the time is `DiskOK`, and the lemmas follow one call after the other:
`LookedUpFacts`, `WrittenFacts`, `ShrunkFacts`, `OpenedFacts`, `DeletedFacts`, `RenamedFacts`.
The allocator is described once (`TakeFacts`: the first free block from the hint on
is free, on the disk, and all below it are used; `GiveFacts`), and pointer trees only
by the number of their blocks. All four invariants need both habits, `"alone"` and
`"fresh"`: without the first `CmsfsMoved` is a counterexample to `ObjectExact`, without
the second a rename to the same name is one to `BlocksExact`. Disk, names and the
number of operations are arbitrary, but `CmsfsAssumption` keeps files and directory to
trees of two levels, `Ptrs`^2 blocks (at least 1764, on a disk with blocks of 512
bytes): `PtrBlocks` is what the code writes only up to there.

`BugExplained` is the action property `BugOnlyOnFullDisk`: no assertion of the code
fails before the disk is full or a reservation is left over. It needs to know that
the directory has the pointer blocks that its length asks for (`Sized`), as they are
given back and taken again when a block goes (`RelistFacts`), and an account of
what a write takes against what `reserve_meta_blocks` has set aside. For trees of up
to two levels the reservation is exactly the difference of the old and the new tree
(`ReserveExact`); a write that begins with a free block and ends early still finds
the blocks of the tree for what it has written (`ReserveBound`, `WriteRoom`); and a
directory that grows by a block needs at most a block on each level and one more for
a new level (`GrowBound`), which is what `cmsfs_create` asks for. Every operation is `Safe`: it
keeps `Sized`, and on a disk that is not full it ends without a failed assertion.
Its hypothesis (`Narrow`) is where the property is true: writes of at most `Ptrs`
blocks. (With a third level, which `CmsfsAssumption` excludes, the reservation would be
too small as well.) That is the normal case: FUSE hands over 4096 bytes at a time,
which are at most 8 blocks, or 24 with the headers of one-byte records, and a
block has at least 42 pointers. The observations have what happens otherwise.

Induction over data is written with sets: `Induct` says that a set of
numbers with 0 that is closed under +1 has all of them, and a recursive function
is used only after a lemma has shown that it exists. The lemmas on numbers, sets and
sequences stand at the head of each module that uses them.

Only model-checked: liveness (`Termination`, `NoHang`, `GrowsUnderLoad`,
`EndsTogether`, `ClientEnds`), which needs fairness and is out of the prover's
reach; and `CompleteDump` and `Accounting` of `DumpTask` with `--file-timeout`,
where they do not hold.

## Observations without a run

dump2tar:

* A file timeout that strikes when the read has just ended (`dump.c:1414`): the
  mutex is released between the decision and the cancelation, and the file can
  be in the archive twice, or torn and once more. A file timeout can also hit the
  file that was started after the one that was late (`dump.c:1528`).
* Entries are added after `--max-size` was exceeded: `aborted` is looked at when a
  job is taken or read, not before an entry is written (`dump.c:640`).
* An abort before a thread's first `readlink` makes `read_symlink` write through
  NULL (`dump.c:695`); if a link fills the memory exactly and the task is aborted
  just then, it writes behind the memory. A link whose `readlink` was canceled
  gets its target from whatever is in the memory of the thread (`dump.c:621`).
* `--timeout` does not end a dump whose output is not taken.
* `emit_content` ignores that the temporary file failed (`tar.c:225`): the entry is
  shorter than announced and the stream is not aligned. A file timeout after a
  short `write` in `buffer_flush` leaves data counted that is in the file already
  (`buffer.c:118`). `set_octal` keeps the low 33 bits of a size (`tar.c:49`).
* `--timeout` while a file is read: the worker is canceled and cleaned up, and
  the file gets no entry and no count, while the manual page says files are
  truncated (`dump.c:1606`).
* `--jobs-per-cpu N` starts one thread for each CPU whatever `N` is
  (`dump.c:1823`).
* When a thread cannot be created after others were, `wait_for_completion` is
  skipped, and with it the only call of `_worker_wakeup_all` on this way
  (`dump.c:1586`); no abort is set either. With three or more threads one of them may
  have the job and another one sleep in `_worker_wait` with cancelation disabled:
  it is canceled, joined, and never woken, and dump2tar hangs (`dump.c:1604`).
  `NoHang` has this as its exception, `LeftAsleep`.
* A thread that was never created, because creating one before it failed, is
  joined (`dump.c:1604`). In the single-threaded mode an abort leaves the current
  job unreleased.
* A job that is timed out after `account_stats` is accounted again by the
  restarted thread. If the output cannot be opened, the first job is counted as a
  failed file.
* The child process of a command survives the cancelation of its reader.
* "Create empty entries for failed reads" (`dump.c:595`): the entry is not empty
  but has what was read before the failure.

fdasd:

* `fdasd_remove_partition` takes the position of a partition for its data set
  number (`fdasd.c:2775`). If they differ, because a partition was put in front of
  another one, the map keeps an entry of the deleted partition and loses one of
  another; at the write a partition keeps the name `PART.NEW`, two get the same
  name, or the loop runs past the end of `partno` (the model's `WriteTorn`).
* The labels are written one by one (`fdasd.c:1277`); a program that ends in
  between leaves a table in part old and in part new, and there is no recovery.

cpuplugd:

* `check_config` can end the daemon before `cmm_pagesize_start` was read
  (`config.c:312`): `clean_up` then sets the balloon to 0. After a reload that makes
  CPU rules start, the number to restore is that of the reload.
* A SIGHUP during `reload_daemon` is forgotten (`main.c:447`). `reload_daemon` clears
  `varinfo` with its first newline, so that the first variable is not found any
  more and the daemon ends (`daemon.c:141`). Settings that the new file does not
  have keep their old values.
* Rules are kept the same way, but the depth of the history is not: a reload sets it
  to 1 (`daemon.c:142`) and only the rules of the new file raise it (`terms.c:355`). A
  kept rule that asks for an older interval then reads another slot than it means
  or outside of the ring (`terms.c:422`), and may end the daemon.
* `clean_up` removes the pid and lock files before it restores the CPUs: a daemon
  started in between takes the state of the old one for the initial one
  (`daemon.c:93`).
* A term without history index, which the manual page allows, has an
  uninitialised one.

iucvterm:

* If the login program ends between the test of `sig_shutdown` and `select`
  (`iucvtty.c:125`), iucvtty waits on, until the user types something; output that
  was not read when SIGCHLD arrives is dropped.
* A change of the window between `iucvtty_tx_winsize` and the reset of `resize_tty`
  is forgotten (`iucvconn.c:161`).
* Both loops write with blocking calls: with a full pty in both directions
  iucvtty and the login program wait for each other (`functions.c:46`).
* A `TERM` of 256 characters or more is not terminated.

cmsfs-fuse:

* On a full disk an assertion fails when a file needs another pointer level;
  blocks reserved for a write that ends with ENOSPC stay reserved until the
  remount.
* The comment of `reserve_meta_blocks` (`cmsfs-fuse.c:3921`) says that blocks for
  pointers are there when the disk runs full. For a third level they may not be: the
  recursion passes the new number of entries where it should pass the
  number of additional ones, and divides it once more, so that a file of a variable
  format on a disk with blocks of 512 bytes has a block too few reserved when it
  grows beyond 3528 blocks.
* A write of more blocks than a pointer block has pointers can end in a failed
  assertion with a block still free: the reservation is for all of the data, less
  of it fits, and what is reserved cannot be taken for the tree of what is written.
  TLC finds it with `MaxWrite` 7, three pointers in a block, one name and six blocks.
  FUSE writes are smaller, unless the daemon is started with `-o big_writes`; in text
  mode a line is kept until its end and may have 65535 bytes, 128 blocks of 512.
* `update_levels` rounds down (`cmsfs-fuse.c:3083`): with `Ptrs`^2 + 1 to
  `Ptrs`^2 + `Ptrs` - 1 blocks the file gets two levels, whose pointers end before the
  last blocks: these are not reached any more, and lost to the disk with their
  contents. 1765 blocks of 512 bytes are enough for it. `CmsfsAssumption` keeps
  the model below.
* `truncate` does not reset the write position (`cmsfs-fuse.c:3512`).
* A rename to the same name in another case deletes the file and writes its entry
  to offset 0 of the disk (`cmsfs-fuse.c:2828`); a rename onto the name of a file
  that was deleted while open gives two entries; a rename over an open file frees
  its blocks.

hmcdrvfs:

* Each lookup restarts the time of an entry, so that one that is polled is not
  read again after the DVD was exchanged.
* An I/O error in the scan of a parent directory is reported as "not found". A
  last line without newline is dropped.
* The string given to `putenv` is freed. At the end the aging thread is canceled
  but not joined, and a mutex it may hold is destroyed.

cpacfstats:

* Daemons that start or end at the same time: both can find the same leftover pid
  file, an empty one that is about to be filled is taken for a leftover, and the
  `remove_sock` of `atexit` removes the socket of a daemon started meanwhile.
* A client that is interrupted while it waits ends the daemon with SIGPIPE, which
  nobody ignores; the pid and socket files are left.
* A counter that was switched on on some CPUs only is reported as disabled and
  cannot be switched off; one that was switched off on some only is reported as
  enabled, and enabling it again succeeds without switching these on. If the socket or the counters cannot be opened the pid
  file is left. In the foreground no pid file is made.

## Plan

Done: the seven programs above, with three refinements (`TarArchive`,
`PartitionTable`, `BytePipe`), and the proofs of the section above, which have the
safety properties of all seven programs. Next, in this order:

1. dump2tar: link targets and their lengths in `DataBuffer`; the single-threaded
   `process_queue` as a second specification over the same job operations.
2. cmsfs-fuse: text mode with its write cache; iucvterm: `ttyrun`.
3. vmur receive and purge, zdev configuration steps.

## Not modelled

Most of the repository is front ends of device drivers, display programs and
converters of on-disk formats (zipl, zgetdump, ziomon, hyptop, dasdfmt, dasdview
and tunedasd, zds access, ipl_tools, osasnmpd, the qeth tools, tape390, mon_tools,
the vm tools), and scripts. Their difficulty is in layouts, parsing and ioctls,
one thread and one pass, not in sequences of events: a model would repeat the
layout without anything to check it against. zdev and vmur are sequential too, and
what they depend on (sysfs, the control program) is not in the repository.

Of the modelled programs are left out: option parsing, path names, the cache of
user names and printing of dump2tar; the Linux disk layout of fdasd; the parser
and the arithmetic of the rules of cpuplugd; `ttyrun`, the audit log and access
lists of iucvterm; text mode, records, null blocks and dates of cmsfs-fuse; the
fields of listing lines of hmcdrvfs; counter values and the foreground mode of
cpacfstatsd.
