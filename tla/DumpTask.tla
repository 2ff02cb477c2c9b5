------------------------------ MODULE DumpTask ------------------------------
(***************************************************************************)
(* The job engine of dump2tar (dump2tar/src/dump.c, dref.c) when it runs   *)
(* with --jobs, --jobs-per-cpu or a timeout: worker threads take jobs from *)
(* one queue, read the entries, and write them to one archive, while the   *)
(* main thread supervises deadlines, cancels and restarts workers, and     *)
(* finally reaps them.                                                     *)
(*                                                                         *)
(* A job is identified with the archive entry it is for; InitJob is the    *)
(* first job, which opens the output and queues one job per command line   *)
(* specification.  A section under task->mutex is one step; what happens   *)
(* between two such sections is split wherever another thread can see a    *)
(* difference, and wherever the thread can be canceled.                    *)
(***************************************************************************)
EXTENDS Integers, Sequences, FiniteSets, Functions

CONSTANTS Threads,    \* the workers (--jobs)
          NoThread,   \* nobody holds the output mutex, no deadline is armed
          Tool,       \* marks the deadline of --timeout
          Entries,    \* whatever may become an entry of the archive
          InitJob,    \* the job of type JOB_INIT
          NoJob,      \* the NULL job pointer
          Kind,       \* Entries -> type of job that stat() leads to
          Parent,     \* Entries -> directory it is found in, or InitJob
          Opts,       \* struct dump_opts, as far as the engine reads it
          Faults      \* what may go wrong in the environment

Jobs == Entries \cup {InitJob}

Kinds == {"file", "link", "dir", "cmd"}

Dirs == {e \in Entries : Kind[e] = "dir"}

FaultKinds == {"stat", "read", "hang", "opendir", "open", "write", "stall",
               "create"}

ASSUME ThreadsAssumption == /\ NoThread \notin Threads
                            /\ Tool \notin Threads
                            /\ NoThread # Tool

ASSUME EntriesAssumption == /\ NoJob \notin Entries
                            /\ InitJob \notin Entries
                            /\ NoJob # InitJob

ASSUME KindAssumption == Kind \in [Entries -> Kinds]

ASSUME ParentAssumption == Parent \in [Entries -> Dirs \cup {InitJob}]

\* max_size counts whole entries; 0 means that there is no limit
ASSUME OptsAssumption ==
  Opts \in [ignore_failed_read : BOOLEAN, file_timeout : BOOLEAN,
            timeout : BOOLEAN, recursive : BOOLEAN, add_cmd_status : BOOLEAN,
            no_eof : BOOLEAN, max_size : Nat,
            exclude : SUBSET Entries, exclude_type : SUBSET Kinds]

ASSUME FaultsAssumption == Faults \subseteq FaultKinds

VARIABLES
  \* struct task
  queue,      \* jobs_head and what hangs off it
  tail,       \* jobs_tail
  numActive,  \* num_jobs_active
  aborted,
  outLock,    \* owner of output_mutex
  outWritten, \* output_written, in whole entries
  numFiles,   \* output_num_files
  stats,      \* the sum of task->stats and of every thread->stats
  \* struct job and struct dref
  status,     \* job->status; "none" before create_job
  alive,      \* jobs that are allocated
  dref,       \* reference count of the open handle of a directory
  \* struct per_thread and the position of each worker in its code
  pc, job, running, timedOut, canceled, hasBuf,
  left,       \* names a directory scan or the specification loop has left
  list,       \* jobs chained between first and last in queue_dir
  \* the main thread
  mpc, todo, rc,
  target,     \* thread or tool deadline waited for, thread to cancel and join
  armed,      \* job whose deadline is waited for (deadline_ts)
  tjob,       \* job of the thread that _timeout_thread deals with
  \* the archive, as a reader of the file sees it
  written,    \* how often an entry was written completely
  torn,       \* entries that stop in the middle
  eof         \* end-of-file marker is there

queueVars  == <<queue, tail, numActive>>
fileVars   == <<outWritten, numFiles, written, torn, eof>>
jobVars    == <<status, alive, dref>>
threadVars == <<job, running, timedOut, canceled, hasBuf, left, list>>
mainVars   == <<todo, target, armed, tjob, rc>>
vars       == <<queueVars, aborted, outLock, fileVars, jobVars, pc, threadVars,
                mpc, mainVars, stats>>

-----------------------------------------------------------------------------
(* Job states, types and the options that select them.                     *)

Final == {"done", "partial", "excluded", "failed"}

Statuses == Final \cup {"none", "queued", "in_progress", "statfail", "typeexcl"}

Counters == {"done", "partial", "excluded", "failed"}

IsCmd(j) == j \in Entries /\ Kind[j] = "cmd"

\* is_job_excluded: JOB_INIT and JOB_CMD are never matched with the patterns
JobExcluded(j) == j \in Opts.exclude /\ ~IsCmd(j)

\* is_type_excluded, reached in create_job for whatever was stat()ed
TypeExcluded(e) == Kind[e] \in Opts.exclude_type /\ ~IsCmd(e)

\* start_thread_job sets a deadline for every job but JOB_INIT
Timed(j) == Opts.file_timeout /\ j \in Entries

\* Names found in directory j, or the specifications if j is InitJob
Kids(j) == {e \in Entries : Parent[e] = j}

\* A job for a non-directory found by a scan keeps its directory open
HoldsDref(j) == j \in Entries /\ Kind[j] # "dir" /\ Parent[j] \in Dirs

\* _write_job_data writes an entry for these jobs
Writes(j) ==
  /\ j \in Entries
  /\ \/ status[j] \in {"done", "partial"}
     \/ status[j] = "failed" /\ Opts.ignore_failed_read

InitDone(j) == j = InitJob /\ status[j] = "done"

-----------------------------------------------------------------------------
(* Condition variables: waking threads up means letting them look again.   *)

\* Fault: a broadcast that reaches nobody
WakeNobody(p) == p

WakeAll(p) == [t \in Threads |-> IF p[t] = "wait" THEN "get" ELSE p[t]]

MainWoken == IF mpc = "waiting" THEN "loop" ELSE mpc

\* _worker_wakeup_one on the workers' positions p: some waiting worker, if any
WakeOne(p) ==
  IF \E t \in Threads : p[t] = "wait"
  THEN {[p EXCEPT ![t] = "get"] : t \in {u \in Threads : p[u] = "wait"}}
  ELSE {p}

\* set_aborted by a worker if c holds, p being the workers' positions after it
AbortIf(c, p) ==
  /\ aborted' = (aborted \/ c)
  /\ pc' = IF c THEN WakeAll(p) ELSE p
  /\ mpc' = IF c THEN MainWoken ELSE mpc

\* read_error
ReadError(p) == AbortIf(~Opts.ignore_failed_read, p)

-----------------------------------------------------------------------------
(* Helpers for jobs, handles and statistics.                               *)

\* Fault: the count of the handle is not raised
DrefGetMissing(j) == dref

\* dref_get and dref_put on behalf of job j
DrefGet(j) ==
  IF HoldsDref(j) THEN [dref EXCEPT ![Parent[j]] = @ + 1] ELSE dref

DrefPut(j) ==
  IF HoldsDref(j) THEN [dref EXCEPT ![Parent[j]] = @ - 1] ELSE dref

\* Fault: the memory and the reference are leaked
FreeJobMissing(j) == UNCHANGED <<alive, dref>>

\* free_job: the job and its reference to the directory handle (dref_put)
FreeJob(j) ==
  /\ alive' = alive \ {j}
  /\ dref' = DrefPut(j)

\* Fault: a failed job is counted as done as well (a missing break)
CountedFallThrough(j, n) ==
  IF j \in Entries /\ (status[j] = n \/ (n = "done" /\ status[j] = "failed"))
  THEN 1 ELSE 0

\* What account_stats adds to counter n for job j: a partial entry is also a
\* done one, and the status file of a command is counted with it
Counted(j, n) ==
  IF j = InitJob THEN 0
  ELSE IF n = "done"
       THEN IF status[j] \notin {"done", "partial"} THEN 0
            ELSE IF IsCmd(j) /\ Opts.add_cmd_status THEN 2 ELSE 1
       ELSE IF status[j] = n THEN 1 ELSE 0

\* account_stats for job j
Account(j) == [n \in Counters |-> stats[n] + Counted(j, n)]

\* Size limit exceeded, as _write_job_data finds it after an entry
TooLarge == Opts.max_size > 0 /\ outWritten > Opts.max_size

\* The output mutex can be taken
OutFree == outLock = NoThread

\* Fault: cleanup_unlock not registered
StaysLocked(t) == outLock

\* Its owner after thread t is canceled: cleanup_unlock
UnlockedBy(t) == IF outLock = t THEN NoThread ELSE outLock

\* Fault: worker_thread_main does not look at timed_out
AlwaysMine(t) == TRUE

\* The job is still the worker's own: the main thread did not time it out
StillMine(t) == ~timedOut[t]

\* Worker t leaves worker_thread_main (label out)
Exits(t) ==
  /\ running' = [running EXCEPT ![t] = FALSE]
  /\ pc' = [pc EXCEPT ![t] = "dead"]
  /\ mpc' = MainWoken

-----------------------------------------------------------------------------
(* init_task and init_queue: the first job is queued before any thread is  *)
(* started.                                                                *)

Init ==
  /\ queue = <<InitJob>> /\ tail = InitJob /\ numActive = 1 /\ aborted = FALSE
  /\ outLock = NoThread /\ outWritten = 0 /\ numFiles = 0
  /\ stats = [n \in Counters |-> 0]
  /\ status = [j \in Jobs |-> IF j = InitJob THEN "queued" ELSE "none"]
  /\ alive = {InitJob}
  /\ dref = [d \in Dirs |-> 0]
  /\ pc = [t \in Threads |-> "none"]
  /\ job = [t \in Threads |-> NoJob]
  /\ running = [t \in Threads |-> FALSE]
  /\ timedOut = [t \in Threads |-> FALSE]
  /\ canceled = [t \in Threads |-> FALSE]
  /\ hasBuf = [t \in Threads |-> FALSE]
  /\ left = [t \in Threads |-> {}]
  /\ list = [t \in Threads |-> << >>]
  /\ mpc = "start" /\ todo = Threads /\ target = NoThread /\ armed = NoJob
  /\ tjob = NoJob
  /\ rc = 0
  /\ written = [e \in Entries |-> 0] /\ torn = 0 /\ eof = FALSE

-----------------------------------------------------------------------------
(* Worker threads.                                                         *)

\* worker_thread_main: a restarted thread first handles the job left over
WBegin(t) ==
  /\ pc[t] = "begin"
  /\ pc' = [pc EXCEPT ![t] = IF job[t] # NoJob THEN "post" ELSE "get"]
  /\ UNCHANGED <<queueVars, aborted, outLock, fileVars, jobVars, threadVars,
                 mpc, mainVars, stats>>

\* _get_next_job finds a job: _dequeue_job and start_thread_job
WDequeue(t) ==
  /\ pc[t] = "get" /\ ~aborted /\ queue # << >>
  /\ LET j == Head(queue) IN
       /\ queue' = Tail(queue)
       /\ tail' = IF j = tail THEN NoJob ELSE tail
       /\ status' = [status EXCEPT ![j] = "in_progress"]
       /\ job' = [job EXCEPT ![t] = j]
       /\ mpc' = IF Timed(j) THEN MainWoken ELSE mpc
  /\ pc' = [pc EXCEPT ![t] = "proc"]
  /\ UNCHANGED <<numActive, aborted, outLock, fileVars, alive, dref, running,
                 timedOut, canceled, hasBuf, left, list, mainVars, stats>>

\* _get_next_job returns NULL: aborted, or nothing is queued or in progress
WLeave(t) ==
  /\ pc[t] = "get"
  /\ aborted \/ (queue = << >> /\ numActive = 0)
  /\ Exits(t)
  /\ UNCHANGED <<queueVars, aborted, outLock, fileVars, jobVars, job,
                 timedOut, canceled, hasBuf, left, list, mainVars, stats>>

\* _get_next_job: jobs are in progress elsewhere and may queue more
WWait(t) ==
  /\ pc[t] = "get" /\ ~aborted /\ queue = << >> /\ numActive # 0
  /\ pc' = [pc EXCEPT ![t] = "wait"]
  /\ UNCHANGED <<queueVars, aborted, outLock, fileVars, jobVars, threadVars,
                 mpc, mainVars, stats>>

\* pthread_cond_wait may return without a signal
WSpurious(t) ==
  /\ pc[t] = "wait"
  /\ pc' = [pc EXCEPT ![t] = "get"]
  /\ UNCHANGED <<queueVars, aborted, outLock, fileVars, jobVars, threadVars,
                 mpc, mainVars, stats>>

\* process_job: an exclude pattern matches
WExclude(t) ==
  /\ pc[t] = "proc" /\ JobExcluded(job[t])
  /\ status' = [status EXCEPT ![job[t]] = "excluded"]
  /\ pc' = [pc EXCEPT ![t] = "post"]
  /\ UNCHANGED <<queueVars, aborted, outLock, fileVars, alive, dref,
                 threadVars, mpc, mainVars, stats>>

\* process_job: with --no-recursion there is nothing to read for a directory
WNoRecursion(t) ==
  /\ pc[t] = "proc" /\ ~JobExcluded(job[t])
  /\ job[t] \in Dirs /\ ~Opts.recursive
  /\ status' = [status EXCEPT ![job[t]] = "done"]
  /\ pc' = [pc EXCEPT ![t] = "post"]
  /\ UNCHANGED <<queueVars, aborted, outLock, fileVars, alive, dref,
                 threadVars, mpc, mainVars, stats>>

\* What process_job has to do for job j
WorkFor(j) == IF j = InitJob THEN "open"
              ELSE IF j \in Dirs THEN "opendir" ELSE "read"

\* process_job: the switch over the type of the job
WProc(t) ==
  /\ pc[t] = "proc" /\ ~JobExcluded(job[t])
  /\ job[t] \in Dirs => Opts.recursive
  /\ pc' = [pc EXCEPT ![t] = WorkFor(job[t])]
  /\ UNCHANGED <<queueVars, aborted, outLock, fileVars, jobVars, threadVars,
                 mpc, mainVars, stats>>

\* JOB_INIT: open_output succeeds and the specifications are to be queued
WOpen(t) ==
  /\ pc[t] = "open"
  /\ pc' = [pc EXCEPT ![t] = "specs"]
  /\ left' = [left EXCEPT ![t] = Kids(InitJob)]
  /\ UNCHANGED <<queueVars, aborted, outLock, fileVars, jobVars, job, running,
                 timedOut, canceled, hasBuf, list, mpc, mainVars, stats>>

\* JOB_INIT: open_output fails
WOpenFails(t) ==
  /\ pc[t] = "open" /\ "open" \in Faults
  /\ status' = [status EXCEPT ![job[t]] = "failed"]
  /\ AbortIf(TRUE, [pc EXCEPT ![t] = "post"])
  /\ UNCHANGED <<queueVars, outLock, fileVars, alive, dref, threadVars,
                 mainVars, stats>>

\* create_job makes a job for e; next is the position of t after it
CreateJob(t, e, next) ==
  /\ ~TypeExcluded(e)
  /\ status' = [status EXCEPT ![e] = "queued"]
  /\ alive' = alive \cup {e}
  /\ dref' = DrefGet(e)
  /\ list' = [list EXCEPT ![t] = Append(@, e)]
  /\ pc' = [pc EXCEPT ![t] = next]
  /\ UNCHANGED <<aborted, mpc, stats>>

\* create_job returns NULL as stat() fails (a command is not stat()ed)
StatFails(t, e) ==
  /\ "stat" \in Faults /\ ~IsCmd(e)
  /\ status' = [status EXCEPT ![e] = "statfail"]
  /\ stats' = [stats EXCEPT !["failed"] = @ + 1]
  /\ ReadError(pc)
  /\ UNCHANGED <<alive, dref, list>>

\* create_job returns NULL as the file type is excluded
SkipType(t, e) ==
  /\ TypeExcluded(e)
  /\ status' = [status EXCEPT ![e] = "typeexcl"]
  /\ stats' = [stats EXCEPT !["excluded"] = @ + 1]
  /\ UNCHANGED <<aborted, alive, dref, pc, list, mpc>>

\* queue_jobs_from_opts: next specification, in the order of the command line
WSpec(t) ==
  /\ pc[t] = "specs" /\ ~aborted
  /\ \E e \in left[t] :
       /\ left' = [left EXCEPT ![t] = @ \ {e}]
       /\ CreateJob(t, e, "enqueue") \/ StatFails(t, e) \/ SkipType(t, e)
  /\ UNCHANGED <<queueVars, outLock, fileVars, job, running, timedOut,
                 canceled, hasBuf, mainVars>>

\* _queue_job_tail: what the list is after j is put at its end
TailInsert(j) == IF tail # NoJob THEN Append(queue, j) ELSE <<j>>

\* queue_job for a specification
WEnqueue(t) ==
  /\ pc[t] = "enqueue"
  /\ LET j == Head(list[t]) IN queue' = TailInsert(j) /\ tail' = j
  /\ numActive' = numActive + 1
  /\ list' = [list EXCEPT ![t] = << >>]
  /\ pc' \in WakeOne([pc EXCEPT ![t] = "specs"])
  /\ UNCHANGED <<aborted, outLock, fileVars, jobVars, job, running, timedOut,
                 canceled, hasBuf, left, mpc, mainVars, stats>>

\* End of queue_jobs_from_opts and of process_job for JOB_INIT
WSpecsDone(t) ==
  /\ pc[t] = "specs" /\ (left[t] = {} \/ aborted)
  /\ left' = [left EXCEPT ![t] = {}]
  /\ status' = [status EXCEPT ![job[t]] = "done"]
  /\ pc' = [pc EXCEPT ![t] = "post"]
  /\ UNCHANGED <<queueVars, aborted, outLock, fileVars, alive, dref, job,
                 running, timedOut, canceled, hasBuf, list, mpc, mainVars,
                 stats>>

\* queue_dir: dref_create succeeds
WOpendir(t) ==
  /\ pc[t] = "opendir"
  /\ pc' = [pc EXCEPT ![t] = "readdir"]
  /\ dref' = [dref EXCEPT ![job[t]] = 1]
  /\ left' = [left EXCEPT ![t] = Kids(job[t])]
  /\ UNCHANGED <<queueVars, aborted, outLock, fileVars, status, alive, job,
                 running, timedOut, canceled, hasBuf, list, mpc, mainVars,
                 stats>>

\* queue_dir: opendir fails; process_job still reports JOB_DONE
WOpendirFails(t) ==
  /\ pc[t] = "opendir" /\ "opendir" \in Faults
  /\ status' = [status EXCEPT ![job[t]] = "done"]
  /\ ReadError([pc EXCEPT ![t] = "post"])
  /\ UNCHANGED <<queueVars, outLock, fileVars, alive, dref, threadVars,
                 mainVars, stats>>

\* queue_dir: one more name, in the order in which readdir returns them
WReaddir(t) ==
  /\ pc[t] = "readdir"
  /\ \E e \in left[t] :
       /\ left' = [left EXCEPT ![t] = @ \ {e}]
       /\ CreateJob(t, e, "readdir") \/ StatFails(t, e) \/ SkipType(t, e)
  /\ UNCHANGED <<queueVars, outLock, fileVars, job, running, timedOut,
                 canceled, hasBuf, mainVars>>

\* queue_jobs: what the list is after the chain l is put at its start
HeadInsert(l) == l \o queue

\* queue_dir: queue_jobs unless no job was created, then dref_put
WQueueJobs(t) ==
  /\ pc[t] = "readdir" /\ left[t] = {}
  /\ queue' = HeadInsert(list[t])
  /\ numActive' = numActive + Len(list[t])
  /\ list' = [list EXCEPT ![t] = << >>]
  /\ dref' = [dref EXCEPT ![job[t]] = @ - 1]
  /\ status' = [status EXCEPT ![job[t]] = "done"]
  /\ LET p == [pc EXCEPT ![t] = "post"] IN
       pc' = IF list[t] # << >> THEN WakeAll(p) ELSE p
  /\ UNCHANGED <<tail, aborted, outLock, fileVars, alive, job, running,
                 timedOut, canceled, hasBuf, left, mpc, mainVars, stats>>

\* read_regular, read_symlink or read_cmd_output reach the end of the data
WRead(t) ==
  /\ pc[t] = "read" /\ ~aborted
  /\ status' = [status EXCEPT ![job[t]] = "done"]
  /\ hasBuf' = [hasBuf EXCEPT ![t] = TRUE]
  /\ pc' = [pc EXCEPT ![t] = "post"]
  /\ UNCHANGED <<queueVars, aborted, outLock, fileVars, alive, dref, job,
                 running, timedOut, canceled, left, list, mpc, mainVars,
                 stats>>

\* They meet an error, in open() or later
WReadFails(t) ==
  /\ pc[t] = "read" /\ "read" \in Faults
  /\ status' = [status EXCEPT ![job[t]] = "failed"]
  /\ \E b \in {hasBuf[t] \/ Kind[job[t]] = "link", TRUE} :
       hasBuf' = [hasBuf EXCEPT ![t] = b]
  /\ ReadError([pc EXCEPT ![t] = "post"])
  /\ UNCHANGED <<queueVars, outLock, fileVars, alive, dref, job, running,
                 timedOut, canceled, left, list, mainVars, stats>>

\* They find the task aborted, before the first read or after some data.
\* read_symlink then ends its result with a NUL byte: with no buffer, a crash
WReadAborted(t) ==
  /\ pc[t] = "read" /\ aborted
  /\ \E b \in {hasBuf[t], TRUE} :
       /\ hasBuf' = [hasBuf EXCEPT ![t] = b]
       /\ mpc' = IF Kind[job[t]] = "link" /\ ~b THEN "crashed" ELSE mpc
  /\ status' = [status EXCEPT ![job[t]] = "failed"]
  /\ pc' = [pc EXCEPT ![t] = "post"]
  /\ UNCHANGED <<queueVars, aborted, outLock, fileVars, alive, dref, job,
                 running, timedOut, canceled, left, list, mainVars, stats>>

\* postprocess_job: account_stats, then output_lock
WPost(t) ==
  /\ pc[t] = "post" /\ OutFree
  /\ outLock' = t
  /\ stats' = Account(job[t])
  /\ pc' = [pc EXCEPT ![t] = "write"]
  /\ UNCHANGED <<queueVars, aborted, fileVars, jobVars, threadVars, mpc,
                 mainVars>>

\* _write_job_data starts an entry; JOB_INIT only gets to the size check
WEmitBegin(t) ==
  /\ pc[t] = "write" /\ (Writes(job[t]) \/ InitDone(job[t]))
  /\ pc' = [pc EXCEPT ![t] = IF InitDone(job[t]) THEN "check" ELSE "emit"]
  /\ UNCHANGED <<queueVars, aborted, outLock, fileVars, jobVars, threadVars,
                 mpc, mainVars, stats>>

\* _write_job_data returns as there is nothing to write for this job
WSkip(t) ==
  /\ pc[t] = "write" /\ ~Writes(job[t]) /\ ~InitDone(job[t])
  /\ outLock' = NoThread
  /\ pc' = [pc EXCEPT ![t] = "fin"]
  /\ UNCHANGED <<queueVars, aborted, fileVars, jobVars, threadVars, mpc,
                 mainVars, stats>>

\* Where _write_job_data goes after an entry: the exit status of a command
\* gets an entry of its own
AfterEmit(t) ==
  IF pc[t] = "emit" /\ IsCmd(job[t]) /\ Opts.add_cmd_status THEN "emitstat"
                                                            ELSE "check"

\* tar_emit_file_from_buffer, or write_job_status_file, writes all of it
WEmit(t) ==
  /\ pc[t] \in {"emit", "emitstat"}
  /\ outWritten' = outWritten + 1
  /\ numFiles' = numFiles + 1
  /\ written' = IF pc[t] = "emit" THEN [written EXCEPT ![job[t]] = @ + 1]
                                  ELSE written
  /\ pc' = [pc EXCEPT ![t] = AfterEmit(t)]
  /\ UNCHANGED <<queueVars, aborted, outLock, torn, eof, jobVars, threadVars,
                 mpc, mainVars, stats>>

\* write_output fails in the middle; _write_job_data counts the file anyway
WEmitFails(t) ==
  /\ pc[t] \in {"emit", "emitstat"} /\ "write" \in Faults
  /\ torn' = torn + 1
  /\ numFiles' = numFiles + 1
  /\ AbortIf(TRUE, [pc EXCEPT ![t] = AfterEmit(t)])
  /\ UNCHANGED <<queueVars, outLock, outWritten, written, eof, jobVars,
                 threadVars, mainVars, stats>>

\* _write_job_data: --max-size; then output_unlock
WCheck(t) ==
  /\ pc[t] = "check"
  /\ outLock' = NoThread
  /\ AbortIf(TooLarge, [pc EXCEPT ![t] = "fin"])
  /\ UNCHANGED <<queueVars, fileVars, jobVars, threadVars, mainVars, stats>>

\* worker_thread_main: stop_thread_job and _complete_job
WComplete(t) ==
  /\ pc[t] = "fin" /\ StillMine(t)
  /\ job' = [job EXCEPT ![t] = NoJob]
  /\ numActive' = numActive - 1
  /\ mpc' = IF numActive = 1 THEN MainWoken ELSE mpc
  /\ FreeJob(job[t])
  /\ pc' = [pc EXCEPT ![t] = "get"]
  /\ UNCHANGED <<queue, tail, aborted, outLock, fileVars, status, running,
                 timedOut, canceled, hasBuf, left, list, mainVars, stats>>

\* Fault: a job that was timed out is completed here as well
TimedOutCompletes(t) ==
  /\ pc[t] = "fin" /\ ~StillMine(t)
  /\ numActive' = numActive - 1
  /\ Exits(t)
  /\ UNCHANGED <<queue, tail, aborted, outLock, fileVars, jobVars, job,
                 timedOut, canceled, hasBuf, left, list, mainVars, stats>>

\* worker_thread_main: the main thread timed this job out; a new thread will
\* find it in thread->job
WTimedOut(t) ==
  /\ pc[t] = "fin" /\ ~StillMine(t)
  /\ Exits(t)
  /\ UNCHANGED <<queueVars, aborted, outLock, fileVars, jobVars, job,
                 timedOut, canceled, hasBuf, left, list, mainVars, stats>>

\* Fault: cancel_enable missing in front of the blocking calls that read
CancelableInOutput(t) ==
  \/ pc[t] \in {"emit", "emitstat"}
  \/ pc[t] = "write" /\ Writes(job[t])
  \/ pc[t] = "check" /\ TooLarge

\* Positions at which a canceled thread t stops: cancel_enable ...
\* cancel_disable around blocking calls, and the calls that write the entry
Cancelable(t) ==
  \/ pc[t] \in {"open", "read", "emit", "emitstat"}
  \/ pc[t] = "write" /\ Writes(job[t])
  \/ pc[t] = "check" /\ TooLarge

\* pthread_cancel takes effect; cleanup_unlock releases the output mutex
WCancel(t) ==
  /\ canceled[t] /\ Cancelable(t)
  /\ pc' = [pc EXCEPT ![t] = "dead"]
  /\ outLock' = UnlockedBy(t)
  /\ torn' = IF pc[t] \in {"emit", "emitstat"} THEN torn + 1 ELSE torn
  /\ UNCHANGED <<queueVars, aborted, outWritten, numFiles, written, eof,
                 jobVars, threadVars, mpc, mainVars, stats>>

-----------------------------------------------------------------------------
(* The main thread: process_queue_threaded, wait_for_completion,           *)
(* _timeout_thread and the end of dump_to_tar.                             *)

\* start_worker_thread: pthread_create ...
MCreate ==
  /\ mpc = "start"
  /\ \E t \in todo : /\ pc' = [pc EXCEPT ![t] = "begin"]
                     /\ todo' = todo \ {t}
                     /\ target' = t
  /\ mpc' = "mark"
  /\ UNCHANGED <<queueVars, aborted, outLock, fileVars, jobVars, threadVars,
                 armed, tjob, rc, stats>>

\* ... and, with no lock held and the thread running already, data->running
MMark ==
  /\ mpc = "mark"
  /\ running' = [running EXCEPT ![target] = TRUE]
  /\ mpc' = IF todo = {} THEN "loop" ELSE "start"
  /\ UNCHANGED <<queueVars, aborted, outLock, fileVars, jobVars, pc, job,
                 timedOut, canceled, hasBuf, left, list, mainVars, stats>>

\* pthread_create fails: straight to the cleanup of all threads
MCreateFails ==
  /\ mpc = "start" /\ "create" \in Faults
  /\ rc' = 1
  /\ mpc' = "reap" /\ todo' = Threads
  /\ UNCHANGED <<queueVars, aborted, outLock, fileVars, jobVars, pc,
                 threadVars, target, armed, tjob, stats>>

\* Fault: the deadline of --timeout is overlooked
ThreadDeadlines == {t \in Threads : Timed(job[t])}

\* Deadlines wait_for_completion can find to be the nearest
Deadlines == {t \in Threads : Timed(job[t])}
             \cup (IF Opts.timeout THEN {Tool} ELSE {})

\* Fault: jobs in progress are overlooked
QueueLeft == queue # << >>

\* Jobs are queued or in progress
WorkLeft == numActive > 0

\* wait_for_completion: work is left, wait for a change or for a deadline
MWait ==
  /\ mpc = "loop" /\ ~aborted /\ WorkLeft
  /\ target' \in IF Deadlines = {} THEN {NoThread} ELSE Deadlines
  /\ armed' = IF target' \in Threads THEN job[target'] ELSE NoJob
  /\ mpc' = "waiting"
  /\ UNCHANGED <<queueVars, aborted, outLock, fileVars, jobVars, pc,
                 threadVars, todo, tjob, rc, stats>>

\* wait_for_completion: all done or aborted
MLeave ==
  /\ mpc = "loop" /\ (aborted \/ ~WorkLeft)
  /\ pc' = WakeAll(pc)
  /\ mpc' = "grace"
  /\ UNCHANGED <<queueVars, aborted, outLock, fileVars, jobVars, threadVars,
                 mainVars, stats>>

\* pthread_cond_timedwait may return without a signal
MSpurious ==
  /\ mpc = "waiting"
  /\ mpc' = "loop"
  /\ UNCHANGED <<queueVars, aborted, outLock, fileVars, jobVars, pc,
                 threadVars, mainVars, stats>>

\* The deadline waited for passes: ETIMEDOUT is certain, but the mutex is
\* still to be taken again
MExpire ==
  /\ mpc = "waiting" /\ target # NoThread
  /\ mpc' = "timedout"
  /\ UNCHANGED <<queueVars, aborted, outLock, fileVars, jobVars, pc,
                 threadVars, mainVars, stats>>

\* Global timeout: _SET_ABORTED
MToolTimeout ==
  /\ mpc = "timedout" /\ target = Tool
  /\ aborted' = TRUE
  /\ pc' = WakeAll(pc)
  /\ mpc' = "loop"
  /\ UNCHANGED <<queueVars, outLock, fileVars, jobVars, threadVars, mainVars,
                 stats>>

\* _timeout_thread applies to a thread whose job is not in a final state
MissedDeadline(t) == job[t] # NoJob /\ status[job[t]] \notin Final

\* _timeout_thread returns at once
MTimeoutRaced ==
  /\ mpc = "timedout" /\ target \in Threads /\ ~MissedDeadline(target)
  /\ mpc' = "loop"
  /\ UNCHANGED <<queueVars, aborted, outLock, fileVars, jobVars, pc,
                 threadVars, mainVars, stats>>

\* _timeout_thread marks the thread, then lets go of the mutex ...
MTimeout ==
  /\ mpc = "timedout" /\ target \in Threads /\ MissedDeadline(target)
  /\ timedOut' = [timedOut EXCEPT ![target] = TRUE]
  /\ tjob' = job[target]
  /\ mpc' = "cancel"
  /\ UNCHANGED <<queueVars, aborted, outLock, fileVars, jobVars, pc, job,
                 running, canceled, hasBuf, left, list, todo, target, armed,
                 rc, stats>>

\* ... cancels it ...
MCancel ==
  /\ mpc = "cancel"
  /\ canceled' = [canceled EXCEPT ![target] = TRUE]
  /\ mpc' = "join"
  /\ UNCHANGED <<queueVars, aborted, outLock, fileVars, jobVars, pc, job,
                 running, timedOut, hasBuf, left, list, mainVars, stats>>

\* Faults: the status is overwritten in any case, or set back
InterruptedAlways(s) == "partial"
InterruptedRequeued(s) == IF s \in Final THEN s ELSE "queued"

\* Status a job gets when its thread was stopped
Interrupted(s) == IF s = "in_progress" THEN "partial"
                  ELSE IF s \notin Final THEN "failed" ELSE s

\* ... joins it, and starts a thread that handles the job left over
MRestart ==
  /\ mpc = "join" /\ pc[target] = "dead"
  /\ status' = [status EXCEPT ![tjob] = Interrupted(@)]
  /\ aborted' = (aborted \/ ~Opts.ignore_failed_read)
  /\ LET p == [pc EXCEPT ![target] = "begin"] IN
       pc' = IF Opts.ignore_failed_read THEN p ELSE WakeAll(p)
  /\ timedOut' = [timedOut EXCEPT ![target] = FALSE]
  /\ canceled' = [canceled EXCEPT ![target] = FALSE]
  /\ running' = [running EXCEPT ![target] = TRUE]
  /\ tjob' = NoJob
  /\ mpc' = "loop"
  /\ UNCHANGED <<queueVars, outLock, fileVars, alive, dref, job, hasBuf, left,
                 list, todo, target, armed, rc, stats>>

\* The same, but pthread_create fails
MRestartFails ==
  /\ mpc = "join" /\ pc[target] = "dead" /\ "create" \in Faults
  /\ status' = [status EXCEPT ![tjob] = Interrupted(@)]
  /\ aborted' = TRUE
  /\ pc' = WakeAll([pc EXCEPT ![target] = "joined"])
  /\ timedOut' = [timedOut EXCEPT ![target] = FALSE]
  /\ tjob' = NoJob
  /\ mpc' = "loop"
  /\ UNCHANGED <<queueVars, outLock, fileVars, alive, dref, job, running,
                 canceled, hasBuf, left, list, todo, target, armed, rc,
                 stats>>

\* wait_for_completion: all threads have left, or a quarter second is over
MGrace ==
  /\ mpc = "grace"
  /\ mpc' = "reap" /\ todo' = Threads
  /\ UNCHANGED <<queueVars, aborted, outLock, fileVars, jobVars, pc,
                 threadVars, target, armed, tjob, rc, stats>>

\* process_queue_threaded: cancel a thread that is marked as running ...
MReap ==
  /\ mpc = "reap"
  /\ \E t \in todo :
       /\ canceled' = [canceled EXCEPT ![t] = @ \/ running[t]]
       /\ target' = t
       /\ todo' = todo \ {t}
  /\ mpc' = "reapjoin"
  /\ UNCHANGED <<queueVars, aborted, outLock, fileVars, jobVars, pc, job,
                 running, timedOut, hasBuf, left, list, armed, tjob, rc,
                 stats>>

\* ... join it, and cleanup_thread frees the job it was busy with.  Joining a
\* thread that never was or that was joined before has no defined outcome
MReapJoin ==
  /\ mpc = "reapjoin" /\ pc[target] \in {"dead", "none", "joined"}
  /\ pc' = [pc EXCEPT ![target] = "joined"]
  /\ job' = [job EXCEPT ![target] = NoJob]
  /\ IF job[target] = NoJob THEN UNCHANGED <<alive, dref>>
                            ELSE FreeJob(job[target])
  /\ LET next == IF todo = {} THEN "final" ELSE "reap" IN
       mpc' \in IF pc[target] = "dead" THEN {next} ELSE {next, "crashed"}
  /\ UNCHANGED <<queueVars, aborted, outLock, fileVars, status, running,
                 timedOut, canceled, hasBuf, left, list, mainVars, stats>>

\* dump_to_tar: abort_queued_jobs, one job at a time
MAbortQueued ==
  /\ mpc = "final" /\ queue # << >>
  /\ LET j == Head(queue) IN
       /\ queue' = Tail(queue)
       /\ tail' = IF j = tail THEN NoJob ELSE tail
       /\ status' = [status EXCEPT ![j] = "failed"]
       /\ FreeJob(j)
  /\ numActive' = numActive - 1
  /\ stats' = [stats EXCEPT !["failed"] = @ + 1]
  /\ UNCHANGED <<aborted, outLock, fileVars, pc, threadVars, mpc, mainVars>>

\* dump_to_tar: write_eof, and the exit code
MFinal ==
  /\ mpc = "final" /\ queue = << >>
  /\ LET marker == numFiles > 0 /\ ~Opts.no_eof IN
       \E fails \in IF marker /\ "write" \in Faults THEN BOOLEAN ELSE {FALSE} :
         /\ eof' = (marker /\ ~fails)
         /\ aborted' = (aborted \/ fails)
         /\ rc' = IF rc = 1 \/ aborted \/ fails THEN 1 ELSE 0
  /\ mpc' = "done"
  /\ UNCHANGED <<queueVars, outLock, outWritten, numFiles, written, torn,
                 jobVars, pc, threadVars, todo, target, armed, tjob, stats>>

-----------------------------------------------------------------------------
\* The steps of a worker that always end, those that may block for good, and
\* those nobody may count on
WStep(t) ==
  \/ WBegin(t) \/ WDequeue(t) \/ WLeave(t) \/ WWait(t)
  \/ WExclude(t) \/ WNoRecursion(t) \/ WProc(t)
  \/ WOpen(t) \/ WOpenFails(t) \/ WSpec(t) \/ WEnqueue(t) \/ WSpecsDone(t)
  \/ WOpendir(t) \/ WOpendirFails(t) \/ WReaddir(t) \/ WQueueJobs(t)
  \/ WPost(t) \/ WEmitBegin(t) \/ WSkip(t) \/ WCheck(t)
  \/ WComplete(t) \/ WTimedOut(t) \/ WCancel(t)

WInput(t) == WRead(t) \/ WReadFails(t) \/ WReadAborted(t)

WOutput(t) == WEmit(t) \/ WEmitFails(t)

MStep ==
  \/ MCreate \/ MMark \/ MCreateFails \/ MWait \/ MLeave \/ MToolTimeout
  \/ MTimeoutRaced \/ MTimeout \/ MCancel \/ MRestart \/ MRestartFails
  \/ MGrace \/ MReap \/ MReapJoin \/ MAbortQueued \/ MFinal

Running == mpc # "crashed"

\* The program has ended
Ended == mpc \in {"done", "crashed"} /\ UNCHANGED vars

Next ==
  \/ /\ Running
     /\ \/ MStep \/ MExpire \/ MSpurious
        \/ \E t \in Threads : WStep(t) \/ WInput(t) \/ WOutput(t) \/ WSpurious(t)
  \/ Ended

Spec == Init /\ [][Next]_vars

\* A thread that can go on does; a deadline is a point in time and passes, no
\* matter how often the wait for it is interrupted; reads end unless they may
\* hang, and output is taken unless it may stall
Fairness ==
  /\ WF_vars(Running /\ MStep)
  /\ SF_vars(Running /\ MExpire)
  /\ \A t \in Threads :
       /\ WF_vars(Running /\ WStep(t))
       /\ "hang" \notin Faults => WF_vars(Running /\ WInput(t))
       /\ "stall" \notin Faults => WF_vars(Running /\ WOutput(t))

FairSpec == Spec /\ Fairness

-----------------------------------------------------------------------------
(* Properties.                                                             *)

Writing == {"write", "emit", "emitstat", "check"}

Positions == Writing \cup
  {"none", "begin", "get", "wait", "proc", "open", "specs", "enqueue",
   "opendir", "readdir", "read", "post", "fin", "dead", "joined"}

MainPositions ==
  {"start", "mark", "loop", "waiting", "timedout", "cancel", "join", "grace",
   "reap", "reapjoin", "final", "done", "crashed"}

\* Every variable keeps the type its C counterpart has.
TypeOK ==
  /\ queue \in Seq(Jobs) /\ tail \in Jobs \cup {NoJob}
  /\ numActive \in Int /\ aborted \in BOOLEAN
  /\ outLock \in Threads \cup {NoThread}
  /\ outWritten \in Nat /\ numFiles \in Nat
  /\ stats \in [Counters -> Nat]
  /\ status \in [Jobs -> Statuses] /\ alive \in SUBSET Jobs
  /\ dref \in [Dirs -> Int]
  /\ pc \in [Threads -> Positions] /\ job \in [Threads -> Jobs \cup {NoJob}]
  /\ running \in [Threads -> BOOLEAN] /\ timedOut \in [Threads -> BOOLEAN]
  /\ canceled \in [Threads -> BOOLEAN] /\ hasBuf \in [Threads -> BOOLEAN]
  /\ left \in [Threads -> SUBSET Entries] /\ list \in [Threads -> Seq(Entries)]
  /\ mpc \in MainPositions /\ todo \in SUBSET Threads
  /\ target \in Threads \cup {NoThread, Tool} /\ armed \in Jobs \cup {NoJob}
  /\ tjob \in Jobs \cup {NoJob} /\ rc \in {0, 1}
  /\ written \in [Entries -> Nat] /\ torn \in Nat /\ eof \in BOOLEAN

\* A job has one owner: it is in the queue once, or with one thread, either
\* as its current job or as one it has just created, and whoever has it finds
\* it allocated.  The main thread's pointer to the job it times out is the job
\* its thread still holds: nobody frees it while the mutex is released for the
\* join in _timeout_thread.
UniqueOwner ==
  /\ IsInjective(queue)
  /\ Range(queue) \subseteq alive
  /\ \A t \in Threads :
       /\ job[t] \notin Range(queue)
       /\ job[t] # NoJob => job[t] \in alive
       /\ IsInjective(list[t])
       /\ Range(list[t]) \subseteq alive \ Range(queue)
       /\ \A u \in Threads :
            /\ job[u] \notin Range(list[t])
            /\ u # t => /\ job[t] # NoJob => job[t] # job[u]
                        /\ Range(list[t]) \cap Range(list[u]) = {}
  /\ mpc \in {"cancel", "join"} =>
       tjob # NoJob /\ tjob = job[target]

Processing == {"proc", "open", "specs", "enqueue", "opendir", "readdir", "read"}

Unstarted == {"none", "queued", "statfail", "typeexcl"}

\* An entry becomes a job no more than once: a directory is scanned, and the
\* command line is read, before anything was created from it, and what is left
\* of the scan has not been created either.  A job is in the queue before it
\* is processed, and is processed before it has a result.
CreatedOnce ==
  /\ \A j \in Jobs :
       /\ status[j] \in Unstarted \ {"queued"} => j \notin alive
       /\ status[j] \in Unstarted => \A e \in Kids(j) : status[e] = "none"
  /\ \A j \in Range(queue) : status[j] = "queued"
  /\ \A t \in Threads :
       /\ \A j \in Range(list[t]) : status[j] = "queued"
       /\ job[t] # NoJob => status[job[t]] \notin Unstarted
       /\ pc[t] \in Processing => status[job[t]] = "in_progress"
       /\ pc[t] \in {"proc", "open", "opendir"} =>
            \A e \in Kids(job[t]) : status[e] = "none"
       /\ \A e \in left[t] : status[e] = "none" /\ Parent[e] = job[t]

\* What the position of worker t tells about its variables.
ThreadPositioned(t) ==
  /\ pc[t] \in {"none", "get", "wait"} => job[t] = NoJob
  /\ pc[t] \in Processing \cup Writing \cup {"post", "fin"} => job[t] # NoJob
  /\ pc[t] \in {"open", "specs", "enqueue"} => job[t] = InitJob
  /\ pc[t] \in {"opendir", "readdir"} => job[t] \in Dirs
  /\ pc[t] \in {"read", "emit", "emitstat"} => job[t] \in Entries
  /\ pc[t] \notin {"enqueue", "readdir"} => list[t] = << >>
  /\ pc[t] = "enqueue" => Len(list[t]) = 1
  /\ pc[t] \notin {"specs", "enqueue", "readdir"} => left[t] = {}

\* What the positions of the threads tell about their variables.
Positioned ==
  /\ \A t \in Threads : ThreadPositioned(t)
  /\ mpc \in {"start", "mark"} => \A t \in todo : pc[t] = "none"
  /\ mpc \in {"mark", "cancel", "join", "reapjoin"} => target \in Threads
  /\ mpc \in {"cancel", "join"} => timedOut[target]

\* Entries do not get mixed up in the archive: whoever is in _write_job_data
\* holds the output mutex, and a thread that is canceled there or ends does
\* not keep it, so that the others can go on (write_job_data, cleanup_unlock).
OutputExclusion ==
  \A t \in Threads : pc[t] \in Writing <=> outLock = t

\* A directory handle is open as long as, and no longer than, a scan or a job
\* that opens its file with openat() needs it (dref.c, free_job).
HandleCount ==
  \A d \in Dirs :
    dref[d] = Cardinality({j \in alive : HoldsDref(j) /\ Parent[j] = d})
              + Cardinality({t \in Threads : pc[t] = "readdir" /\ job[t] = d})

\* The inductive invariant behind the theorems of DumpTaskProofs.
OwnerInv == TypeOK /\ UniqueOwner /\ CreatedOnce /\ Positioned /\ OutputExclusion

\* num_jobs_active is what wait_for_completion and the workers take it for:
\* the jobs queued and those in progress, until threads are reaped.
ActiveCount ==
  mpc \notin {"reap", "reapjoin", "final", "done", "crashed"} =>
    numActive = Len(queue) + Cardinality({t \in Threads : job[t] # NoJob})

\* The final status of a job never changes: neither the timeout handling nor
\* the abort of queued jobs rewrites a result that is there already.
FinalIsFinal ==
  [][\A j \in Jobs : status[j] \in Final => status'[j] = status[j]]_vars

\* When the output is finalised no thread can write to it any more, and all
\* jobs and directory handles but those still queued have been released.
QuietAtEnd ==
  mpc \in {"final", "done"} =>
    /\ outLock = NoThread
    /\ \A t \in Threads : pc[t] = "joined" /\ job[t] = NoJob
    /\ alive = Range(queue)
    /\ mpc = "done" => queue = << >> /\ \A d \in Dirs : dref[d] = 0

\* Exit code 0 means a complete archive: an entry is there exactly once and
\* whole, unless it or its directory was excluded or could not be found, or
\* nothing of that directory is there as it could not be opened.
CompleteDump ==
  mpc = "done" /\ rc = 0 =>
    /\ torn = 0 /\ (numFiles > 0 /\ ~Opts.no_eof => eof)
    /\ \A e \in Entries :
         \/ status[e] \in {"done", "partial", "failed"} /\ written[e] = 1
         \/ status[e] \in {"excluded", "statfail", "typeexcl"} /\ written[e] = 0
         \/ /\ status[e] = "none" /\ written[e] = 0
            /\ \/ status[Parent[e]] \in {"none", "excluded", "statfail", "typeexcl"}
               \/ ~Opts.recursive
               \/ "opendir" \in Faults /\ \A k \in Kids(Parent[e]) : status[k] = "none"

\* Each job that got a result is counted once and under that result, whether
\* the task ran to its end or was aborted once the output was open
\* (account_stats, abort_queued_jobs).
Accounting ==
  LET n(s) == Cardinality({e \in Entries : status[e] = s})
      m(s) == Cardinality({e \in Entries : status[e] = s /\ IsCmd(e)})
      twice == IF Opts.add_cmd_status THEN m("done") + m("partial") ELSE 0
  IN mpc = "done" /\ status[InitJob] = "done" =>
       /\ stats["done"] = n("done") + n("partial") + twice
       /\ stats["partial"] = n("partial")
       /\ stats["excluded"] = n("excluded") + n("typeexcl")
       /\ stats["failed"] = n("failed") + n("statfail")

\* dump2tar comes to an end: no wakeup is lost, no job is forgotten, nobody
\* waits for a thread that cannot stop.
Termination == <>(mpc = "done")
=============================================================================
