---------------------------- MODULE MCDumpTask ----------------------------
(***************************************************************************)
(* Small instances of DumpTask for TLC: directory trees, option records    *)
(* and the properties that repeat what dump2tar's documentation says.      *)
(***************************************************************************)
EXTENDS DumpTask, TLC

CONSTANTS t1, t2, t3, a, b, c, d, x

\* One specification, a directory d: the file a, and a directory x with b in it
TreeEntries == {a, b, d, x}
TreeKind    == a :> "file" @@ b :> "link" @@ d :> "dir" @@ x :> "dir"
TreeParent  == d :> InitJob @@ a :> d @@ x :> d @@ b :> x

\* One specification, a directory with one file
SoloEntries == {a, d}
SoloKind    == a :> "file" @@ d :> "dir"
SoloParent  == d :> InitJob @@ a :> d

\* Three specifications: a file, a command, and a directory
FlatEntries == {a, c, d}
FlatKind    == a :> "file" @@ c :> "cmd" @@ d :> "dir"
FlatParent  == a :> InitJob @@ c :> InitJob @@ d :> InitJob

\* Two specifications: a directory with a file in it, and a command
PairEntries == {a, c, d}
PairKind    == a :> "file" @@ c :> "cmd" @@ d :> "dir"
PairParent  == c :> InitJob @@ d :> InitJob @@ a :> d

Plain == [ignore_failed_read |-> FALSE, file_timeout |-> FALSE,
          timeout |-> FALSE, recursive |-> TRUE, add_cmd_status |-> FALSE,
          no_eof |-> FALSE, max_size |-> 0, exclude |-> {}, exclude_type |-> {}]

Ignore == [Plain EXCEPT !.ignore_failed_read = TRUE]

TreeOpts == [Ignore EXCEPT !.exclude = {a}]

\* No recursion, so that no more than the specifications are dumped
AbortOpts == [Plain EXCEPT !.timeout = TRUE, !.max_size = 1,
                          !.recursive = FALSE, !.add_cmd_status = TRUE,
                          !.exclude_type = {"file"}]

TimeoutOpts == [Ignore EXCEPT !.file_timeout = TRUE]

Symmetry == Permutations(Threads)

-----------------------------------------------------------------------------
\* A thread could not be created at the start while another one sleeps.
\* process_queue_threaded then skips wait_for_completion, and with it the call of
\* _worker_wakeup_all, and goes on to join the sleeper.
LeftAsleep == rc = 1 /\ \E t \in Threads : pc[t] = "wait"

\* With --file-timeout the engine comes to an end although every read may block
\* for ever: each blocked worker is found by the main thread, canceled where it
\* can be, and its job passed on.  (Joining a thread whose restart failed is
\* undefined and may end the program too.)  The one exception is a worker that
\* sleeps when the creation of a further thread fails: nobody wakes it, and if it
\* wakes up by itself it goes to sleep again.
NoHang == []<>(mpc \in {"done", "crashed"} \/ LeftAsleep)
=============================================================================
