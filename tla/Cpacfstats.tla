----------------------------- MODULE Cpacfstats -----------------------------
(***************************************************************************)
(* cpacfstatsd, the daemon that counts cryptographic operations, from its  *)
(* start to its end, and its clients.  A daemon finds out with a pid file  *)
(* whether another one runs, listens on a socket that others find by a     *)
(* file, and serves one client after the other.  It may be stopped by a    *)
(* signal, killed, or killed by the kernel because it writes to a client   *)
(* that has gone, all at any point.                                        *)
(***************************************************************************)
EXTENDS Integers, Sequences, FiniteSets

CONSTANTS Daemons,   \* processes, each started once; also what is in a pid file
          Clients,
          Counters,  \* number of counters, ALL_COUNTER
          CPUs,
          Asks,      \* queries that clients send
          NoOne,     \* no file, no client
          Empty      \* a pid file with nothing in it yet

ASSUME CpacfAssumption ==
  /\ Counters \in Nat \ {0} /\ CPUs # {}
  /\ NoOne \notin Daemons \cup Clients /\ Empty \notin Daemons \cup {NoOne}

Ctrs == 0 .. (Counters - 1)
All == Counters
Cmds == {"print", "enable", "disable", "reset"}
Queries == [cmd : Cmds, ctr : 0 .. All]

ASSUME AsksAssumption == Asks \subseteq Queries

VARIABLES
  pidfile,   \* PID_FILE: the pid in it
  sockfile,  \* SOCKET_FILE: the daemon that bound it
  pc,        \* where each daemon is
  seen,      \* the pid that it has read
  backlog,   \* clients that have connected to it
  cur,       \* the client it serves, its query, and the counter the loop is at
  state,     \* ctr_state
  on,        \* CPUs on which each counter counts
  failed,    \* CPUs on which the last change of each counter failed (history)
  query,     \* what each client has asked, NoQuery when its socket is closed
  got,       \* answers that each client has, and whether the last is an error
  ended      \* how the last daemon ended (history)

vars == <<pidfile, sockfile, pc, seen, backlog, cur, state, on, failed, query, got, ended>>

files == <<pidfile, sockfile>>
counters == <<state, on, failed>>
clients == <<query, got>>

NoQuery == [cmd |-> "none", ctr |-> All]
NoAnswer == [n |-> 0, bad |-> FALSE]
Idle == [client |-> NoOne, query |-> NoQuery, at |-> 0]

Init ==
  /\ pidfile = NoOne /\ sockfile = NoOne
  /\ pc = [d \in Daemons |-> "new"] /\ seen = [d \in Daemons |-> NoOne]
  /\ backlog = [d \in Daemons |-> <<>>] /\ cur = [d \in Daemons |-> Idle]
  /\ state = [d \in Daemons |-> [i \in Ctrs |-> FALSE]]
  /\ on = [d \in Daemons |-> [i \in Ctrs |-> {}]]
  /\ failed = [d \in Daemons |-> [i \in Ctrs |-> {}]]
  /\ query = [c \in Clients |-> NoQuery] /\ got = [c \in Clients |-> NoAnswer]
  /\ ended = "none"

Alive(d) == pc[d] \notin {"new", "gone"}
Starting(d) == pc[d] \in {"check", "probe", "create", "pid", "perf", "bind"}
Serving(d) == pc[d] \in {"serve", "answer"}
Ending(d) == pc[d] \in {"sock", "unpid", "atexit"}

Goto(d, where) == pc' = [pc EXCEPT ![d] = where]

\* A process is gone, and with it its counters and connections
Gone(d, how) ==
  /\ Goto(d, "gone") /\ ended' = how
  /\ cur' = [cur EXCEPT ![d] = Idle] /\ backlog' = [backlog EXCEPT ![d] = <<>>]
  /\ on' = [on EXCEPT ![d] = [i \in Ctrs |-> {}]]
  /\ state' = [state EXCEPT ![d] = [i \in Ctrs |-> FALSE]]
  /\ failed' = [failed EXCEPT ![d] = [i \in Ctrs |-> {}]]

-----------------------------------------------------------------------------
(* Start of a daemon.                                                      *)

\* Whoever administers the daemons does not start one while another one is
\* about to start or to end
Start(d) ==
  /\ pc[d] = "new" /\ \A e \in Daemons : ~ Starting(e) /\ ~ Ending(e)
  /\ Goto(d, "check")
  /\ UNCHANGED <<files, seen, backlog, cur, counters, clients, ended>>

\* check_pidfile
ReadPid(d) ==
  /\ pc[d] = "check"
  /\ seen' = [seen EXCEPT ![d] = pidfile]
  /\ Goto(d, IF pidfile = NoOne THEN "create" ELSE "probe")
  /\ UNCHANGED <<files, backlog, cur, counters, clients, ended>>

\* Nothing in the file, or no such process
Stale(d) == seen[d] = Empty \/ (seen[d] \in Daemons /\ ~ Alive(seen[d]))

RemoveStale(d) ==
  /\ pc[d] = "probe" /\ Stale(d)
  /\ pidfile' = NoOne /\ Goto(d, "create")
  /\ UNCHANGED <<sockfile, seen, backlog, cur, counters, clients, ended>>

\* The result of check_pidfile only matters for the pid file
RefuseNot(d) ==
  /\ pc[d] = "probe" /\ ~ Stale(d)
  /\ Goto(d, "perf")
  /\ UNCHANGED <<files, seen, backlog, cur, counters, clients, ended>>

Refuse(d) ==
  /\ pc[d] = "probe" /\ ~ Stale(d)
  /\ Gone(d, ended)
  /\ UNCHANGED <<files, seen, clients>>

\* become_daemon: the file is created, if there is none, then filled
CreatePid(d) ==
  /\ pc[d] = "create"
  /\ IF pidfile = NoOne THEN pidfile' = Empty /\ Goto(d, "pid") /\ UNCHANGED <<backlog, cur, counters, ended>>
     ELSE Gone(d, "error") /\ UNCHANGED pidfile
  /\ UNCHANGED <<sockfile, seen, clients>>

FillPid(d) ==
  /\ pc[d] = "pid"
  /\ pidfile' = d /\ Goto(d, "perf") /\ seen' = [seen EXCEPT ![d] = NoOne]
  /\ UNCHANGED <<sockfile, backlog, cur, counters, clients, ended>>

\* perf_init, which opens all counters, not counting, or fails
PerfInit(d) ==
  /\ pc[d] = "perf"
  /\ \/ Goto(d, "bind") /\ UNCHANGED <<backlog, cur, counters, ended>>
     \/ Gone(d, "error")
  /\ UNCHANGED <<files, seen, clients>>

\* open_socket(SERVER), which may fail before it removes the old socket file,
\* before the bind or after it
Bind(d) ==
  /\ pc[d] = "bind"
  /\ \/ sockfile' = d /\ Goto(d, "serve") /\ UNCHANGED <<backlog, cur, counters, ended>>
     \/ sockfile' \in {sockfile, NoOne, d} /\ Gone(d, "error")
  /\ UNCHANGED <<pidfile, seen, clients>>

-----------------------------------------------------------------------------
(* Requests.                                                               *)

\* Neither waits for d nor is served by it
Unserved(c) ==
  \A d \in Daemons : cur[d].client # c /\ \A i \in DOMAIN backlog[d] : backlog[d][i] # c

\* A client connects, sends its query and waits.  A socket file that nobody
\* listens on gives an error.
Connect(c, q) ==
  /\ query[c] = NoQuery /\ Unserved(c) /\ sockfile \in Daemons /\ Serving(sockfile)
  /\ query' = [query EXCEPT ![c] = q]
  /\ backlog' = [backlog EXCEPT ![sockfile] = Append(@, c)]
  /\ UNCHANGED <<files, pc, seen, cur, counters, got, ended>>

\* The main loop: accept and recv_query
Accept(d) ==
  LET c == Head(backlog[d]) IN
  /\ pc[d] = "serve" /\ backlog[d] # <<>> /\ query[c] # NoQuery
  /\ cur' = [cur EXCEPT ![d] = [client |-> c, query |-> query[c], at |-> 0]]
  /\ backlog' = [backlog EXCEPT ![d] = Tail(@)]
  /\ Goto(d, "answer")
  /\ UNCHANGED <<files, seen, counters, clients, ended>>

\* The client has gone without a query, which is ignored, or with one, which
\* is done until the first answer ends the daemon with SIGPIPE
AcceptGone(d) ==
  /\ pc[d] = "serve" /\ backlog[d] # <<>> /\ query[Head(backlog[d])] = NoQuery
  /\ \/ backlog' = [backlog EXCEPT ![d] = Tail(@)] /\ UNCHANGED <<pc, cur, counters, ended>>
     \/ Gone(d, "killed")
  /\ UNCHANGED <<files, seen, clients>>

Asked(q, i) == q.ctr \in {i, All}

Close(d) == Goto(d, "serve") /\ cur' = [cur EXCEPT ![d] = Idle]

\* send_answer, after which the loop goes on unless it was an error
Reply(d, bad) ==
  /\ got' = [got EXCEPT ![cur[d].client] = [n |-> @.n + 1, bad |-> bad]]
  /\ IF bad THEN Close(d) ELSE UNCHANGED pc /\ cur' = [cur EXCEPT ![d].at = @ + 1]

\* ctr_state changes whatever perf_enable_ctr and perf_disable_ctr return
SetStateAlways(d, i, up, fails) == state' = [state EXCEPT ![d][i] = up]

\* ctr_state changes only if the counter did on all CPUs
SetState(d, i, up, fails) == state' = [state EXCEPT ![d][i] = IF fails = {} THEN up ELSE @]

\* perf_enable_ctr and perf_disable_ctr: all CPUs are tried, some may fail
Switched(d, i, up, fails) ==
  /\ on' = [on EXCEPT ![d][i] = IF up THEN @ \cup (CPUs \ fails) ELSE @ \cap fails]
  /\ failed' = [failed EXCEPT ![d][i] = fails]

\* do_enable and do_disable for a counter that changes.  The value is read
\* after an enable, which may fail as well.
Change(d, i, up, fails) ==
  /\ state[d][i] # up
  /\ Switched(d, i, up, fails) /\ SetState(d, i, up, fails)
  /\ \/ Reply(d, fails # {})
     \/ up /\ Reply(d, TRUE)

\* Otherwise a counter that counts is read or reset, which may fail; one that
\* does not count is reported as such
Report(d, i) ==
  /\ \/ Reply(d, FALSE)
     \/ state[d][i] /\ Reply(d, TRUE)
  /\ UNCHANGED counters

\* The body of the loop of do_enable, do_disable, do_reset and do_print
Do(d, i, cmd) ==
  \/ cmd \in {"enable", "disable"} /\ \E fails \in SUBSET CPUs : Change(d, i, cmd = "enable", fails)
  \/ cmd \in {"enable", "disable"} /\ state[d][i] = (cmd = "enable") /\ Report(d, i)
  \/ cmd \in {"print", "reset"} /\ Report(d, i)

\* A counter that was asked for
DoAsked(d) ==
  /\ pc[d] = "answer" /\ cur[d].at < Counters
  /\ Asked(cur[d].query, cur[d].at) /\ query[cur[d].client] # NoQuery
  /\ Do(d, cur[d].at, cur[d].query.cmd)
  /\ UNCHANGED <<files, seen, backlog, query, ended>>

\* The client has gone: SIGPIPE
AnswerGone(d) ==
  /\ pc[d] = "answer" /\ cur[d].at < Counters
  /\ Asked(cur[d].query, cur[d].at) /\ query[cur[d].client] = NoQuery
  /\ Gone(d, "killed")
  /\ UNCHANGED <<files, seen, clients>>

\* The loop does not get past a counter that was not asked for
SkipNot(d) ==
  /\ pc[d] = "answer" /\ cur[d].at < Counters /\ ~ Asked(cur[d].query, cur[d].at)
  /\ UNCHANGED vars

\* One that was not
Skip(d) ==
  /\ pc[d] = "answer" /\ cur[d].at < Counters /\ ~ Asked(cur[d].query, cur[d].at)
  /\ cur' = [cur EXCEPT ![d].at = @ + 1]
  /\ UNCHANGED <<files, pc, seen, backlog, counters, clients, ended>>

Finished(d) ==
  /\ pc[d] = "answer" /\ cur[d].at = Counters
  /\ Close(d)
  /\ UNCHANGED <<files, seen, backlog, counters, clients, ended>>

Wants(q) == IF q.ctr = All THEN Counters ELSE 1

\* The client has its answers, or an error, or finds the connection closed
Leave(c) ==
  /\ query[c] # NoQuery /\ (got[c].n >= Wants(query[c]) \/ got[c].bad \/ Unserved(c))
  /\ query' = [query EXCEPT ![c] = NoQuery] /\ got' = [got EXCEPT ![c] = NoAnswer]
  /\ UNCHANGED <<files, pc, seen, backlog, cur, counters, ended>>

\* A client is interrupted
Die(c) ==
  /\ query[c] # NoQuery
  /\ query' = [query EXCEPT ![c] = NoQuery] /\ got' = [got EXCEPT ![c] = NoAnswer]
  /\ UNCHANGED <<files, pc, seen, backlog, cur, counters, ended>>

-----------------------------------------------------------------------------
(* End of a daemon.                                                        *)

\* SIGTERM or SIGINT: signalhandler, then the functions given to atexit
Term(d) ==
  /\ Serving(d) /\ \A e \in Daemons : ~ Starting(e)
  /\ Goto(d, "sock")
  /\ UNCHANGED <<files, seen, backlog, cur, counters, clients, ended>>

RemoveSock(d) ==
  /\ pc[d] = "sock"
  /\ sockfile' = NoOne /\ Goto(d, "unpid")
  /\ on' = [on EXCEPT ![d] = [i \in Ctrs |-> {}]]
  /\ state' = [state EXCEPT ![d] = [i \in Ctrs |-> FALSE]]
  /\ failed' = [failed EXCEPT ![d] = [i \in Ctrs |-> {}]]
  /\ UNCHANGED <<pidfile, seen, backlog, cur, clients, ended>>

\* The pid file is left to atexit, which only removes the socket
RemovePidNot(d) ==
  /\ pc[d] = "unpid"
  /\ Goto(d, "atexit")
  /\ UNCHANGED <<files, seen, backlog, cur, counters, clients, ended>>

RemovePid(d) ==
  /\ pc[d] = "unpid"
  /\ pidfile' = NoOne /\ Goto(d, "atexit")
  /\ UNCHANGED <<sockfile, seen, backlog, cur, counters, clients, ended>>

Exit(d) ==
  /\ pc[d] = "atexit"
  /\ sockfile' = NoOne /\ Gone(d, "term")
  /\ UNCHANGED <<pidfile, seen, clients>>

\* Any other signal, at any time
Kill(d) ==
  /\ Alive(d)
  /\ Gone(d, "killed")
  /\ UNCHANGED <<files, seen, clients>>

-----------------------------------------------------------------------------
Boot(d) == ReadPid(d) \/ RemoveStale(d) \/ Refuse(d) \/ CreatePid(d) \/ FillPid(d) \/ PerfInit(d) \/ Bind(d)
Serve(d) == Accept(d) \/ AcceptGone(d) \/ DoAsked(d) \/ AnswerGone(d) \/ Skip(d) \/ Finished(d)
End(d) == RemoveSock(d) \/ RemovePid(d) \/ Exit(d)

Next ==
  \/ \E d \in Daemons : Start(d) \/ Boot(d) \/ Serve(d) \/ Term(d) \/ End(d) \/ Kill(d)
  \/ \E c \in Clients : Leave(c) \/ Die(c) \/ \E q \in Asks : Connect(c, q)

Spec == Init /\ [][Next]_vars

\* The system lets processes run; signals and clients may come or not
FairSpec ==
  /\ Spec
  /\ \A d \in Daemons : WF_vars(Serve(d) \/ End(d))
  /\ \A c \in Clients : WF_vars(Leave(c))

-----------------------------------------------------------------------------
(* Properties.                                                             *)

\* Type invariant.
TypeOK ==
  /\ pidfile \in Daemons \cup {NoOne, Empty} /\ sockfile \in Daemons \cup {NoOne}
  /\ pc \in [Daemons -> {"new", "check", "probe", "create", "pid", "perf", "bind", "serve", "answer",
                         "sock", "unpid", "atexit", "gone"}]
  /\ seen \in [Daemons -> Daemons \cup {NoOne, Empty}]
  /\ \A d \in Daemons : \A i \in DOMAIN backlog[d] : backlog[d][i] \in Clients
  /\ cur \in [Daemons -> [client : Clients \cup {NoOne}, query : Queries \cup {NoQuery}, at : 0 .. Counters]]
  /\ state \in [Daemons -> [Ctrs -> BOOLEAN]] /\ on \in [Daemons -> [Ctrs -> SUBSET CPUs]]
  /\ failed \in [Daemons -> [Ctrs -> SUBSET CPUs]]
  /\ query \in [Clients -> Queries \cup {NoQuery}]
  /\ got \in [Clients -> [n : 0 .. Counters, bad : BOOLEAN]]
  /\ ended \in {"none", "term", "killed", "error"}

\* check_pidfile and become_daemon: no daemon gets as far as its socket while
\* another one runs, whatever the pid file of a daemon that was killed says.
OneServer ==
  \A d, e \in Daemons : (pc[d] \in {"perf", "bind"} \/ Serving(d)) /\ Alive(e) /\ pc[e] \notin {"check", "probe"} => d = e

\* open_socket: a daemon that serves is found by its socket file and by its
\* pid file, whatever the daemons before it have left.
Reachable == \A d \in Daemons : Serving(d) => sockfile = d /\ pidfile = d

\* become_daemon: after check_pidfile the pid file, which must not exist, can
\* be created; a daemon that was killed never locks the next one out.
CanCreate == \A d \in Daemons : pc[d] = "create" => pidfile = NoOne

\* signalhandler: a daemon that is stopped leaves neither file, so that a
\* client does not wait for a daemon that has gone.
CleanEnd == ended = "term" /\ (\A d \in Daemons : ~ Alive(d)) => pidfile = NoOne /\ sockfile = NoOne

\* What the state of a counter says of the CPUs on which it counts.  A change
\* that failed on some is tried on all others and leaves the state alone: a
\* counter still said to be enabled may count where it was not switched off,
\* and nowhere else; one still said to be disabled counts wherever it was
\* switched on.
Fits(cpus, enabled, fails) ==
  IF fails = {} THEN cpus = IF enabled THEN CPUs ELSE {}
  ELSE IF enabled THEN cpus \subseteq fails ELSE CPUs \ fails \subseteq cpus

\* do_enable, do_disable: ctr_state tells on which CPUs a counter counts: all
\* or none, but for those on which its last change failed, whatever clients
\* asked before and when they left.
StateExact == \A d \in Daemons : \A i \in Ctrs : Fits(on[d][i], state[d][i], failed[d][i])

\* The number of answers sent is what the client waits for: a client that is
\* not interrupted is never closed on before it has them or an error, unless
\* the daemon has ended.
Answered ==
  \A d \in Daemons : pc[d] = "answer" /\ cur[d].at = Counters /\ query[cur[d].client] # NoQuery
     => got[cur[d].client].n = Wants(cur[d].query) /\ ~ got[cur[d].client].bad

\* main of cpacfstats: a client that has asked comes to an end, also if the
\* daemon is killed or stopped, or another client is interrupted.
ClientEnds == \A c \in Clients : query[c] # NoQuery ~> query[c] = NoQuery

\* Of the two files: whatever daemons have been killed and left behind, one
\* daemon serves, is found, and a new one can start when it has gone.
FilesInv == OneServer /\ Reachable /\ CanCreate

\* Of the requests: counters are what the daemon says, and answers complete.
RequestInv == TypeOK /\ StateExact /\ Answered
=============================================================================
