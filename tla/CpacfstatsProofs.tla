-------------------------- MODULE CpacfstatsProofs --------------------------
(***************************************************************************)
(* The invariants of Cpacfstats for any number of daemons, each of which   *)
(* may be killed at any step and leave its files behind, any number of     *)
(* clients, and any number of counters and CPUs.                           *)
(***************************************************************************)
EXTENDS Cpacfstats, Integers, Sequences, FiniteSetsExt, Functions, SequenceTheorems, FiniteSetTheorems, TLAPS

-----------------------------------------------------------------------------
(* Sets, numbers and sequences.                                            *)

\* Removing the head of a list: the rest is still without duplicates and
\* does not contain what was removed.
LEMMA TailFacts ==
  ASSUME NEW S, NEW s \in Seq(S), s # << >>
  PROVE  /\ Head(s) \in S
         /\ Head(s) \in Range(s)
         /\ Tail(s) \in Seq(S)
         /\ Range(Tail(s)) \subseteq Range(s)
         /\ IsInjective(s) => /\ IsInjective(Tail(s))
                              /\ Head(s) \notin Range(Tail(s))
<1>1. /\ Len(s) \in Nat \ {0} /\ DOMAIN s = 1..Len(s)
      /\ Head(s) = s[1]
      /\ Tail(s) \in Seq(S) /\ DOMAIN Tail(s) = 1..(Len(s) - 1)
      /\ \A i \in 1..(Len(s) - 1) : Tail(s)[i] = s[i + 1]
  OBVIOUS
<1>2. \A i \in 1..(Len(s) - 1) : i + 1 \in 1..Len(s) /\ i + 1 # 1
  BY <1>1
<1>3. Range(Tail(s)) \subseteq Range(s)
  BY <1>1, <1>2 DEF Range
<1>4. ASSUME IsInjective(s)
      PROVE  IsInjective(Tail(s)) /\ Head(s) \notin Range(Tail(s))
  BY <1>1, <1>2, <1>4 DEF Range, IsInjective
<1> QED
  BY <1>1, <1>3, <1>4 DEF Range

\* Adding at the end of a list: one more
\* element, and no duplicate if it is new.
LEMMA AppendFacts ==
  ASSUME NEW S, NEW s \in Seq(S), NEW e \in S
  PROVE  /\ Append(s, e) \in Seq(S)
         /\ Range(Append(s, e)) = Range(s) \cup {e}
         /\ IsInjective(s) /\ e \notin Range(s) => IsInjective(Append(s, e))
<1>1. /\ Len(s) \in Nat /\ DOMAIN s = 1..Len(s)
      /\ Append(s, e) \in Seq(S)
      /\ DOMAIN Append(s, e) = 1..(Len(s) + 1)
      /\ \A i \in 1..Len(s) : Append(s, e)[i] = s[i]
      /\ Append(s, e)[Len(s) + 1] = e
  OBVIOUS
<1>2. \A i \in 1..(Len(s) + 1) : i \in 1..Len(s) \/ i = Len(s) + 1
  BY <1>1
<1>3. 1..Len(s) \subseteq 1..(Len(s) + 1) /\ Len(s) + 1 \in 1..(Len(s) + 1)
  BY <1>1
<1>4. Range(Append(s, e)) = Range(s) \cup {e}
  BY <1>1, <1>2, <1>3 DEF Range
<1>5. ASSUME IsInjective(s), e \notin Range(s)
      PROVE  IsInjective(Append(s, e))
  BY <1>1, <1>2, <1>5 DEF Range, IsInjective
<1> QED
  BY <1>1, <1>4, <1>5

-----------------------------------------------------------------------------
Places == {"new", "check", "probe", "create", "pid", "perf", "bind", "serve", "answer",
           "sock", "unpid", "atexit", "gone"}

PlacesOK ==
  /\ pc \in [Daemons -> Places]
  /\ seen \in [Daemons -> Daemons \cup {NoOne, Empty}]
  /\ pidfile \in Daemons \cup {NoOne, Empty}

\* Beyond the check of the pid file
Past(d) == Alive(d) /\ pc[d] \notin {"check", "probe"}

\* What the pid file says of the place of a daemon; while it probes, the file
\* is still the one it has read
PidInv ==
  \A d \in Daemons :
    /\ pc[d] = "probe" => pidfile = seen[d] /\ pidfile # NoOne
    /\ pc[d] \in {"create", "atexit"} => pidfile = NoOne
    /\ pc[d] = "pid" => pidfile = Empty
    /\ pc[d] \in {"perf", "bind", "serve", "answer", "sock", "unpid"} => pidfile = d

SockInv == \A d \in Daemons : Serving(d) => sockfile = d

\* One daemon is past the check; while one starts no other starts or ends
AloneInv ==
  \A d, e \in Daemons :
    /\ Past(d) /\ Past(e) => d = e
    /\ Starting(d) /\ (Starting(e) \/ Ending(e)) => d = e

Inv == PlacesOK /\ PidInv /\ SockInv /\ AloneInv

USE DEF Alive, Starting, Serving, Ending, Past

-----------------------------------------------------------------------------
\* A step that changes neither files nor what was read, and leaves a daemon as
\* it was, or among those that serve, or ends it, keeps the invariant.
LEMMA QuietStep ==
  ASSUME Inv, NEW d \in Daemons, NEW where, UNCHANGED <<files, seen>>,
         pc' = [pc EXCEPT ![d] = where],
         where = "gone" \/ (Serving(d) /\ where \in {"serve", "answer"})
  PROVE  Inv'
<1>1. PlacesOK'
  BY DEF Inv, PlacesOK, Places, files
<1>2. PidInv'
  BY DEF Inv, PlacesOK, PidInv, files
<1>3. SockInv'
  BY DEF Inv, PlacesOK, SockInv, files
<1>4. AloneInv'
  BY DEF Inv, PlacesOK, AloneInv
<1> QED
  BY <1>1, <1>2, <1>3, <1>4 DEF Inv

\* Nothing changes that the invariant is about.
LEMMA NoStep == ASSUME Inv, UNCHANGED <<files, seen, pc>> PROVE Inv'
  BY DEF Inv, PlacesOK, PidInv, SockInv, AloneInv, files

LEMMA StartKeeps == ASSUME Inv, NEW d \in Daemons, Start(d) PROVE Inv'
<1> USE DEF Start, Goto, files
<1>1. PlacesOK'
  BY DEF Inv, PlacesOK, Places
<1>2. PidInv' /\ SockInv'
  BY DEF Inv, PlacesOK, PidInv, SockInv
<1>3. AloneInv'
  BY DEF Inv, PlacesOK, AloneInv
<1> QED
  BY <1>1, <1>2, <1>3 DEF Inv

\* A file that is there but is no daemon's is read, or none is there: then
\* no daemon is past the check.
LEMMA ReadKeeps == ASSUME Inv, NEW d \in Daemons, ReadPid(d) PROVE Inv'
<1> USE DEF ReadPid, Goto, files
<1>1. PlacesOK'
  BY DEF Inv, PlacesOK, Places
<1>2. seen' = [seen EXCEPT ![d] = pidfile] /\ pidfile' = pidfile /\ sockfile' = sockfile
  OBVIOUS
<1>3. PidInv'
  <2> SUFFICES ASSUME NEW e \in Daemons
               PROVE  /\ pc'[e] = "probe" => pidfile = seen'[e] /\ pidfile # NoOne
                      /\ pc'[e] \in {"create", "atexit"} => pidfile = NoOne
                      /\ pc'[e] = "pid" => pidfile = Empty
                      /\ pc'[e] \in {"perf", "bind", "serve", "answer", "sock", "unpid"} => pidfile = e
    BY <1>2 DEF PidInv
  <2>1. CASE e = d
    BY <1>2, <2>1 DEF Inv, PlacesOK
  <2>2. CASE e # d
    <3>1. pc'[e] = pc[e] /\ seen'[e] = seen[e]
      BY <1>2, <2>2 DEF Inv, PlacesOK
    <3> QED
      BY <3>1 DEF Inv, PidInv
  <2> QED
    BY <2>1, <2>2
<1>4. SockInv'
  BY DEF Inv, PlacesOK, SockInv
<1>5. ASSUME pidfile = NoOne, NEW e \in Daemons, Past(e) PROVE FALSE
  <2>1. Serving(e)
    BY <1>5 DEF Inv, PlacesOK, Places, AloneInv
  <2>2. pidfile = e
    BY <2>1 DEF Inv, PidInv
  <2> QED
    BY <1>5, <2>2, CpacfAssumption
<1>6. AloneInv'
  <2>1. CASE pidfile = NoOne
    <3>1. pc' = [pc EXCEPT ![d] = "create"] /\ pc \in [Daemons -> Places]
      BY <2>1 DEF Inv, PlacesOK
    <3>2. \A e \in Daemons : ~ Past(e)
      BY <1>5, <2>1
    <3> QED
      BY <3>1, <3>2 DEF Inv, AloneInv
  <2>2. CASE pidfile # NoOne
    <3>1. pc' = [pc EXCEPT ![d] = "probe"] /\ pc \in [Daemons -> Places]
      BY <2>2 DEF Inv, PlacesOK
    <3> QED
      BY <3>1 DEF Inv, AloneInv
  <2> QED
    BY <2>1, <2>2
<1> QED
  BY <1>1, <1>3, <1>4, <1>6 DEF Inv

\* The pid of a daemon past the check is in the file, so that a leftover means
\* that there is none.
LEMMA RemoveKeeps == ASSUME Inv, NEW d \in Daemons, RemoveStale(d) PROVE Inv'
<1> USE DEF RemoveStale, Goto
<1>1. PlacesOK'
  BY DEF Inv, PlacesOK, Places
<1>2. \A e \in Daemons : ~ Past(e)
  <2> SUFFICES ASSUME NEW e \in Daemons, Past(e) PROVE FALSE
    OBVIOUS
  <2>1. Serving(e)
    BY DEF Inv, PlacesOK, Places, AloneInv
  <2>2. seen[d] = e
    BY <2>1 DEF Inv, PidInv
  <2> QED
    BY <2>1, <2>2, CpacfAssumption DEF Stale
<1>3. PidInv' /\ SockInv'
  BY <1>2 DEF Inv, PlacesOK, PidInv, SockInv, AloneInv
<1>4. AloneInv'
  BY <1>2 DEF Inv, PlacesOK, AloneInv
<1> QED
  BY <1>1, <1>3, <1>4 DEF Inv

LEMMA CreateKeeps == ASSUME Inv, NEW d \in Daemons, CreatePid(d) PROVE Inv'
<1> USE DEF CreatePid, Goto
<1>0. pidfile = NoOne
  BY DEF Inv, PidInv
<1>1. PlacesOK'
  BY <1>0 DEF Inv, PlacesOK, Places
<1>2. PidInv' /\ SockInv'
  BY <1>0 DEF Inv, PlacesOK, PidInv, SockInv, AloneInv
<1>3. AloneInv'
  BY <1>0 DEF Inv, PlacesOK, AloneInv
<1> QED
  BY <1>1, <1>2, <1>3 DEF Inv

LEMMA FillKeeps == ASSUME Inv, NEW d \in Daemons, FillPid(d) PROVE Inv'
<1> USE DEF FillPid, Goto
<1>1. PlacesOK'
  BY DEF Inv, PlacesOK, Places
<1>2. PidInv' /\ SockInv'
  BY DEF Inv, PlacesOK, PidInv, SockInv, AloneInv
<1>3. AloneInv'
  BY DEF Inv, PlacesOK, AloneInv
<1> QED
  BY <1>1, <1>2, <1>3 DEF Inv

LEMMA PerfKeeps == ASSUME Inv, NEW d \in Daemons, PerfInit(d) PROVE Inv'
<1>1. CASE Goto(d, "bind")
  <2> USE <1>1 DEF PerfInit, Goto, files
  <2>1. PlacesOK'
    BY DEF Inv, PlacesOK, Places
  <2>2. PidInv' /\ SockInv'
    BY DEF Inv, PlacesOK, PidInv, SockInv, AloneInv
  <2>3. AloneInv'
    BY DEF Inv, PlacesOK, AloneInv
  <2> QED
    BY <2>1, <2>2, <2>3 DEF Inv
<1>2. CASE Gone(d, "error")
  BY <1>2, QuietStep DEF PerfInit, Gone, Goto
<1> QED
  BY <1>1, <1>2 DEF PerfInit

\* No other daemon serves, so that the socket file may change.
LEMMA BindKeeps == ASSUME Inv, NEW d \in Daemons, Bind(d) PROVE Inv'
<1> USE DEF Bind, Gone, Goto
<1>1. PlacesOK'
  BY DEF Inv, PlacesOK, Places
<1>2. PidInv'
  BY DEF Inv, PlacesOK, PidInv
<1>3. SockInv'
  BY DEF Inv, PlacesOK, SockInv, AloneInv
<1>4. AloneInv'
  BY DEF Inv, PlacesOK, AloneInv
<1> QED
  BY <1>1, <1>2, <1>3, <1>4 DEF Inv

LEMMA TermKeeps == ASSUME Inv, NEW d \in Daemons, Term(d) PROVE Inv'
<1> USE DEF Term, Goto, files
<1>1. PlacesOK'
  BY DEF Inv, PlacesOK, Places
<1>2. PidInv' /\ SockInv'
  BY DEF Inv, PlacesOK, PidInv, SockInv
<1>3. AloneInv'
  BY DEF Inv, PlacesOK, AloneInv
<1> QED
  BY <1>1, <1>2, <1>3 DEF Inv

LEMMA EndKeeps == ASSUME Inv, NEW d \in Daemons, End(d) PROVE Inv'
<1> USE DEF End, RemoveSock, RemovePid, Exit, Gone, Goto
<1>1. PlacesOK'
  BY DEF Inv, PlacesOK, Places
<1>2. PidInv'
  BY DEF Inv, PlacesOK, PidInv, AloneInv
<1>3. SockInv'
  BY DEF Inv, PlacesOK, SockInv, AloneInv
<1>4. AloneInv'
  BY DEF Inv, PlacesOK, AloneInv
<1> QED
  BY <1>1, <1>2, <1>3, <1>4 DEF Inv

\* Requests leave the files alone; a client that has gone ends the daemon.
LEMMA ServeKeeps == ASSUME Inv, NEW d \in Daemons, Serve(d) PROVE Inv'
<1>1. CASE Accept(d)
  BY <1>1, QuietStep DEF Accept, Goto
<1>2. CASE AcceptGone(d)
  BY <1>2, QuietStep, NoStep DEF AcceptGone, Gone, Goto
<1>3. CASE DoAsked(d)
  <2>1. UNCHANGED pc \/ pc' = [pc EXCEPT ![d] = "serve"]
    <3>1. ASSUME NEW bad, Reply(d, bad) PROVE UNCHANGED pc \/ pc' = [pc EXCEPT ![d] = "serve"]
      BY <3>1 DEF Reply, Close, Goto
    <3>2. ASSUME NEW i, Report(d, i) PROVE UNCHANGED pc \/ pc' = [pc EXCEPT ![d] = "serve"]
      BY <3>1, <3>2 DEF Report
    <3>3. ASSUME NEW i, NEW up, NEW fails, Change(d, i, up, fails)
          PROVE UNCHANGED pc \/ pc' = [pc EXCEPT ![d] = "serve"]
      BY <3>1, <3>3 DEF Change
    <3> QED
      BY <1>3, <3>2, <3>3 DEF DoAsked, Do
  <2> QED
    BY <1>3, <2>1, QuietStep, NoStep DEF DoAsked
<1>4. CASE AnswerGone(d)
  BY <1>4, QuietStep DEF AnswerGone, Gone, Goto
<1>5. CASE Skip(d)
  BY <1>5, NoStep DEF Skip
<1>6. CASE Finished(d)
  BY <1>6, QuietStep DEF Finished, Close, Goto
<1> QED
  BY <1>1, <1>2, <1>3, <1>4, <1>5, <1>6 DEF Serve

LEMMA BootKeeps == ASSUME Inv, NEW d \in Daemons, Boot(d) PROVE Inv'
<1>1. CASE Refuse(d)
  BY <1>1, QuietStep DEF Refuse, Gone, Goto
<1> QED
  BY <1>1, ReadKeeps, RemoveKeeps, CreateKeeps, FillKeeps, PerfKeeps, BindKeeps DEF Boot

LEMMA FilesStep == ASSUME Inv, [Next]_vars PROVE Inv'
<1>1. ASSUME NEW d \in Daemons, Kill(d) PROVE Inv'
  BY <1>1, QuietStep DEF Kill, Gone, Goto
<1>2. ASSUME NEW d \in Daemons, Start(d) \/ Boot(d) \/ Serve(d) \/ Term(d) \/ End(d) \/ Kill(d)
      PROVE Inv'
  BY <1>1, <1>2, StartKeeps, BootKeeps, ServeKeeps, TermKeeps, EndKeeps
<1>3. ASSUME NEW c \in Clients, Leave(c) \/ Die(c) \/ \E q \in Asks : Connect(c, q)
      PROVE Inv'
  BY <1>3, NoStep DEF Leave, Die, Connect
<1>4. CASE UNCHANGED vars
  BY <1>4, NoStep DEF vars, files
<1> QED
  BY <1>2, <1>3, <1>4 DEF Next

LEMMA FilesStart == ASSUME Init PROVE Inv
  BY DEF Init, Inv, PlacesOK, Places, PidInv, SockInv, AloneInv

\* cpacfstatsd: with any number of daemons that follow each other, and whatever
\* one that was killed has left, one serves, its files name it, and the next
\* one can create its pid file.
THEOREM FilesAlways == Spec => []FilesInv
<1>1. Init => Inv
  BY FilesStart
<1>2. Inv /\ [Next]_vars => Inv'
  BY FilesStep
<1>3. Inv => FilesInv
  BY DEF Inv, PidInv, SockInv, AloneInv, PlacesOK, Places, FilesInv, OneServer, Reachable, CanCreate
<1> QED
  BY <1>1, <1>2, <1>3, PTL DEF Spec

-----------------------------------------------------------------------------
(* The end of a daemon that was stopped. *)

\* Once a daemon has removed its files, none is there until the next one is
\* past the check of the pid file
EndInv == ended = "term" /\ (\A d \in Daemons : ~ Past(d)) => pidfile = NoOne /\ sockfile = NoOne

LEMMA EndStep == ASSUME Inv, EndInv, [Next]_vars PROVE EndInv'
<1>0. pc \in [Daemons -> Places]
  BY DEF Inv, PlacesOK
<1>1. CASE ended' # "term"
  BY <1>1 DEF EndInv
<1>2. CASE \E d \in Daemons : Past(d)'
  BY <1>2 DEF EndInv
<1>3. CASE UNCHANGED <<files, pc, ended>>
  BY <1>3 DEF EndInv, files
<1>4. ASSUME NEW d \in Daemons, Start(d) \/ ReadPid(d) \/ Refuse(d) PROVE EndInv'
  <2>1. \A e \in Daemons : Past(e) => Past(e)'
    BY <1>0, <1>4 DEF Start, ReadPid, Refuse, Gone, Goto, Places
  <2>2. UNCHANGED <<pidfile, sockfile, ended>>
    BY <1>4 DEF Start, ReadPid, Refuse, Gone, files
  <2> QED
    BY <2>1, <2>2 DEF EndInv
<1>5. ASSUME NEW d \in Daemons, RemoveStale(d) PROVE EndInv'
  <2>1. pc' = [pc EXCEPT ![d] = "create"] /\ d \in Daemons
    BY <1>5 DEF RemoveStale, Goto
  <2> QED
    BY <1>0, <1>2, <2>1
<1>6. ASSUME NEW d \in Daemons, CreatePid(d) \/ FillPid(d) \/ PerfInit(d) \/ Bind(d) PROVE EndInv'
  BY <1>0, <1>1, <1>2, <1>6 DEF CreatePid, FillPid, PerfInit, Bind, Gone, Goto
<1>7. ASSUME NEW d \in Daemons, Serve(d) PROVE EndInv'
  <2>1. CASE ended' = ended
    <3>1. Past(d) /\ UNCHANGED files
      BY <1>7 DEF Serve, Accept, AcceptGone, DoAsked, AnswerGone, Skip, Finished
    <3>2. UNCHANGED pc \/ pc'[d] \in {"serve", "answer"} \/ ended' = "killed"
      <4>1. ASSUME NEW bad, Reply(d, bad) PROVE UNCHANGED pc \/ pc'[d] = "serve"
        BY <1>0, <4>1 DEF Reply, Close, Goto
      <4>2. ASSUME NEW i, Report(d, i) PROVE UNCHANGED pc \/ pc'[d] = "serve"
        BY <4>1, <4>2 DEF Report
      <4>3. ASSUME NEW i, NEW up, NEW fails, Change(d, i, up, fails) PROVE UNCHANGED pc \/ pc'[d] = "serve"
        BY <4>1, <4>3 DEF Change
      <4>4. CASE DoAsked(d)
        BY <4>2, <4>3, <4>4 DEF DoAsked, Do
      <4> QED
        BY <1>0, <1>7, <4>4 DEF Serve, Accept, AcceptGone, AnswerGone, Skip, Finished, Close, Gone, Goto
    <3> QED
      BY <1>1, <1>2, <1>3, <2>1, <3>1, <3>2
  <2>2. CASE ended' # ended
    BY <1>1, <1>7, <2>2 DEF Serve, Accept, AcceptGone, DoAsked, AnswerGone, Skip, Finished, Gone
  <2> QED
    BY <2>1, <2>2
<1>8. ASSUME NEW d \in Daemons, Term(d) \/ RemoveSock(d) \/ RemovePid(d) PROVE EndInv'
  BY <1>0, <1>2, <1>8 DEF Term, RemoveSock, RemovePid, Goto
<1>9. ASSUME NEW d \in Daemons, Exit(d) PROVE EndInv'
  BY <1>9 DEF Exit, Inv, PidInv, EndInv
<1>10. ASSUME NEW d \in Daemons, Kill(d) PROVE EndInv'
  BY <1>1, <1>10 DEF Kill, Gone
<1>11. ASSUME NEW c \in Clients, Leave(c) \/ Die(c) \/ \E q \in Asks : Connect(c, q) PROVE EndInv'
  BY <1>3, <1>11 DEF Leave, Die, Connect
<1>12. CASE UNCHANGED vars
  BY <1>3, <1>12 DEF vars, files
<1> QED
  BY <1>4, <1>5, <1>6, <1>7, <1>8, <1>9, <1>10, <1>11, <1>12 DEF Next, Boot, End

\* signalhandler: when the last daemon was stopped by a signal and none runs,
\* neither file is left, whatever daemons were killed or refused before.
THEOREM StoppedClean == Spec => []CleanEnd
<1>1. Init => Inv /\ EndInv
  BY FilesStart DEF Init, EndInv
<1>2. Inv /\ EndInv /\ [Next]_vars => Inv' /\ EndInv'
  BY FilesStep, EndStep
<1>3. EndInv => CleanEnd
  BY DEF EndInv, CleanEnd
<1> QED
  BY <1>1, <1>2, <1>3, PTL DEF Spec

-----------------------------------------------------------------------------
(* Requests. *)

FileTypes == sockfile \in Daemons \cup {NoOne} /\ ended \in {"none", "term", "killed", "error"}

RequestTypes ==
  /\ backlog \in [Daemons -> Seq(Clients)]
  /\ cur \in [Daemons -> [client : Clients \cup {NoOne}, query : Queries \cup {NoQuery}, at : 0 .. Counters]]
  /\ state \in [Daemons -> [Ctrs -> BOOLEAN]] /\ on \in [Daemons -> [Ctrs -> SUBSET CPUs]]
  /\ failed \in [Daemons -> [Ctrs -> SUBSET CPUs]]
  /\ query \in [Clients -> Queries \cup {NoQuery}]
  /\ got \in [Clients -> [n : 0 .. Counters, bad : BOOLEAN]]

\* The clients that wait for a daemon
Waiting(d) == Range(backlog[d])

\* A client waits for one daemon, or is served by one
OnceInv ==
  /\ \A d \in Daemons : IsInjective(backlog[d])
  /\ \A d, e \in Daemons : d # e => Waiting(d) \cap Waiting(e) = {}
  /\ \A d, e \in Daemons : cur[e].client \notin Waiting(d)
  /\ \A d, e \in Daemons : d # e /\ cur[d].client = cur[e].client => cur[d].client = NoOne

\* How many of the first n counters were asked for
Told(q, n) == IF q.ctr = All THEN n ELSE IF q.ctr < n THEN 1 ELSE 0

\* A client has no answers before it is served; then it has those for all
\* counters that the loop has passed
AnswerInv ==
  /\ \A c \in Clients : query[c] = NoQuery \/ (\E d \in Daemons : c \in Waiting(d)) => got[c] = NoAnswer
  /\ \A d \in Daemons : pc[d] = "answer" =>
       /\ cur[d].client \in Clients /\ cur[d].query \in Queries
       /\ query[cur[d].client] # NoQuery =>
            got[cur[d].client] = [n |-> Told(cur[d].query, cur[d].at), bad |-> FALSE]

ReqInv == RequestTypes /\ StateExact /\ OnceInv /\ AnswerInv

LEMMA ToldFacts ==
  ASSUME NEW q \in Queries, NEW n \in 0 .. Counters
  PROVE  /\ Told(q, 0) = 0
         /\ Told(q, n) \in 0 .. Counters
         /\ n < Counters => Told(q, n + 1) = IF Asked(q, n) THEN Told(q, n) + 1 ELSE Told(q, n)
         /\ n = Counters => Told(q, n) = Wants(q)
<1>1. q.ctr \in 0 .. Counters /\ Counters \in Nat \ {0}
  BY CpacfAssumption DEF Queries, All
<1> QED
  BY <1>1 DEF Told, Asked, Wants, All

LEMMA IdleFacts == Idle.client = NoOne /\ Idle \in [client : Clients \cup {NoOne}, query : Queries \cup {NoQuery}, at : 0 .. Counters]
  BY CpacfAssumption DEF Idle

\* A step before the socket, or a signal
LEMMA QuietRequest ==
  ASSUME ReqInv, UNCHANGED <<backlog, cur, counters, clients>>,
         \A d \in Daemons : pc'[d] = "answer" => pc[d] = "answer"
  PROVE  ReqInv'
<1>1. RequestTypes' /\ StateExact' /\ OnceInv'
  BY DEF ReqInv, RequestTypes, StateExact, OnceInv, Waiting, counters, clients
<1>2. AnswerInv'
  BY DEF ReqInv, AnswerInv, Waiting, clients
<1> QED
  BY <1>1, <1>2 DEF ReqInv

\* The end of a daemon, for its counters and for its clients
LEMMA GoneRequest ==
  ASSUME ReqInv, PlacesOK, NEW d \in Daemons, NEW how, Gone(d, how), UNCHANGED clients
  PROVE  ReqInv'
<1> USE DEF ReqInv
<1>1. /\ pc' = [pc EXCEPT ![d] = "gone"] /\ pc \in [Daemons -> Places]
      /\ backlog' = [backlog EXCEPT ![d] = <<>>] /\ cur' = [cur EXCEPT ![d] = Idle]
      /\ UNCHANGED <<query, got>>
  BY DEF Gone, Goto, PlacesOK, clients
<1>2. <<>> \in Seq(Clients) /\ Range(<<>>) = {} /\ IsInjective(<<>>)
  BY DEF Range, IsInjective
<1>3. RequestTypes'
  <2>1. backlog' \in [Daemons -> Seq(Clients)]
    BY <1>1, <1>2 DEF RequestTypes
  <2>2. cur' \in [Daemons -> [client : Clients \cup {NoOne}, query : Queries \cup {NoQuery}, at : 0 .. Counters]]
    BY <1>1, IdleFacts DEF RequestTypes
  <2>3. /\ state' \in [Daemons -> [Ctrs -> BOOLEAN]] /\ on' \in [Daemons -> [Ctrs -> SUBSET CPUs]]
        /\ failed' \in [Daemons -> [Ctrs -> SUBSET CPUs]]
    BY DEF RequestTypes, Gone
  <2> QED
    BY <1>1, <2>1, <2>2, <2>3 DEF RequestTypes
<1>4. StateExact'
  <2> SUFFICES ASSUME NEW e \in Daemons, NEW i \in Ctrs
               PROVE  Fits(on'[e][i], state'[e][i], failed'[e][i])
    BY DEF StateExact
  <2>1. CASE e = d
    BY <2>1 DEF RequestTypes, Gone, Fits
  <2>2. CASE e # d
    BY <2>2 DEF RequestTypes, Gone, StateExact
  <2> QED
    BY <2>1, <2>2
<1>5. \A e \in Daemons : /\ backlog'[e] = IF e = d THEN <<>> ELSE backlog[e]
                         /\ cur'[e] = IF e = d THEN Idle ELSE cur[e]
                         /\ pc'[e] = IF e = d THEN "gone" ELSE pc[e]
  BY <1>1 DEF RequestTypes
<1>6. \A e \in Daemons : Waiting(e)' = IF e = d THEN {} ELSE Waiting(e)
  BY <1>2, <1>5 DEF Waiting
<1>7. OnceInv'
  <2>1. \A e \in Daemons : NoOne \notin Waiting(e)
    <3>1. \A e \in Daemons : Waiting(e) \subseteq Clients
      BY DEF RequestTypes, Waiting, Range
    <3> QED
      BY <3>1, CpacfAssumption
  <2>2. \A e \in Daemons : cur'[e].client = IF e = d THEN NoOne ELSE cur[e].client
    BY <1>5, IdleFacts
  <2> QED
    BY <1>2, <1>5, <1>6, <2>1, <2>2 DEF OnceInv
<1>8. AnswerInv'
  BY <1>1, <1>5, <1>6 DEF AnswerInv
<1> QED
  BY <1>3, <1>4, <1>7, <1>8

LEMMA RemoveSockRequest ==
  ASSUME ReqInv, PlacesOK, NEW d \in Daemons, RemoveSock(d)
  PROVE  ReqInv'
<1> USE DEF ReqInv
<1>1. RequestTypes'
  BY DEF RequestTypes, RemoveSock, clients
<1>2. StateExact'
  <2> SUFFICES ASSUME NEW e \in Daemons, NEW i \in Ctrs
               PROVE  Fits(on'[e][i], state'[e][i], failed'[e][i])
    BY DEF StateExact
  <2>1. CASE e = d
    BY <2>1 DEF RequestTypes, RemoveSock, Fits
  <2>2. CASE e # d
    BY <2>2 DEF RequestTypes, RemoveSock, StateExact
  <2> QED
    BY <2>1, <2>2
<1>3. OnceInv'
  BY DEF OnceInv, RemoveSock, Waiting
<1>4. AnswerInv'
  BY DEF AnswerInv, RemoveSock, Waiting, Goto, PlacesOK, clients
<1> QED
  BY <1>1, <1>2, <1>3, <1>4

LEMMA ConnectRequest ==
  ASSUME ReqInv, NEW c \in Clients, NEW q \in Asks, Connect(c, q)
  PROVE  ReqInv'
<1> USE DEF ReqInv
<1> DEFINE s == sockfile
<1>1. /\ s \in Daemons /\ query[c] = NoQuery /\ Unserved(c) /\ query' = [query EXCEPT ![c] = q]
      /\ backlog' = [backlog EXCEPT ![s] = Append(backlog[s], c)]
      /\ UNCHANGED <<pc, cur, state, on, failed, got>> /\ q \in Queries
  BY AsksAssumption DEF Connect, counters
<1> HIDE DEF s
<1>2. \A e \in Daemons : backlog[e] \in Seq(Clients) /\ cur[e].client # c /\ c \notin Waiting(e)
  BY <1>1 DEF RequestTypes, Unserved, Waiting, Range
<1>3. /\ Append(backlog[s], c) \in Seq(Clients) /\ Range(Append(backlog[s], c)) = Waiting(s) \cup {c}
      /\ IsInjective(backlog[s]) => IsInjective(Append(backlog[s], c))
  BY <1>1, <1>2, AppendFacts DEF Waiting
<1>4. \A e \in Daemons : backlog'[e] = IF e = s THEN Append(backlog[s], c) ELSE backlog[e]
  BY <1>1 DEF RequestTypes
<1>5. \A e \in Daemons : Waiting(e)' = IF e = s THEN Waiting(s) \cup {c} ELSE Waiting(e)
  BY <1>3, <1>4 DEF Waiting
<1>6. RequestTypes' /\ StateExact'
  BY <1>1, <1>3 DEF RequestTypes, StateExact
<1>7. OnceInv'
  <2>1. \A d \in Daemons : IsInjective(backlog'[d])
    BY <1>1, <1>3, <1>4 DEF OnceInv
  <2>2. \A d, e \in Daemons : d # e => Waiting(d)' \cap Waiting(e)' = {}
    BY <1>1, <1>2, <1>5 DEF OnceInv
  <2>3. \A d, e \in Daemons : cur'[e].client \notin Waiting(d)'
    BY <1>1, <1>2, <1>5 DEF OnceInv
  <2> QED
    BY <1>1, <2>1, <2>2, <2>3 DEF OnceInv
<1>8. AnswerInv'
  <2>1. ASSUME NEW b \in Clients, query'[b] = NoQuery \/ (\E d \in Daemons : b \in Waiting(d)')
        PROVE  got'[b] = NoAnswer
    <3>1. CASE b = c
      BY <1>1, <3>1 DEF AnswerInv
    <3>2. CASE b # c
      BY <1>1, <1>5, <2>1, <3>2 DEF AnswerInv, RequestTypes
    <3> QED
      BY <3>1, <3>2
  <2>2. ASSUME NEW d \in Daemons, pc'[d] = "answer"
        PROVE  /\ cur'[d].client \in Clients /\ cur'[d].query \in Queries
               /\ query'[cur'[d].client] # NoQuery =>
                    got'[cur'[d].client] = [n |-> Told(cur'[d].query, cur'[d].at), bad |-> FALSE]
    <3>1. cur'[d].client # c
      BY <1>1, <1>2
    <3> QED
      BY <1>1, <2>2, <3>1 DEF AnswerInv, RequestTypes
  <2> QED
    BY <2>1, <2>2 DEF AnswerInv
<1> QED
  BY <1>6, <1>7, <1>8

\* accept takes the first client of the backlog
LEMMA DropFacts ==
  ASSUME RequestTypes, OnceInv, NEW d \in Daemons, backlog[d] # <<>>,
         backlog' = [backlog EXCEPT ![d] = Tail(backlog[d])]
  PROVE  /\ Head(backlog[d]) \in Waiting(d)
         /\ Head(backlog[d]) \in Clients
         /\ backlog' \in [Daemons -> Seq(Clients)]
         /\ \A e \in Daemons : IsInjective(backlog'[e])
         /\ \A e \in Daemons : Waiting(e)' \subseteq Waiting(e) /\ Head(backlog[d]) \notin Waiting(e)'
<1>1. backlog[d] \in Seq(Clients) /\ IsInjective(backlog[d])
  BY DEF RequestTypes, OnceInv
<1>2. /\ Tail(backlog[d]) \in Seq(Clients) /\ Head(backlog[d]) \in Clients /\ Head(backlog[d]) \in Waiting(d)
      /\ Range(Tail(backlog[d])) \subseteq Waiting(d) /\ IsInjective(Tail(backlog[d]))
      /\ Head(backlog[d]) \notin Range(Tail(backlog[d]))
  BY <1>1, TailFacts DEF Waiting
<1>3. \A e \in Daemons : backlog'[e] = IF e = d THEN Tail(backlog[d]) ELSE backlog[e]
  BY DEF RequestTypes
<1>4. \A e \in Daemons : Waiting(e)' = IF e = d THEN Range(Tail(backlog[d])) ELSE Waiting(e)
  BY <1>3 DEF Waiting
<1>5. \A e \in Daemons : e # d => Head(backlog[d]) \notin Waiting(e)
  BY <1>2 DEF OnceInv
<1>6. \A e \in Daemons : IsInjective(backlog'[e])
  BY <1>2, <1>3 DEF OnceInv
<1>7. backlog' \in [Daemons -> Seq(Clients)]
  BY <1>2 DEF RequestTypes
<1> QED
  BY <1>2, <1>4, <1>5, <1>6, <1>7

LEMMA AcceptRequest ==
  ASSUME ReqInv, PlacesOK, NEW d \in Daemons, Accept(d)
  PROVE  ReqInv'
<1> USE DEF ReqInv
<1> DEFINE c == Head(backlog[d])
<1>1. /\ backlog[d] # <<>> /\ query[c] # NoQuery /\ backlog' = [backlog EXCEPT ![d] = Tail(backlog[d])]
      /\ cur' = [cur EXCEPT ![d] = [client |-> c, query |-> query[c], at |-> 0]]
      /\ pc' = [pc EXCEPT ![d] = "answer"] /\ UNCHANGED <<state, on, failed, query, got>>
  BY DEF Accept, Goto, counters, clients
<1>2. /\ c \in Waiting(d) /\ c \in Clients /\ backlog' \in [Daemons -> Seq(Clients)]
      /\ \A e \in Daemons : IsInjective(backlog'[e])
      /\ \A e \in Daemons : Waiting(e)' \subseteq Waiting(e) /\ c \notin Waiting(e)'
  BY <1>1, DropFacts
<1> HIDE DEF c
<1>3. query[c] \in Queries /\ 0 \in 0 .. Counters
  BY <1>1, <1>2, CpacfAssumption DEF RequestTypes
<1>4. RequestTypes' /\ StateExact'
  <2>1. [client |-> c, query |-> query[c], at |-> 0]
          \in [client : Clients \cup {NoOne}, query : Queries \cup {NoQuery}, at : 0 .. Counters]
    BY <1>2, <1>3
  <2> QED
    BY <1>1, <1>2, <2>1 DEF RequestTypes, StateExact
<1>5. \A e \in Daemons : cur'[e] = IF e = d THEN [client |-> c, query |-> query[c], at |-> 0] ELSE cur[e]
  BY <1>1 DEF RequestTypes
<1>6. \A e \in Daemons : cur'[e].client = IF e = d THEN c ELSE cur[e].client
  BY <1>5
<1>7. OnceInv'
  <2>1. \A e \in Daemons : cur[e].client # c
    BY <1>2 DEF OnceInv
  <2>2. \A e, f \in Daemons : e # f => Waiting(e)' \cap Waiting(f)' = {}
    BY <1>2 DEF OnceInv
  <2>3. \A e, f \in Daemons : cur'[f].client \notin Waiting(e)'
    BY <1>2, <1>6 DEF OnceInv
  <2>4. \A e, f \in Daemons : e # f /\ cur'[e].client = cur'[f].client => cur'[e].client = NoOne
    BY <1>6, <2>1 DEF OnceInv
  <2> QED
    BY <1>2, <2>2, <2>3, <2>4 DEF OnceInv
<1>8. AnswerInv'
  <2>1. \A b \in Clients : query'[b] = NoQuery \/ (\E e \in Daemons : b \in Waiting(e)') => got'[b] = NoAnswer
    BY <1>1, <1>2 DEF AnswerInv
  <2>2. ASSUME NEW e \in Daemons, pc'[e] = "answer"
        PROVE  /\ cur'[e].client \in Clients /\ cur'[e].query \in Queries
               /\ query'[cur'[e].client] # NoQuery =>
                    got'[cur'[e].client] = [n |-> Told(cur'[e].query, cur'[e].at), bad |-> FALSE]
    <3>1. CASE e = d
      <4>1. cur'[e].client = c /\ cur'[e].query = query[c] /\ cur'[e].at = 0
        BY <1>5, <3>1
      <4>2. got'[c] = NoAnswer /\ Told(query[c], 0) = 0
        BY <1>1, <1>2, <1>3, ToldFacts DEF AnswerInv
      <4> QED
        BY <1>2, <1>3, <4>1, <4>2 DEF NoAnswer
    <3>2. CASE e # d
      <4>1. pc[e] = "answer" /\ cur'[e] = cur[e]
        BY <1>1, <1>5, <2>2, <3>2 DEF PlacesOK
      <4> QED
        BY <1>1, <4>1 DEF AnswerInv
    <3> QED
      BY <3>1, <3>2
  <2> QED
    BY <2>1, <2>2 DEF AnswerInv
<1> QED
  BY <1>4, <1>7, <1>8

LEMMA AcceptGoneRequest ==
  ASSUME ReqInv, PlacesOK, NEW d \in Daemons, AcceptGone(d)
  PROVE  ReqInv'
<1>1. CASE Gone(d, "killed")
  BY <1>1, GoneRequest DEF AcceptGone
<1>2. CASE backlog' = [backlog EXCEPT ![d] = Tail(backlog[d])] /\ UNCHANGED <<pc, cur, counters>>
  <2> USE DEF ReqInv
  <2>1. /\ backlog' \in [Daemons -> Seq(Clients)]
        /\ \A e \in Daemons : IsInjective(backlog'[e])
        /\ \A e \in Daemons : Waiting(e)' \subseteq Waiting(e)
    BY <1>2, DropFacts DEF AcceptGone
  <2>2. UNCHANGED <<query, got, cur, state, on, failed, pc>>
    BY <1>2 DEF AcceptGone, clients, counters
  <2>3. RequestTypes' /\ StateExact'
    BY <2>1, <2>2 DEF RequestTypes, StateExact
  <2>4. OnceInv'
    BY <2>1, <2>2 DEF OnceInv
  <2>5. AnswerInv'
    BY <2>1, <2>2 DEF AnswerInv
  <2> QED
    BY <2>3, <2>4, <2>5
<1> QED
  BY <1>1, <1>2 DEF AcceptGone

\* The loop goes on to the next counter, or closes the connection
LEMMA CurFacts ==
  ASSUME RequestTypes, NEW d \in Daemons, cur[d].at < Counters,
         cur' = [cur EXCEPT ![d].at = @ + 1] \/ cur' = [cur EXCEPT ![d] = Idle]
  PROVE  /\ cur' \in [Daemons -> [client : Clients \cup {NoOne}, query : Queries \cup {NoQuery}, at : 0 .. Counters]]
         /\ \A e \in Daemons : e # d => cur'[e] = cur[e]
         /\ cur'[d].client \in {cur[d].client, NoOne}
         /\ cur' = [cur EXCEPT ![d].at = @ + 1] =>
              cur'[d].client = cur[d].client /\ cur'[d].query = cur[d].query /\ cur'[d].at = cur[d].at + 1
<1>1. cur[d] \in [client : Clients \cup {NoOne}, query : Queries \cup {NoQuery}, at : 0 .. Counters] /\ Counters \in Nat
  BY CpacfAssumption DEF RequestTypes
<1>2. CASE cur' = [cur EXCEPT ![d].at = @ + 1]
  <2>1. cur' = [cur EXCEPT ![d] = [cur[d] EXCEPT !.at = cur[d].at + 1]]
    BY <1>2
  <2>2. [cur[d] EXCEPT !.at = cur[d].at + 1] \in [client : Clients \cup {NoOne}, query : Queries \cup {NoQuery}, at : 0 .. Counters]
    BY <1>1
  <2>3. cur'[d] = [cur[d] EXCEPT !.at = cur[d].at + 1] /\ \A e \in Daemons : e # d => cur'[e] = cur[e]
    BY <2>1 DEF RequestTypes
  <2>4. cur'[d].client = cur[d].client /\ cur'[d].query = cur[d].query /\ cur'[d].at = cur[d].at + 1
    BY <1>1, <2>3
  <2> QED
    BY <2>1, <2>2, <2>3, <2>4 DEF RequestTypes
<1>3. CASE cur' = [cur EXCEPT ![d] = Idle] /\ cur' # [cur EXCEPT ![d].at = @ + 1]
  BY <1>1, <1>3, IdleFacts DEF RequestTypes
<1> QED
  BY <1>2, <1>3

LEMMA CurOnce ==
  ASSUME OnceInv, RequestTypes, NEW d \in Daemons, cur'[d].client \in {cur[d].client, NoOne}, UNCHANGED backlog,
         \A e \in Daemons : e # d => cur'[e] = cur[e]
  PROVE  OnceInv'
<1>1. \A e \in Daemons : cur'[e].client = cur[e].client \/ cur'[e].client = NoOne
  OBVIOUS
<1>2. \A e \in Daemons : Waiting(e)' = Waiting(e) /\ NoOne \notin Waiting(e)
  <2>1. \A e \in Daemons : Waiting(e) \subseteq Clients
    BY DEF RequestTypes, Waiting, Range
  <2> QED
    BY <2>1, CpacfAssumption DEF Waiting
<1> QED
  BY <1>1, <1>2 DEF OnceInv

\* send_answer for a counter that was asked for
LEMMA ReplyFacts ==
  ASSUME ReqInv, PlacesOK, NEW d \in Daemons, NEW bad \in BOOLEAN, Reply(d, bad), pc[d] = "answer",
         cur[d].at < Counters, Asked(cur[d].query, cur[d].at), query[cur[d].client] # NoQuery,
         UNCHANGED <<backlog, query>>
  PROVE  /\ cur' \in [Daemons -> [client : Clients \cup {NoOne}, query : Queries \cup {NoQuery}, at : 0 .. Counters]]
         /\ got' \in [Clients -> [n : 0 .. Counters, bad : BOOLEAN]]
         /\ OnceInv' /\ AnswerInv'
<1> USE DEF ReqInv
<1> DEFINE c == cur[d].client  q == cur[d].query  at == cur[d].at
<1>1. /\ c \in Clients /\ q \in Queries /\ at \in 0 .. Counters /\ at < Counters /\ Asked(q, at)
      /\ got[c] = [n |-> Told(q, at), bad |-> FALSE] /\ query[c] # NoQuery
  BY DEF AnswerInv, RequestTypes
<1>2. Told(q, at + 1) = Told(q, at) + 1 /\ Told(q, at + 1) \in 0 .. Counters
  <2>1. at + 1 \in 0 .. Counters
    BY <1>1, CpacfAssumption
  <2> QED
    BY <1>1, <2>1, ToldFacts
<1>3. got' = [got EXCEPT ![c] = [n |-> Told(q, at + 1), bad |-> bad]]
  <2>1. got' = [got EXCEPT ![c] = [n |-> got[c].n + 1, bad |-> bad]]
    BY DEF Reply
  <2>2. got[c].n + 1 = Told(q, at + 1)
    BY <1>1, <1>2
  <2> QED
    BY <2>1, <2>2
<1>4. got' \in [Clients -> [n : 0 .. Counters, bad : BOOLEAN]]
  BY <1>2, <1>3 DEF RequestTypes
<1>5. \/ ~bad /\ UNCHANGED pc /\ cur' = [cur EXCEPT ![d].at = @ + 1]
      \/ bad /\ pc' = [pc EXCEPT ![d] = "serve"] /\ cur' = [cur EXCEPT ![d] = Idle]
  BY DEF Reply, Close, Goto
<1>6. /\ cur' \in [Daemons -> [client : Clients \cup {NoOne}, query : Queries \cup {NoQuery}, at : 0 .. Counters]]
      /\ \A e \in Daemons : e # d => cur'[e] = cur[e]
      /\ cur'[d].client \in {cur[d].client, NoOne}
      /\ ~bad => cur'[d].client = c /\ cur'[d].query = q /\ cur'[d].at = at + 1
  BY <1>1, <1>5, CurFacts
<1>7. OnceInv'
  BY <1>6, CurOnce
<1>8. AnswerInv'
  <2>1. \A e \in Daemons : Waiting(e)' = Waiting(e) /\ c \notin Waiting(e)
    BY DEF Waiting, OnceInv
  <2>2. \A b \in Clients : got'[b] = IF b = c THEN [n |-> Told(q, at + 1), bad |-> bad] ELSE got[b]
    BY <1>3 DEF RequestTypes
  <2>3. \A b \in Clients : query'[b] = NoQuery \/ (\E e \in Daemons : b \in Waiting(e)') => got'[b] = NoAnswer
    BY <1>1, <2>1, <2>2 DEF AnswerInv
  <2>4. ASSUME NEW e \in Daemons, pc'[e] = "answer"
        PROVE  /\ cur'[e].client \in Clients /\ cur'[e].query \in Queries
               /\ query'[cur'[e].client] # NoQuery =>
                    got'[cur'[e].client] = [n |-> Told(cur'[e].query, cur'[e].at), bad |-> FALSE]
    <3>1. CASE e = d
      <4>1. ~bad
        BY <1>5, <2>4, <3>1 DEF PlacesOK
      <4> QED
        BY <1>1, <1>6, <2>2, <3>1, <4>1
    <3>2. CASE e # d
      <4>1. pc[e] = "answer" /\ cur'[e] = cur[e]
        BY <1>5, <1>6, <2>4, <3>2 DEF PlacesOK
      <4>2. cur[e].client \in Clients /\ cur[e].client # c
        BY <1>1, <3>2, <4>1, CpacfAssumption DEF AnswerInv, OnceInv
      <4> QED
        BY <2>2, <4>1, <4>2 DEF AnswerInv
    <3> QED
      BY <3>1, <3>2
  <2> QED
    BY <2>3, <2>4 DEF AnswerInv
<1> QED
  BY <1>4, <1>6, <1>7, <1>8

\* perf_enable_ctr and perf_disable_ctr, and what ctr_state makes of them
LEMMA ChangeFacts ==
  ASSUME ReqInv, NEW d \in Daemons, NEW i \in Ctrs, NEW up \in BOOLEAN, NEW fails \in SUBSET CPUs,
         state[d][i] # up, Switched(d, i, up, fails), SetState(d, i, up, fails)
  PROVE  /\ state' \in [Daemons -> [Ctrs -> BOOLEAN]] /\ on' \in [Daemons -> [Ctrs -> SUBSET CPUs]]
         /\ failed' \in [Daemons -> [Ctrs -> SUBSET CPUs]]
         /\ StateExact'
<1> USE DEF ReqInv
<1> DEFINE bits == IF up THEN on[d][i] \cup (CPUs \ fails) ELSE on[d][i] \cap fails
           st == IF fails = {} THEN up ELSE state[d][i]
<1>1. /\ on' = [on EXCEPT ![d] = [on[d] EXCEPT ![i] = bits]]
      /\ state' = [state EXCEPT ![d] = [state[d] EXCEPT ![i] = st]]
      /\ failed' = [failed EXCEPT ![d] = [failed[d] EXCEPT ![i] = fails]]
  BY DEF Switched, SetState
<1>2. /\ on[d] \in [Ctrs -> SUBSET CPUs] /\ state[d] \in [Ctrs -> BOOLEAN] /\ failed[d] \in [Ctrs -> SUBSET CPUs]
      /\ on[d][i] \subseteq CPUs /\ state[d][i] \in BOOLEAN /\ Fits(on[d][i], state[d][i], failed[d][i])
  BY DEF RequestTypes, StateExact
<1>3. bits \in SUBSET CPUs /\ st \in BOOLEAN
  BY <1>2
<1>4. Fits(bits, st, fails)
  <2>1. CASE up
    BY <1>2, <2>1 DEF Fits
  <2>2. CASE ~up
    BY <1>2, <2>2 DEF Fits
  <2> QED
    BY <2>1, <2>2
<1> HIDE DEF bits, st
<1>5. /\ on' \in [Daemons -> [Ctrs -> SUBSET CPUs]]
      /\ \A e \in Daemons : \A j \in Ctrs : on'[e][j] = IF e = d /\ j = i THEN bits ELSE on[e][j]
  BY <1>1, <1>2, <1>3 DEF RequestTypes
<1>6. /\ state' \in [Daemons -> [Ctrs -> BOOLEAN]] /\ failed' \in [Daemons -> [Ctrs -> SUBSET CPUs]]
      /\ state'[d] = [state[d] EXCEPT ![i] = st] /\ failed'[d] = [failed[d] EXCEPT ![i] = fails]
      /\ \A e \in Daemons : e # d => state'[e] = state[e] /\ failed'[e] = failed[e]
  BY <1>1, <1>2, <1>3, Zenon DEF RequestTypes
<1>7. StateExact'
  <2> SUFFICES ASSUME NEW e \in Daemons, NEW j \in Ctrs
               PROVE  Fits(on'[e][j], state'[e][j], failed'[e][j])
    BY DEF StateExact
  <2>1. CASE e = d /\ j = i
    <3>1. state'[d][i] = st /\ failed'[d][i] = fails
      BY <1>2, <1>6, Zenon
    <3> QED
      BY <1>4, <1>5, <2>1, <3>1
  <2>2. CASE ~ (e = d /\ j = i)
    <3>1. state'[e][j] = state[e][j] /\ failed'[e][j] = failed[e][j]
      <4>1. CASE e # d
        BY <1>6, <4>1, Zenon
      <4>2. CASE e = d /\ j # i
        <5>1. state'[d][j] = state[d][j] /\ failed'[d][j] = failed[d][j]
          BY <1>2, <1>6, <4>2, Zenon
        <5> QED
          BY <4>2, <5>1
      <4> QED
        BY <2>2, <4>1, <4>2
    <3> QED
      BY <1>5, <2>2, <3>1 DEF StateExact
  <2> QED
    BY <2>1, <2>2
<1> QED
  BY <1>5, <1>6, <1>7

LEMMA DoRequest ==
  ASSUME ReqInv, PlacesOK, NEW d \in Daemons, DoAsked(d)
  PROVE  ReqInv'
<1> DEFINE i == cur[d].at
<1>1. /\ pc[d] = "answer" /\ i < Counters /\ Asked(cur[d].query, i) /\ query[cur[d].client] # NoQuery
      /\ UNCHANGED <<backlog, query>> /\ Do(d, i, cur[d].query.cmd)
  BY DEF DoAsked
<1>2. i \in Ctrs
  <2>1. i \in 0 .. Counters
    BY DEF ReqInv, RequestTypes
  <2> QED
    BY <1>1, <2>1, CpacfAssumption DEF Ctrs
<1> HIDE DEF i
<1>3. \E bad \in BOOLEAN : Reply(d, bad)
  <2>1. ASSUME NEW j, Report(d, j) PROVE \E bad \in BOOLEAN : Reply(d, bad)
    BY <2>1 DEF Report
  <2>2. ASSUME NEW up, NEW fails, Change(d, i, up, fails) PROVE \E bad \in BOOLEAN : Reply(d, bad)
    <3>1. (fails # {}) \in BOOLEAN /\ TRUE \in BOOLEAN
      OBVIOUS
    <3> QED
      BY <2>2, <3>1 DEF Change
  <2> QED
    BY <1>1, <2>1, <2>2 DEF Do
<1>4. /\ cur' \in [Daemons -> [client : Clients \cup {NoOne}, query : Queries \cup {NoQuery}, at : 0 .. Counters]]
      /\ got' \in [Clients -> [n : 0 .. Counters, bad : BOOLEAN]]
      /\ OnceInv' /\ AnswerInv'
  BY <1>1, <1>3, ReplyFacts DEF i
<1>5. /\ state' \in [Daemons -> [Ctrs -> BOOLEAN]] /\ on' \in [Daemons -> [Ctrs -> SUBSET CPUs]]
      /\ failed' \in [Daemons -> [Ctrs -> SUBSET CPUs]]
      /\ StateExact'
  <2>1. CASE UNCHANGED counters
    BY <2>1 DEF ReqInv, RequestTypes, StateExact, counters
  <2>2. ASSUME NEW up \in BOOLEAN, NEW fails \in SUBSET CPUs, state[d][i] # up,
               Switched(d, i, up, fails), SetState(d, i, up, fails)
        PROVE  /\ state' \in [Daemons -> [Ctrs -> BOOLEAN]] /\ on' \in [Daemons -> [Ctrs -> SUBSET CPUs]]
               /\ failed' \in [Daemons -> [Ctrs -> SUBSET CPUs]]
               /\ StateExact'
    BY <1>2, <2>2, ChangeFacts
  <2>3. \/ UNCHANGED counters
        \/ \E up \in BOOLEAN, fails \in SUBSET CPUs :
             state[d][i] # up /\ Switched(d, i, up, fails) /\ SetState(d, i, up, fails)
    <3>1. (cur[d].query.cmd = "enable") \in BOOLEAN
      OBVIOUS
    <3>2. \A fails : Change(d, i, cur[d].query.cmd = "enable", fails)
             => /\ state[d][i] # (cur[d].query.cmd = "enable")
                /\ Switched(d, i, cur[d].query.cmd = "enable", fails)
                /\ SetState(d, i, cur[d].query.cmd = "enable", fails)
      BY DEF Change
    <3>3. Report(d, i) => UNCHANGED counters
      BY DEF Report
    <3>4. Report(d, i) \/ \E fails \in SUBSET CPUs : Change(d, i, cur[d].query.cmd = "enable", fails)
      BY <1>1 DEF Do
    <3> QED
      BY <3>1, <3>2, <3>3, <3>4, Zenon
  <2> QED
    BY <2>1, <2>2, <2>3
<1> QED
  BY <1>1, <1>4, <1>5 DEF ReqInv, RequestTypes

\* A counter that was not asked for, and the end of a request
LEMMA LoopRequest ==
  ASSUME ReqInv, PlacesOK, NEW d \in Daemons, Skip(d) \/ Finished(d)
  PROVE  ReqInv'
<1> USE DEF ReqInv
<1>0. UNCHANGED <<backlog, state, on, failed, query, got>>
  BY DEF Skip, Finished, counters, clients
<1>1. CASE Skip(d)
  <2>1. /\ cur' \in [Daemons -> [client : Clients \cup {NoOne}, query : Queries \cup {NoQuery}, at : 0 .. Counters]]
        /\ \A e \in Daemons : e # d => cur'[e] = cur[e]
        /\ cur'[d].client = cur[d].client /\ cur'[d].query = cur[d].query /\ cur'[d].at = cur[d].at + 1
    BY <1>1, CurFacts DEF Skip
  <2>2. RequestTypes' /\ StateExact' /\ OnceInv'
    BY <1>0, <2>1, CurOnce DEF RequestTypes, StateExact
  <2>3. cur[d].query \in Queries => Told(cur[d].query, cur[d].at + 1) = Told(cur[d].query, cur[d].at)
    <3>1. cur[d].at \in 0 .. Counters /\ cur[d].at < Counters /\ ~ Asked(cur[d].query, cur[d].at)
      BY <1>1 DEF RequestTypes, Skip
    <3> QED
      BY <3>1, ToldFacts
  <2>4. AnswerInv'
    <3>1. UNCHANGED pc
      BY <1>1 DEF Skip
    <3>2. \A b \in Clients : query'[b] = NoQuery \/ (\E e \in Daemons : b \in Waiting(e)') => got'[b] = NoAnswer
      BY <1>0 DEF AnswerInv, Waiting
    <3>3. ASSUME NEW e \in Daemons, pc'[e] = "answer"
          PROVE  /\ cur'[e].client \in Clients /\ cur'[e].query \in Queries
                 /\ query'[cur'[e].client] # NoQuery =>
                      got'[cur'[e].client] = [n |-> Told(cur'[e].query, cur'[e].at), bad |-> FALSE]
      <4>1. /\ cur[e].client \in Clients /\ cur[e].query \in Queries
            /\ query[cur[e].client] # NoQuery =>
                 got[cur[e].client] = [n |-> Told(cur[e].query, cur[e].at), bad |-> FALSE]
        BY <3>1, <3>3 DEF AnswerInv
      <4>2. CASE e = d
        BY <1>0, <2>1, <2>3, <4>1, <4>2
      <4>3. CASE e # d
        BY <1>0, <2>1, <4>1, <4>3
      <4> QED
        BY <4>2, <4>3
    <3> QED
      BY <3>2, <3>3 DEF AnswerInv
  <2> QED
    BY <2>2, <2>4
<1>2. CASE Finished(d)
  <2>1. cur' = [cur EXCEPT ![d] = Idle] /\ pc' = [pc EXCEPT ![d] = "serve"]
    BY <1>2 DEF Finished, Close, Goto
  <2>2. /\ cur' \in [Daemons -> [client : Clients \cup {NoOne}, query : Queries \cup {NoQuery}, at : 0 .. Counters]]
        /\ \A e \in Daemons : e # d => cur'[e] = cur[e]
        /\ cur'[d].client = NoOne
    BY <2>1, IdleFacts DEF RequestTypes
  <2>3. RequestTypes' /\ StateExact' /\ OnceInv'
    BY <1>0, <2>2, CurOnce DEF RequestTypes, StateExact
  <2>4. \A e \in Daemons : pc'[e] = "answer" => e # d /\ pc[e] = "answer"
    BY <2>1 DEF PlacesOK
  <2>5. AnswerInv'
    BY <1>0, <2>2, <2>4 DEF AnswerInv, Waiting
  <2> QED
    BY <2>3, <2>5
<1> QED
  BY <1>1, <1>2

\* A client ends, with or without its answers
LEMMA LeaveRequest ==
  ASSUME ReqInv, NEW c \in Clients, Leave(c) \/ Die(c)
  PROVE  ReqInv'
<1> USE DEF ReqInv
<1>1. /\ query' = [query EXCEPT ![c] = NoQuery] /\ got' = [got EXCEPT ![c] = NoAnswer]
      /\ UNCHANGED <<backlog, pc, cur, state, on, failed>>
  BY DEF Leave, Die, counters
<1>2. NoAnswer \in [n : 0 .. Counters, bad : BOOLEAN]
  BY CpacfAssumption DEF NoAnswer
<1>3. RequestTypes' /\ StateExact' /\ OnceInv'
  BY <1>1, <1>2 DEF RequestTypes, StateExact, OnceInv, Waiting
<1>4. \A b \in Clients : /\ query'[b] = IF b = c THEN NoQuery ELSE query[b]
                         /\ got'[b] = IF b = c THEN NoAnswer ELSE got[b]
  BY <1>1 DEF RequestTypes
<1>5. AnswerInv'
  BY <1>1, <1>4 DEF AnswerInv, Waiting
<1> QED
  BY <1>3, <1>5

LEMMA RequestStep == ASSUME Inv, ReqInv, [Next]_vars PROVE ReqInv'
<1>0. PlacesOK
  BY DEF Inv
<1>1. ASSUME NEW d \in Daemons, NEW where, Goto(d, where), where # "answer",
             UNCHANGED <<backlog, cur, counters, clients>>
      PROVE  ReqInv'
  <2>1. \A e \in Daemons : pc'[e] = "answer" => pc[e] = "answer"
    BY <1>0, <1>1 DEF Goto, PlacesOK
  <2> QED
    BY <1>1, <2>1, QuietRequest
<1>2. ASSUME NEW d \in Daemons, NEW how, Gone(d, how), UNCHANGED clients PROVE ReqInv'
  BY <1>0, <1>2, GoneRequest
<1>3. ASSUME NEW d \in Daemons, Start(d) \/ Term(d) PROVE ReqInv'
  BY <1>1, <1>3 DEF Start, Term
<1>4. ASSUME NEW d \in Daemons, Boot(d) PROVE ReqInv'
  <2>1. CASE ReadPid(d) \/ RemoveStale(d) \/ FillPid(d)
    <3>1. PICK where : Goto(d, where) /\ where # "answer"
      BY <2>1 DEF ReadPid, RemoveStale, FillPid
    <3> QED
      BY <1>1, <2>1, <3>1 DEF ReadPid, RemoveStale, FillPid
  <2>2. CASE Refuse(d)
    BY <1>2, <2>2 DEF Refuse
  <2>3. CASE CreatePid(d)
    BY <1>1, <1>2, <2>3 DEF CreatePid
  <2>4. CASE PerfInit(d)
    BY <1>1, <1>2, <2>4 DEF PerfInit
  <2>5. CASE Bind(d)
    BY <1>1, <1>2, <2>5 DEF Bind
  <2> QED
    BY <1>4, <2>1, <2>2, <2>3, <2>4, <2>5 DEF Boot
<1>5. ASSUME NEW d \in Daemons, Serve(d) PROVE ReqInv'
  <2>1. CASE AnswerGone(d)
    BY <1>2, <2>1 DEF AnswerGone
  <2> QED
    BY <1>0, <1>5, <2>1, AcceptRequest, AcceptGoneRequest, DoRequest, LoopRequest DEF Serve
<1>6. ASSUME NEW d \in Daemons, End(d) PROVE ReqInv'
  <2>1. CASE RemovePid(d)
    BY <1>1, <2>1 DEF RemovePid
  <2>2. CASE Exit(d)
    BY <1>2, <2>2 DEF Exit
  <2> QED
    BY <1>0, <1>6, <2>1, <2>2, RemoveSockRequest DEF End
<1>7. ASSUME NEW d \in Daemons, Kill(d) PROVE ReqInv'
  BY <1>2, <1>7 DEF Kill
<1>8. ASSUME NEW c \in Clients, Leave(c) \/ Die(c) \/ \E q \in Asks : Connect(c, q) PROVE ReqInv'
  BY <1>8, LeaveRequest, ConnectRequest
<1>9. CASE UNCHANGED vars
  BY <1>9, QuietRequest DEF vars, counters, clients
<1> QED
  BY <1>3, <1>4, <1>5, <1>6, <1>7, <1>8, <1>9 DEF Next

LEMMA FileTypesStep == ASSUME Inv, FileTypes, [Next]_vars PROVE FileTypes'
<1>1. ASSUME NEW d \in Daemons, Start(d) \/ Boot(d) \/ Term(d) \/ End(d) \/ Kill(d) PROVE FileTypes'
  BY <1>1 DEF FileTypes, Start, Boot, ReadPid, RemoveStale, Refuse, CreatePid, FillPid, PerfInit, Bind, Term,
     End, RemoveSock, RemovePid, Exit, Kill, Gone, files
<1>2. ASSUME NEW d \in Daemons, Serve(d) PROVE FileTypes'
  BY <1>2 DEF FileTypes, Serve, Accept, AcceptGone, DoAsked, AnswerGone, Skip, Finished, Gone, files
<1>3. ASSUME NEW c \in Clients, Leave(c) \/ Die(c) \/ \E q \in Asks : Connect(c, q) PROVE FileTypes'
  BY <1>3 DEF FileTypes, Leave, Die, Connect, files
<1>4. CASE UNCHANGED vars
  BY <1>4 DEF FileTypes, vars
<1> QED
  BY <1>1, <1>2, <1>3, <1>4 DEF Next

LEMMA RequestStart == ASSUME Init PROVE FileTypes /\ ReqInv
<1>1. FileTypes
  BY DEF Init, FileTypes
<1>2. /\ \A d \in Daemons : backlog[d] = <<>> /\ cur[d] = Idle /\ pc[d] = "new"
      /\ \A c \in Clients : got[c] = NoAnswer
      /\ \A d \in Daemons : \A i \in Ctrs : on[d][i] = {} /\ state[d][i] = FALSE /\ failed[d][i] = {}
  BY DEF Init
<1>3. <<>> \in Seq(Clients) /\ Range(<<>>) = {} /\ IsInjective(<<>>)
  BY DEF Range, IsInjective
<1>4. NoAnswer \in [n : 0 .. Counters, bad : BOOLEAN]
  BY CpacfAssumption DEF NoAnswer
<1>5. RequestTypes
  BY <1>3, <1>4, IdleFacts DEF Init, RequestTypes
<1>6. StateExact /\ OnceInv /\ AnswerInv
  BY <1>2, <1>3, IdleFacts DEF StateExact, Fits, OnceInv, AnswerInv, Waiting
<1> QED
  BY <1>1, <1>5, <1>6 DEF ReqInv

\* For any number of clients, counters and CPUs: ctr_state is what the counters
\* do, but for the CPUs on which the last change of a counter failed, and a
\* client that waits gets exactly the answers it waits for, whoever else is
\* interrupted while it waits or is served.
THEOREM RequestsExact == Spec => []RequestInv
<1> DEFINE All3 == Inv /\ FileTypes /\ ReqInv
<1>1. Init => All3
  BY FilesStart, RequestStart
<1>2. All3 /\ [Next]_vars => All3'
  BY FilesStep, FileTypesStep, RequestStep
<1>3. All3 => RequestInv
  <2> SUFFICES ASSUME Inv, FileTypes, ReqInv PROVE RequestInv
    OBVIOUS
  <2>1. \A d \in Daemons : \A i \in DOMAIN backlog[d] : backlog[d][i] \in Clients
    BY DEF ReqInv, RequestTypes
  <2>2. TypeOK
    BY <2>1 DEF Inv, PlacesOK, Places, FileTypes, ReqInv, RequestTypes, TypeOK
  <2>3. ASSUME NEW d \in Daemons, pc[d] = "answer", cur[d].at = Counters, query[cur[d].client] # NoQuery
        PROVE  got[cur[d].client].n = Wants(cur[d].query) /\ ~ got[cur[d].client].bad
    <3>1. cur[d].query \in Queries /\ got[cur[d].client] = [n |-> Told(cur[d].query, Counters), bad |-> FALSE]
      BY <2>3 DEF ReqInv, AnswerInv
    <3>2. Told(cur[d].query, Counters) = Wants(cur[d].query)
      <4>1. Counters \in 0 .. Counters
        BY CpacfAssumption
      <4> QED
        BY <3>1, <4>1, ToldFacts
    <3> QED
      BY <3>1, <3>2
  <2> QED
    BY <2>2, <2>3 DEF RequestInv, Answered, ReqInv
<1> HIDE DEF All3
<1> QED
  BY <1>1, <1>2, <1>3, PTL DEF Spec
=============================================================================
