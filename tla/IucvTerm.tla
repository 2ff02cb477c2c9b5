------------------------------ MODULE IucvTerm ------------------------------
(***************************************************************************)
(* A terminal session between iucvconn and iucvtty: two loops that copy    *)
(* between a terminal, or a pty, and an AF_IUCV socket that carries typed  *)
(* messages.  Each loop has one message buffer for both directions; a      *)
(* message that is not read as a whole is continued in later calls, by the *)
(* number of bytes still to come.  Signals announce the end of the login   *)
(* program and changes of the window, select wakes up for them only if it  *)
(* is waiting already.                                                     *)
(***************************************************************************)
EXTENDS Integers, Sequences, SequencesExt

CONSTANTS Chars,       \* keys of the keyboard, with "esc", "d" and "r"
          Escape,      \* the escape character, or "none"
          BufSize,     \* bytes of data that fit in a message buffer
          Windows,     \* sizes of the window
          Faults,      \* what can go wrong in iucvtty
          MaxKeys,     \* bound: keys typed
          MaxOutput,   \* bound: bytes the login program writes
          MaxSignals   \* bound: changes of the window and SIGTERMs

ASSUME IucvAssumption ==
  /\ BufSize \in Nat \ {0} /\ Windows # {}
  /\ Faults \subseteq {"none", "denied", "fork", "login_tty", "exec"} /\ Faults # {}
  /\ MaxKeys \in Nat /\ MaxOutput \in Nat /\ MaxSignals \in Nat

VARIABLES
  up, down,        \* messages on their way from and to iucvconn
  upOpen, downOpen,  \* the sockets of iucvconn and of iucvtty
  \* iucvconn
  cpc, cready,     \* its place in the loop, and what select found
  cchunk, ctype,   \* chunk, and msg->type
  escMode,         \* in_esc_mode
  resize, window,  \* resize_tty, and the size of the window
  keys, typed,     \* keys not read yet, number of keys typed
  sent,            \* keys that were sent so far
  shown, errors,   \* bytes on the screen, error messages shown
  \* iucvtty
  spc, sready, schunk, stype,
  fault,           \* what goes wrong this time
  child,           \* the login program
  shutdown,        \* sig_shutdown
  ptyOut, wrote,   \* output not read yet, number of bytes written
  input, ptyWindow,  \* keys the pty got, size of its window
  signals

conn == <<cpc, cready, cchunk, ctype, escMode, resize, window, keys, typed, sent, shown, errors>>
tty == <<spc, sready, schunk, stype, shutdown, input, ptyWindow>>
login == <<child, ptyOut, wrote>>
net == <<up, down, upOpen, downOpen>>
vars == <<conn, tty, login, net, fault, signals>>

Msg(t, d) == [type |-> t, data |-> d]

Init ==
  /\ up = <<>> /\ down = <<>> /\ upOpen = TRUE /\ downOpen = TRUE
  /\ cpc = "hello" /\ cready = {} /\ cchunk = 0 /\ ctype = "DATA" /\ escMode = FALSE
  /\ resize = FALSE /\ window = (CHOOSE w \in Windows : TRUE) /\ keys = <<>> /\ typed = 0 /\ sent = <<>>
  /\ shown = <<>> /\ errors = {}
  /\ spc = "accept" /\ sready = {} /\ schunk = 0 /\ stype = "DATA" /\ shutdown = FALSE
  /\ fault \in Faults /\ child = "none" /\ ptyOut = <<>> /\ wrote = 0 /\ input = <<>>
  /\ ptyWindow = "default" /\ signals = 0

-----------------------------------------------------------------------------
(* Messages *)

\* A read returns n bytes of the data of the first message in queue q, and its
\* header unless that was read before.  Only data come in pieces: the other
\* messages are shorter than any piece the kernel makes.
Piece(q, n) == IF Head(q).type \in {"DATA", "REST"} THEN n \in 1 .. Len(Head(q).data)
               ELSE n = Len(Head(q).data)
Data(q, n) == SubSeq(Head(q).data, 1, n)
After(q, n) == IF n = Len(Head(q).data) THEN Tail(q)
               ELSE <<Msg("REST", SubSeq(Head(q).data, n + 1, Len(Head(q).data)))>> \o Tail(q)

\* iucvtty_read_msg: at most a buffer full, or what is missing of the message;
\* the type is that of the buffer if the message was begun before
Room(chunk) == IF chunk > 0 /\ chunk < BufSize THEN chunk ELSE BufSize
ChunkKept(q, chunk, n) == IF chunk > 0 THEN chunk ELSE Len(Head(q).data) - n             \* mutant
ChunkAfter(q, chunk, n) == IF chunk > 0 THEN chunk - n ELSE Len(Head(q).data) - n
TypeOf(q, chunk, type) == IF chunk > 0 THEN type ELSE Head(q).type

\* iucvtty_copy_data: __write goes on after a partial write
Written(d) == d

-----------------------------------------------------------------------------
(* iucvconn *)

\* iucvtty_write_msg: what is written to a socket the peer has closed is lost
SendIfIdle(m) == up' = IF downOpen /\ up = <<>> THEN <<m>> ELSE up   \* mutant: lost if busy
Send(m) == up' = IF downOpen THEN Append(up, m) ELSE up

\* main, behind connect: iucvtty_tx_termenv and iucvtty_tx_winsize
Hello ==
  /\ cpc = "hello" /\ cpc' = "top"
  /\ up' = IF downOpen THEN up \o <<Msg("TERMENV", <<>>), Msg("WINSIZE", <<window>>)>> ELSE up
  /\ UNCHANGED <<cready, cchunk, ctype, escMode, resize, window, keys, typed, sent, shown, errors,
                 tty, login, down, upOpen, downOpen, fault, signals>>

ConnTop ==
  /\ cpc = "top"
  /\ IF resize THEN Send(Msg("WINSIZE", <<window>>)) /\ cpc' = "clear"
     ELSE cpc' = "enter" /\ UNCHANGED up
  /\ UNCHANGED <<cready, cchunk, ctype, escMode, resize, window, keys, typed, sent, shown, errors,
                 tty, login, down, upOpen, downOpen, fault, signals>>

ConnClear ==
  /\ cpc = "clear" /\ resize' = FALSE /\ cpc' = "enter"
  /\ UNCHANGED <<cready, cchunk, ctype, escMode, window, keys, typed, sent, shown, errors,
                 tty, login, net, fault, signals>>

TermReady == down # <<>> \/ ~downOpen
\* select finds nothing and waits; from then on a signal interrupts it
ConnWait ==
  /\ cpc = "enter" /\ ~TermReady /\ keys = <<>> /\ cpc' = "select"
  /\ UNCHANGED <<cready, cchunk, ctype, escMode, resize, window, keys, typed, sent, shown, errors,
                 tty, login, net, fault, signals>>

ConnSelect ==
  /\ cpc \in {"enter", "select"} /\ (TermReady \/ keys # <<>>)
  /\ cready' = {f \in {"terminal", "stdin"} : IF f = "stdin" THEN keys # <<>> ELSE TermReady}
  /\ cpc' = "terminal"
  /\ UNCHANGED <<cchunk, ctype, escMode, resize, window, keys, typed, sent, shown, errors,
                 tty, login, net, fault, signals>>

\* A read of the socket fails: nothing is left, and the peer has closed it
HungUp == ~downOpen                         \* mutant: what is left is not read
Drained == down = <<>>

ConnTerminal ==
  /\ cpc = "terminal"
  /\ \/ /\ "terminal" \notin cready /\ cpc' = "stdin"
        /\ UNCHANGED <<down, cchunk, ctype, shown, errors>>
     \/ /\ "terminal" \in cready /\ Drained /\ cpc' = "out"
        /\ UNCHANGED <<down, cchunk, ctype, shown, errors>>
     \/ /\ "terminal" \in cready /\ ~Drained /\ cpc' = "stdin"
        /\ \E n \in 0 .. Room(cchunk) :
             /\ Piece(down, n)
             /\ down' = After(down, n) /\ cchunk' = ChunkAfter(down, cchunk, n)
             /\ ctype' = TypeOf(down, cchunk, ctype)
             /\ shown' = IF ctype' = "DATA" THEN shown \o Written(Data(down, n)) ELSE shown
             /\ errors' = IF ctype' = "ERROR" THEN errors \cup {fault} ELSE errors
  /\ UNCHANGED <<cready, escMode, resize, window, keys, typed, sent,
                 tty, login, up, upOpen, downOpen, fault, signals>>

\* get_action and is_esc_char, for a buffer of keys d
IsEsc(d) == Len(d) = 1 /\ d[1].char = Escape
Action(d) ==
  IF ~escMode THEN (IF IsEsc(d) THEN "IGNORE" ELSE "SEND")
  ELSE IF IsEsc(d) \/ Len(d) > 1 THEN "SEND"
  ELSE CASE d[1].char = "d" -> "DISCONNECT"
         [] d[1].char = "r" -> "RESIZE"
         [] OTHER -> "IGNORE"

\* The keys in one read of the terminal
Input == SubSeq(keys, 1, IF Len(keys) < BufSize THEN Len(keys) ELSE BufSize)

ConnStdin ==
  /\ cpc = "stdin" /\ cready' = {}
  /\ \/ /\ "stdin" \notin cready /\ cpc' = "top"
        /\ UNCHANGED <<up, keys, sent, escMode, ctype>>
     \/ /\ "stdin" \in cready
        /\ keys' = SubSeq(keys, Len(Input) + 1, Len(keys)) /\ ctype' = "DATA"
        /\ escMode' = (~escMode /\ IsEsc(Input))
        /\ \/ /\ Action(Input) = "SEND"
              /\ IF downOpen THEN sent' = sent \o Input /\ cpc' = "top"
                 ELSE cpc' = "out" /\ UNCHANGED sent
              /\ Send(Msg("DATA", Input))
           \/ Action(Input) = "DISCONNECT" /\ cpc' = "out" /\ UNCHANGED <<up, sent>>
           \/ Action(Input) = "RESIZE" /\ cpc' = "top" /\ Send(Msg("WINSIZE", <<window>>)) /\ UNCHANGED sent
           \/ Action(Input) = "IGNORE" /\ cpc' = "top" /\ UNCHANGED <<up, sent>>
  /\ UNCHANGED <<cchunk, resize, window, typed, shown, errors,
                 tty, login, down, upOpen, downOpen, fault, signals>>

ConnClose ==
  /\ cpc = "out" /\ cpc' = "ended" /\ upOpen' = FALSE
  /\ UNCHANGED <<cready, cchunk, ctype, escMode, resize, window, keys, typed, sent, shown, errors,
                 tty, login, up, down, downOpen, fault, signals>>

-----------------------------------------------------------------------------
(* iucvtty *)

Reply(m) == down' = IF upOpen THEN Append(down, m) ELSE down

\* main, behind accept: is_client_allowed
Accept ==
  /\ spc = "accept"
  /\ IF fault = "denied" THEN Reply(Msg("ERROR", <<>>)) /\ spc' = "close"
     ELSE spc' = "termenv" /\ UNCHANGED down
  /\ UNCHANGED <<sready, schunk, stype, shutdown, input, ptyWindow,
                 conn, login, up, upOpen, downOpen, fault, signals>>

\* iucvtty_rx_termenv, then fork
RxTermenv ==
  /\ spc = "termenv" /\ (up # <<>> \/ ~upOpen)
  /\ up' = IF up = <<>> THEN up ELSE Tail(up)
  /\ IF fault = "fork" THEN Reply(Msg("ERROR", <<>>)) /\ spc' = "close" /\ UNCHANGED child
     ELSE child' = "setup" /\ spc' = "test" /\ UNCHANGED down
  /\ UNCHANGED <<sready, schunk, stype, shutdown, input, ptyWindow,
                 conn, ptyOut, wrote, upOpen, downOpen, fault, signals>>

TtyTest ==
  /\ spc = "test" /\ spc' = IF shutdown THEN "kill" ELSE "enter"
  /\ UNCHANGED <<sready, schunk, stype, shutdown, input, ptyWindow, conn, login, net, fault, signals>>

ClientTalks == up # <<>>                    \* mutant: the end of the socket is not noticed
ClientReady == up # <<>> \/ ~upOpen
TtyWait ==
  /\ spc = "enter" /\ ~ClientReady /\ ptyOut = <<>> /\ spc' = "select"
  /\ UNCHANGED <<sready, schunk, stype, shutdown, input, ptyWindow, conn, login, net, fault, signals>>

TtySelect ==
  /\ spc \in {"enter", "select"} /\ (ClientReady \/ ptyOut # <<>>)
  /\ sready' = {f \in {"client", "master"} : IF f = "master" THEN ptyOut # <<>> ELSE ClientReady}
  /\ spc' = "client"
  /\ UNCHANGED <<schunk, stype, shutdown, input, ptyWindow, conn, login, net, fault, signals>>

TtyClient ==
  /\ spc = "client"
  /\ \/ /\ "client" \notin sready /\ spc' = "master"
        /\ UNCHANGED <<up, schunk, stype, input, ptyWindow>>
     \/ /\ "client" \in sready /\ up = <<>> /\ spc' = "kill"
        /\ UNCHANGED <<up, schunk, stype, input, ptyWindow>>
     \/ /\ "client" \in sready /\ up # <<>> /\ spc' = "master"
        /\ \E n \in 0 .. Room(schunk) :
             /\ Piece(up, n)
             /\ up' = After(up, n) /\ schunk' = ChunkAfter(up, schunk, n)
             /\ stype' = TypeOf(up, schunk, stype)
             /\ input' = IF stype' = "DATA" THEN input \o Written(Data(up, n)) ELSE input
             /\ ptyWindow' = IF stype' = "WINSIZE" THEN Data(up, n)[1] ELSE ptyWindow
  /\ UNCHANGED <<sready, shutdown, conn, login, down, upOpen, downOpen, fault, signals>>

\* iucvtty_tx_data
TtyMaster ==
  /\ spc = "master" /\ sready' = {}
  /\ LET n == IF Len(ptyOut) < BufSize THEN Len(ptyOut) ELSE BufSize IN
     \/ "master" \notin sready /\ spc' = "test" /\ UNCHANGED <<down, ptyOut, stype>>
     \/ /\ "master" \in sready /\ stype' = "DATA"
        /\ ptyOut' = SubSeq(ptyOut, n + 1, Len(ptyOut))
        /\ Reply(Msg("DATA", SubSeq(ptyOut, 1, n)))
        /\ spc' = IF upOpen THEN "test" ELSE "kill"
  /\ UNCHANGED <<schunk, shutdown, input, ptyWindow, conn, child, wrote,
                 up, upOpen, downOpen, fault, signals>>

\* out_kill_login
KillLogin ==
  /\ spc = "kill" /\ child' = "dead" /\ spc' = "close"
  /\ UNCHANGED <<sready, schunk, stype, shutdown, input, ptyWindow, conn, ptyOut, wrote, net, fault, signals>>

TtyClose ==
  /\ spc = "close" /\ spc' = "ended" /\ downOpen' = FALSE
  /\ UNCHANGED <<sready, schunk, stype, shutdown, input, ptyWindow, conn, login,
                 up, down, upOpen, fault, signals>>

-----------------------------------------------------------------------------
(* The login program, the user, and signals *)

\* sig_handler of iucvtty; select returns if it waits
Notify == shutdown' = TRUE /\ spc' = IF spc = "select" THEN "test" ELSE spc

\* The child up to exec, which can fail
ChildSetup ==
  /\ child = "setup"
  /\ IF fault \in {"login_tty", "exec"}
     THEN Reply(Msg("ERROR", <<>>)) /\ child' = "dead" /\ Notify
     ELSE child' = "login" /\ UNCHANGED <<down, shutdown, spc>>
  /\ UNCHANGED <<conn, sready, schunk, stype, input, ptyWindow, ptyOut, wrote,
                 up, upOpen, downOpen, fault, signals>>

LoginWrites ==
  /\ child = "login" /\ wrote < MaxOutput
  /\ wrote' = wrote + 1 /\ ptyOut' = Append(ptyOut, wrote + 1)
  /\ UNCHANGED <<conn, tty, child, net, fault, signals>>

LoginExits ==
  /\ child = "login" /\ child' = "dead" /\ Notify
  /\ UNCHANGED <<conn, sready, schunk, stype, input, ptyWindow, ptyOut, wrote, net, fault, signals>>

TtyTerminated ==
  /\ spc \in {"termenv", "test", "enter", "select", "client", "master"} /\ signals < MaxSignals
  /\ signals' = signals + 1 /\ Notify
  /\ UNCHANGED <<conn, sready, schunk, stype, input, ptyWindow, login, net, fault>>

UserTypes(c) ==
  /\ cpc # "ended" /\ typed < MaxKeys
  /\ typed' = typed + 1 /\ keys' = Append(keys, [char |-> c, nr |-> typed + 1])
  /\ UNCHANGED <<cpc, cready, cchunk, ctype, escMode, resize, window, sent, shown, errors,
                 tty, login, net, fault, signals>>

\* SIGWINCH
WindowChanges(w) ==
  /\ cpc \notin {"hello", "ended"} /\ w # window /\ signals < MaxSignals
  /\ signals' = signals + 1 /\ window' = w /\ resize' = TRUE
  /\ cpc' = IF cpc = "select" THEN "top" ELSE cpc
  /\ UNCHANGED <<cready, cchunk, ctype, escMode, keys, typed, sent, shown, errors,
                 tty, login, net, fault>>

\* SIGTERM
ConnTerminated ==
  /\ cpc \notin {"hello", "ended"} /\ signals < MaxSignals
  /\ signals' = signals + 1 /\ cpc' = "ended" /\ upOpen' = FALSE
  /\ UNCHANGED <<cready, cchunk, ctype, escMode, resize, window, keys, typed, sent, shown, errors,
                 tty, login, up, down, downOpen, fault>>

Conn == \/ Hello \/ ConnTop \/ ConnClear \/ ConnWait \/ ConnSelect \/ ConnTerminal
        \/ ConnStdin \/ ConnClose
Tty == \/ Accept \/ RxTermenv \/ TtyTest \/ TtyWait \/ TtySelect \/ TtyClient
       \/ TtyMaster \/ KillLogin \/ TtyClose
Outside == \/ LoginWrites \/ LoginExits \/ TtyTerminated \/ ConnTerminated
           \/ \E c \in Chars : UserTypes(c)
           \/ \E w \in Windows : WindowChanges(w)

Next == Conn \/ Tty \/ ChildSetup \/ Outside

Spec == Init /\ [][Next]_vars
\* Both loops run on, and so does a child that was started
FairSpec == Spec /\ WF_vars(Conn) /\ WF_vars(Tty) /\ WF_vars(ChildSetup)

-----------------------------------------------------------------------------
(* Properties *)

TypesOf(q) == \A i \in DOMAIN q : q[i].type \in {"TERMENV", "WINSIZE", "DATA", "REST", "ERROR"}

\* The type of every variable.
TypeOK ==
  /\ TypesOf(up) /\ TypesOf(down)
  /\ {upOpen, downOpen, escMode, resize, shutdown} \subseteq BOOLEAN
  /\ cpc \in {"hello", "top", "clear", "enter", "select", "terminal", "stdin", "out", "ended"}
  /\ spc \in {"accept", "termenv", "test", "enter", "select", "client", "master", "kill", "close", "ended"}
  /\ cchunk \in Nat /\ schunk \in Nat /\ typed \in 0 .. MaxKeys /\ wrote \in 0 .. MaxOutput
  /\ Len(keys) <= typed /\ Len(ptyOut) <= wrote
  /\ child \in {"none", "setup", "login", "dead"} /\ signals \in 0 .. MaxSignals

\* The bytes of the data messages in queue q
Bytes(q) == FlattenSeq([i \in DOMAIN q |-> IF q[i].type \in {"DATA", "REST"} THEN q[i].data ELSE <<>>])

\* The number of bytes that a loop still expects of a message is exactly what
\* is left of it in the socket: otherwise text is taken for a header or a
\* header for text.  Both directions share the message buffer, and either may
\* use it between two pieces of a message.
Chunk(q, chunk) == chunk = IF q # <<>> /\ Head(q).type = "REST" THEN Len(Head(q).data) ELSE 0
ChunkExact == Chunk(down, cchunk) /\ Chunk(up, schunk)

\* Every byte the login program wrote is on the screen, on its way or still in
\* the pty, unless iucvconn is gone.
OutputConserved ==
  upOpen => shown \o Bytes(down) \o ptyOut = [i \in 1 .. wrote |-> i]

\* A user who did nothing is told why the session was refused or has failed.
FailureShown ==
  cpc = "ended" /\ typed = 0 /\ signals = 0 /\ fault # "none" => errors = {fault}

\* Each direction of the session is a byte pipe, however messages are cut into
\* pieces and whatever else is sent in between.
InputPipe == INSTANCE BytePipe WITH put <- sent, got <- input
OutputPipe == INSTANCE BytePipe WITH put <- [i \in 1 .. wrote |-> i], got <- shown
ImplementsPipes == InputPipe!Spec /\ OutputPipe!Spec

\* When one side has ended, the other one ends.
EndsTogether ==
  /\ cpc = "ended" ~> spc = "ended"
  /\ spc = "ended" ~> cpc = "ended"

\* What is in the socket, and the bytes on their way, are accounted for.
SocketInv == TypeOK /\ ChunkExact /\ OutputConserved
=============================================================================
