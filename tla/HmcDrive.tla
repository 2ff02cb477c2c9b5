------------------------------ MODULE HmcDrive ------------------------------
(***************************************************************************)
(* hmcdrvfs, the file system of the DVD in the drive of an HMC: the cache  *)
(* of file attributes with its aging thread, the scan of directory         *)
(* listings that fills it, and the one FTP device that all requests share. *)
(* A request holds the mutex from start to end; what may happen in the     *)
(* meantime is that time passes, the device fails, or the DVD is exchanged.*)
(* Attributes are those of the DVD they were read from.                    *)
(***************************************************************************)
EXTENDS Integers, Sequences, FiniteSetsExt, Functions

CONSTANTS Paths, Root,
          Parent,     \* directory of each path but the root
          Discs,      \* DVDs
          Lines,      \* for each DVD and path: the listing, a sequence of lines
          Junk,       \* a line that names no file
          NoCmd,      \* no command
          Line,       \* line of the hash table of each path, 0 ..
          TableSize,  \* HMCDRV_FUSE_CACHE_SIZE, 2053
          Garbage,    \* HMCDRV_FUSE_GARBAGE_MAX, 128
          Ctmo,       \* cache timeout in seconds
          DirBuf,     \* size of the buffer for a listing, in half lines
          MaxPos      \* bound: positions in a file that is read

ASSUME HmcAssumption ==
  /\ Root \in Paths /\ Parent \in [Paths \ {Root} -> Paths]
  /\ Lines \in [Discs -> [Paths -> Seq((Paths \ {Root}) \cup {Junk})]]
  /\ \A d \in Discs, p \in Paths : \A i \in DOMAIN Lines[d][p] :
       Lines[d][p][i] = Junk \/ Parent[Lines[d][p][i]] = p
  /\ {TableSize, Garbage, Ctmo} \subseteq Nat \ {0}
  /\ Line \in [Paths -> 0 .. (TableSize - 1)]
  /\ DirBuf \in Nat /\ DirBuf >= 3 /\ MaxPos \in Nat

\* The directories form a tree below the root
ASSUME TreeAssumption ==
  /\ NoCmd \notin Paths /\ NoCmd \notin {"dir", "get"} \X Paths
  /\ \A S \in SUBSET (Paths \ {Root}) : S # {} => \E p \in S : Parent[p] \notin S

VARIABLES cache,    \* hmcdrv_fuse_cache: DVD and seconds left of each path in it,
                    \* and the rounds of the aging thread since (history)
          index,    \* line of the table that the aging thread looks at next
          due,      \* the aging thread has slept its second
          disc,     \* the DVD in the drive
          dev,      \* command and position that the device has
          drv,      \* last_ftpcmd and current_offset of hmcdrv_ftp_transfer
          op,       \* the request that holds the mutex
          todo,     \* paths that are still to be found for it
          scan,     \* the directory that is being scanned for it
          shown,    \* files that the scan has come across
          clean     \* no error, and no other DVD, since the request began

vars == <<cache, index, due, disc, dev, drv, op, todo, scan, shown, clean>>

NoOp == [kind |-> "none", path |-> Root, pos |-> 0]
NoScan == [dir |-> NoCmd, pos |-> 0, frag |-> <<>>]

Cmds == {"dir", "get"} \X Paths

\* The files of a DVD: those whose directories are on it and list them
Lineage[p \in Paths] == IF p = Root THEN <<Root>> ELSE Append(Lineage[Parent[p]], p)

On(d) == {p \in Paths : \A i \in 2 .. Len(Lineage[p]) :
                          Lineage[p][i] \in Range(Lines[d][Lineage[p][i - 1]])}

\* The table as hmcdrv_fuse_init leaves it
OnlyRoot == [p \in {Root} |-> [disc |-> NoCmd, left |-> Ctmo, late |-> 0]]

Init ==
  /\ cache = OnlyRoot
  /\ index = 0 /\ due = FALSE
  /\ disc \in Discs
  /\ dev = [cmd |-> NoCmd, pos |-> 0] /\ drv = [cmd |-> NoCmd, pos |-> 0]
  /\ op = NoOp /\ todo = <<>> /\ scan = NoScan /\ shown = {}
  /\ clean = TRUE

-----------------------------------------------------------------------------
(* Time, the aging thread, and the drive.                                  *)

Tick ==
  /\ cache' = [p \in DOMAIN cache |-> [cache[p] EXCEPT !.left = IF @ = 0 THEN 0 ELSE @ - 1]]
  /\ due' = TRUE
  /\ UNCHANGED <<index, disc, dev, drv, op, todo, scan, shown, clean>>

\* The lines of the table of which this round of the aging thread takes care
Round == {(index + i) % TableSize : i \in 0 .. (Garbage - 1)}

NextIndex == (index + Garbage) % TableSize

Expired(p) == cache[p].left = 0 /\ p # Root /\ Line[p] \in Round

\* The mutex is released between the lookup of a directory and its listing
MayAgeBetween == op = NoOp \/ (op.kind = "readdir" /\ scan.pos = 0)

MayAge == op = NoOp

Aging ==
  /\ due /\ MayAge
  /\ due' = FALSE
  /\ cache' = [p \in {q \in DOMAIN cache : ~ Expired(q)} |->
                 [cache[p] EXCEPT !.late = IF cache[p].left = 0 /\ p # Root THEN @ + 1 ELSE 0]]
  /\ index' = NextIndex
  /\ UNCHANGED <<disc, dev, drv, op, todo, scan, shown, clean>>

Exchange(d) ==
  /\ disc' = d /\ clean' = (op = NoOp)
  /\ UNCHANGED <<cache, index, due, dev, drv, op, todo, scan, shown>>

-----------------------------------------------------------------------------
(* The FTP device.                                                         *)

\* No new command and position are needed for a read that goes on
Sequential(cmd, pos) == drv = [cmd |-> cmd, pos |-> pos]

\* last_ftpcmd stays after an error
ForgottenNot == drv

Forgotten == [drv EXCEPT !.cmd = NoCmd]

\* lseek, write or read fails.  The position may have been set already, and
\* what then becomes of the old command is up to the device.
TransferFails(cmd, pos) ==
  \/ drv' = Forgotten /\ UNCHANGED dev
  \/ /\ ~ Sequential(cmd, pos)
     /\ \/ drv' = Forgotten /\ dev' \in {[cmd |-> c, pos |-> pos] : c \in {dev.cmd, NoCmd}}
        \/ dev' = [cmd |-> cmd, pos |-> pos] /\ drv' = [cmd |-> NoCmd, pos |-> pos]

\* Where the device reads
At(cmd, pos) == IF Sequential(cmd, pos) THEN dev ELSE [cmd |-> cmd, pos |-> pos]

TransferDone(cmd, pos, n) ==
  /\ dev' = [At(cmd, pos) EXCEPT !.pos = @ + n]
  /\ drv' = [cmd |-> cmd, pos |-> pos + n]

-----------------------------------------------------------------------------
(* Listings.                                                               *)

\* A line comes in two halves; the second one has the newline
Tokens(lines) == [i \in 1 .. (2 * Len(lines)) |-> <<lines[(i + 1) \div 2], 2 - (i % 2)>>]

\* What the device has from a position on
Listing(at) ==
  IF at.cmd \in Cmds THEN LET t == Tokens(Lines[disc][at.cmd[2]]) IN SubSeq(t, at.pos + 1, Len(t))
  ELSE <<>>

\* The files in a piece of a listing: a line counts if all of it is there
Parsed(buf) ==
  {p \in Paths : \E i \in 1 .. (Len(buf) - 1) : buf[i] = <<p, 1>> /\ buf[i + 1] = <<p, 2>>}

\* What comes behind the last complete line is dropped
FragmentNone(buf) == <<>>

\* The last line of a piece if no file was found in it, to be completed by
\* the next piece
Fragment(buf) ==
  LET n == Len(buf)
  IN  IF buf[n][2] = 1 THEN <<buf[n]>>
      ELSE IF n > 1 /\ buf[n][1] # Junk THEN <<>>
      ELSE SubSeq(buf, Max({1, n - 1}), n)

Fresh == [disc |-> disc, left |-> Ctmo, late |-> 0]

\* Entries that exist are left alone
RefreshedNew(S) == [p \in S \cup DOMAIN cache |-> IF p \in DOMAIN cache THEN cache[p] ELSE Fresh]

\* hmcdrv_cache_refresh of a set of files
Refreshed(S) == [p \in S \cup DOMAIN cache |-> IF p \in S THEN Fresh ELSE cache[p]]

-----------------------------------------------------------------------------
(* Requests.                                                               *)

\* A lookup that finds the path restarts its time
Touched(c, p) == [c EXCEPT ![p].left = Ctmo, ![p].late = 0]

Scanning(p) == [NoScan EXCEPT !.dir = p]

Ends == op' = NoOp /\ todo' = <<>> /\ scan' = NoScan /\ shown' = {} /\ clean' = TRUE

Dirs == {Root} \cup Range(Parent)

\* hmcdrv_file_get: if a path is not there its directory is scanned, which is
\* looked up in the same way.  readlink does what getattr does.
Begin(kind, p, pos) ==
  LET line == Lineage[p]
      k == Max({i \in DOMAIN line : line[i] \in DOMAIN cache})
  IN  /\ op = NoOp
      /\ cache' = Touched(cache, line[k])
      /\ UNCHANGED <<index, due, disc, dev, drv, shown, clean>>
      /\ IF k = Len(line) /\ kind = "getattr" THEN UNCHANGED <<op, todo, scan>>
         ELSE /\ op' = [kind |-> kind, path |-> p, pos |-> pos]
              /\ todo' = SubSeq(line, k + 1, Len(line))
              /\ scan' = IF k < Len(line) \/ kind = "readdir" THEN Scanning(line[k]) ELSE NoScan

\* The scan of a directory is over, but not what it was for: the next path is
\* in the cache now, or there is no such file
NotFound == todo # <<>> /\ Head(todo) \notin DOMAIN cache

\* Whether the scan succeeded is ignored, unless it is the directory to be read
Scanned ==
  IF todo = <<>> \/ NotFound THEN Ends /\ UNCHANGED cache
  ELSE LET p == Head(todo)
       IN  /\ cache' = Touched(cache, p)
           /\ IF p = op.path /\ op.kind = "getattr" THEN Ends
              ELSE /\ scan' = IF p = op.path /\ op.kind = "read" THEN NoScan ELSE Scanning(p)
                   /\ todo' = Tail(todo) /\ UNCHANGED <<op, shown>>

DirCmd == <<"dir", scan.dir>>

\* hmcdrv_cache_dir: the next piece of the listing
Piece(n) ==
  LET left == Listing(At(DirCmd, scan.pos))
      buf == scan.frag \o SubSeq(left, 1, n)
  IN  /\ scan # NoScan
      /\ n <= Len(left) /\ n <= DirBuf - Len(scan.frag)
      /\ cache' = Refreshed(Parsed(buf)) /\ shown' = shown \cup Parsed(buf)
      /\ scan' = [scan EXCEPT !.pos = @ + n, !.frag = Fragment(buf)]
      /\ TransferDone(DirCmd, scan.pos, n)
      /\ UNCHANGED <<index, due, disc, op, todo, clean>>

EndOfListing ==
  /\ scan # NoScan /\ Listing(At(DirCmd, scan.pos)) = <<>>
  /\ TransferDone(DirCmd, scan.pos, 0)
  /\ Scanned /\ (op' # NoOp => UNCHANGED clean)
  /\ UNCHANGED <<index, due, disc>>

ListingFails ==
  /\ scan # NoScan
  /\ TransferFails(DirCmd, scan.pos)
  /\ Scanned /\ (op' # NoOp => clean' = FALSE)
  /\ UNCHANGED <<index, due, disc>>

\* hmcdrv_fuse_read of a file that was found
Reading == op.kind = "read" /\ scan = NoScan

ReadDone(n) ==
  /\ Reading /\ op.pos + n <= MaxPos
  /\ TransferDone(<<"get", op.path>>, op.pos, n)
  /\ Ends
  /\ UNCHANGED <<cache, index, due, disc>>

ReadFails ==
  /\ Reading
  /\ TransferFails(<<"get", op.path>>, op.pos)
  /\ Ends
  /\ UNCHANGED <<cache, index, due, disc>>

\* The kernel lets nobody read a directory as a file, or list a file
Request == \/ \E p \in Paths : Begin("getattr", p, 0)
           \/ \E p \in Dirs : Begin("readdir", p, 0)
           \/ \E p \in Paths \ Dirs, pos \in 0 .. MaxPos : Begin("read", p, pos)

Work == (\E n \in 1 .. DirBuf : Piece(n)) \/ EndOfListing \/ ListingFails
        \/ (\E n \in 0 .. MaxPos : ReadDone(n)) \/ ReadFails

\* A new process: the file system is mounted again
Mount ==
  /\ op = NoOp
  /\ cache' = OnlyRoot
  /\ index' = 0 /\ due' = FALSE
  /\ dev' = [cmd |-> NoCmd, pos |-> 0] /\ drv' = [cmd |-> NoCmd, pos |-> 0]
  /\ UNCHANGED <<disc, op, todo, scan, shown, clean>>

Next == Request \/ Work \/ Tick \/ Aging \/ (\E d \in Discs : Exchange(d)) \/ Mount

Spec == Init /\ [][Next]_vars

-----------------------------------------------------------------------------
(* Properties.                                                             *)

\* Types, and the root is always in the cache
TypeOK ==
  /\ Root \in DOMAIN cache /\ DOMAIN cache \subseteq Paths
  /\ \A p \in DOMAIN cache : cache[p].disc \in Discs \cup {NoCmd} /\ cache[p].left \in 0 .. Ctmo
  /\ index \in 0 .. (TableSize - 1)
  /\ dev.cmd \in Cmds \cup {NoCmd} /\ drv.cmd \in Cmds \cup {NoCmd}
  /\ Len(scan.frag) < DirBuf

\* Whenever hmcdrv_ftp_transfer may go on reading without a command, the
\* device has that very command and position: no read is answered with
\* the contents of another file or from another place, whatever requests and
\* errors came before
InStep == drv.cmd # NoCmd => dev = drv

\* The entry of the directory that is scanned, and that the scan has a pointer
\* to, is not freed by the aging thread
ScanHolds == scan # NoScan => scan.dir \in DOMAIN cache

\* A path that is on the DVD is found if there is no error and the DVD is not
\* exchanged, whatever part of the cache has expired, and however the listings
\* are cut in pieces
FoundIfThere == [][EndOfListing /\ clean /\ NotFound => op.path \notin On(disc)]_vars

\* In the same case a directory is shown with all its files, and their
\* attributes are those of the DVD
ShowsAll ==
  [][EndOfListing /\ clean /\ todo = <<>> /\ op.path \in On(disc) =>
       \A p \in On(disc) \ {Root} : Parent[p] = op.path => p \in shown /\ cache[p].disc = disc]_vars

\* The table is looked through in turn: an entry that nobody looked up is gone
\* after its time and as many rounds of the aging thread as the table needs
\* (17, so that the manual page may say that the time is 30 to 60 seconds more
\* than the option)
GoneInTime == \A p \in DOMAIN cache : cache[p].late <= (TableSize - 1) \div Garbage

\* Of the cache and its aging thread: entries in use stay, others go in time.
CacheInv == TypeOK /\ ScanHolds /\ GoneInTime
=============================================================================
