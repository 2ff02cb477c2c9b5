----------------------------- MODULE DataBuffer -----------------------------
(***************************************************************************)
(* The data buffer of a worker of dump2tar (buffer.c) on the way of a file *)
(* into the archive: read_fd (dump.c) fills it, in memory and, beyond      *)
(* max_buffer_size, in a temporary file; emit_content and emit_padding     *)
(* (tar.c) take the data out again through buffer_iterate; stop_thread_job *)
(* resets it for the next file.  The buffer belongs to one thread, or to   *)
(* the thread that takes over its job after a file timeout.  What a failed *)
(* read has delivered gets an entry too, as with --ignore-failed-read:     *)
(* without it, a failed read ends the whole dump (DumpTask).               *)
(***************************************************************************)
EXTENDS Integers, Sequences

CONSTANTS Chunk,      \* read_chunk_size
          MaxBuffer,  \* max_buffer_size
          FileMax,    \* file_max_size, 0 if there is no limit
          BlockSize,  \* BLOCKSIZE
          LinkMemory, \* most memory that reading a symbolic link takes
          MaxLen,     \* bound: bytes in a file
          MaxEntries, \* bound: files dumped
          Faults      \* what may fail of the temporary file

ASSUME SizesAssumption ==
  /\ Chunk \in Nat \ {0} /\ MaxBuffer \in Nat \ {0} /\ BlockSize \in Nat \ {0}
  /\ FileMax \in Nat /\ LinkMemory \in Nat
  /\ MaxLen \in Nat /\ MaxEntries \in Nat

ASSUME FaultsAssumption == Faults \subseteq {"write", "truncate"}

VARIABLES
  \* struct buffer
  size, total, fdOpen,
  mem,        \* what is in memory; its length is off
  file, pos,  \* contents of the temporary file, and the position of its fd
  \* locals of read_fd and of buffer_make_room
  c, room,
  pc,
  \* the input file: how many bytes of it read() has delivered
  delivered,
  \* the archive, entry by entry, and what there is of the next entry's data
  archive, sent,
  damaged     \* an error of the temporary file hit the current entry

bufVars == <<size, total, fdOpen, mem, file, pos>>
vars    == <<bufVars, c, room, pc, delivered, archive, sent, damaged>>

-----------------------------------------------------------------------------
\* The file being dumped is the Current-th; its i-th byte is <<Current, i>>
Current == Len(archive) + 1

\* What read() delivers when asked for n more bytes
Input(n) == [i \in 1..n |-> <<Current, delivered + i>>]

Smaller(m, n) == IF m < n THEN m ELSE n

\* Fault: written at the end of the file instead of at its position
AppendAt(f, p, s) == f \o s

\* misc_write_data: file f after s was written at position p
WriteAt(f, p, s) == SubSeq(f, 1, p) \o s \o SubSeq(f, p + Len(s) + 1, Len(f))

\* read_fd: how much to ask for, first and later
FirstRequest == IF size > 0 THEN size ELSE Chunk

NextRequest(off) ==
  IF size - off > 0 THEN size - off
  ELSE IF size + Chunk < MaxBuffer THEN Chunk ELSE MaxBuffer

\* buffer_make_room (with a buffer file): bytes wanted, and the memory needed
Wanted == Smaller(c, MaxBuffer)
Needed == Len(mem) + Wanted

\* emit_padding
Padding(n) == IF n % BlockSize > 0 THEN BlockSize - (n % BlockSize) ELSE 0

Init ==
  /\ size = 0 /\ total = 0 /\ fdOpen = FALSE
  /\ mem = << >> /\ file = << >> /\ pos = 0
  /\ c = 0 /\ room = 0 /\ pc = "idle"
  /\ delivered = 0 /\ archive = << >> /\ sent = << >> /\ damaged = FALSE

-----------------------------------------------------------------------------
(* Reading: read_fd, buffer_read_fd, buffer_make_room.                     *)

\* A job for the next file
Start ==
  /\ pc = "idle" /\ Len(archive) < MaxEntries
  /\ c' = FirstRequest
  /\ pc' = "room"
  /\ UNCHANGED <<bufVars, room, delivered, archive, sent, damaged>>

\* read_symlink and the entry of the link, which is only a header: all that it
\* leaves behind is a larger memory, whatever max_buffer_size is
ReadLink ==
  /\ pc = "idle" /\ Len(archive) < MaxEntries
  /\ \E k \in 0..LinkMemory : size' = FirstRequest + k * Chunk
  /\ size' <= LinkMemory
  /\ UNCHANGED <<total, fdOpen, mem, file, pos, c, room, pc, delivered, archive,
                 sent, damaged>>

\* There is room in memory
HasRoom ==
  /\ pc = "room" /\ Needed <= size
  /\ room' = Wanted
  /\ pc' = "read"
  /\ UNCHANGED <<bufVars, c, delivered, archive, sent, damaged>>

\* More memory is allocated
Enlarge ==
  /\ pc = "room" /\ Needed > size /\ Needed <= MaxBuffer
  /\ size' = Needed
  /\ room' = Wanted
  /\ pc' = "read"
  /\ UNCHANGED <<total, fdOpen, mem, file, pos, c, delivered, archive, sent,
                 damaged>>

\* buffer_flush writes the memory to the temporary file, then is there room
Spill ==
  /\ pc = "room" /\ Needed > size /\ Needed > MaxBuffer
  /\ fdOpen' = TRUE
  /\ file' = WriteAt(file, pos, mem) /\ pos' = pos + Len(mem)
  /\ mem' = << >>
  /\ size' = IF Wanted <= size THEN size ELSE Wanted
  /\ room' = Wanted
  /\ pc' = "read"
  /\ UNCHANGED <<total, c, delivered, archive, sent, damaged>>

\* buffer_flush fails, after some of the memory was written
SpillFails ==
  /\ pc = "room" /\ Needed > size /\ Needed > MaxBuffer /\ "write" \in Faults
  /\ \E w \in 0..Len(mem) - 1 :
       /\ file' = WriteAt(file, pos, SubSeq(mem, 1, w)) /\ pos' = pos + w
       /\ fdOpen' \in (IF w = 0 THEN {fdOpen, TRUE} ELSE {TRUE})
  /\ damaged' = TRUE
  /\ pc' = "head"
  /\ UNCHANGED <<size, total, mem, c, room, delivered, archive, sent>>

\* A file timeout hits while the memory is about to be written, and the thread
\* that takes over dumps what was read
SpillCanceled ==
  /\ pc = "room" /\ Needed > size /\ Needed > MaxBuffer
  /\ fdOpen' \in {fdOpen, TRUE}
  /\ pc' = "head"
  /\ UNCHANGED <<size, total, mem, file, pos, c, room, delivered, archive,
                 sent, damaged>>

\* The task is aborted: the loop of read_fd ends
ReadAborted ==
  /\ pc = "room"
  /\ pc' = "head"
  /\ UNCHANGED <<bufVars, c, room, delivered, archive, sent, damaged>>

\* The limit for the size of a file, after n more bytes
AtLimit(n) == FileMax > 0 /\ total + n >= FileMax

\* read() delivers some bytes, and there is more to read
ReadSome ==
  /\ pc = "read"
  /\ \E n \in 1..room :
       /\ delivered + n <= MaxLen
       /\ ~AtLimit(n)
       /\ mem' = mem \o Input(n)
       /\ total' = total + n /\ delivered' = delivered + n
       /\ c' = NextRequest(Len(mem) + n)
  /\ pc' = "room"
  /\ UNCHANGED <<size, fdOpen, file, pos, room, archive, sent, damaged>>

\* buffer_truncate to FileMax bytes, m being what is in memory before
Truncated(m) ==
  LET delta == total + Len(m) - Len(mem) - FileMax IN
  /\ total' = FileMax
  /\ IF fdOpen /\ delta > Len(m)
     THEN /\ mem' = << >>
          /\ file' = SubSeq(file, 1, FileMax) /\ pos' = FileMax
     ELSE /\ mem' = SubSeq(m, 1, Len(m) - delta)
          /\ UNCHANGED <<file, pos>>

\* read() delivers bytes up to the limit or beyond it
ReadLimit ==
  /\ pc = "read"
  /\ \E n \in 1..room :
       /\ delivered + n <= MaxLen
       /\ AtLimit(n)
       /\ Truncated(mem \o Input(n))
       /\ delivered' = delivered + n
  /\ pc' = "head"
  /\ UNCHANGED <<size, fdOpen, c, room, archive, sent, damaged>>

\* read() finds the end of the file or fails, or a file timeout stops the thread
\* in read(): what was read so far is dumped
ReadEnds ==
  /\ pc = "read"
  /\ pc' = "head"
  /\ UNCHANGED <<bufVars, c, room, delivered, archive, sent, damaged>>

-----------------------------------------------------------------------------
(* Writing: tar_emit_file_from_buffer, emit_content, buffer_iterate.  The   *)
(* header announces total bytes.                                           *)

\* buffer_iterate: no data
EmitNothing ==
  /\ pc = "head" /\ total = 0
  /\ pc' = "pad"
  /\ UNCHANGED <<bufVars, c, room, delivered, archive, sent, damaged>>

\* buffer_iterate: all data is in memory
EmitMemory ==
  /\ pc = "head" /\ total > 0 /\ ~fdOpen
  /\ sent' = SubSeq(mem, 1, Smaller(Len(mem), total))
  /\ pc' = "pad"
  /\ UNCHANGED <<bufVars, c, room, delivered, archive, damaged>>

\* buffer_iterate: buffer_flush, and back to the start of the file
Rewind ==
  /\ pc = "head" /\ total > 0 /\ fdOpen
  /\ file' = WriteAt(file, pos, mem)
  /\ pos' = 0
  /\ mem' = << >>
  /\ pc' = "copy"
  /\ UNCHANGED <<size, total, fdOpen, c, room, delivered, archive, sent,
                 damaged>>

\* buffer_iterate returns an error, which emit_content does not look at
RewindFails ==
  /\ pc = "head" /\ total > 0 /\ fdOpen /\ mem # << >> /\ "write" \in Faults
  /\ \E w \in 0..Len(mem) - 1 :
       file' = WriteAt(file, pos, SubSeq(mem, 1, w)) /\ pos' = pos + w
  /\ damaged' = TRUE
  /\ pc' = "pad"
  /\ UNCHANGED <<size, total, fdOpen, mem, c, room, delivered, archive, sent>>

\* Fault: emit_content_cb emits all it is given
EmittedAll(r) == r

\* emit_content_cb: how much of r bytes it emits
Emitted(r) == Smaller(r, total - Len(sent))

\* buffer_iterate: next part of the file; emit_content_cb emits no more than
\* what is announced
Copy ==
  /\ pc = "copy"
  /\ LET r == Smaller(size, Len(file) - pos)
         n == Emitted(r)
     IN /\ sent' = sent \o SubSeq(file, pos + 1, pos + n)
        /\ pos' = pos + r
        /\ pc' = IF r = 0 \/ Len(sent) + n = total THEN "pad" ELSE "copy"
  /\ UNCHANGED <<size, total, fdOpen, mem, file, c, room, delivered, archive,
                 damaged>>

\* buffer_reset: position in the temporary file
RewoundPosition == 0

\* emit_padding completes the entry; stop_thread_job and buffer_reset, where
\* the temporary file may keep its contents if ftruncate fails
Finish ==
  /\ pc = "pad"
  /\ archive' = Append(archive, [size |-> total, data |-> sent,
                                 pad |-> Padding(total)])
  /\ sent' = << >>
  /\ total' = 0 /\ mem' = << >> /\ pos' = RewoundPosition
  /\ file' \in {<< >>} \cup (IF "truncate" \in Faults THEN {file} ELSE {})
  /\ delivered' = 0 /\ damaged' = FALSE
  /\ pc' = "idle"
  /\ UNCHANGED <<size, fdOpen, c, room>>

Done == pc = "idle" /\ Len(archive) = MaxEntries /\ UNCHANGED vars

Next ==
  \/ Start \/ ReadLink \/ HasRoom \/ Enlarge
  \/ Spill \/ SpillFails \/ SpillCanceled
  \/ ReadAborted \/ ReadSome \/ ReadLimit \/ ReadEnds
  \/ EmitNothing \/ EmitMemory \/ Rewind \/ RewindFails \/ Copy \/ Finish
  \/ Done

Spec == Init /\ [][Next]_vars

-----------------------------------------------------------------------------
(* Properties.                                                             *)

Byte == Nat \X Nat

\* Every variable keeps its type, and the position in the file is inside it.
TypeOK ==
  /\ size \in Nat /\ total \in Nat /\ fdOpen \in BOOLEAN
  /\ mem \in Seq(Byte) /\ file \in Seq(Byte) /\ pos \in 0..Len(file)
  /\ c \in Nat /\ room \in Nat
  /\ pc \in {"idle", "room", "read", "head", "copy", "pad"}
  /\ delivered \in Nat /\ sent \in Seq(Byte) /\ damaged \in BOOLEAN
  /\ archive \in Seq([size : Nat, data : Seq(Byte), pad : Nat])

\* buffer_make_room keeps its promise: what read() is asked for fits in memory
\* and is not zero bytes, as the zero it would return means end of file; and
\* the memory never grows beyond max_buffer_size for a file, while a symbolic
\* link may have made it grow further before.
RoomInv ==
  /\ Len(mem) <= size
  /\ size <= MaxBuffer \/ size <= LinkMemory
  /\ pc = "room" => c > 0
  /\ pc = "read" => room > 0 /\ Len(mem) + room <= size

\* What the buffer holds while it is filled
Held == SubSeq(file, 1, pos) \o mem

Archive == INSTANCE TarArchive

\* While no error has hit the current file, file and memory together hold its
\* bytes from the first on, also if an earlier file has left more data behind
\* the current position; and what was emitted is what there was to emit.
ContentsInv ==
  ~damaged =>
    /\ pc \in {"idle", "room", "read", "head"} =>
         Held = Archive!Bytes(Current, total)
    /\ pc = "copy" => /\ SubSeq(file, 1, total) = Archive!Bytes(Current, total)
                      /\ total <= Len(file)
                      /\ pos < total /\ sent = SubSeq(file, 1, pos)
    /\ pc = "pad" => sent = Archive!Bytes(Current, total)

\* What the position in the code tells about the buffer.
PhaseInv ==
  /\ pc = "idle" => /\ mem = << >> /\ total = 0 /\ pos = 0 /\ delivered = 0
                    /\ ~damaged
  /\ pc \in {"room", "read"} => /\ total = delivered /\ ~damaged
                                /\ FileMax > 0 => total < FileMax
  /\ pc \in {"head", "copy", "pad"} => total = Archive!Kept(delivered)
  /\ pc \notin {"copy", "pad"} => sent = << >>
  /\ pc = "copy" => Len(sent) < total
  /\ IF fdOpen THEN size > 0 ELSE file = << >>

\* The inductive invariant behind the theorems of DataBufferProofs.
BufferInv == TypeOK /\ RoomInv /\ PhaseInv /\ ContentsInv

\* The worker implements TarArchive: whatever the sizes of reads, wherever the
\* data spills into the temporary file, and whatever an earlier file has left
\* behind there, each entry holds what read() delivered.
ImplementsArchive == Archive!Spec
=============================================================================
