----------------------------- MODULE TarArchive -----------------------------
(***************************************************************************)
(* What a worker of dump2tar promises for the regular files and commands   *)
(* it dumps, one after the other: each gets an entry that announces the    *)
(* number of bytes it really has, holds the bytes that read() delivered    *)
(* from the start, up to --file-max-size, and is padded to whole blocks.   *)
(* An error of the temporary file may damage the entry it hits, and no     *)
(* other.                                                                  *)
(***************************************************************************)
EXTENDS Integers, Sequences

CONSTANTS BlockSize,  \* BLOCKSIZE of tar.c
          FileMax     \* --file-max-size, 0 if there is no limit

VARIABLES delivered,  \* bytes that read() has delivered of the current file
          damaged,    \* an error of the temporary file hit the current entry
          archive     \* the entries written

vars == <<delivered, damaged, archive>>

\* Byte i of the k-th file is <<k, i>>
Bytes(k, n) == [i \in 1..n |-> <<k, i>>]

\* Zero bytes that fill the last block
Padding(n) == IF n % BlockSize > 0 THEN BlockSize - (n % BlockSize) ELSE 0

\* What is kept of n bytes
Kept(n) == IF FileMax > 0 /\ n > FileMax THEN FileMax ELSE n

Entry(k, n) == [size |-> n, data |-> Bytes(k, n), pad |-> Padding(n)]

Init == delivered = 0 /\ damaged = FALSE /\ archive = << >>

\* More is read, unless the limit has been reached
Deliver ==
  /\ FileMax = 0 \/ delivered < FileMax
  /\ delivered' \in Nat /\ delivered' > delivered
  /\ UNCHANGED <<damaged, archive>>

Hit == damaged' = TRUE /\ UNCHANGED <<delivered, archive>>

\* The entry is complete, and the next file is to be read
Add ==
  /\ Len(archive') = Len(archive) + 1
  /\ LET k == Len(archive') IN
       /\ archive' = Append(archive, archive'[k])
       /\ damaged \/ archive'[k] = Entry(k, Kept(delivered))
  /\ delivered' = 0 /\ damaged' = FALSE

Next == Deliver \/ Hit \/ Add

Spec == Init /\ [][Next]_vars
=============================================================================
