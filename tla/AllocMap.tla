----------------------------- MODULE AllocMap -----------------------------
(***************************************************************************)
(* The allocation map of a CMS disk and the sizes of pointer trees         *)
(* (amap.c, and the arithmetic of cmsfs-fuse.c on levels).  The state of   *)
(* the allocator is a record: the bits set in the map, the byte of the map *)
(* that the hint names, the two counters, and whether an assertion has     *)
(* failed.                                                                 *)
(* Blocks count from 0; block 0 is never allocated, and stands for "none". *)
(***************************************************************************)
EXTENDS Integers, Sequences, SequencesExt, FiniteSetsExt

CONSTANTS Total,      \* cmsfs.total_blocks
          MapBits,    \* bits of the allocation map, some behind the end of the disk
          ByteBits,   \* bits in a byte of the map, 8
          MapBytes,   \* bytes in a block of the map, cmsfs.blksize
          Ptrs        \* pointers in a pointer block

ASSUME AllocAssumption ==
  /\ {Total, ByteBits, MapBytes} \subseteq Nat \ {0}
  /\ MapBits \in Nat /\ MapBits >= Total /\ Ptrs \in Nat /\ Ptrs >= 2

Bits == 0 .. (MapBits - 1)
OnDisk == 0 .. (Total - 1)

ByteOf(b) == b \div ByteBits
NoHint == -1

Alloc == [map : SUBSET Bits, hint : Int, used : Nat, reserved : Nat, bug : BOOLEAN]

-----------------------------------------------------------------------------
(* Allocation.                                                             *)

\* Free blocks of the bitmap block of the hint, from the byte of the hint on
FreeNear(a) == {b \in Bits \ a.map : ByteOf(b) >= a.hint /\ ByteOf(b) \div MapBytes = a.hint \div MapBytes}

\* get_free_block counts the reserved blocks as used
Full(a) == a.used + a.reserved >= Total

FreeBlock(a) == IF a.hint # NoHint /\ FreeNear(a) # {} THEN Min(FreeNear(a)) ELSE Min(Bits \ a.map)

Take(a) == LET b == FreeBlock(a)
           IN  [a EXCEPT !.map = @ \cup {b}, !.hint = ByteOf(b), !.used = @ + 1]

\* What is allocated grows by a block for data, unless the disk is full
AnotherBlock(s) ==
  IF Full(s.am) THEN s ELSE [am |-> Take(s.am), got |-> Append(s.got, FreeBlock(s.am))]

\* Up to n blocks for data, fewer if the disk runs full
TakeUpTo(a, n) ==
  LET step[i \in 0 .. n] == IF i = 0 THEN [am |-> a, got |-> <<>>] ELSE AnotherBlock(step[i - 1])
  IN  step[n]

\* get_reserved_block hands back one reserved block first
Unreserve(a) == [a EXCEPT !.reserved = IF @ > 0 THEN @ - 1 ELSE @]

\* A pointer block more; that there is no room for it is an assertion failure
AnotherPtr(s, ofFile) ==
  LET r == IF ofFile THEN Unreserve(s.am) ELSE s.am
  IN  IF Full(r) THEN [s EXCEPT !.am = [r EXCEPT !.bug = TRUE]]
      ELSE [am |-> Take(r), got |-> s.got \cup {FreeBlock(r)}]

TakePtrs(a, n, ofFile) ==
  LET step[i \in 0 .. n] == IF i = 0 THEN [am |-> a, got |-> {}] ELSE AnotherPtr(step[i - 1], ofFile)
  IN  step[n]

\* free_block for each block of a set: the hint goes down to the lowest of
\* them, and it is an assertion failure if one of them is free already
GiveAll(a, S) ==
  [a EXCEPT !.map = @ \ S, !.used = @ - Cardinality(S),
            !.hint = Min({@} \cup {ByteOf(b) : b \in S}), !.bug = @ \/ ~ (S \subseteq a.map)]

-----------------------------------------------------------------------------
(* Pointer trees.                                                          *)

CeilDiv(n, d) == (n + d - 1) \div d

\* update_levels and update_dir_levels: how often n can be divided by the
\* pointers in a block until they fit in one
Levels(n) ==
  LET left[i \in 0 .. n] == IF i = 0 THEN n ELSE left[i - 1] \div Ptrs
  IN  IF n < 2 THEN 0 ELSE Min({l \in 1 .. n : left[l - 1] <= Ptrs})

\* per_level_fixed: pointer blocks of level l of a tree over n blocks
PerLevel(l, n) ==
  LET width[i \in 0 .. l] == IF i = 0 THEN n ELSE CeilDiv(width[i - 1], Ptrs)
  IN  width[l]

\* Pointer blocks of a tree over n blocks, the root included, as long as the root
\* has room for all of level Levels(n) - 1.  It has for every n up to Ptrs^2; from
\* Ptrs^2 + 1 to Ptrs^2 + Ptrs - 1 the code writes fewer blocks, with too few levels.
\* Whoever uses this module keeps n to Ptrs^2.
PtrBlocks(n) ==
  LET sum[l \in 0 .. Levels(n)] == IF l = 0 THEN 0 ELSE sum[l - 1] + PerLevel(l, n)
  IN  sum[Levels(n)]

PointersPerLevel(l, n) == IF n < 2 THEN 0 ELSE PerLevel(l - 1, n)

\* reserve_meta_blocks at level l: it goes on with the pointer blocks of this
\* level, those there were and those there will be
NextLevel(s, l) ==
  LET newp == PointersPerLevel(l, s.old + s.new)
      oe == CeilDiv(PointersPerLevel(l, s.old), Ptrs)
      ne == CeilDiv(newp, Ptrs)
  IN  IF s.new = 0 \/ ~ s.more THEN s
      ELSE [old |-> oe, new |-> ne, more |-> newp > Ptrs, sum |-> s.sum + (ne - oe)]

\* Pointer blocks to be set aside if n entries are added to o.  Each level has
\* fewer blocks, so that there are not more than o + n levels.
Reserve(o, n) ==
  LET level[l \in 0 .. (o + n)] ==
        IF l = 0 THEN [old |-> o, new |-> n, more |-> TRUE, sum |-> 0] ELSE NextLevel(level[l - 1], l)
  IN  level[o + n].sum
=============================================================================
