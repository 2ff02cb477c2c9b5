------------------------------- MODULE Cmsfs -------------------------------
(***************************************************************************)
(* cmsfs-fuse, the file system for CMS disks: the directory and its        *)
(* entries, the blocks of the files and of the pointer trees over them,    *)
(* the cache of entry addresses, the objects of open files, and what the   *)
(* FUSE operations do to them.  The daemon serves one operation at a time; *)
(* what interleaves is the operations of its users, and a remount, which   *)
(* keeps only what is on the disk.  Contents are counted in blocks: how    *)
(* records fill them is left out.                                          *)
(***************************************************************************)
EXTENDS AllocMap, Functions, TLC

CONSTANTS Names,       \* file names, in upper case
          Slots,       \* directory entries in a block, the first two of the first taken
          Spare,       \* room of the cache for more files than there are, 10
          MaxBlocks,   \* bound: data blocks of a file
          MaxWrite,    \* bound: data blocks that one write adds
          MaxUse,      \* bound: users of an open file
          MaxLeak,     \* bound: blocks left reserved when a write starts
          Habits       \* what the users keep to; "alone": nobody deletes or
                       \* replaces a file while another one is open; "fresh":
                       \* nobody renames a file to its own name (in another
                       \* case) or to that of a file that is open

\* Files and the directory have pointer trees of at most two levels.  Beyond
\* Ptrs^2 blocks there are sizes for which update_levels rounds the number of
\* levels down and no pointer leads to the last blocks.
ASSUME CmsfsAssumption ==
  /\ Total >= 2 /\ Slots \in Nat /\ Slots >= 3 /\ Spare \in Nat /\ Spare >= 2
  /\ MaxBlocks \in Nat /\ MaxBlocks <= Ptrs * Ptrs
  /\ IsFiniteSet(Names) /\ Cardinality(Names) + 2 <= Slots * Ptrs * Ptrs
  /\ MaxWrite \in Nat /\ MaxUse \in Nat \ {0} /\ MaxLeak \in Nat /\ Habits \subseteq {"alone", "fresh"}

VARIABLES am,      \* the allocator
          dir,     \* blocks of the directory in order, and its pointer blocks
          ents,    \* directory entries by their address on the disk
          files,   \* cmsfs.files, and the count in the entry of the directory
          label,   \* used blocks according to the label of the disk
          cache,   \* cmsfs.htab: addresses of entries, 0 if invalid, and its size
          open     \* open_file_list

vars == <<am, dir, ents, files, label, cache, open>>

\* What a chain of calls works on
st == [am |-> am, dir |-> dir, ents |-> ents, files |-> files, label |-> label,
       cache |-> cache, open |-> open]

Becomes(w) ==
  /\ am' = w.am /\ dir' = w.dir /\ ents' = w.ents /\ files' = w.files
  /\ label' = w.label /\ cache' = w.cache /\ open' = w.open

Fixed == {0, 1}                       \* label and map; first block of the directory
Fdir == 1
Addrs == Bits \X (0 .. (Slots - 1))
NoAddr == <<0, 0>>                    \* offset 0 of the disk, and "not found"

\* An entry: the name, the data blocks that its pointers lead to, and the
\* pointer blocks
Fst(n, data, meta) == [name |-> n, data |-> data, meta |-> meta]

Put(e, a, x) == [b \in DOMAIN e \cup {a} |-> IF b = a THEN x ELSE e[b]]

BlocksOf(fst) == Range(fst.data) \cup fst.meta

MaxCache(n) == n + Spare + n \div 4

Init ==
  /\ am = [map |-> Fixed, hint |-> NoHint, used |-> Cardinality(Fixed), reserved |-> 0, bug |-> FALSE]
  /\ dir = [list |-> <<Fdir>>, ptrs |-> {}]
  /\ ents = <<>>
  /\ files = 0 /\ label = am.used
  /\ cache = [map |-> <<>>, max |-> MaxCache(0)]
  /\ open = <<>>

-----------------------------------------------------------------------------
(* Directory.                                                              *)

\* Positions number the slots of all blocks in the order of the directory; the
\* first two of the first block, Fdir, are the entries of the directory itself
\* and of the map.
PosAddr(w, p) == <<w.dir.list[p \div Slots], p % Slots>>

Positions(w) == (Slots + 2) .. ((Len(w.dir.list) + 1) * Slots - 1)

\* Of a set P of positions, those in the block of p and before it: a walk
\* leaves a block at the first slot that is empty
Before(P, p) == {q \in P : q < p /\ q \div Slots = p \div Slots}

Walked(w) ==
  LET P == Positions(w)
      used == {p \in P : PosAddr(w, p) \in DOMAIN w.ents}
  IN  {p \in used : Before(P, p) \subseteq used}

AtPos(w, P) == IF P = {} THEN NoAddr ELSE PosAddr(w, Min(P))

Walk(w, n) == AtPos(w, {p \in Walked(w) : w.ents[PosAddr(w, p)].name = n})

EmptySlot(w) ==
  LET P == Positions(w)
      used == Walked(w)
  IN  AtPos(w, {p \in P \ used : Before(P, p) \subseteq used})

\* find_last_fdir_entry looks only into the last block
LastEntry(w) ==
  LET last == {p \in Positions(w) : p \div Slots = Len(w.dir.list) /\ PosAddr(w, p) \in DOMAIN w.ents}
  IN  IF last = {} THEN NoAddr ELSE PosAddr(w, Max(last))

\* The directory gets another list of blocks: the old pointer blocks are
\* freed, then the new ones are written
Relist(w, list) ==
  LET t == TakePtrs(GiveAll(w.am, w.dir.ptrs), PtrBlocks(Len(list)), FALSE)
  IN  [w EXCEPT !.am = t.am, !.dir = [list |-> list, ptrs |-> t.got]]

-----------------------------------------------------------------------------
(* Lookup.                                                                 *)

\* Position of the first object with that path in the list, or 0
FileOpen(w, n) ==
  LET P == {i \in DOMAIN w.open : w.open[i].path = n} IN IF P = {} THEN 0 ELSE Min(P)

Unlinked(w, n) == FileOpen(w, n) # 0 /\ w.open[FileOpen(w, n)].unlinked

\* cache_fst_addr: a name that is there is left alone, even if it is invalid;
\* a full cache is emptied and gets another size
CacheFst(w, n, a) ==
  IF n \in DOMAIN w.cache.map THEN w
  ELSE IF Cardinality(DOMAIN w.cache.map) = w.cache.max - 1
       THEN [w EXCEPT !.cache = [map |-> [x \in {n} |-> a], max |-> MaxCache(w.files)]]
       ELSE [w EXCEPT !.cache.map = Put(@, n, a)]

\* The cache is not told
RecacheNot(w, n, a) == w

\* update_htab_entry and, for NoAddr, invalidate_htab_entry
Recache(w, n, a) ==
  IF n \in DOMAIN w.cache.map THEN [w EXCEPT !.cache.map[n] = a] ELSE w

Cached(w, n) == n \in DOMAIN w.cache.map /\ w.cache.map[n] # NoAddr

Found(w, n) == IF Cached(w, n) THEN w.cache.map[n] ELSE Walk(w, n)

\* lookup_file: the address, and the state after it.  An entry that is not
\* one is fatal.
Lookup(w, n, hide) == IF hide /\ Unlinked(w, n) THEN NoAddr ELSE Found(w, n)

LookedUp(w, n, hide) ==
  IF Lookup(w, n, hide) = NoAddr THEN w
  ELSE IF Found(w, n) \notin DOMAIN w.ents THEN [w EXCEPT !.am.bug = TRUE]
  ELSE CacheFst(w, n, Found(w, n))

-----------------------------------------------------------------------------
(* Open files.                                                             *)

Object(w, n, a) ==
  [path |-> n, addr |-> a, fst |-> w.ents[a], dirty |-> FALSE,
   use |-> 0, unlinked |-> FALSE]

\* cmsfs_open of a file that is there
Opened(w, n) ==
  LET v == LookedUp(w, n, FALSE)
      a == Lookup(w, n, FALSE)
      u == IF FileOpen(v, n) # 0 THEN v ELSE [v EXCEPT !.open = <<Object(v, n, a)>> \o @]
      i == FileOpen(u, n)
  IN  [u EXCEPT !.open[i].use = @ + 1]

\* Forgets to reserve blocks for the pointers
ReservedNone(w, old, n) == w.am

\* The blocks for the pointers of a longer file are set aside first
Reserved(w, old, n) ==
  [w.am EXCEPT !.reserved = @ + (IF old + n > 1 THEN Reserve(old, n) ELSE 0)]

\* The old pointer blocks are not freed
RepointedKeep(a, fst, data) == TakePtrs(a, PtrBlocks(Len(data)), TRUE)

\* rewrite_pointers after delete_pointers
Repointed(a, fst, data) ==
  TakePtrs(GiveAll(a, fst.meta), PtrBlocks(Len(data)), TRUE)

\* do_write of object i: n more blocks are needed, and tail says that some of
\* the data goes into the last block.  If the disk is full from the start,
\* the reservation is kept.
Written(w, i, n, tail) ==
  LET f == w.open[i]
      t == TakeUpTo(Reserved(w, Len(f.fst.data), n), n)
      data == f.fst.data \o t.got
      dirty == f.dirty \/ n > 0
      p == IF dirty THEN Repointed(t.am, f.fst, data) ELSE [am |-> t.am, got |-> f.fst.meta]
      fst == Fst(f.fst.name, data, p.got)
  IN  IF t.got = <<>> /\ ~ tail
      THEN [w EXCEPT !.am = t.am, !.open[i].dirty = TRUE]
      ELSE [w EXCEPT !.am = p.am, !.label = p.am.used, !.ents = Put(@, f.addr, fst),
                     !.open[i] = [f EXCEPT !.fst = fst, !.dirty = FALSE]]

\* shrink_file and update_fst: k blocks are left
Shrunk(w, i, a, fst, k) ==
  LET data == SubSeq(fst.data, 1, k)
      freed == GiveAll(w.am, Range(fst.data) \ Range(data))
      p == Repointed(freed, fst, data)
      new == Fst(fst.name, data, p.got)
      v == [w EXCEPT !.am = p.am, !.label = p.am.used, !.ents = Put(@, a, new)]
  IN  IF i = 0 THEN v ELSE [v EXCEPT !.open[i].fst = new]

-----------------------------------------------------------------------------
(* Deleting.                                                               *)

\* The last entry of the directory moves to the place of the deleted one,
\* and its cached address with it
Copied(w, kill, last) ==
  IF last = kill THEN w
  ELSE Recache([w EXCEPT !.ents = Put(@, kill, w.ents[last])], w.ents[last].name, kill)

\* The directory never shrinks
PoppedOnly(w, last) == [w EXCEPT !.ents = Restrict(@, DOMAIN @ \ {last})]

\* A block of the directory is freed with its first entry
Popped(w, last) ==
  LET v == [w EXCEPT !.ents = Restrict(@, DOMAIN @ \ {last})]
  IN  IF last[2] # 0 THEN v
      ELSE Relist([v EXCEPT !.am = GiveAll(v.am, {last[1]})], Front(v.dir.list))

\* delete_file.  The object of an open file whose entry moves keeps the old
\* address.
Deleted(w, n) ==
  LET kill == Lookup(w, n, FALSE)
      v == LookedUp(w, n, FALSE)
      freed == [v EXCEPT !.am = GiveAll(v.am, BlocksOf(v.ents[kill]))]
      last == LastEntry(v)
      u == Popped(Copied(Recache(freed, n, NoAddr), kill, last), last)
  IN  IF kill = NoAddr THEN w
      ELSE IF last = NoAddr THEN [v EXCEPT !.am.bug = TRUE]
      ELSE [u EXCEPT !.files = @ - 1, !.label = u.am.used]

-----------------------------------------------------------------------------
(* Operations.                                                             *)

\* cmsfs_getattr, and the lookups of the other operations that fail
Getattr(n) == Becomes(LookedUp(st, n, TRUE))

\* cmsfs_readdir: the entries that are shown get into the cache one by one
Readdir ==
  LET shown == {p \in Walked(st) : ~ Unlinked(st, ents[PosAddr(st, p)].name)}
      last == (Len(dir.list) + 1) * Slots
      upto[p \in 0 .. last] ==
        IF p = 0 THEN st
        ELSE IF p \in shown THEN CacheFst(upto[p - 1], ents[PosAddr(st, p)].name, PosAddr(st, p))
        ELSE upto[p - 1]
  IN  Becomes(upto[last])

MayUse(n) == FileOpen(st, n) # 0 => open[FileOpen(st, n)].use < MaxUse

Open(n) ==
  /\ Lookup(st, n, FALSE) # NoAddr /\ MayUse(n)
  /\ Becomes(Opened(st, n))

\* A new block for the directory, if there is room for it and its pointers
Grown(w) ==
  LET b == FreeBlock(w.am)
      zeroed == [w EXCEPT !.am = Take(w.am), !.ents = Restrict(@, {a \in DOMAIN @ : a[1] # b})]
      v == Relist(zeroed, Append(w.dir.list, b))
  IN  [v EXCEPT !.label = v.am.used]

NoRoomToGrow ==
  \/ Total - am.used < Levels(Len(dir.list)) + 2
  \/ Full(am)

\* The entry goes to the first empty slot
Added(w, n) ==
  LET a == EmptySlot(w)
      v == CacheFst([w EXCEPT !.ents = Put(@, a, Fst(n, <<>>, {}))], n, a)
  IN  Opened([v EXCEPT !.files = @ + 1], n)

\* cmsfs_create of a name that is not there; of one that is, it is Open
Create(n) ==
  /\ Lookup(st, n, FALSE) = NoAddr
  /\ IF EmptySlot(st) # NoAddr THEN Becomes(Added(st, n))
     ELSE ~ NoRoomToGrow /\ Becomes(Added(Grown(st), n))

\* cmsfs_write of a file in binary mode
Write(i, n, tail) ==
  /\ Len(open[i].fst.data) + n <= MaxBlocks /\ am.reserved <= MaxLeak
  /\ tail => open[i].fst.data # <<>>
  /\ tail \/ n > 0
  /\ Becomes(Written(st, i, n, tail))

\* cmsfs_truncate, of the object if the file is open
Truncate(n, k) ==
  LET i == FileOpen(st, n)
      a == IF i # 0 THEN open[i].addr ELSE Lookup(st, n, TRUE)
      w == IF i # 0 THEN st ELSE LookedUp(st, n, TRUE)
      fst == IF i # 0 THEN open[i].fst ELSE ents[a]
  IN  /\ a # NoAddr
      /\ k <= Len(fst.data) /\ fst.data # <<>>
      /\ Becomes(Shrunk(w, i, a, fst, k))

Unlink(n) ==
  LET i == FileOpen(st, n)
  IN  /\ Lookup(st, n, TRUE) # NoAddr
      /\ "alone" \in Habits /\ i = 0 => open = <<>>
      /\ Becomes(IF i # 0 THEN [LookedUp(st, n, TRUE) EXCEPT !.open[i].unlinked = TRUE]
                 ELSE Deleted(LookedUp(st, n, TRUE), n))

\* The object of an open file keeps its name
RenamedNot(w, n, new) == w

Renamed(w, n, new) ==
  LET i == FileOpen(w, n)
  IN  IF i = 0 THEN w ELSE [w EXCEPT !.open[i].path = new, !.open[i].fst.name = new]

\* cmsfs_rename: what has the new name is deleted, and the entry looked up
\* again
Rename(n, new) ==
  LET w == LookedUp(LookedUp(st, n, TRUE), new, TRUE)
      over == Lookup(st, new, TRUE) # NoAddr
      v == IF over THEN Deleted(w, new) ELSE w
      a == IF over THEN Lookup(v, n, TRUE) ELSE Lookup(w, n, TRUE)
      fst == [(IF a = NoAddr THEN ents[Lookup(st, n, TRUE)] ELSE v.ents[a]) EXCEPT !.name = new]
      u == Recache(IF over THEN LookedUp(v, n, TRUE) ELSE v, n, NoAddr)
  IN  /\ Lookup(st, n, TRUE) # NoAddr
      /\ "fresh" \in Habits => n # new /\ FileOpen(st, new) = 0
      /\ "alone" \in Habits /\ over => open = <<>>
      /\ Becomes([Renamed(u, n, new) EXCEPT !.ents = Put(@, a, fst)])

\* cmsfs_release: the last user of an unlinked file deletes it
Release(i) ==
  LET f == open[i]
      w == IF f.unlinked THEN Deleted(st, f.path) ELSE st
  IN  /\ "alone" \in Habits /\ f.unlinked /\ f.use = 1 => Len(open) = 1
      /\ Becomes(IF f.use = 1 THEN [w EXCEPT !.open = RemoveAt(@, i)]
                 ELSE [st EXCEPT !.open[i].use = @ - 1])

\* The daemon ends and starts again
Remount ==
  /\ am' = [am EXCEPT !.hint = NoHint, !.used = label, !.reserved = 0]
  /\ cache' = [map |-> <<>>, max |-> MaxCache(files)]
  /\ open' = <<>>
  /\ UNCHANGED <<dir, ents, files, label>>

Next ==
  /\ ~ am.bug
  /\ \/ \E n \in Names : Getattr(n) \/ Create(n) \/ Open(n) \/ Unlink(n)
     \/ Readdir
     \/ \E i \in DOMAIN open, n \in 0 .. MaxWrite, tail \in BOOLEAN : Write(i, n, tail)
     \/ \E i \in DOMAIN open : Release(i)
     \/ \E n \in Names, k \in 0 .. MaxBlocks : Truncate(n, k)
     \/ \E n, new \in Names : Rename(n, new)
     \/ Remount

Spec == Init /\ [][Next]_vars

-----------------------------------------------------------------------------
(* Properties.                                                             *)

\* Types: block numbers are in the map, the counters never wrap below 0, and
\* an object in open_file_list has users
TypeOK ==
  /\ am \in Alloc
  /\ dir.list \in Seq(Bits) /\ dir.ptrs \subseteq Bits
  /\ \A a \in DOMAIN ents : a \in Addrs /\ ents[a].name \in Names /\ BlocksOf(ents[a]) \subseteq Bits
  /\ DOMAIN cache.map \subseteq Names /\ Range(cache.map) \subseteq Addrs
  /\ files \in Nat /\ label \in Nat
  /\ \A i \in DOMAIN open : open[i].use \in 1 .. MaxUse

\* The bits set in the allocation map are the blocks that something uses, each
\* for one purpose only, and the counters of the daemon and of the label are
\* right, whatever sequence of operations and remounts led there
AllocExact ==
  ~ am.bug =>
    LET entries == {ents[PosAddr(st, p)] : p \in Walked(st)}
        whole == <<Fixed, Range(Tail(dir.list)), dir.ptrs>>
                   \o SetToSeq({BlocksOf(e) : e \in entries})
    IN  /\ am.map = UNION Range(whole)
        /\ \A i, j \in DOMAIN whole : i # j => whole[i] \cap whole[j] = {}
        /\ \A e \in entries : Cardinality(BlocksOf(e)) = Len(e.data) + PtrBlocks(Len(e.data))
        /\ am.used = Cardinality(am.map) /\ label = am.used

\* No block behind the end of the disk is allocated although only the
\* number of blocks is checked (amap_block_clear keeps the map packed)
InDisk == am.map \subseteq OnDisk

\* The directory has no holes, no empty block at its end, no name twice, and
\* the number of files is right
DirPacked ==
  ~ am.bug =>
    LET P == Positions(st)
        walked == Walked(st)
    IN  /\ \A p \in P : PosAddr(st, p) \in DOMAIN ents => {q \in P : q <= p} \subseteq walked
        /\ \A p, q \in walked : p # q => ents[PosAddr(st, p)].name # ents[PosAddr(st, q)].name
        /\ files = Cardinality(walked)
        /\ Len(dir.list) > 1 => <<Last(dir.list), 0>> \in DOMAIN ents

\* An address in the cache is that of the entry with the name: lookup_file
\* takes it without a look at the entry
CacheExact ==
  ~ am.bug => \A n \in Names : Cached(st, n) => cache.map[n] = Walk(st, n)

\* The object of an open file has the address of its entry, and what it
\* writes back is what is there
ObjectExact ==
  ~ am.bug => \A i \in DOMAIN open : open[i].addr = Walk(st, open[i].path)
                                     /\ ents[open[i].addr] = open[i].fst

\* An assertion fails only if the disk is full or blocks were left reserved
BugOnlyOnFullDisk == [][am'.bug => am.reserved > 0 \/ am.used = Total]_vars

\* Every block of the disk has one owner or none, the map and both counters say
\* so, and no block is beyond the end of the disk.
BlocksExact == TypeOK /\ AllocExact /\ InDisk
=============================================================================
