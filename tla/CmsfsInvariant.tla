--------------------------- MODULE CmsfsInvariant ---------------------------
(***************************************************************************)
(* The inductive invariant of Cmsfs, Good(st): what holds of the disk, the *)
(* cache and the open files between two operations.  It says more than the *)
(* properties of Cmsfs do, so that each operation can be shown to keep it: *)
(* where exactly the entries are, what of it holds within an operation,    *)
(* while the directory has a block more or an entry less than it should    *)
(* (DiskOK), and that everything named in the cache or by an object is     *)
(* there.  A state is a record as in st, so that the same formulas hold of *)
(* the states in between.  Sized and Safe are about failing assertions: an *)
(* operation must leave the directory the pointer blocks that a later one  *)
(* counts on when it gives them back and takes them again.                 *)
(***************************************************************************)
EXTENDS Cmsfs

\* The counter says how many bits are set, none is behind the end of the disk,
\* and no block that is free is in a byte of the map in front of the hint
AmOK(a) ==
  /\ a \in Alloc /\ a.map \subseteq OnDisk /\ a.used = Cardinality(a.map)
  /\ \A b \in Bits : ByteOf(b) < a.hint => b \in a.map

\* An entry, an object of an open file, and a record with the parts of a state
Entry == [name : Names, data : Seq(Bits), meta : SUBSET Bits]

ObjectType == [path : Names, addr : Addrs, fst : Entry, dirty : BOOLEAN, use : Nat, unlinked : BOOLEAN]

IsState(w) ==
  /\ w = [am |-> w.am, dir |-> w.dir, ents |-> w.ents, files |-> w.files, label |-> w.label,
          cache |-> w.cache, open |-> w.open]
  /\ w.dir = [list |-> w.dir.list, ptrs |-> w.dir.ptrs]
  /\ w.cache = [map |-> w.cache.map, max |-> w.cache.max]
  /\ w.ents = [a \in DOMAIN w.ents |-> w.ents[a]]
  /\ w.cache.map = [n \in DOMAIN w.cache.map |-> w.cache.map[n]]

\* The slot at a position of the list of blocks, and the first n slots for
\* files
At(l, p) == <<l[p \div Slots], p % Slots>>

First == Slots + 2

Places(l, n) == {At(l, p) : p \in First .. (First + n - 1)}

\* The n entries fill the first slots; the list has no more than one block
\* beyond the last of them, and between operations none
DirOK(l, e, n) ==
  /\ l \in Seq(Bits) /\ Len(l) >= 1 /\ l[1] = Fdir /\ IsInjective(l) /\ 0 \notin Range(l)
  /\ n \in Nat /\ n + 2 <= Len(l) * Slots /\ Len(l) * Slots <= First + n
  /\ DOMAIN e = Places(l, n)

NoEmptyBlock(l, n) == Len(l) > 1 => Len(l) * Slots < First + n

\* Entries, each with its own name and as many pointer blocks as it needs
EntsOK(e, bug) ==
  /\ \A a \in DOMAIN e :
       /\ e[a] \in Entry /\ IsInjective(e[a].data) /\ Range(e[a].data) \cap e[a].meta = {}
       /\ ~ bug => Cardinality(e[a].meta) = PtrBlocks(Len(e[a].data))
  /\ \A a, b \in DOMAIN e : e[a].name = e[b].name => a = b

\* The blocks of the label, the map and the directory
BaseOf(d) == {0} \cup Range(d.list) \cup d.ptrs

\* Every block that is set in the map has one owner
Owned(map, d, e) ==
  /\ d.ptrs \in SUBSET Bits /\ d.ptrs \cap ({0} \cup Range(d.list)) = {}
  /\ map = BaseOf(d) \cup UNION {BlocksOf(e[a]) : a \in DOMAIN e}
  /\ \A a \in DOMAIN e : BlocksOf(e[a]) \cap BaseOf(d) = {}
  /\ \A a, b \in DOMAIN e : a # b => BlocksOf(e[a]) \cap BlocksOf(e[b]) = {}

\* A valid address in the cache is that of the entry with the name
CacheOK(m, e) ==
  /\ DOMAIN m \subseteq Names
  /\ \A n \in DOMAIN m : m[n] # NoAddr => m[n] \in DOMAIN e /\ e[m[n]].name = n

\* Each open file has one object, which agrees with the entry at its address
OpenOK(o, e) ==
  /\ o \in Seq(ObjectType)
  /\ \A i \in DOMAIN o : /\ o[i].addr \in DOMAIN e /\ e[o[i].addr] = o[i].fst
                         /\ o[i].fst.name = o[i].path /\ o[i].use \in 1 .. MaxUse
  /\ \A i, j \in DOMAIN o : o[i].path = o[j].path => i = j

\* Within an operation, and between two
DiskOK(w) ==
  /\ IsState(w) /\ AmOK(w.am) /\ DirOK(w.dir.list, w.ents, w.files) /\ EntsOK(w.ents, w.am.bug)
  /\ Owned(w.am.map, w.dir, w.ents) /\ CacheOK(w.cache.map, w.ents)

Good(w) ==
  /\ DiskOK(w) /\ NoEmptyBlock(w.dir.list, w.files) /\ OpenOK(w.open, w.ents) /\ w.label = w.am.used

\* The directory has the pointer blocks that it needs
Sized(a, d) == ~ a.bug => Cardinality(d.ptrs) = PtrBlocks(Len(d.list))

\* No write adds more blocks than a pointer block has pointers
Narrow == MaxWrite <= Ptrs

\* From allocator a and directory d to b and e: the directory keeps the pointer
\* blocks that it needs, and no assertion fails if nothing was left reserved and
\* the disk not full
Safe(a, d, b, e) ==
  ~ a.bug /\ Sized(a, d) => Sized(b, e) /\ (Narrow /\ a.reserved = 0 /\ a.used < Total => ~ b.bug)
=============================================================================
