---------------------------- MODULE CmsfsProofs ----------------------------
(***************************************************************************)
(* Theorems about Cmsfs: the map, the directory, the cache of addresses    *)
(* and the objects of open files agree on a disk of any size, with any     *)
(* number of users and operations and as many files and blocks as trees of *)
(* two levels of pointers reach (CmsfsAssumption), if nobody deletes or    *)
(* replaces a file while another one is open ("alone") and nobody renames  *)
(* a file to its own name or to that of an open file ("fresh"); and no     *)
(* assertion fails before the disk is full or a reservation is left over.  *)
(*                                                                         *)
(* The argument goes bottom up.  Arithmetic of the sizes; the allocator,   *)
(* one block and then many; sizes of pointer trees; where the entries of   *)
(* the directory are; then what each of the calls that the operations are  *)
(* made of does to a state as a record (LookedUp, Written, Shrunk, Opened, *)
(* Grown, Added, Deleted, Renamed); one lemma for each operation; and the  *)
(* properties, which follow from the invariant.                            *)
(***************************************************************************)
EXTENDS CmsfsInvariant, SequenceTheorems, FiniteSetTheorems, TLAPS

-----------------------------------------------------------------------------
(* Sets, numbers and sequences.                                            *)

\* A set of natural numbers that is not empty has a least element.
LEMMA LeastNat ==
  ASSUME NEW T \in SUBSET Nat, T # {}
  PROVE  \E m \in T : \A k \in T : m <= k
<1> DEFINE R == {ss \in Nat \X Nat : ss[1] < ss[2]}
<1>1. IsWellFoundedOn(R, Nat)
  BY NatLessThanWellFounded, Zenon DEF OpToRel
<1>2. PICK x \in T : \A y \in T : ~(<<y, x>> \in R)
  BY <1>1, WFMin
<1>3. ASSUME NEW y \in T PROVE x <= y
  <2>1. <<y, x>> \in Nat \X Nat /\ <<y, x>>[1] = y /\ <<y, x>>[2] = x
    OBVIOUS
  <2>2. ~ (y < x)
    BY <1>2, <2>1
  <2> QED
    BY <2>2
<1> QED
  BY <1>3

\* Induction: a set with 0 and with the successors of its elements has all
\* natural numbers.
LEMMA Induct ==
  ASSUME NEW S, 0 \in S, \A n \in Nat : n \in S => n + 1 \in S
  PROVE  Nat \subseteq S
<1> SUFFICES ASSUME Nat \ S # {} PROVE FALSE
  OBVIOUS
<1>1. PICK m \in Nat \ S : \A k \in Nat \ S : m <= k
  BY LeastNat
<1>2. m # 0 /\ m - 1 \in Nat /\ m - 1 \notin Nat \ S
  BY <1>1
<1> QED
  BY <1>1, <1>2

\* A bounded set of natural numbers that is not empty has a greatest element.
LEMMA GreatestNat ==
  ASSUME NEW T \in SUBSET Nat, T # {}, NEW n \in Nat, \A k \in T : k <= n
  PROVE  \E m \in T : \A k \in T : k <= m
<1> DEFINE U == {i \in Nat : n - i \in T}
<1>1. U # {}
  <2>1. PICK k \in T : TRUE
    OBVIOUS
  <2>2. n - k \in Nat /\ n - (n - k) = k
    BY <2>1
  <2> QED
    BY <2>1, <2>2
<1>2. PICK i \in U : \A j \in U : i <= j
  BY <1>1, LeastNat
<1>3. ASSUME NEW k \in T PROVE k <= n - i
  <2>1. n - k \in U
    <3>1. n - k \in Nat /\ n - (n - k) = k
      OBVIOUS
    <3> QED
      BY <3>1
  <2> QED
    BY <1>2, <2>1
<1> QED
  BY <1>2, <1>3

\* Min and Max of such sets.
LEMMA MinFacts ==
  ASSUME NEW S \in SUBSET Nat, S # {}
  PROVE  Min(S) \in S /\ \A k \in S : Min(S) <= k
<1>1. \E m \in S : \A k \in S : m <= k
  BY LeastNat
<1> QED
  BY <1>1 DEF Min

LEMMA MaxFacts ==
  ASSUME NEW S \in SUBSET Nat, S # {}, NEW n \in Nat, \A k \in S : k <= n
  PROVE  Max(S) \in S /\ \A k \in S : k <= Max(S)
<1>1. \E m \in S : \A k \in S : k <= m
  BY GreatestNat
<1>2. \E m \in S : \A k \in S : m >= k
  BY <1>1
<1>3. Max(S) \in S /\ \A k \in S : Max(S) >= k
  BY <1>2 DEF Max
<1> QED
  BY <1>3

\* One element more, one fewer.
LEMMA CardFacts ==
  ASSUME NEW S, IsFiniteSet(S), NEW x
  PROVE  /\ Cardinality(S) \in Nat
         /\ Cardinality(S) = 0 <=> S = {}
         /\ IsFiniteSet(S \cup {x}) /\ IsFiniteSet(S \ {x})
         /\ x \in S => Cardinality(S \ {x}) = Cardinality(S) - 1 /\ Cardinality(S) >= 1
         /\ x \notin S => Cardinality(S \cup {x}) = Cardinality(S) + 1
<1>1. Cardinality(S) \in Nat /\ (Cardinality(S) = 0 <=> S = {})
  BY FS_CardinalityType, FS_EmptySet
<1>2. IsFiniteSet(S \cup {x}) /\ Cardinality(S \cup {x}) = IF x \in S THEN Cardinality(S) ELSE Cardinality(S) + 1
  BY FS_AddElement
<1>3. IsFiniteSet(S \ {x}) /\ Cardinality(S \ {x}) = IF x \in S THEN Cardinality(S) - 1 ELSE Cardinality(S)
  BY FS_RemoveElement
<1> QED
  BY <1>1, <1>2, <1>3

\* Adding at the end of a list: one more
\* element, and no duplicate if it is new.
LEMMA AppendFacts ==
  ASSUME NEW S, NEW s \in Seq(S), NEW e \in S
  PROVE  /\ Append(s, e) \in Seq(S)
         /\ Range(Append(s, e)) = Range(s) \cup {e}
         /\ IsInjective(s) /\ e \notin Range(s) => IsInjective(Append(s, e))
<1>1. /\ Len(s) \in Nat /\ DOMAIN s = 1..Len(s)
      /\ Append(s, e) \in Seq(S)
      /\ DOMAIN Append(s, e) = 1..(Len(s) + 1)
      /\ \A i \in 1..Len(s) : Append(s, e)[i] = s[i]
      /\ Append(s, e)[Len(s) + 1] = e
  OBVIOUS
<1>2. \A i \in 1..(Len(s) + 1) : i \in 1..Len(s) \/ i = Len(s) + 1
  BY <1>1
<1>3. 1..Len(s) \subseteq 1..(Len(s) + 1) /\ Len(s) + 1 \in 1..(Len(s) + 1)
  BY <1>1
<1>4. Range(Append(s, e)) = Range(s) \cup {e}
  BY <1>1, <1>2, <1>3 DEF Range
<1>5. ASSUME IsInjective(s), e \notin Range(s)
      PROVE  IsInjective(Append(s, e))
  BY <1>1, <1>2, <1>5 DEF Range, IsInjective
<1> QED
  BY <1>1, <1>4, <1>5

\* Putting one list before another: the elements of both, and no
\* duplicate if they have none in common.
LEMMA ConcatFacts ==
  ASSUME NEW S, NEW r \in Seq(S), NEW s \in Seq(S)
  PROVE  /\ r \o s \in Seq(S)
         /\ Range(r \o s) = Range(r) \cup Range(s)
         /\ IsInjective(r) /\ IsInjective(s) /\ Range(r) \cap Range(s) = {}
              => IsInjective(r \o s)
<1> DEFINE m == Len(r)  n == Len(s)
<1>1. /\ m \in Nat /\ DOMAIN r = 1..m
      /\ n \in Nat /\ DOMAIN s = 1..n
      /\ r \o s \in Seq(S) /\ DOMAIN (r \o s) = 1..(m + n)
      /\ \A i \in 1..m : (r \o s)[i] = r[i]
      /\ \A i \in 1..n : (r \o s)[m + i] = s[i]
  OBVIOUS
<1>2. \A i \in 1..(m + n) : i \in 1..m \/ \E k \in 1..n : i = m + k
  <2> SUFFICES ASSUME NEW i \in 1..(m + n), i \notin 1..m
               PROVE  \E k \in 1..n : i = m + k
    OBVIOUS
  <2>1. i - m \in 1..n /\ i = m + (i - m)
    BY <1>1
  <2> QED
    BY <2>1
<1> HIDE DEF m, n
<1>4. Range(r \o s) = Range(r) \cup Range(s)
  BY RangeConcatenation
<1>5. ASSUME IsInjective(r), IsInjective(s), Range(r) \cap Range(s) = {}
      PROVE  IsInjective(r \o s)
  <2> SUFFICES ASSUME NEW i \in 1..(m + n), NEW k \in 1..(m + n),
                      (r \o s)[i] = (r \o s)[k]
               PROVE  i = k
    BY <1>1 DEF IsInjective
  <2>1. \A p \in 1..m, q \in 1..n : r[p] # s[q]
    BY <1>1, <1>5 DEF Range
  <2>2. CASE i \in 1..m /\ k \in 1..m
    BY <1>1, <1>5, <2>2 DEF IsInjective
  <2>3. CASE i \in 1..m /\ k \notin 1..m
    BY <1>1, <1>2, <2>1, <2>3
  <2>4. CASE i \notin 1..m /\ k \in 1..m
    BY <1>1, <1>2, <2>1, <2>4
  <2>5. CASE i \notin 1..m /\ k \notin 1..m
    <3>1. PICK p \in 1..n, q \in 1..n : i = m + p /\ k = m + q
      BY <1>2, <2>5
    <3>2. p = q
      BY <1>1, <1>5, <3>1 DEF IsInjective
    <3> QED
      BY <3>1, <3>2
  <2> QED
    BY <2>2, <2>3, <2>4, <2>5
<1> QED
  BY <1>1, <1>4, <1>5

\* A prefix of a sequence is a sequence.
LEMMA PrefixFacts ==
  ASSUME NEW S, NEW s \in Seq(S), NEW n \in 0..Len(s)
  PROVE  /\ SubSeq(s, 1, n) \in Seq(S)
         /\ Len(SubSeq(s, 1, n)) = n
         /\ \A i \in 1..n : SubSeq(s, 1, n)[i] = s[i]
<1>1. \A i \in 1..n : s[i] \in S
  OBVIOUS
<1> QED
  BY <1>1, SubSeqProperties

-----------------------------------------------------------------------------
(* Arithmetic.                                                             *)

\* The constants, as the facts that the proofs use.
LEMMA Sizes ==
  /\ Total \in Nat /\ Total >= 2 /\ MapBits \in Nat /\ MapBits >= Total
  /\ ByteBits \in Nat \ {0} /\ MapBytes \in Nat \ {0} /\ Ptrs \in Nat \ {0} /\ Ptrs >= 2
  /\ Slots \in Nat \ {0} /\ Slots >= 3 /\ Spare \in Nat /\ MaxUse \in Nat \ {0}
  /\ OnDisk \subseteq Bits /\ Bits \subseteq Nat /\ OnDisk = 0 .. (Total - 1)
  /\ 0 \in OnDisk /\ Fdir \in OnDisk
BY AllocAssumption, CmsfsAssumption DEF Bits, OnDisk, Fdir

\* Quotient and remainder.
LEMMA DivFacts ==
  ASSUME NEW n \in Nat, NEW d \in Nat \ {0}
  PROVE  n \div d \in Nat /\ n % d \in 0 .. (d - 1) /\ n = (n \div d) * d + (n % d)
<1> DEFINE q == n \div d
           r == n % d
<1>1. q \in Int /\ r \in 0 .. (d - 1) /\ n = q * d + r
  <2>1. n \div d \in Int
    OBVIOUS
  <2>2. n % d \in 0 .. (d - 1)
    OBVIOUS
  <2>3. n = (n \div d) * d + (n % d)
    OBVIOUS
  <2> QED
    BY <2>1, <2>2, <2>3
<1> HIDE DEF q, r
<1>2. ASSUME q <= -1 PROVE FALSE
  <2>1. q * d <= (-1) * d
    BY <1>1, <1>2
  <2> QED
    BY <1>1, <2>1
<1>3. q \in Nat
  BY <1>1, <1>2
<1> QED
  BY <1>1, <1>3 DEF q, r

\* Quotient and remainder are determined by the number.
LEMMA DivUnique ==
  ASSUME NEW d \in Nat \ {0}, NEW q \in Int, NEW p \in Int,
         NEW r \in 0 .. (d - 1), NEW s \in 0 .. (d - 1), q * d + r = p * d + s
  PROVE  q = p /\ r = s
<1>1. ASSUME NEW x \in Int, NEW y \in Int, x < y PROVE x * d + d <= y * d
  <2>1. x + 1 <= y
    BY <1>1
  <2>2. (x + 1) * d <= y * d
    BY <2>1
  <2> QED
    BY <2>2
<1>2. ~(q < p) /\ ~(p < q)
  BY <1>1
<1> QED
  BY <1>2

\* What a number put together from quotient and remainder is divided into.
LEMMA DivIs ==
  ASSUME NEW d \in Nat \ {0}, NEW q \in Nat, NEW r \in 0 .. (d - 1)
  PROVE  (q * d + r) \div d = q /\ (q * d + r) % d = r
<1> DEFINE n == q * d + r
<1>1. n \in Nat
  <2>1. q * d \in Nat
    OBVIOUS
  <2> QED
    BY <2>1
<1> HIDE DEF n
<1>2. n \div d \in Nat /\ n % d \in 0 .. (d - 1) /\ n = (n \div d) * d + (n % d)
  BY <1>1, DivFacts
<1> DEFINE p == n \div d
           s == n % d
<1>3. p \in Int /\ q \in Int /\ s \in 0 .. (d - 1) /\ q * d + r = p * d + s
  BY <1>2 DEF n
<1> HIDE DEF p, s
<1>4. q = p /\ r = s
  BY <1>3, DivUnique
<1> QED
  BY <1>4 DEF n, p, s

\* A larger number has no smaller quotient.
LEMMA DivMonotone ==
  ASSUME NEW m \in Nat, NEW n \in Nat, m <= n, NEW d \in Nat \ {0}
  PROVE  m \div d <= n \div d
<1> DEFINE q == m \div d
           p == n \div d
           r == m % d
           s == n % d
<1>1. q \in Nat /\ r \in 0 .. (d - 1) /\ m = q * d + r
  BY DivFacts
<1>2. p \in Nat /\ s \in 0 .. (d - 1) /\ n = p * d + s
  BY DivFacts
<1> HIDE DEF q, p, r, s
<1>3. ASSUME p + 1 <= q PROVE FALSE
  <2>1. (p + 1) * d <= q * d
    BY <1>1, <1>2, <1>3
  <2>2. (p + 1) * d = p * d + d
    BY <1>2
  <2> QED
    BY <1>1, <1>2, <2>1, <2>2
<1>4. q <= p
  BY <1>1, <1>2, <1>3
<1> QED
  BY <1>4 DEF q, p

\* Rounding up.
LEMMA CeilFacts ==
  ASSUME NEW m \in Nat, NEW n \in Nat, m <= n
  PROVE  CeilDiv(m, Ptrs) \in Nat /\ CeilDiv(m, Ptrs) <= CeilDiv(n, Ptrs)
<1>1. m + Ptrs - 1 \in Nat /\ n + Ptrs - 1 \in Nat /\ m + Ptrs - 1 <= n + Ptrs - 1 /\ Ptrs \in Nat \ {0}
  BY Sizes
<1>2. (m + Ptrs - 1) \div Ptrs \in Nat
  BY <1>1, DivFacts
<1>3. (m + Ptrs - 1) \div Ptrs <= (n + Ptrs - 1) \div Ptrs
  BY <1>1, DivMonotone
<1> QED
  BY <1>2, <1>3 DEF CeilDiv

-----------------------------------------------------------------------------
(* Recursive functions.                                                    *)

\* What is computed step by step, each value from the one before it, exists.
Chain(S, n, a, G, f) ==
  f \in [0 .. n -> S] /\ \A i \in 0 .. n : f[i] = IF i = 0 THEN a ELSE G[<<i, f[i - 1]>>]

\* The values of a chain, up to any length, form a function.
LEMMA Recursion ==
  ASSUME NEW S, NEW n \in Nat, NEW a \in S, NEW G \in [(1 .. n) \X S -> S]
  PROVE  \E f : Chain(S, n, a, G, f)
<1> DEFINE Builds(m, f) == f \in [0 .. m -> S]
                             /\ f[0] = a /\ \A i \in 1 .. m : f[i] = G[<<i, f[i - 1]>>]
           T == {m \in Nat : m <= n => \E f : Builds(m, f)}
<1>1. 0 \in T
  <2>1. Builds(0, [i \in 0 .. 0 |-> a])
    OBVIOUS
  <2> QED
    BY <2>1
<1>2. ASSUME NEW m \in Nat, m \in T PROVE m + 1 \in T
  <2> SUFFICES ASSUME m + 1 <= n PROVE \E f : Builds(m + 1, f)
    OBVIOUS
  <2>1. PICK f : Builds(m, f)
    BY <1>2
  <2> DEFINE h == [i \in 0 .. (m + 1) |-> IF i = m + 1 THEN G[<<m + 1, f[m]>>] ELSE f[i]]
  <2>2. f[m] \in S /\ m + 1 \in 1 .. n
    BY <2>1
  <2>3. G[<<m + 1, f[m]>>] \in S
    BY <2>2
  <2>4. h \in [0 .. (m + 1) -> S]
    BY <2>1, <2>3
  <2>5. h[0] = a
    BY <2>1
  <2>6. ASSUME NEW i \in 1 .. (m + 1) PROVE h[i] = G[<<i, h[i - 1]>>]
    <3>1. CASE i = m + 1
      <4>1. h[i] = G[<<m + 1, f[m]>>] /\ h[i - 1] = f[m]
        BY <3>1
      <4> HIDE DEF h
      <4> QED
        BY <3>1, <4>1
    <3>2. CASE i # m + 1
      <4>1. h[i] = f[i] /\ h[i - 1] = f[i - 1] /\ i \in 1 .. m
        BY <3>2
      <4>2. f[i] = G[<<i, f[i - 1]>>]
        BY <2>1, <4>1
      <4> HIDE DEF h
      <4> QED
        BY <4>1, <4>2
    <3> QED
      BY <3>1, <3>2
  <2> HIDE DEF h
  <2>7. Builds(m + 1, h)
    BY <2>4, <2>5, <2>6
  <2> QED
    BY <2>7
<1> HIDE DEF T
<1>3. n \in T
  BY <1>1, <1>2, Induct
<1>4. PICK f : Builds(n, f)
  BY <1>3 DEF T
<1>5. ASSUME NEW i \in 0 .. n PROVE f[i] = IF i = 0 THEN a ELSE G[<<i, f[i - 1]>>]
  <2>1. i = 0 \/ i \in 1 .. n
    OBVIOUS
  <2> QED
    BY <1>4, <2>1
<1> QED
  BY <1>4, <1>5 DEF Chain

\* Induction up to n.
LEMMA InductTo ==
  ASSUME NEW n \in Nat, NEW T, 0 \in T, \A i \in 1 .. n : i - 1 \in T => i \in T
  PROVE  \A i \in 0 .. n : i \in T
<1> DEFINE U == {i \in Nat : i <= n => i \in T}
<1>1. 0 \in U
  OBVIOUS
<1>2. ASSUME NEW i \in Nat, i \in U PROVE i + 1 \in U
  <2> SUFFICES ASSUME i + 1 <= n PROVE i + 1 \in T
    OBVIOUS
  <2>1. i \in T /\ i + 1 \in 1 .. n /\ (i + 1) - 1 = i
    BY <1>2
  <2> QED
    BY <2>1
<1> HIDE DEF U
<1>3. Nat \subseteq U
  BY <1>1, <1>2, Induct
<1> QED
  BY <1>3 DEF U

-----------------------------------------------------------------------------
(* The allocation map.                                                     *)

\* The parts of an allocator that is all right.
LEMMA AmFacts ==
  ASSUME NEW a, AmOK(a)
  PROVE  /\ a.map \in SUBSET Bits /\ a.map \subseteq OnDisk /\ a.hint \in Int
         /\ a.used \in Nat /\ a.reserved \in Nat /\ a.bug \in BOOLEAN
         /\ IsFiniteSet(a.map) /\ a.used = Cardinality(a.map)
<1>1. a.map \subseteq OnDisk
  BY DEF AmOK
<1>2. IsFiniteSet(OnDisk)
  BY Sizes, FS_Interval
<1>3. IsFiniteSet(a.map)
  BY <1>1, <1>2, FS_Subset
<1> QED
  BY <1>1, <1>3 DEF AmOK, Alloc

\* Bytes of the map are numbered in the order of their bits.
LEMMA ByteFacts ==
  ASSUME NEW b \in Nat
  PROVE  /\ ByteOf(b) \in Nat
         /\ \A c \in Nat : b <= c => ByteOf(b) <= ByteOf(c)
<1>1. ByteBits \in Nat \ {0}
  BY Sizes
<1>2. b \div ByteBits \in Nat
  BY <1>1, DivFacts
<1>3. ASSUME NEW c \in Nat, b <= c PROVE b \div ByteBits <= c \div ByteBits
  BY <1>1, <1>3, DivMonotone
<1> QED
  BY <1>2, <1>3 DEF ByteOf

\* The block that is taken is the lowest free one, whatever the hint, and while
\* the counter says that there is room it is on the disk.
LEMMA FreeFacts ==
  ASSUME NEW a, AmOK(a), ~ Full(a)
  PROVE  /\ FreeBlock(a) \in OnDisk \ a.map
         /\ \A b \in Bits \ a.map : FreeBlock(a) <= b
<1> DEFINE F == Bits \ a.map
           m == Min(F)
<1>1. /\ a.map \in SUBSET Bits /\ a.map \subseteq OnDisk /\ a.hint \in Int
      /\ a.used \in Nat /\ a.reserved \in Nat
      /\ IsFiniteSet(a.map) /\ a.used = Cardinality(a.map)
  BY AmFacts
<1>2. \E b \in OnDisk : b \notin a.map
  <2>1. SUFFICES ASSUME a.map = OnDisk PROVE FALSE
    BY <1>1
  <2>2. Cardinality(OnDisk) = Total
    <3>1. Cardinality(0 .. (Total - 1)) = IF 0 > Total - 1 THEN 0 ELSE (Total - 1) - 0 + 1
      BY Sizes, FS_Interval
    <3> QED
      BY <3>1, Sizes
  <2> QED
    BY <1>1, <2>1, <2>2, Sizes DEF Full
<1>3. F \in SUBSET Nat /\ F # {}
  BY <1>2, Sizes
<1>4. m \in F /\ \A b \in F : m <= b
  BY <1>3, MinFacts
<1>5. m \in OnDisk
  <2>1. PICK b \in OnDisk : b \notin a.map
    BY <1>2
  <2>2. b \in F /\ m \in Nat /\ m <= b
    BY <1>3, <1>4, <2>1, Sizes
  <2> HIDE DEF m, F
  <2> QED
    BY <2>2, Sizes
<1>6. FreeBlock(a) = m
  <2>1. CASE a.hint = NoHint \/ FreeNear(a) = {}
    BY <2>1 DEF FreeBlock
  <2>2. CASE a.hint # NoHint /\ FreeNear(a) # {}
    <3> DEFINE N == FreeNear(a)
               k == Min(N)
    <3>1. N \in SUBSET Nat /\ N # {} /\ N \subseteq F
      BY <2>2, <1>3 DEF FreeNear
    <3>2. k \in N /\ \A b \in N : k <= b
      BY <3>1, MinFacts
    <3>3. m <= k
      BY <1>4, <3>1, <3>2
    <3>4. m \in N
      <4>1. m \in Bits /\ m \notin a.map /\ m \in Nat /\ k \in Nat
        BY <1>3, <1>4, <3>1, <3>2
      <4>2. a.hint <= ByteOf(m)
        <5>1. ~(ByteOf(m) < a.hint)
          BY <4>1 DEF AmOK
        <5>2. ByteOf(m) \in Nat
          BY <4>1, ByteFacts
        <5> QED
          BY <1>1, <5>1, <5>2
      <4>3. /\ ByteOf(k) >= a.hint /\ ByteOf(k) \div MapBytes = a.hint \div MapBytes
        BY <3>2 DEF FreeNear
      <4>4. ByteOf(m) \in Nat /\ ByteOf(k) \in Nat /\ ByteOf(m) <= ByteOf(k)
        BY <3>3, <4>1, ByteFacts
      <4>5. a.hint \in Nat
        \* the hint is not below 0: a hint below 0 has no block in its bitmap block
        <5>1. SUFFICES ASSUME a.hint < 0 PROVE FALSE
          BY <1>1
        <5> DEFINE q == ByteOf(k) \div MapBytes
                   p == a.hint \div MapBytes
        <5>2. q \in Nat
          BY <4>4, Sizes, DivFacts
        <5>3. p <= -1
          <6>1. p \in Int /\ a.hint % MapBytes \in 0 .. (MapBytes - 1) /\ a.hint = p * MapBytes + (a.hint % MapBytes)
            <7>1. MapBytes \in Nat \ {0} /\ a.hint \in Int
              BY <1>1, Sizes
            <7>2. p \in Int
              BY <7>1
            <7>3. a.hint % MapBytes \in 0 .. (MapBytes - 1)
              BY <7>1
            <7>4. a.hint = p * MapBytes + (a.hint % MapBytes)
              BY <7>1
            <7> QED
              BY <7>2, <7>3, <7>4
          <6>2. MapBytes \in Nat \ {0}
            BY Sizes
          <6> DEFINE r == a.hint % MapBytes
                     h == a.hint
          <6>3. h \in Int /\ h < 0 /\ r \in 0 .. (MapBytes - 1) /\ p \in Int /\ h = p * MapBytes + r
            BY <1>1, <5>1, <6>1
          <6> HIDE DEF p, r, h
          <6>4. ASSUME p \in Nat PROVE FALSE
            <7>1. p * MapBytes \in Nat
              BY <6>2, <6>4
            <7> QED
              BY <6>3, <7>1
          <6> QED
            BY <6>3, <6>4
        <5> HIDE DEF q
        <5>4. p \in Int /\ q = p
          BY <4>3, <1>1, Sizes, <5>2 DEF q
        <5> HIDE DEF p
        <5> QED
          BY <5>2, <5>3, <5>4
      <4>6. MapBytes \in Nat \ {0}
        BY Sizes
      <4>7. a.hint \div MapBytes <= ByteOf(m) \div MapBytes /\ ByteOf(m) \div MapBytes <= ByteOf(k) \div MapBytes
        BY <4>2, <4>4, <4>5, <4>6, DivMonotone
      <4>8. ByteOf(m) \div MapBytes \in Nat /\ ByteOf(k) \div MapBytes \in Nat /\ a.hint \div MapBytes \in Nat
        BY <4>4, <4>5, <4>6, DivFacts
      <4> DEFINE x == ByteOf(m) \div MapBytes
                 y == a.hint \div MapBytes
                 z == ByteOf(k) \div MapBytes
      <4>9. x = y
        <5>1. x \in Nat /\ y \in Nat /\ z \in Nat /\ y <= x /\ x <= z /\ z = y
          BY <4>3, <4>7, <4>8
        <5> HIDE DEF x, y, z
        <5> QED
          BY <5>1
      <4>10. ByteOf(m) >= a.hint
        BY <4>2, <4>4, <4>5
      <4> HIDE DEF m, k
      <4> QED
        BY <4>1, <4>9, <4>10 DEF FreeNear
    <3>5. k <= m
      BY <3>2, <3>4
    <3>6. m \in Nat /\ k \in Nat
      BY <1>3, <1>4, <3>1, <3>2
    <3>7. FreeBlock(a) = k
      BY <2>2 DEF FreeBlock
    <3> HIDE DEF m, k
    <3> QED
      BY <3>3, <3>5, <3>6, <3>7
  <2> QED
    BY <2>1, <2>2
<1> HIDE DEF m
<1> QED
  BY <1>4, <1>5, <1>6

\* Taking it sets one bit more.
LEMMA TakeFacts ==
  ASSUME NEW a, AmOK(a), ~ Full(a)
  PROVE  /\ AmOK(Take(a)) /\ Take(a).map = a.map \cup {FreeBlock(a)}
         /\ Take(a).used = a.used + 1 /\ Take(a).reserved = a.reserved /\ Take(a).bug = a.bug
<1> DEFINE b == FreeBlock(a)
           t == Take(a)
<1>1. b \in OnDisk \ a.map /\ \A c \in Bits \ a.map : b <= c
  BY FreeFacts
<1>2. /\ a.map \in SUBSET Bits /\ a.map \subseteq OnDisk /\ a.hint \in Int
      /\ a.used \in Nat /\ a.reserved \in Nat /\ a.bug \in BOOLEAN
      /\ IsFiniteSet(a.map) /\ a.used = Cardinality(a.map) /\ a \in Alloc
  BY AmFacts DEF AmOK
<1>3. t = [a EXCEPT !.map = @ \cup {b}, !.hint = ByteOf(b), !.used = @ + 1]
  BY DEF Take
<1> HIDE DEF b, t
<1>4. b \in Bits /\ b \in Nat /\ ByteOf(b) \in Nat
  BY <1>1, Sizes, ByteFacts
<1>5. /\ t.map = a.map \cup {b} /\ t.hint = ByteOf(b) /\ t.used = a.used + 1
      /\ t.reserved = a.reserved /\ t.bug = a.bug /\ t \in Alloc
  <2> DEFINE h == ByteOf(b)
             u == a.used + 1
             m == a.map \cup {b}
  <2>1. t = [a EXCEPT !.map = m, !.hint = h, !.used = u]
    BY <1>2, <1>3 DEF Alloc
  <2>2. h \in Int /\ u \in Nat /\ m \in SUBSET Bits
    BY <1>2, <1>4
  <2> HIDE DEF h, u, m
  <2>3. t.map = m /\ t.hint = h /\ t.used = u /\ t.reserved = a.reserved /\ t.bug = a.bug /\ t \in Alloc
    BY <1>2, <2>1, <2>2 DEF Alloc
  <2> QED
    BY <2>3 DEF h, u, m
<1>6. t.used = Cardinality(t.map)
  <2>1. b \notin a.map
    BY <1>1
  <2>2. Cardinality(a.map \cup {b}) = Cardinality(a.map) + 1
    BY <1>2, <2>1, CardFacts
  <2> QED
    BY <1>2, <1>5, <2>2
<1>7. ASSUME NEW c \in Bits, ByteOf(c) < t.hint PROVE c \in t.map
  <2>1. c \in Nat /\ ByteOf(c) \in Nat
    BY Sizes, ByteFacts
  <2>2. ~(b <= c)
    <3>1. ASSUME b <= c PROVE FALSE
      <4>1. ByteOf(b) <= ByteOf(c)
        BY <1>4, <2>1, <3>1, ByteFacts
      <4> QED
        BY <1>4, <1>5, <1>7, <2>1, <4>1
    <3> QED
      BY <3>1
  <2> QED
    BY <1>1, <1>5, <2>2
<1>8. AmOK(t)
  BY <1>1, <1>2, <1>5, <1>6, <1>7 DEF AmOK
<1> QED
  BY <1>5, <1>8 DEF b, t

\* Giving back blocks that are allocated.
LEMMA GiveFacts ==
  ASSUME NEW a, AmOK(a), NEW S, S \subseteq a.map
  PROVE  /\ AmOK(GiveAll(a, S)) /\ GiveAll(a, S).map = a.map \ S
         /\ GiveAll(a, S).reserved = a.reserved /\ GiveAll(a, S).bug = a.bug
         /\ GiveAll(a, S).used = a.used - Cardinality(S) /\ Cardinality(S) \in Nat
<1> DEFINE g == GiveAll(a, S)
           H == {a.hint} \cup {ByteOf(b) : b \in S}
<1>1. /\ a.map \in SUBSET Bits /\ a.map \subseteq OnDisk /\ a.hint \in Int
      /\ a.used \in Nat /\ a.reserved \in Nat /\ a.bug \in BOOLEAN
      /\ IsFiniteSet(a.map) /\ a.used = Cardinality(a.map) /\ a \in Alloc
  BY AmFacts DEF AmOK
<1>2. \A b \in S : ByteOf(b) \in Nat /\ b \in Bits
  BY <1>1, Sizes, ByteFacts
<1>3. Min(H) \in H /\ \A h \in H : Min(H) <= h
  \* the hint or, if it is not below 0, a set of natural numbers
  <2>1. \E m \in H : \A h \in H : m <= h
    <3>1. CASE a.hint < 0
      <4>1. \A h \in H : a.hint <= h
        BY <1>1, <1>2, <3>1
      <4> QED
        BY <4>1
    <3>2. CASE a.hint >= 0
      <4>1. H \in SUBSET Nat /\ H # {}
        BY <1>1, <1>2, <3>2
      <4> HIDE DEF H
      <4> QED
        BY <4>1, LeastNat
    <3> QED
      BY <1>1, <3>1, <3>2
  <2> HIDE DEF H
  <2> QED
    BY <2>1 DEF Min
<1>4. g = [a EXCEPT !.map = @ \ S, !.used = @ - Cardinality(S), !.hint = Min(H), !.bug = @ \/ ~ (S \subseteq a.map)]
  BY DEF GiveAll
<1>5. IsFiniteSet(S) /\ Cardinality(S) \in Nat /\ Cardinality(a.map \ S) = Cardinality(a.map) - Cardinality(S)
      /\ Cardinality(a.map \ S) \in Nat
  <2>1. IsFiniteSet(S)
    BY <1>1, FS_Subset
  <2>2. IsFiniteSet(a.map \ S)
    BY <1>1, FS_Subset
  <2>3. Cardinality(S) \in Nat /\ Cardinality(a.map \ S) \in Nat
    BY <2>1, <2>2, FS_CardinalityType
  <2>4. Cardinality(a.map \ S) = Cardinality(a.map) - Cardinality(a.map \cap S)
    BY <1>1, <2>1, FS_Difference
  <2>5. a.map \cap S = S
    OBVIOUS
  <2> QED
    BY <2>1, <2>3, <2>4, <2>5
<1>6. Min(H) \in Int
  BY <1>1, <1>2, <1>3
<1> DEFINE u == Cardinality(S)
           mh == Min(H)
<1> HIDE DEF g, H
<1>7. /\ g.map = a.map \ S /\ g.hint = mh /\ g.used = a.used - u
      /\ g.reserved = a.reserved /\ g.bug = (a.bug \/ ~ (S \subseteq a.map)) /\ DOMAIN g = DOMAIN a
  <2> HIDE DEF u, mh
  <2>1. g = [a EXCEPT !.map = @ \ S, !.used = @ - u, !.hint = mh, !.bug = @ \/ ~ (S \subseteq a.map)]
    BY <1>4 DEF u, mh
  <2> QED
    BY <1>1, <2>1 DEF Alloc
<1>8. g.bug = a.bug
  BY <1>1, <1>7
<1>9. g.used = Cardinality(g.map) /\ g.used \in Nat
  <2> DEFINE c == Cardinality(a.map \ S)
             d == Cardinality(a.map)
  <2>1. c \in Nat /\ c = d - u /\ a.used = d
    BY <1>1, <1>5
  <2> HIDE DEF c, d, u
  <2>2. g.used = c /\ c \in Nat
    BY <1>7, <2>1
  <2> QED
    BY <1>7, <2>2 DEF c
<1>10. g \in Alloc
  <2>1. g.map \in SUBSET Bits /\ g.hint \in Int /\ g.used \in Nat /\ g.reserved \in Nat /\ g.bug \in BOOLEAN
    BY <1>1, <1>6, <1>7, <1>8, <1>9
  <2>2. g = [a EXCEPT !.map = g.map, !.hint = g.hint, !.used = g.used, !.bug = g.bug]
    <3> HIDE DEF u, mh
    <3>1. g = [a EXCEPT !.map = a.map \ S, !.used = a.used - u, !.hint = mh, !.bug = a.bug \/ ~ (S \subseteq a.map)]
      BY <1>1, <1>4 DEF Alloc, u, mh
    <3> QED
      BY <3>1, <1>7, <1>1 DEF Alloc
  <2> QED
    BY <1>1, <2>1, <2>2 DEF Alloc
<1>11. ASSUME NEW c \in Bits, ByteOf(c) < g.hint PROVE c \in g.map
  <2>1. c \in Nat /\ ByteOf(c) \in Nat
    BY Sizes, ByteFacts
  <2>2. g.hint \in Int /\ g.hint <= a.hint /\ \A b \in S : g.hint <= ByteOf(b)
    BY <1>3, <1>6, <1>7 DEF H
  <2>3. ByteOf(c) < a.hint
    BY <1>1, <1>11, <2>1, <2>2
  <2>4. c \in a.map
    BY <2>3 DEF AmOK
  <2>5. c \notin S
    <3>1. ASSUME c \in S PROVE FALSE
      <4>1. g.hint <= ByteOf(c)
        BY <2>2, <3>1
      <4> QED
        BY <1>11, <2>1, <2>2, <4>1
    <3> QED
      BY <3>1
  <2> QED
    BY <1>7, <2>4, <2>5
<1>12. AmOK(g)
  BY <1>1, <1>7, <1>9, <1>10, <1>11 DEF AmOK
<1> QED
  BY <1>5, <1>7, <1>8, <1>12 DEF g, u

-----------------------------------------------------------------------------
(* Allocation of several blocks.                                           *)

\* For data: as many blocks as there is room for, each once, none in use
\* before; the rest of the allocator is as it was.
LEMMA DataFacts ==
  ASSUME NEW a, AmOK(a), NEW n \in Nat
  PROVE  /\ AmOK(TakeUpTo(a, n).am) /\ TakeUpTo(a, n).got \in Seq(OnDisk)
         /\ IsInjective(TakeUpTo(a, n).got) /\ Range(TakeUpTo(a, n).got) \cap a.map = {}
         /\ TakeUpTo(a, n).am.map = a.map \cup Range(TakeUpTo(a, n).got)
         /\ TakeUpTo(a, n).am.reserved = a.reserved /\ TakeUpTo(a, n).am.bug = a.bug
         /\ TakeUpTo(a, n).am.used = a.used + Len(TakeUpTo(a, n).got)
         /\ Len(TakeUpTo(a, n).got) <= n
         /\ TakeUpTo(a, n).got # <<>> => TakeUpTo(a, n).am.used + a.reserved <= Total
<1> DEFINE Ok(s) == /\ AmOK(s.am) /\ IsInjective(s.got) /\ Range(s.got) \cap a.map = {}
                    /\ s.am.map = a.map \cup Range(s.got)
                    /\ s.am.reserved = a.reserved /\ s.am.bug = a.bug
                    /\ s.am.used = a.used + Len(s.got)
                    /\ s.got # <<>> => s.am.used + a.reserved <= Total
           S == {s \in [am : Alloc, got : Seq(OnDisk)] : Ok(s)}
           base == [am |-> a, got |-> <<>>]
<1>1. base \in S
  <2>1. /\ a \in Alloc /\ a.used \in Nat
    BY AmFacts DEF AmOK
  <2>2. <<>> \in Seq(OnDisk) /\ IsInjective(<<>>) /\ Range(<<>>) = {} /\ Len(<<>>) = 0
    BY DEF IsInjective, Range
  <2>3. base \in [am : Alloc, got : Seq(OnDisk)] /\ base.am = a /\ base.got = <<>>
    BY <2>1, <2>2
  <2> HIDE DEF base
  <2> QED
    BY <2>1, <2>2, <2>3
<1>2. ASSUME NEW s \in S
      PROVE  AnotherBlock(s) \in S /\ Len(AnotherBlock(s).got) <= Len(s.got) + 1 /\ Len(s.got) \in Nat
  <2>1. CASE Full(s.am)
    <3>1. AnotherBlock(s) = s
      BY <2>1 DEF AnotherBlock
    <3>2. s.got \in Seq(OnDisk)
      OBVIOUS
    <3>3. Len(s.got) \in Nat
      BY <3>2
    <3>4. Len(s.got) <= Len(s.got) + 1
      BY <3>3
    <3> QED
      BY <3>1, <3>3, <3>4
  <2>2. CASE ~ Full(s.am)
    <3> DEFINE b == FreeBlock(s.am)
               t == Take(s.am)
               g == Append(s.got, b)
               r == [am |-> t, got |-> g]
    <3>1. AmOK(s.am) /\ s.got \in Seq(OnDisk) /\ s.am \in Alloc /\ Ok(s)
      BY DEF AmOK
    <3>2. b \in OnDisk \ s.am.map
      BY <2>2, <3>1, FreeFacts
    <3>3. /\ AmOK(t) /\ t.map = s.am.map \cup {b} /\ t.used = s.am.used + 1
          /\ t.reserved = s.am.reserved /\ t.bug = s.am.bug
      BY <2>2, <3>1, TakeFacts
    <3>4. AnotherBlock(s) = r
      BY <2>2 DEF AnotherBlock
    <3> HIDE DEF b, t
    <3>5. b \notin Range(s.got) /\ b \notin a.map
      BY <3>1, <3>2
    <3>6. /\ g \in Seq(OnDisk) /\ Range(g) = Range(s.got) \cup {b} /\ IsInjective(g) /\ Len(g) = Len(s.got) + 1
      <4>1. g \in Seq(OnDisk) /\ Range(g) = Range(s.got) \cup {b} /\ IsInjective(g)
        BY <3>1, <3>2, <3>5, AppendFacts
      <4>2. Len(g) = Len(s.got) + 1
        BY <3>1, <3>2
      <4> QED
        BY <4>1, <4>2
    <3> HIDE DEF g
    <3>7. r.am = t /\ r.got = g /\ r \in [am : Alloc, got : Seq(OnDisk)]
      BY <3>3, <3>6 DEF AmOK
    <3> HIDE DEF r
    <3>8. s.am.used \in Nat /\ a.used \in Nat /\ Len(s.got) \in Nat
      BY <3>1, AmFacts
    <3>9. Ok(r)
      <4>1. AmOK(r.am) /\ IsInjective(r.got) /\ r.am.reserved = a.reserved /\ r.am.bug = a.bug
        BY <3>1, <3>3, <3>6, <3>7
      <4>2. Range(r.got) \cap a.map = {} /\ r.am.map = a.map \cup Range(r.got)
        BY <3>1, <3>3, <3>5, <3>6, <3>7
      <4>3. r.am.used = a.used + Len(r.got)
        <5>1. s.am.used = a.used + Len(s.got) /\ t.used = s.am.used + 1
          BY <3>1, <3>3
        <5>2. r.am.used = t.used /\ Len(r.got) = Len(s.got) + 1
          BY <3>6, <3>7
        <5> DEFINE u1 == s.am.used
                   u2 == a.used
                   l == Len(s.got)
        <5>3. u1 \in Nat /\ u2 \in Nat /\ l \in Nat /\ u1 = u2 + l /\ t.used = u1 + 1
          BY <3>8, <5>1
        <5> HIDE DEF u1, u2, l
        <5>4. t.used = u2 + (l + 1)
          BY <5>3
        <5> QED
          BY <5>2, <5>4 DEF u2, l
      <4>4. r.am.used + a.reserved <= Total
        <5>1. s.am.reserved = a.reserved /\ a.reserved \in Nat /\ Total \in Nat
          BY <3>1, AmFacts, Sizes
        <5>2. s.am.used + s.am.reserved < Total
          BY <2>2, <3>8, <5>1 DEF Full
        <5> QED
          BY <3>3, <3>7, <3>8, <5>1, <5>2
      <4> QED
        BY <4>1, <4>2, <4>3, <4>4
    <3>10. Len(AnotherBlock(s).got) = Len(s.got) + 1 /\ Len(s.got) \in Nat
      BY <3>4, <3>6, <3>7, <3>8
    <3>11. AnotherBlock(s) \in S
      BY <3>4, <3>7, <3>9
    <3> QED
      BY <3>10, <3>11
  <2> QED
    BY <2>1, <2>2
<1> HIDE DEF S, base
<1> DEFINE G == [p \in (1 .. n) \X S |-> AnotherBlock(p[2])]
<1>3. G \in [(1 .. n) \X S -> S]
  BY <1>2
<1>4. PICK f : f \in [0 .. n -> S] /\ \A i \in 0 .. n : f[i] = IF i = 0 THEN base ELSE G[<<i, f[i - 1]>>]
  <2> HIDE DEF G
  <2>1. PICK f : Chain(S, n, base, G, f)
    BY <1>1, <1>3, Recursion
  <2> QED
    BY <2>1 DEF Chain
<1>5. ASSUME NEW i \in 0 .. n PROVE f[i] = IF i = 0 THEN base ELSE AnotherBlock(f[i - 1])
  <2>1. CASE i = 0
    BY <1>4, <2>1
  <2>2. CASE i # 0
    <3>1. i \in 1 .. n /\ i - 1 \in 0 .. n
      BY <2>2
    <3>2. f[i - 1] \in S
      BY <1>4, <3>1
    <3>3. G[<<i, f[i - 1]>>] = AnotherBlock(f[i - 1])
      BY <3>1, <3>2
    <3> QED
      BY <1>4, <2>2, <3>3
  <2> QED
    BY <2>1, <2>2
<1> DEFINE Def(h) == h = [i \in 0 .. n |-> IF i = 0 THEN base ELSE AnotherBlock(h[i - 1])]
<1>6. \E h : Def(h)
  <2>1. f = [i \in 0 .. n |-> f[i]]
    BY <1>4
  <2>2. Def(f)
    BY <1>5, <2>1
  <2> QED
    BY <2>2
<1> DEFINE c == CHOOSE h : Def(h)
<1>7. Def(c)
  BY <1>6, Zenon
<1>8. TakeUpTo(a, n) = c[n]
  BY Zenon DEF TakeUpTo, base
<1> HIDE DEF c
<1>9. \A i \in 0 .. n : c[i] = IF i = 0 THEN base ELSE AnotherBlock(c[i - 1])
  <2> DEFINE v(i) == IF i = 0 THEN base ELSE AnotherBlock(c[i - 1])
  <2>1. c = [i \in 0 .. n |-> v(i)]
    BY <1>7
  <2> HIDE DEF v
  <2>2. \A i \in 0 .. n : c[i] = v(i)
    BY <2>1
  <2> QED
    BY <2>2 DEF v
<1> HIDE DEF Def
<1> DEFINE T == {i \in 0 .. n : c[i] \in S /\ Len(c[i].got) <= i}
<1>10. 0 \in T
  <2>1. c[0] = base /\ 0 \in 0 .. n
    BY <1>9
  <2>2. Len(base.got) = 0
    BY DEF base
  <2> QED
    BY <1>1, <2>1, <2>2
<1>11. ASSUME NEW i \in 1 .. n, i - 1 \in T PROVE i \in T
  <2>1. c[i - 1] \in S /\ Len(c[i - 1].got) <= i - 1 /\ c[i] = AnotherBlock(c[i - 1])
    BY <1>9, <1>11
  <2>2. c[i] \in S /\ Len(c[i].got) <= Len(c[i - 1].got) + 1 /\ Len(c[i - 1].got) \in Nat
    BY <1>2, <2>1
  <2>3. c[i].got \in Seq(OnDisk)
    BY <2>2 DEF S
  <2>4. Len(c[i].got) <= i
    BY <2>1, <2>2, <2>3
  <2> QED
    BY <2>2, <2>4
<1>12. n \in T
  <2> HIDE DEF T
  <2> QED
    BY <1>10, <1>11, InductTo
<1> QED
  BY <1>8, <1>12 DEF S

\* A state of the search for pointer blocks that started from allocator a
Holding(a) ==
  {s \in [am : Alloc, got : SUBSET OnDisk] :
     AmOK(s.am) /\ s.got \cap a.map = {} /\ s.am.map = a.map \cup s.got}

\* There are free blocks besides the reserved ones, or these are for the pointers
HasRoom(a, ofFile) == ~ a.bug /\ a.used + a.reserved <= Total /\ (ofFile \/ a.reserved = 0)

\* One pointer block more, or an assertion failure.
LEMMA PtrStep ==
  ASSUME NEW a, NEW ofFile \in BOOLEAN, NEW s \in Holding(a)
  PROVE  /\ AnotherPtr(s, ofFile) \in Holding(a)
         /\ ~ AnotherPtr(s, ofFile).am.bug
              => ~ s.am.bug /\ Cardinality(AnotherPtr(s, ofFile).got) = Cardinality(s.got) + 1
         /\ HasRoom(s.am, ofFile) /\ s.am.used < Total
              => HasRoom(AnotherPtr(s, ofFile).am, ofFile) /\ AnotherPtr(s, ofFile).am.used = s.am.used + 1
<1> DEFINE Ok(x) == AmOK(x.am) /\ x.got \cap a.map = {} /\ x.am.map = a.map \cup x.got
           r == IF ofFile THEN Unreserve(s.am) ELSE s.am
<1>1. AmOK(s.am) /\ s.got \in SUBSET OnDisk /\ s.am \in Alloc /\ Ok(s)
  BY DEF Holding
<1>2. r \in Alloc /\ r.map = s.am.map /\ r.used = s.am.used /\ r.hint = s.am.hint /\ r.bug = s.am.bug
  <2>1. CASE ofFile
    BY <1>1, <2>1 DEF Unreserve, Alloc
  <2>2. CASE ~ ofFile
    BY <1>1, <2>2
  <2> QED
    BY <2>1, <2>2
<1>3. AmOK(r)
  <2> HIDE DEF r
  <2> QED
    BY <1>1, <1>2 DEF AmOK
<1>4. s.am.used \in Nat /\ s.am.reserved \in Nat /\ Total \in Nat
  BY <1>1, AmFacts, Sizes
<1>5. HasRoom(s.am, ofFile) /\ s.am.used < Total =>
        /\ ~ Full(r) /\ ~ r.bug /\ (ofFile \/ r.reserved = 0)
        /\ r.used + 1 + r.reserved <= Total
  <2>1. CASE ofFile
    <3>1. r.reserved = IF s.am.reserved > 0 THEN s.am.reserved - 1 ELSE s.am.reserved
      BY <1>1, <2>1 DEF Unreserve, Alloc
    <3> HIDE DEF r
    <3> QED
      BY <1>2, <1>4, <2>1, <3>1 DEF HasRoom, Full
  <2>2. CASE ~ ofFile
    BY <1>4, <2>2 DEF HasRoom, Full
  <2> QED
    BY <2>1, <2>2
<1>6. CASE Full(r)
  <2> DEFINE x == [r EXCEPT !.bug = TRUE]
  <2>1. AnotherPtr(s, ofFile) = [s EXCEPT !.am = x]
    BY <1>6 DEF AnotherPtr
  <2> HIDE DEF r
  <2>2. x \in Alloc /\ x.map = r.map /\ x.used = r.used /\ x.hint = r.hint /\ x.bug
    BY <1>2 DEF Alloc
  <2> HIDE DEF x
  <2>3. AmOK(x)
    BY <1>3, <2>2 DEF AmOK
  <2> DEFINE y == [s EXCEPT !.am = x]
  <2>4. y \in [am : Alloc, got : SUBSET OnDisk] /\ y.am = x /\ y.got = s.got
    <3>1. s \in [am : Alloc, got : SUBSET OnDisk]
      BY DEF Holding
    <3> QED
      BY <2>2, <3>1
  <2> HIDE DEF y
  <2>5. Ok(y)
    BY <1>1, <1>2, <2>2, <2>3, <2>4
  <2>6. AnotherPtr(s, ofFile) = y
    BY <2>1 DEF y
  <2> HIDE DEF Ok
  <2>7. ~(HasRoom(s.am, ofFile) /\ s.am.used < Total)
    BY <1>5, <1>6
  <2>8. y \in Holding(a)
    BY <2>4, <2>5 DEF Holding, Ok
  <2>9. y.am.bug
    BY <2>2, <2>4
  <2> QED
    BY <2>6, <2>7, <2>8, <2>9
<1>7. CASE ~ Full(r)
  <2> HIDE DEF r
  <2> DEFINE b == FreeBlock(r)
             t == Take(r)
             g == s.got \cup {b}
             y == [am |-> t, got |-> g]
  <2>1. b \in OnDisk \ r.map
    BY <1>3, <1>7, FreeFacts
  <2>2. AmOK(t) /\ t.map = r.map \cup {b} /\ t.bug = r.bug /\ t.used = r.used + 1 /\ t.reserved = r.reserved
    BY <1>3, <1>7, TakeFacts
  <2>3. AnotherPtr(s, ofFile) = y
    BY <1>7 DEF AnotherPtr, r
  <2> HIDE DEF b, t
  <2>4. g \in SUBSET OnDisk /\ g \cap a.map = {} /\ b \notin s.got
    BY <1>1, <1>2, <2>1
  <2>5. IsFiniteSet(s.got)
    <3>1. IsFiniteSet(OnDisk)
      BY Sizes, FS_Interval
    <3> QED
      BY <1>1, <3>1, FS_Subset
  <2>6. Cardinality(g) = Cardinality(s.got) + 1
    BY <2>4, <2>5, CardFacts
  <2> HIDE DEF g
  <2>7. y.am = t /\ y.got = g /\ y \in [am : Alloc, got : SUBSET OnDisk]
    BY <2>2, <2>4 DEF AmOK
  <2> HIDE DEF y
  <2>8. t.map = a.map \cup g
    BY <1>1, <1>2, <2>2 DEF g
  <2>9. Ok(y)
    BY <1>1, <1>2, <2>2, <2>4, <2>7, <2>8
  <2>10. y.am.bug = s.am.bug /\ Cardinality(y.got) = Cardinality(s.got) + 1
    BY <1>2, <2>2, <2>6, <2>7
  <2>11. HasRoom(s.am, ofFile) /\ s.am.used < Total => HasRoom(y.am, ofFile) /\ y.am.used = s.am.used + 1
    BY <1>2, <1>5, <2>2, <2>7 DEF HasRoom
  <2> QED
    BY <2>3, <2>7, <2>9, <2>10, <2>11 DEF Holding
<1> QED
  BY <1>6, <1>7

\* What is done for one pointer block after the other.
LEMMA PtrRuns ==
  ASSUME NEW a, AmOK(a), NEW n \in Nat, NEW ofFile \in BOOLEAN
  PROVE  \E c : /\ c[0] = [am |-> a, got |-> {}]
                /\ \A i \in 1 .. n : c[i] = AnotherPtr(c[i - 1], ofFile)
                /\ \A i \in 0 .. n : c[i] \in Holding(a)
                /\ TakePtrs(a, n, ofFile) = c[n]
<1> DEFINE S == Holding(a)
           base == [am |-> a, got |-> {}]
<1>1. base \in S
  <2>1. a \in Alloc
    BY DEF AmOK
  <2>2. base \in [am : Alloc, got : SUBSET OnDisk] /\ base.am = a /\ base.got = {}
    BY <2>1
  <2> HIDE DEF base
  <2> QED
    BY <2>1, <2>2 DEF Holding
<1> HIDE DEF base
<1>2. ASSUME NEW s \in S PROVE AnotherPtr(s, ofFile) \in S
  BY PtrStep
<1> HIDE DEF S
<1> DEFINE G == [p \in (1 .. n) \X S |-> AnotherPtr(p[2], ofFile)]
<1>3. G \in [(1 .. n) \X S -> S]
  BY <1>2
<1>4. PICK f : f \in [0 .. n -> S] /\ \A i \in 0 .. n : f[i] = IF i = 0 THEN base ELSE G[<<i, f[i - 1]>>]
  <2> HIDE DEF G
  <2>1. PICK f : Chain(S, n, base, G, f)
    BY <1>1, <1>3, Recursion
  <2> QED
    BY <2>1 DEF Chain
<1>5. ASSUME NEW i \in 0 .. n PROVE f[i] = IF i = 0 THEN base ELSE AnotherPtr(f[i - 1], ofFile)
  <2>1. CASE i = 0
    BY <1>4, <2>1
  <2>2. CASE i # 0
    <3>1. i \in 1 .. n /\ i - 1 \in 0 .. n
      BY <2>2
    <3>2. f[i - 1] \in S
      BY <1>4, <3>1
    <3>3. G[<<i, f[i - 1]>>] = AnotherPtr(f[i - 1], ofFile)
      BY <3>1, <3>2
    <3> QED
      BY <1>4, <2>2, <3>3
  <2> QED
    BY <2>1, <2>2
<1> DEFINE Def(h) == h = [i \in 0 .. n |-> IF i = 0 THEN base ELSE AnotherPtr(h[i - 1], ofFile)]
<1>6. \E h : Def(h)
  <2>1. f = [i \in 0 .. n |-> f[i]]
    BY <1>4
  <2>2. Def(f)
    BY <1>5, <2>1
  <2> QED
    BY <2>2
<1> DEFINE c == CHOOSE h : Def(h)
<1>7. Def(c)
  BY <1>6, Zenon
<1>8. TakePtrs(a, n, ofFile) = c[n]
  BY Zenon DEF TakePtrs, base
<1> HIDE DEF c
<1>9. \A i \in 0 .. n : c[i] = IF i = 0 THEN base ELSE AnotherPtr(c[i - 1], ofFile)
  <2> DEFINE v(i) == IF i = 0 THEN base ELSE AnotherPtr(c[i - 1], ofFile)
  <2>1. c = [i \in 0 .. n |-> v(i)]
    BY <1>7
  <2> HIDE DEF v
  <2>2. \A i \in 0 .. n : c[i] = v(i)
    BY <2>1
  <2> QED
    BY <2>2 DEF v
<1> HIDE DEF Def
<1> DEFINE T == {i \in 0 .. n : c[i] \in S}
<1>10. 0 \in T
  BY <1>1, <1>9
<1>11. ASSUME NEW i \in 1 .. n, i - 1 \in T PROVE i \in T
  <2>1. c[i - 1] \in S /\ c[i] = AnotherPtr(c[i - 1], ofFile)
    BY <1>9, <1>11
  <2> QED
    BY <1>2, <2>1
<1>12. \A i \in 0 .. n : i \in T
  <2> HIDE DEF T
  <2> QED
    BY <1>10, <1>11, InductTo
<1>13. c[0] = base /\ \A i \in 1 .. n : c[i] = AnotherPtr(c[i - 1], ofFile)
  BY <1>9
<1>14. \A i \in 0 .. n : c[i] \in S
  BY <1>12
<1> QED
  BY <1>8, <1>13, <1>14 DEF S, base

\* For pointers: as many blocks as wanted, or an assertion failure, and none if
\* there was room.
LEMMA PtrFacts ==
  ASSUME NEW a, AmOK(a), NEW n \in Nat, NEW ofFile \in BOOLEAN
  PROVE  /\ AmOK(TakePtrs(a, n, ofFile).am) /\ TakePtrs(a, n, ofFile).got \subseteq OnDisk
         /\ TakePtrs(a, n, ofFile).got \cap a.map = {}
         /\ TakePtrs(a, n, ofFile).am.map = a.map \cup TakePtrs(a, n, ofFile).got
         /\ ~ TakePtrs(a, n, ofFile).am.bug => Cardinality(TakePtrs(a, n, ofFile).got) = n /\ ~ a.bug
         /\ (n = 0 /\ ~ a.bug) \/ (HasRoom(a, ofFile) /\ a.used + n <= Total) => ~ TakePtrs(a, n, ofFile).am.bug
<1>1. PICK c : /\ c[0] = [am |-> a, got |-> {}]
               /\ \A i \in 1 .. n : c[i] = AnotherPtr(c[i - 1], ofFile)
               /\ \A i \in 0 .. n : c[i] \in Holding(a)
               /\ TakePtrs(a, n, ofFile) = c[n]
  BY PtrRuns
<1>2. c[0].am = a /\ c[0].got = {} /\ Cardinality(c[0].got) = 0
  BY <1>1, FS_EmptySet
<1> DEFINE T == {i \in 0 .. n : ~ c[i].am.bug => Cardinality(c[i].got) = i /\ ~ a.bug}
<1>3. 0 \in T
  BY <1>2
<1>4. ASSUME NEW i \in 1 .. n, i - 1 \in T PROVE i \in T
  <2>1. i - 1 \in 0 .. n /\ c[i - 1] \in Holding(a) /\ c[i] = AnotherPtr(c[i - 1], ofFile)
    BY <1>1
  <2>2. ~ c[i].am.bug => ~ c[i - 1].am.bug /\ Cardinality(c[i].got) = Cardinality(c[i - 1].got) + 1
    BY <2>1, PtrStep
  <2> QED
    BY <1>4, <2>2
<1>5. n \in T
  <2> HIDE DEF T
  <2> QED
    BY <1>3, <1>4, InductTo
<1>6. ASSUME HasRoom(a, ofFile), a.used + n <= Total PROVE ~ c[n].am.bug
  <2>0. a.used \in Nat /\ Total \in Nat
    BY Sizes, AmFacts
  <2> DEFINE U == {i \in 0 .. n : HasRoom(c[i].am, ofFile) /\ c[i].am.used = a.used + i}
  <2>1. 0 \in U
    BY <1>2, <1>6, <2>0
  <2>2. ASSUME NEW i \in 1 .. n, i - 1 \in U PROVE i \in U
    <3>1. i - 1 \in 0 .. n /\ c[i - 1] \in Holding(a) /\ c[i] = AnotherPtr(c[i - 1], ofFile)
      BY <1>1
    <3>2. HasRoom(c[i - 1].am, ofFile) /\ c[i - 1].am.used = a.used + (i - 1)
      BY <2>2
    <3>3. c[i - 1].am.used < Total
      BY <1>6, <2>0, <3>2
    <3>4. HasRoom(c[i].am, ofFile) /\ c[i].am.used = c[i - 1].am.used + 1
      BY <3>1, <3>2, <3>3, PtrStep
    <3> QED
      BY <2>0, <3>2, <3>4
  <2>3. n \in U
    <3> HIDE DEF U
    <3> QED
      BY <2>1, <2>2, InductTo
  <2> QED
    BY <2>3 DEF HasRoom
<1>7. c[n] \in Holding(a)
  BY <1>1
<1>8. n = 0 /\ ~ a.bug => ~ c[n].am.bug
  BY <1>2
<1> QED
  BY <1>1, <1>5, <1>6, <1>7, <1>8 DEF Holding

-----------------------------------------------------------------------------
(* The sizes of pointer trees: numbers, and not smaller for more blocks.   *)

\* per_level_fixed, one level after the other.
LEMMA PerLevelRuns ==
  ASSUME NEW l \in Nat, NEW n \in Nat
  PROVE  \E c \in [0 .. l -> Nat] :
           /\ c[0] = n /\ \A i \in 1 .. l : c[i] = CeilDiv(c[i - 1], Ptrs)
           /\ PerLevel(l, n) = c[l]
<1> DEFINE S == Nat
           base == n
           Step(i, s) == CeilDiv(s, Ptrs)
<1>1. base \in S /\ l \in Nat
  OBVIOUS
<1>2. ASSUME NEW i \in 1 .. l, NEW s \in S PROVE Step(i, s) \in S
  <2>1. s <= s
    OBVIOUS
  <2> QED
    BY <2>1, CeilFacts
<1> DEFINE G == [p \in (1 .. l) \X S |-> Step(p[1], p[2])]
<1>3. G \in [(1 .. l) \X S -> S]
  <2> HIDE DEF Step, S, base
  <2> QED
    BY <1>2
<1>4. PICK f : f \in [0 .. l -> S] /\ \A i \in 0 .. l : f[i] = IF i = 0 THEN base ELSE G[<<i, f[i - 1]>>]
  <2> HIDE DEF G, S, base
  <2>1. PICK f : Chain(S, l, base, G, f)
    BY <1>1, <1>3, Recursion
  <2> QED
    BY <2>1 DEF Chain
<1> DEFINE Def(h) == h = [i \in 0 .. l |-> IF i = 0 THEN base ELSE Step(i, h[i - 1])]
<1>5. ASSUME NEW i \in 0 .. l PROVE f[i] = IF i = 0 THEN base ELSE Step(i, f[i - 1])
  <2> HIDE DEF Step, S, base
  <2>1. CASE i = 0
    BY <1>4, <2>1
  <2>2. CASE i # 0
    <3>1. i \in 1 .. l /\ i - 1 \in 0 .. l
      BY <1>1, <2>2
    <3>2. f[i - 1] \in S
      BY <1>4, <3>1
    <3>3. G[<<i, f[i - 1]>>] = Step(i, f[i - 1])
      BY <3>1, <3>2
    <3> QED
      BY <1>4, <2>2, <3>3
  <2> QED
    BY <2>1, <2>2
<1>6. Def(f)
  <2> HIDE DEF Step, S, base
  <2>1. f = [i \in 0 .. l |-> f[i]]
    BY <1>4
  <2> QED
    BY <1>5, <2>1
<1> DEFINE c == CHOOSE h : Def(h)
<1>7. Def(c)
  <2>1. \E h : Def(h)
    BY <1>6, Zenon
  <2> HIDE DEF Def
  <2> QED
    BY <2>1, Zenon
<1>8. PerLevel(l, n) = c[l]
  BY Zenon DEF PerLevel
<1> HIDE DEF c
<1>9. \A i \in 0 .. l : c[i] = IF i = 0 THEN base ELSE Step(i, c[i - 1])
  <2> DEFINE v(i) == IF i = 0 THEN base ELSE Step(i, c[i - 1])
  <2>1. c = [i \in 0 .. l |-> v(i)]
    BY <1>7
  <2> HIDE DEF v
  <2>2. \A i \in 0 .. l : c[i] = v(i)
    BY <2>1
  <2> QED
    BY <2>2 DEF v
<1>10. c \in [0 .. l -> S]
  <2> HIDE DEF Step, S, base
  <2> DEFINE T == {i \in 0 .. l : c[i] \in S}
  <2>1. 0 \in T
    BY <1>1, <1>9
  <2>2. ASSUME NEW i \in 1 .. l, i - 1 \in T PROVE i \in T
    BY <1>1, <1>2, <1>9, <2>2
  <2>3. \A i \in 0 .. l : i \in T
    <3> HIDE DEF T
    <3> QED
      BY <1>1, <2>1, <2>2, InductTo
  <2> DEFINE v(i) == IF i = 0 THEN base ELSE Step(i, c[i - 1])
  <2>4. c = [i \in 0 .. l |-> v(i)]
    BY <1>7
  <2> HIDE DEF v
  <2> QED
    BY <2>3, <2>4
<1> HIDE DEF Def
<1>11. c[0] = base /\ \A i \in 1 .. l : c[i] = Step(i, c[i - 1])
  <2> HIDE DEF Step, base
  <2> QED
    BY <1>1, <1>9
<1> QED
  BY <1>8, <1>10, <1>11

\* More blocks need no fewer pointer blocks on a level.
LEMMA PerLevelFacts ==
  ASSUME NEW l \in Nat, NEW m \in Nat, NEW n \in Nat, m <= n
  PROVE  PerLevel(l, m) \in Nat /\ PerLevel(l, n) \in Nat /\ PerLevel(l, m) <= PerLevel(l, n)
<1>1. PICK c \in [0 .. l -> Nat] :
        /\ c[0] = m /\ \A i \in 1 .. l : c[i] = CeilDiv(c[i - 1], Ptrs)
        /\ PerLevel(l, m) = c[l]
  BY PerLevelRuns
<1>2. PICK d \in [0 .. l -> Nat] :
        /\ d[0] = n /\ \A i \in 1 .. l : d[i] = CeilDiv(d[i - 1], Ptrs)
        /\ PerLevel(l, n) = d[l]
  BY PerLevelRuns
<1> DEFINE T == {i \in 0 .. l : c[i] <= d[i]}
<1>3. 0 \in T
  BY <1>1, <1>2
<1>4. ASSUME NEW i \in 1 .. l, i - 1 \in T PROVE i \in T
  <2>1. c[i - 1] \in Nat /\ d[i - 1] \in Nat /\ c[i - 1] <= d[i - 1]
    BY <1>4
  <2>2. CeilDiv(c[i - 1], Ptrs) <= CeilDiv(d[i - 1], Ptrs)
    BY <2>1, CeilFacts
  <2> QED
    BY <1>1, <1>2, <2>2
<1>5. \A i \in 0 .. l : i \in T
  <2> HIDE DEF T
  <2> QED
    BY <1>3, <1>4, InductTo
<1> QED
  BY <1>1, <1>2, <1>5

\* update_levels, one division after the other.
LEMMA LevelsRuns ==
  ASSUME NEW n \in Nat
  PROVE  \E c \in [0 .. n -> Nat] :
           /\ c[0] = n /\ \A i \in 1 .. n : c[i] = c[i - 1] \div Ptrs
           /\ Levels(n) = IF n < 2 THEN 0 ELSE Min({l \in 1 .. n : c[l - 1] <= Ptrs})
<1> DEFINE S == Nat
           base == n
           Step(i, s) == s \div Ptrs
<1>1. base \in S /\ n \in Nat
  OBVIOUS
<1>2. ASSUME NEW i \in 1 .. n, NEW s \in S PROVE Step(i, s) \in S
  BY Sizes, DivFacts
<1> DEFINE G == [p \in (1 .. n) \X S |-> Step(p[1], p[2])]
<1>3. G \in [(1 .. n) \X S -> S]
  <2> HIDE DEF Step, S, base
  <2> QED
    BY <1>2
<1>4. PICK f : f \in [0 .. n -> S] /\ \A i \in 0 .. n : f[i] = IF i = 0 THEN base ELSE G[<<i, f[i - 1]>>]
  <2> HIDE DEF G, S, base
  <2>1. PICK f : Chain(S, n, base, G, f)
    BY <1>1, <1>3, Recursion
  <2> QED
    BY <2>1 DEF Chain
<1> DEFINE Def(h) == h = [i \in 0 .. n |-> IF i = 0 THEN base ELSE Step(i, h[i - 1])]
<1>5. ASSUME NEW i \in 0 .. n PROVE f[i] = IF i = 0 THEN base ELSE Step(i, f[i - 1])
  <2> HIDE DEF Step, S, base
  <2>1. CASE i = 0
    BY <1>4, <2>1
  <2>2. CASE i # 0
    <3>1. i \in 1 .. n /\ i - 1 \in 0 .. n
      BY <1>1, <2>2
    <3>2. f[i - 1] \in S
      BY <1>4, <3>1
    <3>3. G[<<i, f[i - 1]>>] = Step(i, f[i - 1])
      BY <3>1, <3>2
    <3> QED
      BY <1>4, <2>2, <3>3
  <2> QED
    BY <2>1, <2>2
<1>6. Def(f)
  <2> HIDE DEF Step, S, base
  <2>1. f = [i \in 0 .. n |-> f[i]]
    BY <1>4
  <2> QED
    BY <1>5, <2>1
<1> DEFINE c == CHOOSE h : Def(h)
<1>7. Def(c)
  <2>1. \E h : Def(h)
    BY <1>6, Zenon
  <2> HIDE DEF Def
  <2> QED
    BY <2>1, Zenon
<1>8. Levels(n) = IF n < 2 THEN 0 ELSE Min({l \in 1 .. n : c[l - 1] <= Ptrs})
  BY Zenon DEF Levels
<1> HIDE DEF c
<1>9. \A i \in 0 .. n : c[i] = IF i = 0 THEN base ELSE Step(i, c[i - 1])
  <2> DEFINE v(i) == IF i = 0 THEN base ELSE Step(i, c[i - 1])
  <2>1. c = [i \in 0 .. n |-> v(i)]
    BY <1>7
  <2> HIDE DEF v
  <2>2. \A i \in 0 .. n : c[i] = v(i)
    BY <2>1
  <2> QED
    BY <2>2 DEF v
<1>10. c \in [0 .. n -> S]
  <2> HIDE DEF Step, S, base
  <2> DEFINE T == {i \in 0 .. n : c[i] \in S}
  <2>1. 0 \in T
    BY <1>1, <1>9
  <2>2. ASSUME NEW i \in 1 .. n, i - 1 \in T PROVE i \in T
    BY <1>1, <1>2, <1>9, <2>2
  <2>3. \A i \in 0 .. n : i \in T
    <3> HIDE DEF T
    <3> QED
      BY <1>1, <2>1, <2>2, InductTo
  <2> DEFINE v(i) == IF i = 0 THEN base ELSE Step(i, c[i - 1])
  <2>4. c = [i \in 0 .. n |-> v(i)]
    BY <1>7
  <2> HIDE DEF v
  <2> QED
    BY <2>3, <2>4
<1> HIDE DEF Def
<1>11. c[0] = base /\ \A i \in 1 .. n : c[i] = Step(i, c[i - 1])
  <2> HIDE DEF Step, base
  <2> QED
    BY <1>1, <1>9
<1> QED
  BY <1>8, <1>10, <1>11

\* update_levels stops at the first level whose pointers fit in one block.
LEMMA LevelsAre ==
  ASSUME NEW n \in Nat, n >= 2
  PROVE  \E c \in [0 .. n -> Nat] :
           /\ c[0] = n /\ \A i \in 1 .. n : c[i] = c[i - 1] \div Ptrs
           /\ Levels(n) \in 1 .. n /\ c[Levels(n) - 1] <= Ptrs
           /\ \A l \in 1 .. n : c[l - 1] <= Ptrs => Levels(n) <= l
<1>1. PICK c \in [0 .. n -> Nat] :
        /\ c[0] = n /\ \A i \in 1 .. n : c[i] = c[i - 1] \div Ptrs
        /\ Levels(n) = IF n < 2 THEN 0 ELSE Min({l \in 1 .. n : c[l - 1] <= Ptrs})
  BY LevelsRuns
<1> DEFINE L == {l \in 1 .. n : c[l - 1] <= Ptrs}
<1>2. Levels(n) = Min(L)
  BY <1>1
<1>3. L \in SUBSET Nat
  OBVIOUS
<1>4. L # {}
  <2> DEFINE T == {i \in 0 .. n : c[i] <= n - i}
  <2>1. 0 \in T
    BY <1>1
  <2>2. ASSUME NEW i \in 1 .. n, i - 1 \in T PROVE i \in T
    <3> DEFINE x == c[i - 1]
               q == x \div Ptrs
               r == x % Ptrs
    <3>1. x \in Nat /\ x <= n - (i - 1) /\ c[i] = q
      BY <1>1, <2>2
    <3>2. q \in Nat /\ r \in 0 .. (Ptrs - 1) /\ x = q * Ptrs + r
      BY <3>1, Sizes, DivFacts
    <3> HIDE DEF x, q, r
    <3>3. q * 2 <= q * Ptrs
      BY <3>2, Sizes
    <3>4. q * Ptrs <= x /\ q * Ptrs \in Nat
      BY <3>1, <3>2, Sizes
    <3>5. q * 2 <= x
      BY <3>1, <3>2, <3>3, <3>4
    <3>6. q <= n - i
      BY <3>1, <3>2, <3>5
    <3> QED
      BY <3>1, <3>6
  <2>3. \A i \in 0 .. n : i \in T
    <3> HIDE DEF T
    <3> QED
      BY <2>1, <2>2, InductTo
  <2>4. n - 1 \in 0 .. n /\ n \in 1 .. n
    OBVIOUS
  <2>5. c[n - 1] <= n - (n - 1) /\ c[n - 1] \in Nat
    BY <2>3, <2>4
  <2>6. c[n - 1] <= Ptrs
    <3> DEFINE x == c[n - 1]
    <3>1. x \in Nat /\ x <= 1 /\ Ptrs \in Nat /\ Ptrs >= 2
      BY <2>5, Sizes
    <3> HIDE DEF x
    <3> QED
      BY <3>1 DEF x
  <2>7. n \in L
    BY <2>4, <2>6, Zenon
  <2> HIDE DEF L
  <2> QED
    BY <2>7
<1>5. Min(L) \in L /\ \A k \in L : Min(L) <= k
  <2> HIDE DEF L
  <2> QED
    BY <1>3, <1>4, MinFacts
<1> QED
  BY <1>1, <1>2, <1>5

\* update_levels gives a number, and 0 for up to one block.
LEMMA LevelsFacts ==
  ASSUME NEW n \in Nat
  PROVE  Levels(n) \in Nat /\ (n < 2 => Levels(n) = 0)
<1>1. CASE n >= 2
  <2>1. PICK c \in [0 .. n -> Nat] : Levels(n) \in 1 .. n
    BY <1>1, LevelsAre
  <2> QED
    BY <1>1, <2>1
<1>2. CASE n < 2
  <2>1. PICK c \in [0 .. n -> Nat] : Levels(n) = IF n < 2 THEN 0 ELSE Min({l \in 1 .. n : c[l - 1] <= Ptrs})
    BY LevelsRuns
  <2> QED
    BY <1>2, <2>1
<1> QED
  BY <1>1, <1>2

\* rewrite_pointer_block_fixed, counted level by level.
LEMMA PtrBlocksRuns ==
  ASSUME NEW n \in Nat
  PROVE  \E c \in [0 .. Levels(n) -> Nat] :
           /\ c[0] = 0 /\ \A i \in 1 .. Levels(n) : c[i] = c[i - 1] + PerLevel(i, n)
           /\ PtrBlocks(n) = c[Levels(n)]
<1> DEFINE S == Nat
           base == 0
           Step(i, s) == s + PerLevel(i, n)
<1>1. base \in S /\ Levels(n) \in Nat
  BY LevelsFacts
<1>2. ASSUME NEW i \in 1 .. Levels(n), NEW s \in S PROVE Step(i, s) \in S
  <2>1. i \in Nat /\ n <= n
    BY LevelsFacts
  <2>2. PerLevel(i, n) \in Nat
    BY <2>1, PerLevelFacts
  <2> QED
    BY <2>2
<1> DEFINE G == [p \in (1 .. Levels(n)) \X S |-> Step(p[1], p[2])]
<1>3. G \in [(1 .. Levels(n)) \X S -> S]
  <2> HIDE DEF Step, S, base
  <2> QED
    BY <1>2
<1>4. PICK f : f \in [0 .. Levels(n) -> S] /\ \A i \in 0 .. Levels(n) : f[i] = IF i = 0 THEN base ELSE G[<<i, f[i - 1]>>]
  <2> HIDE DEF G, S, base
  <2>1. PICK f : Chain(S, Levels(n), base, G, f)
    BY <1>1, <1>3, Recursion
  <2> QED
    BY <2>1 DEF Chain
<1> DEFINE Def(h) == h = [i \in 0 .. Levels(n) |-> IF i = 0 THEN base ELSE Step(i, h[i - 1])]
<1>5. ASSUME NEW i \in 0 .. Levels(n) PROVE f[i] = IF i = 0 THEN base ELSE Step(i, f[i - 1])
  <2> HIDE DEF Step, S, base
  <2>1. CASE i = 0
    BY <1>4, <2>1
  <2>2. CASE i # 0
    <3>1. i \in 1 .. Levels(n) /\ i - 1 \in 0 .. Levels(n)
      BY <1>1, <2>2
    <3>2. f[i - 1] \in S
      BY <1>4, <3>1
    <3>3. G[<<i, f[i - 1]>>] = Step(i, f[i - 1])
      BY <3>1, <3>2
    <3> QED
      BY <1>4, <2>2, <3>3
  <2> QED
    BY <2>1, <2>2
<1>6. Def(f)
  <2> HIDE DEF Step, S, base
  <2>1. f = [i \in 0 .. Levels(n) |-> f[i]]
    BY <1>4
  <2> QED
    BY <1>5, <2>1
<1> DEFINE c == CHOOSE h : Def(h)
<1>7. Def(c)
  <2>1. \E h : Def(h)
    BY <1>6, Zenon
  <2> HIDE DEF Def
  <2> QED
    BY <2>1, Zenon
<1>8. PtrBlocks(n) = c[Levels(n)]
  BY Zenon DEF PtrBlocks
<1> HIDE DEF c
<1>9. \A i \in 0 .. Levels(n) : c[i] = IF i = 0 THEN base ELSE Step(i, c[i - 1])
  <2> DEFINE v(i) == IF i = 0 THEN base ELSE Step(i, c[i - 1])
  <2>1. c = [i \in 0 .. Levels(n) |-> v(i)]
    BY <1>7
  <2> HIDE DEF v
  <2>2. \A i \in 0 .. Levels(n) : c[i] = v(i)
    BY <2>1
  <2> QED
    BY <2>2 DEF v
<1>10. c \in [0 .. Levels(n) -> S]
  <2> HIDE DEF Step, S, base
  <2> DEFINE T == {i \in 0 .. Levels(n) : c[i] \in S}
  <2>1. 0 \in T
    BY <1>1, <1>9
  <2>2. ASSUME NEW i \in 1 .. Levels(n), i - 1 \in T PROVE i \in T
    BY <1>1, <1>2, <1>9, <2>2
  <2>3. \A i \in 0 .. Levels(n) : i \in T
    <3> HIDE DEF T
    <3> QED
      BY <1>1, <2>1, <2>2, InductTo
  <2> DEFINE v(i) == IF i = 0 THEN base ELSE Step(i, c[i - 1])
  <2>4. c = [i \in 0 .. Levels(n) |-> v(i)]
    BY <1>7
  <2> HIDE DEF v
  <2> QED
    BY <2>3, <2>4
<1> HIDE DEF Def
<1>11. c[0] = base /\ \A i \in 1 .. Levels(n) : c[i] = Step(i, c[i - 1])
  <2> HIDE DEF Step, base
  <2> QED
    BY <1>1, <1>9
<1> QED
  BY <1>8, <1>10, <1>11

\* A number of pointer blocks, none for an empty file.
LEMMA PtrBlocksFacts ==
  /\ \A n \in Nat : PtrBlocks(n) \in Nat
  /\ PtrBlocks(0) = 0
<1>1. ASSUME NEW n \in Nat PROVE PtrBlocks(n) \in Nat
  <2>1. PICK c \in [0 .. Levels(n) -> Nat] : PtrBlocks(n) = c[Levels(n)]
    BY PtrBlocksRuns
  <2>2. Levels(n) \in 0 .. Levels(n)
    BY LevelsFacts
  <2> QED
    BY <2>1, <2>2
<1>2. PtrBlocks(0) = 0
  <2>1. PICK c \in [0 .. Levels(0) -> Nat] : c[0] = 0 /\ PtrBlocks(0) = c[Levels(0)]
    BY PtrBlocksRuns
  <2>2. Levels(0) = 0
    BY LevelsFacts
  <2> QED
    BY <2>1, <2>2
<1> QED
  BY <1>1, <1>2

\* More blocks need no fewer pointers on a level, as reserve_meta_blocks
\* counts them.
LEMMA PointersFacts ==
  ASSUME NEW l \in Nat \ {0}, NEW m \in Nat, NEW n \in Nat, m <= n
  PROVE  PointersPerLevel(l, m) \in Nat /\ PointersPerLevel(l, n) \in Nat
         /\ PointersPerLevel(l, m) <= PointersPerLevel(l, n)
<1>1. l - 1 \in Nat
  OBVIOUS
<1>2. PerLevel(l - 1, m) \in Nat /\ PerLevel(l - 1, n) \in Nat /\ PerLevel(l - 1, m) <= PerLevel(l - 1, n)
  BY <1>1, PerLevelFacts
<1> QED
  BY <1>2 DEF PointersPerLevel

\* reserve_meta_blocks, level by level.
Reservation == [old : Nat, new : Nat, more : BOOLEAN, sum : Nat]

\* A step of the reservation goes from counts to counts.
LEMMA NextLevelFacts ==
  ASSUME NEW s \in Reservation, NEW l \in Nat \ {0}
  PROVE  NextLevel(s, l) \in Reservation
<1>1. CASE s.new = 0 \/ ~ s.more
  BY <1>1 DEF NextLevel
<1>2. CASE ~(s.new = 0 \/ ~ s.more)
  <2> DEFINE newp == PointersPerLevel(l, s.old + s.new)
             oldp == PointersPerLevel(l, s.old)
             oe == CeilDiv(oldp, Ptrs)
             ne == CeilDiv(newp, Ptrs)
  <2>1. s.old \in Nat /\ s.new \in Nat /\ s.sum \in Nat /\ s.old + s.new \in Nat /\ s.old <= s.old + s.new
    BY DEF Reservation
  <2>2. oldp \in Nat /\ newp \in Nat /\ oldp <= newp
    BY <2>1, PointersFacts
  <2>3. NextLevel(s, l) = [old |-> oe, new |-> ne, more |-> newp > Ptrs, sum |-> s.sum + (ne - oe)]
    BY <1>2 DEF NextLevel
  <2> HIDE DEF newp, oldp
  <2>4. oe \in Nat /\ ne \in Nat /\ oe <= ne
    BY <2>2, CeilFacts
  <2> HIDE DEF oe, ne
  <2>5. s.sum + (ne - oe) \in Nat
    BY <2>1, <2>4
  <2>6. (newp > Ptrs) \in BOOLEAN
    OBVIOUS
  <2> DEFINE x == s.sum + (ne - oe)
             y == newp > Ptrs
  <2> HIDE DEF x
  <2>7. [old |-> oe, new |-> ne, more |-> newp > Ptrs, sum |-> x] \in Reservation
    BY <2>4, <2>5, <2>6 DEF Reservation, x
  <2> QED
    BY <2>3, <2>7 DEF x
<1> QED
  BY <1>1, <1>2

\* The reservation, one level after the other.
LEMMA ReserveRuns ==
  ASSUME NEW o \in Nat, NEW n \in Nat
  PROVE  \E c \in [0 .. (o + n) -> Reservation] :
           /\ c[0] = [old |-> o, new |-> n, more |-> TRUE, sum |-> 0] /\ \A i \in 1 .. (o + n) : c[i] = NextLevel(c[i - 1], i)
           /\ Reserve(o, n) = c[o + n].sum
<1> DEFINE S == Reservation
           base == [old |-> o, new |-> n, more |-> TRUE, sum |-> 0]
           Step(i, s) == NextLevel(s, i)
<1>1. base \in S /\ (o + n) \in Nat
  BY DEF Reservation
<1>2. ASSUME NEW i \in 1 .. (o + n), NEW s \in S PROVE Step(i, s) \in S
  <2>1. i \in Nat \ {0}
    OBVIOUS
  <2> QED
    BY <2>1, NextLevelFacts
<1> DEFINE G == [p \in (1 .. (o + n)) \X S |-> Step(p[1], p[2])]
<1>3. G \in [(1 .. (o + n)) \X S -> S]
  <2> HIDE DEF Step, S, base
  <2> QED
    BY <1>2
<1>4. PICK f : f \in [0 .. (o + n) -> S] /\ \A i \in 0 .. (o + n) : f[i] = IF i = 0 THEN base ELSE G[<<i, f[i - 1]>>]
  <2> HIDE DEF G, S, base
  <2>1. PICK f : Chain(S, (o + n), base, G, f)
    BY <1>1, <1>3, Recursion
  <2> QED
    BY <2>1 DEF Chain
<1> DEFINE Def(h) == h = [i \in 0 .. (o + n) |-> IF i = 0 THEN base ELSE Step(i, h[i - 1])]
<1>5. ASSUME NEW i \in 0 .. (o + n) PROVE f[i] = IF i = 0 THEN base ELSE Step(i, f[i - 1])
  <2> HIDE DEF Step, S, base
  <2>1. CASE i = 0
    BY <1>4, <2>1
  <2>2. CASE i # 0
    <3>1. i \in 1 .. (o + n) /\ i - 1 \in 0 .. (o + n)
      BY <1>1, <2>2
    <3>2. f[i - 1] \in S
      BY <1>4, <3>1
    <3>3. G[<<i, f[i - 1]>>] = Step(i, f[i - 1])
      BY <3>1, <3>2
    <3> QED
      BY <1>4, <2>2, <3>3
  <2> QED
    BY <2>1, <2>2
<1>6. Def(f)
  <2> HIDE DEF Step, S, base
  <2>1. f = [i \in 0 .. (o + n) |-> f[i]]
    BY <1>4
  <2> QED
    BY <1>5, <2>1
<1> DEFINE c == CHOOSE h : Def(h)
<1>7. Def(c)
  <2>1. \E h : Def(h)
    BY <1>6, Zenon
  <2> HIDE DEF Def
  <2> QED
    BY <2>1, Zenon
<1>8. Reserve(o, n) = c[o + n].sum
  BY Zenon DEF Reserve
<1> HIDE DEF c
<1>9. \A i \in 0 .. (o + n) : c[i] = IF i = 0 THEN base ELSE Step(i, c[i - 1])
  <2> DEFINE v(i) == IF i = 0 THEN base ELSE Step(i, c[i - 1])
  <2>1. c = [i \in 0 .. (o + n) |-> v(i)]
    BY <1>7
  <2> HIDE DEF v
  <2>2. \A i \in 0 .. (o + n) : c[i] = v(i)
    BY <2>1
  <2> QED
    BY <2>2 DEF v
<1>10. c \in [0 .. (o + n) -> S]
  <2> HIDE DEF Step, S, base
  <2> DEFINE T == {i \in 0 .. (o + n) : c[i] \in S}
  <2>1. 0 \in T
    BY <1>1, <1>9
  <2>2. ASSUME NEW i \in 1 .. (o + n), i - 1 \in T PROVE i \in T
    BY <1>1, <1>2, <1>9, <2>2
  <2>3. \A i \in 0 .. (o + n) : i \in T
    <3> HIDE DEF T
    <3> QED
      BY <1>1, <2>1, <2>2, InductTo
  <2> DEFINE v(i) == IF i = 0 THEN base ELSE Step(i, c[i - 1])
  <2>4. c = [i \in 0 .. (o + n) |-> v(i)]
    BY <1>7
  <2> HIDE DEF v
  <2> QED
    BY <2>3, <2>4
<1> HIDE DEF Def
<1>11. c[0] = base /\ \A i \in 1 .. (o + n) : c[i] = Step(i, c[i - 1])
  <2> HIDE DEF Step, base
  <2> QED
    BY <1>1, <1>9
<1> QED
  BY <1>8, <1>10, <1>11

\* What is reserved is a number: the counter never gets smaller by it.
LEMMA ReserveFacts ==
  ASSUME NEW o \in Nat, NEW n \in Nat
  PROVE  Reserve(o, n) \in Nat
<1>1. PICK c \in [0 .. (o + n) -> Reservation] : Reserve(o, n) = c[o + n].sum
  BY ReserveRuns
<1>2. c[o + n] \in Reservation
  OBVIOUS
<1> QED
  BY <1>1, <1>2 DEF Reservation

-----------------------------------------------------------------------------
(* The sizes of pointer trees: how much is needed for more blocks, and how *)
(* much is set aside.                                                      *)

\* Rounding up small numbers, and numbers that differ by no more than the
\* pointers in a block.
LEMMA CeilIs ==
  /\ CeilDiv(0, Ptrs) = 0
  /\ \A n \in 1 .. Ptrs : CeilDiv(n, Ptrs) = 1
  /\ \A n \in Nat : Ptrs < n /\ n <= 2 * Ptrs => CeilDiv(n, Ptrs) = 2
  /\ \A n \in Nat : Ptrs < n /\ n <= Ptrs * Ptrs => CeilDiv(n, Ptrs) \in 2 .. Ptrs
<1>0. Ptrs \in Nat /\ Ptrs >= 2 /\ Ptrs \in Nat \ {0}
  BY Sizes
<1>1. CeilDiv(0, Ptrs) = 0
  <2>1. (0 * Ptrs + (Ptrs - 1)) \div Ptrs = 0
    <3>1. Ptrs - 1 \in 0 .. (Ptrs - 1) /\ 0 \in Nat
      BY <1>0
    <3> QED
      BY <1>0, <3>1, DivIs
  <2>2. 0 + Ptrs - 1 = 0 * Ptrs + (Ptrs - 1)
    BY <1>0
  <2> QED
    BY <2>1, <2>2 DEF CeilDiv
<1>2. ASSUME NEW n \in 1 .. Ptrs PROVE CeilDiv(n, Ptrs) = 1
  <2>1. n - 1 \in 0 .. (Ptrs - 1) /\ 1 \in Nat
    BY <1>0
  <2>2. (1 * Ptrs + (n - 1)) \div Ptrs = 1
    BY <1>0, <2>1, DivIs
  <2>3. n + Ptrs - 1 = 1 * Ptrs + (n - 1)
    BY <1>0
  <2> QED
    BY <2>2, <2>3 DEF CeilDiv
<1>3. ASSUME NEW n \in Nat, Ptrs < n, n <= 2 * Ptrs PROVE CeilDiv(n, Ptrs) = 2
  <2>1. n - Ptrs - 1 \in 0 .. (Ptrs - 1) /\ 2 \in Nat
    BY <1>0, <1>3
  <2>2. (2 * Ptrs + (n - Ptrs - 1)) \div Ptrs = 2
    BY <1>0, <2>1, DivIs
  <2>3. n + Ptrs - 1 = 2 * Ptrs + (n - Ptrs - 1)
    BY <1>0
  <2> QED
    BY <2>2, <2>3 DEF CeilDiv
<1>4. ASSUME NEW n \in Nat, Ptrs < n, n <= Ptrs * Ptrs PROVE CeilDiv(n, Ptrs) \in 2 .. Ptrs
  <2>1. CeilDiv(Ptrs + 1, Ptrs) = 2
    <3>1. Ptrs + 1 \in Nat /\ Ptrs < Ptrs + 1 /\ Ptrs + 1 <= 2 * Ptrs
      BY <1>0
    <3> QED
      BY <1>3, <3>1
  <2>2. CeilDiv(Ptrs * Ptrs, Ptrs) = Ptrs
    <3>1. Ptrs - 1 \in 0 .. (Ptrs - 1)
      BY <1>0
    <3>2. (Ptrs * Ptrs + (Ptrs - 1)) \div Ptrs = Ptrs
      BY <1>0, <3>1, DivIs
    <3>3. Ptrs * Ptrs + Ptrs - 1 = Ptrs * Ptrs + (Ptrs - 1)
      BY <1>0
    <3> QED
      BY <3>2, <3>3 DEF CeilDiv
  <2>3. Ptrs + 1 \in Nat /\ Ptrs + 1 <= n /\ Ptrs * Ptrs \in Nat
    BY <1>0, <1>4
  <2>4. CeilDiv(Ptrs + 1, Ptrs) <= CeilDiv(n, Ptrs) /\ CeilDiv(n, Ptrs) \in Nat
    BY <2>3, CeilFacts
  <2>5. CeilDiv(n, Ptrs) <= CeilDiv(Ptrs * Ptrs, Ptrs)
    BY <1>4, <2>3, CeilFacts
  <2> QED
    BY <1>0, <2>1, <2>2, <2>4, <2>5
<1> QED
  BY <1>1, <1>2, <1>3, <1>4

\* Up to as many blocks more as there are pointers in a block need at most one
\* pointer block more.
LEMMA CeilPlus ==
  ASSUME NEW m \in Nat, NEW n \in Nat, m <= n, n <= m + Ptrs
  PROVE  /\ CeilDiv(m, Ptrs) \in Nat /\ CeilDiv(n, Ptrs) \in Nat
         /\ CeilDiv(m, Ptrs) <= CeilDiv(n, Ptrs) /\ CeilDiv(n, Ptrs) <= CeilDiv(m, Ptrs) + 1
<1>0. Ptrs \in Nat /\ Ptrs >= 2 /\ Ptrs \in Nat \ {0}
  BY Sizes
<1> DEFINE x == m + Ptrs - 1
           q == x \div Ptrs
           r == x % Ptrs
<1>1. x \in Nat
  BY <1>0
<1>2. q \in Nat /\ r \in 0 .. (Ptrs - 1) /\ x = q * Ptrs + r
  <2> HIDE DEF x
  <2> QED
    BY <1>0, <1>1, DivFacts
<1>3. CeilDiv(m, Ptrs) = q
  BY DEF CeilDiv
<1> DEFINE y == m + Ptrs
<1>4. y \in Nat /\ n <= y
  BY <1>0
<1>5. CeilDiv(y, Ptrs) = q + 1
  <2> HIDE DEF q, r
  <2>1. q + 1 \in Nat
    BY <1>2
  <2>2. ((q + 1) * Ptrs + r) \div Ptrs = q + 1
    BY <1>0, <1>2, <2>1, DivIs
  <2>3. y + Ptrs - 1 = x + Ptrs
    BY <1>0
  <2>4. x + Ptrs = (q + 1) * Ptrs + r
    <3> HIDE DEF x
    <3>1. r \in Nat
      BY <1>0, <1>2
    <3>2. (q + 1) * Ptrs = q * Ptrs + Ptrs
      BY <1>0, <1>2
    <3>3. q * Ptrs \in Nat
      BY <1>0, <1>2
    <3> QED
      BY <1>0, <1>1, <1>2, <3>1, <3>2, <3>3
  <2> HIDE DEF x, y
  <2> QED
    BY <2>2, <2>3, <2>4 DEF CeilDiv
<1> HIDE DEF y, q
<1>6. CeilDiv(n, Ptrs) <= CeilDiv(y, Ptrs)
  BY <1>4, CeilFacts
<1>7. CeilDiv(m, Ptrs) \in Nat /\ CeilDiv(m, Ptrs) <= CeilDiv(n, Ptrs)
  BY CeilFacts
<1>8. CeilDiv(n, Ptrs) \in Nat
  BY <1>4, CeilFacts
<1> QED
  BY <1>3, <1>5, <1>6, <1>7, <1>8

\* per_level_fixed goes from one level to the next.
LEMMA PerLevelNext ==
  ASSUME NEW l \in Nat, NEW n \in Nat
  PROVE  PerLevel(0, n) = n /\ PerLevel(l + 1, n) = CeilDiv(PerLevel(l, n), Ptrs)
<1>1. PerLevel(0, n) = n
  <2>1. PICK c \in [0 .. 0 -> Nat] : c[0] = n /\ PerLevel(0, n) = c[0]
    BY PerLevelRuns
  <2> QED
    BY <2>1
<1>2. PICK c \in [0 .. l -> Nat] :
        /\ c[0] = n /\ \A i \in 1 .. l : c[i] = CeilDiv(c[i - 1], Ptrs)
        /\ PerLevel(l, n) = c[l]
  BY PerLevelRuns
<1>3. PICK d \in [0 .. (l + 1) -> Nat] :
        /\ d[0] = n /\ \A i \in 1 .. (l + 1) : d[i] = CeilDiv(d[i - 1], Ptrs)
        /\ PerLevel(l + 1, n) = d[l + 1]
  <2>1. l + 1 \in Nat
    OBVIOUS
  <2> QED
    BY <2>1, PerLevelRuns
<1> DEFINE T == {i \in 0 .. l : c[i] = d[i]}
<1>4. 0 \in T
  BY <1>2, <1>3
<1>5. ASSUME NEW i \in 1 .. l, i - 1 \in T PROVE i \in T
  BY <1>2, <1>3, <1>5
<1>6. \A i \in 0 .. l : i \in T
  <2> HIDE DEF T
  <2> QED
    BY <1>4, <1>5, InductTo
<1>7. d[l] = c[l] /\ l + 1 \in 1 .. (l + 1) /\ (l + 1) - 1 = l
  BY <1>6
<1> QED
  BY <1>1, <1>2, <1>3, <1>7

\* The levels of small trees.
LEMMA LevelsOfSmall ==
  ASSUME NEW n \in Nat, n >= 2
  PROVE  /\ n <= Ptrs => Levels(n) = 1
         /\ Ptrs < n /\ n <= Ptrs * Ptrs => Levels(n) = 2
<1>0. Ptrs \in Nat /\ Ptrs >= 2 /\ Ptrs \in Nat \ {0}
  BY Sizes
<1>1. PICK c \in [0 .. n -> Nat] :
        /\ c[0] = n /\ \A i \in 1 .. n : c[i] = c[i - 1] \div Ptrs
        /\ Levels(n) \in 1 .. n /\ c[Levels(n) - 1] <= Ptrs
        /\ \A l \in 1 .. n : c[l - 1] <= Ptrs => Levels(n) <= l
  BY LevelsAre
<1>2. 1 \in 1 .. n /\ 2 \in 1 .. n /\ 1 - 1 = 0 /\ 2 - 1 = 1
  OBVIOUS
<1>3. CASE n <= Ptrs
  <2>1. c[1 - 1] <= Ptrs
    BY <1>1, <1>2, <1>3
  <2>2. Levels(n) <= 1
    BY <1>1, <1>2, <2>1
  <2> QED
    BY <1>0, <1>1, <1>3, <2>2
<1>4. CASE Ptrs < n /\ n <= Ptrs * Ptrs
  <2>1. (Ptrs * Ptrs + 0) \div Ptrs = Ptrs
    <3>1. 0 \in 0 .. (Ptrs - 1)
      BY <1>0
    <3> QED
      BY <1>0, <3>1, DivIs
  <2>2. Ptrs * Ptrs + 0 = Ptrs * Ptrs /\ Ptrs * Ptrs \in Nat
    BY <1>0
  <2>3. n \div Ptrs <= (Ptrs * Ptrs) \div Ptrs
    BY <1>0, <1>4, <2>2, DivMonotone
  <2>4. c[1] = n \div Ptrs
    BY <1>1, <1>2
  <2>5. c[2 - 1] <= Ptrs
    BY <1>2, <2>1, <2>2, <2>3, <2>4
  <2>6. Levels(n) <= 2
    BY <1>1, <1>2, <2>5
  <2>7. Levels(n) # 1
    <3>1. ASSUME Levels(n) = 1 PROVE FALSE
      <4>1. c[0] <= Ptrs
        BY <1>1, <1>2, <3>1
      <4> QED
        BY <1>0, <1>1, <1>4, <4>1
    <3> QED
      BY <3>1
  <2>8. Levels(n) = 2
    <3> DEFINE x == Levels(n)
    <3>1. x \in Nat /\ x >= 1 /\ x <= 2 /\ x # 1
      BY <1>1, <2>6, <2>7
    <3> HIDE DEF x
    <3> QED
      BY <3>1 DEF x
  <2> QED
    BY <1>0, <1>4, <2>8
<1> QED
  BY <1>3, <1>4

\* Pointer blocks of small trees.
LEMMA SmallTrees ==
  ASSUME NEW n \in Nat
  PROVE  /\ n < 2 => PtrBlocks(n) = 0
         /\ 2 <= n /\ n <= Ptrs => PtrBlocks(n) = 1
         /\ Ptrs < n /\ n <= Ptrs * Ptrs => PtrBlocks(n) = CeilDiv(n, Ptrs) + 1
<1>0. Ptrs \in Nat /\ Ptrs >= 2
  BY Sizes
<1>1. PICK c \in [0 .. Levels(n) -> Nat] :
        /\ c[0] = 0 /\ \A i \in 1 .. Levels(n) : c[i] = c[i - 1] + PerLevel(i, n)
        /\ PtrBlocks(n) = c[Levels(n)]
  BY PtrBlocksRuns
<1>2. PerLevel(1, n) = CeilDiv(n, Ptrs) /\ PerLevel(2, n) = CeilDiv(CeilDiv(n, Ptrs), Ptrs)
  <2>1. 0 \in Nat /\ 1 \in Nat /\ 0 + 1 = 1 /\ 1 + 1 = 2
    OBVIOUS
  <2>2. PerLevel(0, n) = n /\ PerLevel(0 + 1, n) = CeilDiv(PerLevel(0, n), Ptrs)
    BY <2>1, PerLevelNext
  <2>3. PerLevel(1 + 1, n) = CeilDiv(PerLevel(1, n), Ptrs)
    BY <2>1, PerLevelNext
  <2> QED
    BY <2>1, <2>2, <2>3
<1>3. CASE n < 2
  <2>1. Levels(n) = 0
    BY <1>3, LevelsFacts
  <2> QED
    BY <1>0, <1>1, <1>3, <2>1
<1>4. CASE 2 <= n /\ n <= Ptrs
  <2>1. Levels(n) = 1
    BY <1>4, LevelsOfSmall
  <2>2. PerLevel(1, n) = 1
    BY <1>0, <1>2, <1>4, CeilIs
  <2>3. c[1] = c[0] + PerLevel(1, n)
    <3>1. 1 \in 1 .. Levels(n) /\ 1 - 1 = 0
      BY <2>1
    <3> QED
      BY <1>1, <3>1
  <2> QED
    BY <1>0, <1>1, <1>4, <2>1, <2>2, <2>3
<1>5. CASE Ptrs < n /\ n <= Ptrs * Ptrs
  <2>1. Levels(n) = 2
    BY <1>0, <1>5, LevelsOfSmall
  <2>2. CeilDiv(n, Ptrs) \in 2 .. Ptrs
    BY <1>5, CeilIs
  <2>3. PerLevel(2, n) = 1
    <3> DEFINE x == CeilDiv(n, Ptrs)
    <3>1. x \in 1 .. Ptrs
      BY <1>0, <2>2
    <3> HIDE DEF x
    <3>2. CeilDiv(x, Ptrs) = 1
      BY <3>1, CeilIs
    <3> QED
      BY <1>2, <3>2 DEF x
  <2>4. c[1] = c[0] + PerLevel(1, n) /\ c[2] = c[1] + PerLevel(2, n)
    <3>1. 1 \in 1 .. Levels(n) /\ 1 - 1 = 0 /\ 2 \in 1 .. Levels(n) /\ 2 - 1 = 1
      BY <2>1
    <3> QED
      BY <1>1, <3>1
  <2>5. c[2] = CeilDiv(n, Ptrs) + 1
    <3> DEFINE x == CeilDiv(n, Ptrs)
    <3>1. x \in Nat /\ c[1] = 0 + x /\ c[2] = c[1] + 1
      BY <1>0, <1>1, <1>2, <2>2, <2>3, <2>4
    <3> HIDE DEF x
    <3> QED
      BY <3>1 DEF x
  <2> QED
    BY <1>0, <1>1, <1>5, <2>1, <2>5
<1> QED
  BY <1>3, <1>4, <1>5

\* A reservation that has nothing more to do changes no more.
LEMMA Reserved2 ==
  ASSUME NEW o \in Nat, NEW n \in Nat, NEW j \in 0 .. (o + n), NEW c \in [0 .. (o + n) -> Reservation],
         \A i \in 1 .. (o + n) : c[i] = NextLevel(c[i - 1], i), c[j].new = 0 \/ ~ c[j].more
  PROVE  c[o + n] = c[j]
<1> DEFINE N == o + n
           T == {i \in 0 .. N : i >= j => c[i] = c[j]}
<1>0. N \in Nat
  OBVIOUS
<1>1. 0 \in T
  OBVIOUS
<1>2. ASSUME NEW i \in 1 .. N, i - 1 \in T PROVE i \in T
  <2>1. CASE i < j
    BY <1>0, <2>1
  <2>2. CASE i = j
    BY <1>0, <2>2
  <2>3. CASE i > j
    <3>1. i - 1 >= j /\ c[i - 1] = c[j]
      BY <1>2, <2>3
    <3>2. c[i] = NextLevel(c[j], i)
      BY <3>1
    <3>3. NextLevel(c[j], i) = c[j]
      BY DEF NextLevel
    <3> QED
      BY <3>2, <3>3
  <2> QED
    BY <2>1, <2>2, <2>3
<1>3. \A i \in 0 .. N : i \in T
  <2> HIDE DEF T, N
  <2> QED
    BY <1>0, <1>1, <1>2, InductTo
<1>4. N \in T /\ N >= j
  BY <1>0, <1>3
<1> QED
  BY <1>4

\* What reserve_meta_blocks sets aside is what the tree will need more, as long
\* as it has no more than two levels.
LEMMA ReserveExact ==
  ASSUME NEW o \in Nat, NEW n \in Nat, o + n >= 2, o + n <= Ptrs * Ptrs
  PROVE  Reserve(o, n) = PtrBlocks(o + n) - PtrBlocks(o)
<1>0. Ptrs \in Nat /\ Ptrs >= 2
  BY Sizes
<1>1. PICK c \in [0 .. (o + n) -> Reservation] :
        /\ c[0] = [old |-> o, new |-> n, more |-> TRUE, sum |-> 0] /\ \A i \in 1 .. (o + n) : c[i] = NextLevel(c[i - 1], i)
        /\ Reserve(o, n) = c[o + n].sum
  BY ReserveRuns
<1>2. CASE n = 0
  <2>1. 0 \in 0 .. (o + n) /\ c[0].new = 0 /\ c[0].sum = 0
    BY <1>1, <1>2
  <2>2. c[o + n] = c[0]
    BY <1>1, <2>1, Reserved2
  <2>3. PtrBlocks(o) \in Nat /\ o + n = o
    BY <1>2, PtrBlocksFacts
  <2> QED
    BY <1>1, <2>1, <2>2, <2>3
<1>3. CASE n > 0
  <2> DEFINE newp == PointersPerLevel(1, o + n)
             oldp == PointersPerLevel(1, o)
             oe == CeilDiv(oldp, Ptrs)
             ne == CeilDiv(newp, Ptrs)
  <2>1. /\ newp = o + n
        /\ oldp = IF o < 2 THEN 0 ELSE o
    <3>1. 0 \in Nat /\ 1 - 1 = 0
      OBVIOUS
    <3>2. PerLevel(0, o + n) = o + n /\ PerLevel(0, o) = o
      BY <3>1, PerLevelNext
    <3> QED
      BY <3>1, <3>2 DEF PointersPerLevel
  <2>2. c[1] = [old |-> oe, new |-> ne, more |-> newp > Ptrs, sum |-> 0 + (ne - oe)]
    <3> DEFINE s == c[0]
    <3>1. s.old = o /\ s.new = n /\ s.more = TRUE /\ s.sum = 0
      BY <1>1
    <3>2. c[1] = NextLevel(s, 1)
      <4>1. 1 \in 1 .. (o + n) /\ 1 - 1 = 0
        OBVIOUS
      <4> QED
        BY <1>1, <4>1
    <3> HIDE DEF s
    <3> QED
      BY <1>3, <3>1, <3>2 DEF NextLevel
  <2>3. /\ oe = IF o < 2 THEN 0 ELSE CeilDiv(o, Ptrs)
        /\ ne = CeilDiv(o + n, Ptrs)
    BY <2>1, CeilIs
  <2> HIDE DEF newp, oldp, oe, ne
  <2>4. CASE o + n <= Ptrs
    <3>1. ne = 1 /\ oe = IF o < 2 THEN 0 ELSE 1
      BY <1>0, <1>3, <2>3, <2>4, CeilIs
    <3>2. ~ c[1].more /\ c[1].sum = ne - oe
      <4> DEFINE more == newp > Ptrs
                 sum == 0 + (ne - oe)
      <4>1. ~ more /\ sum = ne - oe
        BY <1>0, <2>1, <2>4, <3>1
      <4>2. c[1] = [old |-> oe, new |-> ne, more |-> more, sum |-> sum]
        BY <2>2
      <4> HIDE DEF more, sum
      <4> QED
        BY <4>1, <4>2
    <3>3. c[o + n] = c[1]
      <4>1. 1 \in 0 .. (o + n)
        OBVIOUS
      <4> QED
        BY <1>1, <3>2, <4>1, Reserved2
    <3>4. PtrBlocks(o + n) = 1 /\ PtrBlocks(o) = IF o < 2 THEN 0 ELSE 1
      BY <1>0, <1>3, <2>4, SmallTrees
    <3> QED
      BY <1>1, <3>1, <3>2, <3>3, <3>4
  <2>5. CASE Ptrs < o + n
    <3> DEFINE m == oe + ne
    <3>1. ne \in 2 .. Ptrs
      BY <2>3, <2>5, CeilIs
    <3>2. /\ oe \in 0 .. Ptrs
          /\ o < 2 => oe = 0
          /\ 2 <= o /\ o <= Ptrs => oe = 1
          /\ Ptrs < o => oe \in 2 .. Ptrs
      <4>1. CASE o < 2
        BY <1>0, <2>3, <4>1
      <4>2. CASE 2 <= o /\ o <= Ptrs
        BY <1>0, <2>3, <4>2, CeilIs
      <4>3. CASE Ptrs < o
        <5>1. o <= Ptrs * Ptrs
          <6> DEFINE q == Ptrs * Ptrs
          <6>1. q \in Nat /\ o + n <= q
            BY <1>0
          <6> HIDE DEF q
          <6>2. o <= q
            BY <6>1
          <6> QED
            BY <6>2 DEF q
        <5>2. CeilDiv(o, Ptrs) \in 2 .. Ptrs
          BY <4>3, <5>1, CeilIs
        <5> QED
          BY <1>0, <2>3, <4>3, <5>2
      <4> QED
        BY <1>0, <4>1, <4>2, <4>3
    <3> DEFINE newq == PointersPerLevel(2, m)
               oldq == PointersPerLevel(2, oe)
               of == CeilDiv(oldq, Ptrs)
               nf == CeilDiv(newq, Ptrs)
    <3>3. m \in Nat /\ m >= 2 /\ m <= 2 * Ptrs
      BY <1>0, <3>1, <3>2
    <3>4. newq = CeilDiv(m, Ptrs) /\ oldq = IF oe < 2 THEN 0 ELSE CeilDiv(oe, Ptrs)
      <4>1. 0 \in Nat /\ 0 + 1 = 1 /\ 2 - 1 = 1 /\ oe \in Nat
        BY <3>2
      <4> HIDE DEF m
      <4>2. PerLevel(0, m) = m /\ PerLevel(1, m) = CeilDiv(PerLevel(0, m), Ptrs)
        BY <3>3, <4>1, PerLevelNext
      <4>3. PerLevel(0, oe) = oe /\ PerLevel(1, oe) = CeilDiv(PerLevel(0, oe), Ptrs)
        BY <4>1, PerLevelNext
      <4> QED
        BY <3>3, <4>1, <4>2, <4>3 DEF PointersPerLevel
    <3>5. newq \in 1 .. 2
      <4> HIDE DEF m
      <4>1. CASE m <= Ptrs
        BY <3>3, <3>4, <4>1, CeilIs
      <4>2. CASE Ptrs < m
        BY <3>3, <3>4, <4>2, CeilIs
      <4> QED
        BY <1>0, <3>3, <4>1, <4>2
    <3>6. oldq = IF oe < 2 THEN 0 ELSE 1
      BY <1>0, <3>2, <3>4, CeilIs
    <3> HIDE DEF newq, oldq
    <3>7. nf = 1 /\ of = IF oe < 2 THEN 0 ELSE 1
      <4>1. newq \in 1 .. Ptrs
        BY <1>0, <3>5
      <4>2. nf = 1
        BY <4>1, CeilIs
      <4>3. 1 \in 1 .. Ptrs
        BY <1>0
      <4> QED
        BY <3>6, <4>2, <4>3, CeilIs
    <3>8. c[2] = [old |-> of, new |-> nf, more |-> newq > Ptrs, sum |-> (ne - oe) + (nf - of)]
      <4> DEFINE s == c[1]
      <4>1. s.old = oe /\ s.new = ne /\ s.more = TRUE /\ s.sum = ne - oe
        <5> DEFINE more == newp > Ptrs
                   sum == 0 + (ne - oe)
        <5>1. more = TRUE /\ sum = ne - oe
          BY <1>0, <2>1, <2>5, <3>1, <3>2
        <5> HIDE DEF more, sum
        <5>2. c[1] = [old |-> oe, new |-> ne, more |-> more, sum |-> sum]
          BY <2>2 DEF more, sum
        <5> QED
          BY <5>1, <5>2
      <4>2. c[2] = NextLevel(s, 2)
        <5>1. 2 \in 1 .. (o + n) /\ 2 - 1 = 1
          OBVIOUS
        <5> QED
          BY <1>1, <5>1
      <4>3. ~(s.new = 0 \/ ~ s.more)
        BY <3>1, <4>1
      <4> HIDE DEF s
      <4>4. NextLevel(s, 2) = [old |-> CeilDiv(PointersPerLevel(2, s.old), Ptrs),
                               new |-> CeilDiv(PointersPerLevel(2, s.old + s.new), Ptrs),
                               more |-> PointersPerLevel(2, s.old + s.new) > Ptrs,
                               sum |-> s.sum + (CeilDiv(PointersPerLevel(2, s.old + s.new), Ptrs)
                                                - CeilDiv(PointersPerLevel(2, s.old), Ptrs))]
        BY <4>3 DEF NextLevel
      <4> QED
        BY <4>1, <4>2, <4>4 DEF newq, oldq
    <3> HIDE DEF nf, of, m
    <3>9. ~ c[2].more /\ c[2].sum = (ne - oe) + (nf - of)
      <4> DEFINE more == newq > Ptrs
                 sum == (ne - oe) + (nf - of)
      <4>1. ~ more
        BY <1>0, <3>5
      <4>2. c[2] = [old |-> of, new |-> nf, more |-> more, sum |-> sum]
        BY <3>8
      <4> HIDE DEF more, sum
      <4>3. ~ c[2].more /\ c[2].sum = sum
        BY <4>1, <4>2
      <4> QED
        BY <4>3 DEF sum
    <3>10. c[o + n] = c[2]
      <4>1. 2 \in 0 .. (o + n)
        OBVIOUS
      <4> QED
        BY <1>1, <3>9, <4>1, Reserved2
    <3>11. PtrBlocks(o + n) = ne + 1
      <4>1. o + n \in Nat
        OBVIOUS
      <4> QED
        BY <2>3, <2>5, <4>1, SmallTrees
    <3>12. PtrBlocks(o) = IF oe = 0 THEN 0 ELSE IF oe = 1 THEN 1 ELSE oe + 1
      <4>1. CASE o < 2
        BY <3>2, <4>1, SmallTrees
      <4>2. CASE 2 <= o /\ o <= Ptrs
        BY <3>2, <4>2, SmallTrees
      <4>3. CASE Ptrs < o
        <5>1. o <= Ptrs * Ptrs
          <6> DEFINE q == Ptrs * Ptrs
          <6>1. q \in Nat /\ o + n <= q
            BY <1>0
          <6> HIDE DEF q
          <6>2. o <= q
            BY <6>1
          <6> QED
            BY <6>2 DEF q
        <5>2. PtrBlocks(o) = CeilDiv(o, Ptrs) + 1
          BY <4>3, <5>1, SmallTrees
        <5>3. oe = CeilDiv(o, Ptrs) /\ oe \in 2 .. Ptrs
          BY <1>0, <2>3, <3>2, <4>3
        <5> QED
          BY <5>2, <5>3
      <4> QED
        BY <1>0, <4>1, <4>2, <4>3
    <3>13. Reserve(o, n) = (ne - oe) + (nf - of)
      BY <1>1, <3>9, <3>10
    <3>14. oe \in Nat /\ ne \in Nat
      BY <1>0, <3>1, <3>2
    <3>15. CASE oe < 2
      BY <3>7, <3>11, <3>12, <3>13, <3>14, <3>15
    <3>16. CASE oe >= 2
      BY <3>7, <3>11, <3>12, <3>13, <3>14, <3>16
    <3> QED
      BY <3>14, <3>15, <3>16
  <2> QED
    BY <1>0, <2>4, <2>5
<1> QED
  BY <1>2, <1>3

\* The next number has the next quotient if it is a multiple, else the same.
LEMMA NextQuotient ==
  ASSUME NEW m \in Nat
  PROVE  m \div Ptrs \in Nat /\ (m + Ptrs) \div Ptrs = m \div Ptrs + 1
<1>0. Ptrs \in Nat \ {0}
  BY Sizes
<1> DEFINE q == m \div Ptrs
           r == m % Ptrs
<1>1. q \in Nat /\ r \in 0 .. (Ptrs - 1) /\ m = q * Ptrs + r
  BY <1>0, DivFacts
<1> DEFINE t == m + Ptrs
<1> HIDE DEF q, r
<1>3. (q + 1) * Ptrs = q * Ptrs + Ptrs
  BY <1>0, <1>1
<1>4. t = (q + 1) * Ptrs + r /\ q + 1 \in Nat
  <2> DEFINE x == q * Ptrs
             y == (q + 1) * Ptrs
  <2>1. y = x + Ptrs /\ x \in Nat /\ m = x + r
    BY <1>0, <1>1, <1>3
  <2> HIDE DEF x, y
  <2>2. m + Ptrs = y + r
    BY <1>0, <1>1, <2>1
  <2> QED
    BY <1>1, <2>2 DEF y
<1> HIDE DEF t
<1>5. t \div Ptrs = q + 1
  <2> DEFINE p == q + 1
  <2>1. p \in Nat /\ t = p * Ptrs + r
    BY <1>4
  <2> HIDE DEF p
  <2>2. (p * Ptrs + r) \div Ptrs = p
    BY <1>0, <1>1, <2>1, DivIs
  <2> QED
    BY <2>1, <2>2 DEF p
<1> QED
  BY <1>1, <1>5 DEF q, t

\* One more to divide is one more at most.
LEMMA DivNext ==
  ASSUME NEW m \in Nat, NEW n \in Nat, n <= m + 1
  PROVE  /\ n \div Ptrs \in Nat /\ n \div Ptrs <= m \div Ptrs + 1
         /\ CeilDiv(n, Ptrs) \in Nat /\ CeilDiv(n, Ptrs) <= m \div Ptrs + 1
<1>0. Ptrs \in Nat \ {0}
  BY Sizes
<1> DEFINE x == m + Ptrs
           y == n + Ptrs - 1
<1>1. x \in Nat /\ y \in Nat /\ n <= x /\ y <= x
  BY <1>0
<1>2. x \div Ptrs = m \div Ptrs + 1
  BY NextQuotient
<1> HIDE DEF x, y
<1>3. n \div Ptrs <= x \div Ptrs /\ y \div Ptrs <= x \div Ptrs
  BY <1>0, <1>1, DivMonotone
<1>4. n \div Ptrs \in Nat /\ y \div Ptrs \in Nat
  BY <1>0, <1>1, DivFacts
<1>5. CeilDiv(n, Ptrs) = y \div Ptrs
  BY DEF CeilDiv, y
<1> QED
  BY <1>2, <1>3, <1>4, <1>5

\* A level of the tree over one more block has the same blocks or one more.
LEMMA WidthNext ==
  ASSUME NEW n \in Nat, NEW l \in Nat
  PROVE  PerLevel(l, n) \in Nat /\ PerLevel(l, n + 1) \in Nat /\ PerLevel(l, n) <= PerLevel(l, n + 1)
         /\ PerLevel(l, n + 1) <= PerLevel(l, n) + 1
<1>0. Ptrs \in Nat /\ Ptrs >= 2 /\ n + 1 \in Nat /\ n <= n + 1
  BY Sizes
<1> DEFINE Ok(i) == /\ PerLevel(i, n) \in Nat /\ PerLevel(i, n + 1) \in Nat
                    /\ PerLevel(i, n) <= PerLevel(i, n + 1) /\ PerLevel(i, n + 1) <= PerLevel(i, n) + 1
           T == {i \in Nat : Ok(i)}
<1>1. 0 \in T
  <2>1. PerLevel(0, n) = n /\ PerLevel(0, n + 1) = n + 1
    <3> DEFINE k == n + 1
    <3>1. k \in Nat /\ 0 \in Nat
      BY <1>0
    <3> HIDE DEF k
    <3>2. PerLevel(0, n) = n /\ PerLevel(0, k) = k
      BY <3>1, PerLevelNext
    <3> QED
      BY <3>2 DEF k
  <2> QED
    BY <1>0, <2>1
<1>2. ASSUME NEW i \in 1 .. l, i - 1 \in T PROVE i \in T
  <2> DEFINE k == i - 1
             x == PerLevel(k, n)
             y == PerLevel(k, n + 1)
  <2>1. k \in Nat /\ i = k + 1 /\ i \in Nat
    BY <1>2
  <2>2. x \in Nat /\ y \in Nat /\ x <= y /\ y <= x + 1
    BY <1>2
  <2> HIDE DEF k
  <2>3. PerLevel(k + 1, n) = CeilDiv(x, Ptrs) /\ PerLevel(k + 1, n + 1) = CeilDiv(y, Ptrs)
    <3> DEFINE m == n + 1
    <3>1. m \in Nat
      BY <1>0
    <3> HIDE DEF m
    <3>2. PerLevel(k + 1, n) = CeilDiv(PerLevel(k, n), Ptrs) /\ PerLevel(k + 1, m) = CeilDiv(PerLevel(k, m), Ptrs)
      BY <2>1, <3>1, PerLevelNext
    <3> QED
      BY <3>2 DEF m
  <2> HIDE DEF x, y
  <2>4. y <= x + Ptrs
    BY <1>0, <2>2
  <2>5. /\ CeilDiv(x, Ptrs) \in Nat /\ CeilDiv(y, Ptrs) \in Nat
        /\ CeilDiv(x, Ptrs) <= CeilDiv(y, Ptrs) /\ CeilDiv(y, Ptrs) <= CeilDiv(x, Ptrs) + 1
    BY <2>2, <2>4, CeilPlus
  <2>6. Ok(k + 1)
    BY <2>3, <2>5
  <2> QED
    BY <2>1, <2>6
<1>3. l \in T
  <2> HIDE DEF T
  <2>1. \A i \in 0 .. l : i \in T
    BY <1>1, <1>2, InductTo
  <2> QED
    BY <2>1
<1> QED
  BY <1>3

\* What is left after some divisions bounds the blocks of that level, and grows
\* by one at most with another block.
LEMMA LeftNext ==
  ASSUME NEW n \in Nat, NEW c \in [0 .. n -> Nat], c[0] = n, \A i \in 1 .. n : c[i] = c[i - 1] \div Ptrs,
         NEW d \in [0 .. (n + 1) -> Nat], d[0] = n + 1, \A i \in 1 .. (n + 1) : d[i] = d[i - 1] \div Ptrs,
         NEW j \in 0 .. n
  PROVE  d[j] <= c[j] + 1 /\ PerLevel(j, n + 1) \in Nat /\ PerLevel(j, n + 1) <= d[j] + 1
<1> DEFINE m == n + 1
           Ok(i) == d[i] <= c[i] + 1 /\ PerLevel(i, m) \in Nat /\ PerLevel(i, m) <= d[i] + 1
           T == {i \in 0 .. n : Ok(i)}
<1>0. m \in Nat /\ 0 \in Nat /\ j \in 0 .. n
  OBVIOUS
<1>1. 0 \in T
  <2>1. d[0] = c[0] + 1 /\ d[0] = m /\ c[0] = n
    OBVIOUS
  <2> HIDE DEF m
  <2>2. PerLevel(0, m) = m
    BY <1>0, PerLevelNext
  <2> QED
    BY <1>0, <2>1, <2>2
<1>2. ASSUME NEW i \in 1 .. n, i - 1 \in T PROVE i \in T
  <2> DEFINE k == i - 1
  <2>1. k \in Nat /\ i = k + 1 /\ k \in 0 .. n /\ k \in 0 .. m /\ i \in 1 .. m
    BY <1>2
  <2>2. c[i] = c[k] \div Ptrs /\ d[i] = d[k] \div Ptrs
    BY <1>2, <2>1
  <2>3. c[k] \in Nat /\ d[k] \in Nat
    BY <2>1
  <2>4. Ok(k)
    BY <1>2
  <2> HIDE DEF k, m
  <2>5. d[i] <= c[i] + 1
    BY <2>2, <2>3, <2>4, DivNext
  <2> DEFINE x == PerLevel(k, m)
             y == d[k]
  <2>6. PerLevel(k + 1, m) = CeilDiv(x, Ptrs)
    BY <1>0, <2>1, PerLevelNext
  <2>7. x \in Nat /\ y \in Nat /\ x <= y + 1
    BY <2>3, <2>4
  <2> HIDE DEF x, y
  <2>8. CeilDiv(x, Ptrs) \in Nat /\ CeilDiv(x, Ptrs) <= y \div Ptrs + 1
    BY <2>7, DivNext
  <2>9. PerLevel(i, m) \in Nat /\ PerLevel(i, m) <= d[i] + 1
    BY <2>1, <2>2, <2>6, <2>8 DEF y
  <2> QED
    BY <2>5, <2>9
<1>3. \A i \in 0 .. n : i \in T
  <2> HIDE DEF T
  <2> QED
    BY <1>1, <1>2, InductTo
<1>4. Ok(j)
  BY <1>3
<1> QED
  BY <1>4

\* More blocks need no fewer levels.
LEMMA LevelsMonotone ==
  ASSUME NEW m \in Nat, NEW n \in Nat, m <= n
  PROVE  Levels(m) \in Nat /\ Levels(n) \in Nat /\ Levels(m) <= Levels(n)
<1>1. Levels(m) \in Nat /\ Levels(n) \in Nat /\ (m < 2 => Levels(m) = 0)
  BY LevelsFacts
<1>2. CASE m < 2
  BY <1>1, <1>2
<1>3. CASE m >= 2
  <2>0. n >= 2 /\ Ptrs \in Nat \ {0}
    BY <1>3, Sizes
  <2>1. PICK c \in [0 .. m -> Nat] :
          /\ c[0] = m /\ \A i \in 1 .. m : c[i] = c[i - 1] \div Ptrs
          /\ Levels(m) \in 1 .. m /\ c[Levels(m) - 1] <= Ptrs
          /\ \A l \in 1 .. m : c[l - 1] <= Ptrs => Levels(m) <= l
    BY <1>3, LevelsAre
  <2>2. PICK d \in [0 .. n -> Nat] :
          /\ d[0] = n /\ \A i \in 1 .. n : d[i] = d[i - 1] \div Ptrs
          /\ Levels(n) \in 1 .. n /\ d[Levels(n) - 1] <= Ptrs
          /\ \A l \in 1 .. n : d[l - 1] <= Ptrs => Levels(n) <= l
    BY <2>0, LevelsAre
  <2> DEFINE T == {i \in 0 .. m : c[i] <= d[i]}
  <2>3. 0 \in T
    BY <2>1, <2>2
  <2>4. ASSUME NEW i \in 1 .. m, i - 1 \in T PROVE i \in T
    <3>1. i \in 1 .. n /\ i - 1 \in 0 .. m /\ i - 1 \in 0 .. n /\ i \in 0 .. m
      OBVIOUS
    <3>2. c[i] = c[i - 1] \div Ptrs /\ d[i] = d[i - 1] \div Ptrs
      BY <2>1, <2>2, <3>1
    <3>3. c[i - 1] \in Nat /\ d[i - 1] \in Nat /\ c[i - 1] <= d[i - 1]
      BY <2>4, <3>1
    <3>4. c[i - 1] \div Ptrs <= d[i - 1] \div Ptrs
      BY <2>0, <3>3, DivMonotone
    <3> QED
      BY <3>1, <3>2, <3>4
  <2>5. \A i \in 0 .. m : i \in T
    <3> HIDE DEF T
    <3> QED
      BY <2>3, <2>4, InductTo
  <2> DEFINE k == Levels(n)
  <2>6. k \in 1 .. n /\ d[k - 1] <= Ptrs
    BY <2>2
  <2> HIDE DEF k
  <2>7. CASE k <= m
    <3>1. k - 1 \in 0 .. m /\ k - 1 \in 0 .. n /\ k \in 1 .. m
      BY <2>6, <2>7
    <3>2. c[k - 1] <= d[k - 1] /\ c[k - 1] \in Nat /\ d[k - 1] \in Nat
      BY <2>5, <3>1
    <3>3. c[k - 1] <= Ptrs
      BY <2>0, <2>6, <3>2
    <3> QED
      BY <1>1, <2>1, <3>1, <3>3 DEF k
  <2>8. CASE k > m
    BY <1>1, <2>1, <2>6, <2>8 DEF k
  <2> QED
    BY <2>6, <2>7, <2>8
<1> QED
  BY <1>2, <1>3

\* A tree that grows by a block gets one level more at most, and if it does
\* the new root is its only block of that level.
LEMMA LevelsNext ==
  ASSUME NEW n \in Nat
  PROVE  /\ Levels(n) \in Nat /\ Levels(n + 1) \in Levels(n) .. (Levels(n) + 1)
         /\ Levels(n + 1) = Levels(n) + 1 => PerLevel(Levels(n) + 1, n + 1) <= 1
<1>0. Ptrs \in Nat /\ Ptrs >= 2 /\ Ptrs \in Nat \ {0}
  BY Sizes
<1> DEFINE m == n + 1
<1>1. m \in Nat /\ n <= m
  OBVIOUS
<1>2. Levels(n) \in Nat /\ Levels(m) \in Nat /\ Levels(n) <= Levels(m)
  <2> HIDE DEF m
  <2> QED
    BY <1>1, LevelsMonotone
<1>3. CASE n = 0
  <2>1. Levels(m) = 0 /\ Levels(n) = 0
    <3>1. m < 2
      BY <1>3
    <3> HIDE DEF m
    <3> QED
      BY <1>1, <1>3, <3>1, LevelsFacts
  <2> QED
    BY <2>1
<1>4. CASE n = 1
  <2>1. Levels(n) = 0 /\ m = 2
    BY <1>4, LevelsFacts
  <2>2. Levels(2) = 1
    BY <1>0, LevelsOfSmall
  <2>3. PerLevel(0 + 1, 2) = CeilDiv(PerLevel(0, 2), Ptrs) /\ PerLevel(0, 2) = 2
    <3>1. 0 \in Nat /\ 2 \in Nat
      OBVIOUS
    <3> QED
      BY <3>1, PerLevelNext
  <2>4. 2 \in 1 .. Ptrs
    BY <1>0
  <2>5. CeilDiv(2, Ptrs) = 1
    BY <2>4, CeilIs
  <2> QED
    BY <2>1, <2>2, <2>3, <2>5
<1>5. CASE n >= 2
  <2>1. PICK c \in [0 .. n -> Nat] :
          /\ c[0] = n /\ \A i \in 1 .. n : c[i] = c[i - 1] \div Ptrs
          /\ Levels(n) \in 1 .. n /\ c[Levels(n) - 1] <= Ptrs
          /\ \A l \in 1 .. n : c[l - 1] <= Ptrs => Levels(n) <= l
    BY <1>5, LevelsAre
  <2>2. PICK d \in [0 .. m -> Nat] :
          /\ d[0] = m /\ \A i \in 1 .. m : d[i] = d[i - 1] \div Ptrs
          /\ Levels(m) \in 1 .. m /\ d[Levels(m) - 1] <= Ptrs
          /\ \A l \in 1 .. m : d[l - 1] <= Ptrs => Levels(m) <= l
    <3>1. m >= 2
      BY <1>5
    <3> HIDE DEF m
    <3> QED
      BY <1>1, <3>1, LevelsAre
  <2> DEFINE k == Levels(n)
  <2>3. k \in 1 .. n /\ c[k - 1] <= Ptrs
    BY <2>1
  <2> HIDE DEF k
  <2>4. k - 1 \in 0 .. n /\ k \in 0 .. n /\ k \in 1 .. m /\ k + 1 \in 1 .. m /\ k - 1 \in 0 .. m /\ k \in 0 .. m /\ k \in Nat
    BY <2>3
  <2>5. d[k - 1] <= c[k - 1] + 1
    BY <2>1, <2>2, <2>4, LeftNext
  <2>6. PerLevel(k, m) \in Nat /\ PerLevel(k, m) <= d[k] + 1
    BY <2>1, <2>2, <2>4, LeftNext
  <2>7. d[k] \in 0 .. 1
    <3> DEFINE x == d[k - 1]
    <3>1. d[k] = x \div Ptrs
      BY <2>2, <2>4
    <3>2. x \in Nat /\ c[k - 1] \in Nat
      BY <2>4
    <3>3. x <= Ptrs + 1
      BY <1>0, <2>3, <2>5, <3>2
    <3> HIDE DEF x
    <3> DEFINE y == Ptrs + 1
    <3>4. y \in Nat /\ x <= y
      BY <1>0, <3>3
    <3>5. y \div Ptrs = 1
      <4>1. 1 \in Nat /\ 1 \in 0 .. (Ptrs - 1)
        BY <1>0
      <4>2. (1 * Ptrs + 1) \div Ptrs = 1
        BY <1>0, <4>1, DivIs
      <4>3. 1 * Ptrs + 1 = y
        BY <1>0
      <4> QED
        BY <4>2, <4>3
    <3> HIDE DEF y
    <3>6. x \div Ptrs <= y \div Ptrs /\ x \div Ptrs \in Nat
      BY <1>0, <3>2, <3>4, DivMonotone, DivFacts
    <3> QED
      BY <3>1, <3>5, <3>6
  <2>8. Levels(m) <= k + 1
    <3> DEFINE l == k + 1
    <3>1. l \in 1 .. m /\ l - 1 = k
      BY <2>4
    <3>2. d[l - 1] <= Ptrs
      BY <1>0, <2>7, <3>1
    <3> HIDE DEF l, m
    <3>3. Levels(m) <= l
      BY <2>2, <3>1, <3>2
    <3> QED
      BY <3>3 DEF l
  <2>9. PerLevel(k + 1, m) <= 1
    <3> DEFINE x == PerLevel(k, m)
    <3>1. x \in 0 .. 2 /\ k \in Nat
      BY <2>4, <2>6, <2>7
    <3>2. PerLevel(k + 1, m) = CeilDiv(x, Ptrs)
      <4> HIDE DEF m
      <4> QED
        BY <1>1, <3>1, PerLevelNext
    <3> HIDE DEF x
    <3>3. CASE x = 0
      BY <3>2, <3>3, CeilIs
    <3>4. CASE x \in 1 .. 2
      <4>1. x \in 1 .. Ptrs
        BY <1>0, <3>4
      <4> QED
        BY <3>2, <4>1, CeilIs
    <3> QED
      BY <3>1, <3>3, <3>4
  <2> QED
    BY <1>2, <2>8, <2>9 DEF k
<1> QED
  BY <1>3, <1>4, <1>5

\* What the trees over m and n blocks need level by level.
LEMMA PtrBlocksOver ==
  ASSUME NEW n \in Nat, NEW m \in Nat, NEW c \in [0 .. Levels(n) -> Nat], NEW d \in [0 .. Levels(m) -> Nat],
         c[0] = 0, \A i \in 1 .. Levels(n) : c[i] = c[i - 1] + PerLevel(i, n),
         d[0] = 0, \A i \in 1 .. Levels(m) : d[i] = d[i - 1] + PerLevel(i, m),
         NEW k \in Nat, k <= Levels(n), k <= Levels(m)
  PROVE  /\ n <= m => c[k] <= d[k]
         /\ m = n + 1 => d[k] <= c[k] + k
<1>0. Levels(n) \in Nat /\ Levels(m) \in Nat
  BY LevelsFacts
<1> DEFINE Ok(i) == (n <= m => c[i] <= d[i]) /\ (m = n + 1 => d[i] <= c[i] + i)
           T == {i \in 0 .. k : Ok(i)}
<1>1. 0 \in T
  OBVIOUS
<1>2. ASSUME NEW i \in 1 .. k, i - 1 \in T PROVE i \in T
  <2> DEFINE j == i - 1
             x == PerLevel(i, n)
             y == PerLevel(i, m)
  <2>1. j \in 0 .. Levels(n) /\ j \in 0 .. Levels(m) /\ i \in 1 .. Levels(n) /\ i \in 1 .. Levels(m) /\ i \in Nat /\ j \in Nat
    BY <1>0, <1>2
  <2>2. c[i] = c[j] + x /\ d[i] = d[j] + y
    BY <2>1
  <2>3. c[j] \in Nat /\ d[j] \in Nat /\ c[i] \in Nat /\ d[i] \in Nat /\ Ok(j) /\ i = j + 1
    BY <1>2, <2>1
  <2>4. x \in Nat /\ y \in Nat
    BY <2>1, PerLevelFacts
  <2>5. n <= m => x <= y
    BY <2>1, PerLevelFacts
  <2>6. m = n + 1 => y <= x + 1
    BY <2>1, WidthNext
  <2> DEFINE ci == c[i]
             cj == c[j]
             di == d[i]
             dj == d[j]
  <2>7. /\ ci \in Nat /\ cj \in Nat /\ di \in Nat /\ dj \in Nat /\ ci = cj + x /\ di = dj + y
        /\ n <= m => cj <= dj
        /\ m = n + 1 => dj <= cj + j
    BY <2>2, <2>3
  <2> HIDE DEF j, x, y, ci, cj, di, dj
  <2>8. n <= m => ci <= di
    BY <2>4, <2>5, <2>7
  <2>9. m = n + 1 => di <= ci + i
    <3>1. i = j + 1 /\ j \in Nat
      BY <2>1, <2>3
    <3> QED
      BY <2>4, <2>6, <2>7, <3>1
  <2>10. Ok(i)
    BY <2>8, <2>9 DEF ci, di
  <2> QED
    BY <1>2, <2>10
<1>3. \A i \in 0 .. k : i \in T
  <2> HIDE DEF T
  <2> QED
    BY <1>1, <1>2, InductTo
<1>4. Ok(k)
  BY <1>3
<1> QED
  BY <1>4

\* A longer file or directory needs as many pointer blocks or more.
LEMMA PtrBlocksMonotone ==
  ASSUME NEW n \in Nat, NEW m \in Nat, n <= m
  PROVE  PtrBlocks(n) \in Nat /\ PtrBlocks(m) \in Nat /\ PtrBlocks(n) <= PtrBlocks(m)
<1>0. Levels(n) \in Nat /\ Levels(m) \in Nat /\ Levels(n) <= Levels(m)
  BY LevelsMonotone
<1>1. PICK c \in [0 .. Levels(n) -> Nat] :
        /\ c[0] = 0 /\ \A i \in 1 .. Levels(n) : c[i] = c[i - 1] + PerLevel(i, n)
        /\ PtrBlocks(n) = c[Levels(n)]
  BY PtrBlocksRuns
<1>2. PICK d \in [0 .. Levels(m) -> Nat] :
        /\ d[0] = 0 /\ \A i \in 1 .. Levels(m) : d[i] = d[i - 1] + PerLevel(i, m)
        /\ PtrBlocks(m) = d[Levels(m)]
  BY PtrBlocksRuns
<1> DEFINE k == Levels(n)
           l == Levels(m)
<1>3. c[k] <= d[k]
  <2>1. k \in Nat /\ k <= Levels(n) /\ k <= Levels(m)
    BY <1>0
  <2> HIDE DEF k
  <2> QED
    BY <1>1, <1>2, <2>1, PtrBlocksOver
<1>4. d[k] <= d[l]
  <2> DEFINE T == {i \in 0 .. l : i >= k => d[k] <= d[i]}
  <2>1. 0 \in T
    BY <1>0
  <2>2. ASSUME NEW i \in 1 .. l, i - 1 \in T PROVE i \in T
    <3>1. CASE i <= k
      BY <1>0, <3>1
    <3>2. CASE i > k
      <4>1. i - 1 >= k /\ d[k] <= d[i - 1] /\ i - 1 \in 0 .. l /\ k \in 0 .. l /\ i \in Nat
        BY <1>0, <2>2, <3>2
      <4>2. d[i] = d[i - 1] + PerLevel(i, m)
        BY <1>2
      <4>3. PerLevel(i, m) \in Nat
        BY <4>1, PerLevelFacts
      <4>4. d[k] \in Nat /\ d[i] \in Nat /\ d[i - 1] \in Nat
        BY <1>0, <4>1
      <4> DEFINE x == PerLevel(i, m)
      <4> HIDE DEF x, k, l
      <4>5. d[k] <= d[i]
        BY <4>1, <4>2, <4>3, <4>4 DEF x
      <4> QED
        BY <4>5 DEF k, l
    <3> QED
      BY <1>0, <3>1, <3>2
  <2>3. \A i \in 0 .. l : i \in T
    <3> HIDE DEF T
    <3> QED
      BY <1>0, <2>1, <2>2, InductTo
  <2> QED
    BY <1>0, <2>3
<1>5. c[k] \in Nat /\ d[k] \in Nat /\ d[l] \in Nat
  BY <1>0
<1> QED
  BY <1>1, <1>2, <1>3, <1>4, <1>5

\* One more block adds at most a pointer block to each level, and a root.
LEMMA GrowBound ==
  ASSUME NEW n \in Nat
  PROVE  PtrBlocks(n + 1) <= PtrBlocks(n) + Levels(n) + 1
<1> DEFINE m == n + 1
           k == Levels(n)
           l == Levels(m)
<1>0. m \in Nat /\ k \in Nat /\ l \in k .. (k + 1) /\ (l = k + 1 => PerLevel(k + 1, m) <= 1)
  BY LevelsNext
<1>1. PICK c \in [0 .. Levels(n) -> Nat] :
        /\ c[0] = 0 /\ \A i \in 1 .. Levels(n) : c[i] = c[i - 1] + PerLevel(i, n)
        /\ PtrBlocks(n) = c[Levels(n)]
  BY PtrBlocksRuns
<1>2. PICK d \in [0 .. Levels(m) -> Nat] :
        /\ d[0] = 0 /\ \A i \in 1 .. Levels(m) : d[i] = d[i - 1] + PerLevel(i, m)
        /\ PtrBlocks(m) = d[Levels(m)]
  <2> HIDE DEF m
  <2> QED
    BY <1>0, PtrBlocksRuns
<1>3. d[k] <= c[k] + k
  <2>1. k <= Levels(n) /\ k <= Levels(m)
    BY <1>0
  <2>2. m = n + 1
    OBVIOUS
  <2> HIDE DEF m, k
  <2> QED
    BY <1>0, <1>1, <1>2, <2>1, <2>2, PtrBlocksOver
<1>4. c[k] \in Nat /\ d[k] \in Nat /\ d[l] \in Nat
  BY <1>0
<1>5. d[l] <= d[k] + 1
  <2>1. CASE l = k
    BY <1>4, <2>1
  <2>2. CASE l = k + 1
    <3>1. k + 1 \in 1 .. l /\ (k + 1) - 1 = k
      BY <1>0, <2>2
    <3>2. d[k + 1] = d[(k + 1) - 1] + PerLevel(k + 1, m)
      BY <1>2, <3>1
    <3>3. PerLevel(k + 1, m) \in Nat
      <4> DEFINE j == k + 1
      <4>1. j \in Nat /\ m \in Nat /\ m <= m
        BY <1>0
      <4> HIDE DEF j, m
      <4>2. PerLevel(j, m) \in Nat
        BY <4>1, PerLevelFacts
      <4> QED
        BY <4>2 DEF j
    <3> DEFINE x == PerLevel(k + 1, m)
               y == d[k]
               z == d[l]
    <3>4. x \in Nat /\ x <= 1 /\ y \in Nat /\ z \in Nat /\ z = y + x
      BY <1>0, <1>4, <2>2, <3>1, <3>2, <3>3
    <3> HIDE DEF x, y, z
    <3>5. z <= y + 1
      BY <3>4
    <3> QED
      BY <3>5 DEF y, z
  <2> QED
    BY <1>0, <2>1, <2>2
<1> DEFINE x == d[k]
           y == c[k]
           z == d[l]
<1>6. x \in Nat /\ y \in Nat /\ z \in Nat /\ z <= x + 1 /\ x <= y + k /\ k \in Nat
  BY <1>0, <1>3, <1>4, <1>5
<1>7. PtrBlocks(n + 1) = z /\ PtrBlocks(n) = y
  BY <1>1, <1>2
<1> HIDE DEF x, y, z
<1>8. z <= y + k + 1
  BY <1>6
<1> QED
  BY <1>7, <1>8

\* Not more blocks are in use than the disk has.
LEMMA UsedFacts ==
  ASSUME NEW a, AmOK(a)
  PROVE  a.used \in Nat /\ a.reserved \in Nat /\ Total \in Nat /\ a.used <= Total
<1>1. /\ a.used \in Nat /\ a.reserved \in Nat /\ a.used = Cardinality(a.map) /\ a.map \subseteq OnDisk
      /\ Total \in Nat /\ Total >= 2 /\ OnDisk = 0 .. (Total - 1)
  BY AmFacts, Sizes
<1>2. 0 \in Int /\ Total - 1 \in Int
  BY <1>1
<1>3. IsFiniteSet(OnDisk) /\ Cardinality(OnDisk) = Total
  <2> DEFINE t == Total - 1
  <2>1. t \in Int /\ OnDisk = 0 .. t /\ t >= 0 /\ Total = t - 0 + 1
    BY <1>1
  <2> HIDE DEF t
  <2>2. IsFiniteSet(0 .. t) /\ Cardinality(0 .. t) = IF 0 > t THEN 0 ELSE t - 0 + 1
    BY <1>2, <2>1, FS_Interval
  <2> QED
    BY <2>1, <2>2
<1>4. Cardinality(a.map) <= Cardinality(OnDisk)
  BY <1>1, <1>3, FS_Subset
<1> QED
  BY <1>1, <1>3, <1>4

\* Setting aside never takes more than one block beyond what the tree already
\* has, if a write is not longer than a pointer block.
LEMMA ReserveBound ==
  ASSUME NEW o \in Nat, o >= 2, NEW n \in Nat, n <= Ptrs, o + n <= Ptrs * Ptrs
  PROVE  Reserve(o, n) <= PtrBlocks(o) + 1
<1>0. Ptrs \in Nat /\ Ptrs >= 2
  BY Sizes
<1> DEFINE m == o + n
           q == Ptrs * Ptrs
<1>1. m \in Nat /\ m >= 2 /\ q \in Nat /\ m <= q /\ o <= m /\ m <= o + Ptrs
  BY <1>0
<1> HIDE DEF q
<1>2. o <= q
  BY <1>1
<1>3. Reserve(o, n) = PtrBlocks(m) - PtrBlocks(o)
  BY <1>1, ReserveExact DEF q
<1> HIDE DEF m
<1>4. PtrBlocks(o) \in Nat /\ PtrBlocks(m) \in Nat
  BY <1>1, PtrBlocksFacts
<1>5. CASE o <= Ptrs
  <2>1. PtrBlocks(o) = 1
    BY <1>5, SmallTrees
  <2>2. PtrBlocks(m) <= 3
    <3>1. CASE m <= Ptrs
      <4>1. PtrBlocks(m) = 1
        BY <1>1, <3>1, SmallTrees
      <4> QED
        BY <4>1
    <3>2. CASE Ptrs < m
      <4>1. m <= 2 * Ptrs
        BY <1>0, <1>1, <1>5
      <4>2. CeilDiv(m, Ptrs) = 2
        BY <1>1, <3>2, <4>1, CeilIs
      <4>3. PtrBlocks(m) = CeilDiv(m, Ptrs) + 1
        BY <1>1, <3>2, SmallTrees DEF q
      <4> QED
        BY <4>2, <4>3
    <3> QED
      BY <1>0, <1>1, <3>1, <3>2
  <2> QED
    BY <1>3, <1>4, <2>1, <2>2
<1>6. CASE Ptrs < o
  <2> DEFINE x == CeilDiv(o, Ptrs)
             y == CeilDiv(m, Ptrs)
  <2>1. PtrBlocks(o) = x + 1
    BY <1>2, <1>6, SmallTrees DEF q
  <2>2. Ptrs < m
    BY <1>0, <1>1, <1>6
  <2>3. PtrBlocks(m) = y + 1
    BY <1>1, <2>2, SmallTrees DEF q
  <2>4. x \in Nat /\ y \in Nat /\ y <= x + 1
    BY <1>1, CeilPlus
  <2> HIDE DEF x, y
  <2> QED
    BY <1>3, <2>1, <2>3, <2>4
<1> QED
  BY <1>0, <1>5, <1>6

\* What reserve_meta_blocks sets aside before a write, here with R, is enough for
\* the pointer blocks after it: u blocks are in use before the write, which adds
\* n blocks to o and gets k.
LEMMA WriteRoom ==
  ASSUME NEW o \in Nat, NEW n \in Nat, NEW k \in Nat, k <= n, n <= Ptrs, o + n <= Ptrs * Ptrs,
         NEW u \in Nat, u < Total, NEW R, R = IF o + n > 1 THEN Reserve(o, n) ELSE 0,
         k > 0 => u + k + R <= Total, k = 0 => o > 0
  PROVE  /\ PtrBlocks(o) \in Nat /\ PtrBlocks(o + k) \in Nat
         /\ u + k + PtrBlocks(o + k) <= Total + PtrBlocks(o)
         /\ PtrBlocks(o + k) = 0 \/ u + k + R <= Total + PtrBlocks(o)
<1>0. Ptrs \in Nat /\ Ptrs >= 2 /\ Total \in Nat /\ o + k \in Nat /\ o + n \in Nat
  BY Sizes
<1> DEFINE po == PtrBlocks(o)
           pk == PtrBlocks(o + k)
           pn == PtrBlocks(o + n)
<1>1. po \in Nat /\ pk \in Nat /\ pn \in Nat
  BY <1>0, PtrBlocksFacts
<1>2. CASE o + n < 2
  <2>1. R = 0 /\ o < 2 /\ o + k < 2
    BY <1>2
  <2>2. po = 0 /\ pk = 0
    <3> DEFINE m == o + k
    <3>1. m \in Nat /\ m < 2
      BY <1>0, <2>1
    <3> HIDE DEF m
    <3>2. PtrBlocks(m) = 0 /\ PtrBlocks(o) = 0
      BY <2>1, <3>1, SmallTrees
    <3> QED
      BY <3>2 DEF m
  <2> HIDE DEF po, pk, pn
  <2>3. u + k <= Total
    BY <1>0, <2>1
  <2>4. u + k + pk <= Total + po
    BY <1>0, <2>2, <2>3
  <2> QED
    BY <1>1, <2>2, <2>4 DEF po, pk
<1>3. CASE o + n >= 2
  <2>1. R = pn - po
    BY <1>3, ReserveExact
  <2>2. pk <= pn
    <3> DEFINE m == o + k
               l == o + n
    <3>1. m \in Nat /\ l \in Nat /\ m <= l
      OBVIOUS
    <3> HIDE DEF m, l
    <3>2. PtrBlocks(m) <= PtrBlocks(l)
      BY <3>1, PtrBlocksMonotone
    <3> QED
      BY <3>2 DEF m, l
  <2>3. CASE k > 0
    <3> HIDE DEF po, pk, pn
    <3>1. u + k + R <= Total
      BY <2>3
    <3>2. u + k + pk <= Total + po /\ u + k + R <= Total + po
      BY <1>0, <1>1, <2>1, <2>2, <3>1
    <3> QED
      BY <1>1, <3>2 DEF po, pk
  <2>4. CASE k = 0
    <3>1. pk = po
      <4>1. o + k = o
        BY <2>4
      <4> QED
        BY <4>1
    <3>2. o = 1 => po = 0
      BY SmallTrees
    <3>3. o >= 2 => R <= po + 1
      BY <1>3, <2>1, ReserveBound
    <3> HIDE DEF po, pk, pn
    <3>4. u + k + pk <= Total + po
      BY <1>0, <1>1, <2>4, <3>1
    <3>5. pk = 0 \/ u + k + R <= Total + po
      <4>1. CASE o = 1
        BY <3>1, <3>2, <4>1
      <4>2. CASE o >= 2
        <5>1. R <= po + 1
          BY <3>3, <4>2
        <5> QED
          BY <1>0, <1>1, <2>1, <2>4, <5>1
      <4> QED
        BY <2>4, <4>1, <4>2
    <3> QED
      BY <1>1, <3>4, <3>5 DEF po, pk
  <2> QED
    BY <2>3, <2>4
<1> QED
  BY <1>0, <1>2, <1>3

-----------------------------------------------------------------------------
(* States that are put together from their parts.                          *)

IsFun(f) == f = [x \in DOMAIN f |-> f[x]]
IsDir(d) == d = [list |-> d.list, ptrs |-> d.ptrs]
IsCache(c) == c = [map |-> c.map, max |-> c.max] /\ IsFun(c.map)

State(a, d, e, n, l, c, o) ==
  [am |-> a, dir |-> d, ents |-> e, files |-> n, label |-> l, cache |-> c, open |-> o]

\* A record of parts of the right form is a state with these parts.
LEMMA StateFacts ==
  ASSUME NEW a, NEW d, IsDir(d), NEW e, IsFun(e), NEW n, NEW l, NEW c, IsCache(c), NEW o
  PROVE  /\ IsState(State(a, d, e, n, l, c, o))
         /\ State(a, d, e, n, l, c, o).am = a /\ State(a, d, e, n, l, c, o).dir = d
         /\ State(a, d, e, n, l, c, o).ents = e /\ State(a, d, e, n, l, c, o).files = n
         /\ State(a, d, e, n, l, c, o).label = l /\ State(a, d, e, n, l, c, o).cache = c
         /\ State(a, d, e, n, l, c, o).open = o
<1> DEFINE u == State(a, d, e, n, l, c, o)
<1>1. /\ u.am = a /\ u.dir = d /\ u.ents = e /\ u.files = n /\ u.label = l /\ u.cache = c /\ u.open = o
  BY DEF State
<1>2. u = [am |-> u.am, dir |-> u.dir, ents |-> u.ents, files |-> u.files, label |-> u.label,
           cache |-> u.cache, open |-> u.open]
  BY DEF State
<1> HIDE DEF u
<1>3. IsDir(u.dir) /\ IsFun(u.ents) /\ IsCache(u.cache)
  BY <1>1, Zenon
<1>4. /\ u.dir = [list |-> u.dir.list, ptrs |-> u.dir.ptrs]
      /\ u.cache = [map |-> u.cache.map, max |-> u.cache.max]
      /\ u.ents = [x \in DOMAIN u.ents |-> u.ents[x]]
      /\ u.cache.map = [x \in DOMAIN u.cache.map |-> u.cache.map[x]]
  BY <1>3, Zenon DEF IsDir, IsFun, IsCache
<1>5. IsState(u)
  BY <1>2, <1>4 DEF IsState
<1> QED
  BY <1>1, <1>5 DEF u

\* A state is the record of its parts.
LEMMA StateParts ==
  ASSUME NEW w, IsState(w)
  PROVE  /\ w = State(w.am, w.dir, w.ents, w.files, w.label, w.cache, w.open)
         /\ IsDir(w.dir) /\ IsFun(w.ents) /\ IsCache(w.cache)
<1>1. w = State(w.am, w.dir, w.ents, w.files, w.label, w.cache, w.open)
  BY DEF IsState, State
<1>2. IsDir(w.dir) /\ IsFun(w.ents)
  BY Zenon DEF IsState, IsDir, IsFun
<1>3. IsCache(w.cache)
  BY Zenon DEF IsState, IsCache, IsFun
<1> QED
  BY <1>1, <1>2, <1>3

-----------------------------------------------------------------------------
(* Positions in the directory.                                             *)

\* A position is in one of the blocks.
LEMMA PosFacts ==
  ASSUME NEW m \in Nat, NEW p \in Slots .. ((m + 1) * Slots - 1)
  PROVE  /\ p \div Slots \in 1 .. m /\ p % Slots \in 0 .. (Slots - 1)
         /\ p = (p \div Slots) * Slots + (p % Slots) /\ p \in Nat
<1> DEFINE q == p \div Slots
           r == p % Slots
<1>1. Slots \in Nat \ {0} /\ p \in Nat
  BY Sizes
<1>2. q \in Nat /\ r \in 0 .. (Slots - 1) /\ p = q * Slots + r
  BY <1>1, DivFacts
<1> HIDE DEF q, r
<1>3. p >= Slots /\ p <= (m + 1) * Slots - 1 /\ (m + 1) * Slots \in Int
  BY <1>1
<1>4. ASSUME q = 0 PROVE FALSE
  BY <1>1, <1>2, <1>3, <1>4
<1>5. ASSUME q >= m + 1 PROVE FALSE
  <2>1. q * Slots >= (m + 1) * Slots
    BY <1>1, <1>2, <1>5
  <2>2. q * Slots \in Int
    BY <1>1, <1>2
  <2> QED
    BY <1>1, <1>2, <1>3, <2>1, <2>2
<1>6. q \in 1 .. m
  BY <1>2, <1>4, <1>5
<1> QED
  BY <1>1, <1>2, <1>6 DEF q, r

\* The slots of a list of different blocks are different.
LEMMA AtFacts ==
  ASSUME NEW l \in Seq(Bits), IsInjective(l), 0 \notin Range(l), NEW p \in Slots .. ((Len(l) + 1) * Slots - 1)
  PROVE  /\ At(l, p) \in Addrs /\ At(l, p) # NoAddr /\ At(l, p)[1] \in Range(l) /\ At(l, p)[2] = p % Slots
         /\ At(l, p)[1] = l[p \div Slots]
         /\ \A q \in Slots .. ((Len(l) + 1) * Slots - 1) : At(l, p) = At(l, q) => p = q
<1> DEFINE m == Len(l)
<1>1. m \in Nat /\ DOMAIN l = 1 .. m /\ \A i \in 1 .. m : l[i] \in Bits /\ l[i] \in Range(l)
  BY DEF Range
<1> HIDE DEF m
<1>2. p \in Slots .. ((m + 1) * Slots - 1)
  BY DEF m
<1>3. p \div Slots \in 1 .. m /\ p % Slots \in 0 .. (Slots - 1)
  BY <1>1, <1>2, PosFacts
<1>4. ASSUME NEW q \in Slots .. ((m + 1) * Slots - 1), At(l, p) = At(l, q) PROVE p = q
  <2>1. /\ p \div Slots \in 1 .. m /\ p = (p \div Slots) * Slots + (p % Slots)
        /\ q \div Slots \in 1 .. m /\ q = (q \div Slots) * Slots + (q % Slots)
    BY <1>1, <1>2, PosFacts
  <2>2. l[p \div Slots] = l[q \div Slots] /\ p % Slots = q % Slots
    BY <1>4 DEF At
  <2> DEFINE x == p \div Slots
             y == q \div Slots
             r == p % Slots
             s == q % Slots
  <2>3. x \in 1 .. m /\ y \in 1 .. m /\ l[x] = l[y]
    BY <2>1, <2>2
  <2>4. x = y
    <3> HIDE DEF x, y
    <3> QED
      BY <1>1, <2>3 DEF IsInjective
  <2>5. p = x * Slots + r /\ q = y * Slots + s /\ r = s
    BY <2>1, <2>2
  <2> HIDE DEF x, y, r, s
  <2> QED
    BY <2>4, <2>5
<1>5. l[p \div Slots] \in Bits /\ l[p \div Slots] \in Range(l) /\ l[p \div Slots] # 0
  BY <1>1, <1>3
<1>6. At(l, p)[1] = l[p \div Slots] /\ At(l, p)[2] = p % Slots
  BY DEF At
<1>7. At(l, p) \in Addrs
  BY <1>3, <1>5 DEF At, Addrs
<1>8. At(l, p) # NoAddr
  BY <1>5, <1>6 DEF NoAddr
<1> QED
  BY <1>4, <1>5, <1>6, <1>7, <1>8 DEF m

\* Where entries may be and where they are.
LEMMA Ranges ==
  ASSUME NEW l, NEW e, NEW n, DirOK(l, e, n)
  PROVE  /\ First \in Nat /\ (Len(l) + 1) * Slots \in Nat /\ Len(l) \in Nat /\ n \in Nat
         /\ First + n <= (Len(l) + 1) * Slots
         /\ First .. ((Len(l) + 1) * Slots - 1) \subseteq Slots .. ((Len(l) + 1) * Slots - 1)
         /\ First .. (First + n - 1) \subseteq First .. ((Len(l) + 1) * Slots - 1)
         /\ (Len(l) + 1) * Slots = Len(l) * Slots + Slots
<1> DEFINE m == Len(l)
           k == m * Slots
<1>1. m \in Nat /\ n \in Nat /\ Slots \in Nat /\ n + 2 <= k
  BY Sizes DEF DirOK
<1>2. k \in Nat /\ (m + 1) * Slots = k + Slots
  BY <1>1
<1> HIDE DEF m, k
<1>3. First \in Nat /\ First + n <= k + Slots
  BY <1>1, <1>2 DEF First
<1>4. First .. (k + Slots - 1) \subseteq Slots .. (k + Slots - 1)
  BY <1>1, <1>2 DEF First
<1>5. First .. (First + n - 1) \subseteq First .. (k + Slots - 1)
  BY <1>1, <1>2, <1>3
<1> QED
  BY <1>1, <1>2, <1>3, <1>4, <1>5 DEF m, k

\* Of the slots for files, the first ones hold entries and no others; the
\* address of none is not among them.
LEMMA PlacesFacts ==
  ASSUME NEW l, NEW e, NEW n, DirOK(l, e, n)
  PROVE  /\ \A p \in First .. ((Len(l) + 1) * Slots - 1) : At(l, p) \in DOMAIN e <=> p < First + n
         /\ NoAddr \notin DOMAIN e /\ DOMAIN e \subseteq Addrs
         /\ \A a \in DOMAIN e : a[1] \in Range(l)
<1>1. l \in Seq(Bits) /\ IsInjective(l) /\ 0 \notin Range(l) /\ DOMAIN e = Places(l, n)
  BY DEF DirOK
<1> DEFINE P == Slots .. ((Len(l) + 1) * Slots - 1)
           Q == First .. ((Len(l) + 1) * Slots - 1)
<1>2. Q \subseteq P /\ First .. (First + n - 1) \subseteq Q /\ First \in Nat /\ n \in Nat
  BY Ranges
<1>3. \A p \in P : /\ At(l, p) \in Addrs /\ At(l, p) # NoAddr /\ At(l, p)[1] \in Range(l)
                   /\ \A q \in P : At(l, p) = At(l, q) => p = q
  BY <1>1, AtFacts
<1>4. \A p \in Q : p \in Int
  OBVIOUS
<1> HIDE DEF P, Q
<1>5. ASSUME NEW p \in Q PROVE At(l, p) \in DOMAIN e <=> p < First + n
  <2>1. ASSUME At(l, p) \in DOMAIN e PROVE p < First + n
    <3>1. PICK q \in First .. (First + n - 1) : At(l, p) = At(l, q)
      BY <1>1, <2>1 DEF Places
    <3>2. p = q
      BY <1>2, <1>3, <3>1
    <3> QED
      BY <1>2, <3>2
  <2>2. ASSUME p < First + n PROVE At(l, p) \in DOMAIN e
    <3>1. p \in First .. (First + n - 1)
      BY <1>2, <1>4, <2>2 DEF Q
    <3> QED
      BY <1>1, <3>1 DEF Places
  <2> QED
    BY <2>1, <2>2
<1>6. ASSUME NEW a \in DOMAIN e PROVE a # NoAddr /\ a \in Addrs /\ a[1] \in Range(l)
  <2>1. PICK q \in First .. (First + n - 1) : a = At(l, q)
    BY <1>1 DEF Places
  <2> QED
    BY <1>2, <1>3, <2>1
<1> QED
  BY <1>5, <1>6 DEF Q

\* A walk reaches all entries, and nothing else.
LEMMA WalkedIs ==
  ASSUME NEW w, DirOK(w.dir.list, w.ents, w.files)
  PROVE  Walked(w) = First .. (First + w.files - 1)
<1> DEFINE l == w.dir.list
           n == w.files
           P == First .. ((Len(l) + 1) * Slots - 1)
           U == {p \in P : PosAddr(w, p) \in DOMAIN w.ents}
<1>1. Positions(w) = P
  BY DEF Positions, First
<1> HIDE DEF U
<1>2. First .. (First + n - 1) \subseteq P /\ First \in Nat /\ n \in Nat /\ \A p \in P : p \in Int
  <2>1. First .. (First + n - 1) \subseteq P /\ First \in Nat /\ n \in Nat
    <3> HIDE DEF l, n
    <3>1. DirOK(l, w.ents, n)
      BY DEF l, n
    <3> QED
      BY <3>1, Ranges
  <2>2. \A p \in P : p \in Int
    <3> HIDE DEF l
    <3> QED
      OBVIOUS
  <2> QED
    BY <2>1, <2>2
<1> USE DEF U
<1>3. \A p \in P : PosAddr(w, p) = At(l, p)
  BY DEF PosAddr, At
<1>4. \A p \in P : At(l, p) \in DOMAIN w.ents <=> p < First + n
  BY PlacesFacts
<1>5. Walked(w) = {p \in U : Before(P, p) \subseteq U}
  BY <1>1 DEF Walked
<1>6. P \subseteq {p \in Int : p >= First}
  <2>1. First \in Int /\ (Len(l) + 1) * Slots - 1 \in Int
    BY Ranges
  <2> QED
    BY <2>1
<1> HIDE DEF P, l, n
<1>7. U = First .. (First + n - 1)
  <2>1. \A p \in P : p \in U <=> p < First + n
    BY <1>3, <1>4
  <2>2. U \subseteq P
    OBVIOUS
  <2> HIDE DEF U
  <2>3. ASSUME NEW p \in U PROVE p \in First .. (First + n - 1)
    <3>1. p \in Int /\ p >= First /\ p < First + n
      BY <1>6, <2>1, <2>2
    <3> QED
      BY <1>2, <3>1
  <2>4. ASSUME NEW p \in First .. (First + n - 1) PROVE p \in U
    <3>1. p \in P /\ p < First + n
      BY <1>2
    <3> QED
      BY <2>1, <3>1
  <2> QED
    BY <2>3, <2>4
<1> HIDE DEF U
<1>8. ASSUME NEW p \in U, NEW q \in Before(P, p) PROVE q \in U
  <2>1. q \in Int /\ q >= First /\ q < p
    BY <1>6 DEF Before
  <2>2. p \in Int /\ p <= First + n - 1
    BY <1>2, <1>7
  <2>3. q \in First .. (First + n - 1)
    BY <1>2, <2>1, <2>2
  <2> QED
    BY <1>7, <2>3
<1> QED
  BY <1>5, <1>7, <1>8 DEF n

\* The address of the entry with a name, or none.
LEMMA WalkFacts ==
  ASSUME NEW w, DirOK(w.dir.list, w.ents, w.files), NEW n
  PROVE  \/ Walk(w, n) = NoAddr /\ \A a \in DOMAIN w.ents : w.ents[a].name # n
         \/ Walk(w, n) \in DOMAIN w.ents /\ w.ents[Walk(w, n)].name = n
<1> DEFINE l == w.dir.list
           R == First .. (First + w.files - 1)
           M == {p \in R : w.ents[PosAddr(w, p)].name = n}
<1>1. Walked(w) = R
  BY WalkedIs
<1>2. Walk(w, n) = IF M = {} THEN NoAddr ELSE PosAddr(w, Min(M))
  BY <1>1 DEF Walk, AtPos
<1>3. DOMAIN w.ents = {PosAddr(w, p) : p \in R}
  <2>1. \A p \in R : PosAddr(w, p) = At(l, p)
    BY DEF PosAddr, At
  <2> QED
    BY <2>1 DEF DirOK, Places
<1>4. R \subseteq Nat
  BY Ranges
<1> HIDE DEF R
<1>5. CASE M = {}
  BY <1>2, <1>3, <1>5
<1>6. CASE M # {}
  <2>1. M \in SUBSET Nat
    BY <1>4
  <2>2. Min(M) \in M
    <3> HIDE DEF M
    <3> QED
      BY <1>6, <2>1, MinFacts
  <2> QED
    BY <1>2, <1>3, <1>6, <2>2
<1> QED
  BY <1>5, <1>6

\* The first slot that is empty.
LEMMA EmptyFacts ==
  ASSUME NEW w, DirOK(w.dir.list, w.ents, w.files)
  PROVE  EmptySlot(w) = IF First + w.files < (Len(w.dir.list) + 1) * Slots
                        THEN At(w.dir.list, First + w.files) ELSE NoAddr
<1> DEFINE l == w.dir.list
           n == w.files
           e == First + n
           T == (Len(l) + 1) * Slots
           P == First .. (T - 1)
           U == First .. (e - 1)
           E == {p \in P \ U : Before(P, p) \subseteq U}
<1>1. First \in Nat /\ T \in Nat /\ n \in Nat /\ e <= T /\ e \in Nat
  BY Ranges
<1>2. Positions(w) = P
  BY DEF Positions, First
<1>3. Walked(w) = U
  <2>1. Walked(w) = First .. (First + w.files - 1)
    BY WalkedIs
  <2>2. First + w.files - 1 = e - 1
    BY <1>1
  <2> QED
    BY <2>1, <2>2, Zenon
<1>4. EmptySlot(w) = IF E = {} THEN NoAddr ELSE PosAddr(w, Min(E))
  BY <1>2, <1>3 DEF EmptySlot, AtPos
<1> HIDE DEF T, e
<1>5. \A p \in P \ U : p >= e
  BY <1>1
<1>6. CASE e < T
  <2>1. e \in P \ U
    BY <1>1, <1>6 DEF e
  <2>2. Before(P, e) \subseteq U
    BY <1>1 DEF Before
  <2>3. e \in E
    BY <2>1, <2>2
  <2>4. E \in SUBSET Nat /\ \A p \in E : p >= e
    BY <1>1, <1>5
  <2> HIDE DEF E
  <2>5. Min(E) \in E /\ Min(E) <= e
    BY <2>3, <2>4, MinFacts
  <2>6. Min(E) = e
    <3> DEFINE k == Min(E)
    <3>1. k \in Nat /\ k >= e /\ k <= e
      BY <2>4, <2>5
    <3> HIDE DEF k
    <3>2. k = e
      BY <1>1, <3>1
    <3> QED
      BY <3>2 DEF k
  <2>7. EmptySlot(w) = PosAddr(w, e)
    BY <1>4, <2>3, <2>6
  <2>8. PosAddr(w, e) = At(l, e)
    BY DEF PosAddr, At
  <2> QED
    BY <1>6, <2>7, <2>8 DEF e, T
<1>7. CASE ~(e < T)
  <2>1. P \ U = {}
    BY <1>1, <1>5, <1>7
  <2>2. EmptySlot(w) = NoAddr
    BY <1>4, <2>1
  <2> QED
    BY <1>7, <2>2 DEF e, T
<1> QED
  BY <1>6, <1>7

\* The last entry is in the last block.
LEMMA LastFacts ==
  ASSUME NEW w, DirOK(w.dir.list, w.ents, w.files), NoEmptyBlock(w.dir.list, w.files), w.files > 0
  PROVE  /\ LastEntry(w) = At(w.dir.list, First + w.files - 1)
         /\ (First + w.files - 1) \div Slots = Len(w.dir.list)
         /\ First + w.files - 1 \in First .. ((Len(w.dir.list) + 1) * Slots - 1)
         /\ LastEntry(w) \in DOMAIN w.ents
<1> DEFINE l == w.dir.list
           n == w.files
           m == Len(l)
           e == First + n - 1
           T == (m + 1) * Slots
           k == m * Slots
           P == First .. (T - 1)
           L == {p \in P : p \div Slots = m /\ PosAddr(w, p) \in DOMAIN w.ents}
<1>1. First \in Nat /\ T \in Nat /\ n \in Nat /\ First + n <= T /\ m \in Nat /\ T = k + Slots
  BY Ranges
<1>2. First = Slots + 2 /\ Slots \in Nat \ {0} /\ m >= 1 /\ k \in Nat
  BY <1>1, Sizes DEF First, DirOK
<1>3. e \in Nat /\ e < T /\ e >= First /\ e \in P
  BY <1>1
<1>4. k <= e
  <2>1. CASE m = 1
    <3>1. k = Slots
      BY <1>2, <2>1
    <3> HIDE DEF k
    <3> QED
      BY <1>1, <1>2, <3>1
  <2>2. CASE m > 1
    <3>1. k < First + n
      BY <2>2 DEF NoEmptyBlock
    <3> HIDE DEF k
    <3> QED
      BY <1>1, <1>2, <3>1
  <2> QED
    BY <1>1, <1>2, <2>1, <2>2
<1>5. e \div Slots = m
  <2> DEFINE r == e - k
  <2> HIDE DEF e, k
  <2>1. r \in 0 .. (Slots - 1)
    BY <1>1, <1>2, <1>3, <1>4
  <2>2. (m * Slots + r) \div Slots = m
    BY <1>1, <1>2, <2>1, DivIs
  <2>3. m * Slots + r = e
    BY <1>2, <1>3 DEF k
  <2> QED
    BY <2>2, <2>3
<1>6. Positions(w) = P
  BY DEF Positions, First
<1>7. \A p \in P : PosAddr(w, p) = At(l, p)
  BY DEF PosAddr, At
<1>8. \A p \in P : At(l, p) \in DOMAIN w.ents <=> p < First + n
  BY PlacesFacts
<1>9. LastEntry(w) = IF L = {} THEN NoAddr ELSE PosAddr(w, Max(L))
  BY <1>6 DEF LastEntry
<1>10. e \in L
  <2>1. e < First + n
    BY <1>1
  <2>2. PosAddr(w, e) \in DOMAIN w.ents
    BY <1>3, <1>7, <1>8, <2>1, Zenon
  <2> QED
    BY <1>3, <1>5, <2>2, Zenon
<1>11. L \in SUBSET Nat /\ \A p \in L : p <= e
  BY <1>1, <1>7, <1>8
<1> HIDE DEF L, e
<1>12. Max(L) \in L /\ e <= Max(L)
  BY <1>3, <1>10, <1>11, MaxFacts
<1>13. Max(L) = e
  <2> DEFINE x == Max(L)
  <2>1. x \in Nat /\ x <= e /\ e <= x
    BY <1>11, <1>12
  <2> HIDE DEF x
  <2>2. x = e
    BY <1>3, <2>1
  <2> QED
    BY <2>2 DEF x
<1>14. LastEntry(w) = At(l, e)
  BY <1>3, <1>7, <1>9, <1>10, <1>13
<1>15. At(l, e) \in DOMAIN w.ents
  BY <1>1, <1>3, <1>8 DEF e
<1> QED
  BY <1>3, <1>5, <1>14, <1>15 DEF e, T

-----------------------------------------------------------------------------
(* Lookups and the cache of addresses.                                     *)

\* A state that differs from another one in the cache at most
ButCache(w, v) ==
  /\ v.am = w.am /\ v.dir = w.dir /\ v.ents = w.ents /\ v.files = w.files
  /\ v.label = w.label /\ v.open = w.open

\* A consistent disk stays so when only the cache changes and is right.
LEMMA CacheStep ==
  ASSUME NEW w, DiskOK(w), NEW v, IsState(v), ButCache(w, v), CacheOK(v.cache.map, v.ents)
  PROVE  DiskOK(v)
BY DEF DiskOK, ButCache

\* So does all that holds between operations.
LEMMA CacheStepGood ==
  ASSUME NEW w, Good(w), NEW v, DiskOK(v), ButCache(w, v)
  PROVE  Good(v)
BY DEF Good, ButCache

\* lookup_file finds the entry with a name, if there is one, in the cache or
\* by a walk through the directory.
LEMMA FoundFacts ==
  ASSUME NEW w, DiskOK(w), NEW n
  PROVE  \/ Found(w, n) = NoAddr /\ \A a \in DOMAIN w.ents : w.ents[a].name # n
         \/ Found(w, n) \in DOMAIN w.ents /\ w.ents[Found(w, n)].name = n
<1>1. CASE Cached(w, n)
  BY <1>1 DEF Cached, Found, DiskOK, CacheOK
<1>2. CASE ~ Cached(w, n)
  <2>1. DirOK(w.dir.list, w.ents, w.files)
    BY DEF DiskOK
  <2>2. Found(w, n) = Walk(w, n)
    BY <1>2 DEF Found
  <2> QED
    BY <2>1, <2>2, WalkFacts
<1> QED
  BY <1>1, <1>2

\* The address that stands for "not found" is not that of an entry.
LEMMA NoAddrFacts ==
  ASSUME NEW w, DiskOK(w)
  PROVE  NoAddr \notin DOMAIN w.ents /\ DOMAIN w.ents \subseteq Addrs
<1>1. DirOK(w.dir.list, w.ents, w.files)
  BY DEF DiskOK
<1> QED
  BY <1>1, PlacesFacts

\* That address is the only one of an entry with the name.
LEMMA TheEntry ==
  ASSUME NEW w, DiskOK(w), NEW a \in DOMAIN w.ents
  PROVE  /\ Found(w, w.ents[a].name) = a
         /\ Walk(w, w.ents[a].name) = a
         /\ \A b \in DOMAIN w.ents : w.ents[b].name = w.ents[a].name => b = a
<1> DEFINE n == w.ents[a].name
<1>1. \A b \in DOMAIN w.ents : w.ents[b].name = n => b = a
  BY DEF DiskOK, EntsOK
<1>2. DirOK(w.dir.list, w.ents, w.files)
  BY DEF DiskOK
<1>3. \/ Walk(w, n) = NoAddr /\ \A b \in DOMAIN w.ents : w.ents[b].name # n
      \/ Walk(w, n) \in DOMAIN w.ents /\ w.ents[Walk(w, n)].name = n
  BY <1>2, WalkFacts
<1>4. \/ Found(w, n) = NoAddr /\ \A b \in DOMAIN w.ents : w.ents[b].name # n
      \/ Found(w, n) \in DOMAIN w.ents /\ w.ents[Found(w, n)].name = n
  BY FoundFacts
<1> QED
  BY <1>1, <1>3, <1>4

\* lookup_file gives the address of the entry with the name; if it gives none,
\* there is none, or the file is unlinked and hidden.
LEMMA LookupFacts ==
  ASSUME NEW w, DiskOK(w), NEW n, NEW hide \in BOOLEAN
  PROVE  /\ Lookup(w, n, hide) # NoAddr =>
              /\ Lookup(w, n, hide) \in DOMAIN w.ents /\ w.ents[Lookup(w, n, hide)].name = n
              /\ Lookup(w, n, hide) = Found(w, n) /\ n \in Names
         /\ Lookup(w, n, hide) = NoAddr /\ ~(hide /\ Unlinked(w, n)) =>
              \A a \in DOMAIN w.ents : w.ents[a].name # n
         /\ Lookup(w, n, FALSE) = Found(w, n)
<1>1. \/ Found(w, n) = NoAddr /\ \A a \in DOMAIN w.ents : w.ents[a].name # n
      \/ Found(w, n) \in DOMAIN w.ents /\ w.ents[Found(w, n)].name = n
  BY FoundFacts
<1>2. \A a \in DOMAIN w.ents : w.ents[a].name \in Names
  BY DEF DiskOK, EntsOK, Entry
<1>3. NoAddr \notin DOMAIN w.ents
  BY NoAddrFacts
<1> QED
  BY <1>1, <1>2, <1>3 DEF Lookup

\* The address of an entry gets into the cache.
LEMMA CacheFstIs ==
  ASSUME NEW w, IsState(w), NEW e, CacheOK(w.cache.map, e), NEW n \in Names, NEW a \in DOMAIN e, e[a].name = n
  PROVE  /\ IsState(CacheFst(w, n, a)) /\ ButCache(w, CacheFst(w, n, a))
         /\ CacheOK(CacheFst(w, n, a).cache.map, e)
<1>1. CASE n \in DOMAIN w.cache.map
  BY <1>1 DEF CacheFst, ButCache
<1>2. CASE n \notin DOMAIN w.cache.map /\ Cardinality(DOMAIN w.cache.map) = w.cache.max - 1
  <2> DEFINE c == [map |-> [x \in {n} |-> a], max |-> MaxCache(w.files)]
             v == [w EXCEPT !.cache = c]
  <2>1. CacheFst(w, n, a) = v
    BY <1>2 DEF CacheFst
  <2>2. c = [map |-> c.map, max |-> c.max] /\ c.map = [x \in DOMAIN c.map |-> c.map[x]]
    OBVIOUS
  <2>3. CacheOK(c.map, e)
    BY DEF CacheOK
  <2> HIDE DEF c
  <2>4. IsState(v) /\ ButCache(w, v) /\ v.cache = c
    BY <2>2 DEF IsState, ButCache
  <2> HIDE DEF v
  <2> QED
    BY <2>1, <2>3, <2>4
<1>3. CASE n \notin DOMAIN w.cache.map /\ ~(Cardinality(DOMAIN w.cache.map) = w.cache.max - 1)
  <2> DEFINE m == Put(w.cache.map, n, a)
             v == [w EXCEPT !.cache.map = m]
  <2>1. CacheFst(w, n, a) = v
    BY <1>3 DEF CacheFst
  <2>2. /\ m = [x \in DOMAIN m |-> m[x]] /\ DOMAIN m = DOMAIN w.cache.map \cup {n} /\ m[n] = a
        /\ \A x \in DOMAIN w.cache.map : m[x] = w.cache.map[x]
    BY <1>3 DEF Put
  <2> HIDE DEF m
  <2>3. CacheOK(m, e)
    BY <2>2 DEF CacheOK
  <2>4. IsState(v) /\ ButCache(w, v) /\ v.cache.map = m
    BY <2>2 DEF IsState, ButCache
  <2> HIDE DEF v
  <2> QED
    BY <2>1, <2>3, <2>4
<1> QED
  BY <1>1, <1>2, <1>3

\* cache_fst_addr keeps the disk consistent and touches nothing but the cache.
LEMMA CacheFstFacts ==
  ASSUME NEW w, DiskOK(w), NEW n \in Names, NEW a \in DOMAIN w.ents, w.ents[a].name = n
  PROVE  DiskOK(CacheFst(w, n, a)) /\ ButCache(w, CacheFst(w, n, a))
<1>1. IsState(w) /\ CacheOK(w.cache.map, w.ents)
  BY DEF DiskOK
<1>2. /\ IsState(CacheFst(w, n, a)) /\ ButCache(w, CacheFst(w, n, a))
      /\ CacheOK(CacheFst(w, n, a).cache.map, w.ents)
  BY <1>1, CacheFstIs
<1> QED
  BY <1>2, CacheStep DEF ButCache

\* So does lookup_file.
LEMMA LookedUpFacts ==
  ASSUME NEW w, DiskOK(w), NEW n, NEW hide \in BOOLEAN
  PROVE  DiskOK(LookedUp(w, n, hide)) /\ ButCache(w, LookedUp(w, n, hide))
<1>1. CASE Lookup(w, n, hide) = NoAddr
  BY <1>1 DEF LookedUp, ButCache
<1>2. CASE Lookup(w, n, hide) # NoAddr
  <2> DEFINE a == Lookup(w, n, hide)
  <2>0. a # NoAddr => a \in DOMAIN w.ents /\ w.ents[a].name = n /\ a = Found(w, n) /\ n \in Names
    BY LookupFacts
  <2>1. /\ Found(w, n) \in DOMAIN w.ents /\ w.ents[Found(w, n)].name = n /\ n \in Names
    BY <1>2, <2>0
  <2>2. LookedUp(w, n, hide) = CacheFst(w, n, Found(w, n))
    BY <1>2, <2>1 DEF LookedUp
  <2> QED
    BY <2>1, <2>2, CacheFstFacts
<1> QED
  BY <1>1, <1>2

\* What is looked up does not depend on the cache.
LEMMA SameLookup ==
  ASSUME NEW w, DiskOK(w), NEW v, DiskOK(v), v.ents = w.ents, v.open = w.open, NEW n, NEW hide \in BOOLEAN
  PROVE  Found(v, n) = Found(w, n) /\ Lookup(v, n, hide) = Lookup(w, n, hide) /\ Unlinked(v, n) = Unlinked(w, n)
<1>1. Found(v, n) = Found(w, n)
  <2>1. \/ Found(w, n) = NoAddr /\ \A a \in DOMAIN w.ents : w.ents[a].name # n
        \/ Found(w, n) \in DOMAIN w.ents /\ w.ents[Found(w, n)].name = n
    BY FoundFacts
  <2>2. \/ Found(v, n) = NoAddr /\ \A a \in DOMAIN w.ents : w.ents[a].name # n
        \/ Found(v, n) \in DOMAIN w.ents /\ w.ents[Found(v, n)].name = n
    <3>1. \/ Found(v, n) = NoAddr /\ \A a \in DOMAIN v.ents : v.ents[a].name # n
          \/ Found(v, n) \in DOMAIN v.ents /\ v.ents[Found(v, n)].name = n
      BY FoundFacts
    <3> QED
      BY <3>1
  <2>3. \A a, b \in DOMAIN w.ents : w.ents[a].name = w.ents[b].name => a = b
    BY DEF DiskOK, EntsOK
  <2> QED
    BY <2>1, <2>2, <2>3
<1>2. Unlinked(v, n) = Unlinked(w, n)
  BY DEF Unlinked, FileOpen
<1> QED
  BY <1>1, <1>2 DEF Lookup

-----------------------------------------------------------------------------
(* Entries and their blocks.                                               *)

\* Putting an entry into the directory gives a function.
LEMMA PutIsFunction ==
  ASSUME NEW e, NEW a, NEW x
  PROVE  Put(e, a, x) = [b \in DOMAIN Put(e, a, x) |-> Put(e, a, x)[b]]
BY DEF Put

\* An entry gets other blocks, and the allocator says so.
LEMMA RewriteFacts ==
  ASSUME NEW w, DiskOK(w), NEW a \in DOMAIN w.ents, NEW new \in Entry,
         new.name = w.ents[a].name, IsInjective(new.data), Range(new.data) \cap new.meta = {},
         NEW v, IsState(v), AmOK(v.am), v.dir = w.dir, v.files = w.files, v.cache = w.cache,
         v.ents = Put(w.ents, a, new),
         ~ v.am.bug => Cardinality(new.meta) = PtrBlocks(Len(new.data)) /\ ~ w.am.bug,
         v.am.map = (w.am.map \ BlocksOf(w.ents[a])) \cup BlocksOf(new),
         BlocksOf(new) \cap (w.am.map \ BlocksOf(w.ents[a])) = {}
  PROVE  DiskOK(v)
<1> DEFINE e == w.ents
           d == v.ents
           B(x) == BlocksOf(x)
<1>1. /\ DirOK(w.dir.list, e, w.files) /\ EntsOK(e, w.am.bug) /\ Owned(w.am.map, w.dir, e)
      /\ CacheOK(w.cache.map, e)
  BY DEF DiskOK
<1>2. DOMAIN d = DOMAIN e /\ d[a] = new /\ \A b \in DOMAIN e : b # a => d[b] = e[b]
  <2>1. DOMAIN e \cup {a} = DOMAIN e
    OBVIOUS
  <2>2. d = Put(e, a, new)
    OBVIOUS
  <2> HIDE DEF d, e
  <2>3. /\ DOMAIN Put(e, a, new) = DOMAIN e \cup {a} /\ Put(e, a, new)[a] = new
        /\ \A b \in DOMAIN e : b # a => Put(e, a, new)[b] = e[b]
    BY DEF Put
  <2> QED
    BY <2>1, <2>2, <2>3
<1> HIDE DEF d
<1>3. \A b \in DOMAIN e : d[b].name = e[b].name
  BY <1>2
<1>4. DirOK(v.dir.list, d, v.files)
  BY <1>1, <1>2 DEF DirOK
<1>5. CacheOK(v.cache.map, d)
  BY <1>1, <1>2, <1>3 DEF CacheOK
<1>6. EntsOK(d, v.am.bug)
  <2>1. ASSUME NEW b \in DOMAIN d
        PROVE  /\ d[b] \in Entry /\ IsInjective(d[b].data) /\ Range(d[b].data) \cap d[b].meta = {}
               /\ ~ v.am.bug => Cardinality(d[b].meta) = PtrBlocks(Len(d[b].data))
    <3>1. CASE b = a
      BY <1>2, <3>1
    <3>2. CASE b # a
      BY <1>1, <1>2, <3>2 DEF EntsOK
    <3> QED
      BY <3>1, <3>2
  <2>2. \A b, c \in DOMAIN d : d[b].name = d[c].name => b = c
    BY <1>1, <1>2, <1>3 DEF EntsOK
  <2> QED
    BY <2>1, <2>2 DEF EntsOK
<1>7. Owned(v.am.map, v.dir, d)
  <2> DEFINE M == w.am.map
             R == M \ B(e[a])
             W == BaseOf(w.dir)
  <2>1. /\ M = W \cup UNION {B(e[b]) : b \in DOMAIN e}
        /\ \A b \in DOMAIN e : B(e[b]) \cap W = {}
        /\ \A b, c \in DOMAIN e : b # c => B(e[b]) \cap B(e[c]) = {}
    BY <1>1 DEF Owned
  <2>2. v.am.map = R \cup B(new) /\ B(new) \cap R = {}
    OBVIOUS
  <2>3. B(d[a]) = B(new) /\ \A b \in DOMAIN e : b # a => B(d[b]) = B(e[b])
    BY <1>2
  <2> HIDE DEF B, W, M
  <2>4. W \subseteq R /\ \A b \in DOMAIN e : b # a => B(e[b]) \subseteq R
    BY <2>1
  <2>5. R = W \cup UNION {B(e[b]) : b \in DOMAIN e \ {a}}
    BY <2>1, <2>4
  <2> HIDE DEF R
  <2>6. v.am.map = W \cup UNION {B(d[b]) : b \in DOMAIN d}
    BY <1>2, <2>2, <2>3, <2>5
  <2>7. \A b \in DOMAIN d : B(d[b]) \cap W = {}
    BY <1>2, <2>1, <2>2, <2>3, <2>4
  <2>8. ASSUME NEW b \in DOMAIN d, NEW c \in DOMAIN d, b # c PROVE B(d[b]) \cap B(d[c]) = {}
    <3>1. CASE b # a /\ c # a
      <4>1. B(d[b]) = B(e[b]) /\ B(d[c]) = B(e[c]) /\ b \in DOMAIN e /\ c \in DOMAIN e
        BY <1>2, <2>3, <3>1
      <4> QED
        BY <2>1, <2>8, <4>1
    <3>2. CASE b = a
      <4>1. B(d[b]) = B(new) /\ B(d[c]) = B(e[c]) /\ B(e[c]) \subseteq R
        BY <1>2, <2>3, <2>4, <2>8, <3>2
      <4> QED
        BY <2>2, <4>1
    <3>3. CASE c = a
      <4>1. B(d[c]) = B(new) /\ B(d[b]) = B(e[b]) /\ B(e[b]) \subseteq R
        BY <1>2, <2>3, <2>4, <2>8, <3>3
      <4> QED
        BY <2>2, <4>1
    <3> QED
      BY <3>1, <3>2, <3>3
  <2> QED
    BY <1>1, <2>6, <2>7, <2>8 DEF Owned, B, W
<1> QED
  BY <1>4, <1>5, <1>6, <1>7 DEF DiskOK, d

\* delete_pointers and rewrite_pointers.
LEMMA RepointFacts ==
  ASSUME NEW a, AmOK(a), NEW fst \in Entry, fst.meta \subseteq a.map, NEW data \in Seq(Bits)
  PROVE  /\ AmOK(Repointed(a, fst, data).am) /\ Repointed(a, fst, data).got \in SUBSET Bits
         /\ Repointed(a, fst, data).got \cap (a.map \ fst.meta) = {}
         /\ Repointed(a, fst, data).am.map = (a.map \ fst.meta) \cup Repointed(a, fst, data).got
         /\ ~ Repointed(a, fst, data).am.bug =>
              Cardinality(Repointed(a, fst, data).got) = PtrBlocks(Len(data)) /\ ~ a.bug
         /\ /\ ~ a.bug /\ a.used + PtrBlocks(Len(data)) <= Total + Cardinality(fst.meta)
            /\ PtrBlocks(Len(data)) = 0 \/ a.used + a.reserved <= Total + Cardinality(fst.meta)
            => ~ Repointed(a, fst, data).am.bug
<1> DEFINE g == GiveAll(a, fst.meta)
           n == PtrBlocks(Len(data))
           p == TakePtrs(g, n, TRUE)
<1>1. /\ AmOK(g) /\ g.map = a.map \ fst.meta /\ g.bug = a.bug /\ g.reserved = a.reserved
      /\ g.used = a.used - Cardinality(fst.meta) /\ Cardinality(fst.meta) \in Nat
  BY GiveFacts
<1>2. n \in Nat
  BY PtrBlocksFacts
<1>3. Repointed(a, fst, data) = p
  BY DEF Repointed
<1> HIDE DEF g, n
<1>4. /\ AmOK(p.am) /\ p.got \subseteq OnDisk /\ p.got \cap g.map = {} /\ p.am.map = g.map \cup p.got
      /\ ~ p.am.bug => Cardinality(p.got) = n /\ ~ g.bug
      /\ (n = 0 /\ ~ g.bug) \/ (HasRoom(g, TRUE) /\ g.used + n <= Total) => ~ p.am.bug
  BY <1>1, <1>2, PtrFacts
<1> HIDE DEF p
<1>5. p.got \in SUBSET Bits
  BY <1>4, Sizes
<1>6. ASSUME ~ a.bug, a.used + n <= Total + Cardinality(fst.meta),
             n = 0 \/ a.used + a.reserved <= Total + Cardinality(fst.meta)
      PROVE  ~ p.am.bug
  <2> DEFINE m == Cardinality(fst.meta)
  <2>1. a.used \in Nat /\ a.reserved \in Nat /\ Total \in Nat /\ m \in Nat /\ g.used = a.used - m
    BY <1>1, UsedFacts
  <2>2. a.used + n <= Total + m /\ (n = 0 \/ a.used + a.reserved <= Total + m)
    BY <1>6
  <2> HIDE DEF m
  <2>3. g.used + n <= Total /\ (n = 0 \/ g.used + g.reserved <= Total)
    BY <1>1, <1>2, <2>1, <2>2
  <2> QED
    BY <1>1, <1>4, <1>6, <2>3 DEF HasRoom
<1> QED
  BY <1>1, <1>3, <1>4, <1>5, <1>6 DEF n

\* An object that agrees with the entry at its address is not disturbed by
\* another entry, and its own is written with it.
LEMMA WriteBack ==
  ASSUME NEW o, NEW e, OpenOK(o, e), NEW i \in DOMAIN o, NEW x \in ObjectType,
         x.path = o[i].path, x.addr = o[i].addr, x.use = o[i].use, x.fst.name = x.path
  PROVE  OpenOK([o EXCEPT ![i] = x], Put(e, x.addr, x.fst))
<1> DEFINE p == [o EXCEPT ![i] = x]
           d == Put(e, x.addr, x.fst)
<1>1. /\ p \in Seq(ObjectType) /\ DOMAIN p = DOMAIN o /\ p[i] = x
      /\ \A j \in DOMAIN o : j # i => p[j] = o[j]
  <2>1. o \in Seq(ObjectType)
    BY DEF OpenOK
  <2> QED
    BY <2>1
<1>2. DOMAIN d = DOMAIN e \cup {x.addr} /\ d[x.addr] = x.fst /\ \A b \in DOMAIN e : b # x.addr => d[b] = e[b]
  BY DEF Put
<1> HIDE DEF p, d
<1>3. ASSUME NEW j \in DOMAIN o, j # i PROVE o[j].addr # x.addr
  BY <1>3 DEF OpenOK
<1>4. ASSUME NEW j \in DOMAIN p
      PROVE  /\ p[j].addr \in DOMAIN d /\ d[p[j].addr] = p[j].fst
             /\ p[j].fst.name = p[j].path /\ p[j].use \in 1 .. MaxUse
  <2>1. CASE j = i
    BY <1>1, <1>2, <2>1 DEF OpenOK
  <2>2. CASE j # i
    BY <1>1, <1>2, <1>3, <2>2 DEF OpenOK
  <2> QED
    BY <2>1, <2>2
<1>5. \A j, k \in DOMAIN p : p[j].path = p[k].path => j = k
  BY <1>1 DEF OpenOK
<1>6. OpenOK(p, d)
  BY <1>1, <1>4, <1>5 DEF OpenOK
<1> QED
  BY <1>6 DEF p, d

-----------------------------------------------------------------------------
(* Writing and truncating.                                                 *)

\* The parts of what holds between operations.
LEMMA GoodFacts ==
  ASSUME NEW w, Good(w)
  PROVE  /\ IsState(w) /\ DiskOK(w) /\ AmOK(w.am) /\ w.am \in Alloc /\ OpenOK(w.open, w.ents)
         /\ Owned(w.am.map, w.dir, w.ents) /\ EntsOK(w.ents, w.am.bug)
         /\ w.label = w.am.used /\ NoEmptyBlock(w.dir.list, w.files)
BY DEF Good, DiskOK, AmOK

\* Blocks of an entry are set in the map, each for one purpose.
LEMMA BlocksFacts ==
  ASSUME NEW w, DiskOK(w), NEW a \in DOMAIN w.ents
  PROVE  /\ w.ents[a] \in Entry /\ w.ents[a].data \in Seq(Bits) /\ w.ents[a].meta \in SUBSET Bits
         /\ w.ents[a].name \in Names /\ IsInjective(w.ents[a].data)
         /\ Range(w.ents[a].data) \cap w.ents[a].meta = {}
         /\ BlocksOf(w.ents[a]) = Range(w.ents[a].data) \cup w.ents[a].meta
         /\ BlocksOf(w.ents[a]) \subseteq w.am.map
         /\ ~ w.am.bug => Cardinality(w.ents[a].meta) = PtrBlocks(Len(w.ents[a].data))
<1>1. w.ents[a] \in Entry
  BY DEF DiskOK, EntsOK
<1>2. BlocksOf(w.ents[a]) \subseteq w.am.map
  BY DEF DiskOK, Owned
<1> QED
  BY <1>1, <1>2 DEF DiskOK, EntsOK, Entry, BlocksOf

\* Setting blocks aside changes only their count.
LEMMA ReservedFacts ==
  ASSUME NEW w, AmOK(w.am), NEW o \in Nat, NEW n \in Nat
  PROVE  /\ AmOK(Reserved(w, o, n)) /\ Reserved(w, o, n).map = w.am.map
         /\ Reserved(w, o, n).bug = w.am.bug /\ Reserved(w, o, n).used = w.am.used
         /\ Reserved(w, o, n).reserved = w.am.reserved + (IF o + n > 1 THEN Reserve(o, n) ELSE 0)
<1> DEFINE k == IF o + n > 1 THEN Reserve(o, n) ELSE 0
           r == [w.am EXCEPT !.reserved = @ + k]
<1>1. k \in Nat
  BY ReserveFacts
<1>2. Reserved(w, o, n) = r
  BY DEF Reserved
<1> HIDE DEF k
<1>3. w.am \in Alloc /\ w.am.reserved + k \in Nat
  BY <1>1 DEF AmOK, Alloc
<1>4. /\ r \in Alloc /\ r.map = w.am.map /\ r.bug = w.am.bug /\ r.used = w.am.used /\ r.hint = w.am.hint
      /\ r.reserved = w.am.reserved + k
  BY <1>3 DEF Alloc
<1> HIDE DEF r
<1>5. AmOK(r)
  BY <1>4 DEF AmOK
<1> QED
  BY <1>2, <1>4, <1>5 DEF k

\* do_write of an open file.
LEMMA WrittenFacts ==
  ASSUME NEW w, Good(w), NEW i \in DOMAIN w.open, NEW n \in Nat, NEW tail \in BOOLEAN
  PROVE  /\ Good(Written(w, i, n, tail)) /\ Written(w, i, n, tail).dir = w.dir
         /\ /\ n <= MaxWrite /\ Len(w.open[i].fst.data) + n <= MaxBlocks
            /\ tail => w.open[i].fst.data # <<>>
            => Safe(w.am, w.dir, Written(w, i, n, tail).am, w.dir)
<1> DEFINE f == w.open[i]
           old == Len(f.fst.data)
           r == Reserved(w, old, n)
           t == TakeUpTo(r, n)
           data == f.fst.data \o t.got
           dirty == f.dirty \/ n > 0
           p == IF dirty THEN Repointed(t.am, f.fst, data) ELSE [am |-> t.am, got |-> f.fst.meta]
           new == Fst(f.fst.name, data, p.got)
           x == [f EXCEPT !.fst = new, !.dirty = FALSE]
           v == [w EXCEPT !.am = t.am, !.open[i].dirty = TRUE]
           u == [w EXCEPT !.am = p.am, !.label = p.am.used, !.ents = Put(@, f.addr, new), !.open[i] = x]
<1>1. Written(w, i, n, tail) = IF t.got = <<>> /\ ~ tail THEN v ELSE u
  BY DEF Written
<1>2. /\ IsState(w) /\ DiskOK(w) /\ AmOK(w.am) /\ w.am \in Alloc /\ OpenOK(w.open, w.ents)
      /\ Owned(w.am.map, w.dir, w.ents) /\ EntsOK(w.ents, w.am.bug)
      /\ w.label = w.am.used /\ NoEmptyBlock(w.dir.list, w.files)
  BY GoodFacts
<1>3. /\ w.open \in Seq(ObjectType) /\ f \in ObjectType /\ f.addr \in DOMAIN w.ents /\ w.ents[f.addr] = f.fst
      /\ f.fst.name = f.path /\ f.use \in 1 .. MaxUse
  BY <1>2 DEF OpenOK
<1> DEFINE a == f.addr
           fst == f.fst
           M == w.am.map
           D == Range(fst.data)
<1>4. /\ fst \in Entry /\ fst.data \in Seq(Bits) /\ fst.meta \in SUBSET Bits /\ fst.name \in Names
      /\ IsInjective(fst.data) /\ D \cap fst.meta = {} /\ BlocksOf(fst) = D \cup fst.meta
      /\ BlocksOf(fst) \subseteq M /\ (~ w.am.bug => Cardinality(fst.meta) = PtrBlocks(Len(fst.data)))
  <2>1. a \in DOMAIN w.ents /\ w.ents[a] = fst
    BY <1>3
  <2> QED
    BY <1>2, <2>1, BlocksFacts
<1>5. old \in Nat
  BY <1>4
<1> DEFINE set == IF old + n > 1 THEN Reserve(old, n) ELSE 0
<1>6. AmOK(r) /\ r.map = M /\ r.bug = w.am.bug /\ r.used = w.am.used /\ r.reserved = w.am.reserved + set
  BY <1>2, <1>5, ReservedFacts
<1> HIDE DEF r
<1>7. /\ AmOK(t.am) /\ t.got \in Seq(OnDisk) /\ IsInjective(t.got) /\ Range(t.got) \cap r.map = {}
      /\ t.am.map = r.map \cup Range(t.got) /\ t.am.bug = r.bug /\ t.am.used = r.used + Len(t.got) /\ Len(t.got) <= n
      /\ t.am.reserved = r.reserved /\ (t.got # <<>> => t.am.used + r.reserved <= Total)
  BY <1>6, DataFacts
<1> HIDE DEF t
<1>8. /\ t.got \in Seq(Bits) /\ Len(t.got) \in Nat /\ Range(t.got) \subseteq Bits
  <2>1. OnDisk \subseteq Bits
    BY Sizes
  <2>2. t.got \in Seq(Bits)
    BY <1>7, <2>1, SeqMonotonic
  <2> QED
    BY <2>2 DEF Range
<1>9. /\ data \in Seq(Bits) /\ Range(data) = D \cup Range(t.got) /\ IsInjective(data)
      /\ Len(data) = Len(fst.data) + Len(t.got)
  <2>1. D \cap Range(t.got) = {}
    BY <1>4, <1>6, <1>7
  <2>2. data \in Seq(Bits) /\ Range(data) = D \cup Range(t.got) /\ IsInjective(data)
    BY <1>4, <1>7, <1>8, <2>1, ConcatFacts
  <2>3. Len(data) = Len(fst.data) + Len(t.got)
    BY <1>4, <1>8
  <2> QED
    BY <2>2, <2>3
<1> HIDE DEF data
<1>10. CASE t.got = <<>> /\ ~ tail
  <2> DEFINE y == [f EXCEPT !.dirty = TRUE]
             o == [w.open EXCEPT ![i] = y]
  <2>1. y \in ObjectType /\ y.path = f.path /\ y.addr = f.addr /\ y.fst = f.fst /\ y.use = f.use
    BY <1>3 DEF ObjectType
  <2>2. v = [w EXCEPT !.am = t.am, !.open = o]
    BY <1>2 DEF IsState
  <2>3. o \in Seq(ObjectType) /\ DOMAIN o = DOMAIN w.open /\ o[i] = y /\ \A j \in DOMAIN o : j # i => o[j] = w.open[j]
    <3> HIDE DEF y
    <3> QED
      BY <1>3, <2>1
  <2> HIDE DEF o, y, v
  <2>4. OpenOK(o, w.ents)
    <3>1. ASSUME NEW j \in DOMAIN o
          PROVE  /\ o[j].addr = w.open[j].addr /\ o[j].path = w.open[j].path
                 /\ o[j].fst = w.open[j].fst /\ o[j].use = w.open[j].use
      BY <2>1, <2>3
    <3> QED
      BY <1>2, <2>3, <3>1 DEF OpenOK
  <2>5. /\ IsState(v) /\ v.am = t.am /\ v.dir = w.dir /\ v.ents = w.ents /\ v.files = w.files
        /\ v.label = w.label /\ v.cache = w.cache /\ v.open = o
    <3>1. v = State(t.am, w.dir, w.ents, w.files, w.label, w.cache, o)
      BY <1>2, <2>2 DEF IsState, State
    <3> QED
      BY <1>2, <3>1, StateParts, StateFacts
  <2>6. t.am.map = M /\ t.am.used = w.am.used /\ t.am.bug = w.am.bug
    <3>1. Len(t.got) = 0 /\ Range(t.got) = {}
      BY <1>10 DEF Range
    <3>2. r.used \in Nat
      BY <1>6, AmFacts
    <3> QED
      BY <1>6, <1>7, <3>1, <3>2
  <2>7. DiskOK(v)
    BY <1>2, <1>7, <2>5, <2>6 DEF DiskOK
  <2>8. Good(v)
    BY <1>2, <2>4, <2>5, <2>6, <2>7 DEF Good
  <2>9. Safe(w.am, w.dir, v.am, w.dir)
    BY <2>5, <2>6 DEF Safe, Sized
  <2> QED
    BY <1>1, <1>10, <2>5, <2>8, <2>9
<1>11. CASE ~(t.got = <<>> /\ ~ tail)
  <2> DEFINE R == M \ BlocksOf(fst)
  <2>1. /\ AmOK(p.am) /\ p.got \in SUBSET Bits /\ p.am.map = R \cup Range(data) \cup p.got
        /\ p.got \cap (R \cup Range(data)) = {}
        /\ ~ p.am.bug => Cardinality(p.got) = PtrBlocks(Len(data)) /\ ~ w.am.bug
        /\ n <= MaxWrite /\ old + n <= MaxBlocks /\ (tail => fst.data # <<>>)
           => (Narrow /\ ~ w.am.bug /\ w.am.reserved = 0 /\ w.am.used < Total => ~ p.am.bug)
    <3>1. CASE dirty
      <4> DEFINE q == Repointed(t.am, fst, data)
      <4>1. fst.meta \subseteq t.am.map
        BY <1>4, <1>6, <1>7
      <4>2. /\ AmOK(q.am) /\ q.got \in SUBSET Bits /\ q.got \cap (t.am.map \ fst.meta) = {}
            /\ q.am.map = (t.am.map \ fst.meta) \cup q.got
            /\ ~ q.am.bug => Cardinality(q.got) = PtrBlocks(Len(data)) /\ ~ t.am.bug
            /\ /\ ~ t.am.bug /\ t.am.used + PtrBlocks(Len(data)) <= Total + Cardinality(fst.meta)
               /\ PtrBlocks(Len(data)) = 0 \/ t.am.used + t.am.reserved <= Total + Cardinality(fst.meta)
               => ~ q.am.bug
        BY <1>4, <1>7, <1>9, <4>1, RepointFacts
      <4>3. p = q
        BY <3>1
      <4> HIDE DEF p, q
      <4>4. t.am.map \ fst.meta = R \cup Range(data)
        BY <1>4, <1>6, <1>7, <1>9
      <4>5. ASSUME n <= MaxWrite, old + n <= MaxBlocks, tail => fst.data # <<>>, Narrow,
                   ~ w.am.bug, w.am.reserved = 0, w.am.used < Total
            PROVE  ~ q.am.bug
        <5> DEFINE u0 == w.am.used
                   k == Len(t.got)
        <5>1. /\ u0 \in Nat /\ u0 < Total /\ k \in Nat /\ k <= n /\ set \in Nat /\ Total \in Nat
              /\ t.am.used = u0 + k /\ t.am.reserved = set
          <6>1. set \in Nat
            BY <1>5, ReserveFacts
          <6> HIDE DEF set
          <6> QED
            BY <1>2, <1>6, <1>7, <1>8, <4>5, <6>1, UsedFacts
        <5>2. n <= Ptrs /\ old + n <= Ptrs * Ptrs
          <6> DEFINE pp == Ptrs * Ptrs
                     m == old + n
          <6>1. MaxBlocks <= pp /\ MaxWrite <= Ptrs /\ m <= MaxBlocks /\ n <= MaxWrite
            BY <4>5, CmsfsAssumption DEF Narrow
          <6>2. pp \in Nat /\ MaxBlocks \in Nat /\ MaxWrite \in Nat /\ Ptrs \in Nat /\ m \in Nat
            BY <1>5, Sizes, CmsfsAssumption
          <6> HIDE DEF pp, m
          <6>3. m <= pp /\ n <= Ptrs
            BY <6>1, <6>2
          <6> QED
            BY <6>3 DEF pp, m
        <5>3. k > 0 => u0 + k + set <= Total
          <6>1. k > 0 => t.got # <<>>
            OBVIOUS
          <6> HIDE DEF k, set
          <6> QED
            BY <1>6, <1>7, <5>1, <6>1, <4>5
        <5>4. k = 0 => old > 0
          <6>1. k = 0 => t.got = <<>>
            BY <1>8
          <6>2. fst.data # <<>> => old > 0
            BY <1>4
          <6> HIDE DEF k, old
          <6> QED
            BY <1>11, <4>5, <6>1, <6>2
        <5>5. Len(data) = old + k /\ Cardinality(fst.meta) = PtrBlocks(old)
          BY <1>4, <1>9, <4>5
        <5> HIDE DEF u0, k, old
        <5>6. /\ u0 + k + PtrBlocks(old + k) <= Total + PtrBlocks(old)
              /\ PtrBlocks(old + k) = 0 \/ u0 + k + set <= Total + PtrBlocks(old)
          BY <1>5, <5>1, <5>2, <5>3, <5>4, WriteRoom
        <5>7. ~ t.am.bug
          BY <1>6, <1>7, <4>5
        <5> HIDE DEF set, q
        <5> QED
          BY <4>2, <5>1, <5>5, <5>6, <5>7
      <4> QED
        BY <1>6, <1>7, <4>2, <4>3, <4>4, <4>5
    <3>2. CASE ~ dirty
      <4>1. p = [am |-> t.am, got |-> fst.meta]
        BY <3>2
      <4>2. Len(t.got) = 0
        BY <1>7, <1>8, <3>2
      <4>3. Range(t.got) = {} /\ Len(data) = Len(fst.data)
        <5>1. t.got = <<>>
          BY <1>8, <4>2
        <5>2. Range(<<>>) = {}
          BY DEF Range
        <5> QED
          BY <1>4, <1>9, <4>2, <5>1, <5>2
      <4> HIDE DEF p
      <4>4. p.am = t.am /\ p.got = fst.meta
        BY <4>1
      <4>5. fst.meta \cap (R \cup Range(data)) = {} /\ M = R \cup Range(data) \cup fst.meta
        BY <1>4, <1>9, <4>3
      <4> QED
        BY <1>4, <1>6, <1>7, <4>3, <4>4, <4>5
    <3> QED
      BY <3>1, <3>2
  <2> HIDE DEF p
  <2>2. /\ new \in Entry /\ new.name = fst.name /\ new.data = data /\ new.meta = p.got
        /\ BlocksOf(new) = Range(data) \cup p.got
    BY <1>4, <1>9, <2>1 DEF Fst, Entry, BlocksOf
  <2> HIDE DEF new
  <2>3. /\ x \in ObjectType /\ x.path = f.path /\ x.addr = f.addr /\ x.use = f.use /\ x.fst = new
    BY <1>3, <2>2 DEF ObjectType
  <2> DEFINE o == [w.open EXCEPT ![i] = x]
             e == Put(w.ents, a, new)
  <2>4. u = [w EXCEPT !.am = p.am, !.label = p.am.used, !.ents = e, !.open = o]
    <3> HIDE DEF x
    <3> QED
      BY <1>2 DEF IsState
  <2> HIDE DEF x
  <2>5. OpenOK(o, e)
    <3>1. x.fst.name = x.path
      BY <1>3, <2>2, <2>3
    <3>2. OpenOK([w.open EXCEPT ![i] = x], Put(w.ents, x.addr, x.fst))
      BY <1>2, <2>3, <3>1, WriteBack
    <3>3. x.addr = a /\ x.fst = new
      BY <2>3
    <3> QED
      BY <3>2, <3>3
  <2>6. e = [b \in DOMAIN e |-> e[b]]
    BY PutIsFunction
  <2> HIDE DEF e, o, u
  <2>7. /\ IsState(u) /\ u.am = p.am /\ u.dir = w.dir /\ u.ents = e /\ u.files = w.files
        /\ u.label = p.am.used /\ u.cache = w.cache /\ u.open = o
    <3>1. u = State(p.am, w.dir, e, w.files, p.am.used, w.cache, o)
      BY <1>2, <2>4 DEF IsState, State
    <3>2. IsFun(e)
      BY <2>6 DEF IsFun
    <3> QED
      BY <1>2, <3>1, <3>2, StateParts, StateFacts
  <2>8. DiskOK(u)
    <3>1. u.ents = Put(w.ents, a, new) /\ a \in DOMAIN w.ents /\ w.ents[a] = fst
      BY <1>3, <2>7 DEF e
    <3>2. IsInjective(new.data) /\ Range(new.data) \cap new.meta = {}
      BY <1>9, <2>1, <2>2
    <3>3. ~ u.am.bug => Cardinality(new.meta) = PtrBlocks(Len(new.data)) /\ ~ w.am.bug
      BY <2>1, <2>2, <2>7
    <3>4. /\ u.am.map = (w.am.map \ BlocksOf(w.ents[a])) \cup BlocksOf(new)
          /\ BlocksOf(new) \cap (w.am.map \ BlocksOf(w.ents[a])) = {}
      <4>1. Range(data) \cap R = {}
        BY <1>4, <1>6, <1>7, <1>9
      <4>2. BlocksOf(new) = Range(data) \cup p.got /\ u.am.map = R \cup Range(data) \cup p.got
        BY <2>1, <2>2, <2>7
      <4>3. p.got \cap (R \cup Range(data)) = {}
        BY <2>1
      <4> HIDE DEF R
      <4>4. u.am.map = R \cup BlocksOf(new) /\ BlocksOf(new) \cap R = {}
        BY <4>1, <4>2, <4>3
      <4> QED
        BY <3>1, <4>4 DEF R
    <3>5. AmOK(u.am)
      BY <2>1, <2>7
    <3>6. new.name = w.ents[a].name
      BY <2>2, <3>1
    <3> QED
      BY <1>2, <2>2, <2>7, <3>1, <3>2, <3>3, <3>4, <3>5, <3>6, RewriteFacts
  <2>9. Good(u)
    BY <1>2, <2>5, <2>7, <2>8 DEF Good
  <2>10. n <= MaxWrite /\ old + n <= MaxBlocks /\ (tail => fst.data # <<>>) => Safe(w.am, w.dir, u.am, w.dir)
    BY <2>1, <2>7 DEF Safe, Sized
  <2> QED
    BY <1>1, <1>11, <2>7, <2>9, <2>10
<1> QED
  BY <1>10, <1>11

-----------------------------------------------------------------------------
(* Truncating.                                                             *)

\* The first k blocks of a file.
LEMMA CutFacts ==
  ASSUME NEW s \in Seq(Bits), IsInjective(s), NEW k \in 0 .. Len(s)
  PROVE  /\ SubSeq(s, 1, k) \in Seq(Bits) /\ Len(SubSeq(s, 1, k)) = k
         /\ IsInjective(SubSeq(s, 1, k)) /\ Range(SubSeq(s, 1, k)) \subseteq Range(s)
<1> DEFINE t == SubSeq(s, 1, k)
<1>1. t \in Seq(Bits) /\ Len(t) = k /\ DOMAIN t = 1 .. k /\ \A i \in 1 .. k : t[i] = s[i]
  OBVIOUS
<1>2. 1 .. k \subseteq DOMAIN s
  OBVIOUS
<1> HIDE DEF t
<1>3. IsInjective(t)
  BY <1>1, <1>2 DEF IsInjective
<1>4. Range(t) \subseteq Range(s)
  BY <1>1, <1>2 DEF Range
<1> QED
  BY <1>1, <1>3, <1>4 DEF t

\* An entry that no object stands for may change.
LEMMA OtherEntry ==
  ASSUME NEW o, NEW e, OpenOK(o, e), NEW a, NEW x, \A j \in DOMAIN o : o[j].addr # a
  PROVE  OpenOK(o, Put(e, a, x))
<1> DEFINE d == Put(e, a, x)
<1>1. DOMAIN e \subseteq DOMAIN d /\ \A b \in DOMAIN e : b # a => d[b] = e[b]
  BY DEF Put
<1> HIDE DEF d
<1>2. OpenOK(o, d)
  BY <1>1 DEF OpenOK
<1> QED
  BY <1>2 DEF d

\* shrink_file, of an open file or of one that is not open.
LEMMA ShrunkFacts ==
  ASSUME NEW w, Good(w), NEW i \in {0} \cup DOMAIN w.open, NEW a \in DOMAIN w.ents,
         i # 0 => w.open[i].addr = a, i = 0 => \A j \in DOMAIN w.open : w.open[j].addr # a,
         NEW k \in 0 .. Len(w.ents[a].data)
  PROVE  /\ Good(Shrunk(w, i, a, w.ents[a], k)) /\ Shrunk(w, i, a, w.ents[a], k).dir = w.dir
         /\ Safe(w.am, w.dir, Shrunk(w, i, a, w.ents[a], k).am, w.dir)
<1> DEFINE fst == w.ents[a]
           M == w.am.map
           D == Range(fst.data)
           data == SubSeq(fst.data, 1, k)
           freed == GiveAll(w.am, D \ Range(data))
           p == Repointed(freed, fst, data)
           new == Fst(fst.name, data, p.got)
           e == Put(w.ents, a, new)
           v == [w EXCEPT !.am = p.am, !.label = p.am.used, !.ents = e]
           s == [v EXCEPT !.open[i].fst = new]
           R == M \ BlocksOf(fst)
<1>1. Shrunk(w, i, a, fst, k) = IF i = 0 THEN v ELSE s
  BY DEF Shrunk
<1>2. /\ IsState(w) /\ DiskOK(w) /\ AmOK(w.am) /\ w.am \in Alloc /\ OpenOK(w.open, w.ents)
      /\ Owned(w.am.map, w.dir, w.ents) /\ EntsOK(w.ents, w.am.bug)
      /\ w.label = w.am.used /\ NoEmptyBlock(w.dir.list, w.files)
  BY GoodFacts
<1>3. /\ fst \in Entry /\ fst.data \in Seq(Bits) /\ fst.meta \in SUBSET Bits /\ fst.name \in Names
      /\ IsInjective(fst.data) /\ D \cap fst.meta = {} /\ BlocksOf(fst) = D \cup fst.meta
      /\ BlocksOf(fst) \subseteq M /\ (~ w.am.bug => Cardinality(fst.meta) = PtrBlocks(Len(fst.data)))
  BY <1>2, BlocksFacts
<1> HIDE DEF fst
<1>4. data \in Seq(Bits) /\ IsInjective(data) /\ Range(data) \subseteq D /\ Len(data) = k /\ k <= Len(fst.data) /\ k \in Nat
  BY <1>3, CutFacts DEF fst
<1> HIDE DEF data
<1>5. /\ AmOK(freed) /\ freed.map = M \ (D \ Range(data)) /\ freed.bug = w.am.bug
      /\ freed.reserved = w.am.reserved /\ freed.used <= w.am.used
  <2> DEFINE S == D \ Range(data)
  <2>1. S \subseteq M
    BY <1>3
  <2>2. w.am.used \in Nat
    BY <1>2, AmFacts
  <2> HIDE DEF S
  <2>3. /\ AmOK(GiveAll(w.am, S)) /\ GiveAll(w.am, S).map = M \ S /\ GiveAll(w.am, S).bug = w.am.bug
        /\ GiveAll(w.am, S).reserved = w.am.reserved
        /\ GiveAll(w.am, S).used = w.am.used - Cardinality(S) /\ Cardinality(S) \in Nat
    BY <1>2, <2>1, GiveFacts
  <2>4. GiveAll(w.am, S).used <= w.am.used
    BY <2>2, <2>3
  <2> QED
    BY <2>3, <2>4 DEF S
<1> HIDE DEF freed
<1>6. /\ AmOK(p.am) /\ p.got \in SUBSET Bits /\ p.got \cap (freed.map \ fst.meta) = {}
      /\ p.am.map = (freed.map \ fst.meta) \cup p.got
      /\ ~ p.am.bug => Cardinality(p.got) = PtrBlocks(Len(data)) /\ ~ w.am.bug
      /\ /\ ~ freed.bug /\ freed.used + PtrBlocks(Len(data)) <= Total + Cardinality(fst.meta)
         /\ PtrBlocks(Len(data)) = 0 \/ freed.used + freed.reserved <= Total + Cardinality(fst.meta)
         => ~ p.am.bug
  <2>1. fst.meta \subseteq freed.map
    BY <1>3, <1>5
  <2> QED
    BY <1>3, <1>4, <1>5, <2>1, RepointFacts
<1> HIDE DEF p
<1>13. Safe(w.am, w.dir, p.am, w.dir)
  <2>1. ASSUME ~ w.am.bug, w.am.reserved = 0 PROVE ~ p.am.bug
    <3> DEFINE u == freed.used
               x == PtrBlocks(k)
               y == PtrBlocks(Len(fst.data))
    <3>1. u \in Nat /\ Total \in Nat /\ u <= Total
      BY <1>5, UsedFacts
    <3>2. x \in Nat /\ y \in Nat /\ x <= y
      <4>1. Len(fst.data) \in Nat
        BY <1>3
      <4> QED
        BY <1>4, <4>1, PtrBlocksMonotone
    <3>3. Cardinality(fst.meta) = y /\ PtrBlocks(Len(data)) = x /\ freed.reserved = 0 /\ ~ freed.bug
      BY <1>3, <1>4, <1>5, <2>1
    <3> HIDE DEF u, x, y
    <3>4. u + x <= Total + y /\ u + 0 <= Total + y
      BY <3>1, <3>2
    <3> QED
      BY <1>6, <3>3, <3>4 DEF u
  <2> QED
    BY <1>6, <2>1 DEF Safe, Sized
<1>7. freed.map \ fst.meta = R \cup Range(data)
  BY <1>3, <1>4, <1>5
<1>8. /\ new \in Entry /\ new.name = fst.name /\ new.data = data /\ new.meta = p.got
      /\ BlocksOf(new) = Range(data) \cup p.got
  BY <1>3, <1>4, <1>6 DEF Fst, Entry, BlocksOf
<1> HIDE DEF new
<1>9. IsFun(e)
  BY PutIsFunction DEF IsFun
<1>10. ASSUME NEW o, OpenOK(o, e), NEW u, u = State(p.am, w.dir, e, w.files, p.am.used, w.cache, o)
       PROVE  Good(u) /\ u.am = p.am /\ u.dir = w.dir
  <2>1. /\ IsState(u) /\ u.am = p.am /\ u.dir = w.dir /\ u.ents = e /\ u.files = w.files
        /\ u.label = p.am.used /\ u.cache = w.cache /\ u.open = o
    BY <1>2, <1>9, <1>10, StateParts, StateFacts
  <2> HIDE DEF e
  <2>2. u.ents = Put(w.ents, a, new) /\ w.ents[a] = fst
    BY <2>1 DEF e, fst
  <2>3. IsInjective(new.data) /\ Range(new.data) \cap new.meta = {}
    BY <1>4, <1>6, <1>7, <1>8
  <2>4. ~ u.am.bug => Cardinality(new.meta) = PtrBlocks(Len(new.data)) /\ ~ w.am.bug
    BY <1>6, <1>8, <2>1
  <2>5. /\ u.am.map = (w.am.map \ BlocksOf(w.ents[a])) \cup BlocksOf(new)
        /\ BlocksOf(new) \cap (w.am.map \ BlocksOf(w.ents[a])) = {}
    <3>1. Range(data) \cap R = {}
      BY <1>3, <1>4
    <3>2. u.am.map = R \cup Range(data) \cup p.got /\ p.got \cap (R \cup Range(data)) = {}
      BY <1>6, <1>7, <2>1
    <3> HIDE DEF R
    <3>3. u.am.map = R \cup BlocksOf(new) /\ BlocksOf(new) \cap R = {}
      BY <1>8, <3>1, <3>2
    <3> QED
      BY <2>2, <3>3 DEF R
  <2>6. AmOK(u.am) /\ new.name = w.ents[a].name
    BY <1>6, <1>8, <2>1, <2>2
  <2>7. DiskOK(u)
    BY <1>2, <1>8, <2>1, <2>2, <2>3, <2>4, <2>5, <2>6, RewriteFacts
  <2> QED
    BY <1>2, <1>10, <2>1, <2>7 DEF Good
<1>11. CASE i = 0
  <2>1. OpenOK(w.open, e)
    <3> HIDE DEF e
    <3>1. OpenOK(w.open, Put(w.ents, a, new))
      BY <1>2, <1>11, OtherEntry
    <3> QED
      BY <3>1 DEF e
  <2>2. v = State(p.am, w.dir, e, w.files, p.am.used, w.cache, w.open)
    <3>1. v = [w EXCEPT !.am = p.am, !.label = p.am.used, !.ents = e]
      OBVIOUS
    <3> HIDE DEF e, v
    <3> QED
      BY <1>2, <3>1 DEF IsState, State
  <2> HIDE DEF e
  <2> HIDE DEF v
  <2>3. Good(v) /\ v.am = p.am /\ v.dir = w.dir
    BY <1>10, <2>1, <2>2
  <2> QED
    BY <1>1, <1>11, <1>13, <2>3 DEF fst
<1>12. CASE i # 0
  <2> DEFINE f == w.open[i]
             x == [f EXCEPT !.fst = new]
             o == [w.open EXCEPT ![i] = x]
  <2>1. /\ w.open \in Seq(ObjectType) /\ i \in DOMAIN w.open /\ f \in ObjectType /\ f.addr = a
        /\ w.ents[f.addr] = f.fst /\ f.fst.name = f.path
    BY <1>2, <1>12 DEF OpenOK
  <2>2. x \in ObjectType /\ x.path = f.path /\ x.addr = a /\ x.use = f.use /\ x.fst = new /\ x.fst.name = x.path
    BY <1>8, <2>1 DEF ObjectType, fst
  <2>3. v = State(p.am, w.dir, e, w.files, p.am.used, w.cache, w.open)
    <3>1. v = [w EXCEPT !.am = p.am, !.label = p.am.used, !.ents = e]
      OBVIOUS
    <3> HIDE DEF e, v
    <3> QED
      BY <1>2, <3>1 DEF IsState, State
  <2> HIDE DEF e
  <2>4. s = State(p.am, w.dir, e, w.files, p.am.used, w.cache, o)
    <3>1. s = [v EXCEPT !.open = [w.open EXCEPT ![i] = [w.open[i] EXCEPT !.fst = new]]]
      <4>1. v.open = w.open
        <5> HIDE DEF v
        <5> QED
          BY <2>3 DEF State
      <4> HIDE DEF v
      <4> QED
        BY <4>1
    <3>2. s = [v EXCEPT !.open = o]
      BY <3>1
    <3> HIDE DEF v, s, o
    <3> QED
      BY <2>3, <3>2 DEF State
  <2> HIDE DEF x
  <2>5. OpenOK(o, e)
    <3>1. OpenOK([w.open EXCEPT ![i] = x], Put(w.ents, x.addr, x.fst))
      BY <1>2, <2>1, <2>2, WriteBack
    <3> QED
      BY <2>2, <3>1 DEF e
  <2> HIDE DEF s, o
  <2>6. Good(s) /\ s.am = p.am /\ s.dir = w.dir
    BY <1>10, <2>4, <2>5
  <2> QED
    BY <1>1, <1>12, <1>13, <2>6 DEF fst
<1> QED
  BY <1>11, <1>12

-----------------------------------------------------------------------------
(* Open files.                                                             *)

\* The object of a file in open_file_list has its path; 0 says that there is none.
LEMMA FileOpenFacts ==
  ASSUME NEW w, w.open \in Seq(ObjectType), NEW n
  PROVE  /\ FileOpen(w, n) \in {0} \cup DOMAIN w.open
         /\ FileOpen(w, n) = 0 => \A i \in DOMAIN w.open : w.open[i].path # n
         /\ FileOpen(w, n) # 0 => w.open[FileOpen(w, n)].path = n
<1> DEFINE P == {i \in DOMAIN w.open : w.open[i].path = n}
           m == Min(P)
<1>1. FileOpen(w, n) = IF P = {} THEN 0 ELSE m
  BY DEF FileOpen
<1>2. DOMAIN w.open = 1 .. Len(w.open) /\ Len(w.open) \in Nat
  OBVIOUS
<1>3. P # {} => m \in P
  <2>1. P \in SUBSET Nat
    BY <1>2
  <2> HIDE DEF P
  <2> QED
    BY <2>1, MinFacts DEF m
<1> HIDE DEF m
<1>4. CASE P = {}
  BY <1>1, <1>4
<1>5. CASE P # {}
  <2>1. FileOpen(w, n) = m /\ m \in P
    BY <1>1, <1>3, <1>5
  <2>2. m # 0
    BY <1>2, <2>1
  <2> QED
    BY <2>1, <2>2
<1> QED
  BY <1>4, <1>5

\* The object of a file is where its path says.
LEMMA FileOpenIs ==
  ASSUME NEW w, w.open \in Seq(ObjectType), \A i, j \in DOMAIN w.open : w.open[i].path = w.open[j].path => i = j,
         NEW k \in DOMAIN w.open
  PROVE  FileOpen(w, w.open[k].path) = k
<1>1. DOMAIN w.open = 1 .. Len(w.open)
  OBVIOUS
<1> DEFINE n == w.open[k].path
           i == FileOpen(w, n)
<1>2. i \in {0} \cup DOMAIN w.open /\ (i = 0 => w.open[k].path # n) /\ (i # 0 => w.open[i].path = n)
  BY FileOpenFacts
<1> QED
  BY <1>2

\* cmsfs_open.
LEMMA OpenedFacts ==
  ASSUME NEW w, Good(w), NEW n, Lookup(w, n, FALSE) # NoAddr,
         FileOpen(w, n) # 0 => w.open[FileOpen(w, n)].use < MaxUse
  PROVE  Good(Opened(w, n)) /\ Opened(w, n).am = w.am /\ Opened(w, n).dir = w.dir
<1> DEFINE a == Lookup(w, n, FALSE)
           v == LookedUp(w, n, FALSE)
           obj == Object(v, n, a)
           u == IF FileOpen(v, n) # 0 THEN v ELSE [v EXCEPT !.open = <<obj>> \o @]
           i == FileOpen(u, n)
           r == [u EXCEPT !.open[i].use = @ + 1]
<1>1. Opened(w, n) = r
  BY DEF Opened
<1>2. DiskOK(w) /\ OpenOK(w.open, w.ents)
  BY GoodFacts
<1>3. a # NoAddr => a \in DOMAIN w.ents /\ w.ents[a].name = n /\ a = Found(w, n) /\ n \in Names
  BY <1>2, LookupFacts
<1>4. a \in DOMAIN w.ents /\ w.ents[a].name = n /\ n \in Names
  BY <1>3
<1>5. DiskOK(v) /\ ButCache(w, v)
  BY <1>2, LookedUpFacts
<1>6. Good(v)
  BY <1>5, CacheStepGood
<1> HIDE DEF a, v
<1>7. /\ v.open = w.open /\ v.ents = w.ents /\ IsState(v) /\ w.ents[a] \in Entry
      /\ a \in Addrs
  <2>1. w.ents[a] \in Entry
    BY <1>2, <1>4, BlocksFacts
  <2> QED
    BY <1>2, <1>4, <1>5, <2>1, NoAddrFacts DEF ButCache, DiskOK
<1>8. FileOpen(v, n) = FileOpen(w, n)
  BY <1>7 DEF FileOpen
<1>9. /\ w.open \in Seq(ObjectType) /\ MaxUse \in Nat \ {0}
      /\ \A j \in DOMAIN w.open : /\ w.open[j].addr \in DOMAIN w.ents /\ w.ents[w.open[j].addr] = w.open[j].fst
                                  /\ w.open[j].fst.name = w.open[j].path /\ w.open[j].use \in 1 .. MaxUse
      /\ \A j, k \in DOMAIN w.open : w.open[j].path = w.open[k].path => j = k
  BY <1>2, Sizes DEF OpenOK
<1>10. ASSUME NEW o, OpenOK(o, w.ents), r = [v EXCEPT !.open = o]
       PROVE  Good(r) /\ r.am = w.am /\ r.dir = w.dir
  <2> HIDE DEF r
  <2>1. r = State(v.am, v.dir, v.ents, v.files, v.label, v.cache, o)
    BY <1>7, <1>10 DEF IsState, State
  <2>2. /\ IsState(r) /\ r.am = v.am /\ r.dir = v.dir /\ r.ents = v.ents /\ r.files = v.files
        /\ r.label = v.label /\ r.cache = v.cache /\ r.open = o
    BY <1>7, <2>1, StateParts, StateFacts
  <2>3. DiskOK(r)
    BY <1>5, <2>2 DEF DiskOK
  <2>4. v.am = w.am /\ v.dir = w.dir
    BY <1>5 DEF ButCache
  <2>5. Good(r)
    BY <1>6, <1>7, <1>10, <2>2, <2>3 DEF Good
  <2> QED
    BY <2>2, <2>4, <2>5
<1>11. CASE FileOpen(v, n) # 0
  <2> DEFINE f == w.open[i]
             x == [f EXCEPT !.use = @ + 1]
             o == [w.open EXCEPT ![i] = x]
  <2>1. u = v
    BY <1>11
  <2>2. i = FileOpen(w, n) /\ i # 0
    BY <1>8, <1>11, <2>1
  <2>3. i \in DOMAIN w.open /\ f.path = n /\ f.use < MaxUse
    BY <1>9, <2>2, FileOpenFacts
  <2>4. r = [v EXCEPT !.open = o]
    <3>1. r = [v EXCEPT !.open[i].use = @ + 1]
      BY <2>1
    <3> HIDE DEF r, i
    <3> QED
      BY <1>7, <3>1
  <2> HIDE DEF i, r
  <2>5. x \in ObjectType /\ x.path = f.path /\ x.addr = f.addr /\ x.fst = f.fst /\ x.use = f.use + 1
    <3>1. f \in ObjectType
      BY <1>9, <2>3
    <3> HIDE DEF f
    <3> QED
      BY <3>1 DEF ObjectType
  <2> HIDE DEF x
  <2>6. o \in Seq(ObjectType) /\ DOMAIN o = DOMAIN w.open /\ o[i] = x /\ \A j \in DOMAIN o : j # i => o[j] = w.open[j]
    BY <1>9, <2>3, <2>5
  <2> HIDE DEF o
  <2>7. ASSUME NEW j \in DOMAIN o
        PROVE  /\ o[j].addr = w.open[j].addr /\ o[j].path = w.open[j].path
               /\ o[j].fst = w.open[j].fst /\ o[j].use \in 1 .. MaxUse
    <3>1. CASE j = i
      <4>1. f.use \in 1 .. MaxUse
        BY <1>9, <2>3
      <4>2. x.use \in 1 .. MaxUse
        BY <1>9, <2>3, <2>5, <4>1
      <4> QED
        BY <2>5, <2>6, <3>1, <4>2
    <3>2. CASE j # i
      BY <1>9, <2>6, <3>2
    <3> QED
      BY <3>1, <3>2
  <2>8. OpenOK(o, w.ents)
    BY <1>9, <2>6, <2>7 DEF OpenOK
  <2>9. Good(r) /\ r.am = w.am /\ r.dir = w.dir
    BY <1>10, <2>4, <2>8 DEF r
  <2> QED
    BY <1>1, <2>9 DEF r
<1>12. CASE FileOpen(v, n) = 0
  <2> DEFINE x == [obj EXCEPT !.use = 1]
             o == <<x>> \o w.open
             y == <<obj>> \o w.open
  <2>1. obj = [path |-> n, addr |-> a, fst |-> w.ents[a], dirty |-> FALSE, use |-> 0, unlinked |-> FALSE]
    BY <1>7 DEF Object
  <2>2. obj \in ObjectType /\ x \in ObjectType /\ x.path = n /\ x.addr = a /\ x.fst = w.ents[a] /\ x.use = 1
        /\ obj.path = n /\ obj.use = 0
    <3> HIDE DEF obj
    <3>1. obj \in ObjectType /\ obj.path = n /\ obj.use = 0
      <4>1. obj \in ObjectType
        BY <1>4, <1>7, <2>1 DEF ObjectType
      <4>2. obj.path = n /\ obj.use = 0
        BY <2>1
      <4> QED
        BY <4>1, <4>2
    <3>2. x \in ObjectType /\ x.path = obj.path /\ x.addr = obj.addr /\ x.fst = obj.fst /\ x.use = 1
      BY <3>1 DEF ObjectType
    <3> HIDE DEF x
    <3>3. obj.addr = a /\ obj.fst = w.ents[a]
      BY <2>1
    <3> QED
      BY <3>1, <3>2, <3>3
  <2>3. \A j \in DOMAIN w.open : w.open[j].path # n
    BY <1>8, <1>9, <1>12, FileOpenFacts
  <2>4. u = [v EXCEPT !.open = y]
    BY <1>7, <1>12
  <2> HIDE DEF obj
  <2>5. u = State(v.am, v.dir, v.ents, v.files, v.label, v.cache, y)
    <3> HIDE DEF u, y
    <3> QED
      BY <1>7, <2>4 DEF IsState, State
  <2>6. u.open = y
    <3> HIDE DEF u, y
    <3> QED
      BY <2>5 DEF State
  <2> DEFINE m == Len(w.open)
  <2>7. m \in Nat /\ DOMAIN w.open = 1 .. m
    BY <1>9
  <2>8. /\ y \in Seq(ObjectType) /\ DOMAIN y = 1 .. (m + 1) /\ y[1] = obj
        /\ \A j \in 2 .. (m + 1) : y[j] = w.open[j - 1]
    BY <1>9, <2>2
  <2> HIDE DEF x
  <2>9. /\ o \in Seq(ObjectType) /\ DOMAIN o = 1 .. (m + 1) /\ o[1] = x
        /\ \A j \in 2 .. (m + 1) : o[j] = w.open[j - 1]
    BY <1>9, <2>2
  <2>10. [y EXCEPT ![1] = x] = o
    <3> DEFINE z == [y EXCEPT ![1] = x]
    <3> HIDE DEF y, o
    <3>1. z \in Seq(ObjectType) /\ DOMAIN z = 1 .. (m + 1) /\ \A j \in 1 .. (m + 1) : z[j] = IF j = 1 THEN x ELSE y[j]
      BY <2>2, <2>7, <2>8
    <3> HIDE DEF z
    <3>2. Len(z) = m + 1 /\ Len(o) = m + 1
      BY <2>7, <2>9, <3>1
    <3>3. \A j \in 1 .. (m + 1) : z[j] = o[j]
      BY <2>7, <2>8, <2>9, <3>1
    <3>4. z = o
      BY <2>9, <3>1, <3>2, <3>3, SeqEqual
    <3> QED
      BY <3>4 DEF z
  <2> HIDE DEF y, u, m
  <2>11. i = 1
    <3>1. i \in {0} \cup DOMAIN y /\ (i = 0 => y[1].path # n) /\ (i # 0 => y[i].path = n)
      <4>1. 1 \in DOMAIN y
        BY <2>7, <2>8
      <4>2. u.open \in Seq(ObjectType)
        BY <2>6, <2>8
      <4> QED
        <5> DEFINE h == FileOpen(u, n)
        <5>1. h \in {0} \cup DOMAIN u.open /\ (h = 0 => \A j \in DOMAIN u.open : u.open[j].path # n)
              /\ (h # 0 => u.open[h].path = n)
          BY <4>2, FileOpenFacts
        <5> HIDE DEF h
        <5>2. i = h
          BY DEF h
        <5> QED
          BY <2>6, <2>8, <4>1, <5>1, <5>2
    <3>2. i # 0
      BY <2>2, <2>8, <3>1
    <3> HIDE DEF i
    <3>3. ASSUME i # 1 PROVE FALSE
      <4>1. i \in 2 .. (m + 1)
        BY <2>7, <2>8, <3>1, <3>2, <3>3
      <4>2. i - 1 \in DOMAIN w.open
        BY <2>7, <4>1
      <4> QED
        BY <2>3, <2>8, <3>1, <3>2, <4>1, <4>2
    <3> QED
      BY <3>3
  <2>12. r = [v EXCEPT !.open = o]
    <3>1. r = [u EXCEPT !.open[1].use = @ + 1]
      BY <2>11
    <3> HIDE DEF r, i, o
    <3>2. x = [y[1] EXCEPT !.use = y[1].use + 1]
      BY <2>2, <2>8 DEF x
    <3>3. r = [u EXCEPT !.open = [y EXCEPT ![1] = [y[1] EXCEPT !.use = y[1].use + 1]]]
      BY <2>6, <3>1
    <3>4. r = [u EXCEPT !.open = o]
      BY <2>10, <3>2, <3>3
    <3> QED
      BY <1>7, <2>5, <3>4 DEF State, IsState
  <2> HIDE DEF o, r, i
  <2>13. ASSUME NEW j \in DOMAIN o
         PROVE  /\ o[j].addr \in DOMAIN w.ents /\ w.ents[o[j].addr] = o[j].fst
                /\ o[j].fst.name = o[j].path /\ o[j].use \in 1 .. MaxUse
    <3>1. CASE j = 1
      BY <1>4, <1>9, <2>2, <2>9, <3>1
    <3>2. CASE j # 1
      <4>1. j \in 2 .. (m + 1) /\ j - 1 \in DOMAIN w.open
        BY <2>7, <2>9, <3>2
      <4> QED
        BY <1>9, <2>9, <4>1
    <3> QED
      BY <3>1, <3>2
  <2>14. ASSUME NEW j \in DOMAIN o, NEW k \in DOMAIN o, o[j].path = o[k].path
         PROVE  j = k
    <3>1. \A h \in 2 .. (m + 1) : h - 1 \in DOMAIN w.open /\ o[h].path = w.open[h - 1].path /\ o[h].path # n
      <4>1. \A h \in 2 .. (m + 1) : h - 1 \in DOMAIN w.open
        BY <2>7
      <4> QED
        BY <2>3, <2>9, <4>1
    <3>2. o[1].path = n
      BY <2>2, <2>9
    <3>3. \A h \in DOMAIN o : h = 1 \/ h \in 2 .. (m + 1)
      BY <2>7, <2>9
    <3>4. CASE j = 1 \/ k = 1
      BY <2>14, <3>1, <3>2, <3>3, <3>4
    <3>5. CASE j \in 2 .. (m + 1) /\ k \in 2 .. (m + 1)
      <4>1. j - 1 = k - 1
        BY <1>9, <2>14, <3>1, <3>5
      <4> QED
        BY <2>7, <3>5, <4>1
    <3> QED
      BY <3>3, <3>4, <3>5
  <2>15. OpenOK(o, w.ents)
    BY <2>9, <2>13, <2>14 DEF OpenOK
  <2>16. Good(r) /\ r.am = w.am /\ r.dir = w.dir
    BY <1>10, <2>12, <2>15 DEF r
  <2> QED
    BY <1>1, <2>16 DEF r
<1> QED
  BY <1>11, <1>12

-----------------------------------------------------------------------------
(* The blocks of the directory.                                            *)

\* All blocks of all files
AllOf(e) == UNION {BlocksOf(e[a]) : a \in DOMAIN e}

\* The old pointer blocks of the directory are given back and new ones taken.
LEMMA RelistFacts ==
  ASSUME NEW w, IsState(w), AmOK(w.am), NEW list \in Seq(Bits),
         w.dir.ptrs \cap (AllOf(w.ents) \cup {0} \cup Range(list)) = {},
         w.am.map = AllOf(w.ents) \cup {0} \cup Range(list) \cup w.dir.ptrs
  PROVE  /\ IsState(Relist(w, list)) /\ AmOK(Relist(w, list).am)
         /\ Relist(w, list).ents = w.ents /\ Relist(w, list).files = w.files /\ Relist(w, list).label = w.label
         /\ Relist(w, list).cache = w.cache /\ Relist(w, list).open = w.open
         /\ Relist(w, list).dir.list = list /\ Relist(w, list).dir.ptrs \in SUBSET Bits
         /\ Relist(w, list).dir.ptrs \cap (AllOf(w.ents) \cup {0} \cup Range(list)) = {}
         /\ Relist(w, list).am.map = AllOf(w.ents) \cup {0} \cup Range(list) \cup Relist(w, list).dir.ptrs
         /\ ~ Relist(w, list).am.bug => ~ w.am.bug
         /\ Sized(Relist(w, list).am, Relist(w, list).dir)
         /\ ~ w.am.bug /\ w.am.reserved = 0 /\ w.am.used + PtrBlocks(Len(list)) <= Total + Cardinality(w.dir.ptrs)
              => ~ Relist(w, list).am.bug
<1> DEFINE g == GiveAll(w.am, w.dir.ptrs)
           k == PtrBlocks(Len(list))
           t == TakePtrs(g, k, FALSE)
           d == [list |-> list, ptrs |-> t.got]
           v == [w EXCEPT !.am = t.am, !.dir = d]
           B == AllOf(w.ents) \cup {0} \cup Range(list)
<1>1. Relist(w, list) = v
  BY DEF Relist
<1>2. w.am.map = B \cup w.dir.ptrs /\ w.dir.ptrs \cap B = {}
  OBVIOUS
<1> HIDE DEF B
<1>3. /\ AmOK(g) /\ g.map = B /\ g.bug = w.am.bug /\ g.reserved = w.am.reserved
      /\ g.used = w.am.used - Cardinality(w.dir.ptrs) /\ Cardinality(w.dir.ptrs) \in Nat
  <2>1. w.dir.ptrs \subseteq w.am.map
    BY <1>2
  <2>2. /\ AmOK(g) /\ g.map = w.am.map \ w.dir.ptrs /\ g.bug = w.am.bug /\ g.reserved = w.am.reserved
        /\ g.used = w.am.used - Cardinality(w.dir.ptrs) /\ Cardinality(w.dir.ptrs) \in Nat
    BY <2>1, GiveFacts
  <2> QED
    BY <1>2, <2>2
<1>4. k \in Nat
  <2>1. Len(list) \in Nat
    OBVIOUS
  <2> QED
    BY <2>1, PtrBlocksFacts
<1> HIDE DEF g, k
<1>5. /\ AmOK(t.am) /\ t.got \subseteq OnDisk /\ t.got \cap g.map = {} /\ t.am.map = g.map \cup t.got
      /\ ~ t.am.bug => ~ g.bug /\ Cardinality(t.got) = k
      /\ HasRoom(g, FALSE) /\ g.used + k <= Total => ~ t.am.bug
  BY <1>3, <1>4, PtrFacts
<1>6. t.got \in SUBSET Bits
  BY <1>5, Sizes
<1> HIDE DEF t
<1>7. d.list = list /\ d.ptrs = t.got /\ IsDir(d)
  BY DEF IsDir
<1> HIDE DEF d
<1>8. v = State(t.am, d, w.ents, w.files, w.label, w.cache, w.open)
  <2>1. v = [w EXCEPT !.am = t.am, !.dir = d]
    OBVIOUS
  <2> HIDE DEF v
  <2> QED
    BY <2>1 DEF IsState, State
<1> HIDE DEF v
<1>9. /\ IsState(v) /\ v.am = t.am /\ v.dir = d /\ v.ents = w.ents /\ v.files = w.files
      /\ v.label = w.label /\ v.cache = w.cache /\ v.open = w.open
  BY <1>7, <1>8, StateParts, StateFacts
<1>10. v.dir.ptrs \cap B = {} /\ v.am.map = B \cup v.dir.ptrs /\ (~ v.am.bug => ~ w.am.bug)
  BY <1>3, <1>5, <1>7, <1>9
<1>11. Sized(v.am, v.dir)
  BY <1>5, <1>7, <1>9 DEF Sized, k
<1>12. ASSUME ~ w.am.bug, w.am.reserved = 0, w.am.used + k <= Total + Cardinality(w.dir.ptrs)
       PROVE  ~ v.am.bug
  <2> DEFINE m == Cardinality(w.dir.ptrs)
  <2>1. w.am.used \in Nat /\ Total \in Nat /\ w.am.used <= Total /\ m \in Nat /\ g.used = w.am.used - m
        /\ w.am.used + k <= Total + m
    BY <1>3, <1>12, UsedFacts
  <2> HIDE DEF m
  <2>2. g.used + k <= Total /\ g.used + 0 <= Total
    BY <1>4, <2>1
  <2> QED
    BY <1>3, <1>5, <1>9, <1>12, <2>2 DEF HasRoom
<1> QED
  BY <1>1, <1>5, <1>6, <1>7, <1>9, <1>10, <1>11, <1>12 DEF B, k

\* A walk through more blocks is the same as long as it does not get there.
LEMMA SamePlaces ==
  ASSUME NEW l \in Seq(Bits), NEW m \in Seq(Bits), NEW n \in Nat, Len(l) <= Len(m),
         \A i \in 1 .. Len(l) : l[i] = m[i], First + n <= (Len(l) + 1) * Slots
  PROVE  Places(l, n) = Places(m, n)
<1> DEFINE k == Len(l)
<1>0. k \in Nat
  OBVIOUS
<1>1. Slots \in Nat \ {0} /\ (k + 1) * Slots \in Nat /\ First \in Nat /\ First >= Slots
  <2> HIDE DEF k
  <2> QED
    BY <1>0, Sizes DEF First
<1>2. ASSUME NEW p \in First .. (First + n - 1) PROVE At(l, p) = At(m, p)
  <2> DEFINE q == p \div Slots
  <2>1. p \in Slots .. ((k + 1) * Slots - 1)
    BY <1>1
  <2>2. q \in 1 .. k
    BY <2>1, PosFacts
  <2> HIDE DEF q
  <2>3. l[q] = m[q]
    BY <2>2
  <2>4. At(l, p) = <<l[q], p % Slots>> /\ At(m, p) = <<m[q], p % Slots>>
    BY DEF At, q
  <2> QED
    BY <2>3, <2>4
<1> QED
  BY <1>2 DEF Places

\* The directory grows by a block.
LEMMA GrownFacts ==
  ASSUME NEW w, Good(w), EmptySlot(w) = NoAddr, ~ Full(w.am)
  PROVE  /\ DiskOK(Grown(w)) /\ OpenOK(Grown(w).open, Grown(w).ents) /\ Grown(w).label = Grown(w).am.used
         /\ Grown(w).ents = w.ents /\ EmptySlot(Grown(w)) # NoAddr /\ Grown(w).open = w.open
         /\ Sized(Grown(w).am, Grown(w).dir)
         /\ /\ ~ w.am.bug /\ w.am.reserved = 0 /\ Sized(w.am, w.dir)
            /\ Total - w.am.used >= Levels(Len(w.dir.list)) + 2
            => ~ Grown(w).am.bug
<1> DEFINE b == FreeBlock(w.am)
           am2 == Take(w.am)
           e == w.ents
           l == w.dir.list
           n == w.files
           zeroed == [w EXCEPT !.am = am2, !.ents = Restrict(@, {a \in DOMAIN @ : a[1] # b})]
           list == Append(l, b)
           v == Relist(zeroed, list)
           u == [v EXCEPT !.label = v.am.used]
<1>1. Grown(w) = u
  BY DEF Grown
<1>2. /\ IsState(w) /\ DiskOK(w) /\ AmOK(w.am) /\ OpenOK(w.open, e)
      /\ Owned(w.am.map, w.dir, e) /\ EntsOK(e, w.am.bug)
      /\ w.label = w.am.used /\ NoEmptyBlock(l, n) /\ DirOK(l, e, n) /\ CacheOK(w.cache.map, e)
  BY GoodFacts DEF DiskOK
<1>3. b \in OnDisk \ w.am.map /\ AmOK(am2) /\ am2.map = w.am.map \cup {b} /\ am2.bug = w.am.bug
      /\ am2.used = w.am.used + 1 /\ am2.reserved = w.am.reserved
  BY <1>2, FreeFacts, TakeFacts
<1>4. b \in Bits
  BY <1>3, Sizes
<1> HIDE DEF b, am2
<1>5. /\ l \in Seq(Bits) /\ Len(l) \in Nat /\ Len(l) >= 1 /\ l[1] = Fdir /\ IsInjective(l) /\ 0 \notin Range(l)
      /\ n \in Nat /\ n + 2 <= Len(l) * Slots /\ Len(l) * Slots <= First + n /\ DOMAIN e = Places(l, n)
  BY <1>2 DEF DirOK
<1>6. /\ w.am.map = {0} \cup Range(l) \cup w.dir.ptrs \cup AllOf(e)
      /\ w.dir.ptrs \in SUBSET Bits /\ w.dir.ptrs \cap ({0} \cup Range(l)) = {}
      /\ \A a \in DOMAIN e : BlocksOf(e[a]) \cap ({0} \cup Range(l) \cup w.dir.ptrs) = {}
  BY <1>2 DEF Owned, BaseOf, AllOf
<1>7. zeroed = [w EXCEPT !.am = am2]
  <2>1. \A a \in DOMAIN e : a[1] # b
    BY <1>2, <1>3, <1>6, PlacesFacts
  <2>2. {a \in DOMAIN e : a[1] # b} = DOMAIN e
    BY <2>1
  <2>3. Restrict(e, DOMAIN e) = e
    BY <1>2 DEF Restrict, IsState
  <2>4. zeroed = [w EXCEPT !.am = am2, !.ents = e]
    BY <2>2, <2>3
  <2> HIDE DEF zeroed
  <2> QED
    BY <1>2, <2>4 DEF IsState
<1> HIDE DEF zeroed
<1>8. zeroed = State(am2, w.dir, e, n, w.label, w.cache, w.open)
  BY <1>2, <1>7 DEF IsState, State
<1>9. /\ IsState(zeroed) /\ zeroed.am = am2 /\ zeroed.dir = w.dir /\ zeroed.ents = e /\ zeroed.files = n
      /\ zeroed.label = w.label /\ zeroed.cache = w.cache /\ zeroed.open = w.open
  BY <1>2, <1>8, StateParts, StateFacts
<1>10. /\ list \in Seq(Bits) /\ Range(list) = Range(l) \cup {b} /\ IsInjective(list)
       /\ Len(list) = Len(l) + 1 /\ \A i \in 1 .. Len(l) : list[i] = l[i]
  <2>1. b \notin Range(l)
    BY <1>3, <1>6
  <2>2. Len(list) = Len(l) + 1 /\ \A i \in 1 .. Len(l) : list[i] = l[i]
    BY <1>4, <1>5
  <2> QED
    BY <1>4, <1>5, <2>1, <2>2, AppendFacts
<1> HIDE DEF list
<1> DEFINE E == AllOf(e)
<1>11. E \cap ({0} \cup Range(l) \cup w.dir.ptrs) = {}
  BY <1>6 DEF AllOf
<1>12. b \notin {0} \cup Range(l) \cup w.dir.ptrs \cup E
  BY <1>3, <1>6
<1>13. /\ IsState(v) /\ AmOK(v.am) /\ v.ents = e /\ v.files = n /\ v.label = w.label
       /\ v.cache = w.cache /\ v.open = w.open /\ v.dir.list = list /\ v.dir.ptrs \in SUBSET Bits
       /\ v.dir.ptrs \cap (E \cup {0} \cup Range(list)) = {}
       /\ v.am.map = E \cup {0} \cup Range(list) \cup v.dir.ptrs /\ (~ v.am.bug => ~ w.am.bug)
       /\ Sized(v.am, v.dir)
       /\ ~ am2.bug /\ am2.reserved = 0 /\ am2.used + PtrBlocks(Len(list)) <= Total + Cardinality(w.dir.ptrs)
             => ~ v.am.bug
  <2> HIDE DEF E
  <2>1. zeroed.dir.ptrs \cap (E \cup {0} \cup Range(list)) = {}
    BY <1>6, <1>9, <1>10, <1>11, <1>12
  <2>2. zeroed.am.map = E \cup {0} \cup Range(list) \cup zeroed.dir.ptrs
    BY <1>3, <1>6, <1>9, <1>10 DEF E
  <2>3. AmOK(zeroed.am) /\ zeroed.am.bug = w.am.bug
    BY <1>3, <1>9
  <2>4. /\ IsState(v) /\ AmOK(v.am) /\ v.ents = zeroed.ents /\ v.files = zeroed.files /\ v.label = zeroed.label
        /\ v.cache = zeroed.cache /\ v.open = zeroed.open /\ v.dir.list = list /\ v.dir.ptrs \in SUBSET Bits
        /\ v.dir.ptrs \cap (E \cup {0} \cup Range(list)) = {}
        /\ v.am.map = E \cup {0} \cup Range(list) \cup v.dir.ptrs /\ (~ v.am.bug => ~ zeroed.am.bug)
        /\ Sized(v.am, v.dir)
        /\ /\ ~ zeroed.am.bug /\ zeroed.am.reserved = 0
           /\ zeroed.am.used + PtrBlocks(Len(list)) <= Total + Cardinality(zeroed.dir.ptrs)
           => ~ v.am.bug
    <3>1. zeroed.dir.ptrs \cap (AllOf(zeroed.ents) \cup {0} \cup Range(list)) = {}
      BY <1>9, <2>1 DEF E
    <3>2. zeroed.am.map = AllOf(zeroed.ents) \cup {0} \cup Range(list) \cup zeroed.dir.ptrs
      BY <1>9, <2>2 DEF E
    <3>3. AllOf(zeroed.ents) = E
      BY <1>9 DEF E
    <3> HIDE DEF e
    <3> QED
      BY <1>9, <1>10, <2>3, <3>1, <3>2, <3>3, RelistFacts
  <2> QED
    BY <1>9, <2>3, <2>4
<1> HIDE DEF v
<1>14. u = State(v.am, v.dir, e, n, v.am.used, w.cache, w.open)
  <2>1. u = [v EXCEPT !.label = v.am.used]
    OBVIOUS
  <2>2. /\ v = [am |-> v.am, dir |-> v.dir, ents |-> v.ents, files |-> v.files, label |-> v.label,
               cache |-> v.cache, open |-> v.open]
        /\ v.ents = e /\ v.files = n /\ v.cache = w.cache /\ v.open = w.open
    BY <1>13 DEF IsState
  <2> HIDE DEF u, e, n
  <2> QED
    BY <2>1, <2>2 DEF State
<1> HIDE DEF u
<1>15. /\ IsState(u) /\ u.am = v.am /\ u.dir = v.dir /\ u.ents = e /\ u.files = n
       /\ u.label = v.am.used /\ u.cache = w.cache /\ u.open = w.open
  <2>1. IsDir(v.dir) /\ IsFun(e) /\ IsCache(w.cache)
    BY <1>2, <1>13, StateParts
  <2> QED
    BY <1>14, <2>1, StateFacts
<1>16. First + n = (Len(l) + 1) * Slots
  <2> DEFINE T == (Len(l) + 1) * Slots
  <2>1. First \in Nat /\ T \in Nat /\ n \in Nat /\ First + n <= T
    BY <1>2, Ranges
  <2>2. ~(First + n < T)
    <3>1. SUFFICES ASSUME First + n < T PROVE FALSE
      OBVIOUS
    <3>2. EmptySlot(w) = At(l, First + n)
      BY <1>2, <3>1, EmptyFacts
    <3>3. First + n \in Slots .. (T - 1)
      <4> HIDE DEF T
      <4> QED
        BY <2>1, <3>1, Sizes DEF First
    <3>4. At(l, First + n) # NoAddr
      BY <1>5, <3>3, AtFacts
    <3> QED
      BY <3>2, <3>4
  <2> HIDE DEF T
  <2>3. First + n = T
    BY <2>1, <2>2
  <2> QED
    BY <2>3 DEF T
<1> DEFINE m == Len(l)
<1>17. First = Slots + 2 /\ Slots \in Nat /\ Slots >= 3 /\ m \in Nat /\ (m + 1) * Slots = m * Slots + Slots /\ m * Slots \in Nat
       /\ (m + 2) * Slots = m * Slots + Slots + Slots
  <2>1. First = Slots + 2 /\ Slots \in Nat /\ Slots >= 3
    BY Sizes DEF First
  <2>2. m \in Nat
    BY <1>5
  <2> HIDE DEF m
  <2>3. (m + 1) * Slots = m * Slots + Slots /\ m * Slots \in Nat
    BY <2>1, <2>2
  <2>4. (m + 2) * Slots = m * Slots + Slots + Slots
    BY <2>1, <2>2
  <2> QED
    BY <2>1, <2>2, <2>3, <2>4
<1>18. DirOK(list, e, n)
  <2>1. Places(l, n) = Places(list, n)
    <3>1. First + n <= (Len(l) + 1) * Slots /\ Len(l) <= Len(list)
      BY <1>5, <1>10, <1>16, <1>17
    <3> QED
      BY <1>5, <1>10, <3>1, SamePlaces
  <2>2. Len(list) * Slots = m * Slots + Slots
    <3>1. Len(list) = m + 1
      BY <1>10
    <3> QED
      BY <1>17, <3>1
  <2>3. n + 2 <= Len(list) * Slots /\ Len(list) * Slots <= First + n
    <3> DEFINE k == m * Slots
    <3>1. k \in Nat /\ Len(list) * Slots = k + Slots /\ First + n = k + Slots
      BY <1>16, <1>17, <2>2
    <3> HIDE DEF k
    <3> QED
      BY <1>5, <1>17, <3>1
  <2>4. list[1] = Fdir /\ Len(list) >= 1
    BY <1>5, <1>10
  <2> QED
    BY <1>5, <1>10, <1>12, <2>1, <2>3, <2>4 DEF DirOK
<1>19. Owned(v.am.map, v.dir, e)
  <2>1. BaseOf(v.dir) = {0} \cup Range(list) \cup v.dir.ptrs
    BY <1>13 DEF BaseOf
  <2>2. ASSUME NEW a \in DOMAIN e PROVE BlocksOf(e[a]) \cap BaseOf(v.dir) = {}
    <3>1. BlocksOf(e[a]) \subseteq E
      BY DEF AllOf
    <3> QED
      BY <1>10, <1>11, <1>12, <1>13, <2>1, <3>1
  <2>3. \A a, c \in DOMAIN e : a # c => BlocksOf(e[a]) \cap BlocksOf(e[c]) = {}
    BY <1>2 DEF Owned
  <2>4. v.am.map = BaseOf(v.dir) \cup UNION {BlocksOf(e[a]) : a \in DOMAIN e}
    BY <1>13, <2>1 DEF AllOf
  <2>5. v.dir.ptrs \in SUBSET Bits /\ v.dir.ptrs \cap ({0} \cup Range(v.dir.list)) = {}
    BY <1>13
  <2> QED
    BY <2>2, <2>3, <2>4, <2>5 DEF Owned
<1>20. EntsOK(e, v.am.bug)
  BY <1>2, <1>13 DEF EntsOK
<1>21. DiskOK(u)
  BY <1>2, <1>13, <1>15, <1>18, <1>19, <1>20 DEF DiskOK
<1>22. EmptySlot(u) # NoAddr
  <2> DEFINE T == (m + 2) * Slots
  <2>1. DirOK(u.dir.list, u.ents, u.files)
    BY <1>21 DEF DiskOK
  <2>2. u.dir.list = list /\ u.files = n
    BY <1>13, <1>15
  <2>3. (Len(list) + 1) * Slots = T /\ First + n < T
    <3>1. Len(list) + 1 = m + 2
      BY <1>10, <1>17
    <3> DEFINE k == m * Slots
    <3>2. k \in Nat /\ T = k + Slots + Slots /\ First + n = k + Slots
      BY <1>16, <1>17
    <3> HIDE DEF k, T
    <3>3. First + n < T
      BY <1>17, <3>2
    <3> QED
      BY <3>1, <3>3 DEF T
  <2>4. EmptySlot(u) = At(list, First + n)
    BY <2>1, <2>2, <2>3, EmptyFacts
  <2>5. First + n \in Slots .. (T - 1)
    <3> DEFINE k == m * Slots
    <3>1. k \in Nat /\ T = k + Slots + Slots /\ First + n = k + Slots
      BY <1>16, <1>17
    <3> HIDE DEF k, T
    <3> QED
      BY <1>17, <3>1
  <2>6. 0 \notin Range(list)
    BY <1>5, <1>10, <1>12
  <2>7. At(list, First + n) # NoAddr
    BY <1>10, <2>3, <2>5, <2>6, AtFacts
  <2> QED
    BY <2>4, <2>7
<1>23. ASSUME ~ w.am.bug, w.am.reserved = 0, Sized(w.am, w.dir), Total - w.am.used >= Levels(Len(l)) + 2
       PROVE  ~ v.am.bug
  <2> DEFINE x == PtrBlocks(m)
             y == PtrBlocks(m + 1)
             k == Levels(m)
             u0 == w.am.used
  <2>1. x \in Nat /\ y \in Nat /\ k \in Nat /\ y <= x + k + 1
    <3>1. m \in Nat /\ m + 1 \in Nat
      BY <1>17
    <3> HIDE DEF m
    <3> QED
      BY <3>1, PtrBlocksFacts, LevelsFacts, GrowBound
  <2>2. u0 \in Nat /\ Total \in Nat /\ Total - u0 >= k + 2
    BY <1>2, <1>23, UsedFacts
  <2>3. Cardinality(w.dir.ptrs) = x /\ PtrBlocks(Len(list)) = y /\ am2.used = u0 + 1
    BY <1>3, <1>10, <1>23 DEF Sized
  <2>4. am2.reserved = 0 /\ ~ am2.bug
    BY <1>3, <1>23
  <2> HIDE DEF x, y, k, u0
  <2>5. u0 + 1 + y <= Total + x
    BY <2>1, <2>2
  <2> QED
    BY <1>13, <2>3, <2>4, <2>5
<1> QED
  BY <1>1, <1>2, <1>13, <1>15, <1>21, <1>22, <1>23

-----------------------------------------------------------------------------
(* Creating.                                                               *)

\* Slots up to and including the next one.
LEMMA NextPlace ==
  ASSUME NEW l, NEW n \in Nat
  PROVE  Places(l, n + 1) = Places(l, n) \cup {At(l, First + n)}
<1>1. First \in Nat
  BY Sizes DEF First
<1>2. First .. (First + (n + 1) - 1) = First .. (First + n - 1) \cup {First + n}
  BY <1>1
<1> QED
  BY <1>2, Zenon DEF Places

\* An empty file gets the first empty slot and is opened.
LEMMA AddedFacts ==
  ASSUME NEW w, DiskOK(w), OpenOK(w.open, w.ents), w.label = w.am.used, EmptySlot(w) # NoAddr,
         NEW n \in Names, \A a \in DOMAIN w.ents : w.ents[a].name # n
  PROVE  Good(Added(w, n)) /\ Added(w, n).am = w.am /\ Added(w, n).dir = w.dir
<1> DEFINE e == w.ents
           l == w.dir.list
           k == w.files
           a == EmptySlot(w)
           f == Fst(n, <<>>, {})
           d == Put(e, a, f)
           w1 == [w EXCEPT !.ents = d]
           v == CacheFst(w1, n, a)
           u == [v EXCEPT !.files = @ + 1]
<1>1. Added(w, n) = Opened(u, n)
  BY DEF Added
<1>2. /\ IsState(w) /\ AmOK(w.am) /\ DirOK(l, e, k) /\ EntsOK(e, w.am.bug)
      /\ Owned(w.am.map, w.dir, e) /\ CacheOK(w.cache.map, e)
  BY DEF DiskOK
<1>3. /\ l \in Seq(Bits) /\ Len(l) >= 1 /\ l[1] = Fdir /\ IsInjective(l) /\ 0 \notin Range(l)
      /\ k \in Nat /\ k + 2 <= Len(l) * Slots /\ Len(l) * Slots <= First + k /\ DOMAIN e = Places(l, k)
  BY <1>2 DEF DirOK
<1>4. /\ First \in Nat /\ (Len(l) + 1) * Slots \in Nat /\ Len(l) \in Nat
      /\ (Len(l) + 1) * Slots = Len(l) * Slots + Slots
      /\ First + k <= (Len(l) + 1) * Slots
  BY <1>2, Ranges
<1>5. First + k < (Len(l) + 1) * Slots /\ a = At(l, First + k)
  BY <1>2, EmptyFacts
<1>6. a \notin DOMAIN e
  <2> DEFINE T == (Len(l) + 1) * Slots
             p == First + k
  <2>1. p \in First .. (T - 1)
    <3> HIDE DEF T
    <3>1. T \in Nat /\ First \in Nat /\ k \in Nat /\ First + k < T
      BY <1>3, <1>4, <1>5 DEF T
    <3> QED
      BY <3>1
  <2>2. At(l, p) \in DOMAIN e <=> p < First + k
    BY <1>2, <2>1, PlacesFacts
  <2>3. ~(p < First + k)
    BY <1>3, <1>4
  <2> QED
    BY <1>5, <2>2, <2>3
<1> HIDE DEF a
<1>7. /\ f \in Entry /\ f.name = n /\ f.data = <<>> /\ f.meta = {} /\ IsInjective(f.data)
      /\ Range(f.data) = {} /\ BlocksOf(f) = {}
  <2>1. f.name = n /\ f.data = <<>> /\ f.meta = {}
    BY DEF Fst
  <2>2. f \in Entry
    BY DEF Fst, Entry
  <2>3. IsInjective(<<>>) /\ Range(<<>>) = {}
    BY DEF IsInjective, Range
  <2> QED
    BY <2>1, <2>2, <2>3 DEF BlocksOf
<1> HIDE DEF f
<1>8. DOMAIN d = DOMAIN e \cup {a} /\ d[a] = f /\ \A b \in DOMAIN e : d[b] = e[b]
  BY <1>6 DEF Put
<1>9. IsFun(d)
  BY PutIsFunction DEF IsFun
<1> HIDE DEF d
<1>10. CacheOK(w.cache.map, d)
  BY <1>2, <1>8 DEF CacheOK
<1>11. w1 = State(w.am, w.dir, d, w.files, w.label, w.cache, w.open)
  <2>1. w1 = [w EXCEPT !.ents = d]
    OBVIOUS
  <2> HIDE DEF w1
  <2> QED
    BY <1>2, <2>1 DEF IsState, State
<1> HIDE DEF w1
<1>12. /\ IsState(w1) /\ w1.am = w.am /\ w1.dir = w.dir /\ w1.ents = d /\ w1.files = w.files
       /\ w1.label = w.label /\ w1.cache = w.cache /\ w1.open = w.open
  BY <1>2, <1>9, <1>11, StateParts, StateFacts
<1>13. IsState(v) /\ ButCache(w1, v) /\ CacheOK(v.cache.map, d)
  <2>1. CacheOK(w1.cache.map, d) /\ a \in DOMAIN d /\ d[a].name = n
    BY <1>7, <1>8, <1>10, <1>12
  <2> QED
    BY <1>12, <2>1, CacheFstIs
<1> HIDE DEF v
<1>14. /\ v.am = w.am /\ v.dir = w.dir /\ v.ents = d /\ v.files = w.files
       /\ v.label = w.label /\ v.open = w.open
  BY <1>12, <1>13 DEF ButCache
<1>15. u = State(w.am, w.dir, d, k + 1, w.label, v.cache, w.open)
  <2>1. u = [v EXCEPT !.files = k + 1]
    BY <1>14
  <2> HIDE DEF u
  <2> QED
    BY <1>13, <1>14, <2>1 DEF IsState, State
<1> HIDE DEF u
<1>16. /\ IsState(u) /\ u.am = w.am /\ u.dir = w.dir /\ u.ents = d /\ u.files = k + 1
       /\ u.label = w.label /\ u.cache = v.cache /\ u.open = w.open
  <2>1. IsDir(w.dir) /\ IsCache(v.cache)
    BY <1>2, <1>13, StateParts
  <2> QED
    BY <1>9, <1>15, <2>1, StateFacts
<1>17. DirOK(l, d, k + 1) /\ NoEmptyBlock(l, k + 1)
  <2>1. Places(l, k + 1) = DOMAIN d
    BY <1>3, <1>5, <1>8, NextPlace
  <2> DEFINE x == Len(l) * Slots
             T == (Len(l) + 1) * Slots
  <2>2. /\ T = x + Slots /\ T \in Nat /\ First + k < T /\ k \in Nat /\ k + 2 <= x /\ x <= First + k
        /\ First = Slots + 2 /\ Slots \in Nat /\ x \in Int
    <3>1. First = Slots + 2 /\ Slots \in Nat
      BY Sizes DEF First
    <3>2. x \in Int
      BY <1>4, <3>1
    <3> QED
      BY <1>3, <1>4, <1>5, <3>1, <3>2
  <2> HIDE DEF x, T
  <2>3. k + 1 + 2 <= x /\ x <= First + (k + 1) /\ x < First + (k + 1)
    BY <2>2
  <2>4. k + 1 \in Nat
    BY <2>2
  <2> QED
    BY <1>3, <2>1, <2>3, <2>4 DEF DirOK, NoEmptyBlock, x
<1>18. EntsOK(d, w.am.bug)
  <2>1. ASSUME NEW b \in DOMAIN d
        PROVE  /\ d[b] \in Entry /\ IsInjective(d[b].data) /\ Range(d[b].data) \cap d[b].meta = {}
               /\ ~ w.am.bug => Cardinality(d[b].meta) = PtrBlocks(Len(d[b].data))
    <3>1. CASE b = a
      <4>1. Cardinality({}) = 0 /\ Len(<<>>) = 0
        BY FS_EmptySet
      <4> QED
        BY <1>7, <1>8, <3>1, <4>1, PtrBlocksFacts
    <3>2. CASE b # a
      BY <1>2, <1>8, <3>2 DEF EntsOK
    <3> QED
      BY <3>1, <3>2
  <2>2. ASSUME NEW b \in DOMAIN d, NEW c \in DOMAIN d, d[b].name = d[c].name
        PROVE  b = c
    BY <1>2, <1>7, <1>8, <2>2 DEF EntsOK
  <2> QED
    BY <2>1, <2>2 DEF EntsOK
<1>19. Owned(w.am.map, w.dir, d)
  <2>1. /\ w.dir.ptrs \in SUBSET Bits /\ w.dir.ptrs \cap ({0} \cup Range(w.dir.list)) = {}
        /\ w.am.map = BaseOf(w.dir) \cup UNION {BlocksOf(e[b]) : b \in DOMAIN e}
        /\ \A b \in DOMAIN e : BlocksOf(e[b]) \cap BaseOf(w.dir) = {}
        /\ \A b, c \in DOMAIN e : b # c => BlocksOf(e[b]) \cap BlocksOf(e[c]) = {}
    BY <1>2 DEF Owned
  <2> DEFINE B(x) == BlocksOf(x)
  <2>2. B(d[a]) = {} /\ \A b \in DOMAIN e : B(d[b]) = B(e[b])
    BY <1>7, <1>8
  <2>3. /\ w.am.map = BaseOf(w.dir) \cup UNION {B(e[b]) : b \in DOMAIN e}
        /\ \A b \in DOMAIN e : B(e[b]) \cap BaseOf(w.dir) = {}
        /\ \A b, c \in DOMAIN e : b # c => B(e[b]) \cap B(e[c]) = {}
    BY <2>1
  <2> HIDE DEF B
  <2>4. UNION {B(d[b]) : b \in DOMAIN d} = UNION {B(e[b]) : b \in DOMAIN e}
    BY <1>8, <2>2
  <2>5. \A b \in DOMAIN d : B(d[b]) \cap BaseOf(w.dir) = {}
    BY <1>8, <2>2, <2>3
  <2>6. \A b, c \in DOMAIN d : b # c => B(d[b]) \cap B(d[c]) = {}
    <3> SUFFICES ASSUME NEW b \in DOMAIN d, NEW c \in DOMAIN d, b # c PROVE B(d[b]) \cap B(d[c]) = {}
      OBVIOUS
    <3>1. CASE b = a \/ c = a
      BY <2>2, <3>1
    <3>2. CASE b \in DOMAIN e /\ c \in DOMAIN e
      BY <2>2, <2>3, <3>2
    <3> QED
      BY <1>8, <3>1, <3>2
  <2>7. w.am.map = BaseOf(w.dir) \cup UNION {B(d[b]) : b \in DOMAIN d}
    BY <2>3, <2>4
  <2> QED
    BY <2>1, <2>5, <2>6, <2>7 DEF Owned, B
<1>20. DiskOK(u)
  BY <1>2, <1>13, <1>16, <1>17, <1>18, <1>19 DEF DiskOK
<1>21. OpenOK(w.open, d)
  <2>1. \A j \in DOMAIN w.open : w.open[j].addr # a
    BY <1>6 DEF OpenOK
  <2> QED
    BY <2>1, OtherEntry DEF d
<1>22. Good(u)
  BY <1>16, <1>17, <1>20, <1>21 DEF Good
<1>23. Lookup(u, n, FALSE) # NoAddr
  <2>1. a \in DOMAIN u.ents /\ u.ents[a].name = n
    BY <1>7, <1>8, <1>16
  <2>2. Found(u, n) = a
    BY <1>20, <2>1, TheEntry
  <2>3. Lookup(u, n, FALSE) = Found(u, n)
    BY <1>20, LookupFacts
  <2>4. NoAddr \notin DOMAIN u.ents
    BY <1>20, NoAddrFacts
  <2> QED
    BY <2>1, <2>2, <2>3, <2>4
<1>24. FileOpen(u, n) = 0
  <2>1. /\ w.open \in Seq(ObjectType)
        /\ \A j \in DOMAIN w.open : w.open[j].path # n
    BY DEF OpenOK
  <2>2. u.open = w.open
    BY <1>16
  <2> DEFINE i == FileOpen(u, n)
  <2>3. i \in {0} \cup DOMAIN w.open /\ (i # 0 => w.open[i].path = n)
    BY <2>1, <2>2, FileOpenFacts
  <2> QED
    BY <2>1, <2>3
<1>25. Good(Opened(u, n)) /\ Opened(u, n).am = u.am /\ Opened(u, n).dir = u.dir
  BY <1>22, <1>23, <1>24, OpenedFacts
<1> QED
  BY <1>1, <1>16, <1>25

-----------------------------------------------------------------------------
(* Deleting.                                                               *)

\* The entries when one is deleted and the last one moves to its place
Moved(e, kill, last) == [b \in DOMAIN e \ {last} |-> IF b = kill THEN e[last] ELSE e[b]]

\* Each of the other entries is there, at its place or the new one
MovedOK(e, bug, map, d, kill, last) ==
  /\ EntsOK(Moved(e, kill, last), bug)
  /\ Owned(map \ BlocksOf(e[kill]), d, Moved(e, kill, last))
  /\ \A b \in DOMAIN Moved(e, kill, last) : Moved(e, kill, last)[b].name # e[kill].name
  /\ \A c \in DOMAIN e \ {kill} : \E b \in DOMAIN Moved(e, kill, last) : Moved(e, kill, last)[b].name = e[c].name

\* The entries without the deleted one are consistent, and the map without its
\* blocks is exactly theirs.
LEMMA MovedFacts ==
  ASSUME NEW e, NEW bug \in BOOLEAN, EntsOK(e, bug), NEW map, NEW d, Owned(map, d, e),
         NEW kill \in DOMAIN e, NEW last \in DOMAIN e
  PROVE  MovedOK(e, bug, map, d, kill, last)
<1> DEFINE m == Moved(e, kill, last)
           home(b) == IF b = kill THEN last ELSE b
           B(x) == BlocksOf(x)
           W == BaseOf(d)
<1>1. DOMAIN m = DOMAIN e \ {last} /\ \A b \in DOMAIN m : m[b] = e[home(b)]
  BY DEF Moved
<1> HIDE DEF m
<1>2. \A b \in DOMAIN m : home(b) \in DOMAIN e /\ home(b) # kill
  BY <1>1
<1>3. \A b, c \in DOMAIN m : home(b) = home(c) => b = c
  BY <1>1
<1>4. ASSUME NEW c \in DOMAIN e, c # kill PROVE \E b \in DOMAIN m : home(b) = c
  <2>1. CASE c = last
    BY <1>1, <1>4, <2>1
  <2>2. CASE c # last
    BY <1>1, <1>4, <2>2
  <2> QED
    BY <2>1, <2>2
<1> HIDE DEF home
<1>5. /\ \A a \in DOMAIN e : /\ e[a] \in Entry /\ IsInjective(e[a].data) /\ Range(e[a].data) \cap e[a].meta = {}
                             /\ ~ bug => Cardinality(e[a].meta) = PtrBlocks(Len(e[a].data))
      /\ \A a, b \in DOMAIN e : e[a].name = e[b].name => a = b
  BY DEF EntsOK
<1>6. EntsOK(m, bug)
  <2>1. \A b \in DOMAIN m : /\ m[b] \in Entry /\ IsInjective(m[b].data) /\ Range(m[b].data) \cap m[b].meta = {}
                            /\ ~ bug => Cardinality(m[b].meta) = PtrBlocks(Len(m[b].data))
    BY <1>1, <1>2, <1>5
  <2>2. ASSUME NEW b \in DOMAIN m, NEW c \in DOMAIN m, m[b].name = m[c].name PROVE b = c
    <3>1. home(b) = home(c)
      BY <1>1, <1>2, <1>5, <2>2
    <3> QED
      BY <1>3, <3>1
  <2> QED
    BY <2>1, <2>2 DEF EntsOK
<1>7. /\ d.ptrs \in SUBSET Bits /\ d.ptrs \cap ({0} \cup Range(d.list)) = {}
      /\ map = W \cup UNION {B(e[a]) : a \in DOMAIN e}
      /\ \A a \in DOMAIN e : B(e[a]) \cap W = {}
      /\ \A a, b \in DOMAIN e : a # b => B(e[a]) \cap B(e[b]) = {}
  BY DEF Owned
<1> HIDE DEF B, W
<1>8. map \ B(e[kill]) = W \cup UNION {B(e[a]) : a \in DOMAIN e \ {kill}}
  BY <1>7
<1>9. UNION {B(e[a]) : a \in DOMAIN e \ {kill}} = UNION {B(m[b]) : b \in DOMAIN m}
  <2>1. ASSUME NEW x \in UNION {B(e[a]) : a \in DOMAIN e \ {kill}} PROVE x \in UNION {B(m[b]) : b \in DOMAIN m}
    <3>1. PICK a \in DOMAIN e \ {kill} : x \in B(e[a])
      OBVIOUS
    <3>2. PICK b \in DOMAIN m : home(b) = a
      BY <1>4
    <3>3. x \in B(m[b])
      BY <1>1, <3>1, <3>2
    <3> QED
      BY <3>3
  <2>2. ASSUME NEW x \in UNION {B(m[b]) : b \in DOMAIN m} PROVE x \in UNION {B(e[a]) : a \in DOMAIN e \ {kill}}
    <3>1. PICK b \in DOMAIN m : x \in B(m[b])
      OBVIOUS
    <3>2. home(b) \in DOMAIN e \ {kill} /\ x \in B(e[home(b)])
      BY <1>1, <1>2, <3>1
    <3> QED
      BY <3>2
  <2> QED
    BY <2>1, <2>2
<1>10. Owned(map \ B(e[kill]), d, m)
  <2>1. map \ B(e[kill]) = W \cup UNION {B(m[b]) : b \in DOMAIN m}
    BY <1>8, <1>9
  <2>2. \A b \in DOMAIN m : B(m[b]) \cap W = {}
    BY <1>1, <1>2, <1>7
  <2>3. \A b, c \in DOMAIN m : b # c => B(m[b]) \cap B(m[c]) = {}
    BY <1>1, <1>2, <1>3, <1>7
  <2> QED
    BY <1>7, <2>1, <2>2, <2>3 DEF Owned, B, W
<1>11. \A b \in DOMAIN m : m[b].name # e[kill].name
  BY <1>1, <1>2, <1>5
<1>12. ASSUME NEW c \in DOMAIN e \ {kill} PROVE \E b \in DOMAIN m : m[b].name = e[c].name
  <2>1. PICK b \in DOMAIN m : home(b) = c
    BY <1>4
  <2> QED
    BY <1>1, <2>1
<1> QED
  BY <1>6, <1>10, <1>11, <1>12 DEF m, B, MovedOK

\* update_htab_entry.
LEMMA RecacheFacts ==
  ASSUME NEW w, IsState(w), NEW n, NEW a
  PROVE  /\ IsState(Recache(w, n, a)) /\ ButCache(w, Recache(w, n, a))
         /\ DOMAIN Recache(w, n, a).cache.map = DOMAIN w.cache.map
         /\ \A x \in DOMAIN w.cache.map : Recache(w, n, a).cache.map[x] = IF x = n THEN a ELSE w.cache.map[x]
<1>1. CASE n \in DOMAIN w.cache.map
  <2> DEFINE m == [w.cache.map EXCEPT ![n] = a]
             v == [w EXCEPT !.cache.map = m]
  <2>1. Recache(w, n, a) = v
    BY <1>1 DEF Recache
  <2>2. /\ m = [x \in DOMAIN m |-> m[x]] /\ DOMAIN m = DOMAIN w.cache.map
        /\ \A x \in DOMAIN w.cache.map : m[x] = IF x = n THEN a ELSE w.cache.map[x]
    OBVIOUS
  <2> HIDE DEF m
  <2>3. IsState(v) /\ ButCache(w, v) /\ v.cache.map = m
    BY <2>2 DEF IsState, ButCache
  <2> HIDE DEF v
  <2> QED
    BY <2>1, <2>2, <2>3
<1>2. CASE n \notin DOMAIN w.cache.map
  BY <1>2 DEF Recache, ButCache
<1> QED
  BY <1>1, <1>2

\* The directory and the cache without the deleted file.
LEMMA CopiedFacts ==
  ASSUME NEW w, IsState(w), CacheOK(w.cache.map, w.ents), EntsOK(w.ents, w.am.bug),
         NEW kill \in DOMAIN w.ents, NEW last \in DOMAIN w.ents,
         NEW v, v = PoppedOnly(Copied(Recache(w, w.ents[kill].name, NoAddr), kill, last), last)
  PROVE  /\ IsState(v) /\ v.am = w.am /\ v.dir = w.dir /\ v.files = w.files
         /\ v.label = w.label /\ v.open = w.open
         /\ v.ents = Moved(w.ents, kill, last)
         /\ CacheOK(v.cache.map, v.ents)
<1> DEFINE e == w.ents
           n == e[kill].name
           m == Moved(e, kill, last)
           r == Recache(w, n, NoAddr)
           p == Put(e, kill, e[last])
           q == [r EXCEPT !.ents = Put(@, kill, r.ents[last])]
           s == Copied(r, kill, last)
           C == w.cache.map
<1>0. v = PoppedOnly(s, last)
  OBVIOUS
<1>1. /\ IsState(r) /\ ButCache(w, r) /\ DOMAIN r.cache.map = DOMAIN C
      /\ \A x \in DOMAIN C : r.cache.map[x] = IF x = n THEN NoAddr ELSE C[x]
  BY RecacheFacts
<1>2. /\ r.am = w.am /\ r.dir = w.dir /\ r.ents = e /\ r.files = w.files /\ r.label = w.label /\ r.open = w.open
  BY <1>1 DEF ButCache
<1> HIDE DEF r
<1>3. /\ IsFun(m) /\ DOMAIN m = DOMAIN e \ {last}
      /\ \A b \in DOMAIN m : m[b] = IF b = kill THEN e[last] ELSE e[b]
  BY DEF Moved, IsFun
<1>4. \A a, b \in DOMAIN e : e[a].name = e[b].name => a = b
  BY DEF EntsOK
<1>5. /\ DOMAIN C \subseteq Names
      /\ \A x \in DOMAIN C : C[x] # NoAddr => C[x] \in DOMAIN e /\ e[C[x]].name = x
  BY DEF CacheOK
<1>6. ASSUME NEW t, NEW d, t = State(w.am, w.dir, d, w.files, w.label, t.cache, w.open), IsCache(t.cache), IsFun(d),
             s = t, Restrict(d, DOMAIN d \ {last}) = m
      PROVE  /\ IsState(v) /\ v.am = w.am /\ v.dir = w.dir /\ v.files = w.files
             /\ v.label = w.label /\ v.open = w.open /\ v.ents = m /\ v.cache = t.cache
  <2>1. t.ents = d
    <3>1. t.ents = State(w.am, w.dir, d, w.files, w.label, t.cache, w.open).ents
      BY <1>6, Zenon
    <3> QED
      BY <3>1 DEF State
  <2>2. v = [t EXCEPT !.ents = m]
    <3>1. v = PoppedOnly(t, last)
      BY <1>0, <1>6
    <3>2. PoppedOnly(t, last) = [t EXCEPT !.ents = Restrict(t.ents, DOMAIN t.ents \ {last})]
      BY DEF PoppedOnly
    <3> QED
      <4>1. Restrict(t.ents, DOMAIN t.ents \ {last}) = m
        BY <1>6, <2>1, Zenon
      <4> HIDE DEF m
      <4> QED
        BY <3>1, <3>2, <4>1, Zenon
  <2> HIDE DEF m
  <2> DEFINE c == t.cache
  <2>3. t = State(w.am, w.dir, d, w.files, w.label, c, w.open)
    BY <1>6
  <2> HIDE DEF c
  <2>4. v = State(w.am, w.dir, m, w.files, w.label, c, w.open)
    BY <2>2, <2>3 DEF State
  <2>5. IsDir(w.dir) /\ IsCache(c)
    BY <1>6, StateParts DEF c
  <2> QED
    BY <1>3, <2>4, <2>5, StateFacts DEF c
<1>7. CASE last = kill
  <2>1. s = r
    BY <1>7 DEF Copied
  <2>2. r = State(w.am, w.dir, e, w.files, w.label, r.cache, w.open) /\ IsCache(r.cache) /\ IsFun(e)
    BY <1>1, <1>2, StateParts
  <2>3. Restrict(e, DOMAIN e \ {last}) = m
    BY <1>7 DEF Restrict, Moved
  <2> HIDE DEF m, s
  <2>4. /\ IsState(v) /\ v.am = w.am /\ v.dir = w.dir /\ v.files = w.files
        /\ v.label = w.label /\ v.open = w.open /\ v.ents = m /\ v.cache = r.cache
    BY <1>6, <2>1, <2>2, <2>3
  <2>5. CacheOK(r.cache.map, m)
    <3>1. ASSUME NEW x \in DOMAIN C, r.cache.map[x] # NoAddr
          PROVE  r.cache.map[x] \in DOMAIN m /\ m[r.cache.map[x]].name = x
      <4>1. x # n /\ r.cache.map[x] = C[x] /\ C[x] \in DOMAIN e /\ e[C[x]].name = x
        BY <1>1, <1>5, <3>1
      <4>2. C[x] # kill
        BY <4>1
      <4> QED
        BY <1>3, <1>7, <4>1, <4>2
    <3> QED
      BY <1>1, <1>5, <3>1 DEF CacheOK
  <2> QED
    BY <2>4, <2>5 DEF m
<1>8. CASE last # kill
  <2> DEFINE g == e[last].name
             t == Recache(q, g, kill)
  <2>1. q = [r EXCEPT !.ents = p]
    BY <1>2
  <2>2. s = t
    BY <1>2, <1>8 DEF Copied
  <2>3. IsFun(p) /\ DOMAIN p = DOMAIN e /\ \A b \in DOMAIN e : p[b] = IF b = kill THEN e[last] ELSE e[b]
    <3>1. IsFun(p)
      BY PutIsFunction DEF IsFun
    <3>2. DOMAIN p = DOMAIN e \cup {kill} /\ \A b \in DOMAIN e : p[b] = IF b = kill THEN e[last] ELSE e[b]
      BY DEF Put
    <3> QED
      BY <3>1, <3>2
  <2>4. Restrict(p, DOMAIN p \ {last}) = m
    <3> HIDE DEF p, m
    <3> QED
      BY <1>3, <2>3 DEF Restrict, IsFun
  <2> HIDE DEF p, q, s, m
  <2>5. q = State(w.am, w.dir, p, w.files, w.label, r.cache, w.open)
    BY <1>1, <1>2, <2>1 DEF IsState, State
  <2>6. /\ IsState(q) /\ q.am = w.am /\ q.dir = w.dir /\ q.ents = p /\ q.files = w.files
        /\ q.label = w.label /\ q.cache = r.cache /\ q.open = w.open
    <3>1. IsDir(w.dir) /\ IsCache(r.cache)
      BY <1>1, StateParts
    <3> QED
      BY <2>3, <2>5, <3>1, StateFacts
  <2>7. /\ IsState(t) /\ ButCache(q, t) /\ DOMAIN t.cache.map = DOMAIN C
        /\ \A x \in DOMAIN C : t.cache.map[x] = IF x = g THEN kill ELSE r.cache.map[x]
    <3>1. /\ IsState(t) /\ ButCache(q, t) /\ DOMAIN t.cache.map = DOMAIN q.cache.map
          /\ \A x \in DOMAIN q.cache.map : t.cache.map[x] = IF x = g THEN kill ELSE q.cache.map[x]
      BY <2>6, RecacheFacts
    <3> QED
      BY <1>1, <2>6, <3>1
  <2> HIDE DEF t
  <2>8. t = State(w.am, w.dir, p, w.files, w.label, t.cache, w.open) /\ IsCache(t.cache)
    <3>1. t = State(t.am, t.dir, t.ents, t.files, t.label, t.cache, t.open) /\ IsCache(t.cache)
      BY <2>7, StateParts
    <3> QED
      BY <2>6, <2>7, <3>1 DEF ButCache
  <2>9. /\ IsState(v) /\ v.am = w.am /\ v.dir = w.dir /\ v.files = w.files
        /\ v.label = w.label /\ v.open = w.open /\ v.ents = m /\ v.cache = t.cache
    BY <1>6, <2>2, <2>3, <2>4, <2>8
  <2>10. CacheOK(t.cache.map, m)
    <3>1. ASSUME NEW x \in DOMAIN C, t.cache.map[x] # NoAddr
          PROVE  t.cache.map[x] \in DOMAIN m /\ m[t.cache.map[x]].name = x
      <4>1. CASE x = g
        BY <1>3, <1>8, <2>7, <4>1
      <4>2. CASE x # g
        <5>1. t.cache.map[x] = r.cache.map[x]
          BY <2>7, <4>2
        <5>2. x # n /\ r.cache.map[x] = C[x] /\ C[x] \in DOMAIN e /\ e[C[x]].name = x
          BY <1>1, <1>5, <3>1, <5>1
        <5>3. C[x] # kill /\ C[x] # last
          BY <4>2, <5>2
        <5> QED
          BY <1>3, <5>1, <5>2, <5>3
      <4> QED
        BY <4>1, <4>2
    <3> QED
      BY <1>5, <2>7, <3>1 DEF CacheOK
  <2> QED
    BY <2>9, <2>10 DEF m
<1> QED
  BY <1>7, <1>8

\* All but the last block of a list
LEMMA FrontFacts ==
  ASSUME NEW l \in Seq(Bits), Len(l) >= 2, IsInjective(l)
  PROVE  /\ Front(l) \in Seq(Bits) /\ Len(Front(l)) = Len(l) - 1 /\ IsInjective(Front(l))
         /\ \A i \in 1 .. Len(Front(l)) : Front(l)[i] = l[i]
         /\ Range(l) = Range(Front(l)) \cup {l[Len(l)]} /\ l[Len(l)] \notin Range(Front(l)) /\ l[Len(l)] \in Bits
<1> DEFINE m == Len(l)
           f == Front(l)
<1>1. m \in Nat /\ m >= 2 /\ DOMAIN l = 1 .. m /\ l[m] \in Bits
  OBVIOUS
<1>2. f \in Seq(Bits) /\ Len(f) = m - 1 /\ DOMAIN f = 1 .. (m - 1) /\ \A i \in 1 .. (m - 1) : f[i] = l[i]
  BY DEF Front
<1> HIDE DEF m, f
<1>3. 1 .. (m - 1) \subseteq 1 .. m /\ 1 .. m = 1 .. (m - 1) \cup {m} /\ m \notin 1 .. (m - 1) /\ m \in 1 .. m
  BY <1>1
<1>4. IsInjective(f)
  BY <1>1, <1>2, <1>3 DEF IsInjective
<1>5. Range(l) = Range(f) \cup {l[m]}
  BY <1>1, <1>2, <1>3 DEF Range
<1>6. l[m] \notin Range(f)
  <2>1. ASSUME NEW i \in 1 .. (m - 1), f[i] = l[m] PROVE FALSE
    <3>1. i = m
      BY <1>1, <1>2, <1>3, <2>1 DEF IsInjective
    <3> QED
      BY <1>3, <3>1
  <2> QED
    BY <1>2, <2>1 DEF Range
<1> QED
  BY <1>1, <1>2, <1>4, <1>5, <1>6 DEF m, f

\* The directory without its last entry, and without its last block if that
\* was its first entry
Shorter(l, d, k, last) ==
  /\ last[2] # 0 => DirOK(l, d, k - 1) /\ NoEmptyBlock(l, k - 1)
  /\ last[2] = 0 => /\ DirOK(Front(l), d, k - 1) /\ NoEmptyBlock(Front(l), k - 1)
                    /\ Len(l) >= 2 /\ last[1] = l[Len(l)]

\* The list of blocks of the directory stays packed when its last entry goes,
\* with the block if it was the first in it.
LEMMA ShorterFacts ==
  ASSUME NEW l, NEW e, NEW k, DirOK(l, e, k), NoEmptyBlock(l, k), k > 0,
         NEW last, last = At(l, First + k - 1), (First + k - 1) \div Slots = Len(l),
         NEW d, DOMAIN d = DOMAIN e \ {last}
  PROVE  Shorter(l, d, k, last)
<1> DEFINE m == Len(l)
           p == First + k - 1
           x == m * Slots
           r == p % Slots
           j == k - 1
<1>1. /\ l \in Seq(Bits) /\ m \in Nat /\ m >= 1 /\ l[1] = Fdir /\ IsInjective(l) /\ 0 \notin Range(l)
      /\ k \in Nat /\ k + 2 <= x /\ x <= First + k /\ DOMAIN e = Places(l, k)
  BY DEF DirOK
<1>2. First = Slots + 2 /\ Slots \in Nat \ {0} /\ Slots >= 3
  BY Sizes DEF First
<1>3. j \in Nat /\ k = j + 1 /\ p = First + j /\ p \in Nat
  BY <1>1, <1>2
<1>4. p = x + r /\ r \in 0 .. (Slots - 1) /\ x \in Nat
  <2>1. p = (p \div Slots) * Slots + r /\ r \in 0 .. (Slots - 1)
    BY <1>2, <1>3, DivFacts
  <2>2. p \div Slots = m
    OBVIOUS
  <2>3. p = m * Slots + r
    BY <2>1, <2>2
  <2> HIDE DEF m
  <2>4. m * Slots \in Nat
    BY <1>1, <1>2
  <2> QED
    BY <2>1, <2>3, <2>4
<1>5. last[2] = r /\ last[1] = l[m] /\ last = At(l, p)
  BY DEF At
<1>6. (m + 1) * Slots = x + Slots /\ m * Slots = x
  <2>1. m \in Nat /\ Slots \in Nat
    BY <1>1, <1>2
  <2> HIDE DEF m
  <2> QED
    BY <2>1
<1>7. Places(l, j) = DOMAIN d
  <2>1. Places(l, k) = Places(l, j) \cup {At(l, First + j)}
    BY <1>3, NextPlace
  <2>2. At(l, First + j) = last
    BY <1>3, <1>5
  <2>3. last \notin Places(l, j)
    <3>1. SUFFICES ASSUME NEW q \in First .. (First + j - 1), At(l, q) = last PROVE FALSE
      BY DEF Places
    <3> DEFINE T == (m + 1) * Slots
    <3>2. T = x + Slots
      BY <1>6
    <3> HIDE DEF T, x, p, r, j
    <3>3. p \in Slots .. (T - 1) /\ q \in Slots .. (T - 1) /\ p # q
      BY <1>2, <1>3, <1>4, <3>2
    <3>4. At(l, p) = At(l, q)
      BY <1>5, <3>1
    <3> QED
      BY <1>1, <3>3, <3>4, AtFacts DEF T
  <2> QED
    BY <1>1, <2>1, <2>2, <2>3
<1>8. CASE r # 0
  <2> HIDE DEF m, p, r, x, j
  <2>1. j + 2 <= x /\ x <= First + j /\ x < First + j
    BY <1>1, <1>2, <1>3, <1>4, <1>8
  <2>2. DirOK(l, d, j) /\ NoEmptyBlock(l, j)
    BY <1>1, <1>3, <1>7, <2>1 DEF DirOK, NoEmptyBlock, m, x
  <2> QED
    BY <1>5, <1>8, <2>2 DEF j, Shorter
<1>9. CASE r = 0
  <2> DEFINE f == Front(l)
             y == (m - 1) * Slots
  <2>1. p = x
    <3> HIDE DEF p, x, r
    <3> QED
      BY <1>4, <1>9
  <2>2. m >= 2
    <3> HIDE DEF m
    <3>1. SUFFICES ASSUME m = 1 PROVE FALSE
      BY <1>1
    <3>2. x = Slots
      BY <1>2, <3>1
    <3> HIDE DEF x, p
    <3> QED
      BY <1>2, <1>3, <2>1, <3>2
  <2>3. x = y + Slots /\ y \in Nat
    <3>1. m \in Nat /\ Slots \in Nat
      BY <1>1, <1>2
    <3> HIDE DEF m
    <3>2. m * Slots = (m - 1) * Slots + Slots
      BY <3>1
    <3>3. (m - 1) * Slots \in Nat
      BY <2>2, <3>1
    <3> QED
      BY <3>2, <3>3
  <2>4. /\ f \in Seq(Bits) /\ Len(f) = m - 1 /\ IsInjective(f) /\ \A i \in 1 .. Len(f) : f[i] = l[i]
        /\ Range(l) = Range(f) \cup {l[m]}
    BY <1>1, <2>2, FrontFacts
  <2> HIDE DEF f
  <2>5. Len(f) >= 1 /\ f[1] = Fdir /\ 0 \notin Range(f)
    BY <1>1, <2>2, <2>4
  <2>6. Len(f) * Slots = y /\ (Len(f) + 1) * Slots = x
    <3>1. Len(f) = m - 1 /\ Len(f) + 1 = m
      BY <1>1, <2>4
    <3> QED
      BY <3>1
  <2>7. Places(f, j) = DOMAIN d
    <3>1. First + j <= (Len(f) + 1) * Slots
      BY <1>3, <2>1, <2>6
    <3>2. Len(f) <= Len(l)
      BY <1>1, <2>4
    <3>3. Places(f, j) = Places(l, j)
      BY <1>1, <1>3, <2>4, <3>1, <3>2, SamePlaces
    <3> QED
      BY <1>7, <3>3
  <2>8. j + 2 <= y /\ y <= First + j /\ y < First + j
    <3> HIDE DEF x, y, j, p
    <3> QED
      BY <1>2, <1>3, <2>1, <2>3
  <2> HIDE DEF y, j
  <2>9. DirOK(f, d, j) /\ NoEmptyBlock(f, j)
    BY <1>3, <2>4, <2>5, <2>6, <2>7, <2>8 DEF DirOK, NoEmptyBlock
  <2> QED
    BY <1>5, <1>9, <2>2, <2>9 DEF f, j, m, Shorter
<1> QED
  BY <1>8, <1>9

\* What holds between two operations, the open files apart
Settled(w) == DiskOK(w) /\ NoEmptyBlock(w.dir.list, w.files) /\ w.label = w.am.used

\* The names in the directory
NamesIn(e) == {e[a].name : a \in DOMAIN e}

\* delete_file.
LEMMA DeletedFacts ==
  ASSUME NEW w, Settled(w), NEW n
  PROVE  /\ Settled(Deleted(w, n)) /\ Deleted(w, n).open = w.open
         /\ NamesIn(Deleted(w, n).ents) = NamesIn(w.ents) \ {n}
         /\ Safe(w.am, w.dir, Deleted(w, n).am, Deleted(w, n).dir)
<1> DEFINE kill == Lookup(w, n, FALSE)
           v == LookedUp(w, n, FALSE)
           e == v.ents
           l == v.dir.list
           k == v.files
           gone == BlocksOf(e[kill])
           am1 == GiveAll(v.am, gone)
           freed == [v EXCEPT !.am = am1]
           last == LastEntry(v)
           c == Copied(Recache(freed, n, NoAddr), kill, last)
           o == PoppedOnly(c, last)
           d == Moved(e, kill, last)
           u == Popped(c, last)
           z == [u EXCEPT !.files = @ - 1, !.label = u.am.used]
<1>1. Deleted(w, n) = IF kill = NoAddr THEN w ELSE IF last = NoAddr THEN [v EXCEPT !.am.bug = TRUE] ELSE z
  BY DEF Deleted
<1>2. u = IF last[2] # 0 THEN o ELSE Relist([o EXCEPT !.am = GiveAll(o.am, {last[1]})], Front(o.dir.list))
  BY DEF Popped, PoppedOnly
<1>3. DiskOK(w) /\ NoEmptyBlock(w.dir.list, w.files) /\ w.label = w.am.used
  BY DEF Settled
<1>4. /\ kill # NoAddr => kill \in DOMAIN w.ents /\ w.ents[kill].name = n
      /\ kill = NoAddr => \A a \in DOMAIN w.ents : w.ents[a].name # n
  BY <1>3, LookupFacts
<1>5. CASE kill = NoAddr
  <2>1. Deleted(w, n) = w
    BY <1>1, <1>5
  <2>2. n \notin NamesIn(w.ents)
    BY <1>4, <1>5 DEF NamesIn
  <2>3. AmOK(w.am)
    BY <1>3 DEF DiskOK
  <2>4. Safe(w.am, w.dir, w.am, w.dir)
    BY <2>3 DEF Safe
  <2> QED
    BY <1>3, <2>1, <2>2, <2>4 DEF Settled
<1>6. CASE kill # NoAddr
  <2>1. DiskOK(v) /\ ButCache(w, v)
    BY <1>3, LookedUpFacts
  <2> HIDE DEF kill, v
  <2>2. /\ v.am = w.am /\ v.dir = w.dir /\ e = w.ents /\ k = w.files /\ v.label = w.label /\ v.open = w.open
        /\ NoEmptyBlock(l, k)
    BY <1>3, <2>1 DEF ButCache
  <2>3. /\ IsState(v) /\ AmOK(v.am) /\ DirOK(l, e, k) /\ EntsOK(e, v.am.bug)
        /\ Owned(v.am.map, v.dir, e) /\ CacheOK(v.cache.map, e)
    BY <2>1 DEF DiskOK
  <2>4. kill \in DOMAIN e /\ e[kill].name = n
    BY <1>4, <1>6, <2>2
  <2>5. k > 0 /\ k \in Nat
    <3>1. k \in Nat /\ DOMAIN e = Places(l, k)
      BY <2>3 DEF DirOK
    <3>2. k # 0
      <4>1. SUFFICES ASSUME k = 0 PROVE FALSE
        OBVIOUS
      <4>2. First .. (First + k - 1) = {}
        BY <4>1, Sizes DEF First
      <4> HIDE DEF k, e, l
      <4>3. Places(l, k) = {}
        BY <4>2 DEF Places
      <4> QED
        BY <2>4, <3>1, <4>3
    <3> QED
      BY <3>1, <3>2
  <2>6. /\ last = At(l, First + k - 1) /\ (First + k - 1) \div Slots = Len(l) /\ last \in DOMAIN e
    BY <2>2, <2>3, <2>5, LastFacts
  <2> HIDE DEF last
  <2>7. last # NoAddr
    BY <2>1, <2>6, NoAddrFacts
  <2>8. gone \subseteq v.am.map
    BY <2>1, <2>4, BlocksFacts
  <2> HIDE DEF gone
  <2>9. /\ AmOK(am1) /\ am1.map = v.am.map \ gone /\ am1.bug = v.am.bug
        /\ am1.reserved = v.am.reserved /\ am1.used <= v.am.used
    <3>1. v.am.used \in Nat
      BY <2>3, UsedFacts
    <3> HIDE DEF v
    <3> QED
      BY <2>3, <2>8, <3>1, GiveFacts
  <2> HIDE DEF am1
  <2>10. freed = State(am1, v.dir, v.ents, v.files, v.label, v.cache, v.open)
    BY <2>3 DEF IsState, State
  <2> HIDE DEF freed
  <2>11. /\ IsState(freed) /\ freed.am = am1 /\ freed.dir = v.dir /\ freed.ents = e /\ freed.files = k
         /\ freed.label = v.label /\ freed.cache = v.cache /\ freed.open = v.open
    BY <2>3, <2>10, StateParts, StateFacts
  <2>12. /\ IsState(o) /\ o.am = am1 /\ o.dir = v.dir /\ o.files = k
         /\ o.label = v.label /\ o.open = v.open /\ o.ents = d /\ CacheOK(o.cache.map, d)
    <3>1. CacheOK(freed.cache.map, freed.ents) /\ EntsOK(freed.ents, freed.am.bug)
          /\ kill \in DOMAIN freed.ents /\ last \in DOMAIN freed.ents
      BY <2>3, <2>4, <2>6, <2>9, <2>11
    <3>2. o = PoppedOnly(Copied(Recache(freed, freed.ents[kill].name, NoAddr), kill, last), last)
      BY <2>4, <2>11
    <3> HIDE DEF o
    <3>3. /\ IsState(o) /\ o.am = freed.am /\ o.dir = freed.dir /\ o.files = freed.files
          /\ o.label = freed.label /\ o.open = freed.open
          /\ o.ents = Moved(freed.ents, kill, last) /\ CacheOK(o.cache.map, o.ents)
      BY <2>11, <3>1, <3>2, CopiedFacts
    <3> QED
      BY <2>11, <3>3
  <2> HIDE DEF c, o
  <2>13. /\ EntsOK(d, v.am.bug) /\ Owned(v.am.map \ gone, v.dir, d)
         /\ NamesIn(d) = NamesIn(e) \ {n}
    <3>1. v.am.bug \in BOOLEAN
      BY <2>3, AmFacts
    <3>2. /\ EntsOK(d, v.am.bug) /\ Owned(v.am.map \ BlocksOf(e[kill]), v.dir, d)
          /\ \A b \in DOMAIN d : d[b].name # e[kill].name
          /\ \A x \in DOMAIN e \ {kill} : \E b \in DOMAIN d : d[b].name = e[x].name
      <4> HIDE DEF e
      <4>1. MovedOK(e, v.am.bug, v.am.map, v.dir, kill, last)
        BY <2>3, <2>4, <2>6, <3>1, MovedFacts
      <4> QED
        BY <4>1 DEF MovedOK
    <3>3. \A b \in DOMAIN d : \E x \in DOMAIN e : d[b] = e[x]
      BY <2>6 DEF Moved
    <3> HIDE DEF d, e
    <3>4. NamesIn(d) = NamesIn(e) \ {n}
      <4>1. ASSUME NEW x \in NamesIn(d) PROVE x \in NamesIn(e) /\ x # n
        BY <2>4, <3>2, <3>3 DEF NamesIn
      <4>2. ASSUME NEW x \in NamesIn(e), x # n PROVE x \in NamesIn(d)
        <5>1. PICK a \in DOMAIN e : x = e[a].name
          BY DEF NamesIn
        <5>2. a # kill
          BY <2>4, <4>2, <5>1
        <5>3. PICK b \in DOMAIN d : d[b].name = x
          BY <3>2, <5>1, <5>2
        <5> QED
          BY <5>3 DEF NamesIn
      <4> QED
        BY <4>1, <4>2
    <3> QED
      BY <3>2, <3>4 DEF gone
  <2>14. DOMAIN d = DOMAIN e \ {last}
    BY DEF Moved
  <2>15. /\ last[2] # 0 => DirOK(l, d, k - 1) /\ NoEmptyBlock(l, k - 1)
         /\ last[2] = 0 => /\ DirOK(Front(l), d, k - 1) /\ NoEmptyBlock(Front(l), k - 1)
                           /\ Len(l) >= 2 /\ last[1] = l[Len(l)]
    <3> HIDE DEF d, e, k, l
    <3>1. Shorter(l, d, k, last)
      BY <2>2, <2>3, <2>5, <2>6, <2>14, ShorterFacts
    <3> QED
      BY <3>1 DEF Shorter
  <2> HIDE DEF d
  <2>16. /\ IsState(u) /\ AmOK(u.am) /\ u.ents = d /\ u.files = k /\ u.open = v.open /\ CacheOK(u.cache.map, d)
         /\ (~ u.am.bug => ~ v.am.bug) /\ Owned(u.am.map, u.dir, d)
         /\ DirOK(u.dir.list, d, k - 1) /\ NoEmptyBlock(u.dir.list, k - 1)
         /\ Safe(v.am, v.dir, u.am, u.dir)
    <3>1. CASE last[2] # 0
      <4>1. u = o
        BY <1>2, <3>1
      <4> HIDE DEF u
      <4>2. Safe(v.am, v.dir, u.am, u.dir)
        BY <2>9, <2>12, <4>1 DEF Safe, Sized
      <4> QED
        BY <2>9, <2>12, <2>13, <2>15, <3>1, <4>1, <4>2
    <3>2. CASE last[2] = 0
      <4> DEFINE b == last[1]
                 f == Front(l)
                 am2 == GiveAll(o.am, {b})
                 y == [o EXCEPT !.am = am2]
      <4>1. u = Relist(y, f)
        BY <1>2, <2>12, <3>2
      <4> HIDE DEF u
      <4>2. /\ DirOK(f, d, k - 1) /\ NoEmptyBlock(f, k - 1) /\ b = l[Len(l)] /\ Len(l) >= 2
            /\ l \in Seq(Bits) /\ IsInjective(l) /\ 0 \notin Range(l)
        BY <2>3, <2>15, <3>2 DEF DirOK
      <4> HIDE DEF b
      <4>3. /\ f \in Seq(Bits) /\ Range(l) = Range(f) \cup {b} /\ b \notin Range(f)
        BY <4>2, FrontFacts
      <4> HIDE DEF f
      <4>4. /\ v.dir.ptrs \in SUBSET Bits /\ v.dir.ptrs \cap ({0} \cup Range(l)) = {}
            /\ o.am.map = {0} \cup Range(l) \cup v.dir.ptrs \cup AllOf(d)
            /\ \A a \in DOMAIN d : BlocksOf(d[a]) \cap ({0} \cup Range(l) \cup v.dir.ptrs) = {}
            /\ \A a, x \in DOMAIN d : a # x => BlocksOf(d[a]) \cap BlocksOf(d[x]) = {}
        BY <2>9, <2>12, <2>13 DEF Owned, BaseOf, AllOf
      <4>5. AllOf(d) \cap ({0} \cup Range(l) \cup v.dir.ptrs) = {}
        BY <4>4 DEF AllOf
      <4>6. b \in o.am.map /\ b # 0 /\ b \notin v.dir.ptrs /\ b \notin AllOf(d)
        BY <4>2, <4>3, <4>4, <4>5
      <4>7. /\ AmOK(am2) /\ am2.map = o.am.map \ {b} /\ am2.bug = v.am.bug
            /\ am2.reserved = v.am.reserved /\ am2.used <= v.am.used
        <5>1. AmOK(o.am) /\ {b} \subseteq o.am.map
          BY <2>9, <2>12, <4>6
        <5>2. v.am.used \in Nat /\ o.am.used \in Nat
          BY <2>3, <5>1, UsedFacts
        <5>3. o.am.used <= v.am.used /\ o.am.reserved = v.am.reserved /\ o.am.bug = v.am.bug
          BY <2>9, <2>12
        <5>4. /\ AmOK(am2) /\ am2.map = o.am.map \ {b} /\ am2.bug = o.am.bug /\ am2.reserved = o.am.reserved
              /\ am2.used = o.am.used - Cardinality({b}) /\ Cardinality({b}) \in Nat
          BY <5>1, GiveFacts
        <5> HIDE DEF am2, o
        <5> QED
          BY <5>2, <5>3, <5>4
      <4> HIDE DEF am2
      <4>8. y = State(am2, o.dir, o.ents, o.files, o.label, o.cache, o.open)
        BY <2>12 DEF IsState, State
      <4> HIDE DEF y
      <4>9. /\ IsState(y) /\ y.am = am2 /\ y.dir = o.dir /\ y.ents = d /\ y.files = k
            /\ y.cache = o.cache /\ y.open = v.open
        <5>1. IsDir(o.dir) /\ IsFun(o.ents) /\ IsCache(o.cache)
          BY <2>12, StateParts
        <5> QED
          BY <2>12, <4>8, <5>1, StateFacts
      <4>10. /\ IsState(u) /\ AmOK(u.am) /\ u.ents = d /\ u.files = k /\ u.cache = o.cache /\ u.open = v.open
             /\ u.dir.list = f /\ u.dir.ptrs \in SUBSET Bits
             /\ u.dir.ptrs \cap (AllOf(d) \cup {0} \cup Range(f)) = {}
             /\ u.am.map = AllOf(d) \cup {0} \cup Range(f) \cup u.dir.ptrs
             /\ ~ u.am.bug => ~ v.am.bug
             /\ Sized(u.am, u.dir)
             /\ ~ y.am.bug /\ y.am.reserved = 0 /\ y.am.used + PtrBlocks(Len(f)) <= Total + Cardinality(y.dir.ptrs)
                  => ~ u.am.bug
        <5>1. AmOK(y.am) /\ y.am.bug = v.am.bug /\ AllOf(y.ents) = AllOf(d)
          BY <4>7, <4>9
        <5>2. y.dir.ptrs \cap (AllOf(y.ents) \cup {0} \cup Range(f)) = {}
          BY <2>12, <4>3, <4>4, <4>5, <4>9
        <5>3. y.am.map = AllOf(y.ents) \cup {0} \cup Range(f) \cup y.dir.ptrs
          BY <2>12, <4>3, <4>4, <4>6, <4>7, <4>9
        <5>4. /\ IsState(u) /\ AmOK(u.am) /\ u.ents = y.ents /\ u.files = y.files /\ u.cache = y.cache /\ u.open = y.open
              /\ u.dir.list = f /\ u.dir.ptrs \in SUBSET Bits
              /\ u.dir.ptrs \cap (AllOf(y.ents) \cup {0} \cup Range(f)) = {}
              /\ u.am.map = AllOf(y.ents) \cup {0} \cup Range(f) \cup u.dir.ptrs
              /\ ~ u.am.bug => ~ y.am.bug
              /\ Sized(u.am, u.dir)
              /\ ~ y.am.bug /\ y.am.reserved = 0 /\ y.am.used + PtrBlocks(Len(f)) <= Total + Cardinality(y.dir.ptrs)
                   => ~ u.am.bug
          BY <4>1, <4>3, <4>9, <5>1, <5>2, <5>3, RelistFacts
        <5> QED
          BY <4>9, <5>1, <5>4
      <4>11. Owned(u.am.map, u.dir, d)
        <5>1. BaseOf(u.dir) = {0} \cup Range(f) \cup u.dir.ptrs
          BY <4>10 DEF BaseOf
        <5>2. ASSUME NEW a \in DOMAIN d PROVE BlocksOf(d[a]) \cap BaseOf(u.dir) = {}
          <6>1. BlocksOf(d[a]) \subseteq AllOf(d)
            BY DEF AllOf
          <6> QED
            BY <4>3, <4>5, <4>10, <5>1, <6>1
        <5>3. u.am.map = BaseOf(u.dir) \cup UNION {BlocksOf(d[a]) : a \in DOMAIN d}
          BY <4>10, <5>1 DEF AllOf
        <5> QED
          BY <4>4, <4>10, <5>2, <5>3 DEF Owned
      <4>12. Safe(v.am, v.dir, u.am, u.dir)
        \* the pointer blocks of the longer list were enough
        <5>1. SUFFICES ASSUME ~ v.am.bug, Sized(v.am, v.dir), v.am.reserved = 0, v.am.used < Total
                       PROVE  ~ u.am.bug
          BY <4>10 DEF Safe
        <5>2. Cardinality(v.dir.ptrs) = PtrBlocks(Len(l))
          BY <5>1 DEF Sized
        <5>3. Len(f) \in Nat /\ Len(l) \in Nat /\ Len(f) <= Len(l)
          BY <4>2, <4>3, FrontFacts DEF f
        <5>4. PtrBlocks(Len(f)) \in Nat /\ PtrBlocks(Len(l)) \in Nat /\ PtrBlocks(Len(f)) <= PtrBlocks(Len(l))
          BY <5>3, PtrBlocksMonotone
        <5>5. y.am = am2 /\ y.dir.ptrs = v.dir.ptrs
          BY <2>12, <4>9
        <5>6. am2.used \in Nat /\ v.am.used \in Nat /\ Total \in Nat
          BY <2>3, <4>7, UsedFacts
        <5> HIDE DEF l, o
        <5>7. am2.used + PtrBlocks(Len(f)) <= Total + PtrBlocks(Len(l))
          BY <4>7, <5>1, <5>4, <5>6
        <5> QED
          BY <4>7, <4>10, <5>1, <5>2, <5>5, <5>7
      <4> QED
        BY <2>12, <4>2, <4>10, <4>11, <4>12
    <3> QED
      BY <3>1, <3>2
  <2> HIDE DEF u
  <2>17. z = State(u.am, u.dir, d, k - 1, u.am.used, u.cache, u.open)
    <3>1. z = [u EXCEPT !.files = k - 1, !.label = u.am.used]
      BY <2>16
    <3> HIDE DEF z, k
    <3> QED
      BY <2>16, <3>1 DEF IsState, State
  <2> HIDE DEF z
  <2>18. /\ IsState(z) /\ z.am = u.am /\ z.dir = u.dir /\ z.ents = d /\ z.files = k - 1
         /\ z.label = u.am.used /\ z.cache = u.cache /\ z.open = u.open
    <3>1. IsDir(u.dir) /\ IsFun(d) /\ IsCache(u.cache)
      BY <2>16, StateParts
    <3> QED
      BY <2>17, <3>1, StateFacts
  <2>19. EntsOK(d, u.am.bug)
    BY <2>13, <2>16 DEF EntsOK
  <2>20. Settled(z)
    BY <2>16, <2>18, <2>19 DEF Settled, DiskOK
  <2>21. Deleted(w, n) = z
    BY <1>1, <1>6, <2>7
  <2> QED
    BY <2>2, <2>13, <2>16, <2>18, <2>20, <2>21
<1> QED
  BY <1>5, <1>6

-----------------------------------------------------------------------------
(* The operations, one by one.                                             *)

\* An operation does no harm to the disk, and runs into no assertion unless the
\* disk is full or blocks are left reserved.
GoodStep == Good(st)' /\ Safe(am, dir, am', dir')

\* An operation that leaves the allocator and the directory alone is safe.
LEMMA SafeKept ==
  ASSUME NEW a, NEW d
  PROVE  Safe(a, d, a, d)
BY DEF Safe

\* An operation that ends in a consistent state and is safe keeps the invariant.
LEMMA BecomesGood ==
  ASSUME NEW w, Good(w), Becomes(w), Safe(st.am, st.dir, w.am, w.dir)
  PROVE  GoodStep
<1>1. IsState(w)
  BY GoodFacts
<1>2. st' = State(w.am, w.dir, w.ents, w.files, w.label, w.cache, w.open)
  BY DEF st, State, Becomes
<1>3. w = State(w.am, w.dir, w.ents, w.files, w.label, w.cache, w.open)
  BY <1>1, StateParts
<1>4. st' = w
  BY <1>2, <1>3, Zenon
<1>5. Good(st')
  BY <1>4, Zenon
<1>6. Safe(am, dir, am', dir')
  <2>1. st.am = am /\ st.dir = dir
    BY DEF st
  <2>2. am' = w.am /\ dir' = w.dir
    BY DEF Becomes
  <2> QED
    BY <2>1, <2>2, Zenon
<1> QED
  BY <1>5, <1>6 DEF GoodStep

\* The variables as a state.
LEMMA Parts ==
  /\ st.am = am /\ st.dir = dir /\ st.ents = ents /\ st.files = files /\ st.label = label
  /\ st.cache = cache /\ st.open = open
BY DEF st

\* cmsfs_getattr keeps the invariant.
LEMMA GetattrGood ==
  ASSUME Good(st), NEW n \in Names, Getattr(n)
  PROVE  GoodStep
<1> DEFINE s == st
           v == LookedUp(s, n, TRUE)
<1>1. DiskOK(s)
  BY GoodFacts
<1>2. DiskOK(v) /\ ButCache(s, v)
  <2> HIDE DEF s
  <2> QED
    BY <1>1, LookedUpFacts
<1>3. Good(v)
  <2> HIDE DEF v
  <2> QED
    BY <1>2, CacheStepGood
<1>4. Becomes(v)
  BY DEF Getattr
<1> HIDE DEF v
<1>5. Safe(s.am, s.dir, v.am, v.dir)
  BY <1>2, SafeKept DEF ButCache
<1> QED
  BY <1>3, <1>4, <1>5, BecomesGood

\* cmsfs_open keeps the invariant.
LEMMA OpenGood ==
  ASSUME Good(st), NEW n \in Names, Open(n)
  PROVE  GoodStep
<1> DEFINE s == st
           h == FileOpen(s, n)
           v == Opened(s, n)
<1>1. /\ Lookup(s, n, FALSE) # NoAddr /\ (h # 0 => s.open[h].use < MaxUse)
      /\ Becomes(v)
  BY Parts DEF Open, MayUse
<1>2. Good(v) /\ v.am = s.am /\ v.dir = s.dir
  <2>1. Good(s)
    OBVIOUS
  <2> HIDE DEF s
  <2> QED
    BY <1>1, <2>1, OpenedFacts
<1> HIDE DEF v
<1>3. Safe(s.am, s.dir, v.am, v.dir)
  BY <1>2, SafeKept
<1> QED
  BY <1>1, <1>2, <1>3, BecomesGood

\* cmsfs_create keeps the invariant, whether the directory grows or not.
LEMMA CreateGood ==
  ASSUME Good(st), NEW n \in Names, Create(n)
  PROVE  GoodStep
<1> DEFINE s == st
           g == Grown(s)
           v == Added(s, n)
           u == Added(g, n)
<1>1. Good(s) /\ Lookup(s, n, FALSE) = NoAddr
  BY DEF Create
<1>2. DiskOK(s) /\ OpenOK(s.open, s.ents) /\ s.label = s.am.used
  BY GoodFacts
<1>3. \A a \in DOMAIN s.ents : s.ents[a].name # n
  <2> DEFINE x == Lookup(s, n, FALSE)
  <2>1. x = NoAddr /\ ~(FALSE /\ Unlinked(s, n)) => \A a \in DOMAIN s.ents : s.ents[a].name # n
    <3> HIDE DEF s
    <3> QED
      BY <1>2, LookupFacts
  <2> QED
    BY <1>1, <2>1
<1>4. CASE EmptySlot(s) # NoAddr
  <2>1. Becomes(v)
    BY <1>4 DEF Create
  <2> HIDE DEF s
  <2>2. Good(v) /\ v.am = s.am /\ v.dir = s.dir
    BY <1>2, <1>3, <1>4, AddedFacts
  <2> HIDE DEF v
  <2>3. Safe(s.am, s.dir, v.am, v.dir)
    BY <2>2, SafeKept
  <2> QED
    BY <2>1, <2>2, <2>3, BecomesGood DEF s
<1>5. CASE EmptySlot(s) = NoAddr
  <2>1. Becomes(u) /\ ~ Full(s.am) /\ ~(Total - s.am.used < Levels(Len(s.dir.list)) + 2)
    BY <1>5, Parts DEF Create, NoRoomToGrow
  <2> HIDE DEF s
  <2>2. /\ DiskOK(g) /\ OpenOK(g.open, g.ents) /\ g.label = g.am.used
        /\ g.ents = s.ents /\ EmptySlot(g) # NoAddr /\ Sized(g.am, g.dir)
        /\ /\ ~ s.am.bug /\ s.am.reserved = 0 /\ Sized(s.am, s.dir)
           /\ Total - s.am.used >= Levels(Len(s.dir.list)) + 2
           => ~ g.am.bug
    BY <1>1, <1>5, <2>1, GrownFacts
  <2> HIDE DEF g
  <2>3. \A a \in DOMAIN g.ents : g.ents[a].name # n
    BY <1>3, <2>2
  <2>4. Good(u) /\ u.am = g.am /\ u.dir = g.dir
    BY <2>2, <2>3, AddedFacts
  <2> HIDE DEF u
  <2>5. Total - s.am.used >= Levels(Len(s.dir.list)) + 2
    <3> DEFINE m == Levels(Len(s.dir.list))
               r == s.am.used
    <3>1. m \in Nat /\ r \in Nat /\ Total \in Nat
      <4>1. s.dir.list \in Seq(Bits) /\ AmOK(s.am)
        BY <1>2 DEF DiskOK, DirOK
      <4> QED
        BY <4>1, UsedFacts, LevelsFacts
    <3>2. ~(Total - r < m + 2)
      BY <2>1
    <3> HIDE DEF m, r
    <3>3. Total - r >= m + 2
      BY <3>1, <3>2
    <3> QED
      BY <3>3 DEF m, r
  <2>6. Safe(s.am, s.dir, u.am, u.dir)
    BY <2>2, <2>4, <2>5 DEF Safe
  <2> QED
    BY <2>1, <2>4, <2>6, BecomesGood DEF s
<1> QED
  BY <1>4, <1>5

\* cmsfs_write keeps the invariant.
LEMMA WriteGood ==
  ASSUME Good(st), NEW i \in DOMAIN open, NEW n \in 0 .. MaxWrite, NEW tail \in BOOLEAN, Write(i, n, tail)
  PROVE  GoodStep
<1> DEFINE s == st
           v == Written(s, i, n, tail)
<1>1. /\ Good(s) /\ i \in DOMAIN s.open /\ n \in Nat /\ n <= MaxWrite /\ Becomes(v)
      /\ Len(s.open[i].fst.data) + n <= MaxBlocks /\ (tail => s.open[i].fst.data # <<>>)
  BY Parts, Sizes DEF Write
<1>2. Good(v) /\ v.dir = s.dir /\ Safe(s.am, s.dir, v.am, v.dir)
  <2> HIDE DEF s
  <2> QED
    BY <1>1, WrittenFacts
<1> HIDE DEF v
<1> QED
  BY <1>1, <1>2, BecomesGood

\* The object of a file that is not open is not in the list.
LEMMA NotOpen ==
  ASSUME NEW w, Good(w), NEW a \in DOMAIN w.ents, FileOpen(w, w.ents[a].name) = 0
  PROVE  \A j \in DOMAIN w.open : w.open[j].addr # a
<1> DEFINE n == w.ents[a].name
           h == FileOpen(w, n)
<1>1. OpenOK(w.open, w.ents)
  BY GoodFacts
<1>2. w.open \in Seq(ObjectType) /\ \A j \in DOMAIN w.open : w.ents[w.open[j].addr].name = w.open[j].path
  BY <1>1 DEF OpenOK
<1>3. h = 0 => \A j \in DOMAIN w.open : w.open[j].path # n
  BY <1>2, FileOpenFacts
<1> QED
  BY <1>2, <1>3

\* cmsfs_truncate keeps the invariant, whether the file is open or not.
LEMMA TruncateGood ==
  ASSUME Good(st), NEW n \in Names, NEW k \in 0 .. MaxBlocks, Truncate(n, k)
  PROVE  GoodStep
<1> DEFINE s == st
           h == FileOpen(s, n)
           b == Lookup(s, n, TRUE)
           w == LookedUp(s, n, TRUE)
           f == s.open[h]
<1>1. Good(s) /\ DiskOK(s) /\ OpenOK(s.open, s.ents)
  BY GoodFacts
<1>2. CASE h # 0
  <2> DEFINE v == Shrunk(s, h, f.addr, f.fst, k)
  <2>1. Becomes(v) /\ k <= Len(f.fst.data)
    BY <1>2, Parts DEF Truncate
  <2> HIDE DEF s
  <2>2. h \in {0} \cup DOMAIN s.open
    BY <1>1, FileOpenFacts DEF OpenOK
  <2>3. f.addr \in DOMAIN s.ents /\ s.ents[f.addr] = f.fst
    BY <1>1, <1>2, <2>2 DEF OpenOK
  <2> DEFINE a == f.addr
             l == Len(s.ents[a].data)
  <2>4. l \in Nat /\ k <= l
    <3>1. s.ents[a].data \in Seq(Bits)
      BY <1>1, <2>3, BlocksFacts
    <3> QED
      BY <2>1, <2>3, <3>1
  <2>5. k \in 0 .. Len(s.ents[a].data)
    <3> HIDE DEF l
    <3>1. k \in 0 .. l
      BY <2>4
    <3> QED
      BY <3>1 DEF l
  <2>6. a \in DOMAIN s.ents /\ (h # 0 => s.open[h].addr = a) /\ (h = 0 => \A j \in DOMAIN s.open : s.open[j].addr # a)
    BY <1>2, <2>3
  <2> HIDE DEF a, h
  <2> DEFINE x == Shrunk(s, h, a, s.ents[a], k)
  <2>7. Good(x) /\ x.dir = s.dir /\ Safe(s.am, s.dir, x.am, s.dir)
    BY <1>1, <2>2, <2>5, <2>6, ShrunkFacts
  <2>8. v = x
    BY <2>3 DEF a
  <2> HIDE DEF v, x
  <2> QED
    BY <2>1, <2>7, <2>8, BecomesGood DEF s
<1>3. CASE h = 0
  <2> DEFINE v == Shrunk(w, 0, b, s.ents[b], k)
  <2>1. Becomes(v) /\ b # NoAddr /\ k <= Len(s.ents[b].data)
    BY <1>3, Parts DEF Truncate
  <2> HIDE DEF s
  <2>2. DiskOK(w) /\ ButCache(s, w)
    BY <1>1, LookedUpFacts
  <2>3. b # NoAddr => b \in DOMAIN s.ents /\ s.ents[b].name = n
    BY <1>1, LookupFacts
  <2> HIDE DEF w, b
  <2>4. Good(w) /\ w.ents = s.ents /\ w.open = s.open /\ w.am = s.am /\ w.dir = s.dir
    BY <1>1, <2>2, CacheStepGood DEF ButCache
  <2>5. b \in DOMAIN w.ents /\ \A j \in DOMAIN w.open : w.open[j].addr # b
    <3>1. b \in DOMAIN s.ents /\ FileOpen(s, s.ents[b].name) = 0
      BY <1>3, <2>1, <2>3
    <3>2. \A j \in DOMAIN s.open : s.open[j].addr # b
      BY <1>1, <3>1, NotOpen
    <3> QED
      BY <2>4, <3>1, <3>2
  <2> DEFINE l == Len(w.ents[b].data)
  <2>6. l \in Nat /\ k <= l
    <3>1. w.ents[b].data \in Seq(Bits)
      BY <2>2, <2>5, BlocksFacts
    <3> QED
      BY <2>1, <2>4, <3>1
  <2>7. k \in 0 .. Len(w.ents[b].data)
    <3> HIDE DEF l
    <3>1. k \in 0 .. l
      BY <2>6
    <3> QED
      BY <3>1 DEF l
  <2> DEFINE x == Shrunk(w, 0, b, w.ents[b], k)
  <2>8. Good(x) /\ x.dir = w.dir /\ Safe(w.am, w.dir, x.am, w.dir)
    BY <2>4, <2>5, <2>7, ShrunkFacts
  <2>9. v = x
    BY <2>4
  <2> HIDE DEF v, x
  <2> QED
    BY <2>1, <2>4, <2>8, <2>9, BecomesGood DEF s
<1> QED
  BY <1>2, <1>3

\* The list of open files changes, and nothing else.
LEMMA OpenStep ==
  ASSUME NEW w, Good(w), NEW o, OpenOK(o, w.ents), NEW r, r = [w EXCEPT !.open = o]
  PROVE  Good(r) /\ r.am = w.am /\ r.dir = w.dir
<1>1. IsState(w)
  BY GoodFacts
<1>2. r = State(w.am, w.dir, w.ents, w.files, w.label, w.cache, o)
  BY <1>1 DEF IsState, State
<1>3. /\ IsState(r) /\ r.am = w.am /\ r.dir = w.dir /\ r.ents = w.ents /\ r.files = w.files
      /\ r.label = w.label /\ r.cache = w.cache /\ r.open = o
  BY <1>1, <1>2, StateParts, StateFacts
<1>4. DiskOK(r)
  BY <1>3 DEF Good, DiskOK
<1> QED
  BY <1>3, <1>4 DEF Good

\* An object of the same file.
LEMMA SameObject ==
  ASSUME NEW o, NEW e, OpenOK(o, e), NEW i \in DOMAIN o, NEW x \in ObjectType,
         x.path = o[i].path, x.addr = o[i].addr, x.fst = o[i].fst, x.use \in 1 .. MaxUse
  PROVE  OpenOK([o EXCEPT ![i] = x], e)
<1> DEFINE p == [o EXCEPT ![i] = x]
<1>1. /\ o \in Seq(ObjectType)
      /\ \A j \in DOMAIN o : /\ o[j].addr \in DOMAIN e /\ e[o[j].addr] = o[j].fst
                             /\ o[j].fst.name = o[j].path /\ o[j].use \in 1 .. MaxUse
      /\ \A j, k \in DOMAIN o : o[j].path = o[k].path => j = k
  BY DEF OpenOK
<1>2. p \in Seq(ObjectType) /\ DOMAIN p = DOMAIN o /\ p[i] = x /\ \A j \in DOMAIN o : j # i => p[j] = o[j]
  BY <1>1
<1> HIDE DEF p
<1>3. ASSUME NEW j \in DOMAIN o
      PROVE  p[j].addr = o[j].addr /\ p[j].path = o[j].path /\ p[j].fst = o[j].fst /\ p[j].use \in 1 .. MaxUse
  BY <1>1, <1>2
<1>4. OpenOK(p, e)
  BY <1>1, <1>2, <1>3 DEF OpenOK
<1> QED
  BY <1>4 DEF p

\* The list without one of its objects.
LEMMA RemoveFacts ==
  ASSUME NEW T, NEW o \in Seq(T), NEW i \in 1 .. Len(o)
  PROVE  /\ RemoveAt(o, i) \in Seq(T) /\ Len(RemoveAt(o, i)) = Len(o) - 1
         /\ \A j \in 1 .. (Len(o) - 1) : RemoveAt(o, i)[j] = IF j < i THEN o[j] ELSE o[j + 1]
<1> DEFINE n == Len(o)
           p == SubSeq(o, 1, i - 1)
           q == SubSeq(o, i + 1, n)
<1>1. n \in Nat /\ DOMAIN o = 1 .. n /\ i \in 1 .. n /\ \A j \in 1 .. n : o[j] \in T
  OBVIOUS
<1>2. p \in Seq(T) /\ Len(p) = i - 1 /\ \A j \in 1 .. (i - 1) : p[j] = o[j]
  <2>1. i - 1 \in 0 .. Len(o)
    BY <1>1
  <2> QED
    BY <2>1, PrefixFacts
<1>3. q \in Seq(T) /\ Len(q) = n - i /\ \A j \in 1 .. (n - i) : q[j] = o[i + j]
  <2>1. \A j \in (i + 1) .. n : o[j] \in T
    BY <1>1
  <2> HIDE DEF n
  <2>2. i + 1 \in 1 .. (n + 1) /\ n \in i .. Len(o)
    BY <1>1 DEF n
  <2>3. q \in Seq(T) /\ Len(q) = IF i + 1 <= n THEN n - (i + 1) + 1 ELSE 0
    BY <1>1, <2>1, SubSeqProperties DEF n
  <2>4. \A j \in 1 .. (n - i) : q[j] = o[i + 1 + j - 1]
    BY <1>1, <2>1, SubSeqProperties DEF n
  <2>5. \A j \in 1 .. (n - i) : i + 1 + j - 1 = i + j
    BY <1>1
  <2> QED
    BY <1>1, <2>3, <2>4, <2>5
<1>4. RemoveAt(o, i) = p \o q
  BY DEF RemoveAt
<1> HIDE DEF p, q, n
<1>5. p \o q \in Seq(T) /\ Len(p \o q) = n - 1
  <2>1. p \o q \in Seq(T) /\ Len(p \o q) = Len(p) + Len(q)
    BY <1>2, <1>3, ConcatProperties
  <2> QED
    BY <1>1, <1>2, <1>3, <2>1
<1>6. ASSUME NEW j \in 1 .. (n - 1) PROVE (p \o q)[j] = IF j < i THEN o[j] ELSE o[j + 1]
  <2>1. CASE j < i
    <3>1. j \in 1 .. (i - 1)
      BY <1>1, <2>1
    <3> QED
      BY <1>2, <1>3, <2>1, <3>1
  <2>2. CASE ~(j < i)
    <3> DEFINE k == j - (i - 1)
    <3>1. k \in 1 .. (n - i) /\ i + k = j + 1 /\ j > Len(p) /\ j <= Len(p) + Len(q)
      BY <1>1, <1>2, <1>3, <2>2
    <3>2. (p \o q)[j] = q[j - Len(p)]
      BY <1>1, <1>2, <1>3, <3>1
    <3>3. (p \o q)[j] = q[k]
      BY <1>2, <3>2
    <3> QED
      BY <1>3, <2>2, <3>1, <3>3
  <2> QED
    BY <2>1, <2>2
<1> QED
  BY <1>4, <1>5, <1>6 DEF n

\* The objects that are left agree with their entries.
LEMMA RemovedFacts ==
  ASSUME NEW o, NEW e, OpenOK(o, e), NEW i \in DOMAIN o
  PROVE  OpenOK(RemoveAt(o, i), e)
<1> DEFINE n == Len(o)
           p == RemoveAt(o, i)
           h(j) == IF j < i THEN j ELSE j + 1
<1>1. /\ o \in Seq(ObjectType)
      /\ \A j \in DOMAIN o : /\ o[j].addr \in DOMAIN e /\ e[o[j].addr] = o[j].fst
                             /\ o[j].fst.name = o[j].path /\ o[j].use \in 1 .. MaxUse
      /\ \A j, k \in DOMAIN o : o[j].path = o[k].path => j = k
  BY DEF OpenOK
<1>2. n \in Nat /\ DOMAIN o = 1 .. n
  BY <1>1
<1>3. p \in Seq(ObjectType) /\ Len(p) = n - 1 /\ \A j \in 1 .. (n - 1) : p[j] = IF j < i THEN o[j] ELSE o[j + 1]
  BY <1>1, <1>2, RemoveFacts
<1> HIDE DEF p, n
<1>4. DOMAIN p = 1 .. (n - 1)
  BY <1>3
<1>5. ASSUME NEW j \in 1 .. (n - 1) PROVE h(j) \in 1 .. n /\ p[j] = o[h(j)]
  BY <1>2, <1>3
<1>6. \A j, k \in 1 .. (n - 1) : h(j) = h(k) => j = k
  BY <1>2
<1> HIDE DEF h
<1>7. ASSUME NEW j \in DOMAIN p
      PROVE  /\ p[j].addr \in DOMAIN e /\ e[p[j].addr] = p[j].fst
             /\ p[j].fst.name = p[j].path /\ p[j].use \in 1 .. MaxUse
  BY <1>1, <1>2, <1>4, <1>5
<1>8. ASSUME NEW j \in DOMAIN p, NEW k \in DOMAIN p, p[j].path = p[k].path
      PROVE  j = k
  <2>1. h(j) = h(k)
    BY <1>1, <1>2, <1>4, <1>5, <1>8
  <2> QED
    BY <1>4, <1>6, <2>1
<1>9. OpenOK(p, e)
  BY <1>3, <1>7, <1>8 DEF OpenOK
<1> QED
  BY <1>9 DEF p

\* No open file disagrees with anything.
LEMMA NoneOpen ==
  ASSUME NEW e
  PROVE  OpenOK(<<>>, e)
<1>1. <<>> \in Seq(ObjectType) /\ DOMAIN <<>> = {}
  OBVIOUS
<1> QED
  BY <1>1 DEF OpenOK

\* The empty directory, and the empty cache, as functions.
LEMMA NoFile == IsFun(<<>>) /\ DOMAIN <<>> = {}
<1>1. DOMAIN <<>> = {}
  OBVIOUS
<1>2. IsFun(<<>>)
  BY DEF IsFun
<1> QED
  BY <1>1, <1>2

\* What holds between operations, in two parts: the disk and the open files.
LEMMA SettledGood ==
  ASSUME NEW w, Settled(w), OpenOK(w.open, w.ents)
  PROVE  Good(w)
BY DEF Settled, Good

\* cmsfs_unlink keeps the invariant if no other file is open.
LEMMA UnlinkGood ==
  ASSUME "alone" \in Habits, Good(st), NEW n \in Names, Unlink(n)
  PROVE  GoodStep
<1> DEFINE s == st
           i == FileOpen(s, n)
           w == LookedUp(s, n, TRUE)
           v == [w EXCEPT !.open[i].unlinked = TRUE]
           d == Deleted(w, n)
<1>1. Good(s) /\ DiskOK(s) /\ OpenOK(s.open, s.ents)
  BY GoodFacts
<1>2. /\ i = 0 => s.open = <<>> /\ Becomes(d)
      /\ i # 0 => Becomes(v)
  BY Parts DEF Unlink
<1> HIDE DEF s
<1>3. DiskOK(w) /\ ButCache(s, w)
  BY <1>1, LookedUpFacts
<1> HIDE DEF w
<1>4. Good(w) /\ w.open = s.open /\ w.ents = s.ents /\ w.am = s.am /\ w.dir = s.dir
  BY <1>1, <1>3, CacheStepGood DEF ButCache
<1>5. CASE i # 0
  <2> DEFINE f == w.open[i]
             x == [f EXCEPT !.unlinked = TRUE]
             o == [w.open EXCEPT ![i] = x]
  <2>1. i \in DOMAIN w.open
    <3>1. s.open \in Seq(ObjectType)
      BY <1>1 DEF OpenOK
    <3>2. i \in {0} \cup DOMAIN s.open
      BY <3>1, FileOpenFacts
    <3> QED
      BY <1>4, <1>5, <3>2
  <2> HIDE DEF i
  <2>2. f \in ObjectType /\ f.use \in 1 .. MaxUse /\ OpenOK(w.open, w.ents)
    BY <1>1, <1>4, <2>1 DEF OpenOK
  <2>3. x \in ObjectType /\ x.path = f.path /\ x.addr = f.addr /\ x.fst = f.fst /\ x.use = f.use
    <3> HIDE DEF f
    <3> QED
      BY <2>2 DEF ObjectType
  <2>4. v = [w EXCEPT !.open = o]
    OBVIOUS
  <2> HIDE DEF x
  <2>5. OpenOK(o, w.ents)
    BY <2>1, <2>2, <2>3, SameObject
  <2> HIDE DEF o, v
  <2>6. Good(v) /\ v.am = s.am /\ v.dir = s.dir
    BY <1>4, <2>4, <2>5, OpenStep
  <2>7. Safe(s.am, s.dir, v.am, v.dir)
    BY <2>6, SafeKept
  <2> QED
    BY <1>2, <1>5, <2>6, <2>7, BecomesGood DEF i, s
<1>6. CASE i = 0
  <2>1. Settled(w)
    BY <1>4 DEF Good, Settled
  <2>2. Settled(d) /\ d.open = w.open /\ Safe(w.am, w.dir, d.am, d.dir)
    BY <2>1, DeletedFacts
  <2> HIDE DEF d
  <2>3. OpenOK(d.open, d.ents)
    BY <1>2, <1>4, <1>6, <2>2, NoneOpen
  <2>4. Good(d)
    BY <2>2, <2>3, SettledGood
  <2> QED
    BY <1>2, <1>4, <1>6, <2>2, <2>4, BecomesGood DEF s
<1> QED
  BY <1>5, <1>6

\* cmsfs_release keeps the invariant: what it deletes is the only open file.
LEMMA ReleaseGood ==
  ASSUME "alone" \in Habits, Good(st), NEW i \in DOMAIN open, Release(i)
  PROVE  GoodStep
<1> DEFINE s == st
           f == s.open[i]
           d == Deleted(s, f.path)
           w == IF f.unlinked THEN d ELSE s
           v == [w EXCEPT !.open = RemoveAt(@, i)]
           u == [s EXCEPT !.open[i].use = @ - 1]
<1>1. Good(s) /\ DiskOK(s) /\ OpenOK(s.open, s.ents) /\ i \in DOMAIN s.open
  BY GoodFacts, Parts
<1>2. /\ f.unlinked /\ f.use = 1 => Len(s.open) = 1
      /\ f.use = 1 => Becomes(v)
      /\ f.use # 1 => Becomes(u)
  BY Parts DEF Release
<1> HIDE DEF s
<1>3. /\ s.open \in Seq(ObjectType) /\ f \in ObjectType /\ f.use \in 1 .. MaxUse
      /\ i \in 1 .. Len(s.open) /\ MaxUse \in Nat
  BY <1>1, Sizes DEF OpenOK
<1>4. CASE f.use = 1 /\ f.unlinked
  <2> DEFINE o == RemoveAt(d.open, i)
  <2>1. Settled(s)
    BY <1>1 DEF Good, Settled
  <2>2. Settled(d) /\ d.open = s.open /\ Safe(s.am, s.dir, d.am, d.dir)
    BY <2>1, DeletedFacts
  <2>3. v = [d EXCEPT !.open = o]
    BY <1>4
  <2> HIDE DEF d
  <2>4. o = <<>>
    <3>1. Len(s.open) = 1
      BY <1>2, <1>4
    <3>2. o \in Seq(ObjectType) /\ Len(o) = 0
      BY <1>3, <2>2, <3>1, RemoveFacts
    <3> HIDE DEF o
    <3> QED
      BY <3>2
  <2> HIDE DEF o, v
  <2>5. IsState(d)
    BY <2>2 DEF Settled, DiskOK
  <2>6. v = State(d.am, d.dir, d.ents, d.files, d.label, d.cache, <<>>)
    BY <2>3, <2>4, <2>5 DEF IsState, State
  <2>7. /\ IsState(v) /\ v.am = d.am /\ v.dir = d.dir /\ v.ents = d.ents /\ v.files = d.files
        /\ v.label = d.label /\ v.cache = d.cache /\ v.open = <<>>
    BY <2>5, <2>6, StateParts, StateFacts
  <2>8. Settled(v)
    BY <2>2, <2>7 DEF Settled, DiskOK
  <2>9. OpenOK(v.open, v.ents)
    BY <2>7, NoneOpen
  <2>10. Good(v)
    BY <2>8, <2>9, SettledGood
  <2> QED
    BY <1>2, <1>4, <2>2, <2>7, <2>10, BecomesGood DEF s
<1>5. CASE f.use = 1 /\ ~ f.unlinked
  <2> DEFINE o == RemoveAt(s.open, i)
  <2>1. v = [s EXCEPT !.open = o]
    BY <1>5
  <2>2. OpenOK(o, s.ents)
    BY <1>1, RemovedFacts
  <2> HIDE DEF o, v
  <2>3. Good(v) /\ v.am = s.am /\ v.dir = s.dir
    BY <1>1, <2>1, <2>2, OpenStep
  <2>4. Safe(s.am, s.dir, v.am, v.dir)
    BY <2>3, SafeKept
  <2> QED
    BY <1>2, <1>5, <2>3, <2>4, BecomesGood DEF s
<1>6. CASE f.use # 1
  <2> DEFINE x == [f EXCEPT !.use = @ - 1]
             o == [s.open EXCEPT ![i] = x]
  <2>1. x \in ObjectType /\ x.path = f.path /\ x.addr = f.addr /\ x.fst = f.fst /\ x.use \in 1 .. MaxUse
    <3>1. f.use - 1 \in 1 .. MaxUse
      BY <1>3, <1>6
    <3> HIDE DEF f
    <3>2. x.use = f.use - 1
      BY <1>3 DEF ObjectType
    <3>3. x \in ObjectType /\ x.path = f.path /\ x.addr = f.addr /\ x.fst = f.fst
      BY <1>3, <3>1 DEF ObjectType
    <3> QED
      BY <3>1, <3>2, <3>3
  <2>2. u = [s EXCEPT !.open = o]
    OBVIOUS
  <2> HIDE DEF x
  <2>3. OpenOK(o, s.ents)
    BY <1>1, <2>1, SameObject
  <2> HIDE DEF o, u
  <2>4. Good(u) /\ u.am = s.am /\ u.dir = s.dir
    BY <1>1, <2>2, <2>3, OpenStep
  <2>5. Safe(s.am, s.dir, u.am, u.dir)
    BY <2>4, SafeKept
  <2> QED
    BY <1>2, <1>6, <2>4, <2>5, BecomesGood DEF s
<1> QED
  BY <1>4, <1>5, <1>6

\* The end of the daemon and its restart keep the invariant: what is on the disk
\* is enough to start from.
LEMMA RemountGood ==
  ASSUME Good(st), Remount
  PROVE  GoodStep
<1> DEFINE s == st
           a == [s.am EXCEPT !.hint = NoHint, !.used = s.label, !.reserved = 0]
           c == [map |-> <<>>, max |-> MaxCache(s.files)]
           r == State(a, s.dir, s.ents, s.files, s.label, c, <<>>)
<1>1. Good(s)
  OBVIOUS
<1>2. Becomes(r)
  <2>1. /\ r.am = a /\ r.dir = s.dir /\ r.ents = s.ents /\ r.files = s.files /\ r.label = s.label
        /\ r.cache = c /\ r.open = <<>>
    BY DEF State
  <2>2. /\ am' = a /\ dir' = s.dir /\ ents' = s.ents /\ files' = s.files /\ label' = s.label
        /\ cache' = c /\ open' = <<>>
    BY Parts DEF Remount
  <2> HIDE DEF a, c, r, s
  <2> QED
    BY <2>1, <2>2 DEF Becomes
<1> HIDE DEF s
<1>3. DiskOK(s) /\ AmOK(s.am) /\ s.label = s.am.used /\ IsState(s) /\ s.am \in Alloc
  BY <1>1, GoodFacts
<1>4. AmOK(a) /\ a.map = s.am.map /\ a.bug = s.am.bug /\ a.used = s.label
  <2>1. a = [s.am EXCEPT !.hint = NoHint, !.reserved = 0]
    BY <1>3 DEF Alloc
  <2>0. NoHint \in Int
    BY DEF NoHint
  <2>2. /\ a \in Alloc /\ a.map = s.am.map /\ a.used = s.am.used /\ a.hint = NoHint /\ a.bug = s.am.bug
    <3> HIDE DEF a
    <3>1. a \in Alloc
      BY <1>3, <2>0, <2>1 DEF Alloc
    <3>2. a.map = s.am.map /\ a.used = s.am.used /\ a.hint = NoHint /\ a.bug = s.am.bug
      BY <1>3, <2>1 DEF Alloc
    <3> QED
      BY <3>1, <3>2
  <2> HIDE DEF a
  <2>3. \A b \in Bits : ~(ByteOf(b) < a.hint)
    <3>1. \A b \in Bits : ByteOf(b) \in Nat
      BY ByteFacts, Sizes
    <3> QED
      BY <2>2, <3>1 DEF NoHint
  <2> QED
    BY <1>3, <2>2, <2>3 DEF AmOK
<1> HIDE DEF a
<1>5. IsCache(c) /\ c.map = <<>>
  <2>1. c.map = <<>> /\ c = [map |-> c.map, max |-> c.max]
    OBVIOUS
  <2> HIDE DEF c
  <2> QED
    BY <2>1, NoFile DEF IsCache
<1> HIDE DEF c
<1>6. CacheOK(<<>>, s.ents)
  BY NoFile DEF CacheOK
<1>7. /\ IsState(r) /\ r.am = a /\ r.dir = s.dir /\ r.ents = s.ents /\ r.files = s.files
      /\ r.label = s.label /\ r.cache = c /\ r.open = <<>>
  BY <1>3, <1>5, StateParts, StateFacts
<1> HIDE DEF r
<1>8. DiskOK(r)
  BY <1>3, <1>4, <1>5, <1>6, <1>7 DEF DiskOK
<1>9. Settled(r)
  BY <1>1, <1>4, <1>7, <1>8 DEF Settled, Good
<1>10. Good(r)
  BY <1>7, <1>9, NoneOpen, SettledGood
<1>11. Safe(s.am, s.dir, r.am, r.dir)
  BY <1>4, <1>7 DEF Safe, Sized
<1> QED
  BY <1>2, <1>10, <1>11, BecomesGood DEF s

\* The invariant holds of an empty disk.
LEMMA InitGood ==
  ASSUME Init
  PROVE  Good(st)
<1> DEFINE a == [map |-> Fixed, hint |-> NoHint, used |-> Cardinality(Fixed), reserved |-> 0, bug |-> FALSE]
           l == <<Fdir>>
           d == [list |-> l, ptrs |-> {}]
           c == [map |-> <<>>, max |-> MaxCache(0)]
           r == State(a, d, <<>>, 0, a.used, c, <<>>)
<1>1. st = r
  BY DEF Init, st, State
<1>2. AmOK(a) /\ a.map = {0, Fdir} /\ a.bug = FALSE
  <2>1. Fixed = {0} \cup {Fdir} /\ Fixed \subseteq OnDisk /\ OnDisk \subseteq Bits /\ \A b \in Bits : ByteOf(b) \in Nat
    BY ByteFacts, Sizes DEF Fixed, Fdir
  <2>2. Cardinality(Fixed) \in Nat
    <3>1. IsFiniteSet({0}) /\ IsFiniteSet({0} \cup {Fdir})
      BY FS_Singleton, CardFacts
    <3> QED
      BY <2>1, <3>1, CardFacts
  <2>3. /\ a.map = Fixed /\ a.hint = NoHint /\ a.used = Cardinality(Fixed) /\ a.reserved = 0 /\ a.bug = FALSE
        /\ a = [map |-> a.map, hint |-> a.hint, used |-> a.used, reserved |-> a.reserved, bug |-> a.bug]
    OBVIOUS
  <2> HIDE DEF a
  <2>4. a \in Alloc
    <3>1. a.map \in SUBSET Bits /\ a.hint \in Int /\ a.used \in Nat /\ a.reserved \in Nat /\ a.bug \in BOOLEAN
      <4>1. NoHint \in Int
        BY DEF NoHint
      <4>2. \A x \in Fixed : x \in Bits
        BY <2>1
      <4>3. a.map \in SUBSET Bits
        BY <2>3, <4>2
      <4>4. a.hint \in Int
        BY <2>3, <4>1
      <4>5. a.used \in Nat
        BY <2>2, <2>3
      <4>6. a.reserved \in Nat
        BY <2>3
      <4>7. a.bug \in BOOLEAN
        BY <2>3
      <4> QED
        BY <4>3, <4>4, <4>5, <4>6, <4>7
    <3> QED
      BY <2>3, <3>1, Zenon DEF Alloc
  <2>5. \A b \in Bits : ~(ByteOf(b) < a.hint)
    BY <2>1, <2>3 DEF NoHint
  <2> QED
    BY <2>1, <2>3, <2>4, <2>5 DEF AmOK
<1> HIDE DEF a
<1>3. IsCache(c) /\ c.map = <<>>
  <2>1. c.map = <<>> /\ c = [map |-> c.map, max |-> c.max]
    OBVIOUS
  <2> HIDE DEF c
  <2> QED
    BY <2>1, NoFile DEF IsCache
<1> HIDE DEF c
<1>4. l \in Seq(Bits) /\ Len(l) = 1 /\ l[1] = Fdir /\ IsInjective(l) /\ Range(l) = {Fdir} /\ Fdir # 0
  <2>1. Fdir \in Bits /\ Fdir # 0
    BY Sizes DEF Fdir
  <2>2. l \in Seq(Bits) /\ Len(l) = 1 /\ l[1] = Fdir /\ DOMAIN l = {1}
    BY <2>1
  <2> HIDE DEF l
  <2> QED
    BY <2>1, <2>2 DEF IsInjective, Range
<1> HIDE DEF l
<1>5. IsDir(d) /\ d.list = l /\ d.ptrs = {}
  BY DEF IsDir
<1> HIDE DEF d
<1>6. /\ IsState(r) /\ r.am = a /\ r.dir = d /\ r.ents = <<>> /\ r.files = 0
      /\ r.label = a.used /\ r.cache = c /\ r.open = <<>>
  BY <1>3, <1>5, NoFile, StateFacts
<1> HIDE DEF r
<1>7. DirOK(l, <<>>, 0)
  <2>1. 0 + 2 <= Len(l) * Slots /\ Len(l) * Slots <= First + 0
    BY <1>4, Sizes DEF First
  <2>2. Places(l, 0) = {}
    <3>1. First \in Nat
      BY Sizes DEF First
    <3>2. First .. (First + 0 - 1) = {}
      BY <3>1
    <3> QED
      BY <3>2 DEF Places
  <2> QED
    BY <1>4, <2>1, <2>2, NoFile DEF DirOK
<1>8. EntsOK(<<>>, FALSE) /\ CacheOK(<<>>, <<>>) /\ NoEmptyBlock(l, 0)
  BY <1>4, NoFile DEF EntsOK, CacheOK, NoEmptyBlock
<1>9. Owned({0, Fdir}, d, <<>>)
  <2>1. UNION {BlocksOf((<<>>)[x]) : x \in DOMAIN <<>>} = {}
    BY NoFile
  <2> QED
    BY <1>4, <1>5, <2>1, NoFile DEF Owned, BaseOf
<1>10. DiskOK(r)
  BY <1>2, <1>3, <1>5, <1>6, <1>7, <1>8, <1>9 DEF DiskOK
<1>11. Settled(r)
  BY <1>5, <1>6, <1>8, <1>10 DEF Settled
<1>12. Good(r)
  BY <1>6, <1>11, NoneOpen, SettledGood
<1> QED
  BY <1>1, <1>12

\* A state with other addresses in the cache
Rewarmed(w, v) ==
  /\ IsState(v) /\ ButCache(w, v) /\ CacheOK(v.cache.map, w.ents)
  /\ v.cache.max \in {w.cache.max, MaxCache(w.files)}

\* All of them, as a set
Maps(w) == {f \in UNION {[D -> Addrs] : D \in SUBSET Names} : CacheOK(f, w.ents)}

Sizings(w) == {w.cache.max, MaxCache(w.files)}

WithCache(w, c) == State(w.am, w.dir, w.ents, w.files, w.label, [map |-> c[1], max |-> c[2]], w.open)

Warm(w) == {WithCache(w, c) : c \in Maps(w) \X Sizings(w)}

\* That set is the right one.
LEMMA WarmFacts ==
  ASSUME NEW w, DiskOK(w), NEW v
  PROVE  v \in Warm(w) <=> Rewarmed(w, v)
<1> DEFINE M == UNION {[D -> Addrs] : D \in SUBSET Names}
           X == Sizings(w)
           E(m, x) == State(w.am, w.dir, w.ents, w.files, w.label, [map |-> m, max |-> x], w.open)
<1>1. IsState(w) /\ IsDir(w.dir) /\ IsFun(w.ents)
  BY StateParts DEF DiskOK
<1>2. ASSUME v \in Warm(w) PROVE Rewarmed(w, v)
  <2>0. PICK y \in Maps(w) \X X : v = WithCache(w, y)
    BY <1>2 DEF Warm
  <2> DEFINE m == y[1]
             x == y[2]
  <2>1. m \in M /\ x \in X /\ CacheOK(m, w.ents) /\ v = E(m, x)
    BY <2>0 DEF Maps, WithCache
  <2> HIDE DEF m, x
  <2> DEFINE c == [map |-> m, max |-> x]
  <2>2. c = [map |-> c.map, max |-> c.max] /\ c.map = m /\ c.max = x
    OBVIOUS
  <2> HIDE DEF c
  <2>3. IsFun(m)
    <3>1. PICK D \in SUBSET Names : m \in [D -> Addrs]
      BY <2>1
    <3> QED
      BY <3>1 DEF IsFun
  <2>4. IsCache(c)
    BY <2>2, <2>3 DEF IsCache
  <2>5. v = State(w.am, w.dir, w.ents, w.files, w.label, c, w.open)
    BY <2>1 DEF c
  <2>6. /\ IsState(v) /\ v.am = w.am /\ v.dir = w.dir /\ v.ents = w.ents /\ v.files = w.files
        /\ v.label = w.label /\ v.cache = c /\ v.open = w.open
    BY <1>1, <2>4, <2>5, StateFacts
  <2> QED
    BY <2>1, <2>2, <2>6 DEF Rewarmed, ButCache, Sizings
<1>3. ASSUME Rewarmed(w, v) PROVE v \in Warm(w)
  <2> DEFINE m == v.cache.map
             x == v.cache.max
  <2>1. /\ v = State(v.am, v.dir, v.ents, v.files, v.label, v.cache, v.open) /\ IsCache(v.cache)
    BY <1>3, StateParts DEF Rewarmed
  <2>2. v.cache = [map |-> m, max |-> x] /\ IsFun(m)
    BY <2>1 DEF IsCache
  <2>3. v = E(m, x)
    BY <1>3, <2>1, <2>2, Zenon DEF Rewarmed, ButCache
  <2>4. CacheOK(m, w.ents) /\ x \in X
    BY <1>3 DEF Rewarmed, Sizings
  <2>5. m \in M
    <3> HIDE DEF m
    <3>1. /\ DOMAIN m \subseteq Names
          /\ \A n \in DOMAIN m : m[n] # NoAddr => m[n] \in DOMAIN w.ents
      BY <2>4 DEF CacheOK
    <3>2. NoAddr \in Addrs
      BY Sizes DEF NoAddr, Addrs
    <3>3. \A n \in DOMAIN m : m[n] \in Addrs
      BY <3>1, <3>2, NoAddrFacts
    <3>4. m \in [DOMAIN m -> Addrs]
      BY <2>2, <3>3 DEF IsFun
    <3> QED
      BY <3>1, <3>4
  <2> HIDE DEF m, x
  <2> DEFINE y == <<m, x>>
  <2>6. y \in Maps(w) \X X /\ v = WithCache(w, y)
    BY <2>3, <2>4, <2>5 DEF Maps, WithCache
  <2> HIDE DEF y
  <2> QED
    BY <2>6 DEF Warm
<1> QED
  BY <1>2, <1>3

\* One entry more gets into the cache.
LEMMA WarmStep ==
  ASSUME NEW w, DiskOK(w), NEW v, v \in Warm(w), NEW a \in DOMAIN w.ents
  PROVE  CacheFst(v, w.ents[a].name, a) \in Warm(w)
<1> DEFINE n == w.ents[a].name
           u == CacheFst(v, n, a)
<1>1. Rewarmed(w, v)
  BY WarmFacts
<1>2. IsState(v) /\ CacheOK(v.cache.map, w.ents) /\ n \in Names /\ ButCache(w, v)
  BY <1>1, BlocksFacts DEF Rewarmed
<1>3. IsState(u) /\ ButCache(v, u) /\ CacheOK(u.cache.map, w.ents)
  <2> HIDE DEF n
  <2>1. n = w.ents[a].name
    BY DEF n
  <2> QED
    BY <1>2, <2>1, CacheFstIs
<1>4. u.cache.max \in {v.cache.max, MaxCache(v.files)}
  <2>1. IsState(v)
    BY <1>2
  <2> HIDE DEF n
  <2>2. CASE n \in DOMAIN v.cache.map
    BY <2>2 DEF CacheFst
  <2>3. CASE n \notin DOMAIN v.cache.map /\ Cardinality(DOMAIN v.cache.map) = v.cache.max - 1
    <3>1. u = [v EXCEPT !.cache = [map |-> [x \in {n} |-> a], max |-> MaxCache(v.files)]]
      BY <2>3 DEF CacheFst
    <3> HIDE DEF u
    <3> QED
      BY <2>1, <3>1 DEF IsState
  <2>4. CASE n \notin DOMAIN v.cache.map /\ ~(Cardinality(DOMAIN v.cache.map) = v.cache.max - 1)
    <3> DEFINE m == Put(v.cache.map, n, a)
    <3>1. u = [v EXCEPT !.cache.map = m]
      BY <2>4 DEF CacheFst
    <3> HIDE DEF u, m
    <3> QED
      BY <2>1, <3>1 DEF IsState
  <2> QED
    BY <2>2, <2>3, <2>4
<1> HIDE DEF u
<1>5. Rewarmed(w, u)
  BY <1>1, <1>2, <1>3, <1>4 DEF Rewarmed, ButCache
<1> QED
  BY <1>5, WarmFacts DEF u

\* cmsfs_readdir.
LEMMA ReaddirGood ==
  ASSUME Good(st), Readdir
  PROVE  GoodStep
<1> DEFINE shown == {p \in Walked(st) : ~ Unlinked(st, ents[PosAddr(st, p)].name)}
           last == (Len(dir.list) + 1) * Slots
           S == Warm(st)
           Step(p, v) == IF p \in shown THEN CacheFst(v, ents[PosAddr(st, p)].name, PosAddr(st, p)) ELSE v
<1>0. DiskOK(st) /\ DirOK(st.dir.list, st.ents, st.files)
  BY GoodFacts DEF DiskOK
<1>1. st \in S /\ last \in Nat
  <2>1. Rewarmed(st, st)
    BY <1>0 DEF Rewarmed, ButCache, DiskOK
  <2>2. last \in Nat
    BY <1>0, Ranges, Parts
  <2> QED
    BY <1>0, <2>1, <2>2, WarmFacts
<1>2. ASSUME NEW i \in 1 .. last, NEW v \in S PROVE Step(i, v) \in S
  <2>1. CASE i \in shown
    <3> DEFINE s == st
               l == s.dir.list
               k == s.files
    <3>1. i \in First .. (First + k - 1)
      <4>1. i \in Walked(s)
        BY <2>1
      <4> HIDE DEF s
      <4> QED
        BY <1>0, <4>1, WalkedIs DEF s
    <3>2. PosAddr(s, i) \in DOMAIN s.ents
      <4>1. DOMAIN s.ents = Places(l, k)
        BY <1>0 DEF DirOK
      <4>2. PosAddr(s, i) = At(l, i)
        BY DEF PosAddr, At
      <4> HIDE DEF s
      <4> QED
        BY <3>1, <4>1, <4>2 DEF Places
    <3>3. v \in Warm(s) /\ DiskOK(s)
      BY <1>0
    <3>4. Step(i, v) = CacheFst(v, s.ents[PosAddr(s, i)].name, PosAddr(s, i))
      BY <2>1, Parts
    <3> HIDE DEF s
    <3> DEFINE a == PosAddr(s, i)
    <3>5. a \in DOMAIN s.ents
      BY <3>2
    <3> HIDE DEF a
    <3>6. CacheFst(v, s.ents[a].name, a) \in Warm(s)
      BY <3>3, <3>5, WarmStep
    <3> QED
      BY <3>4, <3>6 DEF a, s
  <2>2. CASE i \notin shown
    BY <2>2
  <2> QED
    BY <2>1, <2>2
<1> DEFINE G == [p \in (1 .. last) \X S |-> Step(p[1], p[2])]
<1>3. G \in [(1 .. last) \X S -> S]
  <2> HIDE DEF Step, S, last
  <2> QED
    BY <1>2
<1>4. PICK f : f \in [0 .. last -> S] /\ \A i \in 0 .. last : f[i] = IF i = 0 THEN st ELSE G[<<i, f[i - 1]>>]
  <2> DEFINE base == st
  <2> HIDE DEF G, S, last, base
  <2>1. PICK f : Chain(S, last, base, G, f)
    BY <1>1, <1>3, Recursion DEF base
  <2> QED
    BY <2>1 DEF Chain, base
<1> DEFINE Def(h) ==
             h = [p \in 0 .. last |->
                    IF p = 0 THEN st
                    ELSE IF p \in shown THEN CacheFst(h[p - 1], ents[PosAddr(st, p)].name, PosAddr(st, p))
                    ELSE h[p - 1]]
<1>5. ASSUME NEW i \in 0 .. last PROVE f[i] = IF i = 0 THEN st ELSE Step(i, f[i - 1])
  <2> HIDE DEF Step, S, last
  <2>1. CASE i = 0
    BY <1>4, <2>1
  <2>2. CASE i # 0
    <3>1. i \in 1 .. last /\ i - 1 \in 0 .. last
      BY <1>1, <2>2
    <3>2. f[i - 1] \in S
      BY <1>4, <3>1
    <3>3. G[<<i, f[i - 1]>>] = Step(i, f[i - 1])
      BY <3>1, <3>2
    <3> QED
      BY <1>4, <2>2, <3>3
  <2> QED
    BY <2>1, <2>2
<1>6. Def(f)
  <2> DEFINE v(p) == IF p = 0 THEN st
                     ELSE IF p \in shown THEN CacheFst(f[p - 1], ents[PosAddr(st, p)].name, PosAddr(st, p))
                     ELSE f[p - 1]
  <2>1. f = [p \in 0 .. last |-> f[p]]
    BY <1>4
  <2>2. \A p \in 0 .. last : f[p] = v(p)
    BY <1>5
  <2> HIDE DEF v, last
  <2>3. f = [p \in 0 .. last |-> v(p)]
    BY <2>1, <2>2
  <2> QED
    BY <2>3 DEF v
<1> DEFINE c == CHOOSE h : Def(h)
<1>7. Def(c)
  <2>1. \E h : Def(h)
    BY <1>6, Zenon
  <2> HIDE DEF Def
  <2> QED
    BY <2>1, Zenon
<1>8. Becomes(c[last])
  BY Zenon DEF Readdir
<1> HIDE DEF c
<1>9. \A i \in 0 .. last : c[i] = IF i = 0 THEN st ELSE Step(i, c[i - 1])
  <2> DEFINE v(p) == IF p = 0 THEN st
                     ELSE IF p \in shown THEN CacheFst(c[p - 1], ents[PosAddr(st, p)].name, PosAddr(st, p))
                     ELSE c[p - 1]
  <2>1. c = [i \in 0 .. last |-> v(i)]
    BY <1>7
  <2>2. \A i \in 0 .. last : v(i) = IF i = 0 THEN st ELSE Step(i, c[i - 1])
    OBVIOUS
  <2> HIDE DEF v, last, Step
  <2>3. \A i \in 0 .. last : c[i] = v(i)
    BY <2>1
  <2> QED
    BY <2>2, <2>3
<1>10. c[last] \in S
  <2> HIDE DEF Step, S, last, Def
  <2> DEFINE T == {i \in 0 .. last : c[i] \in S}
  <2>1. 0 \in T
    BY <1>1, <1>9
  <2>2. ASSUME NEW i \in 1 .. last, i - 1 \in T PROVE i \in T
    BY <1>1, <1>2, <1>9, <2>2
  <2>3. \A i \in 0 .. last : i \in T
    <3> HIDE DEF T
    <3> QED
      BY <1>1, <2>1, <2>2, InductTo
  <2> QED
    BY <1>1, <2>3
<1> DEFINE r == c[last]
           s == st
<1>11. r \in Warm(s) /\ Becomes(r) /\ Good(s) /\ DiskOK(s)
  BY <1>0, <1>8, <1>10
<1> HIDE DEF r, s
<1>12. Rewarmed(s, r)
  BY <1>11, WarmFacts
<1>13. DiskOK(r) /\ ButCache(s, r)
  BY <1>11, <1>12, CacheStep DEF Rewarmed, ButCache
<1>14. Good(r)
  BY <1>11, <1>13, CacheStepGood
<1>15. Safe(s.am, s.dir, r.am, r.dir)
  BY <1>13, SafeKept DEF ButCache
<1> QED
  BY <1>11, <1>14, <1>15, BecomesGood DEF s

\* An entry gets a name that no other one has.
LEMMA NamedFacts ==
  ASSUME NEW e, NEW bug, EntsOK(e, bug), NEW map, NEW d, Owned(map, d, e),
         NEW a \in DOMAIN e, NEW new \in Names, \A b \in DOMAIN e : e[b].name # new,
         NEW x, x = [e[a] EXCEPT !.name = new]
  PROVE  /\ EntsOK(Put(e, a, x), bug) /\ Owned(map, d, Put(e, a, x))
         /\ DOMAIN Put(e, a, x) = DOMAIN e /\ IsFun(Put(e, a, x))
         /\ Put(e, a, x)[a] = x /\ \A b \in DOMAIN e : b # a => Put(e, a, x)[b] = e[b]
         /\ x \in Entry /\ x.name = new
<1> DEFINE p == Put(e, a, x)
           f == e[a]
<1>1. DOMAIN p = DOMAIN e /\ p[a] = x /\ \A b \in DOMAIN e : b # a => p[b] = e[b]
  BY DEF Put
<1>2. IsFun(p)
  BY PutIsFunction DEF IsFun
<1> HIDE DEF p
<1>3. /\ \A b \in DOMAIN e : /\ e[b] \in Entry /\ IsInjective(e[b].data) /\ Range(e[b].data) \cap e[b].meta = {}
                             /\ ~ bug => Cardinality(e[b].meta) = PtrBlocks(Len(e[b].data))
      /\ \A b, c \in DOMAIN e : e[b].name = e[c].name => b = c
  BY DEF EntsOK
<1>4. f \in Entry /\ x = [f EXCEPT !.name = new]
  BY <1>3
<1>5. x \in Entry /\ x.name = new /\ x.data = f.data /\ x.meta = f.meta
  <2> HIDE DEF f
  <2> QED
    BY <1>4 DEF Entry
<1>6. EntsOK(p, bug)
  <2>1. ASSUME NEW b \in DOMAIN p
        PROVE  /\ p[b] \in Entry /\ IsInjective(p[b].data) /\ Range(p[b].data) \cap p[b].meta = {}
               /\ ~ bug => Cardinality(p[b].meta) = PtrBlocks(Len(p[b].data))
    <3>1. CASE b = a
      <4>1. p[b] = x
        BY <1>1, <3>1
      <4>2. /\ IsInjective(f.data) /\ Range(f.data) \cap f.meta = {}
            /\ ~ bug => Cardinality(f.meta) = PtrBlocks(Len(f.data))
        BY <1>3
      <4> HIDE DEF f
      <4> QED
        BY <1>5, <4>1, <4>2
    <3>2. CASE b # a
      BY <1>1, <1>3, <3>2
    <3> QED
      BY <3>1, <3>2
  <2>2. ASSUME NEW b \in DOMAIN p, NEW c \in DOMAIN p, p[b].name = p[c].name PROVE b = c
    BY <1>1, <1>3, <1>5, <2>2
  <2> QED
    BY <2>1, <2>2 DEF EntsOK
<1>7. \A b \in DOMAIN e : BlocksOf(p[b]) = BlocksOf(e[b])
  BY <1>1, <1>5 DEF BlocksOf
<1>8. Owned(map, d, p)
  <2> DEFINE B(y) == BlocksOf(y)
             W == BaseOf(d)
  <2>1. /\ d.ptrs \in SUBSET Bits /\ d.ptrs \cap ({0} \cup Range(d.list)) = {}
        /\ map = W \cup UNION {B(e[b]) : b \in DOMAIN e}
        /\ \A b \in DOMAIN e : B(e[b]) \cap W = {}
        /\ \A b, c \in DOMAIN e : b # c => B(e[b]) \cap B(e[c]) = {}
    BY DEF Owned
  <2>2. \A b \in DOMAIN e : B(p[b]) = B(e[b])
    BY <1>7
  <2> HIDE DEF B, W
  <2>3. UNION {B(e[b]) : b \in DOMAIN e} = UNION {B(p[b]) : b \in DOMAIN p}
    BY <1>1, <2>2
  <2>4. \A b \in DOMAIN p : B(p[b]) \cap W = {}
    BY <1>1, <2>1, <2>2
  <2>5. \A b, c \in DOMAIN p : b # c => B(p[b]) \cap B(p[c]) = {}
    BY <1>1, <2>1, <2>2
  <2>6. map = W \cup UNION {B(p[b]) : b \in DOMAIN p}
    BY <2>1, <2>3
  <2> QED
    BY <2>1, <2>4, <2>5, <2>6 DEF Owned, B, W
<1> QED
  BY <1>1, <1>2, <1>5, <1>6, <1>8 DEF p

\* The entry and the object of an open file get a name that no open file has.
LEMMA NamedObject ==
  ASSUME NEW o, NEW e, OpenOK(o, e), NEW i \in DOMAIN o, NEW new \in Names, \A j \in DOMAIN o : o[j].path # new,
         NEW p, DOMAIN p = DOMAIN e, \A b \in DOMAIN e : b # o[i].addr => p[b] = e[b],
         NEW x \in ObjectType, x.path = new, x.addr = o[i].addr, x.use = o[i].use,
         x.fst = p[x.addr], x.fst.name = new
  PROVE  OpenOK([o EXCEPT ![i] = x], p)
<1> DEFINE q == [o EXCEPT ![i] = x]
<1>1. /\ o \in Seq(ObjectType)
      /\ \A j \in DOMAIN o : /\ o[j].addr \in DOMAIN e /\ e[o[j].addr] = o[j].fst
                             /\ o[j].fst.name = o[j].path /\ o[j].use \in 1 .. MaxUse
      /\ \A j, k \in DOMAIN o : o[j].path = o[k].path => j = k
  BY DEF OpenOK
<1>2. q \in Seq(ObjectType) /\ DOMAIN q = DOMAIN o /\ q[i] = x /\ \A j \in DOMAIN o : j # i => q[j] = o[j]
  BY <1>1
<1> HIDE DEF q
<1>3. \A j \in DOMAIN o : j # i => o[j].addr # o[i].addr
  BY <1>1
<1>4. ASSUME NEW j \in DOMAIN q
      PROVE  /\ q[j].addr \in DOMAIN p /\ p[q[j].addr] = q[j].fst
             /\ q[j].fst.name = q[j].path /\ q[j].use \in 1 .. MaxUse
  <2>1. CASE j = i
    BY <1>1, <1>2, <2>1
  <2>2. CASE j # i
    BY <1>1, <1>2, <1>3, <2>2
  <2> QED
    BY <2>1, <2>2
<1>5. ASSUME NEW j \in DOMAIN q, NEW k \in DOMAIN q, q[j].path = q[k].path PROVE j = k
  BY <1>1, <1>2, <1>5
<1>6. OpenOK(q, p)
  BY <1>2, <1>4, <1>5 DEF OpenOK
<1> QED
  BY <1>6 DEF q

\* The last step of cmsfs_rename, on a directory without the new name.
RenamedTo(u, n, new, a, fst) == [Renamed(u, n, new) EXCEPT !.ents = Put(@, a, fst)]

\* The entry gets the new name, and the object of the file with it.
LEMMA RenamedFacts ==
  ASSUME NEW u, Good(u), NEW n, NEW new \in Names, FileOpen(u, new) = 0, NEW a \in DOMAIN u.ents,
         u.ents[a].name = n, \A b \in DOMAIN u.ents : u.ents[b].name # new,
         n \in DOMAIN u.cache.map => u.cache.map[n] = NoAddr,
         NEW fst, fst = [u.ents[a] EXCEPT !.name = new]
  PROVE  /\ Good(RenamedTo(u, n, new, a, fst))
         /\ RenamedTo(u, n, new, a, fst).am = u.am /\ RenamedTo(u, n, new, a, fst).dir = u.dir
<1> DEFINE e == u.ents
           p == Put(e, a, fst)
           i == FileOpen(u, n)
           z == RenamedTo(u, n, new, a, fst)
<1>1. /\ DiskOK(u) /\ OpenOK(u.open, e) /\ IsState(u)
      /\ DirOK(u.dir.list, e, u.files) /\ EntsOK(e, u.am.bug) /\ Owned(u.am.map, u.dir, e)
      /\ CacheOK(u.cache.map, e)
  BY GoodFacts DEF DiskOK
<1>2. /\ EntsOK(p, u.am.bug) /\ Owned(u.am.map, u.dir, p)
      /\ DOMAIN p = DOMAIN e /\ IsFun(p) /\ p[a] = fst /\ \A b \in DOMAIN e : b # a => p[b] = e[b]
      /\ fst \in Entry /\ fst.name = new
  <2> HIDE DEF e
  <2>1. a \in DOMAIN e /\ (\A b \in DOMAIN e : e[b].name # new) /\ fst = [e[a] EXCEPT !.name = new]
    BY DEF e
  <2> QED
    BY <1>1, <2>1, NamedFacts
<1> HIDE DEF p
<1>3. DirOK(u.dir.list, p, u.files)
  BY <1>1, <1>2 DEF DirOK
<1>4. CacheOK(u.cache.map, p)
  <2> DEFINE m == u.cache.map
  <2>1. /\ DOMAIN m \subseteq Names
        /\ \A x \in DOMAIN m : m[x] # NoAddr => m[x] \in DOMAIN e /\ e[m[x]].name = x
    BY <1>1 DEF CacheOK
  <2>2. ASSUME NEW x \in DOMAIN m, m[x] # NoAddr PROVE m[x] \in DOMAIN p /\ p[m[x]].name = x
    <3>1. x # n
      BY <2>2
    <3>2. m[x] \in DOMAIN e /\ e[m[x]].name = x /\ m[x] # a
      BY <2>1, <2>2, <3>1
    <3> QED
      BY <1>2, <3>2
  <2> QED
    BY <2>1, <2>2 DEF CacheOK
<1>5. ASSUME NEW o, OpenOK(o, p), z = State(u.am, u.dir, p, u.files, u.label, u.cache, o)
      PROVE  Good(z) /\ z.am = u.am /\ z.dir = u.dir
  <2>1. /\ IsState(z) /\ z.am = u.am /\ z.dir = u.dir /\ z.ents = p /\ z.files = u.files
        /\ z.label = u.label /\ z.cache = u.cache /\ z.open = o
    BY <1>1, <1>2, <1>5, StateParts, StateFacts
  <2> HIDE DEF z
  <2>2. DiskOK(z)
    BY <1>1, <1>2, <1>3, <1>4, <2>1 DEF DiskOK
  <2> QED
    BY <1>5, <2>1, <2>2 DEF Good
<1>6. /\ u.open \in Seq(ObjectType)
      /\ \A j \in DOMAIN u.open : /\ u.open[j].addr \in DOMAIN e /\ e[u.open[j].addr] = u.open[j].fst
                                  /\ u.open[j].fst.name = u.open[j].path /\ u.open[j].use \in 1 .. MaxUse
  BY <1>1 DEF OpenOK
<1>7. /\ i \in {0} \cup DOMAIN u.open
      /\ i = 0 => \A j \in DOMAIN u.open : u.open[j].path # n
      /\ i # 0 => u.open[i].path = n
  BY <1>6, FileOpenFacts
<1>8. \A j \in DOMAIN u.open : u.open[j].path # new
  <2> DEFINE h == FileOpen(u, new)
  <2>1. h = 0 /\ (h = 0 => \A j \in DOMAIN u.open : u.open[j].path # new)
    BY <1>6, FileOpenFacts
  <2> QED
    BY <2>1
<1>9. CASE i = 0
  <2>1. \A j \in DOMAIN u.open : u.open[j].addr # a
    BY <1>6, <1>7, <1>9
  <2>2. OpenOK(u.open, p)
    BY <1>1, <2>1, OtherEntry DEF p
  <2>3. z = [u EXCEPT !.ents = p]
    BY <1>9 DEF RenamedTo, Renamed, p
  <2> HIDE DEF z
  <2>4. z = State(u.am, u.dir, p, u.files, u.label, u.cache, u.open)
    BY <1>1, <2>3 DEF IsState, State
  <2> QED
    BY <1>5, <2>2, <2>4 DEF z
<1>10. CASE i # 0
  <2> DEFINE f == u.open[i]
             x == [f EXCEPT !.path = new, !.fst.name = new]
             o == [u.open EXCEPT ![i] = x]
  <2>1. i \in DOMAIN u.open /\ f \in ObjectType /\ f.fst = e[f.addr] /\ e[f.addr].name = n /\ f.addr \in DOMAIN e
    BY <1>6, <1>7, <1>10
  <2>2. f.addr = a
    BY <1>1, <2>1 DEF EntsOK
  <2>3. x = [f EXCEPT !.path = new, !.fst = fst]
    BY <2>1, <2>2
  <2>4. z = [u EXCEPT !.open = o, !.ents = p]
    <3>1. Renamed(u, n, new) = [u EXCEPT !.open = o]
      <4>1. Renamed(u, n, new) = [u EXCEPT !.open[i].path = new, !.open[i].fst.name = new]
        BY <1>10 DEF Renamed
      <4>2. [u EXCEPT !.open[i].path = new, !.open[i].fst.name = new] = [u EXCEPT !.open = o]
        <5> DEFINE y == [f EXCEPT !.path = new]
                   q == [u.open EXCEPT ![i] = y]
                   v == [u EXCEPT !.open = q]
        <5>1. [u EXCEPT !.open[i].path = new] = v
          OBVIOUS
        <5>2. v.open = q /\ v.am = u.am /\ q[i] = y /\ y.fst = f.fst /\ x = [y EXCEPT !.fst.name = new]
          <6> HIDE DEF i
          <6>1. i \in DOMAIN u.open /\ u.open \in Seq(ObjectType)
            BY <1>6, <2>1
          <6>2. v.open = q /\ v.am = u.am
            <7> HIDE DEF q
            <7> QED
              BY <1>1 DEF IsState
          <6>3. q[i] = y
            <7> HIDE DEF y
            <7> QED
              BY <6>1
          <6>4. y.fst = f.fst
            <7> HIDE DEF f
            <7> QED
              BY <2>1 DEF ObjectType
          <6>5. x = [y EXCEPT !.fst.name = new]
            <7> HIDE DEF f
            <7> QED
              BY <2>1 DEF ObjectType
          <6> QED
            BY <6>2, <6>3, <6>4, <6>5
        <5>3. [u EXCEPT !.open[i].path = new, !.open[i].fst.name = new] = [v EXCEPT !.open[i].fst.name = new]
          OBVIOUS
        <5>4. [v EXCEPT !.open[i].fst.name = new] = [v EXCEPT !.open = [q EXCEPT ![i] = [y EXCEPT !.fst.name = new]]]
          <6> HIDE DEF v, q, y, i
          <6> QED
            BY <5>2
        <5>5. [q EXCEPT ![i] = x] = o
          <6> HIDE DEF x, y
          <6> QED
            BY <1>6, <2>1
        <5>6. [v EXCEPT !.open = o] = [u EXCEPT !.open = o]
          <6> HIDE DEF o, q
          <6> QED
            BY <1>1 DEF IsState
        <5> HIDE DEF v, q, o, x, y, i
        <5>7. [v EXCEPT !.open[i].fst.name = new] = [v EXCEPT !.open = o]
          BY <5>2, <5>4, <5>5
        <5> QED
          BY <5>3, <5>6, <5>7
      <4> QED
        BY <4>1, <4>2
    <3> HIDE DEF o
    <3>2. z = [[u EXCEPT !.open = o] EXCEPT !.ents = Put(u.ents, a, fst)]
      <4> DEFINE v == [u EXCEPT !.open = o]
      <4>1. v.ents = u.ents
        BY <1>1 DEF IsState
      <4> HIDE DEF v
      <4>2. z = [v EXCEPT !.ents = Put(v.ents, a, fst)]
        BY <3>1 DEF RenamedTo, v
      <4> QED
        BY <4>1, <4>2 DEF v
    <3> QED
      BY <3>2 DEF p
  <2>5. x \in ObjectType /\ x.path = new /\ x.addr = a /\ x.use = f.use /\ x.fst = fst
    <3> HIDE DEF x, f
    <3> QED
      BY <1>2, <2>1, <2>2, <2>3 DEF ObjectType
  <2> HIDE DEF x
  <2>6. OpenOK(o, p)
    <3> HIDE DEF e, i
    <3>1. i \in DOMAIN u.open /\ u.open[i].addr = a /\ x.addr = u.open[i].addr /\ x.use = u.open[i].use
      BY <2>1, <2>2, <2>5
    <3>2. DOMAIN p = DOMAIN e /\ \A b \in DOMAIN e : b # u.open[i].addr => p[b] = e[b]
      BY <1>2, <3>1
    <3>3. x.fst = p[x.addr] /\ x.fst.name = new
      BY <1>2, <2>5
    <3> DEFINE l == u.open
    <3>4. /\ OpenOK(l, e) /\ i \in DOMAIN l /\ new \in Names /\ (\A j \in DOMAIN l : l[j].path # new)
          /\ DOMAIN p = DOMAIN e /\ (\A b \in DOMAIN e : b # l[i].addr => p[b] = e[b])
          /\ x \in ObjectType /\ x.path = new /\ x.addr = l[i].addr /\ x.use = l[i].use
          /\ x.fst = p[x.addr] /\ x.fst.name = new
      BY <1>1, <1>8, <2>5, <3>1, <3>2, <3>3
    <3> HIDE DEF l
    <3>5. OpenOK([l EXCEPT ![i] = x], p)
      BY <3>4, NamedObject
    <3> QED
      BY <3>5 DEF l
  <2> HIDE DEF o, z
  <2>7. z = State(u.am, u.dir, p, u.files, u.label, u.cache, o)
    BY <1>1, <2>4 DEF IsState, State
  <2> QED
    BY <1>5, <2>6, <2>7 DEF z
<1> QED
  BY <1>9, <1>10

\* cmsfs_rename keeps the invariant if what it replaces is not open: it looks the
\* entry up again after the deletion, which may have moved it.
LEMMA RenameGood ==
  ASSUME {"alone", "fresh"} \subseteq Habits, Good(st), NEW n \in Names, NEW new \in Names, Rename(n, new)
  PROVE  GoodStep
<1> DEFINE s == st
           s1 == LookedUp(s, n, TRUE)
           w == LookedUp(s1, new, TRUE)
           first == Lookup(s, n, TRUE)
           target == Lookup(s, new, TRUE)
           over == target # NoAddr
           v == IF over THEN Deleted(w, new) ELSE w
           a == IF over THEN Lookup(v, n, TRUE) ELSE Lookup(w, n, TRUE)
           fst == [(IF a = NoAddr THEN s.ents[first] ELSE v.ents[a]) EXCEPT !.name = new]
           v1 == LookedUp(v, n, TRUE)
           t == IF over THEN v1 ELSE v
           u == Recache(t, n, NoAddr)
           z == RenamedTo(u, n, new, a, fst)
<1>1. /\ first # NoAddr /\ n # new /\ FileOpen(s, new) = 0 /\ (over => s.open = <<>>)
      /\ Becomes(z)
  BY Parts DEF Rename, RenamedTo
<1>2. Good(s) /\ DiskOK(s) /\ OpenOK(s.open, s.ents)
  BY GoodFacts
<1> HIDE DEF s
<1>3. DiskOK(s1) /\ ButCache(s, s1)
  BY <1>2, LookedUpFacts
<1> HIDE DEF s1
<1>4. DiskOK(w) /\ ButCache(s1, w)
  BY <1>3, LookedUpFacts
<1> HIDE DEF w
<1>5. Good(w) /\ w.ents = s.ents /\ w.open = s.open /\ w.am = s.am /\ w.dir = s.dir
  <2>1. ButCache(s, w)
    BY <1>3, <1>4 DEF ButCache
  <2> QED
    BY <1>2, <1>4, <2>1, CacheStepGood DEF ButCache
<1>6. /\ first # NoAddr => first \in DOMAIN s.ents /\ s.ents[first].name = n
      /\ target = NoAddr /\ ~(TRUE /\ Unlinked(s, new)) => \A b \in DOMAIN s.ents : s.ents[b].name # new
  BY <1>2, LookupFacts
<1>7. ~ Unlinked(s, new)
  BY <1>1 DEF Unlinked
<1>8. ~ Unlinked(s, n)
  BY <1>1 DEF Lookup
<1> HIDE DEF first, target
<1>9. /\ Good(v) /\ v.open = s.open /\ n \in NamesIn(v.ents) /\ new \notin NamesIn(v.ents)
      /\ Safe(s.am, s.dir, v.am, v.dir)
  <2>1. n \in NamesIn(s.ents)
    BY <1>1, <1>6 DEF NamesIn
  <2>2. CASE over
    <3> DEFINE d == Deleted(w, new)
    <3>1. v = d
      BY <2>2
    <3>2. Settled(w)
      BY <1>5 DEF Good, Settled
    <3>3. /\ Settled(d) /\ d.open = w.open /\ NamesIn(d.ents) = NamesIn(w.ents) \ {new}
          /\ Safe(w.am, w.dir, d.am, d.dir)
      BY <3>2, DeletedFacts
    <3> HIDE DEF d
    <3>4. OpenOK(d.open, d.ents)
      BY <1>1, <1>5, <2>2, <3>3, NoneOpen
    <3>5. Good(d)
      BY <3>3, <3>4, SettledGood
    <3> QED
      BY <1>1, <1>5, <2>1, <3>1, <3>3, <3>5
  <2>3. CASE ~ over
    <3>1. v = w
      BY <2>3
    <3>2. \A b \in DOMAIN s.ents : s.ents[b].name # new
      BY <1>6, <1>7, <2>3
    <3>3. new \notin NamesIn(s.ents)
      BY <3>2 DEF NamesIn
    <3> QED
      BY <1>5, <2>1, <3>1, <3>3, SafeKept
  <2> QED
    BY <2>2, <2>3
<1>10. a = Lookup(v, n, TRUE)
  BY Zenon
<1>11. DiskOK(v) /\ ~ Unlinked(v, n) /\ FileOpen(v, new) = 0
  <2>1. FileOpen(v, n) = FileOpen(s, n) /\ FileOpen(v, new) = FileOpen(s, new)
    BY <1>9 DEF FileOpen
  <2> QED
    BY <1>1, <1>8, <1>9, <2>1, GoodFacts DEF Unlinked
<1> HIDE DEF v
<1>12. a \in DOMAIN v.ents /\ v.ents[a].name = n /\ a # NoAddr
  <2> DEFINE b == Lookup(v, n, TRUE)
  <2>1. /\ b # NoAddr => b \in DOMAIN v.ents /\ v.ents[b].name = n
        /\ b = NoAddr /\ ~(TRUE /\ Unlinked(v, n)) => \A c \in DOMAIN v.ents : v.ents[c].name # n
    BY <1>11, LookupFacts
  <2> HIDE DEF b
  <2>2. b # NoAddr
    BY <1>9, <1>11, <2>1 DEF NamesIn
  <2>3. a = b
    BY <1>10 DEF b
  <2> QED
    BY <2>1, <2>2, <2>3
<1> HIDE DEF a
<1>13. fst = [v.ents[a] EXCEPT !.name = new]
  BY <1>12
<1> HIDE DEF fst
<1>14. DiskOK(v1) /\ ButCache(v, v1)
  BY <1>11, LookedUpFacts
<1> HIDE DEF v1
<1>15. DiskOK(t) /\ ButCache(v, t)
  BY <1>11, <1>14 DEF ButCache
<1> HIDE DEF t
<1>16. /\ IsState(u) /\ ButCache(t, u) /\ DOMAIN u.cache.map = DOMAIN t.cache.map
       /\ \A x \in DOMAIN t.cache.map : u.cache.map[x] = IF x = n THEN NoAddr ELSE t.cache.map[x]
  BY <1>15, RecacheFacts DEF DiskOK
<1> HIDE DEF u
<1>17. ButCache(v, u) /\ u.ents = v.ents /\ u.open = v.open /\ u.am = v.am /\ u.dir = v.dir
  BY <1>15, <1>16 DEF ButCache
<1>18. CacheOK(u.cache.map, u.ents)
  <2>1. CacheOK(t.cache.map, v.ents)
    BY <1>15 DEF DiskOK, ButCache
  <2> QED
    BY <1>16, <1>17, <2>1 DEF CacheOK
<1>19. DiskOK(u)
  BY <1>11, <1>16, <1>17, <1>18, CacheStep
<1>20. Good(u)
  BY <1>9, <1>17, <1>19, CacheStepGood
<1>21. /\ FileOpen(u, new) = 0 /\ a \in DOMAIN u.ents /\ u.ents[a].name = n
       /\ \A b \in DOMAIN u.ents : u.ents[b].name # new
       /\ n \in DOMAIN u.cache.map => u.cache.map[n] = NoAddr
       /\ fst = [u.ents[a] EXCEPT !.name = new]
  <2>1. FileOpen(u, new) = 0
    BY <1>11, <1>17 DEF FileOpen
  <2>2. \A b \in DOMAIN u.ents : u.ents[b].name # new
    BY <1>9, <1>17 DEF NamesIn
  <2>3. n \in DOMAIN u.cache.map => u.cache.map[n] = NoAddr
    BY <1>16
  <2> QED
    BY <1>12, <1>13, <1>17, <2>1, <2>2, <2>3
<1>22. Good(z) /\ z.am = u.am /\ z.dir = u.dir
  BY <1>20, <1>21, RenamedFacts
<1> HIDE DEF z
<1>23. Safe(s.am, s.dir, z.am, z.dir)
  BY <1>9, <1>17, <1>22
<1> QED
  BY <1>1, <1>22, <1>23, BecomesGood DEF s

\* Every operation.
LEMMA NextGood ==
  ASSUME {"alone", "fresh"} \subseteq Habits, Good(st), [Next]_vars
  PROVE  GoodStep
<1>1. CASE Next
  <2>1. ASSUME NEW n \in Names, Getattr(n) \/ Create(n) \/ Open(n) \/ Unlink(n) PROVE GoodStep
    BY <2>1, GetattrGood, CreateGood, OpenGood, UnlinkGood
  <2>2. CASE Readdir
    BY <2>2, ReaddirGood
  <2>3. ASSUME NEW i \in DOMAIN open, NEW n \in 0 .. MaxWrite, NEW tail \in BOOLEAN, Write(i, n, tail) PROVE GoodStep
    BY <2>3, WriteGood
  <2>4. ASSUME NEW i \in DOMAIN open, Release(i) PROVE GoodStep
    BY <2>4, ReleaseGood
  <2>5. ASSUME NEW n \in Names, NEW k \in 0 .. MaxBlocks, Truncate(n, k) PROVE GoodStep
    BY <2>5, TruncateGood
  <2>6. ASSUME NEW n \in Names, NEW new \in Names, Rename(n, new) PROVE GoodStep
    BY <2>6, RenameGood
  <2>7. CASE Remount
    BY <2>7, RemountGood
  <2> QED
    BY <1>1, <2>1, <2>2, <2>3, <2>4, <2>5, <2>6, <2>7 DEF Next
<1>2. CASE UNCHANGED vars
  <2>1. st' = st
    BY <1>2 DEF vars, st
  <2>2. Good(st')
    BY <2>1
  <2>3. am' = am /\ dir' = dir
    BY <1>2 DEF vars
  <2>4. Safe(am, dir, am', dir')
    BY <2>3, SafeKept
  <2> QED
    BY <2>2, <2>4 DEF GoodStep
<1> QED
  BY <1>1, <1>2

\* Whatever the operations, the disk and what the daemon remembers of it agree.
THEOREM GoodInvariant ==
  ASSUME {"alone", "fresh"} \subseteq Habits
  PROVE  Spec => []Good(st)
<1>1. Init => Good(st)
  BY InitGood
<1>2. Good(st) /\ [Next]_vars => Good(st)'
  BY NextGood DEF GoodStep
<1> QED
  BY <1>1, <1>2, PTL DEF Spec

\* Objects of open files agree with their entries.
LEMMA GoodObject ==
  ASSUME Good(st)
  PROVE  ObjectExact
<1> DEFINE s == st
<1>1. DiskOK(s) /\ OpenOK(s.open, s.ents)
  BY GoodFacts
<1>2. ASSUME NEW i \in DOMAIN s.open
      PROVE  s.open[i].addr = Walk(s, s.open[i].path) /\ s.ents[s.open[i].addr] = s.open[i].fst
  <2> HIDE DEF s
  <2> DEFINE a == s.open[i].addr
  <2>1. a \in DOMAIN s.ents /\ s.ents[a] = s.open[i].fst /\ s.ents[a].name = s.open[i].path
    BY <1>1 DEF OpenOK
  <2> HIDE DEF a
  <2>2. Walk(s, s.ents[a].name) = a
    BY <1>1, <2>1, TheEntry
  <2> QED
    BY <2>1, <2>2 DEF a
<1> QED
  BY <1>2, Parts DEF ObjectExact

\* The cache agrees with a walk through the directory.
LEMMA GoodCache ==
  ASSUME Good(st)
  PROVE  CacheExact
<1> DEFINE s == st
<1>1. DiskOK(s) /\ CacheOK(s.cache.map, s.ents)
  BY GoodFacts DEF DiskOK
<1>2. ASSUME NEW n \in Names, Cached(s, n) PROVE s.cache.map[n] = Walk(s, n)
  <2> HIDE DEF s
  <2> DEFINE a == s.cache.map[n]
  <2>1. a \in DOMAIN s.ents /\ s.ents[a].name = n
    BY <1>1, <1>2 DEF CacheOK, Cached
  <2> HIDE DEF a
  <2>2. Walk(s, s.ents[a].name) = a
    BY <1>1, <2>1, TheEntry
  <2> QED
    BY <2>1, <2>2 DEF a
<1> QED
  BY <1>2, Parts DEF CacheExact

\* The directory is packed and has no name twice.
LEMMA GoodPacked ==
  ASSUME Good(st)
  PROVE  DirPacked
<1> DEFINE s == st
           e == s.ents
           l == s.dir.list
           k == s.files
           m == Len(l)
           T == (m + 1) * Slots
           P == First .. (T - 1)
           R == First .. (First + k - 1)
<1>1. DiskOK(s) /\ DirOK(l, e, k) /\ EntsOK(e, s.am.bug) /\ NoEmptyBlock(l, k)
  BY GoodFacts DEF DiskOK
<1>2. Positions(s) = P /\ Walked(s) = R /\ \A p \in P : PosAddr(s, p) = At(l, p)
  <2> HIDE DEF s
  <2>1. Walked(s) = First .. (First + s.files - 1)
    BY <1>1, WalkedIs
  <2>2. Positions(s) = P
    BY DEF Positions, First
  <2>3. \A p \in P : PosAddr(s, p) = At(l, p)
    BY DEF PosAddr, At
  <2> QED
    BY <2>1, <2>2, <2>3
<1> HIDE DEF s
<1>3. /\ First \in Nat /\ T \in Nat /\ m \in Nat /\ k \in Nat
      /\ First + k <= T /\ P \subseteq Slots .. (T - 1) /\ R \subseteq P
      /\ T = m * Slots + Slots
  <2> HIDE DEF l, e, k
  <2> QED
    BY <1>1, Ranges
<1>4. \A p \in P : At(l, p) \in DOMAIN e <=> p < First + k
  BY <1>1, PlacesFacts
<1>5. ASSUME NEW p \in P, PosAddr(s, p) \in DOMAIN e PROVE {q \in P : q <= p} \subseteq R
  <2>1. p < First + k
    BY <1>2, <1>4, <1>5
  <2> HIDE DEF T, k
  <2> QED
    BY <1>3, <2>1
<1>6. ASSUME NEW p \in R, NEW q \in R, p # q PROVE e[PosAddr(s, p)].name # e[PosAddr(s, q)].name
  <2>1. p \in P /\ q \in P /\ p \in Slots .. (T - 1) /\ q \in Slots .. (T - 1)
    BY <1>3
  <2>2. p < First + k /\ q < First + k
    BY <1>3
  <2>3. At(l, p) \in DOMAIN e /\ At(l, q) \in DOMAIN e
    BY <1>4, <2>1, <2>2
  <2>4. At(l, p) # At(l, q)
    <3>1. l \in Seq(Bits) /\ IsInjective(l) /\ 0 \notin Range(l)
      BY <1>1 DEF DirOK
    <3> HIDE DEF l
    <3>2. \A i, j \in Slots .. ((Len(l) + 1) * Slots - 1) : At(l, i) = At(l, j) => i = j
      BY <3>1, AtFacts
    <3> QED
      BY <1>6, <2>1, <3>2
  <2>5. e[At(l, p)].name # e[At(l, q)].name
    BY <1>1, <2>3, <2>4 DEF EntsOK
  <2> QED
    BY <1>2, <2>1, <2>5
<1>7. k = Cardinality(R)
  <2> HIDE DEF k
  <2>1. Cardinality(R) = IF First > First + k - 1 THEN 0 ELSE (First + k - 1) - First + 1
    BY <1>3, FS_Interval
  <2> QED
    BY <1>3, <2>1
<1>8. ASSUME m > 1 PROVE <<Last(l), 0>> \in DOMAIN e
  <2> DEFINE p == m * Slots
  <2>1. p < First + k
    BY <1>1, <1>8 DEF NoEmptyBlock
  <2>2. p >= 2 * Slots /\ p \in Nat /\ Slots \in Nat /\ Slots >= 3
    <3>1. Slots \in Nat /\ Slots >= 3 /\ m >= 2
      BY <1>3, <1>8, Sizes
    <3> HIDE DEF m
    <3> QED
      BY <1>3, <3>1
  <2>3. p \in P
    <3> HIDE DEF p, T
    <3>1. T = p + Slots
      BY <1>3 DEF p
    <3> QED
      BY <2>2, <3>1, <1>3 DEF First
  <2>4. p \div Slots = m /\ p % Slots = 0
    <3>1. Slots \in Nat \ {0} /\ 0 \in 0 .. (Slots - 1)
      BY <2>2
    <3> HIDE DEF m
    <3>2. (m * Slots + 0) \div Slots = m /\ (m * Slots + 0) % Slots = 0
      BY <1>3, <3>1, DivIs
    <3>3. m * Slots + 0 = m * Slots
      BY <2>2 
    <3> QED
      BY <3>2, <3>3
  <2>5. At(l, p) = <<Last(l), 0>>
    BY <2>4 DEF At, Last
  <2> HIDE DEF p
  <2>6. At(l, p) \in DOMAIN e
    BY <1>4, <2>1, <2>3
  <2> QED
    BY <2>5, <2>6
<1> DEFINE X == Positions(s)
           Y == Walked(s)
<1>9. /\ \A p \in X : PosAddr(s, p) \in DOMAIN e => {q \in X : q <= p} \subseteq Y
      /\ \A p, q \in Y : p # q => e[PosAddr(s, p)].name # e[PosAddr(s, q)].name
      /\ k = Cardinality(Y)
      /\ Len(l) > 1 => <<Last(l), 0>> \in DOMAIN e
  BY <1>2, <1>5, <1>6, <1>7, <1>8
<1> QED
  BY <1>9, Parts DEF DirPacked, s

\* Types, and no block beyond the end of the disk.
LEMMA GoodTypes ==
  ASSUME Good(st)
  PROVE  TypeOK /\ InDisk
<1> DEFINE s == st
           e == s.ents
           m == s.cache.map
<1>1. /\ DiskOK(s) /\ OpenOK(s.open, e) /\ DirOK(s.dir.list, e, s.files) /\ AmOK(s.am)
      /\ Owned(s.am.map, s.dir, e) /\ CacheOK(m, e) /\ s.label = s.am.used
  BY GoodFacts DEF DiskOK
<1> HIDE DEF s
<1>2. s.am \in Alloc /\ s.am.map \subseteq OnDisk /\ s.am.used \in Nat
  BY <1>1 DEF AmOK, Alloc
<1>3. s.dir.list \in Seq(Bits) /\ s.files \in Nat /\ s.dir.ptrs \subseteq Bits
  BY <1>1 DEF DirOK, Owned
<1>4. ASSUME NEW a \in DOMAIN e PROVE a \in Addrs /\ e[a].name \in Names /\ BlocksOf(e[a]) \subseteq Bits
  <2>1. BlocksOf(e[a]) \subseteq s.am.map /\ e[a].name \in Names
    BY <1>1, BlocksFacts
  <2>2. a \in Addrs
    BY <1>1, NoAddrFacts
  <2> QED
    BY <1>2, <2>1, <2>2, Sizes
<1>5. DOMAIN m \subseteq Names /\ Range(m) \subseteq Addrs
  <2>1. NoAddr \in Addrs
    BY Sizes DEF NoAddr, Addrs
  <2>2. \A n \in DOMAIN m : m[n] # NoAddr => m[n] \in DOMAIN e
    BY <1>1 DEF CacheOK
  <2>3. \A n \in DOMAIN m : m[n] \in Addrs
    BY <1>4, <2>1, <2>2
  <2> QED
    BY <1>1, <2>3 DEF CacheOK, Range
<1>6. \A i \in DOMAIN s.open : s.open[i].use \in 1 .. MaxUse
  BY <1>1 DEF OpenOK
<1> QED
  BY <1>1, <1>2, <1>3, <1>4, <1>5, <1>6, Parts DEF TypeOK, InDisk, s

\* A finite set as a sequence.
LEMMA ListFacts ==
  ASSUME NEW S, IsFiniteSet(S)
  PROVE  SetToSeq(S) \in Seq(S) /\ IsInjective(SetToSeq(S)) /\ Range(SetToSeq(S)) = S
<1> DEFINE c == Cardinality(S)
           q == SetToSeq(S)
           I == 1 .. c
<1>1. c \in Nat /\ ExistsBijection(I, S)
  BY FS_CardinalityType
<1>2. q = CHOOSE f \in [I -> S] : IsInjective(f)
  BY DEF SetToSeq
<1>3. IsFiniteSet(I) /\ Cardinality(I) = c
  <2> HIDE DEF c
  <2>1. IsFiniteSet(1 .. c) /\ Cardinality(1 .. c) = IF 1 > c THEN 0 ELSE c - 1 + 1
    BY <1>1, FS_Interval
  <2> QED
    BY <1>1, <2>1
<1> HIDE DEF c, I, q
<1>4. \E f \in [I -> S] : IsInjective(f)
  BY <1>1 DEF ExistsBijection, Bijection, Injection
<1>5. q \in [I -> S] /\ IsInjective(q)
  BY <1>2, <1>4
<1>6. q \in Injection(I, S)
  BY <1>5 DEF Injection
<1>7. q \in Surjection(I, S)
  <2>1. Cardinality(I) = Cardinality(S)
    BY <1>3 DEF c
  <2> QED
    BY <1>6, <2>1, FS_Injection
<1>8. Range(q) = S
  BY <1>5, <1>7 DEF Surjection, Range
<1>9. q \in Seq(S)
  BY <1>1, <1>5 DEF I
<1> QED
  BY <1>5, <1>8, <1>9 DEF q

\* As many blocks as the list of them is long.
LEMMA RangeCount ==
  ASSUME NEW s \in Seq(Bits), IsInjective(s)
  PROVE  IsFiniteSet(Range(s)) /\ Cardinality(Range(s)) = Len(s)
<1> DEFINE n == Len(s)
           I == 1 .. n
           R == Range(s)
<1>1. n \in Nat /\ DOMAIN s = I
  OBVIOUS
<1>2. IsFiniteSet(I) /\ Cardinality(I) = n
  <2> HIDE DEF n
  <2>1. IsFiniteSet(1 .. n) /\ Cardinality(1 .. n) = IF 1 > n THEN 0 ELSE n - 1 + 1
    BY <1>1, FS_Interval
  <2> QED
    BY <1>1, <2>1
<1>3. s \in [I -> R]
  BY <1>1 DEF Range
<1> HIDE DEF n
<1>4. s \in Injection(I, R) /\ s \in Surjection(I, R)
  <2>1. \A r \in R : \E i \in I : s[i] = r
    BY <1>1 DEF Range
  <2> HIDE DEF I, R
  <2> QED
    BY <1>3, <2>1 DEF Injection, Surjection
<1>5. IsFiniteSet(R) /\ (Cardinality(R) = Cardinality(I) <=> s \in Injection(I, R))
  <2> HIDE DEF I, R
  <2> QED
    BY <1>2, <1>4, FS_Surjection
<1> QED
  BY <1>2, <1>4, <1>5 DEF n

\* The blocks of an entry.
LEMMA BlockCount ==
  ASSUME NEW w, DiskOK(w), ~ w.am.bug, NEW a \in DOMAIN w.ents
  PROVE  Cardinality(BlocksOf(w.ents[a])) = Len(w.ents[a].data) + PtrBlocks(Len(w.ents[a].data))
<1> DEFINE f == w.ents[a]
           R == Range(f.data)
           n == Len(f.data)
<1>1. /\ f.data \in Seq(Bits) /\ f.meta \in SUBSET Bits /\ IsInjective(f.data) /\ R \cap f.meta = {}
      /\ BlocksOf(f) = R \cup f.meta /\ Cardinality(f.meta) = PtrBlocks(n)
  BY BlocksFacts
<1> HIDE DEF f
<1>2. IsFiniteSet(R) /\ Cardinality(R) = n
  BY <1>1, RangeCount
<1>3. IsFiniteSet(f.meta)
  <2>1. 0 \in Int /\ MapBits - 1 \in Int
    BY Sizes
  <2>2. IsFiniteSet(Bits)
    BY <2>1, FS_Interval DEF Bits
  <2> QED
    BY <1>1, <2>2, FS_Subset
<1>4. Cardinality(R \cup f.meta) = Cardinality(R) + Cardinality(f.meta) - Cardinality(R \cap f.meta)
  <2> HIDE DEF R
  <2> QED
    BY <1>2, <1>3, FS_Union
<1>5. Cardinality(R \cap f.meta) = 0
  BY <1>1, FS_EmptySet
<1>6. n \in Nat /\ PtrBlocks(n) \in Nat
  BY <1>1, PtrBlocksFacts
<1> HIDE DEF n
<1>7. Cardinality(BlocksOf(f)) = n + PtrBlocks(n)
  BY <1>1, <1>2, <1>4, <1>5, <1>6
<1> QED
  BY <1>7 DEF f, n

\* The owners of blocks: the label and the map, the directory, its pointers,
\* and the files.
LEMMA Owners ==
  ASSUME NEW w, DiskOK(w), NEW B, B = {BlocksOf(w.ents[a]) : a \in DOMAIN w.ents}
  PROVE  LET whole == <<Fixed, Range(Tail(w.dir.list)), w.dir.ptrs>> \o SetToSeq(B)
         IN  /\ w.am.map = UNION Range(whole)
             /\ \A i, j \in DOMAIN whole : i # j => whole[i] \cap whole[j] = {}
<1> DEFINE l == w.dir.list
           e == w.ents
           W == BaseOf(w.dir)
           T == Range(Tail(l))
           ptrs == w.dir.ptrs
           base == <<Fixed, T, ptrs>>
           q == SetToSeq(B)
           whole == base \o q
           n == Len(q)
<1>1. /\ l \in Seq(Bits) /\ Len(l) >= 1 /\ l[1] = Fdir /\ IsInjective(l) /\ 0 \notin Range(l)
      /\ w.am.map \in SUBSET Bits
  BY DEF DiskOK, DirOK, AmOK, Alloc
<1>2. /\ ptrs \in SUBSET Bits /\ ptrs \cap ({0} \cup Range(l)) = {}
      /\ w.am.map = W \cup UNION {BlocksOf(e[a]) : a \in DOMAIN e}
      /\ \A a \in DOMAIN e : BlocksOf(e[a]) \cap W = {}
      /\ \A a, b \in DOMAIN e : a # b => BlocksOf(e[a]) \cap BlocksOf(e[b]) = {}
  BY DEF DiskOK, Owned
<1>3. Range(l) = {Fdir} \cup T /\ Fdir \notin T
  <2> HIDE DEF l
  <2>1. Tail(l) \in Seq(Bits) /\ Len(Tail(l)) = Len(l) - 1 /\ \A i \in 1 .. (Len(l) - 1) : Tail(l)[i] = l[i + 1]
    BY <1>1
  <2> DEFINE t == Tail(l)
             m == Len(l)
  <2>2. /\ m \in Nat /\ m >= 1 /\ DOMAIN l = 1 .. m /\ DOMAIN t = 1 .. (m - 1)
        /\ \A i \in 1 .. (m - 1) : t[i] = l[i + 1] /\ i + 1 \in 1 .. m /\ i + 1 # 1
    BY <1>1, <2>1
  <2> HIDE DEF t, m
  <2>3. ASSUME NEW x \in Range(l) PROVE x \in {Fdir} \cup Range(t)
    <3>1. PICK i \in 1 .. m : x = l[i]
      BY <2>2 DEF Range
    <3>2. CASE i = 1
      BY <1>1, <3>1, <3>2
    <3>3. CASE i # 1
      <4>1. i - 1 \in 1 .. (m - 1) /\ (i - 1) + 1 = i
        BY <2>2, <3>3
      <4>2. t[i - 1] = x
        BY <2>2, <3>1, <4>1
      <4> QED
        BY <2>2, <4>1, <4>2 DEF Range
    <3> QED
      BY <3>2, <3>3
  <2>4. \A x \in Range(t) : x \in Range(l) /\ x # Fdir
    <3>1. ASSUME NEW i \in 1 .. (m - 1) PROVE t[i] \in Range(l) /\ t[i] # l[1]
      <4>1. t[i] = l[i + 1] /\ i + 1 \in DOMAIN l /\ 1 \in DOMAIN l /\ i + 1 # 1
        BY <2>2
      <4> QED
        BY <1>1, <4>1 DEF Range, IsInjective
    <3> QED
      BY <1>1, <2>2, <3>1 DEF Range
  <2>5. Fdir \in Range(l)
    BY <1>1, <2>2 DEF Range
  <2> QED
    BY <2>3, <2>4, <2>5 DEF t
<1>4. Fixed = {0, Fdir} /\ W = Fixed \cup T \cup ptrs /\ Fixed \cap T = {} /\ Fixed \cap ptrs = {} /\ T \cap ptrs = {}
  <2>1. Fixed = {0, Fdir} /\ Fdir \in Range(l)
    BY <1>3 DEF Fixed, Fdir
  <2>2. W = {0} \cup Range(l) \cup ptrs
    BY DEF BaseOf
  <2> HIDE DEF T, ptrs, W, l
  <2> QED
    BY <1>1, <1>2, <1>3, <2>1, <2>2
<1>5. IsFiniteSet(B)
  <2>1. 0 \in Int /\ MapBits - 1 \in Int
    BY Sizes
  <2>2. IsFiniteSet(Bits)
    BY <2>1, FS_Interval DEF Bits
  <2>3. IsFiniteSet(SUBSET Bits)
    BY <2>2, FS_SUBSET
  <2>4. \A a \in DOMAIN e : BlocksOf(e[a]) \in SUBSET Bits
    BY <1>1, <1>2
  <2>5. B \in SUBSET (SUBSET Bits)
    BY <2>4
  <2> QED
    BY <2>3, <2>5, FS_Subset
<1>6. q \in Seq(B) /\ IsInjective(q) /\ Range(q) = B
  BY <1>5, ListFacts
<1>7. UNION B = UNION {BlocksOf(e[a]) : a \in DOMAIN e} /\ \A x \in B : x \cap W = {}
  BY <1>2
<1>8. \A x, y \in B : x # y => x \cap y = {}
  BY <1>2
<1> HIDE DEF T, ptrs, W, l, e, q
<1>9. /\ n \in Nat /\ DOMAIN whole = 1 .. (3 + n) /\ whole[1] = Fixed /\ whole[2] = T /\ whole[3] = ptrs
      /\ \A i \in 1 .. n : whole[3 + i] = q[i]
  <2> DEFINE A == {Fixed, T, ptrs} \cup B
  <2>1. base \in Seq(A) /\ Len(base) = 3 /\ base[1] = Fixed /\ base[2] = T /\ base[3] = ptrs
    <3> HIDE DEF A
    <3>1. Fixed \in A /\ T \in A /\ ptrs \in A
      BY DEF A
    <3> QED
      BY <3>1
  <2>2. q \in Seq(A) /\ n \in Nat
    <3>1. B \subseteq A
      OBVIOUS
    <3> HIDE DEF A
    <3> QED
      BY <1>6, <3>1
  <2> HIDE DEF base, A, n
  <2>3. /\ base \o q \in Seq(A) /\ Len(base \o q) = Len(base) + Len(q)
        /\ \A i \in 1 .. (Len(base) + Len(q)) : (base \o q)[i] = IF i <= Len(base) THEN base[i] ELSE q[i - Len(base)]
    BY <2>1, <2>2, ConcatProperties
  <2>4. Len(q) = n
    BY DEF n
  <2>5. DOMAIN whole = 1 .. (3 + n)
    BY <2>1, <2>3, <2>4
  <2>6. /\ 1 \in 1 .. (3 + n) /\ 2 \in 1 .. (3 + n) /\ 3 \in 1 .. (3 + n)
        /\ \A i \in 1 .. n : 3 + i \in 1 .. (3 + n) /\ ~(3 + i <= 3) /\ (3 + i) - 3 = i
    BY <2>2
  <2>7. \A i \in 1 .. (3 + n) : whole[i] = IF i <= 3 THEN base[i] ELSE q[i - 3]
    BY <2>1, <2>3, <2>4
  <2> HIDE DEF whole
  <2> QED
    BY <2>1, <2>2, <2>5, <2>6, <2>7
<1> HIDE DEF whole, n
<1>10. \A i \in DOMAIN whole : i = 1 \/ i = 2 \/ i = 3 \/ \E j \in 1 .. n : i = 3 + j
  <2>1. ASSUME NEW i \in 1 .. (3 + n), i # 1, i # 2, i # 3 PROVE \E j \in 1 .. n : i = 3 + j
    <3>1. i - 3 \in 1 .. n /\ i = 3 + (i - 3)
      BY <1>9, <2>1
    <3> QED
      BY <3>1
  <2> QED
    BY <1>9, <2>1
<1>11. DOMAIN q = 1 .. n
  BY <1>6 DEF n
<1>12. \A j \in 1 .. n : q[j] \in B
  BY <1>6, <1>11 DEF Range
<1>13. \A j, k \in 1 .. n : j # k => q[j] # q[k]
  BY <1>6, <1>11 DEF IsInjective
<1>14. Range(whole) = {Fixed, T, ptrs} \cup B
  <2>1. ASSUME NEW x \in Range(whole) PROVE x \in {Fixed, T, ptrs} \cup B
    <3>1. PICK i \in DOMAIN whole : x = whole[i]
      BY DEF Range
    <3>2. CASE i = 1 \/ i = 2 \/ i = 3
      BY <1>9, <3>1, <3>2
    <3>3. ASSUME NEW j \in 1 .. n, i = 3 + j PROVE x \in B
      BY <1>9, <1>12, <3>1, <3>3
    <3> QED
      BY <1>10, <3>2, <3>3
  <2>2. ASSUME NEW x \in B PROVE x \in Range(whole)
    <3>1. PICK j \in 1 .. n : x = q[j]
      BY <1>6, <1>11 DEF Range
    <3>2. 3 + j \in DOMAIN whole /\ whole[3 + j] = x
      BY <1>9, <3>1
    <3> QED
      BY <3>2 DEF Range
  <2>3. Fixed \in Range(whole) /\ T \in Range(whole) /\ ptrs \in Range(whole)
    <3>1. 1 \in DOMAIN whole /\ 2 \in DOMAIN whole /\ 3 \in DOMAIN whole
      BY <1>9
    <3> QED
      BY <1>9, <3>1 DEF Range
  <2> QED
    BY <2>1, <2>2, <2>3
<1>15. w.am.map = UNION Range(whole)
  <2>1. UNION Range(whole) = Fixed \cup T \cup ptrs \cup UNION B
    BY <1>14
  <2> QED
    BY <1>2, <1>4, <1>7, <2>1
<1>16. ASSUME NEW i \in DOMAIN whole, NEW j \in DOMAIN whole, i # j
       PROVE  whole[i] \cap whole[j] = {}
  <2>1. /\ \A k \in 1 .. n : whole[3 + k] \in B
        /\ \A x \in B : x \cap Fixed = {} /\ x \cap T = {} /\ x \cap ptrs = {}
    BY <1>4, <1>7, <1>9, <1>12
  <2>2. CASE i \in {1, 2, 3} /\ j \in {1, 2, 3}
    BY <1>4, <1>9, <1>16, <2>2
  <2>3. CASE i \in {1, 2, 3} /\ \E k \in 1 .. n : j = 3 + k
    <3>1. whole[j] \in B /\ whole[i] \in {Fixed, T, ptrs}
      BY <1>9, <2>1, <2>3
    <3> QED
      BY <2>1, <3>1
  <2>4. CASE j \in {1, 2, 3} /\ \E k \in 1 .. n : i = 3 + k
    <3>1. whole[i] \in B /\ whole[j] \in {Fixed, T, ptrs}
      BY <1>9, <2>1, <2>4
    <3> QED
      BY <2>1, <3>1
  <2>5. ASSUME NEW k \in 1 .. n, NEW h \in 1 .. n, i = 3 + k, j = 3 + h PROVE whole[i] \cap whole[j] = {}
    <3>1. whole[i] = q[k] /\ whole[j] = q[h] /\ k # h
      BY <1>9, <1>16, <2>5
    <3> QED
      BY <1>8, <1>12, <1>13, <3>1
  <2> QED
    BY <1>10, <2>2, <2>3, <2>4, <2>5
<1> QED
  BY <1>15, <1>16 DEF whole, base, q, T, ptrs, l

\* The map is the union of what is in use, each block for one purpose.
LEMMA GoodAlloc ==
  ASSUME Good(st)
  PROVE  AllocExact
<1> DEFINE s == st
           B == {BlocksOf(s.ents[a]) : a \in DOMAIN s.ents}
           E == {s.ents[PosAddr(s, p)] : p \in Walked(s)}
           whole == <<Fixed, Range(Tail(s.dir.list)), s.dir.ptrs>> \o SetToSeq(B)
<1>1. DiskOK(s) /\ DirOK(s.dir.list, s.ents, s.files) /\ s.label = s.am.used /\ AmOK(s.am)
  BY GoodFacts DEF DiskOK
<1> HIDE DEF s
<1>2. E = {s.ents[a] : a \in DOMAIN s.ents}
  <2>1. Walked(s) = First .. (First + s.files - 1)
    BY <1>1, WalkedIs
  <2>2. DOMAIN s.ents = {PosAddr(s, p) : p \in Walked(s)}
    <3>1. \A p : PosAddr(s, p) = At(s.dir.list, p)
      BY DEF PosAddr, At
    <3> QED
      BY <1>1, <2>1, <3>1 DEF DirOK, Places
  <2> QED
    BY <2>2
<1>3. {BlocksOf(e) : e \in E} = B
  BY <1>2
<1>4. /\ s.am.map = UNION Range(whole)
      /\ \A i, j \in DOMAIN whole : i # j => whole[i] \cap whole[j] = {}
  <2> HIDE DEF B
  <2>1. B = {BlocksOf(s.ents[a]) : a \in DOMAIN s.ents}
    BY DEF B
  <2> QED
    BY <1>1, <2>1, Owners
<1>5. ASSUME ~ s.am.bug, NEW e \in E PROVE Cardinality(BlocksOf(e)) = Len(e.data) + PtrBlocks(Len(e.data))
  <2>1. PICK a \in DOMAIN s.ents : e = s.ents[a]
    BY <1>2
  <2> QED
    BY <1>1, <1>5, <2>1, BlockCount
<1>6. s.am.used = Cardinality(s.am.map) /\ s.label = s.am.used
  BY <1>1 DEF AmOK
<1> DEFINE X == <<Fixed, Range(Tail(s.dir.list)), s.dir.ptrs>> \o SetToSeq({BlocksOf(e) : e \in E})
<1>7. X = whole
  BY <1>3
<1> HIDE DEF E, whole
<1>8. ~ s.am.bug =>
         /\ s.am.map = UNION Range(X)
         /\ \A i, j \in DOMAIN X : i # j => X[i] \cap X[j] = {}
         /\ \A e \in E : Cardinality(BlocksOf(e)) = Len(e.data) + PtrBlocks(Len(e.data))
         /\ s.am.used = Cardinality(s.am.map) /\ s.label = s.am.used
  <2> HIDE DEF X
  <2> QED
    BY <1>4, <1>5, <1>6, <1>7
<1> DEFINE entries == {ents[PosAddr(st, p)] : p \in Walked(st)}
           owners == <<Fixed, Range(Tail(dir.list)), dir.ptrs>> \o SetToSeq({BlocksOf(e) : e \in entries})
<1>9. s.am = am /\ s.dir = dir /\ s.ents = ents /\ s.label = label
  BY Parts DEF s
<1>10. E = entries
  BY <1>9, Zenon DEF E, s
<1>11. X = owners
  BY <1>9, <1>10, Zenon
<1> HIDE DEF X, entries, owners
<1>12. ~ am.bug =>
         /\ am.map = UNION Range(owners)
         /\ \A i, j \in DOMAIN owners : i # j => owners[i] \cap owners[j] = {}
         /\ \A e \in entries : Cardinality(BlocksOf(e)) = Len(e.data) + PtrBlocks(Len(e.data))
         /\ am.used = Cardinality(am.map) /\ label = am.used
  BY <1>8, <1>9, <1>10, <1>11, Zenon
<1> QED
  BY <1>12, Zenon DEF AllocExact, entries, owners

-----------------------------------------------------------------------------
(* The theorems.                                                           *)

\* Every block has one owner or none and the map, the counter of the daemon and
\* the label say so, for a disk of any size, files and a directory of up to two levels
\* of pointers, and whatever operations and remounts led there.
THEOREM Blocks ==
  ASSUME {"alone", "fresh"} \subseteq Habits
  PROVE  Spec => []BlocksExact
<1>1. Good(st) => BlocksExact
  BY GoodTypes, GoodAlloc DEF BlocksExact
<1>2. Spec => []Good(st)
  BY GoodInvariant
<1> QED
  BY <1>1, <1>2, PTL

\* Whatever is created, deleted, renamed and moved, the directory has no holes, no
\* empty block at its end and no name twice, and counts its files right.
THEOREM Packed ==
  ASSUME {"alone", "fresh"} \subseteq Habits
  PROVE  Spec => []DirPacked
<1>1. Good(st) => DirPacked
  BY GoodPacked
<1>2. Spec => []Good(st)
  BY GoodInvariant
<1> QED
  BY <1>1, <1>2, PTL

\* An address that the cache gives for a name is always the one that a walk
\* through the directory finds, whatever was moved, deleted or renamed.
THEOREM Cache ==
  ASSUME {"alone", "fresh"} \subseteq Habits
  PROVE  Spec => []CacheExact
<1>1. Good(st) => CacheExact
  BY GoodCache
<1>2. Spec => []Good(st)
  BY GoodInvariant
<1> QED
  BY <1>1, <1>2, PTL

\* What an open file writes back goes to its own entry, and what it has in memory
\* is what is there.
THEOREM Objects ==
  ASSUME {"alone", "fresh"} \subseteq Habits
  PROVE  Spec => []ObjectExact
<1>1. Good(st) => ObjectExact
  BY GoodObject
<1>2. Spec => []Good(st)
  BY GoodInvariant
<1> QED
  BY <1>1, <1>2, PTL

-----------------------------------------------------------------------------
(* Failing assertions.                                                     *)

\* The directory starts with one block and no pointer blocks.
LEMMA InitSized ==
  ASSUME Init
  PROVE  Sized(am, dir)
<1>1. dir.list = <<Fdir>> /\ dir.ptrs = {}
  BY DEF Init
<1>2. Len(<<Fdir>>) = 1 /\ Cardinality({}) = 0
  BY FS_EmptySet
<1>3. PtrBlocks(1) = 0
  BY SmallTrees
<1> QED
  BY <1>1, <1>2, <1>3 DEF Sized

\* After a failed assertion there is no further step.
LEMMA NextSized ==
  ASSUME {"alone", "fresh"} \subseteq Habits, Good(st), Sized(am, dir), [Next]_vars
  PROVE  Sized(am, dir)'
<1>1. CASE UNCHANGED vars
  BY <1>1 DEF vars, Sized
<1>2. CASE Next
  <2>1. ~ am.bug
    BY <1>2, Zenon DEF Next
  <2>2. Safe(am, dir, am', dir')
    BY NextGood DEF GoodStep
  <2>3. Sized(am', dir')
    BY <2>1, <2>2 DEF Safe
  <2> QED
    BY <2>3 DEF Sized
<1> QED
  BY <1>1, <1>2

\* A step in which an assertion fails starts with a full disk or with a
\* reservation left over.
LEMMA NextBug ==
  ASSUME {"alone", "fresh"} \subseteq Habits, Narrow, Good(st), Sized(am, dir), [Next]_vars
  PROVE  [am'.bug => am.reserved > 0 \/ am.used = Total]_vars
<1>1. CASE UNCHANGED vars
  BY <1>1
<1>2. CASE Next
  <2>1. ~ am.bug
    BY <1>2, Zenon DEF Next
  <2>2. Safe(am, dir, am', dir')
    BY NextGood DEF GoodStep
  <2>3. AmOK(am)
    BY Parts, GoodFacts DEF DiskOK
  <2>4. am.used \in Nat /\ am.reserved \in Nat /\ Total \in Nat /\ am.used <= Total
    BY <2>3, UsedFacts
  <2>5. am'.bug => ~(am.reserved = 0 /\ am.used < Total)
    BY <2>1, <2>2 DEF Safe
  <2>6. am'.bug => am.reserved > 0 \/ am.used = Total
    <3> DEFINE r == am.reserved
               u == am.used
    <3>1. r \in Nat /\ u \in Nat /\ Total \in Nat /\ u <= Total /\ (am'.bug => ~(r = 0 /\ u < Total))
      BY <2>4, <2>5
    <3> HIDE DEF r, u
    <3>2. (r = 0 /\ u < Total) \/ r > 0 \/ u = Total
      BY <3>1
    <3> QED
      BY <3>1, <3>2 DEF r, u
  <2> QED
    BY <2>6
<1> QED
  BY <1>1, <1>2

\* No assertion of cmsfs-fuse.c fails before the disk is full or a reservation is
\* left over, as reserve_meta_blocks has set aside what the pointers need and the
\* directory grows only into free blocks: for trees of up to two levels and writes of
\* up to as many blocks as a pointer block has pointers.
THEOREM BugExplained ==
  ASSUME {"alone", "fresh"} \subseteq Habits, Narrow
  PROVE  Spec => BugOnlyOnFullDisk
<1>1. Init => Sized(am, dir)
  BY InitSized
<1>2. Good(st) /\ Sized(am, dir) /\ [Next]_vars => Sized(am, dir)'
  BY NextSized
<1>3. Good(st) /\ Sized(am, dir) /\ [Next]_vars => [am'.bug => am.reserved > 0 \/ am.used = Total]_vars
  BY NextBug
<1>4. Spec => []Good(st)
  BY GoodInvariant
<1> QED
  BY <1>1, <1>2, <1>3, <1>4, PTL DEF Spec, BugOnlyOnFullDisk
=============================================================================
