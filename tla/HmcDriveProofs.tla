--------------------------- MODULE HmcDriveProofs ---------------------------
(***************************************************************************)
(* The shared device of HmcDrive is never read out of step, the cache has  *)
(* what is in use and forgets what is not, and files that are on the DVD   *)
(* are found and shown, for any DVDs, paths and sizes of the table.        *)
(***************************************************************************)
EXTENDS HmcDrive, Integers, Sequences, FiniteSetsExt, Functions, SequenceTheorems, FiniteSetTheorems, TLAPS

-----------------------------------------------------------------------------
(* Sets, numbers and sequences.                                            *)

\* A set of natural numbers that is not empty has a least element.
LEMMA LeastNat ==
  ASSUME NEW T \in SUBSET Nat, T # {}
  PROVE  \E m \in T : \A k \in T : m <= k
<1> DEFINE R == {ss \in Nat \X Nat : ss[1] < ss[2]}
<1>1. IsWellFoundedOn(R, Nat)
  BY NatLessThanWellFounded, Zenon DEF OpToRel
<1>2. PICK x \in T : \A y \in T : ~(<<y, x>> \in R)
  BY <1>1, WFMin
<1>3. ASSUME NEW y \in T PROVE x <= y
  <2>1. <<y, x>> \in Nat \X Nat /\ <<y, x>>[1] = y /\ <<y, x>>[2] = x
    OBVIOUS
  <2>2. ~ (y < x)
    BY <1>2, <2>1
  <2> QED
    BY <2>2
<1> QED
  BY <1>3

\* A bounded set of natural numbers that is not empty has a greatest element.
LEMMA GreatestNat ==
  ASSUME NEW T \in SUBSET Nat, T # {}, NEW n \in Nat, \A k \in T : k <= n
  PROVE  \E m \in T : \A k \in T : k <= m
<1> DEFINE U == {i \in Nat : n - i \in T}
<1>1. U # {}
  <2>1. PICK k \in T : TRUE
    OBVIOUS
  <2>2. n - k \in Nat /\ n - (n - k) = k
    BY <2>1
  <2> QED
    BY <2>1, <2>2
<1>2. PICK i \in U : \A j \in U : i <= j
  BY <1>1, LeastNat
<1>3. ASSUME NEW k \in T PROVE k <= n - i
  <2>1. n - k \in U
    <3>1. n - k \in Nat /\ n - (n - k) = k
      OBVIOUS
    <3> QED
      BY <3>1
  <2> QED
    BY <1>2, <2>1
<1> QED
  BY <1>2, <1>3

LEMMA MaxFacts ==
  ASSUME NEW S \in SUBSET Nat, S # {}, NEW n \in Nat, \A k \in S : k <= n
  PROVE  Max(S) \in S /\ \A k \in S : k <= Max(S)
<1>1. \E m \in S : \A k \in S : k <= m
  BY GreatestNat
<1>2. \E m \in S : \A k \in S : m >= k
  BY <1>1
<1>3. Max(S) \in S /\ \A k \in S : Max(S) >= k
  BY <1>2 DEF Max
<1> QED
  BY <1>3

\* Min and Max of two integers.
LEMMA PairFacts ==
  ASSUME NEW a \in Int, NEW b \in Int
  PROVE  /\ Min({a, b}) = IF a <= b THEN a ELSE b
         /\ Max({a, b}) = IF a >= b THEN a ELSE b
<1>1. /\ \E x \in {a, b} : \A y \in {a, b} : x <= y
      /\ \E x \in {a, b} : \A y \in {a, b} : x >= y
  <2>1. CASE a <= b
    BY <2>1
  <2>2. CASE b <= a
    BY <2>2
  <2> QED
    BY <2>1, <2>2
<1>2. Min({a, b}) \in {a, b} /\ \A y \in {a, b} : Min({a, b}) <= y
  BY <1>1 DEF Min
<1>3. Max({a, b}) \in {a, b} /\ \A y \in {a, b} : Max({a, b}) >= y
  BY <1>1 DEF Max
<1> QED
  BY <1>2, <1>3

\* Adding at the end of a list: one more
\* element, and no duplicate if it is new.
LEMMA AppendFacts ==
  ASSUME NEW S, NEW s \in Seq(S), NEW e \in S
  PROVE  /\ Append(s, e) \in Seq(S)
         /\ Range(Append(s, e)) = Range(s) \cup {e}
         /\ IsInjective(s) /\ e \notin Range(s) => IsInjective(Append(s, e))
<1>1. /\ Len(s) \in Nat /\ DOMAIN s = 1..Len(s)
      /\ Append(s, e) \in Seq(S)
      /\ DOMAIN Append(s, e) = 1..(Len(s) + 1)
      /\ \A i \in 1..Len(s) : Append(s, e)[i] = s[i]
      /\ Append(s, e)[Len(s) + 1] = e
  OBVIOUS
<1>2. \A i \in 1..(Len(s) + 1) : i \in 1..Len(s) \/ i = Len(s) + 1
  BY <1>1
<1>3. 1..Len(s) \subseteq 1..(Len(s) + 1) /\ Len(s) + 1 \in 1..(Len(s) + 1)
  BY <1>1
<1>4. Range(Append(s, e)) = Range(s) \cup {e}
  BY <1>1, <1>2, <1>3 DEF Range
<1>5. ASSUME IsInjective(s), e \notin Range(s)
      PROVE  IsInjective(Append(s, e))
  BY <1>1, <1>2, <1>5 DEF Range, IsInjective
<1> QED
  BY <1>1, <1>4, <1>5

\* A prefix of a sequence is a sequence.
LEMMA PrefixFacts ==
  ASSUME NEW S, NEW s \in Seq(S), NEW n \in 0..Len(s)
  PROVE  /\ SubSeq(s, 1, n) \in Seq(S)
         /\ Len(SubSeq(s, 1, n)) = n
         /\ \A i \in 1..n : SubSeq(s, 1, n)[i] = s[i]
<1>1. \A i \in 1..n : s[i] \in S
  OBVIOUS
<1> QED
  BY <1>1, SubSeqProperties

\* A product that fits bounds its factor by the quotient
LEMMA DivBound ==
  ASSUME NEW a \in Nat, NEW b \in Nat \ {0}, NEW c \in Nat, a * b <= c
  PROVE  a <= c \div b
<1> DEFINE q == c \div b
<1>1. q \in Nat /\ c < (q + 1) * b
  OBVIOUS
<1> HIDE DEF q
<1>2. SUFFICES ASSUME a >= q + 1 PROVE FALSE
  BY <1>1 DEF q
<1>3. a * b >= (q + 1) * b
  BY <1>1, <1>2
<1> QED
  BY <1>1, <1>3

-----------------------------------------------------------------------------
\* A command and a position
Place(x) == x = [cmd |-> x.cmd, pos |-> x.pos]

\* InStep with what its proof needs of the two places
StepInv == Place(dev) /\ Place(drv) /\ InStep

-----------------------------------------------------------------------------
\* A transfer that fails, at whichever of its calls, leaves no command that
\* could be taken to be the one of the device.
LEMMA FailureForgets ==
  ASSUME StepInv, NEW cmd, NEW pos, TransferFails(cmd, pos)
  PROVE  StepInv'
<1>1. CASE drv' = Forgotten /\ UNCHANGED dev
  BY <1>1 DEF StepInv, Place, InStep, Forgotten
<1>2. CASE drv' = Forgotten /\ dev' \in {[cmd |-> c, pos |-> pos] : c \in {dev.cmd, NoCmd}}
  BY <1>2 DEF StepInv, Place, InStep, Forgotten
<1>3. CASE dev' = [cmd |-> cmd, pos |-> pos] /\ drv' = [cmd |-> NoCmd, pos |-> pos]
  BY <1>3 DEF Place, InStep, StepInv
<1> QED
  BY <1>1, <1>2, <1>3 DEF TransferFails

\* A transfer that succeeds leaves device and driver at the same place: one
\* that goes on starts there, any other one sets both.
LEMMA SuccessAgrees ==
  ASSUME StepInv, NEW cmd, NEW pos, NEW n, TransferDone(cmd, pos, n)
  PROVE  StepInv'
<1> DEFINE next == [cmd |-> cmd, pos |-> pos + n]
<1>1. drv' = next
  BY DEF TransferDone
<1>2. CASE Sequential(cmd, pos) /\ cmd # NoCmd
  <2>1. dev = [cmd |-> cmd, pos |-> pos]
    BY <1>2 DEF Sequential, StepInv, InStep
  <2>2. dev' = next
    BY <1>2, <2>1 DEF TransferDone, At
  <2> QED
    BY <1>1, <2>2 DEF StepInv, Place, InStep
<1>3. CASE Sequential(cmd, pos) /\ cmd = NoCmd
  <2>1. dev' = [dev EXCEPT !.pos = @ + n]
    BY <1>3 DEF TransferDone, At
  <2> QED
    BY <1>1, <1>3, <2>1 DEF StepInv, Place, InStep
<1>4. CASE ~ Sequential(cmd, pos)
  <2>1. dev' = next
    BY <1>4 DEF TransferDone, At
  <2> QED
    BY <1>1, <2>1 DEF StepInv, Place, InStep
<1> QED
  BY <1>2, <1>3, <1>4

LEMMA StepInvKept == StepInv /\ [Next]_vars => StepInv'
<1> SUFFICES ASSUME StepInv, [Next]_vars PROVE StepInv'
  OBVIOUS
<1> DEFINE Same == UNCHANGED <<dev, drv>>
<1>0. ASSUME Same PROVE StepInv'
  BY <1>0 DEF StepInv, Place, InStep
<1>1. CASE Request
  BY <1>0, <1>1 DEF Request, Begin
<1>2. CASE Work
  <2>1. ASSUME NEW n \in 1 .. DirBuf, Piece(n) PROVE StepInv'
    BY <2>1, SuccessAgrees DEF Piece
  <2>2. CASE EndOfListing
    BY <2>2, SuccessAgrees DEF EndOfListing
  <2>3. CASE ListingFails
    BY <2>3, FailureForgets DEF ListingFails
  <2>4. ASSUME NEW n \in 0 .. MaxPos, ReadDone(n) PROVE StepInv'
    BY <2>4, SuccessAgrees DEF ReadDone
  <2>5. CASE ReadFails
    BY <2>5, FailureForgets DEF ReadFails
  <2> QED
    BY <1>2, <2>1, <2>2, <2>3, <2>4, <2>5 DEF Work
<1>3. CASE Tick
  BY <1>0, <1>3 DEF Tick
<1>4. CASE Aging
  BY <1>0, <1>4 DEF Aging
<1>5. CASE \E d \in Discs : Exchange(d)
  BY <1>0, <1>5 DEF Exchange
<1>6. CASE Mount
  BY <1>6 DEF Mount, StepInv, Place, InStep
<1>7. CASE UNCHANGED vars
  BY <1>0, <1>7 DEF vars
<1> QED
  BY <1>1, <1>2, <1>3, <1>4, <1>5, <1>6, <1>7 DEF Next

\* hmcdrv_ftp_transfer: whatever requests, errors and exchanges of the DVD came
\* before, a read that saves the command is answered from its own file and
\* position.
THEOREM AlwaysInStep == Spec => []InStep
<1>1. Init => StepInv
  BY DEF Init, StepInv, Place, InStep
<1>2. StepInv => InStep
  BY DEF StepInv
<1> QED
  BY <1>1, <1>2, StepInvKept, PTL DEF Spec

-----------------------------------------------------------------------------
(* The tree of directories. *)

\* Induction from the root to the leaves
LEMMA TreeInduct ==
  ASSUME NEW S, Root \in S, \A p \in Paths \ {Root} : Parent[p] \in S => p \in S
  PROVE  Paths \subseteq S
<1> SUFFICES ASSUME Paths \ S # {} PROVE FALSE
  OBVIOUS
<1>1. Paths \ S \in SUBSET (Paths \ {Root})
  OBVIOUS
<1>2. PICK p \in Paths \ S : Parent[p] \notin Paths \ S
  BY <1>1, TreeAssumption
<1> QED
  BY <1>1, <1>2, HmcAssumption

\* A path and its directories, written as an equation
Below(f, p) == IF p = Root THEN <<Root>> ELSE Append(f[Parent[p]], p)

Lineages == UNION {[D -> Seq(Paths)] : D \in SUBSET Paths}
Closed == {g \in Lineages : \A p \in DOMAIN g : (p # Root => Parent[p] \in DOMAIN g) /\ g[p] = Below(g, p)}

LEMMA LineageExists == \E f : f = [p \in Paths |-> Below(f, p)]
<1>0. Root \in Paths /\ \A p \in Paths \ {Root} : Parent[p] \in Paths
  BY HmcAssumption
<1>1. ASSUME NEW g \in Closed PROVE g \in [DOMAIN g -> Seq(Paths)] /\ DOMAIN g \subseteq Paths
  BY DEF Closed, Lineages
<1>2. ASSUME NEW g \in Closed, NEW h \in Closed, NEW p \in Paths, p \in DOMAIN g, p \in DOMAIN h PROVE g[p] = h[p]
  <2> DEFINE S == {q \in Paths : q \in DOMAIN g /\ q \in DOMAIN h => g[q] = h[q]}
  <2>1. Root \in S
    BY <1>0 DEF Closed, Below
  <2>2. ASSUME NEW q \in Paths \ {Root}, Parent[q] \in S PROVE q \in S
    BY <2>2 DEF Closed, Below
  <2>3. Paths \subseteq S
    BY <2>1, <2>2, TreeInduct
  <2> QED
    BY <1>2, <2>3
<1>3. ASSUME NEW p \in Paths PROVE \E g \in Closed : p \in DOMAIN g
  <2> DEFINE S == {q \in Paths : \E g \in Closed : q \in DOMAIN g}
  <2>1. Root \in S
    <3> DEFINE g == [x \in {Root} |-> <<Root>>]
    <3>1. g \in [{Root} -> Seq(Paths)] /\ {Root} \in SUBSET Paths
      BY <1>0
    <3>2. g \in Lineages
      BY <3>1 DEF Lineages
    <3>3. g \in Closed
      BY <3>2 DEF Closed, Below
    <3> QED
      BY <1>0, <3>3
  <2>2. ASSUME NEW q \in Paths \ {Root}, Parent[q] \in S PROVE q \in S
    <3>1. PICK g \in Closed : Parent[q] \in DOMAIN g
      BY <2>2
    <3>2. CASE q \in DOMAIN g
      BY <3>1, <3>2
    <3>3. CASE q \notin DOMAIN g
      <4> DEFINE D == DOMAIN g \cup {q}
                 h == [x \in D |-> IF x = q THEN Append(g[Parent[q]], q) ELSE g[x]]
      <4>1. D \in SUBSET Paths /\ g \in [DOMAIN g -> Seq(Paths)]
        BY <1>1, <3>1
      <4>2. Append(g[Parent[q]], q) \in Seq(Paths)
        <5>1. g[Parent[q]] \in Seq(Paths)
          BY <3>1, <4>1
        <5> QED
          BY <5>1, AppendFacts
      <4>3. h \in [D -> Seq(Paths)]
        BY <4>1, <4>2
      <4>4. h \in Lineages /\ DOMAIN h = D
        BY <4>1, <4>3 DEF Lineages
      <4>5. h[q] = Below(h, q) /\ Parent[q] \in D
        BY <3>1, <3>3 DEF Below
      <4>6. ASSUME NEW x \in DOMAIN g PROVE (x # Root => Parent[x] \in D) /\ h[x] = Below(h, x)
        <5>1. x # q /\ h[x] = g[x] /\ (x # Root => Parent[x] \in DOMAIN g) /\ g[x] = Below(g, x)
          BY <3>1, <3>3 DEF Closed
        <5>2. x # Root => h[Parent[x]] = g[Parent[x]]
          BY <3>3, <5>1
        <5> QED
          BY <5>1, <5>2 DEF Below
      <4>7. h \in Closed
        BY <4>4, <4>5, <4>6 DEF Closed
      <4> QED
        BY <4>4, <4>7
    <3> QED
      BY <3>2, <3>3
  <2>3. Paths \subseteq S
    BY <2>1, <2>2, TreeInduct
  <2> QED
    BY <2>3
<1> DEFINE f == [p \in Paths |-> (CHOOSE g \in Closed : p \in DOMAIN g)[p]]
<1>4. ASSUME NEW g \in Closed, NEW p \in Paths, p \in DOMAIN g PROVE f[p] = g[p]
  <2>1. (CHOOSE h \in Closed : p \in DOMAIN h) \in Closed /\ p \in DOMAIN (CHOOSE h \in Closed : p \in DOMAIN h)
    BY <1>4
  <2> QED
    BY <1>2, <1>4, <2>1
<1>5. ASSUME NEW p \in Paths PROVE f[p] = Below(f, p)
  <2>1. PICK g \in Closed : p \in DOMAIN g
    BY <1>3
  <2>2. f[p] = g[p] /\ g[p] = Below(g, p) /\ (p # Root => Parent[p] \in DOMAIN g)
    BY <1>4, <2>1 DEF Closed
  <2>3. p # Root => f[Parent[p]] = g[Parent[p]]
    BY <1>0, <1>4, <2>2
  <2> QED
    BY <2>2, <2>3 DEF Below
<1>6. f = [p \in Paths |-> f[p]]
  OBVIOUS
<1> HIDE DEF f
<1>7. f = [p \in Paths |-> Below(f, p)]
  BY <1>5, <1>6
<1> QED
  BY <1>7

LEMMA LineageDef == \A p \in Paths : Lineage[p] = IF p = Root THEN <<Root>> ELSE Append(Lineage[Parent[p]], p)
<1> DEFINE Def(f) == f = [p \in Paths |-> IF p = Root THEN <<Root>> ELSE Append(f[Parent[p]], p)]
<1>1. \E f : Def(f)
  BY LineageExists DEF Below
<1>2. Lineage = CHOOSE f : Def(f)
  BY DEF Lineage
<1>3. Def(Lineage)
  BY <1>1, <1>2, Zenon
<1> QED
  BY <1>3

\* From the root to the path, each the directory of the next
LEMMA LineageFacts ==
  ASSUME NEW p \in Paths
  PROVE  /\ Lineage[p] \in Seq(Paths) /\ Len(Lineage[p]) \in Nat \ {0}
         /\ Lineage[p][1] = Root /\ Lineage[p][Len(Lineage[p])] = p
         /\ \A i \in 2 .. Len(Lineage[p]) : Lineage[p][i] # Root /\ Lineage[p][i - 1] = Parent[Lineage[p][i]]
<1> DEFINE Chain(s, q) == /\ s \in Seq(Paths) /\ Len(s) \in Nat \ {0} /\ s[1] = Root /\ s[Len(s)] = q
                          /\ \A i \in 2 .. Len(s) : s[i] # Root /\ s[i - 1] = Parent[s[i]]
           S == {q \in Paths : Chain(Lineage[q], q)}
<1>0. Root \in Paths /\ \A q \in Paths \ {Root} : Parent[q] \in Paths
  BY HmcAssumption
<1>1. Root \in S
  <2>1. Lineage[Root] = <<Root>>
    BY <1>0, LineageDef
  <2>2. Chain(<<Root>>, Root)
    BY <1>0
  <2> QED
    BY <1>0, <2>1, <2>2
<1>2. ASSUME NEW q \in Paths \ {Root}, Parent[q] \in S PROVE q \in S
  <2> DEFINE s == Lineage[Parent[q]]
  <2>1. Chain(s, Parent[q])
    BY <1>2
  <2>2. Lineage[q] = Append(s, q)
    BY LineageDef
  <2> HIDE DEF s
  <2>3. /\ Append(s, q) \in Seq(Paths) /\ Len(Append(s, q)) = Len(s) + 1
        /\ \A i \in 1 .. Len(s) : Append(s, q)[i] = s[i]
        /\ Append(s, q)[Len(s) + 1] = q
    BY <2>1, AppendProperties
  <2>4. ASSUME NEW i \in 2 .. (Len(s) + 1)
        PROVE  Append(s, q)[i] # Root /\ Append(s, q)[i - 1] = Parent[Append(s, q)[i]]
    <3>1. CASE i = Len(s) + 1
      <4>1. Append(s, q)[i - 1] = s[Len(s)]
        BY <2>1, <2>3, <3>1
      <4> QED
        BY <2>1, <2>3, <3>1, <4>1
    <3>2. CASE i # Len(s) + 1
      <4>1. i \in 2 .. Len(s) /\ i \in 1 .. Len(s) /\ i - 1 \in 1 .. Len(s)
        BY <2>1, <3>2
      <4>2. Append(s, q)[i] = s[i] /\ Append(s, q)[i - 1] = s[i - 1]
        BY <2>3, <4>1
      <4> QED
        BY <2>1, <4>1, <4>2
    <3> QED
      BY <3>1, <3>2
  <2>5. Append(s, q)[1] = Root /\ Len(s) + 1 \in Nat \ {0}
    BY <2>1, <2>3
  <2>6. Chain(Append(s, q), q)
    BY <2>3, <2>4, <2>5
  <2> QED
    BY <2>2, <2>6
<1>3. Paths \subseteq S
  BY <1>1, <1>2, TreeInduct
<1> QED
  BY <1>3

-----------------------------------------------------------------------------
(* The table that the aging thread looks through. *)

\* How far ahead of the aging thread the line of a path is
Ahead(p) == IF Line[p] >= index THEN Line[p] - index ELSE Line[p] + TableSize - index

\* A line that is not in this round comes nearer by a round
LEMMA RoundFacts ==
  ASSUME NEW p \in Paths, index \in 0 .. (TableSize - 1)
  PROVE  /\ Ahead(p) \in 0 .. (TableSize - 1)
         /\ NextIndex \in 0 .. (TableSize - 1)
         /\ Line[p] \notin Round => Ahead(p) >= Garbage
         /\ Line[p] \notin Round /\ index' = NextIndex => Ahead(p)' = Ahead(p) - Garbage
<1>1. TableSize \in Nat \ {0} /\ Garbage \in Nat \ {0} /\ Line[p] \in 0 .. (TableSize - 1)
  BY HmcAssumption
<1>2. Ahead(p) \in 0 .. (TableSize - 1)
  BY <1>1 DEF Ahead
<1>3. \A x \in 0 .. (TableSize - 1) : x % TableSize = x /\ (x + TableSize) % TableSize = x
  BY <1>1
<1>4. Ahead(p) < Garbage => Line[p] \in Round
  <2>1. (index + Ahead(p)) % TableSize = Line[p]
    <3>1. index + Ahead(p) = Line[p] \/ index + Ahead(p) = Line[p] + TableSize
      BY <1>1 DEF Ahead
    <3> QED
      BY <1>1, <1>3, <3>1
  <2>2. Ahead(p) < Garbage => Ahead(p) \in 0 .. (Garbage - 1)
    BY <1>1, <1>2
  <2> QED
    BY <2>1, <2>2 DEF Round
<1>5. Line[p] \notin Round => Ahead(p) >= Garbage
  BY <1>1, <1>2, <1>4
<1>6. Line[p] \notin Round => NextIndex = IF index + Garbage < TableSize THEN index + Garbage ELSE index + Garbage - TableSize
  <2> SUFFICES ASSUME Line[p] \notin Round
               PROVE  NextIndex = IF index + Garbage < TableSize THEN index + Garbage ELSE index + Garbage - TableSize
    OBVIOUS
  <2>1. Garbage < TableSize
    BY <1>1, <1>2, <1>5
  <2>2. CASE index + Garbage < TableSize
    BY <1>1, <1>3, <2>2 DEF NextIndex
  <2>3. CASE ~ (index + Garbage < TableSize)
    <3>1. index + Garbage - TableSize \in 0 .. (TableSize - 1) /\ index + Garbage = (index + Garbage - TableSize) + TableSize
      BY <1>1, <2>1, <2>3
    <3> QED
      BY <1>1, <1>3, <2>3, <3>1 DEF NextIndex
  <2> QED
    BY <2>2, <2>3
<1>7. ASSUME Line[p] \notin Round, index' = NextIndex PROVE Ahead(p)' = Ahead(p) - Garbage
  BY <1>1, <1>2, <1>5, <1>6, <1>7 DEF Ahead
<1>8. NextIndex \in 0 .. (TableSize - 1)
  BY <1>1 DEF NextIndex
<1> QED
  BY <1>2, <1>5, <1>7, <1>8

-----------------------------------------------------------------------------
(* The invariant. *)

Entry == [disc : Discs \cup {NoCmd}, left : 0 .. Ctmo, late : Nat]
Token == ((Paths \ {Root}) \cup {Junk}) \X {1, 2}

DeviceOK == /\ dev \in [cmd : Cmds \cup {NoCmd}, pos : Nat]
            /\ drv \in [cmd : Cmds \cup {NoCmd}, pos : Nat]

CacheOK == /\ Root \in DOMAIN cache /\ DOMAIN cache \subseteq Paths
           /\ cache \in [DOMAIN cache -> Entry]
           /\ index \in 0 .. (TableSize - 1) /\ disc \in Discs

\* The rounds that have missed an entry, and how far its line is ahead, make
\* less than one turn of the table
AgeInv == \A p \in DOMAIN cache :
            IF p = Root THEN cache[p].late = 0 ELSE cache[p].late * Garbage + Ahead(p) <= TableSize - 1

\* Without a request nothing is left of one; a scan is of a directory of the
\* path that is looked for, and the rest of them is still to do
Route(k) == /\ scan.dir = Lineage[op.path][k]
            /\ todo = SubSeq(Lineage[op.path], k + 1, Len(Lineage[op.path]))

OpInv == /\ op.path \in Paths /\ op.pos \in Nat
         /\ op = NoOp => scan = NoScan
         /\ scan # NoScan =>
              /\ scan \in [dir : Paths, pos : Nat, frag : Seq(Token)]
              /\ scan.dir \in DOMAIN cache /\ Len(scan.frag) < DirBuf
              /\ \E k \in DOMAIN Lineage[op.path] : Route(k)

\* The listing that is scanned, as the device sends it
Text == Tokens(Lines[disc][scan.dir])

\* Shown, with the attributes of this DVD
Seen == {p \in shown : p \in DOMAIN cache /\ cache[p].disc = disc}

\* A scan that was not disturbed has come across all files of the lines that
\* the device has sent completely; what it keeps of the last piece is the end
\* of that, with any half of a line
ScanInv ==
  scan # NoScan /\ clean =>
    /\ scan.pos <= Len(Text) /\ Len(scan.frag) <= scan.pos
    /\ \A i \in 1 .. Len(scan.frag) : scan.frag[i] = Text[scan.pos - Len(scan.frag) + i]
    /\ scan.pos % 2 = 1 => Len(scan.frag) >= 1
    /\ \A j \in 1 .. Len(Lines[disc][scan.dir]) :
         2 * j <= scan.pos /\ Lines[disc][scan.dir][j] \in Paths => Lines[disc][scan.dir][j] \in Seen

Inv == StepInv /\ DeviceOK /\ CacheOK /\ AgeInv /\ OpInv /\ ScanInv

-----------------------------------------------------------------------------
(* The cache. *)

\* What a request or a tick of the clock does to the cache: entries stay, and
\* count no further rounds
Grown == /\ DOMAIN cache \subseteq DOMAIN cache' /\ DOMAIN cache' \subseteq Paths
         /\ cache' \in [DOMAIN cache' -> Entry]
         /\ \A p \in DOMAIN cache' :
              cache'[p].late = 0 \/ (p \in DOMAIN cache /\ cache'[p].late = cache[p].late)
         /\ \A p \in DOMAIN cache : cache'[p].disc \in {cache[p].disc, disc}

LEMMA GrownKeeps ==
  ASSUME CacheOK, AgeInv, Grown, UNCHANGED <<index, disc>>
  PROVE  CacheOK' /\ AgeInv'
<1>1. CacheOK'
  BY DEF CacheOK, Grown
<1>2. ASSUME NEW p \in DOMAIN cache'
      PROVE  IF p = Root THEN cache'[p].late = 0 ELSE cache'[p].late * Garbage + Ahead(p)' <= TableSize - 1
  <2>1. Ahead(p)' = Ahead(p) /\ Ahead(p) \in 0 .. (TableSize - 1) /\ Garbage \in Nat /\ TableSize \in Nat
    BY <1>2, RoundFacts, HmcAssumption DEF Grown, CacheOK, Ahead
  <2>2. CASE cache'[p].late = 0
    BY <2>1, <2>2
  <2>3. CASE p \in DOMAIN cache /\ cache'[p].late = cache[p].late
    BY <2>1, <2>3 DEF AgeInv
  <2> QED
    BY <1>2, <2>2, <2>3 DEF Grown
<1> QED
  BY <1>1, <1>2 DEF AgeInv

LEMMA TouchGrows ==
  ASSUME CacheOK, NEW p \in DOMAIN cache, cache' = Touched(cache, p)
  PROVE  Grown /\ DOMAIN cache' = DOMAIN cache
<1>1. cache[p] \in Entry /\ Ctmo \in 0 .. Ctmo
  BY HmcAssumption DEF CacheOK
<1> DEFINE e == [cache[p] EXCEPT !.left = Ctmo, !.late = 0]
<1>2. e \in Entry /\ e.late = 0 /\ e.disc = cache[p].disc
  BY <1>1 DEF Entry
<1>3. cache' = [cache EXCEPT ![p] = e]
  BY DEF Touched, CacheOK
<1> HIDE DEF e
<1> QED
  BY <1>2, <1>3 DEF CacheOK, Grown

LEMMA RefreshGrows ==
  ASSUME CacheOK, NEW S \in SUBSET Paths, cache' = Refreshed(S)
  PROVE  Grown /\ \A p \in S : p \in DOMAIN cache' /\ cache'[p].disc = disc
<1>1. Fresh \in Entry /\ Fresh.late = 0 /\ Fresh.disc = disc
  BY HmcAssumption DEF Fresh, Entry, CacheOK
<1>2. cache' = [x \in S \cup DOMAIN cache |-> IF x \in S THEN Fresh ELSE cache[x]]
  BY DEF Refreshed
<1>3. /\ DOMAIN cache' = S \cup DOMAIN cache
      /\ \A x \in DOMAIN cache' : cache'[x] = IF x \in S THEN Fresh ELSE cache[x]
  BY <1>2
<1> QED
  BY <1>1, <1>2, <1>3 DEF CacheOK, Grown

LEMMA TickGrows ==
  ASSUME CacheOK, Tick
  PROVE  Grown /\ DOMAIN cache' = DOMAIN cache
<1> DEFINE e(p) == [cache[p] EXCEPT !.left = IF @ = 0 THEN 0 ELSE @ - 1]
<1>1. ASSUME NEW p \in DOMAIN cache
      PROVE  e(p) \in Entry /\ e(p).late = cache[p].late /\ e(p).disc = cache[p].disc
  <2>1. cache[p] \in Entry /\ Ctmo \in Nat
    BY HmcAssumption DEF CacheOK
  <2> QED
    BY <2>1 DEF Entry
<1>2. cache' = [p \in DOMAIN cache |-> e(p)]
  BY DEF Tick
<1>3. DOMAIN cache' = DOMAIN cache /\ \A p \in DOMAIN cache : cache'[p] = e(p)
  BY <1>2
<1> HIDE DEF e
<1> QED
  BY <1>1, <1>2, <1>3 DEF CacheOK, Grown

\* A round of the aging thread
LEMMA AgingKeeps ==
  ASSUME CacheOK, AgeInv, Aging
  PROVE  CacheOK' /\ AgeInv'
<1> DEFINE e(p) == [cache[p] EXCEPT !.late = IF cache[p].left = 0 /\ p # Root THEN @ + 1 ELSE 0]
           D == {q \in DOMAIN cache : ~ Expired(q)}
<1>0. Garbage \in Nat \ {0} /\ TableSize \in Nat /\ index \in 0 .. (TableSize - 1) /\ DOMAIN cache \subseteq Paths
  BY HmcAssumption DEF CacheOK
<1>1. ASSUME NEW p \in DOMAIN cache
      PROVE  /\ cache[p] \in Entry /\ e(p) \in Entry /\ cache[p].late \in Nat
             /\ e(p).late = IF cache[p].left = 0 /\ p # Root THEN cache[p].late + 1 ELSE 0
  <2>1. cache[p] \in Entry
    BY DEF CacheOK
  <2> QED
    BY <2>1 DEF Entry
<1>2. /\ cache' = [p \in D |-> e(p)] /\ index' = NextIndex /\ disc' = disc
  BY DEF Aging
<1>3. DOMAIN cache' = D /\ \A p \in D : cache'[p] = e(p)
  BY <1>2
<1>4. Root \in D
  BY DEF Expired, CacheOK
<1> HIDE DEF e
<1>5. CacheOK'
  <2>1. index' \in 0 .. (TableSize - 1)
    BY <1>0, <1>2, <1>4, RoundFacts DEF CacheOK
  <2> QED
    BY <1>1, <1>2, <1>3, <1>4, <2>1 DEF CacheOK
<1>6. ASSUME NEW p \in D
      PROVE  IF p = Root THEN cache'[p].late = 0 ELSE cache'[p].late * Garbage + Ahead(p)' <= TableSize - 1
  <2>1. Ahead(p)' \in 0 .. (TableSize - 1)
    <3>1. Line[p] \in 0 .. (TableSize - 1) /\ index' \in 0 .. (TableSize - 1)
      BY <1>0, <1>5, HmcAssumption DEF CacheOK
    <3> QED
      BY <1>0, <3>1 DEF Ahead
  <2>2. CASE cache[p].left = 0 /\ p # Root
    <3>1. cache'[p].late = cache[p].late + 1 /\ cache[p].late \in Nat
      BY <1>1, <1>3, <2>2
    <3>2. Ahead(p)' = Ahead(p) - Garbage /\ Ahead(p) \in 0 .. (TableSize - 1)
      BY <1>0, <1>2, <2>2, RoundFacts DEF Expired
    <3>3. cache[p].late * Garbage + Ahead(p) <= TableSize - 1
      BY <2>2 DEF AgeInv
    <3>4. (cache[p].late + 1) * Garbage = cache[p].late * Garbage + Garbage
      BY <1>0, <3>1
    <3>5. cache[p].late * Garbage \in Nat
      BY <1>0, <3>1
    <3>6. (cache[p].late + 1) * Garbage + (Ahead(p) - Garbage) <= TableSize - 1
      BY <1>0, <3>2, <3>3, <3>4, <3>5
    <3> QED
      BY <2>2, <3>1, <3>2, <3>6
  <2>3. CASE ~ (cache[p].left = 0 /\ p # Root)
    <3>1. cache'[p].late = 0
      BY <1>1, <1>3, <2>3
    <3> QED
      BY <1>0, <2>1, <3>1
  <2> QED
    BY <2>2, <2>3
<1> QED
  BY <1>3, <1>5, <1>6 DEF AgeInv

-----------------------------------------------------------------------------
(* Listings. *)

LEMMA TokenFacts ==
  ASSUME NEW d \in Discs, NEW p \in Paths
  PROVE  /\ Lines[d][p] \in Seq((Paths \ {Root}) \cup {Junk})
         /\ Tokens(Lines[d][p]) \in Seq(Token) /\ Len(Tokens(Lines[d][p])) = 2 * Len(Lines[d][p])
         /\ \A i \in 1 .. Len(Tokens(Lines[d][p])) : Tokens(Lines[d][p])[i][2] = 1 <=> i % 2 = 1
         /\ \A j \in 1 .. Len(Lines[d][p]) : /\ Tokens(Lines[d][p])[2 * j - 1] = <<Lines[d][p][j], 1>>
                                             /\ Tokens(Lines[d][p])[2 * j] = <<Lines[d][p][j], 2>>
<1> DEFINE l == Lines[d][p]  t == Tokens(l)  S == (Paths \ {Root}) \cup {Junk}
<1>1. l \in Seq(S)
  BY HmcAssumption
<1>2. Len(l) \in Nat /\ \A j \in 1 .. Len(l) : l[j] \in S
  BY <1>1
<1> HIDE DEF l
<1>3. t = [i \in 1 .. (2 * Len(l)) |-> <<l[(i + 1) \div 2], 2 - (i % 2)>>]
  BY DEF Tokens
<1>4. ASSUME NEW i \in 1 .. (2 * Len(l))
      PROVE  (i + 1) \div 2 \in 1 .. Len(l) /\ 2 - (i % 2) \in {1, 2} /\ (2 - (i % 2) = 1 <=> i % 2 = 1)
  BY <1>2
<1>5. \A i \in 1 .. (2 * Len(l)) : <<l[(i + 1) \div 2], 2 - (i % 2)>> \in Token
  BY <1>2, <1>4 DEF Token
<1>6. t \in [1 .. (2 * Len(l)) -> Token] /\ 2 * Len(l) \in Nat
  BY <1>2, <1>3, <1>5
<1>7. t \in Seq(Token) /\ Len(t) = 2 * Len(l)
  BY <1>6
<1>8. \A i \in 1 .. (2 * Len(l)) : t[i] = <<l[(i + 1) \div 2], 2 - (i % 2)>>
  BY <1>3
<1>9. \A i \in 1 .. Len(t) : t[i][2] = 1 <=> i % 2 = 1
  BY <1>4, <1>7, <1>8
<1>10. ASSUME NEW j \in 1 .. Len(l) PROVE t[2 * j - 1] = <<l[j], 1>> /\ t[2 * j] = <<l[j], 2>>
  <2>1. /\ 2 * j - 1 \in 1 .. (2 * Len(l)) /\ 2 * j \in 1 .. (2 * Len(l))
        /\ (2 * j - 1 + 1) \div 2 = j /\ (2 * j + 1) \div 2 = j
        /\ (2 * j - 1) % 2 = 1 /\ (2 * j) % 2 = 0
    BY <1>2
  <2> QED
    BY <1>8, <2>1
<1> QED
  BY <1>1, <1>7, <1>9, <1>10 DEF l

\* The fragment is the end of the buffer, and has any half of a line
LEMMA FragmentFacts ==
  ASSUME NEW buf \in Seq(Token), buf # <<>>
  PROVE  /\ Fragment(buf) \in Seq(Token) /\ Len(Fragment(buf)) \in 0 .. 2 /\ Len(Fragment(buf)) <= Len(buf)
         /\ \A i \in 1 .. Len(Fragment(buf)) : Fragment(buf)[i] = buf[Len(buf) - Len(Fragment(buf)) + i]
         /\ buf[Len(buf)][2] = 1 => Len(Fragment(buf)) = 1
<1> DEFINE n == Len(buf)
<1>1. n \in Nat \ {0} /\ \A i \in 1 .. n : buf[i] \in Token
  BY EmptySeq
<1> HIDE DEF n
<1>2. Max({1, n - 1}) = IF n = 1 THEN 1 ELSE n - 1
  <2>1. 1 \in Int /\ n - 1 \in Int
    BY <1>1
  <2>2. Max({1, n - 1}) = IF 1 >= n - 1 THEN 1 ELSE n - 1
    BY <2>1, PairFacts
  <2>3. (IF 1 >= n - 1 THEN 1 ELSE n - 1) = IF n = 1 THEN 1 ELSE n - 1
    BY <1>1
  <2> QED
    BY <2>2, <2>3
<1>3. CASE buf[n][2] = 1
  <2>1. Fragment(buf) = <<buf[n]>> /\ n \in 1 .. n
    BY <1>1, <1>3 DEF Fragment, n
  <2>2. <<buf[n]>> \in Seq(Token) /\ Len(<<buf[n]>>) = 1 /\ <<buf[n]>>[1] = buf[n]
    BY <1>1, <2>1
  <2> QED
    BY <1>1, <2>1, <2>2 DEF n
<1>4. CASE buf[n][2] # 1 /\ n > 1 /\ buf[n][1] # Junk
  <2>1. Fragment(buf) = <<>>
    BY <1>4 DEF Fragment, n
  <2>2. <<>> \in Seq(Token) /\ Len(<<>>) = 0
    OBVIOUS
  <2> QED
    BY <1>1, <1>4, <2>1, <2>2 DEF n
<1>5. CASE buf[n][2] # 1 /\ ~(n > 1 /\ buf[n][1] # Junk)
  <2> DEFINE k == IF n = 1 THEN 1 ELSE n - 1
  <2>1. Fragment(buf) = SubSeq(buf, k, n)
    BY <1>2, <1>5 DEF Fragment, n
  <2>2. k \in Int /\ n \in Int /\ k <= n /\ k >= 1 /\ n - k + 1 \in 1 .. 2 /\ \A i \in k .. n : buf[i] \in Token
    BY <1>1
  <2> HIDE DEF k
  <2>3. SubSeq(buf, k, n) \in Seq(Token) /\ Len(SubSeq(buf, k, n)) = n - k + 1
        /\ \A i \in 1 .. n - k + 1 : SubSeq(buf, k, n)[i] = buf[k + i - 1]
    BY <2>2, SubSeqProperties
  <2>4. \A i \in 1 .. n - k + 1 : k + i - 1 = n - (n - k + 1) + i
    BY <2>2
  <2> QED
    BY <1>5, <2>1, <2>2, <2>3, <2>4 DEF n
<1> QED
  BY <1>3, <1>4, <1>5 DEF n

\* At the place of the scan, the device reads the rest of its listing
LEMMA ListingFacts ==
  ASSUME Inv, scan # NoScan
  PROVE  /\ Text \in Seq(Token) /\ Len(Text) \in Nat
         /\ scan.pos \in Nat /\ scan.dir \in Paths
         /\ Listing(At(DirCmd, scan.pos)) = SubSeq(Text, scan.pos + 1, Len(Text))
         /\ DirCmd \in Cmds
<1>1. scan.pos \in Nat /\ scan.dir \in Paths /\ disc \in Discs
  BY DEF Inv, OpInv, CacheOK
<1>2. Text \in Seq(Token)
  BY <1>1, TokenFacts DEF Text
<1>3. DirCmd \in Cmds /\ DirCmd # NoCmd /\ DirCmd[2] = scan.dir
  BY <1>1, TreeAssumption DEF DirCmd, Cmds
<1>4. At(DirCmd, scan.pos) = [cmd |-> DirCmd, pos |-> scan.pos]
  BY <1>3 DEF At, Sequential, Inv, StepInv, InStep
<1>5. Listing(At(DirCmd, scan.pos)) = SubSeq(Text, scan.pos + 1, Len(Text))
  <2> DEFINE at == [cmd |-> DirCmd, pos |-> scan.pos]
  <2>1. at.cmd = DirCmd /\ at.pos = scan.pos
    OBVIOUS
  <2> HIDE DEF at
  <2>2. Listing(at) = SubSeq(Text, scan.pos + 1, Len(Text))
    BY <1>3, <2>1 DEF Listing, Text
  <2> QED
    BY <1>4, <2>2 DEF at
<1> QED
  BY <1>1, <1>2, <1>3, <1>5

\* A piece: the buffer has the fragment and then what comes next of the listing
LEMMA PieceFacts ==
  ASSUME Inv, NEW n \in 1 .. DirBuf, Piece(n)
  PROVE  \E buf \in Seq(Token) :
           /\ buf # <<>> /\ Len(buf) = Len(scan.frag) + n /\ scan.pos + n <= Len(Text)
           /\ \A i \in 1 .. Len(scan.frag) : buf[i] = scan.frag[i]
           /\ \A i \in 1 .. n : buf[Len(scan.frag) + i] = Text[scan.pos + i]
           /\ cache' = Refreshed(Parsed(buf)) /\ shown' = shown \cup Parsed(buf)
           /\ scan' = [scan EXCEPT !.pos = scan.pos + n, !.frag = Fragment(buf)]
<1> DEFINE left == Listing(At(DirCmd, scan.pos))
           buf == scan.frag \o SubSeq(left, 1, n)
<1>1. /\ scan # NoScan /\ n <= Len(left)
      /\ cache' = Refreshed(Parsed(buf)) /\ shown' = shown \cup Parsed(buf)
      /\ scan' = [scan EXCEPT !.pos = @ + n, !.frag = Fragment(buf)]
  BY DEF Piece
<1>2. /\ Text \in Seq(Token) /\ Len(Text) \in Nat /\ scan.pos \in Nat
      /\ left = SubSeq(Text, scan.pos + 1, Len(Text)) /\ scan.frag \in Seq(Token) /\ Len(scan.frag) \in Nat
      /\ n \in Nat \ {0}
  <2>1. scan.frag \in Seq(Token)
    BY <1>1 DEF Inv, OpInv
  <2>2. n \in Nat \ {0}
    BY HmcAssumption
  <2>3. /\ Text \in Seq(Token) /\ Len(Text) \in Nat /\ scan.pos \in Nat
        /\ left = SubSeq(Text, scan.pos + 1, Len(Text))
    BY <1>1, ListingFacts
  <2> QED
    BY <2>1, <2>2, <2>3
<1>3. /\ left \in Seq(Token) /\ Len(left) = IF scan.pos + 1 <= Len(Text) THEN Len(Text) - scan.pos ELSE 0
      /\ \A i \in 1 .. Len(Text) - scan.pos : left[i] = Text[scan.pos + i]
  <2> HIDE DEF left
  <2> DEFINE a == scan.pos + 1  z == Len(Text)
  <2>1. a \in Int /\ z \in Int /\ \A i \in a .. z : Text[i] \in Token
    BY <1>2
  <2>2. left = SubSeq(Text, a, z) /\ a = scan.pos + 1 /\ z = Len(Text)
    BY <1>2
  <2> HIDE DEF a, z
  <2>3. /\ SubSeq(Text, a, z) \in Seq(Token) /\ Len(SubSeq(Text, a, z)) = IF a <= z THEN z - a + 1 ELSE 0
        /\ \A i \in 1 .. z - a + 1 : SubSeq(Text, a, z)[i] = Text[a + i - 1]
    BY <2>1, SubSeqProperties
  <2>4. ASSUME NEW i \in 1 .. Len(Text) - scan.pos PROVE left[i] = Text[scan.pos + i]
    <3>1. scan.pos \in Nat /\ Len(Text) \in Nat /\ a = scan.pos + 1 /\ z = Len(Text)
      BY <1>2, <2>2
    <3>2. z - a + 1 = Len(Text) - scan.pos /\ a + i - 1 = scan.pos + i
      BY <3>1
    <3> QED
      BY <2>2, <2>3, <3>2
  <2>5. (IF a <= z THEN z - a + 1 ELSE 0) = IF scan.pos + 1 <= Len(Text) THEN Len(Text) - scan.pos ELSE 0
    BY <1>2, <2>2
  <2> QED
    BY <2>2, <2>3, <2>4, <2>5
<1> HIDE DEF left
<1>4. scan.pos + n <= Len(Text) /\ n \in 0 .. Len(left)
  BY <1>1, <1>2, <1>3
<1>5. /\ SubSeq(left, 1, n) \in Seq(Token) /\ Len(SubSeq(left, 1, n)) = n
      /\ \A i \in 1 .. n : SubSeq(left, 1, n)[i] = left[i]
  BY <1>3, <1>4, PrefixFacts
<1>6. /\ buf \in Seq(Token) /\ Len(buf) = Len(scan.frag) + n
      /\ \A i \in 1 .. Len(scan.frag) : buf[i] = scan.frag[i]
      /\ \A i \in 1 .. n : buf[Len(scan.frag) + i] = SubSeq(left, 1, n)[i]
  <2> DEFINE piece == SubSeq(left, 1, n)
  <2>1. piece \in Seq(Token) /\ Len(piece) = n
    BY <1>5
  <2> HIDE DEF piece
  <2>2. scan.frag \o piece \in Seq(Token) /\ Len(scan.frag \o piece) = Len(scan.frag) + n
    BY <1>2, <2>1, ConcatProperties
  <2>3. \A i \in 1 .. Len(scan.frag) : (scan.frag \o piece)[i] = scan.frag[i]
    BY <1>2, <2>1, ConcatProperties
  <2>4. ASSUME NEW i \in 1 .. n PROVE (scan.frag \o piece)[Len(scan.frag) + i] = piece[i]
    <3>1. /\ Len(scan.frag) + i \in (Len(scan.frag) + 1) .. (Len(scan.frag) + Len(piece))
          /\ (Len(scan.frag) + i) - Len(scan.frag) = i
      BY <1>2, <2>1
    <3>2. \A j \in (Len(scan.frag) + 1) .. (Len(scan.frag) + Len(piece)) :
            (scan.frag \o piece)[j] = piece[j - Len(scan.frag)]
      BY <1>2, <2>1, ConcatProperties
    <3> QED
      BY <3>1, <3>2
  <2> QED
    BY <2>2, <2>3, <2>4 DEF piece
<1>7. \A i \in 1 .. n : buf[Len(scan.frag) + i] = Text[scan.pos + i]
  <2>1. \A i \in 1 .. n : i \in 1 .. Len(Text) - scan.pos
    BY <1>2, <1>4
  <2> QED
    BY <1>3, <1>5, <1>6, <2>1
<1>8. buf # <<>>
  <2>1. Len(buf) # 0 /\ Len(<<>>) = 0
    BY <1>2, <1>6
  <2> QED
    BY <2>1
<1> HIDE DEF buf
<1>9. scan' = [scan EXCEPT !.pos = scan.pos + n, !.frag = Fragment(buf)]
  BY <1>1
<1>10. \A i \in 1 .. Len(scan.frag) : buf[i] = scan.frag[i]
  BY <1>6
<1> QED
  BY <1>1, <1>4, <1>6, <1>7, <1>8, <1>9, <1>10, Zenon

-----------------------------------------------------------------------------
(* Steps. *)

\* A transfer moves to a place of the command's own, or to one before it
LEMMA DeviceKept ==
  ASSUME DeviceOK, NEW cmd \in Cmds, NEW pos \in Nat, NEW n \in Nat,
         TransferDone(cmd, pos, n) \/ TransferFails(cmd, pos)
  PROVE  DeviceOK'
<1> DEFINE P == [cmd : Cmds \cup {NoCmd}, pos : Nat]
<1>0. dev \in P /\ drv \in P
  BY DEF DeviceOK
<1>1. CASE TransferDone(cmd, pos, n)
  <2>1. At(cmd, pos) \in P
    BY <1>0 DEF At
  <2>2. drv' \in P
    BY <1>1 DEF TransferDone
  <2>3. dev' \in P
    <3> DEFINE a == At(cmd, pos)
    <3>1. a \in P /\ dev' = [a EXCEPT !.pos = @ + n]
      BY <1>1, <2>1 DEF TransferDone
    <3> HIDE DEF a
    <3> QED
      BY <3>1
  <2> QED
    BY <2>2, <2>3 DEF DeviceOK
<1>2. CASE TransferFails(cmd, pos)
  <2>1. Forgotten \in P
    BY <1>0 DEF Forgotten
  <2>2. drv' \in P
    BY <1>2, <2>1 DEF TransferFails
  <2>3. dev' \in P
    BY <1>0, <1>2 DEF TransferFails
  <2> QED
    BY <2>2, <2>3 DEF DeviceOK
<1> QED
  BY <1>1, <1>2

\* Nothing was sent of a listing whose scan begins
LEMMA ScanStarts ==
  ASSUME disc' \in Discs, scan' = NoScan \/ \E p \in Paths : scan' = Scanning(p)
  PROVE  ScanInv'
<1>1. CASE scan' = NoScan
  BY <1>1 DEF ScanInv
<1>2. ASSUME NEW p \in Paths, scan' = Scanning(p) PROVE ScanInv'
  <2>1. scan'.dir = p /\ scan'.pos = 0 /\ scan'.frag = <<>>
    BY <1>2 DEF Scanning, NoScan
  <2>2. Len(Tokens(Lines[disc'][p])) = 2 * Len(Lines[disc'][p]) /\ Len(Lines[disc'][p]) \in Nat
    BY TokenFacts
  <2>3. Text' = Tokens(Lines[disc'][p])
    BY <2>1 DEF Text
  <2>4. Len(scan'.frag) = 0
    BY <2>1
  <2>5. scan'.pos <= Len(Text') /\ Len(scan'.frag) <= scan'.pos /\ ~(scan'.pos % 2 = 1)
    BY <2>1, <2>2, <2>3, <2>4
  <2>6. \A i \in 1 .. Len(scan'.frag) : FALSE
    BY <2>4
  <2>7. \A j \in 1 .. Len(Lines[disc'][scan'.dir]) : ~(2 * j <= scan'.pos)
    BY <2>1, <2>2
  <2> QED
    BY <2>5, <2>6, <2>7 DEF ScanInv
<1> QED
  BY <1>1, <1>2

\* What was seen stays seen while the cache grows
LEMMA ScanKept ==
  ASSUME ScanInv, Grown, UNCHANGED <<disc, scan, shown>>, clean' => clean
  PROVE  ScanInv'
<1>1. Seen \subseteq Seen'
  BY DEF Seen, Grown
<1>2. Text' = Text
  BY DEF Text
<1> QED
  BY <1>1, <1>2 DEF ScanInv

LEMMA TickKeeps ==
  ASSUME Inv, Tick
  PROVE  Inv'
<1>1. Grown /\ DOMAIN cache' = DOMAIN cache
  BY TickGrows DEF Inv
<1>2. UNCHANGED <<index, disc, dev, drv, op, todo, scan, shown, clean>>
  BY DEF Tick
<1>3. CacheOK' /\ AgeInv'
  BY <1>1, <1>2, GrownKeeps DEF Inv
<1>4. StepInv' /\ DeviceOK'
  BY <1>2 DEF Inv, StepInv, Place, InStep, DeviceOK
<1>5. OpInv'
  BY <1>1, <1>2 DEF Inv, OpInv, Route
<1>6. ScanInv'
  BY <1>1, <1>2, ScanKept DEF Inv
<1> QED
  BY <1>3, <1>4, <1>5, <1>6 DEF Inv

LEMMA AgingStepKeeps ==
  ASSUME Inv, Aging
  PROVE  Inv'
<1>1. UNCHANGED <<disc, dev, drv, op, todo, scan, shown, clean>> /\ op = NoOp
  BY DEF Aging, MayAge
<1>2. CacheOK' /\ AgeInv'
  BY AgingKeeps DEF Inv
<1>3. StepInv' /\ DeviceOK'
  BY <1>1 DEF Inv, StepInv, Place, InStep, DeviceOK
<1>4. scan' = NoScan
  BY <1>1 DEF Inv, OpInv
<1>5. OpInv'
  BY <1>1, <1>4 DEF Inv, OpInv
<1>6. ScanInv'
  BY <1>4 DEF ScanInv
<1> QED
  BY <1>2, <1>3, <1>5, <1>6 DEF Inv

LEMMA ExchangeKeeps ==
  ASSUME Inv, NEW d \in Discs, Exchange(d)
  PROVE  Inv'
<1>1. UNCHANGED <<cache, index, due, dev, drv, op, todo, scan, shown>> /\ disc' = d
  BY DEF Exchange
<1>2. CacheOK' /\ AgeInv'
  BY <1>1 DEF Inv, CacheOK, AgeInv, Ahead
<1>3. StepInv' /\ DeviceOK'
  BY <1>1 DEF Inv, StepInv, Place, InStep, DeviceOK
<1>4. OpInv'
  BY <1>1 DEF Inv, OpInv, Route
<1>5. ScanInv'
  <2>1. CASE op = NoOp
    BY <1>1, <2>1 DEF Inv, OpInv, ScanInv
  <2>2. CASE op # NoOp
    <3>1. ~ clean'
      BY <2>2 DEF Exchange
    <3> QED
      BY <3>1 DEF ScanInv
  <2> QED
    BY <2>1, <2>2
<1> QED
  BY <1>2, <1>3, <1>4, <1>5 DEF Inv

LEMMA MountKeeps ==
  ASSUME Inv, Mount
  PROVE  Inv'
<1>1. UNCHANGED <<disc, op, todo, scan, shown, clean>> /\ op = NoOp
  BY DEF Mount
<1>2. Root \in Paths /\ Ctmo \in Nat /\ TableSize \in Nat \ {0}
  BY HmcAssumption
<1>3. DOMAIN cache' = {Root} /\ cache'[Root] = [disc |-> NoCmd, left |-> Ctmo, late |-> 0] /\ cache' \in [{Root} -> Entry]
  BY <1>2 DEF Mount, OnlyRoot, Entry
<1>4. CacheOK' /\ AgeInv'
  BY <1>1, <1>2, <1>3 DEF Mount, Inv, CacheOK, AgeInv
<1>5. StepInv' /\ DeviceOK'
  BY DEF Mount, StepInv, Place, InStep, DeviceOK
<1>6. scan' = NoScan
  BY <1>1 DEF Inv, OpInv
<1>7. OpInv' /\ ScanInv'
  BY <1>1, <1>6 DEF Inv, OpInv, ScanInv
<1> QED
  BY <1>4, <1>5, <1>7 DEF Inv

\* What is to do after a directory is its place in the path's lineage, moved on
LEMMA RouteFacts ==
  ASSUME NEW p \in Paths, NEW k \in DOMAIN Lineage[p], NEW t, t = SubSeq(Lineage[p], k + 1, Len(Lineage[p]))
  PROVE  /\ Lineage[p][k] \in Paths /\ k \in 1 .. Len(Lineage[p]) /\ Len(Lineage[p]) \in Nat
         /\ t = <<>> <=> k = Len(Lineage[p])
         /\ t # <<>> => /\ k + 1 \in DOMAIN Lineage[p] /\ Head(t) = Lineage[p][k + 1]
                        /\ Tail(t) = SubSeq(Lineage[p], k + 2, Len(Lineage[p]))
<1> DEFINE l == Lineage[p]  n == Len(l)
<1>1. l \in Seq(Paths) /\ n \in Nat
  BY LineageFacts
<1> HIDE DEF l
<1>2. DOMAIN l = 1 .. n /\ k \in 1 .. n
  BY <1>1 DEF l
<1>3. l[k] \in Paths
  BY <1>1, <1>2
<1>4. k + 1 \in Int /\ n \in Int /\ \A i \in k + 1 .. n : l[i] \in Paths
  BY <1>1, <1>2
<1> HIDE DEF n
<1>5. Len(t) = IF k + 1 <= n THEN n - (k + 1) + 1 ELSE 0
  <2>1. t = SubSeq(l, k + 1, n)
    BY DEF l, n
  <2> QED
    BY <1>4, <2>1, SubSeqProperties
<1>6. t \in Seq(Paths)
  <2>1. t = SubSeq(l, k + 1, n)
    BY DEF l, n
  <2> QED
    BY <1>4, <2>1, SubSeqProperties
<1>7. t = <<>> <=> k = n
  <2>1. t = <<>> <=> Len(t) = 0
    BY <1>6, EmptySeq
  <2> QED
    BY <1>2, <1>4, <1>5, <2>1
<1>8. ASSUME t # <<>> PROVE k + 1 \in 1 .. n /\ Head(t) = l[k + 1] /\ Tail(t) = SubSeq(l, k + 2, n)
  <2>1. k + 1 \in 1 .. n /\ k + 1 <= n /\ k + 1 + 1 = k + 2
    BY <1>2, <1>4, <1>7, <1>8
  <2>2. Head(SubSeq(l, k + 1, n)) = l[k + 1] /\ Tail(SubSeq(l, k + 1, n)) = SubSeq(l, k + 1 + 1, n)
    <3>1. k + 1 \in 1 .. Len(l) /\ Len(l) \in k + 1 .. Len(l)
      BY <1>4, <2>1 DEF n
    <3> QED
      BY <1>1, <3>1, HeadTailOfSubSeq DEF n
  <2>3. t = SubSeq(l, k + 1, n)
    BY DEF l, n
  <2> QED
    BY <2>1, <2>2, <2>3
<1> QED
  BY <1>1, <1>2, <1>3, <1>7, <1>8 DEF l, n

\* The scan of a directory that is in the cache begins
LEMMA ScanOf ==
  ASSUME NEW q \in Paths
  PROVE  /\ Scanning(q) \in [dir : Paths, pos : Nat, frag : Seq(Token)]
         /\ Scanning(q).dir = q /\ Len(Scanning(q).frag) < DirBuf
<1>1. Scanning(q) = [dir |-> q, pos |-> 0, frag |-> <<>>]
  BY DEF Scanning, NoScan
<1>2. <<>> \in Seq(Token) /\ Len(<<>>) < DirBuf
  BY HmcAssumption
<1> QED
  BY <1>1, <1>2

LEMMA BeginKeeps ==
  ASSUME Inv, NEW kind \in {"getattr", "readdir", "read"}, NEW p \in Paths, NEW pos \in Nat, Begin(kind, p, pos)
  PROVE  Inv'
<1> DEFINE line == Lineage[p]
           I == {i \in DOMAIN line : line[i] \in DOMAIN cache}
<1>1. line \in Seq(Paths) /\ Len(line) \in Nat \ {0} /\ line[1] = Root /\ DOMAIN line = 1 .. Len(line)
  <2>1. line \in Seq(Paths) /\ Len(line) \in Nat \ {0} /\ line[1] = Root
    BY LineageFacts
  <2> HIDE DEF line
  <2> QED
    BY <2>1
<1>2. PICK k \in DOMAIN line : k = Max(I) /\ line[k] \in DOMAIN cache
  <2>1. 1 \in I
    BY <1>1 DEF Inv, CacheOK
  <2>2. I \in SUBSET Nat /\ \A i \in I : i <= Len(line)
    BY <1>1
  <2>3. Max(I) \in I
    BY <1>1, <2>1, <2>2, MaxFacts
  <2> QED
    BY <2>3
<1>3. /\ op = NoOp /\ cache' = Touched(cache, line[k])
      /\ UNCHANGED <<index, due, disc, dev, drv, shown, clean>>
      /\ \/ UNCHANGED <<op, todo, scan>>
         \/ /\ op' = [kind |-> kind, path |-> p, pos |-> pos]
            /\ todo' = SubSeq(line, k + 1, Len(line))
            /\ scan' = Scanning(line[k]) \/ scan' = NoScan
  BY <1>2 DEF Begin
<1>4. Grown /\ DOMAIN cache' = DOMAIN cache
  BY <1>2, <1>3, TouchGrows DEF Inv
<1>5. CacheOK' /\ AgeInv'
  BY <1>3, <1>4, GrownKeeps DEF Inv
<1>6. StepInv' /\ DeviceOK'
  BY <1>3 DEF Inv, StepInv, Place, InStep, DeviceOK
<1>7. line[k] \in Paths /\ scan = NoScan
  BY <1>2, <1>3 DEF Inv, OpInv, CacheOK
<1>8. CASE UNCHANGED <<op, todo, scan>>
  <2>1. OpInv'
    BY <1>3, <1>7, <1>8 DEF Inv, OpInv
  <2>2. ScanInv'
    BY <1>7, <1>8 DEF ScanInv
  <2> QED
    BY <1>5, <1>6, <2>1, <2>2 DEF Inv
<1>9. CASE /\ op' = [kind |-> kind, path |-> p, pos |-> pos]
           /\ todo' = SubSeq(line, k + 1, Len(line))
           /\ scan' = Scanning(line[k]) \/ scan' = NoScan
  <2>1. ScanInv'
    BY <1>5, <1>7, <1>9, ScanStarts DEF CacheOK
  <2>2. op'.path = p /\ op'.pos = pos /\ op'.kind = kind
    BY <1>9
  <2>3. op' # NoOp
    BY <2>2 DEF NoOp
  <2>4. ASSUME scan' = Scanning(line[k])
        PROVE  /\ scan' \in [dir : Paths, pos : Nat, frag : Seq(Token)]
               /\ scan'.dir \in DOMAIN cache' /\ Len(scan'.frag) < DirBuf
               /\ \E i \in DOMAIN Lineage[op'.path] : Route(i)'
    <3>1. scan' \in [dir : Paths, pos : Nat, frag : Seq(Token)] /\ scan'.dir = line[k] /\ Len(scan'.frag) < DirBuf
      BY <1>7, <2>4, ScanOf
    <3>2. Route(k)'
      BY <1>9, <2>2, <3>1 DEF Route
    <3> QED
      BY <1>2, <1>4, <2>2, <3>1, <3>2
  <2>5. OpInv'
    BY <1>9, <2>2, <2>3, <2>4 DEF OpInv
  <2> QED
    BY <1>5, <1>6, <2>1, <2>5 DEF Inv
<1> QED
  BY <1>3, <1>8, <1>9

\* The end of a request
LEMMA EndKeeps ==
  ASSUME Inv, Ends, UNCHANGED <<cache, index, disc>> \/ (Grown /\ UNCHANGED <<index, disc>>)
  PROVE  CacheOK' /\ AgeInv' /\ OpInv' /\ ScanInv'
<1>1. CacheOK' /\ AgeInv'
  <2>1. CASE UNCHANGED <<cache, index, disc>>
    BY <2>1 DEF Inv, CacheOK, AgeInv, Ahead
  <2>2. CASE Grown /\ UNCHANGED <<index, disc>>
    BY <2>2, GrownKeeps DEF Inv
  <2> QED
    BY <2>1, <2>2
<1>2. scan' = NoScan /\ op' = NoOp
  BY DEF Ends
<1>3. NoOp.path \in Paths /\ NoOp.pos \in Nat
  BY HmcAssumption DEF NoOp
<1> QED
  BY <1>1, <1>2, <1>3 DEF OpInv, ScanInv

\* The end of a scan: the request ends, or the next directory of its path is
\* scanned, or its file is read
LEMMA ScannedKeeps ==
  ASSUME Inv, scan # NoScan, Scanned, UNCHANGED <<index, disc>>
  PROVE  CacheOK' /\ AgeInv' /\ OpInv' /\ ScanInv'
<1>1. CASE todo = <<>> \/ NotFound
  BY <1>1, EndKeeps DEF Scanned
<1>2. CASE ~(todo = <<>> \/ NotFound)
  <2> DEFINE q == Head(todo)
  <2>1. /\ op.path \in Paths /\ op.pos \in Nat /\ op # NoOp
    BY DEF Inv, OpInv
  <2>2. PICK k \in DOMAIN Lineage[op.path] : Route(k)
    BY DEF Inv, OpInv
  <2>3. q = Lineage[op.path][k + 1] /\ k + 1 \in DOMAIN Lineage[op.path]
        /\ Tail(todo) = SubSeq(Lineage[op.path], k + 2, Len(Lineage[op.path])) /\ k \in Nat
    <3>1. todo = SubSeq(Lineage[op.path], k + 1, Len(Lineage[op.path])) /\ todo # <<>>
      BY <1>2, <2>2 DEF Route
    <3>2. k \in 1 .. Len(Lineage[op.path]) /\ Len(Lineage[op.path]) \in Nat
      BY <2>1, <3>1, RouteFacts
    <3>3. /\ k + 1 \in DOMAIN Lineage[op.path] /\ Head(todo) = Lineage[op.path][k + 1]
          /\ Tail(todo) = SubSeq(Lineage[op.path], k + 2, Len(Lineage[op.path]))
      BY <2>1, <3>1, RouteFacts
    <3>4. k \in Nat
      BY <3>2
    <3> QED
      BY <3>3, <3>4
  <2>4. q \in DOMAIN cache
    BY <1>2 DEF NotFound
  <2>5. q \in Paths
    BY <2>4 DEF Inv, CacheOK
  <2>6. /\ cache' = Touched(cache, q)
        /\ \/ Ends
           \/ /\ todo' = Tail(todo) /\ UNCHANGED <<op, shown>>
              /\ scan' = NoScan \/ scan' = Scanning(q)
    BY <1>2 DEF Scanned
  <2> HIDE DEF q
  <2>7. Grown /\ DOMAIN cache' = DOMAIN cache
    BY <2>4, <2>6, TouchGrows DEF Inv
  <2>8. CASE Ends
    BY <2>7, <2>8, EndKeeps
  <2>9. CASE /\ todo' = Tail(todo) /\ UNCHANGED <<op, shown>>
             /\ scan' = NoScan \/ scan' = Scanning(q)
    <3>1. CacheOK' /\ AgeInv'
      BY <2>7, GrownKeeps DEF Inv
    <3>2. ScanInv'
      BY <2>5, <2>9, <3>1, ScanStarts DEF CacheOK
    <3>3. ASSUME scan' = Scanning(q)
          PROVE  /\ scan' \in [dir : Paths, pos : Nat, frag : Seq(Token)]
                 /\ scan'.dir \in DOMAIN cache' /\ Len(scan'.frag) < DirBuf
                 /\ \E i \in DOMAIN Lineage[op'.path] : Route(i)'
      <4>1. scan' \in [dir : Paths, pos : Nat, frag : Seq(Token)] /\ scan'.dir = q /\ Len(scan'.frag) < DirBuf
        BY <2>5, <3>3, ScanOf
      <4>2. k + 1 + 1 = k + 2
        BY <2>3
      <4>3. Route(k + 1)'
        BY <2>3, <2>9, <4>1, <4>2 DEF Route
      <4> QED
        BY <2>3, <2>4, <2>7, <2>9, <4>1, <4>3
    <3>4. OpInv'
      BY <2>1, <2>9, <3>3 DEF OpInv
    <3> QED
      BY <3>1, <3>2, <3>4
  <2> QED
    BY <2>6, <2>8, <2>9
<1> QED
  BY <1>1, <1>2

LEMMA ListingEndsKeep ==
  ASSUME Inv, EndOfListing \/ ListingFails
  PROVE  Inv'
<1>1. scan # NoScan /\ Scanned /\ UNCHANGED <<index, disc>>
  BY DEF EndOfListing, ListingFails
<1>2. CacheOK' /\ AgeInv' /\ OpInv' /\ ScanInv'
  BY <1>1, ScannedKeeps
<1>3. TransferDone(DirCmd, scan.pos, 0) \/ TransferFails(DirCmd, scan.pos)
  BY DEF EndOfListing, ListingFails
<1>4. StepInv'
  BY <1>3, SuccessAgrees, FailureForgets DEF Inv
<1>5. DirCmd \in Cmds /\ scan.pos \in Nat
  BY <1>1, ListingFacts
<1>6. DeviceOK'
  BY <1>3, <1>5, DeviceKept DEF Inv
<1> QED
  BY <1>2, <1>4, <1>6 DEF Inv

LEMMA ReadKeeps ==
  ASSUME Inv, ReadFails \/ \E n \in 0 .. MaxPos : ReadDone(n)
  PROVE  Inv'
<1>1. Ends /\ UNCHANGED <<cache, index, disc>>
  BY DEF ReadFails, ReadDone
<1>2. CacheOK' /\ AgeInv' /\ OpInv' /\ ScanInv'
  BY <1>1, EndKeeps
<1>3. PICK n \in Nat : TransferDone(<<"get", op.path>>, op.pos, n) \/ TransferFails(<<"get", op.path>>, op.pos)
  <2>1. CASE ReadFails
    <3>1. 0 \in Nat /\ TransferFails(<<"get", op.path>>, op.pos)
      BY <2>1 DEF ReadFails
    <3> QED
      BY <3>1
  <2>2. ASSUME NEW n \in 0 .. MaxPos, ReadDone(n)
        PROVE  n \in Nat /\ TransferDone(<<"get", op.path>>, op.pos, n)
    BY <2>2, HmcAssumption DEF ReadDone
  <2> QED
    BY <2>1, <2>2
<1>4. StepInv'
  BY <1>3, SuccessAgrees, FailureForgets DEF Inv
<1>5. <<"get", op.path>> \in Cmds /\ op.pos \in Nat
  BY DEF Inv, OpInv, Cmds
<1>6. DeviceOK'
  BY <1>3, <1>5, DeviceKept DEF Inv
<1> QED
  BY <1>2, <1>4, <1>6 DEF Inv

\* The next piece of a listing that is scanned without disturbance: it
\* continues what is kept of the last one, so that no line is lost between them
LEMMA PieceScans ==
  ASSUME Inv, scan # NoScan, clean, NEW n \in Nat \ {0}, UNCHANGED <<disc, op>>, Grown,
         NEW buf \in Seq(Token), buf # <<>>, Len(buf) = Len(scan.frag) + n, scan.pos + n <= Len(Text),
         \A i \in 1 .. Len(scan.frag) : buf[i] = scan.frag[i],
         \A i \in 1 .. n : buf[Len(scan.frag) + i] = Text[scan.pos + i],
         \A p \in Parsed(buf) : p \in DOMAIN cache' /\ cache'[p].disc = disc,
         shown' = shown \cup Parsed(buf),
         scan'.dir = scan.dir, scan'.pos = scan.pos + n, scan'.frag = Fragment(buf)
  PROVE  ScanInv'
<1> DEFINE f == Len(scan.frag)  g == Len(Fragment(buf))  pos == scan.pos  text == Text
           l == Lines[disc][scan.dir]
<1>1. /\ text \in Seq(Token) /\ Len(text) \in Nat /\ pos \in Nat /\ scan.dir \in Paths /\ disc \in Discs
  BY ListingFacts DEF Inv, CacheOK
<1>2. scan.frag \in Seq(Token) /\ f \in Nat
  BY DEF Inv, OpInv
<1>3. /\ pos <= Len(text) /\ f <= pos /\ (pos % 2 = 1 => f >= 1)
      /\ \A i \in 1 .. f : scan.frag[i] = text[pos - f + i]
      /\ \A j \in 1 .. Len(l) : 2 * j <= pos /\ l[j] \in Paths => l[j] \in Seen
  BY DEF Inv, ScanInv
<1>4. /\ Len(l) \in Nat /\ Len(text) = 2 * Len(l)
      /\ \A i \in 1 .. Len(text) : text[i][2] = 1 <=> i % 2 = 1
      /\ \A j \in 1 .. Len(l) : text[2 * j - 1] = <<l[j], 1>> /\ text[2 * j] = <<l[j], 2>>
  <2>1. l \in Seq((Paths \ {Root}) \cup {Junk})
    BY <1>1, TokenFacts
  <2>2. Len(l) \in Nat
    BY <2>1
  <2>3. text = Tokens(l)
    BY DEF Text
  <2> QED
    BY <1>1, <2>2, <2>3, TokenFacts, Zenon
<1>5. /\ Fragment(buf) \in Seq(Token) /\ g \in 0 .. 2 /\ g <= Len(buf)
      /\ \A i \in 1 .. g : Fragment(buf)[i] = buf[Len(buf) - g + i]
      /\ buf[Len(buf)][2] = 1 => g = 1
  BY FragmentFacts
<1>6. /\ Text' = text /\ Lines[disc'][scan'.dir] = l
      /\ scan'.pos = pos + n /\ scan'.frag = Fragment(buf) /\ Len(scan'.frag) = g
  BY DEF Text
<1>7. /\ Len(buf) = f + n /\ pos + n <= Len(text)
      /\ \A i \in 1 .. f : buf[i] = scan.frag[i]
      /\ \A i \in 1 .. n : buf[f + i] = text[pos + i]
  OBVIOUS
<1>8. Seen \subseteq Seen' /\ Parsed(buf) \cap DOMAIN cache' \subseteq Seen'
  BY DEF Seen, Grown
<1>9. Parsed(buf) \subseteq Seen'
  BY <1>8
<1> HIDE DEF f, g, pos, text, l
<1>10. ASSUME NEW i \in 1 .. (f + n) PROVE buf[i] = text[pos - f + i]
  <2>1. CASE i \in 1 .. f
    BY <1>3, <1>7, <2>1
  <2>2. CASE i \notin 1 .. f
    <3>1. i - f \in 1 .. n /\ f + (i - f) = i /\ pos + (i - f) = pos - f + i
      BY <1>1, <1>2, <2>2
    <3>2. buf[f + (i - f)] = text[pos + (i - f)]
      BY <1>7, <3>1
    <3> QED
      BY <3>1, <3>2
  <2> QED
    BY <2>1, <2>2
<1>11. \A i \in 1 .. g : Fragment(buf)[i] = text[(pos + n) - g + i]
  <2> TAKE i \in 1 .. g
  <2>1. f + n - g + i \in 1 .. (f + n) /\ pos - f + (f + n - g + i) = (pos + n) - g + i
    BY <1>1, <1>2, <1>5, <1>7
  <2>2. Fragment(buf)[i] = buf[f + n - g + i]
    <3>1. Len(buf) - g + i = f + n - g + i
      <4>1. Len(buf) = f + n
        BY <1>7
      <4>2. f \in Int /\ n \in Int /\ g \in Int /\ i \in Int
        BY <1>2, <1>5
      <4> HIDE DEF f, g
      <4> QED
        BY <4>1, <4>2
    <3>2. Fragment(buf)[i] = buf[Len(buf) - g + i]
      BY <1>5
    <3> QED
      BY <3>1, <3>2
  <2>3. buf[f + n - g + i] = text[pos - f + (f + n - g + i)]
    BY <1>10, <2>1
  <2> QED
    BY <2>1, <2>2, <2>3
<1>12. pos + n <= Len(text) /\ g <= pos + n
  BY <1>1, <1>2, <1>3, <1>5, <1>7
<1>13. (pos + n) % 2 = 1 => g >= 1
  <2>1. f + n \in 1 .. (f + n) /\ pos - f + (f + n) = pos + n /\ pos + n \in 1 .. Len(text)
    BY <1>1, <1>2, <1>12
  <2>2. buf[Len(buf)] = text[pos + n]
    BY <1>7, <1>10, <2>1
  <2>3. (pos + n) % 2 = 1 => g = 1
    BY <1>4, <1>5, <2>1, <2>2
  <2> QED
    BY <2>3
<1>14. ASSUME NEW j \in 1 .. Len(l), 2 * j <= pos + n, l[j] \in Paths PROVE l[j] \in Seen'
  <2>1. CASE 2 * j <= pos
    BY <1>3, <1>8, <1>14, <2>1
  <2>2. CASE 2 * j > pos
    <3> DEFINE i == 2 * j - 1 - (pos - f)
    <3>1. i >= 1
      <4>1. CASE 2 * j >= pos + 2
        BY <1>1, <1>2, <1>4, <4>1
      <4>2. CASE 2 * j = pos + 1
        <5>1. pos % 2 = 1
          <6>1. j \in Nat /\ j >= 1 /\ pos = 2 * (j - 1) + 1
            BY <1>1, <1>4, <4>2
          <6> QED
            BY <6>1
        <5>2. f >= 1
          BY <1>3, <5>1
        <5> QED
          BY <1>1, <1>2, <1>4, <4>2, <5>2
      <4> QED
        BY <1>1, <1>4, <2>2, <4>1, <4>2
    <3>2. /\ i \in 1 .. (f + n) /\ i + 1 \in 1 .. (f + n) /\ i \in 1 .. (f + n - 1)
          /\ pos - f + i = 2 * j - 1 /\ pos - f + (i + 1) = 2 * j
      BY <1>1, <1>2, <1>4, <1>14, <3>1
    <3> HIDE DEF i
    <3>3. buf[i] = <<l[j], 1>> /\ buf[i + 1] = <<l[j], 2>>
      <4>1. buf[i] = text[pos - f + i] /\ buf[i + 1] = text[pos - f + (i + 1)]
        BY <1>10, <3>2
      <4>2. text[2 * j - 1] = <<l[j], 1>> /\ text[2 * j] = <<l[j], 2>>
        BY <1>4
      <4> QED
        BY <3>2, <4>1, <4>2
    <3>4. i \in 1 .. (Len(buf) - 1)
      <4>1. Len(buf) = f + n
        BY <1>7
      <4> QED
        BY <3>2, <4>1
    <3>5. l[j] \in Parsed(buf)
      BY <1>14, <3>3, <3>4 DEF Parsed
    <3> QED
      BY <1>9, <3>5
  <2> QED
    BY <1>1, <1>4, <2>1, <2>2
<1> QED
  <2>1. scan'.pos <= Len(Text') /\ Len(scan'.frag) <= scan'.pos /\ (scan'.pos % 2 = 1 => Len(scan'.frag) >= 1)
    BY <1>6, <1>12, <1>13
  <2>2. \A i \in 1 .. Len(scan'.frag) : scan'.frag[i] = Text'[scan'.pos - Len(scan'.frag) + i]
    BY <1>6, <1>11, Zenon
  <2>3. \A j \in 1 .. Len(Lines[disc'][scan'.dir]) :
          2 * j <= scan'.pos /\ Lines[disc'][scan'.dir][j] \in Paths => Lines[disc'][scan'.dir][j] \in Seen'
    BY <1>6, <1>14
  <2> QED
    BY <2>1, <2>2, <2>3 DEF ScanInv

LEMMA PieceKeeps ==
  ASSUME Inv, NEW n \in 1 .. DirBuf, Piece(n)
  PROVE  Inv'
<1>1. /\ scan # NoScan /\ UNCHANGED <<index, due, disc, op, todo, clean>>
      /\ TransferDone(DirCmd, scan.pos, n)
  BY DEF Piece
<1>2. n \in Nat \ {0} /\ DirBuf \in Nat /\ DirBuf >= 3
  BY HmcAssumption
<1>3. PICK buf \in Seq(Token) :
           /\ buf # <<>> /\ Len(buf) = Len(scan.frag) + n /\ scan.pos + n <= Len(Text)
           /\ \A i \in 1 .. Len(scan.frag) : buf[i] = scan.frag[i]
           /\ \A i \in 1 .. n : buf[Len(scan.frag) + i] = Text[scan.pos + i]
           /\ cache' = Refreshed(Parsed(buf)) /\ shown' = shown \cup Parsed(buf)
           /\ scan' = [scan EXCEPT !.pos = scan.pos + n, !.frag = Fragment(buf)]
  BY PieceFacts, Zenon
<1>4. scan \in [dir : Paths, pos : Nat, frag : Seq(Token)] /\ scan.dir \in DOMAIN cache
  BY <1>1 DEF Inv, OpInv
<1>5. Fragment(buf) \in Seq(Token) /\ Len(Fragment(buf)) < DirBuf
  <2> DEFINE g == Len(Fragment(buf))
  <2>1. Fragment(buf) \in Seq(Token) /\ g \in 0 .. 2
    BY <1>3, FragmentFacts
  <2> HIDE DEF g
  <2>2. g < DirBuf
    BY <1>2, <2>1
  <2> QED
    BY <2>1, <2>2 DEF g
<1>6. /\ scan' \in [dir : Paths, pos : Nat, frag : Seq(Token)]
      /\ scan'.dir = scan.dir /\ scan'.pos = scan.pos + n /\ scan'.frag = Fragment(buf)
  <2> DEFINE frag == Fragment(buf)  pos == scan.pos + n
  <2>1. scan' = [scan EXCEPT !.pos = pos, !.frag = frag] /\ frag \in Seq(Token)
    BY <1>3, <1>5
  <2>2. pos \in Nat
    BY <1>2, <1>4
  <2> HIDE DEF frag, pos
  <2>3. scan' \in [dir : Paths, pos : Nat, frag : Seq(Token)] /\ scan'.dir = scan.dir /\ scan'.pos = pos /\ scan'.frag = frag
    BY <1>4, <2>1, <2>2
  <2> QED
    BY <2>3 DEF frag, pos
<1>7. Parsed(buf) \in SUBSET Paths
  BY DEF Parsed
<1>8. Grown /\ \A p \in Parsed(buf) : p \in DOMAIN cache' /\ cache'[p].disc = disc
  BY <1>3, <1>7, RefreshGrows DEF Inv
<1>9. CacheOK' /\ AgeInv'
  BY <1>1, <1>8, GrownKeeps DEF Inv
<1>10. StepInv'
  BY <1>1, SuccessAgrees DEF Inv
<1>11. DeviceOK'
  <2>1. DirCmd \in Cmds /\ scan.pos \in Nat
    BY <1>1, ListingFacts
  <2> QED
    BY <1>1, <1>2, <2>1, DeviceKept DEF Inv
<1>12. OpInv'
  <2>1. PICK k \in DOMAIN Lineage[op.path] : Route(k)
    BY <1>1 DEF Inv, OpInv
  <2>2. Route(k)'
    BY <1>1, <1>6, <2>1 DEF Route
  <2>3. op.path \in Paths /\ op.pos \in Nat /\ op # NoOp
    BY <1>1 DEF Inv, OpInv
  <2>4. scan'.dir \in DOMAIN cache'
    BY <1>4, <1>6, <1>8 DEF Grown
  <2> QED
    BY <1>1, <1>5, <1>6, <2>2, <2>3, <2>4 DEF OpInv
<1>13. ScanInv'
  <2>1. CASE clean
    BY <1>1, <1>2, <1>3, <1>6, <1>8, <2>1, PieceScans
  <2>2. CASE ~ clean
    BY <1>1, <2>2 DEF ScanInv
  <2> QED
    BY <2>1, <2>2
<1> QED
  BY <1>9, <1>10, <1>11, <1>12, <1>13 DEF Inv

LEMMA InvKept == Inv /\ [Next]_vars => Inv'
<1> SUFFICES ASSUME Inv, [Next]_vars PROVE Inv'
  OBVIOUS
<1>0. Dirs \subseteq Paths /\ MaxPos \in Nat
  BY HmcAssumption DEF Dirs, Range
<1>1. CASE Request
  <2>1. PICK kind \in {"getattr", "readdir", "read"}, p \in Paths, pos \in 0 .. MaxPos : Begin(kind, p, pos)
    BY <1>0, <1>1 DEF Request
  <2> QED
    BY <1>0, <2>1, BeginKeeps
<1>2. CASE Work
  BY <1>2, PieceKeeps, ListingEndsKeep, ReadKeeps DEF Work
<1>3. CASE Tick
  BY <1>3, TickKeeps
<1>4. CASE Aging
  BY <1>4, AgingStepKeeps
<1>5. CASE \E d \in Discs : Exchange(d)
  BY <1>5, ExchangeKeeps
<1>6. CASE Mount
  BY <1>6, MountKeeps
<1>7. CASE UNCHANGED vars
  <2>1. UNCHANGED <<cache, index, due, disc, dev, drv, op, todo, scan, shown, clean>>
    BY <1>7 DEF vars
  <2>2. StepInv' /\ DeviceOK' /\ CacheOK'
    BY <2>1 DEF Inv, StepInv, DeviceOK, CacheOK, Place, InStep
  <2>3. AgeInv' /\ OpInv'
    BY <2>1 DEF Inv, AgeInv, Ahead, OpInv, Route
  <2>4. ScanInv'
    BY <2>1 DEF Inv, ScanInv, Text, Seen
  <2> QED
    BY <2>2, <2>3, <2>4 DEF Inv
<1> QED
  BY <1>1, <1>2, <1>3, <1>4, <1>5, <1>6, <1>7 DEF Next

LEMMA InitHolds == Init => Inv
<1> SUFFICES ASSUME Init PROVE Inv
  OBVIOUS
<1>1. Root \in Paths /\ Ctmo \in Nat /\ TableSize \in Nat \ {0}
  BY HmcAssumption
<1>2. DOMAIN cache = {Root} /\ cache[Root] = [disc |-> NoCmd, left |-> Ctmo, late |-> 0] /\ cache \in [{Root} -> Entry]
  BY <1>1 DEF Init, OnlyRoot, Entry
<1>3. CacheOK /\ AgeInv
  BY <1>1, <1>2 DEF Init, CacheOK, AgeInv
<1>4. StepInv /\ DeviceOK
  BY DEF Init, StepInv, Place, InStep, DeviceOK
<1>5. OpInv /\ ScanInv
  BY <1>1 DEF Init, OpInv, ScanInv, NoOp
<1> QED
  BY <1>3, <1>4, <1>5 DEF Inv

LEMMA InvAlways == Spec => []Inv
  BY InitHolds, InvKept, PTL DEF Spec

LEMMA InvImpliesCacheInv == Inv => CacheInv
<1> SUFFICES ASSUME Inv PROVE CacheInv
  OBVIOUS
<1>0. TableSize \in Nat \ {0} /\ Garbage \in Nat \ {0} /\ DirBuf \in Nat /\ DirBuf >= 3
  BY HmcAssumption
<1>1. \A p \in DOMAIN cache : cache[p].disc \in Discs \cup {NoCmd} /\ cache[p].left \in 0 .. Ctmo /\ cache[p].late \in Nat
  BY DEF Inv, CacheOK, Entry
<1>2. Len(scan.frag) < DirBuf
  <2>1. CASE scan = NoScan
    <3>1. scan.frag = <<>>
      BY <2>1 DEF NoScan
    <3> QED
      BY <1>0, <3>1
  <2>2. CASE scan # NoScan
    BY <2>2 DEF Inv, OpInv
  <2> QED
    BY <2>1, <2>2
<1>3. TypeOK
  BY <1>1, <1>2 DEF Inv, TypeOK, CacheOK, DeviceOK
<1>4. ScanHolds
  BY DEF Inv, OpInv, ScanHolds
<1>5. ASSUME NEW p \in DOMAIN cache PROVE cache[p].late <= (TableSize - 1) \div Garbage
  <2> DEFINE a == cache[p].late  q == (TableSize - 1) \div Garbage
  <2>1. a \in Nat /\ p \in Paths
    BY <1>1 DEF Inv, CacheOK
  <2>2. a * Garbage <= TableSize - 1
    <3>1. Ahead(p) \in 0 .. (TableSize - 1)
      BY <2>1, RoundFacts DEF Inv, CacheOK
    <3>2. CASE p = Root
      <4>1. a = 0
        BY <3>2 DEF Inv, AgeInv
      <4> QED
        BY <1>0, <4>1
    <3>3. CASE p # Root
      <4>1. a * Garbage + Ahead(p) <= TableSize - 1
        BY <3>3 DEF Inv, AgeInv
      <4>2. a * Garbage \in Nat
        BY <1>0, <2>1
      <4> HIDE DEF a
      <4> QED
        BY <1>0, <3>1, <4>1, <4>2
    <3> QED
      BY <3>2, <3>3
  <2> HIDE DEF a
  <2>3. a <= q
    BY <1>0, <2>1, <2>2, DivBound
  <2> QED
    BY <2>3 DEF a
<1>6. GoneInTime
  BY <1>5 DEF GoneInTime
<1> QED
  BY <1>3, <1>4, <1>6 DEF CacheInv

\* The cache of attributes, for all DVDs, trees and sizes of the table: the
\* directory that is scanned stays in it, and every other entry that nobody
\* looks up is gone after its time and at most (TableSize - 1) \div Garbage
\* rounds of the aging thread.
THEOREM CacheAlways == Spec => []CacheInv
  BY InvAlways, InvImpliesCacheInv, PTL

-----------------------------------------------------------------------------
(* What a scan that was not disturbed has found. *)

\* At the end of the listing there is no line left that was not seen
LEMMA AllSeen ==
  ASSUME Inv, EndOfListing, clean, NEW p \in Paths, p \in Range(Lines[disc][scan.dir])
  PROVE  p \in Seen
<1> DEFINE l == Lines[disc][scan.dir]
<1>1. scan # NoScan /\ Listing(At(DirCmd, scan.pos)) = <<>>
  BY DEF EndOfListing
<1>2. /\ Text \in Seq(Token) /\ Len(Text) \in Nat /\ scan.pos \in Nat /\ scan.dir \in Paths /\ disc \in Discs
      /\ SubSeq(Text, scan.pos + 1, Len(Text)) = <<>>
  BY <1>1, ListingFacts DEF Inv, CacheOK
<1>3. l \in Seq((Paths \ {Root}) \cup {Junk}) /\ Len(Text) = 2 * Len(l)
  BY <1>2, TokenFacts DEF Text
<1>4. scan.pos >= Len(Text)
  <2> DEFINE a == scan.pos + 1  z == Len(Text)
  <2>1. a \in Int /\ z \in Int /\ \A i \in a .. z : Text[i] \in Token
    BY <1>2
  <2>2. SubSeq(Text, a, z) = <<>>
    BY <1>2
  <2> HIDE DEF a, z
  <2>3. Len(SubSeq(Text, a, z)) = IF a <= z THEN z - a + 1 ELSE 0
    BY <2>1, SubSeqProperties
  <2>4. ~(a <= z)
    BY <2>1, <2>2, <2>3
  <2> QED
    BY <1>2, <2>4 DEF a, z
<1>5. Len(l) \in Nat /\ DOMAIN l = 1 .. Len(l)
  BY <1>3
<1>6. PICK j \in 1 .. Len(l) : l[j] = p
  BY <1>5 DEF Range
<1>7. 2 * j <= scan.pos
  BY <1>2, <1>3, <1>4, <1>5
<1> QED
  BY <1>1, <1>6, <1>7 DEF Inv, ScanInv

\* A file of the DVD is listed by its directory, which is of the DVD as well
LEMMA Listed ==
  ASSUME NEW d, NEW p \in On(d), NEW k \in Nat \ {0}, k + 1 \in DOMAIN Lineage[p]
  PROVE  Lineage[p][k + 1] \in Paths /\ Lineage[p][k + 1] \in Range(Lines[d][Lineage[p][k]])
<1>1. p \in Paths /\ Lineage[p] \in Seq(Paths)
  BY LineageFacts DEF On
<1>2. k + 1 \in 2 .. Len(Lineage[p]) /\ k + 1 - 1 = k
  BY <1>1
<1>3. Lineage[p][k + 1] \in Range(Lines[d][Lineage[p][k + 1 - 1]])
  BY <1>2 DEF On
<1> QED
  BY <1>1, <1>2, <1>3

LEMMA StepFinds == Inv /\ EndOfListing /\ clean /\ NotFound => op.path \notin On(disc)
<1> SUFFICES ASSUME Inv, EndOfListing, clean, NotFound, op.path \in On(disc) PROVE FALSE
  OBVIOUS
<1>1. op.path \in Paths
  BY DEF Inv, OpInv
<1>2. PICK k \in DOMAIN Lineage[op.path] : Route(k)
  BY DEF Inv, OpInv, EndOfListing
<1>3. todo = SubSeq(Lineage[op.path], k + 1, Len(Lineage[op.path])) /\ todo # <<>> /\ scan.dir = Lineage[op.path][k]
  BY <1>2 DEF Route, NotFound
<1>4. k \in 1 .. Len(Lineage[op.path]) /\ Len(Lineage[op.path]) \in Nat
  BY <1>1, <1>3, RouteFacts
<1>5. k + 1 \in DOMAIN Lineage[op.path] /\ Head(todo) = Lineage[op.path][k + 1]
  BY <1>1, <1>3, RouteFacts
<1>6. k \in Nat \ {0}
  BY <1>4
<1>7. Head(todo) \in Paths /\ Head(todo) \in Range(Lines[disc][scan.dir])
  BY <1>3, <1>5, <1>6, Listed
<1>8. Head(todo) \in Seen
  BY <1>7, AllSeen
<1> QED
  BY <1>8 DEF Seen, NotFound

\* hmcdrv_file_get: a path that is on the DVD is found, whatever has expired in
\* the cache and wherever the pieces of the listings end, unless there was an
\* error or the DVD was exchanged meanwhile.
THEOREM FindsFiles == Spec => FoundIfThere
  BY InvAlways, StepFinds, PTL DEF FoundIfThere

LEMMA StepShows ==
  Inv /\ EndOfListing /\ clean /\ todo = <<>> /\ op.path \in On(disc) =>
    \A p \in On(disc) \ {Root} : Parent[p] = op.path => p \in shown /\ cache[p].disc = disc
<1> SUFFICES ASSUME Inv, EndOfListing, clean, todo = <<>>, op.path \in On(disc),
                    NEW p \in On(disc) \ {Root}, Parent[p] = op.path
             PROVE  p \in shown /\ cache[p].disc = disc
  OBVIOUS
<1>1. op.path \in Paths /\ p \in Paths
  BY DEF Inv, OpInv, On
<1>2. PICK k \in DOMAIN Lineage[op.path] : Route(k)
  BY DEF Inv, OpInv, EndOfListing
<1>3. todo = SubSeq(Lineage[op.path], k + 1, Len(Lineage[op.path])) /\ scan.dir = Lineage[op.path][k]
  BY <1>2 DEF Route
<1>4. k = Len(Lineage[op.path])
  BY <1>1, <1>3, RouteFacts
<1>5. scan.dir = op.path
  BY <1>1, <1>3, <1>4, LineageFacts
<1> DEFINE m == Len(Lineage[p])
<1>6. Lineage[p] \in Seq(Paths) /\ m \in Nat \ {0} /\ Lineage[p][1] = Root /\ Lineage[p][m] = p
  BY <1>1, LineageFacts
<1>7. m # 1
  BY <1>6
<1>8. m - 1 \in Nat \ {0} /\ (m - 1) + 1 = m /\ m \in DOMAIN Lineage[p] /\ m \in 2 .. m
  BY <1>6, <1>7
<1>9. Lineage[p][m - 1] = Parent[Lineage[p][m]]
  BY <1>1, <1>8, LineageFacts
<1> HIDE DEF m
<1>10. Lineage[p][(m - 1) + 1] \in Range(Lines[disc][Lineage[p][m - 1]])
  BY <1>8, Listed
<1>11. p \in Range(Lines[disc][scan.dir])
  BY <1>5, <1>6, <1>8, <1>9, <1>10
<1>12. p \in Seen
  BY <1>1, <1>11, AllSeen
<1> QED
  BY <1>12 DEF Seen

\* hmcdrv_fuse_readdir: in the same case a directory is shown with all files
\* that it has on the DVD, and with their attributes of this DVD, however the
\* listing is cut in pieces and whatever the cache has of another one.
THEOREM ShowsFiles == Spec => ShowsAll
  BY InvAlways, StepShows, PTL DEF ShowsAll
=============================================================================
