--------------------------- MODULE IucvTermProofs ---------------------------
(***************************************************************************)
(* A terminal session copies every byte once and in order, for buffers,    *)
(* outputs and numbers of keys of any size: what IucvTerm promises of its  *)
(* sockets, that it implements a byte pipe in each direction, and that a   *)
(* failure is shown to the user.                                           *)
(***************************************************************************)
EXTENDS IucvTerm, Integers, Sequences, FiniteSetsExt, Functions, SequenceTheorems, FiniteSetTheorems, TLAPS

-----------------------------------------------------------------------------
(* Sets, numbers and sequences.                                            *)

\* A set of natural numbers that is not empty has a least element.
LEMMA LeastNat ==
  ASSUME NEW T \in SUBSET Nat, T # {}
  PROVE  \E m \in T : \A k \in T : m <= k
<1> DEFINE R == {ss \in Nat \X Nat : ss[1] < ss[2]}
<1>1. IsWellFoundedOn(R, Nat)
  BY NatLessThanWellFounded, Zenon DEF OpToRel
<1>2. PICK x \in T : \A y \in T : ~(<<y, x>> \in R)
  BY <1>1, WFMin
<1>3. ASSUME NEW y \in T PROVE x <= y
  <2>1. <<y, x>> \in Nat \X Nat /\ <<y, x>>[1] = y /\ <<y, x>>[2] = x
    OBVIOUS
  <2>2. ~ (y < x)
    BY <1>2, <2>1
  <2> QED
    BY <2>2
<1> QED
  BY <1>3

\* Induction: a set with 0 and with the successors of its elements has all
\* natural numbers.
LEMMA Induct ==
  ASSUME NEW S, 0 \in S, \A n \in Nat : n \in S => n + 1 \in S
  PROVE  Nat \subseteq S
<1> SUFFICES ASSUME Nat \ S # {} PROVE FALSE
  OBVIOUS
<1>1. PICK m \in Nat \ S : \A k \in Nat \ S : m <= k
  BY LeastNat
<1>2. m # 0 /\ m - 1 \in Nat /\ m - 1 \notin Nat \ S
  BY <1>1
<1> QED
  BY <1>1, <1>2

\* A prefix of a sequence is a sequence.
LEMMA PrefixFacts ==
  ASSUME NEW S, NEW s \in Seq(S), NEW n \in 0..Len(s)
  PROVE  /\ SubSeq(s, 1, n) \in Seq(S)
         /\ Len(SubSeq(s, 1, n)) = n
         /\ \A i \in 1..n : SubSeq(s, 1, n)[i] = s[i]
<1>1. \A i \in 1..n : s[i] \in S
  OBVIOUS
<1> QED
  BY <1>1, SubSeqProperties

\* The first part of a concatenation is the first sequence.
LEMMA PrefixOfConcat ==
  ASSUME NEW S, NEW r \in Seq(S), NEW s \in Seq(S)
  PROVE  SubSeq(r \o s, 1, Len(r)) = r
<1>1. /\ r \o s \in Seq(S) /\ Len(r \o s) = Len(r) + Len(s)
      /\ \A i \in 1..Len(r) : (r \o s)[i] = r[i]
  BY ConcatProperties
<1>2. Len(r) \in 0..Len(r \o s)
  BY <1>1
<1>3. /\ SubSeq(r \o s, 1, Len(r)) \in Seq(S)
      /\ Len(SubSeq(r \o s, 1, Len(r))) = Len(r)
      /\ \A i \in 1..Len(r) : SubSeq(r \o s, 1, Len(r))[i] = r[i]
  BY <1>1, <1>2, PrefixFacts
<1> QED
  BY <1>3, SeqEqual

-----------------------------------------------------------------------------
(* A sequence of sequences, put together. *)

\* f has the first sequences put together, for every number of them
Run(f, qs) == f = [i \in 1 .. Len(qs) |-> IF i = 1 THEN qs[i] ELSE f[i - 1] \o qs[i]]

LEMMA RunExists ==
  ASSUME NEW S, NEW qs \in Seq(Seq(S))
  PROVE  \E f \in [1 .. Len(qs) -> Seq(S)] : Run(f, qs)
<1> DEFINE Sum(f, i) == IF i = 1 THEN qs[i] ELSE f[i - 1] \o qs[i]
           Done(n) == \E f \in [1 .. n -> Seq(S)] : \A i \in 1 .. n : f[i] = Sum(f, i)
           N == {n \in Nat : n <= Len(qs) => Done(n)}
<1>0. Len(qs) \in Nat /\ \A i \in 1 .. Len(qs) : qs[i] \in Seq(S)
  OBVIOUS
<1>1. 0 \in N
  <2>1. [i \in 1 .. 0 |-> qs] \in [1 .. 0 -> Seq(S)] /\ \A i \in 1 .. 0 : FALSE
    OBVIOUS
  <2> QED
    BY <2>1
<1>2. ASSUME NEW n \in Nat, n \in N PROVE n + 1 \in N
  <2> SUFFICES ASSUME n + 1 <= Len(qs)
               PROVE  Done(n + 1)
    <3>1. n + 1 \in Nat
      OBVIOUS
    <3> HIDE DEF Done
    <3> QED
      BY <3>1
  <2>1. n <= Len(qs) /\ n + 1 \in 1 .. Len(qs)
    BY <1>0
  <2>2. PICK f \in [1 .. n -> Seq(S)] : \A i \in 1 .. n : f[i] = Sum(f, i)
    BY <1>2, <2>1
  <2> DEFINE h == [i \in 1 .. (n + 1) |-> IF i = n + 1 THEN Sum(f, i) ELSE f[i]]
  <2>3. Sum(f, n + 1) \in Seq(S)
    <3>1. CASE n = 0
      BY <1>0, <2>1, <3>1
    <3>2. CASE n # 0
      <4>1. f[n] \in Seq(S) /\ qs[n + 1] \in Seq(S) /\ (n + 1) - 1 = n /\ n + 1 # 1
        BY <1>0, <2>1, <3>2
      <4>2. f[n] \o qs[n + 1] \in Seq(S)
        BY <4>1, ConcatProperties
      <4> QED
        BY <4>1, <4>2
    <3> QED
      BY <3>1, <3>2
  <2>4. h \in [1 .. (n + 1) -> Seq(S)]
    <3>1. \A i \in 1 .. (n + 1) : i # n + 1 => i \in 1 .. n
      OBVIOUS
    <3> QED
      BY <2>3, <3>1
  <2>5. ASSUME NEW i \in 1 .. (n + 1) PROVE h[i] = Sum(h, i)
    <3>1. i # 1 => i - 1 \in 1 .. (n + 1) /\ i - 1 # n + 1
      OBVIOUS
    <3>2. i # 1 => h[i - 1] = f[i - 1]
      BY <3>1
    <3>3. h[i] = Sum(f, i)
      <4>1. CASE i = n + 1
        BY <4>1
      <4>2. CASE i # n + 1
        <5>1. i \in 1 .. n
          BY <4>2
        <5> QED
          BY <2>2, <4>2, <5>1
      <4> QED
        BY <4>1, <4>2
    <3> HIDE DEF h
    <3> QED
      BY <3>2, <3>3
  <2> HIDE DEF h
  <2> QED
    BY <2>4, <2>5
<1>3. Len(qs) \in N
  BY <1>0, <1>1, <1>2, Induct
<1>4. PICK f \in [1 .. Len(qs) -> Seq(S)] : \A i \in 1 .. Len(qs) : f[i] = Sum(f, i)
  BY <1>0, <1>3
<1>5. f = [i \in 1 .. Len(qs) |-> Sum(f, i)]
  BY <1>4
<1> QED
  BY <1>5 DEF Run

LEMMA FlattenRun ==
  ASSUME NEW S, NEW qs \in Seq(Seq(S)), qs # <<>>
  PROVE  \E f : Run(f, qs) /\ FlattenSeq(qs) = f[Len(qs)]
<1>1. Len(qs) # 0
  BY EmptySeq
<1>2. FlattenSeq(qs) = (CHOOSE f : Run(f, qs))[Len(qs)]
  BY <1>1 DEF FlattenSeq, Run
<1>3. \E f : Run(f, qs)
  BY RunExists
<1> QED
  BY <1>2, <1>3

\* What f has at each place
Steps(S, f, qs) == /\ \A i \in 1 .. Len(qs) : f[i] \in Seq(S)
                   /\ Len(qs) >= 1 => f[1] = qs[1]
                   /\ \A i \in 2 .. Len(qs) : f[i] = f[i - 1] \o qs[i]

LEMMA RunAt ==
  ASSUME NEW S, NEW qs \in Seq(Seq(S)), NEW f, Run(f, qs)
  PROVE  Steps(S, f, qs)
<1>0. Len(qs) \in Nat /\ \A i \in 1 .. Len(qs) : qs[i] \in Seq(S)
  OBVIOUS
<1>1. \A i \in 1 .. Len(qs) : f[i] = IF i = 1 THEN qs[i] ELSE f[i - 1] \o qs[i]
  BY DEF Run
<1>2. Len(qs) >= 1 => f[1] = qs[1]
  <2>1. Len(qs) >= 1 => 1 \in 1 .. Len(qs)
    BY <1>0
  <2> QED
    BY <1>1, <2>1
<1>3. \A i \in 2 .. Len(qs) : f[i] = f[i - 1] \o qs[i]
  <2>1. \A i \in 2 .. Len(qs) : i \in 1 .. Len(qs) /\ i # 1
    BY <1>0
  <2> QED
    BY <1>1, <2>1
<1> DEFINE N == {n \in Nat : n \in 1 .. Len(qs) => f[n] \in Seq(S)}
<1>4. 0 \in N
  BY <1>0
<1>5. ASSUME NEW n \in Nat, n \in N PROVE n + 1 \in N
  <2> SUFFICES ASSUME n + 1 \in 1 .. Len(qs) PROVE f[n + 1] \in Seq(S)
    OBVIOUS
  <2>1. CASE n = 0
    BY <1>0, <1>2, <2>1
  <2>2. CASE n # 0
    <3>1. n + 1 \in 2 .. Len(qs) /\ (n + 1) - 1 = n /\ f[n] \in Seq(S) /\ qs[n + 1] \in Seq(S)
      BY <1>0, <1>5, <2>2
    <3>2. f[n + 1] = f[n] \o qs[n + 1]
      BY <1>3, <3>1
    <3> QED
      BY <3>1, <3>2, ConcatProperties
  <2> QED
    BY <2>1, <2>2
<1>6. Nat \subseteq N
  BY <1>4, <1>5, Induct
<1>7. \A i \in 1 .. Len(qs) : f[i] \in Seq(S)
  BY <1>0, <1>6
<1> QED
  BY <1>2, <1>3, <1>7 DEF Steps

LEMMA FlattenEmpty == FlattenSeq(<<>>) = <<>>
  BY DEF FlattenSeq

LEMMA FlattenType ==
  ASSUME NEW S, NEW qs \in Seq(Seq(S))
  PROVE  FlattenSeq(qs) \in Seq(S)
<1>1. CASE qs = <<>>
  BY <1>1, FlattenEmpty, EmptySeq, Zenon
<1>2. CASE qs # <<>>
  <2>1. PICK f : Run(f, qs) /\ FlattenSeq(qs) = f[Len(qs)]
    BY <1>2, FlattenRun
  <2>2. Len(qs) \in 1 .. Len(qs)
    BY <1>2, EmptySeq
  <2> QED
    <3>1. \A i \in 1 .. Len(qs) : f[i] \in Seq(S)
      BY <2>1, RunAt DEF Steps
    <3> QED
      BY <2>1, <2>2, <3>1
<1> QED
  BY <1>1, <1>2

\* The last sequence comes last
LEMMA FlattenAppend ==
  ASSUME NEW S, NEW qs \in Seq(Seq(S)), NEW e \in Seq(S)
  PROVE  FlattenSeq(Append(qs, e)) = FlattenSeq(qs) \o e
<1> DEFINE ps == Append(qs, e)  n == Len(qs)
<1>1. /\ ps \in Seq(Seq(S)) /\ ps # <<>> /\ Len(ps) = n + 1 /\ n \in Nat
      /\ \A i \in 1 .. n : ps[i] = qs[i]
      /\ ps[n + 1] = e
  BY AppendProperties
<1> HIDE DEF ps, n
<1>2. PICK f : Run(f, ps) /\ FlattenSeq(ps) = f[n + 1]
  BY <1>1, FlattenRun
<1>3. /\ f[1] = ps[1] /\ \A i \in 2 .. (n + 1) : f[i] = f[i - 1] \o ps[i]
  <2>1. /\ Len(ps) >= 1 => f[1] = ps[1]
        /\ \A i \in 2 .. Len(ps) : f[i] = f[i - 1] \o ps[i]
    <3>1. Steps(S, f, ps)
      BY <1>1, <1>2, RunAt
    <3> QED
      BY <3>1 DEF Steps
  <2>2. Len(ps) >= 1 /\ Len(ps) = n + 1
    BY <1>1
  <2> QED
    BY <2>1, <2>2
<1>4. CASE qs = <<>>
  <2>1. n = 0 /\ FlattenSeq(qs) = <<>>
    BY <1>4, FlattenEmpty DEF n
  <2>2. FlattenSeq(ps) = e
    BY <1>1, <1>2, <1>3, <2>1
  <2>3. <<>> \o e = e
    BY ConcatEmptySeq
  <2> QED
    BY <2>1, <2>2, <2>3 DEF ps
<1>5. CASE qs # <<>>
  <2>1. PICK g : Run(g, qs) /\ FlattenSeq(qs) = g[n]
    BY <1>5, FlattenRun DEF n
  <2>2. /\ n >= 1 => g[1] = qs[1]
        /\ \A i \in 2 .. n : g[i] = g[i - 1] \o qs[i]
    <3>1. Steps(S, g, qs)
      BY <2>1, RunAt
    <3> QED
      BY <3>1 DEF Steps, n
  <2>3. n >= 1
    BY <1>5, EmptySeq DEF n
  <2> DEFINE N == {k \in Nat : k \in 1 .. n => f[k] = g[k]}
  <2>4. 0 \in N
    OBVIOUS
  <2>5. ASSUME NEW k \in Nat, k \in N PROVE k + 1 \in N
    <3> SUFFICES ASSUME k + 1 \in 1 .. n PROVE f[k + 1] = g[k + 1]
      OBVIOUS
    <3>1. CASE k = 0
      BY <1>1, <1>3, <2>2, <2>3, <3>1
    <3>2. CASE k # 0
      <4>1. k + 1 \in 2 .. n /\ k + 1 \in 2 .. (n + 1) /\ (k + 1) - 1 = k /\ f[k] = g[k]
        BY <1>1, <2>5, <3>2
      <4>2. f[k + 1] = f[k] \o ps[k + 1] /\ g[k + 1] = g[k] \o qs[k + 1] /\ ps[k + 1] = qs[k + 1]
        BY <1>1, <1>3, <2>2, <4>1
      <4> QED
        BY <4>1, <4>2
    <3> QED
      BY <3>1, <3>2
  <2>6. n \in N
    BY <1>1, <2>4, <2>5, Induct
  <2>7. f[n] = g[n]
    BY <1>1, <2>3, <2>6
  <2>8. n + 1 \in 2 .. (n + 1) /\ (n + 1) - 1 = n
    BY <1>1, <2>3
  <2>9. f[n + 1] = f[n] \o e
    BY <1>1, <1>3, <2>8
  <2> QED
    BY <1>2, <2>1, <2>7, <2>9 DEF ps
<1> QED
  BY <1>4, <1>5

Associative(S) == \A u, v, w \in Seq(S) : (u \o v) \o w = u \o (v \o w)

LEMMA Assoc ==
  ASSUME NEW S
  PROVE  Associative(S)
<1>1. \A u, v, w \in Seq(S) : (u \o v) \o w = u \o (v \o w)
  BY ConcatAssociative
<1> QED
  BY <1>1 DEF Associative

\* The first sequence comes first
LEMMA FlattenTail ==
  ASSUME NEW S, NEW qs \in Seq(Seq(S)), qs # <<>>
  PROVE  FlattenSeq(qs) = Head(qs) \o FlattenSeq(Tail(qs))
<1> DEFINE ps == Tail(qs)  n == Len(ps)  a == Head(qs)
<1>0. \A u, v, w \in Seq(S) : (u \o v) \o w = u \o (v \o w)
  <2>1. Associative(S)
    BY Assoc
  <2> QED
    BY <2>1 DEF Associative
<1>1. /\ ps \in Seq(Seq(S)) /\ n = Len(qs) - 1 /\ \A i \in 1 .. n : ps[i] = qs[i + 1]
      /\ a \in Seq(S) /\ a = qs[1] /\ n \in Nat /\ Len(qs) = n + 1
  <2>1. /\ ps \in Seq(Seq(S)) /\ n = Len(qs) - 1 /\ \A i \in 1 .. n : ps[i] = qs[i + 1] /\ a \in Seq(S)
    BY HeadTailProperties
  <2>2. a = qs[1]
    OBVIOUS
  <2>3. n \in Nat /\ Len(qs) = n + 1
    BY <2>1, EmptySeq
  <2> QED
    BY <2>1, <2>2, <2>3
<1> HIDE DEF ps, n, a
<1>2. PICK f : Run(f, qs) /\ FlattenSeq(qs) = f[n + 1]
  BY <1>1, FlattenRun
<1>3. /\ f[1] = a /\ \A i \in 2 .. (n + 1) : f[i] = f[i - 1] \o qs[i]
  <2>1. /\ Len(qs) >= 1 => f[1] = qs[1]
        /\ \A i \in 2 .. Len(qs) : f[i] = f[i - 1] \o qs[i]
    <3>1. Steps(S, f, qs)
      BY <1>2, RunAt
    <3> QED
      BY <3>1 DEF Steps
  <2>2. Len(qs) >= 1 /\ Len(qs) = n + 1 /\ a = qs[1]
    BY <1>1
  <2> QED
    BY <2>1, <2>2
<1>4. CASE ps = <<>>
  <2>1. n = 0 /\ FlattenSeq(ps) = <<>>
    BY <1>4, FlattenEmpty DEF n
  <2>2. a \o <<>> = a
    BY <1>1, ConcatEmptySeq
  <2> QED
    <3>1. FlattenSeq(qs) = a
      BY <1>2, <1>3, <2>1
    <3> QED
      BY <2>1, <2>2, <3>1 DEF ps, a
<1>5. CASE ps # <<>>
  <2>1. PICK g : Run(g, ps) /\ FlattenSeq(ps) = g[n]
    BY <1>1, <1>5, FlattenRun DEF n
  <2>2. /\ n >= 1 => g[1] = ps[1]
        /\ \A i \in 2 .. n : g[i] = g[i - 1] \o ps[i]
        /\ \A i \in 1 .. n : g[i] \in Seq(S) /\ ps[i] \in Seq(S)
    <3>1. /\ Len(ps) >= 1 => g[1] = ps[1]
          /\ \A i \in 2 .. Len(ps) : g[i] = g[i - 1] \o ps[i]
          /\ \A i \in 1 .. Len(ps) : g[i] \in Seq(S)
      <4>1. Steps(S, g, ps)
        BY <1>1, <2>1, RunAt
      <4> QED
        BY <4>1 DEF Steps
    <3>2. \A i \in 1 .. Len(ps) : ps[i] \in Seq(S)
      BY <1>1
    <3> QED
      BY <3>1, <3>2 DEF n
  <2>3. n >= 1
    BY <1>1, <1>5, EmptySeq DEF n
  <2> DEFINE N == {k \in Nat : k \in 1 .. n => f[k + 1] = a \o g[k]}
  <2>4. 0 \in N
    OBVIOUS
  <2>5. ASSUME NEW k \in Nat, k \in N PROVE k + 1 \in N
    <3> SUFFICES ASSUME k + 1 \in 1 .. n PROVE f[(k + 1) + 1] = a \o g[k + 1]
      OBVIOUS
    <3>0. (k + 1) + 1 \in 2 .. (n + 1) /\ ((k + 1) + 1) - 1 = k + 1
      BY <1>1
    <3>1. f[(k + 1) + 1] = f[k + 1] \o ps[k + 1]
      BY <1>1, <1>3, <3>0
    <3>2. CASE k = 0
      <4>1. f[k + 1] = a /\ g[k + 1] = ps[k + 1]
        BY <1>3, <2>2, <2>3, <3>2
      <4> QED
        BY <3>1, <4>1
    <3>3. CASE k # 0
      <4>1. k \in 1 .. n /\ k + 1 \in 2 .. n /\ (k + 1) - 1 = k
        BY <1>1, <3>3
      <4>0. f[k + 1] = a \o g[k]
        BY <2>5, <4>1
      <4>2. g[k + 1] = g[k] \o ps[k + 1] /\ g[k] \in Seq(S) /\ ps[k + 1] \in Seq(S)
        BY <2>2, <4>1
      <4>3. (a \o g[k]) \o ps[k + 1] = a \o (g[k] \o ps[k + 1])
        <5> DEFINE x == g[k]  y == ps[k + 1]
        <5>1. a \in Seq(S) /\ x \in Seq(S) /\ y \in Seq(S)
          BY <1>1, <4>2
        <5> HIDE DEF x, y
        <5>2. (a \o x) \o y = a \o (x \o y)
          BY <1>0, <5>1, Zenon
        <5> QED
          BY <5>2 DEF x, y
      <4> QED
        BY <3>1, <4>0, <4>2, <4>3
    <3> QED
      BY <3>2, <3>3
  <2>6. n \in N
    BY <1>1, <2>4, <2>5, Induct
  <2>7. f[n + 1] = a \o g[n]
    <3>1. n \in 1 .. n
      BY <1>1, <2>3
    <3> QED
      BY <2>6, <3>1
  <2> QED
    BY <1>2, <2>1, <2>7 DEF ps, a
<1> QED
  BY <1>4, <1>5

-----------------------------------------------------------------------------
(* Messages, and the bytes in them. *)

Key == [char : Chars, nr : Nat]

Messages(S) == [type : {"DATA", "REST"}, data : Seq(S)]
               \cup [type : {"TERMENV", "ERROR"}, data : {<<>>}]
               \cup [type : {"WINSIZE"}, data : {<<w>> : w \in Windows}]

Load(m) == IF m.type \in {"DATA", "REST"} THEN m.data ELSE <<>>
Loads(q) == [i \in DOMAIN q |-> Load(q[i])]

LEMMA MessageFacts ==
  ASSUME NEW S, NEW m \in Messages(S)
  PROVE  /\ m.type \in {"TERMENV", "WINSIZE", "DATA", "REST", "ERROR"}
         /\ Load(m) \in Seq(S) /\ Len(m.data) \in Nat
         /\ m.type \in {"DATA", "REST"} => m.data \in Seq(S)
<1>1. CASE m \in [type : {"DATA", "REST"}, data : Seq(S)]
  BY <1>1 DEF Load
<1>2. CASE m \in [type : {"TERMENV", "ERROR"}, data : {<<>>}]
  <2>1. m.type \in {"TERMENV", "ERROR"} /\ m.data = <<>>
    BY <1>2
  <2> QED
    BY <2>1 DEF Load
<1>3. CASE m \in [type : {"WINSIZE"}, data : {<<w>> : w \in Windows}]
  <2>1. m.type = "WINSIZE" /\ \E w \in Windows : m.data = <<w>>
    BY <1>3
  <2> QED
    BY <2>1 DEF Load
<1> QED
  BY <1>1, <1>2, <1>3 DEF Messages

LEMMA LoadsFacts ==
  ASSUME NEW S, NEW q \in Seq(Messages(S))
  PROVE  /\ Loads(q) \in Seq(Seq(S)) /\ Len(Loads(q)) = Len(q)
         /\ \A i \in 1 .. Len(q) : Loads(q)[i] = Load(q[i])
         /\ Bytes(q) = FlattenSeq(Loads(q))
<1>1. Len(q) \in Nat /\ DOMAIN q = 1 .. Len(q) /\ \A i \in 1 .. Len(q) : q[i] \in Messages(S)
  OBVIOUS
<1>2. \A i \in 1 .. Len(q) : Load(q[i]) \in Seq(S)
  BY <1>1, MessageFacts
<1>3. Loads(q) = [i \in 1 .. Len(q) |-> Load(q[i])]
  BY <1>1 DEF Loads
<1>4. Loads(q) \in [1 .. Len(q) -> Seq(S)]
  BY <1>2, <1>3
<1>5. Loads(q) \in Seq(Seq(S)) /\ Len(Loads(q)) = Len(q)
  BY <1>1, <1>4
<1>6. \A i \in 1 .. Len(q) : Loads(q)[i] = Load(q[i])
  BY <1>3
<1>7. Bytes(q) = FlattenSeq(Loads(q))
  BY DEF Bytes, Loads, Load
<1> QED
  BY <1>5, <1>6, <1>7

LEMMA BytesEmpty == Bytes(<<>>) = <<>>
<1>1. Loads(<<>>) = <<>>
  <2>1. <<>> \in Seq(Messages(Nat))
    BY EmptySeq
  <2>2. Loads(<<>>) \in Seq(Seq(Nat)) /\ Len(Loads(<<>>)) = 0
    BY <2>1, LoadsFacts, EmptySeq
  <2> QED
    BY <2>2, EmptySeq
<1>2. Bytes(<<>>) = FlattenSeq(Loads(<<>>))
  BY DEF Bytes, Loads, Load
<1> QED
  BY <1>1, <1>2, FlattenEmpty

LEMMA BytesType ==
  ASSUME NEW S, NEW q \in Seq(Messages(S))
  PROVE  Bytes(q) \in Seq(S)
  BY LoadsFacts, FlattenType

\* A message goes to the end of the bytes in a queue
LEMMA BytesAppend ==
  ASSUME NEW S, NEW q \in Seq(Messages(S)), NEW m \in Messages(S)
  PROVE  Bytes(Append(q, m)) = Bytes(q) \o Load(m)
<1> DEFINE p == Append(q, m)
<1>1. /\ p \in Seq(Messages(S)) /\ Len(p) = Len(q) + 1 /\ Len(q) \in Nat
      /\ \A i \in 1 .. Len(q) : p[i] = q[i]
      /\ p[Len(q) + 1] = m
  BY AppendProperties
<1> HIDE DEF p
<1>2. /\ Loads(q) \in Seq(Seq(S)) /\ Len(Loads(q)) = Len(q) /\ Bytes(q) = FlattenSeq(Loads(q))
      /\ \A i \in 1 .. Len(q) : Loads(q)[i] = Load(q[i])
  BY LoadsFacts
<1>3. /\ Loads(p) \in Seq(Seq(S)) /\ Len(Loads(p)) = Len(q) + 1 /\ Bytes(p) = FlattenSeq(Loads(p))
      /\ \A i \in 1 .. (Len(q) + 1) : Loads(p)[i] = Load(p[i])
  <2>1. /\ Loads(p) \in Seq(Seq(S)) /\ Len(Loads(p)) = Len(p) /\ Bytes(p) = FlattenSeq(Loads(p))
        /\ \A i \in 1 .. Len(p) : Loads(p)[i] = Load(p[i])
    BY <1>1, LoadsFacts
  <2> QED
    BY <1>1, <2>1
<1>4. Load(m) \in Seq(S)
  BY MessageFacts
<1> DEFINE t == Append(Loads(q), Load(m))
<1>5. /\ t \in Seq(Seq(S)) /\ Len(t) = Len(q) + 1
      /\ \A i \in 1 .. Len(q) : t[i] = Loads(q)[i]
      /\ t[Len(q) + 1] = Load(m)
  <2> DEFINE l == Loads(q)  e == Load(m)
  <2>1. l \in Seq(Seq(S)) /\ e \in Seq(S) /\ Len(l) = Len(q)
    BY <1>2, <1>4
  <2> HIDE DEF l, e
  <2>2. /\ Append(l, e) \in Seq(Seq(S)) /\ Len(Append(l, e)) = Len(l) + 1
        /\ \A i \in 1 .. Len(l) : Append(l, e)[i] = l[i]
        /\ Append(l, e)[Len(l) + 1] = e
    BY <2>1, AppendProperties
  <2> QED
    BY <2>1, <2>2 DEF l, e
<1> HIDE DEF t
<1>6. ASSUME NEW i \in 1 .. (Len(q) + 1) PROVE Loads(p)[i] = t[i]
  <2>1. CASE i \in 1 .. Len(q)
    BY <1>1, <1>2, <1>3, <1>5, <2>1
  <2>2. CASE i = Len(q) + 1
    BY <1>1, <1>3, <1>5, <2>2
  <2> QED
    BY <1>1, <2>1, <2>2
<1>7. Loads(p) = t
  <2>1. Len(Loads(p)) = Len(t) /\ \A i \in 1 .. Len(Loads(p)) : Loads(p)[i] = t[i]
    BY <1>3, <1>5, <1>6
  <2> QED
    BY <1>3, <1>5, <2>1, SeqEqual
<1>8. FlattenSeq(t) = FlattenSeq(Loads(q)) \o Load(m)
  BY <1>2, <1>4, FlattenAppend DEF t
<1> QED
  BY <1>2, <1>3, <1>7, <1>8 DEF p

\* The bytes of the first message are the first ones
LEMMA BytesTail ==
  ASSUME NEW S, NEW q \in Seq(Messages(S)), q # <<>>
  PROVE  /\ Head(q) \in Messages(S) /\ Tail(q) \in Seq(Messages(S))
         /\ Bytes(q) = Load(Head(q)) \o Bytes(Tail(q))
<1> DEFINE p == Tail(q)
<1>1. /\ p \in Seq(Messages(S)) /\ Len(p) = Len(q) - 1 /\ Head(q) \in Messages(S)
      /\ \A i \in 1 .. Len(p) : p[i] = q[i + 1]
  BY HeadTailProperties
<1>2. Head(q) = q[1] /\ Len(q) \in Nat \ {0}
  BY EmptySeq
<1> HIDE DEF p
<1>3. /\ Loads(q) \in Seq(Seq(S)) /\ Len(Loads(q)) = Len(q) /\ Bytes(q) = FlattenSeq(Loads(q))
      /\ \A i \in 1 .. Len(q) : Loads(q)[i] = Load(q[i])
  BY LoadsFacts
<1>4. /\ Loads(p) \in Seq(Seq(S)) /\ Len(Loads(p)) = Len(p) /\ Bytes(p) = FlattenSeq(Loads(p))
      /\ \A i \in 1 .. Len(p) : Loads(p)[i] = Load(p[i])
  BY <1>1, LoadsFacts
<1> DEFINE l == Loads(q)  t == Tail(l)
<1>5. l \in Seq(Seq(S)) /\ l # <<>> /\ Len(l) = Len(q)
  BY <1>2, <1>3, EmptySeq
<1> HIDE DEF l
<1>6. /\ t \in Seq(Seq(S)) /\ Len(t) = Len(q) - 1 /\ Head(l) = l[1]
      /\ \A i \in 1 .. (Len(q) - 1) : t[i] = l[i + 1]
  <2>1. /\ t \in Seq(Seq(S)) /\ Len(t) = Len(l) - 1 /\ \A i \in 1 .. Len(t) : t[i] = l[i + 1]
    BY <1>5, HeadTailProperties
  <2>2. Head(l) = l[1]
    BY <1>5
  <2> HIDE DEF t
  <2> QED
    BY <1>5, <2>1, <2>2
<1> HIDE DEF t
<1>7. Loads(p) = t
  <2>1. ASSUME NEW i \in 1 .. Len(p) PROVE Loads(p)[i] = t[i]
    <3>1. i \in 1 .. (Len(q) - 1) /\ i + 1 \in 1 .. Len(q)
      BY <1>1, <1>2
    <3> QED
      BY <1>1, <1>3, <1>4, <1>6, <3>1 DEF l
  <2>2. Len(Loads(p)) = Len(t) /\ \A i \in 1 .. Len(Loads(p)) : Loads(p)[i] = t[i]
    BY <1>1, <1>4, <1>6, <2>1
  <2> QED
    BY <1>4, <1>6, <2>2, SeqEqual
<1>8. FlattenSeq(l) = Head(l) \o FlattenSeq(t)
  BY <1>5, FlattenTail DEF t
<1>9. Head(l) = Load(Head(q))
  BY <1>2, <1>3, <1>6 DEF l
<1> QED
  BY <1>1, <1>3, <1>4, <1>7, <1>8, <1>9 DEF l, p

-----------------------------------------------------------------------------
(* The invariant. *)

CPlaces == {"hello", "top", "clear", "enter", "select", "terminal", "stdin", "out", "ended"}
SPlaces == {"accept", "termenv", "test", "enter", "select", "client", "master", "kill", "close", "ended"}

\* The types, with what is in the queues
TypeInv ==
  /\ up \in Seq(Messages(Key)) /\ down \in Seq(Messages(Nat))
  /\ upOpen \in BOOLEAN /\ downOpen \in BOOLEAN
  /\ escMode \in BOOLEAN /\ resize \in BOOLEAN /\ shutdown \in BOOLEAN
  /\ cpc \in CPlaces /\ spc \in SPlaces /\ window \in Windows
  /\ cchunk \in Nat /\ schunk \in Nat
  /\ keys \in Seq(Key) /\ sent \in Seq(Key) /\ input \in Seq(Key)
  /\ ptyOut \in Seq(Nat) /\ shown \in Seq(Nat)
  /\ typed \in 0 .. MaxKeys /\ wrote \in 0 .. MaxOutput /\ signals \in 0 .. MaxSignals
  /\ Len(keys) <= typed /\ Len(ptyOut) <= wrote
  /\ fault \in Faults /\ child \in {"none", "setup", "login", "dead"}

\* Only the first message can be one that was begun, and then some of it is left
Whole(q) == \A i \in DOMAIN q : q[i].type = "REST" => i = 1 /\ q[i].data # <<>>

\* A loop that is in the middle of a message knows that it is data: the other
\* direction uses the buffer for data only
QueueInv ==
  /\ Whole(up) /\ Whole(down) /\ ChunkExact
  /\ cchunk > 0 => ctype = "DATA"
  /\ schunk > 0 => stype = "DATA"

\* A socket is open until its owner has ended, and what select has found is
\* there until it is read
PlaceInv ==
  /\ upOpen <=> cpc # "ended"
  /\ downOpen <=> spc # "ended"
  /\ cpc = "terminal" /\ "terminal" \in cready => TermReady
  /\ cpc \in {"terminal", "stdin"} /\ "stdin" \in cready => keys # <<>>
  /\ spc = "client" /\ "client" \in sready => ClientReady

\* The first message is the one that iucvtty_rx_termenv takes
HelloInv ==
  /\ cpc = "hello" => up = <<>>
  /\ spc \in {"accept", "termenv"} =>
       /\ schunk = 0
       /\ cpc # "hello" => up # <<>> /\ Head(up).type = "TERMENV"

\* The first n numbers: what the login program has written
Count(n) == [i \in 1 .. n |-> i]

\* What was sent is in the pty or on its way; what is shown was written
DataInv ==
  /\ sent = input \o Bytes(up)
  /\ OutputConserved
  /\ \E t \in Seq(Nat) : shown \o t = Count(wrote)

\* The user was told of the failure, or will be
Told == errors = {fault} \/ \E i \in DOMAIN down : down[i].type = "ERROR"

FailInv ==
  /\ spc = "termenv" => fault # "denied"
  /\ child = "setup" => fault \notin {"denied", "fork"}
  /\ child = "login" => fault = "none"
  /\ typed = 0 /\ signals = 0 /\ fault # "none" =>
       /\ errors \subseteq {fault}
       /\ cpc \in {"out", "ended"} => errors = {fault}
       /\ spc \in {"kill", "close", "ended"} \/ shutdown => Told

Inv == TypeInv /\ QueueInv /\ PlaceInv /\ HelloInv /\ DataInv /\ FailInv

-----------------------------------------------------------------------------
(* A message is written, or a piece of one is read. *)

\* The queue r is q with message m behind it
Queued(S, q, chunk, m, r) ==
  /\ r \in Seq(Messages(S)) /\ r # <<>>
  /\ Whole(r) /\ Chunk(r, chunk)
  /\ Bytes(r) = Bytes(q) \o Load(m)
  /\ Head(r) = IF q = <<>> THEN m ELSE Head(q)
  /\ DOMAIN r = 1 .. (Len(q) + 1) /\ DOMAIN q = 1 .. Len(q) /\ Len(q) \in Nat
  /\ \A i \in DOMAIN q : r[i] = q[i]
  /\ r[Len(q) + 1] = m

LEMMA SendFacts ==
  ASSUME NEW S, NEW q \in Seq(Messages(S)), NEW m \in Messages(S), m.type # "REST",
         Whole(q), NEW chunk \in Nat, Chunk(q, chunk)
  PROVE  Queued(S, q, chunk, m, Append(q, m))
<1> DEFINE r == Append(q, m)
<1>1. /\ r \in Seq(Messages(S)) /\ r # <<>> /\ Len(r) = Len(q) + 1
      /\ \A i \in 1 .. Len(q) : r[i] = q[i]
      /\ r[Len(q) + 1] = m
  BY AppendProperties
<1>2. Head(r) = IF q = <<>> THEN m ELSE Head(q)
  BY HeadTailAppend
<1>3. Bytes(r) = Bytes(q) \o Load(m)
  BY BytesAppend
<1> HIDE DEF r
<1>4. DOMAIN q = 1 .. Len(q) /\ DOMAIN r = 1 .. (Len(q) + 1) /\ Len(q) \in Nat
  BY <1>1
<1>5. Whole(r)
  <2> SUFFICES ASSUME NEW i \in DOMAIN r, r[i].type = "REST" PROVE i = 1 /\ r[i].data # <<>>
    BY DEF Whole
  <2>1. i # Len(q) + 1
    BY <1>1
  <2>2. i \in DOMAIN q
    BY <1>4, <2>1
  <2> QED
    BY <1>1, <1>4, <2>2 DEF Whole
<1>6. Chunk(r, chunk)
  BY <1>1, <1>2 DEF Chunk
<1> QED
  BY <1>1, <1>2, <1>3, <1>4, <1>5, <1>6 DEF r, Queued

\* The next piece of the first message: how many bytes are still expected and
\* the type in the buffer are right, whether the message was begun or not
Got(S, q, chunk, type, n) ==
  /\ After(q, n) \in Seq(Messages(S)) /\ Whole(After(q, n))
  /\ ChunkAfter(q, chunk, n) \in Nat /\ Chunk(After(q, n), ChunkAfter(q, chunk, n))
  /\ ChunkAfter(q, chunk, n) > 0 => TypeOf(q, chunk, type) = "DATA"
  /\ TypeOf(q, chunk, type) = "DATA" =>
       Data(q, n) \in Seq(S) /\ Bytes(q) = Data(q, n) \o Bytes(After(q, n))
  /\ TypeOf(q, chunk, type) # "DATA" => Bytes(q) = Bytes(After(q, n))
  /\ Head(q).type = "ERROR" => TypeOf(q, chunk, type) = "ERROR"
  /\ Head(q).type # "ERROR" /\ (\E i \in DOMAIN q : q[i].type = "ERROR") =>
       \E i \in DOMAIN After(q, n) : After(q, n)[i].type = "ERROR"

LEMMA ReadFacts ==
  ASSUME NEW S, NEW q \in Seq(Messages(S)), q # <<>>, Whole(q),
         NEW chunk \in Nat, Chunk(q, chunk), NEW type, chunk > 0 => type = "DATA",
         NEW n \in Nat, Piece(q, n)
  PROVE  Got(S, q, chunk, type, n)
<1> DEFINE h == Head(q)  t == Tail(q)  d == h.data
<1>1. h \in Messages(S) /\ t \in Seq(Messages(S)) /\ Bytes(q) = Load(h) \o Bytes(t)
  BY BytesTail
<1>2. /\ h = q[1] /\ Len(q) \in Nat \ {0} /\ Len(t) = Len(q) - 1 /\ DOMAIN q = 1 .. Len(q) /\ DOMAIN t = 1 .. Len(t)
      /\ \A i \in 1 .. Len(t) : t[i] = q[i + 1]
  <2>1. Len(t) = Len(q) - 1 /\ \A i \in 1 .. Len(t) : t[i] = q[i + 1]
    BY HeadTailProperties
  <2>2. h = q[1] /\ Len(q) \in Nat \ {0}
    BY EmptySeq
  <2>3. DOMAIN q = 1 .. Len(q) /\ DOMAIN t = 1 .. Len(t)
    BY <1>1
  <2> QED
    BY <2>1, <2>2, <2>3
<1> HIDE DEF h, t
<1>3. Len(d) \in Nat /\ Load(h) \in Seq(S) /\ Bytes(t) \in Seq(S) /\ (h.type \in {"DATA", "REST"} => d \in Seq(S))
      /\ h.type \in {"TERMENV", "WINSIZE", "DATA", "REST", "ERROR"}
  BY <1>1, MessageFacts, BytesType
<1>4. \A i \in DOMAIN t : t[i].type # "REST"
  <2> TAKE i \in DOMAIN t
  <2>1. i + 1 \in DOMAIN q /\ i + 1 # 1 /\ t[i] = q[i + 1]
    BY <1>2
  <2> QED
    BY <2>1 DEF Whole
<1>5. t # <<>> => Head(t).type # "REST"
  <2>1. t # <<>> => Head(t) = t[1] /\ Len(t) \in Nat \ {0}
    BY <1>1, EmptySeq
  <2> QED
    BY <1>2, <1>4, <2>1
<1>6. /\ (h.type = "REST" => chunk = Len(d) /\ chunk > 0) /\ (h.type # "REST" => chunk = 0)
  <2>1. h.type = "REST" => d # <<>>
    BY <1>2 DEF Whole
  <2>2. h.type = "REST" => Len(d) \in Nat \ {0}
    BY <1>3, <2>1, EmptySeq
  <2> QED
    BY <2>2 DEF Chunk, h
<1>7. /\ n \in 0 .. Len(d) /\ (h.type \notin {"DATA", "REST"} => n = Len(d))
      /\ h.type \in {"DATA", "REST"} => n \in 1 .. Len(d)
  BY <1>3 DEF Piece, h
<1>8. ChunkAfter(q, chunk, n) = Len(d) - n
  BY <1>3, <1>6 DEF ChunkAfter, h
<1>9. TypeOf(q, chunk, type) = IF h.type = "REST" THEN "DATA" ELSE h.type
  BY <1>6 DEF TypeOf, h
<1>10. /\ h.type = "ERROR" => TypeOf(q, chunk, type) = "ERROR"
       /\ Len(d) - n > 0 => TypeOf(q, chunk, type) = "DATA"
  BY <1>3, <1>7, <1>9
<1>11. Len(d) - n \in Nat
  BY <1>3, <1>7
<1>12. h.type # "ERROR" /\ (\E i \in DOMAIN q : q[i].type = "ERROR") => \E i \in DOMAIN t : t[i].type = "ERROR"
  <2> SUFFICES ASSUME NEW i \in DOMAIN q, q[i].type = "ERROR", h.type # "ERROR" PROVE \E j \in DOMAIN t : t[j].type = "ERROR"
    OBVIOUS
  <2>1. i # 1 /\ i - 1 \in DOMAIN t /\ (i - 1) + 1 = i
    BY <1>2
  <2>2. t[i - 1] = q[i]
    BY <1>2, <2>1
  <2> QED
    BY <2>1, <2>2
<1>13. CASE n = Len(d)
  <2>1. After(q, n) = t
    BY <1>13 DEF After, h, t
  <2>2. Whole(t)
    BY <1>4 DEF Whole
  <2>3. Chunk(t, Len(d) - n)
    BY <1>3, <1>5, <1>13 DEF Chunk
  <2>4. h.type \in {"DATA", "REST"} => Data(q, n) = d /\ Load(h) = d
    BY <1>3, <1>13, SubSeqFull DEF Data, Load, h
  <2>5. h.type \notin {"DATA", "REST"} => Bytes(q) = Bytes(t)
    <3>1. h.type \notin {"DATA", "REST"} => Load(h) = <<>>
      BY DEF Load
    <3>2. <<>> \o Bytes(t) = Bytes(t)
      BY <1>3, ConcatEmptySeq
    <3> QED
      BY <1>1, <3>1, <3>2
  <2> QED
    BY <1>1, <1>3, <1>8, <1>9, <1>10, <1>11, <1>12, <2>1, <2>2, <2>3, <2>4, <2>5 DEF h, Got
<1>14. CASE n # Len(d)
  <2> DEFINE e == SubSeq(d, n + 1, Len(d))  m == Msg("REST", e)  r == <<m>> \o t
  <2>1. After(q, n) = r
    BY <1>14 DEF After, h, t
  <2>2. h.type \in {"DATA", "REST"} /\ n \in 1 .. Len(d) /\ d \in Seq(S) /\ Len(d) \in Nat /\ n < Len(d)
    BY <1>3, <1>7, <1>14
  <2>3. e \in Seq(S) /\ Len(e) = Len(d) - n /\ e # <<>>
    <3> DEFINE a == n + 1  z == Len(d)
    <3>1. a \in Int /\ z \in Int /\ \A i \in a .. z : d[i] \in S
      BY <2>2
    <3>2. SubSeq(d, a, z) \in Seq(S) /\ Len(SubSeq(d, a, z)) = IF a <= z THEN z - a + 1 ELSE 0
      BY <3>1, SubSeqProperties
    <3>3. (IF a <= z THEN z - a + 1 ELSE 0) = Len(d) - n
      BY <2>2
    <3>4. Len(e) = Len(d) - n /\ Len(d) - n # 0
      BY <2>2, <3>2, <3>3
    <3> QED
      BY <3>2, <3>4, EmptySeq
  <2> HIDE DEF e
  <2>4. m \in Messages(S) /\ m.type = "REST" /\ m.data = e
    BY <2>3 DEF Messages, Msg
  <2> HIDE DEF m
  <2>5. <<m>> \in Seq(Messages(S)) /\ Len(<<m>>) = 1 /\ <<m>>[1] = m
    BY <2>4
  <2>6. /\ r \in Seq(Messages(S)) /\ Len(r) = 1 + Len(t) /\ r[1] = m
        /\ \A i \in 2 .. (1 + Len(t)) : r[i] = t[i - 1]
    <3>1. Len(t) \in Nat
      BY <1>1
    <3>2. /\ r \in Seq(Messages(S)) /\ Len(r) = Len(<<m>>) + Len(t)
          /\ \A i \in 1 .. Len(<<m>>) + Len(t) : r[i] = IF i <= Len(<<m>>) THEN <<m>>[i] ELSE t[i - Len(<<m>>)]
      BY <1>1, <2>5, ConcatProperties
    <3> HIDE DEF r
    <3> QED
      BY <2>5, <3>1, <3>2
  <2> HIDE DEF r
  <2>7. r # <<>> /\ Head(r) = m /\ DOMAIN r = 1 .. (1 + Len(t))
    <3>1. Len(r) # 0 /\ Len(t) \in Nat
      BY <1>1, <2>6
    <3>2. r # <<>>
      BY <3>1, EmptySeq
    <3> QED
      BY <2>6, <3>2
  <2>8. Tail(r) = t
    <3>1. /\ Tail(r) \in Seq(Messages(S)) /\ Len(Tail(r)) = Len(r) - 1
          /\ \A i \in 1 .. Len(Tail(r)) : Tail(r)[i] = r[i + 1]
      BY <2>6, <2>7, HeadTailProperties
    <3> DEFINE w == Tail(r)
    <3> HIDE DEF w
    <3>2. w \in Seq(Messages(S)) /\ Len(w) = Len(t) /\ Len(t) \in Nat /\ \A i \in 1 .. Len(w) : w[i] = r[i + 1]
      BY <1>1, <2>6, <3>1 DEF w
    <3>3. \A i \in 1 .. Len(w) : w[i] = t[i]
      <4> TAKE i \in 1 .. Len(w)
      <4>1. i + 1 \in 2 .. (1 + Len(t)) /\ (i + 1) - 1 = i
        BY <3>2
      <4> QED
        BY <2>6, <3>2, <4>1
    <3>4. w = t
      BY <1>1, <3>2, <3>3, SeqEqual
    <3> QED
      BY <3>4 DEF w
  <2>9. Whole(r)
    <3> SUFFICES ASSUME NEW i \in DOMAIN r, r[i].type = "REST" PROVE i = 1 /\ r[i].data # <<>>
      BY DEF Whole
    <3>1. CASE i = 1
      BY <2>3, <2>4, <2>6, <3>1
    <3>2. CASE i # 1
      <4>1. i \in 2 .. (1 + Len(t)) /\ i - 1 \in DOMAIN t
        BY <1>2, <2>7, <3>2
      <4> QED
        BY <1>4, <2>6, <4>1
    <3> QED
      BY <3>1, <3>2
  <2>10. Chunk(r, Len(d) - n)
    BY <2>3, <2>4, <2>7 DEF Chunk
  <2>11. Data(q, n) \in Seq(S) /\ Data(q, n) \o e = d
    <3>1. SubSeq(d, 1, n) \in Seq(S)
      BY <2>2, PrefixFacts
    <3>2. 1 \in 1 .. Len(d) + 1 /\ n \in 1 - 1 .. Len(d) /\ Len(d) \in n .. Len(d)
      BY <2>2
    <3>3. SubSeq(d, 1, n) \o SubSeq(d, n + 1, Len(d)) = SubSeq(d, 1, Len(d))
      BY <2>2, <3>2, ConcatAdjacentSubSeq
    <3>4. SubSeq(d, 1, Len(d)) = d
      BY <2>2, SubSeqFull
    <3> QED
      BY <3>1, <3>3, <3>4 DEF Data, e, h
  <2>12. Bytes(r) = e \o Bytes(t)
    BY <2>4, <2>6, <2>7, <2>8, BytesTail DEF Load
  <2>13. Bytes(q) = Data(q, n) \o Bytes(r)
    <3>1. Load(h) = d
      BY <2>2 DEF Load
    <3>2. (Data(q, n) \o e) \o Bytes(t) = Data(q, n) \o (e \o Bytes(t))
      <4> DEFINE x == Data(q, n)  y == Bytes(t)
      <4>1. x \in Seq(S) /\ y \in Seq(S) /\ e \in Seq(S)
        BY <1>3, <2>3, <2>11
      <4> HIDE DEF x, y
      <4>2. (x \o e) \o y = x \o (e \o y)
        BY <4>1, ConcatAssociative
      <4> QED
        BY <4>2 DEF x, y
    <3> QED
      BY <1>1, <2>11, <2>12, <3>1, <3>2
  <2>14. (\E i \in DOMAIN t : t[i].type = "ERROR") => \E i \in DOMAIN r : r[i].type = "ERROR"
    <3> SUFFICES ASSUME NEW i \in DOMAIN t, t[i].type = "ERROR" PROVE \E j \in DOMAIN r : r[j].type = "ERROR"
      OBVIOUS
    <3>1. i + 1 \in 2 .. (1 + Len(t)) /\ i + 1 \in DOMAIN r /\ (i + 1) - 1 = i
      BY <1>2, <2>7
    <3>2. r[i + 1] = t[i]
      BY <2>6, <3>1
    <3> QED
      BY <3>1, <3>2
  <2>15. TypeOf(q, chunk, type) = "DATA"
    BY <1>9, <2>2
  <2> QED
    BY <1>8, <1>10, <1>11, <1>12, <2>1, <2>2, <2>6, <2>9, <2>10, <2>11, <2>13, <2>14, <2>15 DEF h, Got
<1> QED
  BY <1>13, <1>14

-----------------------------------------------------------------------------
(* Steps that leave the queues and the data alone. *)

Quiet == UNCHANGED <<up, down, cchunk, ctype, schunk, stype, keys, typed, sent, shown, errors,
                     ptyOut, wrote, input, fault, escMode>>

LEMMA QuietData ==
  ASSUME Inv, Quiet, upOpen' => upOpen
  PROVE  QueueInv' /\ DataInv'
<1>1. QueueInv'
  BY DEF Inv, Quiet, QueueInv, Whole, ChunkExact, Chunk
<1>2. Bytes(up)' = Bytes(up) /\ Bytes(down)' = Bytes(down)
  BY DEF Quiet, Bytes
<1>3. DataInv'
  BY <1>2 DEF Inv, Quiet, DataInv, OutputConserved, Count
<1> QED
  BY <1>1, <1>3

LEMMA ConnQuiet ==
  ASSUME Inv, ConnClear \/ ConnWait \/ ConnSelect \/ ConnClose \/ ConnTerminated
              \/ \E w \in Windows : WindowChanges(w)
  PROVE  Inv'
<1>1. Quiet /\ (upOpen' => upOpen)
  BY DEF ConnClear, ConnWait, ConnSelect, ConnClose, ConnTerminated, WindowChanges, tty, login, net, Quiet, Inv, TypeInv
<1>2. UNCHANGED <<spc, sready, shutdown, child, downOpen>>
  BY DEF ConnClear, ConnWait, ConnSelect, ConnClose, ConnTerminated, WindowChanges, tty, login, net
<1>3. TypeInv'
  <2>1. signals' \in 0 .. MaxSignals
    BY IucvAssumption DEF ConnClear, ConnWait, ConnSelect, ConnClose, ConnTerminated, WindowChanges, Inv, TypeInv
  <2>2. /\ cpc' \in CPlaces /\ window' \in Windows
    BY DEF ConnClear, ConnWait, ConnSelect, ConnClose, ConnTerminated, WindowChanges, Inv, TypeInv, CPlaces
  <2>3. upOpen' \in BOOLEAN /\ resize' \in BOOLEAN
    BY DEF ConnClear, ConnWait, ConnSelect, ConnClose, ConnTerminated, WindowChanges, net, Inv, TypeInv
  <2> QED
    BY <1>1, <1>2, <2>1, <2>2, <2>3 DEF Inv, Quiet, TypeInv
<1>4. UNCHANGED <<TermReady, ClientReady>> \/ (UNCHANGED <<TermReady>> /\ ~ upOpen')
  BY <1>1, <1>2 DEF ConnClear, ConnWait, ConnSelect, ConnClose, ConnTerminated, WindowChanges, net, Quiet, TermReady, ClientReady
<1>5. PlaceInv'
  <2>1. /\ upOpen' <=> cpc' # "ended"
        /\ downOpen' <=> spc' # "ended"
    BY <1>2 DEF ConnClear, ConnWait, ConnSelect, ConnClose, ConnTerminated, WindowChanges, net, Inv, PlaceInv
  <2>2. /\ cpc' = "terminal" /\ "terminal" \in cready' => TermReady'
        /\ cpc' \in {"terminal", "stdin"} /\ "stdin" \in cready' => keys' # <<>>
    BY <1>1, <1>2 DEF ConnClear, ConnWait, ConnSelect, ConnClose, ConnTerminated, WindowChanges, net, Inv, PlaceInv, Quiet, TermReady
  <2>3. spc' = "client" /\ "client" \in sready' => ClientReady'
    BY <1>1, <1>2 DEF ConnClear, ConnWait, ConnSelect, ConnClose, ConnTerminated, WindowChanges, net, Inv, PlaceInv, Quiet, ClientReady
  <2> QED
    BY <2>1, <2>2, <2>3 DEF PlaceInv
<1>6. HelloInv'
  <2>1. cpc # "hello" /\ cpc' # "hello"
    BY DEF ConnClear, ConnWait, ConnSelect, ConnClose, ConnTerminated, WindowChanges
  <2> QED
    BY <1>1, <1>2, <2>1 DEF Inv, HelloInv, Quiet
<1>7. FailInv'
  <2>1. Told' = Told
    BY <1>1 DEF Told, Quiet
  <2>2. signals' = 0 => signals = 0 /\ (cpc' \in {"out", "ended"} => cpc \in {"out", "ended"})
    <3>1. CASE ConnTerminated \/ \E w \in Windows : WindowChanges(w)
      <4>1. signals' = signals + 1 /\ signals \in Nat
        BY <3>1, IucvAssumption DEF ConnTerminated, WindowChanges, Inv, TypeInv
      <4> QED
        BY <4>1
    <3>2. CASE ConnClear \/ ConnWait \/ ConnSelect \/ ConnClose
      BY <3>2 DEF ConnClear, ConnWait, ConnSelect, ConnClose
    <3> QED
      BY <3>1, <3>2
  <2> QED
    BY <1>1, <1>2, <2>1, <2>2 DEF Inv, FailInv, Quiet
<1> QED
  BY <1>1, <1>3, <1>5, <1>6, <1>7, QuietData DEF Inv

LEMMA TtyQuiet ==
  ASSUME Inv, TtyTest \/ TtyWait \/ TtySelect \/ KillLogin \/ TtyClose \/ LoginExits \/ TtyTerminated
  PROVE  Inv'
<1>1. Quiet /\ UNCHANGED <<cpc, cready, resize, window, upOpen>>
  BY DEF TtyTest, TtyWait, TtySelect, KillLogin, TtyClose, LoginExits, TtyTerminated, Notify, conn, login, net, Quiet
<1>2. TypeInv'
  <2>1. signals' \in 0 .. MaxSignals
    BY IucvAssumption DEF TtyTest, TtyWait, TtySelect, KillLogin, TtyClose, LoginExits, TtyTerminated, Inv, TypeInv
  <2>2. spc' \in SPlaces /\ child' \in {"none", "setup", "login", "dead"}
    BY DEF TtyTest, TtyWait, TtySelect, KillLogin, TtyClose, LoginExits, TtyTerminated, Notify, login, Inv, TypeInv, SPlaces
  <2>3. downOpen' \in BOOLEAN /\ shutdown' \in BOOLEAN
    BY DEF TtyTest, TtyWait, TtySelect, KillLogin, TtyClose, LoginExits, TtyTerminated, Notify, net, Inv, TypeInv
  <2> QED
    BY <1>1, <2>1, <2>2, <2>3 DEF Inv, Quiet, TypeInv
<1>3. PlaceInv'
  <2>1. /\ upOpen' <=> cpc' # "ended"
        /\ downOpen' <=> spc' # "ended"
    BY <1>1 DEF TtyTest, TtyWait, TtySelect, KillLogin, TtyClose, LoginExits, TtyTerminated, Notify, net, Inv, PlaceInv
  <2>2. /\ cpc' = "terminal" /\ "terminal" \in cready' => TermReady'
        /\ cpc' \in {"terminal", "stdin"} /\ "stdin" \in cready' => keys' # <<>>
    BY <1>1 DEF TtyTest, TtyWait, TtySelect, KillLogin, TtyClose, LoginExits, TtyTerminated, Notify, net, Inv, PlaceInv, Quiet, TermReady
  <2>3. spc' = "client" /\ "client" \in sready' => ClientReady'
    BY <1>1 DEF TtyTest, TtyWait, TtySelect, KillLogin, TtyClose, LoginExits, TtyTerminated, Notify, net, Inv, PlaceInv, Quiet, ClientReady
  <2> QED
    BY <2>1, <2>2, <2>3 DEF PlaceInv
<1>4. HelloInv'
  <2>1. spc' \in {"accept", "termenv"} => spc \in {"accept", "termenv"}
    BY DEF TtyTest, TtyWait, TtySelect, KillLogin, TtyClose, LoginExits, TtyTerminated, Notify
  <2> QED
    BY <1>1, <2>1 DEF Inv, HelloInv, Quiet
<1>5. FailInv'
  <2>1. Told => Told'
    BY <1>1 DEF Told, Quiet
  <2>2. /\ spc' = "termenv" => spc = "termenv"
        /\ child' = "setup" => child = "setup"
        /\ child' = "login" => child = "login"
    BY DEF TtyTest, TtyWait, TtySelect, KillLogin, TtyClose, LoginExits, TtyTerminated, Notify, login
  <2>3. signals' = 0 /\ fault # "none" =>
          /\ signals = 0
          /\ spc' \in {"kill", "close", "ended"} \/ shutdown' => spc \in {"kill", "close", "ended"} \/ shutdown
    <3>1. CASE TtyTerminated
      <4>1. signals' = signals + 1 /\ signals \in Nat
        BY <3>1, IucvAssumption DEF TtyTerminated, Inv, TypeInv
      <4> QED
        BY <4>1
    <3>2. CASE TtyTest \/ TtyWait \/ TtySelect \/ KillLogin \/ TtyClose
      BY <3>2 DEF TtyTest, TtyWait, TtySelect, KillLogin, TtyClose
    <3>3. CASE LoginExits
      BY <3>3 DEF LoginExits, Inv, FailInv
    <3> QED
      BY <3>1, <3>2, <3>3
  <2>4. /\ spc' = "termenv" => fault' # "denied"
        /\ child' = "setup" => fault' \notin {"denied", "fork"}
        /\ child' = "login" => fault' = "none"
    BY <1>1, <2>2 DEF Inv, FailInv, Quiet
  <2>5. ASSUME typed' = 0, signals' = 0, fault' # "none"
        PROVE  /\ errors' \subseteq {fault'}
               /\ cpc' \in {"out", "ended"} => errors' = {fault'}
               /\ spc' \in {"kill", "close", "ended"} \/ shutdown' => Told'
    <3>1. typed = 0 /\ signals = 0 /\ fault # "none" /\ fault' = fault /\ errors' = errors /\ cpc' = cpc
      <4>1. typed' = typed /\ fault' = fault /\ errors' = errors /\ cpc' = cpc
        BY <1>1 DEF Quiet
      <4> QED
        BY <2>3, <2>5, <4>1, Zenon
    <3>2. /\ errors \subseteq {fault}
          /\ cpc \in {"out", "ended"} => errors = {fault}
          /\ spc \in {"kill", "close", "ended"} \/ shutdown => Told
      BY <3>1 DEF Inv, FailInv
    <3> QED
      BY <2>1, <2>3, <2>5, <3>1, <3>2, Zenon
  <2> QED
    BY <2>4, <2>5 DEF FailInv
<1> QED
  BY <1>1, <1>2, <1>3, <1>4, <1>5, QuietData DEF Inv

-----------------------------------------------------------------------------
(* iucvconn sends, the user types, the login program writes. *)

\* What the invariant says of the queue q to iucvtty
GoodUp(q, chunk, s, i) == /\ q \in Seq(Messages(Key)) /\ Whole(q) /\ Chunk(q, chunk)
                          /\ s \in Seq(Key) /\ s = i \o Bytes(q)

LEMMA UpAppend ==
  ASSUME NEW q, NEW chunk \in Nat, NEW s, NEW i \in Seq(Key), GoodUp(q, chunk, s, i),
         NEW m \in Messages(Key), m.type # "REST"
  PROVE  /\ GoodUp(Append(q, m), chunk, s \o Load(m), i) /\ Append(q, m) # <<>>
         /\ Head(Append(q, m)) = IF q = <<>> THEN m ELSE Head(q)
<1>1. q \in Seq(Messages(Key)) /\ Whole(q) /\ Chunk(q, chunk) /\ s \in Seq(Key) /\ s = i \o Bytes(q)
  BY DEF GoodUp
<1>2. /\ Append(q, m) \in Seq(Messages(Key)) /\ Append(q, m) # <<>>
      /\ Whole(Append(q, m)) /\ Chunk(Append(q, m), chunk)
      /\ Bytes(Append(q, m)) = Bytes(q) \o Load(m)
      /\ Head(Append(q, m)) = IF q = <<>> THEN m ELSE Head(q)
  <2>1. Queued(Key, q, chunk, m, Append(q, m))
    BY <1>1, SendFacts
  <2> QED
    BY <2>1 DEF Queued
<1> DEFINE x == Bytes(q)  y == Load(m)
<1>3. x \in Seq(Key) /\ y \in Seq(Key)
  BY <1>1, BytesType, MessageFacts
<1> HIDE DEF x, y
<1>4. (i \o x) \o y = i \o (x \o y) /\ s \o y \in Seq(Key)
  <2>1. \A u, v, w \in Seq(Key) : (u \o v) \o w = u \o (v \o w)
    <3>1. Associative(Key)
      BY Assoc
    <3> QED
      BY <3>1 DEF Associative
  <2>2. \A u, v \in Seq(Key) : u \o v \in Seq(Key)
    BY ConcatProperties, Zenon
  <2>3. s \in Seq(Key)
    BY <1>1
  <2>4. (i \o x) \o y = i \o (x \o y)
    BY <1>3, <2>1
  <2>5. s \o y \in Seq(Key)
    BY <1>3, <2>2, <2>3
  <2> QED
    BY <2>4, <2>5
<1> QED
  BY <1>1, <1>2, <1>4 DEF GoodUp, x, y

LEMMA WindowMessage ==
  ASSUME NEW w \in Windows, NEW S
  PROVE  /\ Msg("WINSIZE", <<w>>) \in Messages(S) /\ Msg("WINSIZE", <<w>>).type = "WINSIZE"
         /\ Load(Msg("WINSIZE", <<w>>)) = <<>>
  BY DEF Msg, Messages, Load

LEMMA EmptyMessage ==
  ASSUME NEW t \in {"TERMENV", "ERROR"}, NEW S
  PROVE  Msg(t, <<>>) \in Messages(S) /\ Msg(t, <<>>).type = t /\ Load(Msg(t, <<>>)) = <<>>
  BY DEF Msg, Messages, Load

LEMMA FailKept ==
  ASSUME FailInv, UNCHANGED <<fault, errors, spc, child, shutdown>>, Told => Told',
         typed' = 0 /\ signals' = 0 =>
           typed = 0 /\ signals = 0 /\ (cpc' \in {"out", "ended"} => cpc \in {"out", "ended"})
  PROVE  FailInv'
  BY DEF FailInv

\* The other parts, if only the queue to iucvtty and the state of iucvconn change
LEMMA UpKept ==
  ASSUME Inv, UNCHANGED <<down, cchunk, schunk, stype, input, shown, ptyOut, wrote, upOpen>>,
         GoodUp(up', schunk, sent', input), ctype' \in {ctype, "DATA"}
  PROVE  QueueInv' /\ DataInv'
<1>1. QueueInv'
  BY DEF Inv, QueueInv, GoodUp, ChunkExact, Chunk, Whole
<1>2. Bytes(down)' = Bytes(down)
  BY DEF Bytes
<1>3. DataInv'
  BY <1>2 DEF Inv, DataInv, GoodUp, OutputConserved, Count
<1> QED
  BY <1>1, <1>3

LEMMA UpGood ==
  ASSUME Inv
  PROVE  GoodUp(up, schunk, sent, input)
  BY DEF Inv, TypeInv, QueueInv, ChunkExact, DataInv, GoodUp

LEMMA HelloKeeps ==
  ASSUME Inv, Hello
  PROVE  Inv'
<1> DEFINE t == Msg("TERMENV", <<>>)  w == Msg("WINSIZE", <<window>>)  q == Append(up, t)
<1>0. /\ cpc = "hello" /\ cpc' = "top" /\ up = <<>>
      /\ UNCHANGED <<cready, cchunk, ctype, escMode, resize, window, keys, typed, sent, shown, errors, down, upOpen,
                     downOpen, fault, signals, spc, sready, schunk, stype, shutdown, input, child, ptyOut, wrote>>
  BY DEF Hello, tty, login, Inv, HelloInv
<1>1. t \in Messages(Key) /\ t.type = "TERMENV" /\ Load(t) = <<>>
  BY EmptyMessage
<1>2. w \in Messages(Key) /\ w.type = "WINSIZE" /\ Load(w) = <<>>
  BY WindowMessage DEF Inv, TypeInv
<1>3. up' = IF downOpen THEN Append(q, w) ELSE up
  <2>1. up' = IF downOpen THEN <<>> \o <<t, w>> ELSE up
    BY <1>0 DEF Hello
  <2> HIDE DEF t, w
  <2>2. <<>> \o <<t, w>> = Append(Append(<<>>, t), w)
    OBVIOUS
  <2> QED
    BY <1>0, <2>1, <2>2
<1> HIDE DEF t, w
<1>4. sent \in Seq(Key) /\ input \in Seq(Key) /\ schunk \in Nat /\ sent \o <<>> = sent
  BY ConcatEmptySeq DEF Inv, TypeInv
<1>5. GoodUp(q, schunk, sent, input) /\ q # <<>> /\ Head(q) = t
  <2>1. GoodUp(q, schunk, sent \o Load(t), input) /\ q # <<>> /\ Head(q) = IF up = <<>> THEN t ELSE Head(up)
    BY <1>1, <1>4, UpGood, UpAppend
  <2> QED
    BY <1>0, <1>1, <1>4, <2>1
<1> HIDE DEF q
<1>6. GoodUp(Append(q, w), schunk, sent, input) /\ Append(q, w) # <<>> /\ Head(Append(q, w)) = t
  <2>1. /\ GoodUp(Append(q, w), schunk, sent \o Load(w), input) /\ Append(q, w) # <<>>
        /\ Head(Append(q, w)) = IF q = <<>> THEN w ELSE Head(q)
    BY <1>2, <1>4, <1>5, UpAppend
  <2> QED
    BY <1>2, <1>4, <1>5, <2>1
<1>7. GoodUp(up', schunk, sent', input) /\ (downOpen => up' # <<>> /\ Head(up').type = "TERMENV")
  BY <1>0, <1>1, <1>3, <1>6, UpGood
<1>8. QueueInv' /\ DataInv'
  BY <1>0, <1>7, UpKept
<1>9. TypeInv'
  BY <1>0, <1>7 DEF Inv, TypeInv, GoodUp, CPlaces
<1>10. PlaceInv'
  BY <1>0, <1>7 DEF Inv, PlaceInv, TermReady, ClientReady
<1>11. HelloInv'
  BY <1>0, <1>7 DEF Inv, HelloInv, PlaceInv
<1>12. FailInv'
  BY <1>0, FailKept DEF Inv, Told
<1> QED
  BY <1>8, <1>9, <1>10, <1>11, <1>12 DEF Inv

LEMMA TopKeeps ==
  ASSUME Inv, ConnTop
  PROVE  Inv'
<1> DEFINE w == Msg("WINSIZE", <<window>>)
<1>0. /\ cpc = "top" /\ cpc' \in {"clear", "enter"} /\ (up' = up \/ up' = Append(up, w))
      /\ UNCHANGED <<cready, cchunk, ctype, escMode, resize, window, keys, typed, sent, shown, errors, down, upOpen,
                     downOpen, fault, signals, spc, sready, schunk, stype, shutdown, input, child, ptyOut, wrote>>
  BY DEF ConnTop, Send, tty, login
<1>1. w \in Messages(Key) /\ w.type = "WINSIZE" /\ Load(w) = <<>>
  BY WindowMessage DEF Inv, TypeInv
<1> HIDE DEF w
<1>2. sent \in Seq(Key) /\ input \in Seq(Key) /\ schunk \in Nat /\ sent \o <<>> = sent
  BY ConcatEmptySeq DEF Inv, TypeInv
<1>3. GoodUp(Append(up, w), schunk, sent, input) /\ Append(up, w) # <<>> /\ (up # <<>> => Head(Append(up, w)) = Head(up))
  <2>1. /\ GoodUp(Append(up, w), schunk, sent \o Load(w), input) /\ Append(up, w) # <<>>
        /\ Head(Append(up, w)) = IF up = <<>> THEN w ELSE Head(up)
    BY <1>1, <1>2, UpGood, UpAppend
  <2> QED
    BY <1>1, <1>2, <2>1
<1>4. GoodUp(up', schunk, sent', input) /\ (up # <<>> => up' # <<>> /\ Head(up') = Head(up))
  BY <1>0, <1>3, UpGood
<1>5. QueueInv' /\ DataInv'
  BY <1>0, <1>4, UpKept
<1>6. TypeInv'
  BY <1>0, <1>4 DEF Inv, TypeInv, GoodUp, CPlaces
<1>7. PlaceInv'
  BY <1>0, <1>4 DEF Inv, PlaceInv, TermReady, ClientReady
<1>8. HelloInv'
  BY <1>0, <1>4 DEF Inv, HelloInv
<1>9. FailInv'
  BY <1>0, FailKept DEF Inv, Told
<1> QED
  BY <1>5, <1>6, <1>7, <1>8, <1>9 DEF Inv

\* A sequence is cut in two
LEMMA CutFacts ==
  ASSUME NEW S, NEW s \in Seq(S), NEW n \in 0 .. Len(s)
  PROVE  /\ SubSeq(s, 1, n) \in Seq(S) /\ Len(SubSeq(s, 1, n)) = n
         /\ SubSeq(s, n + 1, Len(s)) \in Seq(S) /\ Len(SubSeq(s, n + 1, Len(s))) <= Len(s)
         /\ SubSeq(s, 1, n) \o SubSeq(s, n + 1, Len(s)) = s
<1> DEFINE a == n + 1  z == Len(s)
<1>1. a \in Int /\ z \in Int /\ \A i \in a .. z : s[i] \in S
  OBVIOUS
<1>2. (IF a <= z THEN z - a + 1 ELSE 0) <= z
  OBVIOUS
<1>3. 1 \in 1 .. Len(s) + 1 /\ n \in 1 - 1 .. Len(s) /\ Len(s) \in n .. Len(s)
  OBVIOUS
<1>4. SubSeq(s, 1, n) \o SubSeq(s, n + 1, Len(s)) = SubSeq(s, 1, Len(s))
  BY <1>3, ConcatAdjacentSubSeq
<1> HIDE DEF a, z
<1>5. SubSeq(s, a, z) \in Seq(S) /\ Len(SubSeq(s, a, z)) = IF a <= z THEN z - a + 1 ELSE 0
  BY <1>1, SubSeqProperties
<1>6. SubSeq(s, a, z) \in Seq(S) /\ Len(SubSeq(s, a, z)) <= z
  BY <1>2, <1>5
<1>7. SubSeq(s, 1, n) \in Seq(S) /\ Len(SubSeq(s, 1, n)) = n
  BY PrefixFacts
<1>8. SubSeq(s, 1, Len(s)) = s
  BY SubSeqFull
<1> QED
  BY <1>4, <1>6, <1>7, <1>8, Zenon DEF a, z

\* What is read of the keyboard, and what is left
LEMMA InputFacts ==
  ASSUME Inv
  PROVE  /\ Input \in Seq(Key) /\ SubSeq(keys, Len(Input) + 1, Len(keys)) \in Seq(Key)
         /\ Len(SubSeq(keys, Len(Input) + 1, Len(keys))) <= Len(keys)
<1> DEFINE n == IF Len(keys) < BufSize THEN Len(keys) ELSE BufSize
<1>1. keys \in Seq(Key) /\ Len(keys) \in Nat /\ BufSize \in Nat \ {0}
  BY IucvAssumption DEF Inv, TypeInv
<1>2. n \in 0 .. Len(keys)
  BY <1>1
<1>3. Input = SubSeq(keys, 1, n)
  BY DEF Input
<1> HIDE DEF n
<1> QED
  BY <1>1, <1>2, <1>3, CutFacts

LEMMA StdinKeeps ==
  ASSUME Inv, ConnStdin
  PROVE  Inv'
<1> DEFINE w == Msg("WINSIZE", <<window>>)  d == Msg("DATA", Input)
<1>0. /\ cpc = "stdin" /\ cpc' \in {"top", "out"} /\ cready' = {} /\ ctype' \in {ctype, "DATA"}
      /\ UNCHANGED <<cchunk, resize, window, typed, shown, errors, down, upOpen,
                     downOpen, fault, signals, spc, sready, schunk, stype, shutdown, input, child, ptyOut, wrote>>
  BY DEF ConnStdin, tty, login
<1>1. \/ UNCHANGED <<up, sent>>
      \/ up' = Append(up, w) /\ sent' = sent
      \/ up' = Append(up, d) /\ sent' = sent \o Input
  BY DEF ConnStdin, Send
<1>2. w \in Messages(Key) /\ w.type = "WINSIZE" /\ Load(w) = <<>>
  BY WindowMessage DEF Inv, TypeInv
<1>3. d \in Messages(Key) /\ d.type = "DATA" /\ Load(d) = Input
  BY InputFacts DEF Msg, Messages, Load
<1> HIDE DEF w, d
<1>4. sent \in Seq(Key) /\ input \in Seq(Key) /\ schunk \in Nat /\ sent \o <<>> = sent
  BY ConcatEmptySeq DEF Inv, TypeInv
<1>5. GoodUp(Append(up, w), schunk, sent, input) /\ Append(up, w) # <<>> /\ (up # <<>> => Head(Append(up, w)) = Head(up))
  <2>1. /\ GoodUp(Append(up, w), schunk, sent \o Load(w), input) /\ Append(up, w) # <<>>
        /\ Head(Append(up, w)) = IF up = <<>> THEN w ELSE Head(up)
    BY <1>2, <1>4, UpGood, UpAppend
  <2> QED
    BY <1>2, <1>4, <2>1
<1>6. GoodUp(Append(up, d), schunk, sent \o Input, input) /\ Append(up, d) # <<>> /\ (up # <<>> => Head(Append(up, d)) = Head(up))
  BY <1>3, <1>4, UpGood, UpAppend
<1>7. GoodUp(up', schunk, sent', input) /\ (up # <<>> => up' # <<>> /\ Head(up') = Head(up))
  BY <1>1, <1>5, <1>6, UpGood
<1>8. QueueInv' /\ DataInv'
  BY <1>0, <1>7, UpKept
<1>9. keys' = keys \/ keys' = SubSeq(keys, Len(Input) + 1, Len(keys))
  BY DEF ConnStdin
<1>10. keys' \in Seq(Key) /\ Len(keys') <= typed'
  <2> DEFINE r == SubSeq(keys, Len(Input) + 1, Len(keys))
  <2>1. keys \in Seq(Key) /\ Len(keys) \in Nat /\ Len(keys) <= typed /\ typed \in Int
    BY IucvAssumption DEF Inv, TypeInv
  <2>2. r \in Seq(Key) /\ Len(r) <= Len(keys)
    BY InputFacts
  <2> HIDE DEF r
  <2>3. Len(r) \in Nat
    BY <2>2
  <2>4. Len(r) <= typed
    BY <2>1, <2>2, <2>3
  <2> QED
    BY <1>0, <1>9, <2>1, <2>2, <2>4 DEF r
<1>11. escMode' \in BOOLEAN
  BY DEF ConnStdin, Inv, TypeInv
<1>12. TypeInv'
  BY <1>0, <1>7, <1>10, <1>11 DEF Inv, TypeInv, GoodUp, CPlaces
<1>13. PlaceInv'
  BY <1>0, <1>7 DEF Inv, PlaceInv, TermReady, ClientReady
<1>14. HelloInv'
  BY <1>0, <1>7 DEF Inv, HelloInv
<1>15. cpc' = "out" => typed # 0
  <2>1. cpc' = "out" => "stdin" \in cready
    BY DEF ConnStdin
  <2>2. cpc' = "out" => keys # <<>>
    BY <1>0, <2>1 DEF Inv, PlaceInv
  <2>3. keys # <<>> => Len(keys) \in Nat \ {0}
    BY EmptySeq DEF Inv, TypeInv
  <2>4. Len(keys) <= typed
    BY DEF Inv, TypeInv
  <2> QED
    BY <2>2, <2>3, <2>4
<1>16. FailInv'
  BY <1>0, <1>15, FailKept DEF Inv, Told
<1> QED
  BY <1>8, <1>12, <1>13, <1>14, <1>16 DEF Inv

LEMMA CountFacts ==
  ASSUME NEW n \in Nat
  PROVE  /\ Count(n) \in Seq(Nat) /\ Len(Count(n)) = n
         /\ Count(n + 1) = Append(Count(n), n + 1)
<1>1. Count(n) \in [1 .. n -> Nat] /\ Count(n + 1) \in [1 .. (n + 1) -> Nat]
  BY DEF Count
<1>2. Count(n) \in Seq(Nat) /\ Len(Count(n)) = n /\ Count(n + 1) \in Seq(Nat) /\ Len(Count(n + 1)) = n + 1
  BY <1>1
<1>3. (\A i \in 1 .. n : Count(n)[i] = i) /\ \A i \in 1 .. (n + 1) : Count(n + 1)[i] = i
  BY DEF Count
<1> DEFINE a == Count(n)  b == Count(n + 1)  c == Append(a, n + 1)
<1>4. a \in Seq(Nat) /\ Len(a) = n /\ b \in Seq(Nat) /\ Len(b) = n + 1
      /\ (\A i \in 1 .. n : a[i] = i) /\ \A i \in 1 .. (n + 1) : b[i] = i
  BY <1>2, <1>3
<1> HIDE DEF a, b
<1>5. c \in Seq(Nat) /\ Len(c) = n + 1 /\ (\A i \in 1 .. n : c[i] = a[i]) /\ c[n + 1] = n + 1
  BY <1>4, AppendProperties
<1> HIDE DEF c
<1>6. \A i \in 1 .. Len(b) : b[i] = c[i]
  <2> TAKE i \in 1 .. Len(b)
  <2>1. i \in 1 .. (n + 1) /\ (i \in 1 .. n \/ i = n + 1)
    BY <1>4
  <2> QED
    BY <1>4, <1>5, <2>1
<1>7. b = c
  BY <1>4, <1>5, <1>6, SeqEqual
<1> QED
  BY <1>2, <1>7 DEF a, b, c

\* An element more at the end of the second of two sequences
LEMMA AppendAssoc ==
  ASSUME NEW S, NEW s \in Seq(S), NEW t \in Seq(S), NEW e \in S
  PROVE  s \o Append(t, e) = Append(s \o t, e)
<1>1. <<e>> \in Seq(S) /\ s \o t \in Seq(S)
  BY ConcatProperties
<1>2. Append(t, e) = t \o <<e>> /\ Append(s \o t, e) = (s \o t) \o <<e>>
  BY <1>1, AppendIsConcat
<1>3. (s \o t) \o <<e>> = s \o (t \o <<e>>)
  BY <1>1, ConcatAssociative
<1> QED
  BY <1>2, <1>3

LEMMA TypesKeeps ==
  ASSUME Inv, NEW c \in Chars, UserTypes(c)
  PROVE  Inv'
<1>0. /\ typed < MaxKeys /\ typed' = typed + 1 /\ keys' = Append(keys, [char |-> c, nr |-> typed + 1])
      /\ UNCHANGED <<cpc, cready, cchunk, ctype, escMode, resize, window, sent, shown, errors, up, down, upOpen,
                     downOpen, fault, signals, spc, sready, schunk, stype, shutdown, input, child, ptyOut, wrote>>
  BY DEF UserTypes, tty, login, net
<1>1. typed \in 0 .. MaxKeys /\ MaxKeys \in Nat /\ keys \in Seq(Key) /\ Len(keys) <= typed
  BY IucvAssumption DEF Inv, TypeInv
<1> DEFINE k == [char |-> c, nr |-> typed + 1]
<1>2. k \in Key
  BY <1>1 DEF Key
<1> HIDE DEF k
<1>3. keys' \in Seq(Key) /\ keys' # <<>> /\ Len(keys') = Len(keys) + 1
  BY <1>0, <1>1, <1>2, AppendProperties DEF k
<1>4. typed' \in 0 .. MaxKeys /\ Len(keys') <= typed' /\ typed' # 0
  <2>1. Len(keys) \in Nat
    BY <1>1
  <2> QED
    BY <1>0, <1>1, <1>3, <2>1
<1>5. TypeInv'
  BY <1>0, <1>3, <1>4 DEF Inv, TypeInv
<1>6. PlaceInv' /\ HelloInv'
  BY <1>0, <1>3 DEF Inv, PlaceInv, HelloInv, TermReady, ClientReady
<1>7. FailInv'
  BY <1>0, <1>4 DEF Inv, FailInv
<1>8. QueueInv' /\ DataInv'
  BY <1>0, UpGood, UpKept
<1> QED
  BY <1>5, <1>6, <1>7, <1>8 DEF Inv

LEMMA WritesKeeps ==
  ASSUME Inv, LoginWrites
  PROVE  Inv'
<1>0. /\ wrote < MaxOutput /\ wrote' = wrote + 1 /\ ptyOut' = Append(ptyOut, wrote + 1)
      /\ UNCHANGED <<cpc, cready, cchunk, ctype, escMode, resize, window, keys, typed, sent, shown, errors, up, down, upOpen,
                     downOpen, fault, signals, spc, sready, schunk, stype, shutdown, input, child>>
  BY DEF LoginWrites, conn, tty, net
<1>1. /\ wrote \in 0 .. MaxOutput /\ MaxOutput \in Nat /\ ptyOut \in Seq(Nat) /\ Len(ptyOut) <= wrote
      /\ shown \in Seq(Nat) /\ down \in Seq(Messages(Nat))
  BY IucvAssumption DEF Inv, TypeInv
<1>2. wrote \in Nat /\ wrote + 1 \in Nat
  BY <1>1
<1>3. ptyOut' \in Seq(Nat) /\ Len(ptyOut') = Len(ptyOut) + 1
  BY <1>0, <1>1, <1>2, AppendProperties
<1>4. wrote' \in 0 .. MaxOutput /\ Len(ptyOut') <= wrote'
  <2>1. Len(ptyOut) \in Nat
    BY <1>1
  <2> QED
    BY <1>0, <1>1, <1>3, <2>1
<1>5. TypeInv'
  BY <1>0, <1>3, <1>4 DEF Inv, TypeInv
<1>6. PlaceInv' /\ HelloInv'
  BY <1>0 DEF Inv, PlaceInv, HelloInv, TermReady, ClientReady
<1>7. FailInv'
  BY <1>0, FailKept DEF Inv, Told
<1>8. QueueInv'
  BY <1>0 DEF Inv, QueueInv, Whole, ChunkExact, Chunk
<1>9. Count(wrote)' = Append(Count(wrote), wrote + 1)
  <2>1. Count(wrote)' = Count(wrote + 1)
    BY <1>0 DEF Count
  <2> QED
    BY <1>2, <2>1, CountFacts
<1>10. OutputConserved'
  <2> SUFFICES ASSUME upOpen PROVE (shown \o Bytes(down)) \o Append(ptyOut, wrote + 1) = Append(Count(wrote), wrote + 1)
    <3>1. Bytes(down)' = Bytes(down)
      BY <1>0 DEF Bytes
    <3> QED
      BY <1>0, <1>9, <3>1 DEF OutputConserved, Count
  <2>1. (shown \o Bytes(down)) \o ptyOut = Count(wrote)
    BY DEF Inv, DataInv, OutputConserved, Count
  <2> DEFINE s == shown \o Bytes(down)
  <2>2. s \in Seq(Nat)
    BY <1>1, BytesType, ConcatProperties
  <2> HIDE DEF s
  <2>3. s \o Append(ptyOut, wrote + 1) = Append(s \o ptyOut, wrote + 1)
    BY <1>1, <1>2, <2>2, AppendAssoc
  <2> QED
    BY <2>1, <2>3 DEF s
<1>11. \E t \in Seq(Nat) : shown' \o t = Count(wrote)'
  <2>1. PICK t \in Seq(Nat) : shown \o t = Count(wrote)
    BY DEF Inv, DataInv
  <2>2. Append(t, wrote + 1) \in Seq(Nat) /\ shown \o Append(t, wrote + 1) = Append(shown \o t, wrote + 1)
    BY <1>1, <1>2, AppendAssoc, AppendProperties
  <2> QED
    BY <1>0, <1>9, <2>1, <2>2
<1>12. DataInv'
  <2>1. Bytes(up)' = Bytes(up)
    BY <1>0 DEF Bytes
  <2> QED
    BY <1>0, <1>10, <1>11, <2>1 DEF Inv, DataInv
<1> QED
  BY <1>5, <1>6, <1>7, <1>8, <1>12 DEF Inv

-----------------------------------------------------------------------------
(* iucvconn reads. *)

LEMMA RoomFacts ==
  ASSUME NEW chunk \in Nat
  PROVE  Room(chunk) \in Nat
  BY IucvAssumption DEF Room

LEMMA TerminalKeeps ==
  ASSUME Inv, ConnTerminal
  PROVE  Inv'
<1>0. /\ cpc = "terminal" /\ upOpen
      /\ UNCHANGED <<cready, escMode, resize, window, keys, typed, sent, up, upOpen,
                     downOpen, fault, signals, spc, sready, schunk, stype, shutdown, input, child, ptyOut, wrote>>
  BY DEF ConnTerminal, tty, login, Inv, PlaceInv
<1>1. CASE UNCHANGED <<down, cchunk, ctype, shown, errors>>
  <2>1. \/ cpc' = "stdin"
        \/ cpc' = "out" /\ "terminal" \in cready /\ down = <<>>
    BY <1>1 DEF ConnTerminal, Drained
  <2>2. TypeInv'
    BY <1>0, <1>1, <2>1 DEF Inv, TypeInv, CPlaces
  <2>3. PlaceInv' /\ HelloInv'
    BY <1>0, <1>1, <2>1 DEF Inv, PlaceInv, HelloInv, TermReady, ClientReady
  <2>4. cpc' = "out" /\ typed = 0 /\ signals = 0 /\ fault # "none" => errors = {fault}
    <3> SUFFICES ASSUME cpc' = "out", typed = 0, signals = 0, fault # "none" PROVE errors = {fault}
      OBVIOUS
    <3>1. down = <<>> /\ ~ downOpen
      BY <1>0, <2>1 DEF Inv, PlaceInv, TermReady
    <3>2. spc = "ended"
      BY <3>1 DEF Inv, PlaceInv
    <3>3. Told
      BY <3>2 DEF Inv, FailInv
    <3>4. DOMAIN down = {}
      BY <3>1
    <3> QED
      BY <3>3, <3>4 DEF Told
  <2>5. Told' = Told
    BY <1>0, <1>1 DEF Told
  <2>6. FailInv'
    BY <1>0, <1>1, <2>1, <2>4, <2>5 DEF Inv, FailInv
  <2>7. QueueInv' /\ DataInv'
    BY <1>0, <1>1, UpGood, UpKept
  <2> QED
    BY <2>2, <2>3, <2>6, <2>7 DEF Inv
<1>2. ASSUME NEW n \in 0 .. Room(cchunk), down # <<>>, cpc' = "stdin",
             Piece(down, n), down' = After(down, n), cchunk' = ChunkAfter(down, cchunk, n),
             ctype' = TypeOf(down, cchunk, ctype),
             shown' = IF ctype' = "DATA" THEN shown \o Written(Data(down, n)) ELSE shown,
             errors' = IF ctype' = "ERROR" THEN errors \cup {fault} ELSE errors
      PROVE  Inv'
  <2>0. /\ down \in Seq(Messages(Nat)) /\ cchunk \in Nat /\ Whole(down) /\ Chunk(down, cchunk)
        /\ (cchunk > 0 => ctype = "DATA") /\ shown \in Seq(Nat) /\ ptyOut \in Seq(Nat)
    BY DEF Inv, TypeInv, QueueInv, ChunkExact
  <2>1. n \in Nat
    BY <2>0, RoomFacts
  <2>2. Got(Nat, down, cchunk, ctype, n)
    BY <1>2, <2>0, <2>1, ReadFacts
  <2>3. /\ down' \in Seq(Messages(Nat)) /\ Whole(down)' /\ cchunk' \in Nat /\ Chunk(down, cchunk)'
        /\ cchunk' > 0 => ctype' = "DATA"
    BY <1>2, <2>2 DEF Got, Whole, Chunk
  <2> DEFINE e == Data(down, n)  b == Bytes(down')
  <2>4. /\ ctype' = "DATA" => e \in Seq(Nat) /\ Bytes(down) = e \o b /\ shown' = shown \o e
        /\ ctype' # "DATA" => Bytes(down) = b /\ shown' = shown
    BY <1>2, <2>2 DEF Got, Written
  <2>5. b \in Seq(Nat)
    BY <2>3, BytesType
  <2> HIDE DEF e, b
  <2>6. shown' \in Seq(Nat) /\ shown' \o b = shown \o Bytes(down)
    <3>1. CASE ctype' = "DATA"
      <4>1. shown \o e \in Seq(Nat) /\ (shown \o e) \o b = shown \o (e \o b)
        BY <2>0, <2>4, <2>5, <3>1, ConcatAssociative, ConcatProperties
      <4> QED
        BY <2>4, <3>1, <4>1
    <3>2. CASE ctype' # "DATA"
      BY <2>0, <2>4, <3>2
    <3> QED
      BY <3>1, <3>2
  <2>7. (shown' \o b) \o ptyOut = Count(wrote)
    BY <1>0, <2>6 DEF Inv, DataInv, OutputConserved, Count
  <2>8. shown' \o (b \o ptyOut) = Count(wrote) /\ b \o ptyOut \in Seq(Nat)
    <3> DEFINE x == shown'
    <3>1. x \in Seq(Nat) /\ b \in Seq(Nat) /\ ptyOut \in Seq(Nat)
      BY <2>0, <2>5, <2>6
    <3> HIDE DEF x
    <3>2. (x \o b) \o ptyOut = x \o (b \o ptyOut)
      BY <3>1, ConcatAssociative
    <3>3. b \o ptyOut \in Seq(Nat)
      BY <3>1, ConcatProperties
    <3> QED
      BY <2>7, <3>2, <3>3 DEF x
  <2>9. DataInv'
    <3>1. Bytes(up)' = Bytes(up) /\ Count(wrote)' = Count(wrote)
      BY <1>0 DEF Bytes, Count
    <3>2. OutputConserved'
      BY <1>0, <2>7, <3>1 DEF OutputConserved, Count, b, Bytes
    <3> QED
      BY <1>0, <2>8, <3>1, <3>2 DEF Inv, DataInv
  <2>10. QueueInv'
    BY <1>0, <2>3 DEF Inv, QueueInv, ChunkExact, Whole, Chunk
  <2>11. TypeInv'
    BY <1>0, <1>2, <2>3, <2>6 DEF Inv, TypeInv, CPlaces
  <2>12. PlaceInv' /\ HelloInv'
    BY <1>0, <1>2 DEF Inv, PlaceInv, HelloInv, TermReady, ClientReady
  <2>13. ASSUME typed = 0, signals = 0, fault # "none"
         PROVE  errors' \subseteq {fault} /\ (Told => Told')
    <3>1. errors \subseteq {fault}
      BY <2>13 DEF Inv, FailInv
    <3>2. errors' \subseteq {fault} /\ (errors = {fault} => errors' = {fault}) /\ (ctype' = "ERROR" => errors' = {fault})
      BY <1>2, <3>1
    <3>3. Head(down).type = "ERROR" => ctype' = "ERROR"
      BY <1>2, <2>2 DEF Got
    <3>4. Head(down).type # "ERROR" /\ (\E i \in DOMAIN down : down[i].type = "ERROR") =>
            \E i \in DOMAIN down' : down'[i].type = "ERROR"
      BY <1>2, <2>2 DEF Got
    <3> QED
      BY <1>0, <3>2, <3>3, <3>4 DEF Told
  <2>14. FailInv'
    BY <1>0, <1>2, <2>13 DEF Inv, FailInv
  <2> QED
    BY <2>9, <2>10, <2>11, <2>12, <2>14 DEF Inv
<1> QED
  BY <1>1, <1>2 DEF ConnTerminal, Drained

-----------------------------------------------------------------------------
(* iucvtty. *)

\* What the invariant says of the queue to iucvconn, and of the output
DownOK == /\ down \in Seq(Messages(Nat)) /\ Whole(down) /\ Chunk(down, cchunk)
          /\ OutputConserved

\* A reply goes behind the other messages, unless nobody can read it
LEMMA ReplyFacts ==
  ASSUME Inv, NEW m \in Messages(Nat), m.type # "REST", Reply(m), UNCHANGED cchunk
  PROVE  /\ down' \in Seq(Messages(Nat)) /\ Whole(down)' /\ Chunk(down, cchunk)'
         /\ upOpen => Bytes(down)' = Bytes(down) \o Load(m)
         /\ down # <<>> => down' # <<>>
         /\ (\E i \in DOMAIN down : down[i].type = "ERROR") \/ (upOpen /\ m.type = "ERROR") =>
              \E i \in DOMAIN down' : down'[i].type = "ERROR"
<1>0. down \in Seq(Messages(Nat)) /\ Whole(down) /\ Chunk(down, cchunk) /\ cchunk \in Nat
  BY DEF Inv, TypeInv, QueueInv, ChunkExact
<1>1. CASE ~ upOpen
  <2>1. down' = down
    BY <1>1 DEF Reply
  <2> QED
    BY <1>0, <1>1, <2>1 DEF Whole, Chunk
<1>2. CASE upOpen
  <2>1. down' = Append(down, m)
    BY <1>2 DEF Reply
  <2>2. Queued(Nat, down, cchunk, m, down')
    BY <1>0, <2>1, SendFacts
  <2>3. /\ down' \in Seq(Messages(Nat)) /\ Whole(down)' /\ Chunk(down, cchunk)' /\ down' # <<>>
        /\ Bytes(down)' = Bytes(down) \o Load(m)
    BY <2>2 DEF Queued, Whole, Chunk, Bytes
  <2>4. ASSUME NEW i \in DOMAIN down, down[i].type = "ERROR" PROVE \E j \in DOMAIN down' : down'[j].type = "ERROR"
    <3>1. i \in DOMAIN down' /\ down'[i] = down[i]
      BY <2>2 DEF Queued
    <3> QED
      BY <2>4, <3>1
  <2>5. m.type = "ERROR" => \E j \in DOMAIN down' : down'[j].type = "ERROR"
    <3>1. Len(down) + 1 \in DOMAIN down' /\ down'[Len(down) + 1] = m
      BY <2>2 DEF Queued
    <3> QED
      BY <3>1
  <2> QED
    BY <2>3, <2>4, <2>5
<1> QED
  BY <1>1, <1>2

\* The reply that tells of an error changes no data
LEMMA ErrorFacts ==
  ASSUME Inv, Reply(Msg("ERROR", <<>>)), UNCHANGED <<cchunk, errors, fault, shown, ptyOut, wrote, upOpen>>
  PROVE  /\ DownOK' /\ (down # <<>> => down' # <<>>) /\ (Told => Told')
         /\ typed = 0 /\ signals = 0 /\ fault # "none" => Told'
<1> DEFINE m == Msg("ERROR", <<>>)
<1>1. m \in Messages(Nat) /\ m.type = "ERROR" /\ Load(m) = <<>>
  BY EmptyMessage
<1>2. Reply(m)
  OBVIOUS
<1> HIDE DEF m
<1>3. /\ down' \in Seq(Messages(Nat)) /\ Whole(down)' /\ Chunk(down, cchunk)'
      /\ upOpen => Bytes(down)' = Bytes(down) \o Load(m)
      /\ down # <<>> => down' # <<>>
      /\ (\E i \in DOMAIN down : down[i].type = "ERROR") \/ (upOpen /\ m.type = "ERROR") =>
              \E i \in DOMAIN down' : down'[i].type = "ERROR"
  BY <1>1, <1>2, ReplyFacts
<1>4. Bytes(down) \o <<>> = Bytes(down)
  BY BytesType, ConcatEmptySeq DEF Inv, TypeInv
<1>5. OutputConserved'
  BY <1>1, <1>3, <1>4 DEF Inv, DataInv, OutputConserved
<1>6. Told => Told'
  BY <1>3 DEF Told
<1>7. ASSUME typed = 0, signals = 0, fault # "none" PROVE Told'
  <2>1. CASE upOpen
    BY <1>1, <1>3, <2>1 DEF Told
  <2>2. CASE ~ upOpen
    <3>1. cpc = "ended"
      BY <2>2 DEF Inv, PlaceInv
    <3>2. errors = {fault}
      BY <1>7, <3>1 DEF Inv, FailInv
    <3> QED
      BY <3>2 DEF Told
  <2> QED
    BY <2>1, <2>2
<1> QED
  BY <1>3, <1>5, <1>6, <1>7 DEF DownOK

\* The same if nothing is sent
LEMMA NoReply ==
  ASSUME Inv, UNCHANGED <<down, cchunk, errors, fault, shown, ptyOut, wrote, upOpen>>
  PROVE  DownOK' /\ (Told => Told')
<1>1. OutputConserved'
  BY DEF Inv, DataInv, OutputConserved, Bytes
<1>2. DownOK'
  BY <1>1 DEF Inv, TypeInv, QueueInv, ChunkExact, DownOK, Whole, Chunk
<1> QED
  BY <1>2 DEF Told

\* The queues, put together
LEMMA TtyData ==
  ASSUME Inv, DownOK', GoodUp(up', schunk', sent', input'), cchunk' > 0 => ctype' = "DATA", schunk' > 0 => stype' = "DATA",
         UNCHANGED <<shown, wrote>>
  PROVE  QueueInv' /\ DataInv'
<1>1. QueueInv'
  BY DEF QueueInv, GoodUp, DownOK, ChunkExact, Whole, Chunk
<1>2. \E t \in Seq(Nat) : shown' \o t = Count(wrote)'
  BY DEF Inv, DataInv, Count
<1>3. sent' = input' \o Bytes(up)'
  BY DEF GoodUp, Bytes
<1> QED
  BY <1>1, <1>2, <1>3 DEF DataInv, DownOK

ConnSame == UNCHANGED <<cpc, cready, cchunk, ctype, escMode, resize, window, keys, typed, sent, shown, errors,
                        upOpen, fault>>

LEMMA ConnSameFacts ==
  ASSUME Inv
  PROVE  (cchunk > 0 => ctype = "DATA") /\ (schunk > 0 => stype = "DATA")
  BY DEF Inv, QueueInv

LEMMA AcceptKeeps ==
  ASSUME Inv, Accept
  PROVE  Inv'
<1>0. /\ spc = "accept" /\ ConnSame
      /\ UNCHANGED <<sready, schunk, stype, shutdown, input, child, ptyOut, wrote, up, downOpen, signals>>
      /\ \/ fault = "denied" /\ Reply(Msg("ERROR", <<>>)) /\ spc' = "close"
         \/ fault # "denied" /\ spc' = "termenv" /\ UNCHANGED down
  BY DEF Accept, conn, login, ConnSame
<1>1. DownOK' /\ (Told => Told') /\ (down # <<>> => down' # <<>>)
      /\ (spc' = "close" /\ typed = 0 /\ signals = 0 /\ fault # "none" => Told')
  BY <1>0, ErrorFacts, NoReply DEF ConnSame
<1>2. QueueInv' /\ DataInv'
  BY <1>0, <1>1, UpGood, TtyData, ConnSameFacts DEF ConnSame
<1>3. TypeInv'
  BY <1>0, <1>1 DEF Inv, TypeInv, ConnSame, SPlaces, DownOK
<1>4. PlaceInv' /\ HelloInv'
  BY <1>0, <1>1 DEF Inv, PlaceInv, HelloInv, ConnSame, TermReady, ClientReady
<1>5. FailInv'
  BY <1>0, <1>1 DEF Inv, FailInv, ConnSame
<1> QED
  BY <1>2, <1>3, <1>4, <1>5 DEF Inv

LEMMA TermenvKeeps ==
  ASSUME Inv, RxTermenv
  PROVE  Inv'
<1>0. /\ spc = "termenv" /\ ConnSame /\ (up # <<>> \/ ~ upOpen)
      /\ up' = IF up = <<>> THEN up ELSE Tail(up)
      /\ UNCHANGED <<sready, schunk, stype, shutdown, input, ptyOut, wrote, downOpen, signals>>
      /\ \/ fault = "fork" /\ Reply(Msg("ERROR", <<>>)) /\ spc' = "close" /\ UNCHANGED child
         \/ fault # "fork" /\ spc' = "test" /\ child' = "setup" /\ UNCHANGED down
  BY DEF RxTermenv, conn, ConnSame
<1>1. /\ cpc # "hello" /\ up # <<>> /\ Head(up).type = "TERMENV" /\ schunk = 0
  <2>1. cpc # "hello"
    BY <1>0 DEF Inv, HelloInv, PlaceInv
  <2> QED
    BY <1>0, <2>1 DEF Inv, HelloInv
<1>2. GoodUp(up', schunk', sent', input')
  <2>1. /\ up \in Seq(Messages(Key)) /\ schunk \in Nat /\ Whole(up) /\ Chunk(up, schunk)
    BY DEF Inv, TypeInv, QueueInv, ChunkExact
  <2> DEFINE n == Len(Head(up).data)
  <2>2. n \in Nat
    BY <1>1, <2>1, BytesTail, MessageFacts
  <2>3. Piece(up, n) /\ After(up, n) = up' /\ ChunkAfter(up, schunk, n) = 0 /\ TypeOf(up, schunk, "DATA") # "DATA"
    BY <1>0, <1>1, <2>2 DEF Piece, After, ChunkAfter, TypeOf
  <2> HIDE DEF n
  <2>4. Got(Key, up, schunk, "DATA", n)
    BY <1>1, <2>1, <2>2, <2>3, ReadFacts
  <2>5. up' \in Seq(Messages(Key)) /\ Whole(up') /\ Chunk(up', 0) /\ Bytes(up) = Bytes(up')
    BY <2>3, <2>4 DEF Got
  <2> QED
    BY <1>0, <1>1, <2>5, UpGood DEF ConnSame, GoodUp
<1>3. DownOK' /\ (Told => Told') /\ (down # <<>> => down' # <<>>)
      /\ (spc' = "close" /\ typed = 0 /\ signals = 0 /\ fault # "none" => Told')
  BY <1>0, ErrorFacts, NoReply DEF ConnSame
<1>4. QueueInv' /\ DataInv'
  BY <1>0, <1>2, <1>3, TtyData, ConnSameFacts DEF ConnSame
<1>5. TypeInv'
  BY <1>0, <1>2, <1>3 DEF Inv, TypeInv, ConnSame, SPlaces, DownOK, GoodUp
<1>6. PlaceInv' /\ HelloInv'
  BY <1>0, <1>1, <1>3 DEF Inv, PlaceInv, HelloInv, ConnSame, TermReady, ClientReady
<1>7. FailInv'
  BY <1>0, <1>3 DEF Inv, FailInv, ConnSame
<1> QED
  BY <1>4, <1>5, <1>6, <1>7 DEF Inv

LEMMA SetupKeeps ==
  ASSUME Inv, ChildSetup
  PROVE  Inv'
<1>0. /\ child = "setup" /\ ConnSame
      /\ UNCHANGED <<sready, schunk, stype, input, ptyOut, wrote, up, downOpen, signals>>
      /\ \/ /\ Reply(Msg("ERROR", <<>>)) /\ child' = "dead" /\ shutdown' = TRUE
            /\ spc' = IF spc = "select" THEN "test" ELSE spc
         \/ fault \notin {"login_tty", "exec"} /\ child' = "login" /\ UNCHANGED <<down, shutdown, spc>>
  BY DEF ChildSetup, Notify, conn, ConnSame
<1>1. DownOK' /\ (Told => Told') /\ (down # <<>> => down' # <<>>)
      /\ (child' = "dead" /\ typed = 0 /\ signals = 0 /\ fault # "none" => Told')
  BY <1>0, ErrorFacts, NoReply DEF ConnSame
<1>2. QueueInv' /\ DataInv'
  BY <1>0, <1>1, UpGood, TtyData, ConnSameFacts DEF ConnSame
<1>3. TypeInv'
  BY <1>0, <1>1 DEF Inv, TypeInv, ConnSame, SPlaces, DownOK
<1>4. PlaceInv' /\ HelloInv'
  BY <1>0, <1>1 DEF Inv, PlaceInv, HelloInv, ConnSame, TermReady, ClientReady
<1>5. child' = "login" => fault = "none"
  BY <1>0, IucvAssumption DEF Inv, FailInv, TypeInv
<1>6. FailInv'
  BY <1>0, <1>1, <1>5 DEF Inv, FailInv, ConnSame
<1> QED
  BY <1>2, <1>3, <1>4, <1>6 DEF Inv

\* A piece of a message from the client goes to the pty, or sets its window
LEMMA ClientKeeps ==
  ASSUME Inv, TtyClient
  PROVE  Inv'
<1>0. /\ spc = "client" /\ ConnSame
      /\ UNCHANGED <<sready, shutdown, child, ptyOut, wrote, down, downOpen, signals>>
  BY DEF TtyClient, conn, login, ConnSame
<1>1. DownOK' /\ (Told => Told')
  BY <1>0, NoReply DEF ConnSame
<1>2. CASE UNCHANGED <<up, schunk, stype, input>> /\ (spc' = "master" \/ (spc' = "kill" /\ "client" \in sready /\ up = <<>>))
  <2>1. QueueInv' /\ DataInv'
    BY <1>0, <1>1, <1>2, UpGood, TtyData, ConnSameFacts DEF ConnSame
  <2>2. TypeInv'
    BY <1>0, <1>1, <1>2 DEF Inv, TypeInv, ConnSame, SPlaces, DownOK
  <2>3. PlaceInv' /\ HelloInv'
    BY <1>0, <1>2 DEF Inv, PlaceInv, HelloInv, ConnSame, TermReady, ClientReady
  <2>4. spc' = "kill" /\ typed = 0 /\ signals = 0 /\ fault # "none" => Told
    <3> SUFFICES ASSUME spc' = "kill", typed = 0, signals = 0, fault # "none" PROVE Told
      OBVIOUS
    <3>1. up = <<>> /\ "client" \in sready
      BY <1>2
    <3>2. cpc = "ended"
      BY <1>0, <3>1 DEF Inv, PlaceInv, ClientReady
    <3> QED
      BY <3>2 DEF Inv, FailInv, Told
  <2>5. FailInv'
    BY <1>0, <1>1, <1>2, <2>4 DEF Inv, FailInv, ConnSame
  <2> QED
    BY <2>1, <2>2, <2>3, <2>5 DEF Inv
<1>3. ASSUME NEW n \in 0 .. Room(schunk), up # <<>>, spc' = "master",
             Piece(up, n), up' = After(up, n), schunk' = ChunkAfter(up, schunk, n),
             stype' = TypeOf(up, schunk, stype),
             input' = IF stype' = "DATA" THEN input \o Written(Data(up, n)) ELSE input
      PROVE  Inv'
  <2>0. /\ up \in Seq(Messages(Key)) /\ schunk \in Nat /\ Whole(up) /\ Chunk(up, schunk)
        /\ (schunk > 0 => stype = "DATA") /\ input \in Seq(Key) /\ sent \in Seq(Key) /\ sent = input \o Bytes(up)
    BY DEF Inv, TypeInv, QueueInv, ChunkExact, DataInv
  <2>1. n \in Nat
    BY <2>0, RoomFacts
  <2>2. Got(Key, up, schunk, stype, n)
    BY <1>3, <2>0, <2>1, ReadFacts
  <2>3. /\ up' \in Seq(Messages(Key)) /\ Whole(up') /\ schunk' \in Nat /\ Chunk(up', schunk')
        /\ schunk' > 0 => stype' = "DATA"
    BY <1>3, <2>2 DEF Got
  <2> DEFINE e == Data(up, n)  b == Bytes(up')
  <2>4. /\ stype' = "DATA" => e \in Seq(Key) /\ Bytes(up) = e \o b /\ input' = input \o e
        /\ stype' # "DATA" => Bytes(up) = b /\ input' = input
    BY <1>3, <2>2 DEF Got, Written
  <2>5. b \in Seq(Key)
    BY <2>3, BytesType
  <2> HIDE DEF e, b
  <2>6. input' \in Seq(Key) /\ input' \o b = input \o Bytes(up)
    <3>1. CASE stype' = "DATA"
      <4>1. input \in Seq(Key) /\ e \in Seq(Key)
        BY <2>0, <2>4, <3>1
      <4>2. input \o e \in Seq(Key)
        BY <4>1, ConcatProperties
      <4>3. (input \o e) \o b = input \o (e \o b)
        BY <2>5, <4>1, ConcatAssociative
      <4> QED
        BY <2>4, <3>1, <4>2, <4>3
    <3>2. CASE stype' # "DATA"
      BY <2>0, <2>4, <3>2
    <3> QED
      BY <3>1, <3>2
  <2>7. GoodUp(up', schunk', sent', input')
    BY <1>0, <2>0, <2>3, <2>6 DEF GoodUp, ConnSame, b
  <2>8. QueueInv' /\ DataInv'
    BY <1>0, <1>1, <2>3, <2>7, TtyData, ConnSameFacts DEF ConnSame
  <2>9. TypeInv'
    BY <1>0, <1>1, <1>3, <2>3, <2>6 DEF Inv, TypeInv, ConnSame, SPlaces, DownOK
  <2>10. cpc # "hello"
    BY <1>3 DEF Inv, HelloInv
  <2>11. PlaceInv' /\ HelloInv'
    BY <1>0, <1>3, <2>10 DEF Inv, PlaceInv, HelloInv, ConnSame, TermReady, ClientReady
  <2>12. FailInv'
    BY <1>0, <1>1, <1>3 DEF Inv, FailInv, ConnSame
  <2> QED
    BY <2>8, <2>9, <2>11, <2>12 DEF Inv
<1> QED
  BY <1>2, <1>3 DEF TtyClient

\* Output of the login program goes behind the other messages, in a piece that
\* fits in the buffer
LEMMA MasterKeeps ==
  ASSUME Inv, TtyMaster
  PROVE  Inv'
<1> DEFINE n == IF Len(ptyOut) < BufSize THEN Len(ptyOut) ELSE BufSize
           e == SubSeq(ptyOut, 1, n)  r == SubSeq(ptyOut, n + 1, Len(ptyOut))
<1>0. /\ spc = "master" /\ ConnSame /\ sready' = {}
      /\ UNCHANGED <<schunk, shutdown, input, child, wrote, up, downOpen, signals>>
      /\ \/ spc' = "test" /\ UNCHANGED <<down, ptyOut, stype>>
         \/ /\ stype' = "DATA" /\ ptyOut' = r /\ Reply(Msg("DATA", e))
            /\ spc' = IF upOpen THEN "test" ELSE "kill"
  BY DEF TtyMaster, conn, ConnSame
<1>1. /\ ptyOut \in Seq(Nat) /\ shown \in Seq(Nat) /\ Len(ptyOut) \in Nat /\ wrote \in Nat /\ Len(ptyOut) <= wrote
      /\ down \in Seq(Messages(Nat))
  BY IucvAssumption DEF Inv, TypeInv
<1>2. n \in 0 .. Len(ptyOut)
  BY <1>1, IucvAssumption
<1> HIDE DEF n
<1>3. e \in Seq(Nat) /\ r \in Seq(Nat) /\ Len(r) <= Len(ptyOut) /\ e \o r = ptyOut
  BY <1>1, <1>2, CutFacts
<1> HIDE DEF e, r
<1>4. CASE spc' = "test" /\ UNCHANGED <<down, ptyOut, stype>>
  <2>1. DownOK' /\ (Told => Told')
    BY <1>0, <1>4, NoReply DEF ConnSame
  <2>2. QueueInv' /\ DataInv'
    BY <1>0, <1>4, <2>1, UpGood, TtyData, ConnSameFacts DEF ConnSame
  <2>3. TypeInv'
    BY <1>0, <1>4, <2>1 DEF Inv, TypeInv, ConnSame, SPlaces, DownOK
  <2>4. PlaceInv' /\ HelloInv'
    BY <1>0, <1>4 DEF Inv, PlaceInv, HelloInv, ConnSame, TermReady, ClientReady
  <2>5. FailInv'
    BY <1>0, <1>4, <2>1 DEF Inv, FailInv, ConnSame
  <2> QED
    BY <2>2, <2>3, <2>4, <2>5 DEF Inv
<1>5. CASE stype' = "DATA" /\ ptyOut' = r /\ Reply(Msg("DATA", e)) /\ spc' = IF upOpen THEN "test" ELSE "kill"
  <2> DEFINE m == Msg("DATA", e)
  <2>0. m \in Messages(Nat) /\ m.type = "DATA" /\ Load(m) = e
    BY <1>3 DEF Msg, Messages, Load
  <2>1. Reply(m) /\ UNCHANGED cchunk
    BY <1>0, <1>5 DEF ConnSame
  <2> HIDE DEF m
  <2>2. /\ down' \in Seq(Messages(Nat)) /\ Whole(down)' /\ Chunk(down, cchunk)'
        /\ upOpen => Bytes(down)' = Bytes(down) \o e
        /\ down # <<>> => down' # <<>>
        /\ (\E i \in DOMAIN down : down[i].type = "ERROR") => \E i \in DOMAIN down' : down'[i].type = "ERROR"
    BY <2>0, <2>1, ReplyFacts
  <2>3. Told => Told'
    BY <1>0, <2>2 DEF Told, ConnSame
  <2>4. OutputConserved'
    <3> SUFFICES ASSUME upOpen PROVE (shown \o (Bytes(down) \o e)) \o r = Count(wrote)
      BY <1>0, <1>5, <2>2 DEF OutputConserved, Count, ConnSame
    <3> DEFINE b == Bytes(down)
    <3>0. (shown \o b) \o ptyOut = Count(wrote)
      BY DEF Inv, DataInv, OutputConserved, Count
    <3>1. b \in Seq(Nat)
      BY <1>1, BytesType
    <3> HIDE DEF b
    <3> DEFINE x == shown
    <3>2. x \in Seq(Nat) /\ e \in Seq(Nat) /\ r \in Seq(Nat)
      BY <1>1, <1>3
    <3> HIDE DEF x
    <3>3. x \o b \in Seq(Nat)
      BY <3>1, <3>2, ConcatProperties
    <3>6. \A u, v, w \in Seq(Nat) : (u \o v) \o w = u \o (v \o w)
      <4>1. Associative(Nat)
        BY Assoc
      <4> QED
        BY <4>1 DEF Associative
    <3>4. (x \o b) \o e = x \o (b \o e)
      BY <3>1, <3>2, <3>6
    <3>5. ((x \o b) \o e) \o r = (x \o b) \o (e \o r)
      BY <3>2, <3>3, <3>6
    <3> QED
      BY <1>3, <3>0, <3>4, <3>5 DEF b, x
  <2>5. DownOK'
    BY <2>2, <2>4 DEF DownOK
  <2>6. QueueInv' /\ DataInv'
    BY <1>0, <1>5, <2>5, UpGood, TtyData, ConnSameFacts DEF ConnSame
  <2>7. Len(ptyOut') <= wrote /\ ptyOut' \in Seq(Nat)
    BY <1>1, <1>3, <1>5
  <2>8. TypeInv'
    BY <1>0, <1>5, <2>2, <2>7 DEF Inv, TypeInv, ConnSame, SPlaces
  <2>9. PlaceInv' /\ HelloInv'
    BY <1>0, <1>5, <2>2 DEF Inv, PlaceInv, HelloInv, ConnSame, TermReady, ClientReady
  <2>10. spc' = "kill" /\ typed = 0 /\ signals = 0 /\ fault # "none" => Told
    <3>1. spc' = "kill" => cpc = "ended"
      BY <1>5 DEF Inv, PlaceInv
    <3> QED
      BY <3>1 DEF Inv, FailInv, Told
  <2>11. FailInv'
    BY <1>0, <1>5, <2>3, <2>10 DEF Inv, FailInv, ConnSame
  <2> QED
    BY <2>6, <2>8, <2>9, <2>11 DEF Inv
<1> QED
  BY <1>0, <1>4, <1>5

-----------------------------------------------------------------------------
(* The invariant holds, and what follows from it. *)

LEMMA InitHolds ==
  ASSUME Init
  PROVE  Inv
<1> USE IucvAssumption DEF Init
<1>1. window \in Windows
  OBVIOUS
<1>2. /\ <<>> \in Seq(Messages(Key)) /\ <<>> \in Seq(Messages(Nat)) /\ <<>> \in Seq(Key) /\ <<>> \in Seq(Nat)
      /\ Len(<<>>) = 0 /\ DOMAIN <<>> = {}
  BY EmptySeq
<1>3. TypeInv
  <2>1. upOpen \in BOOLEAN /\ downOpen \in BOOLEAN /\ escMode \in BOOLEAN /\ resize \in BOOLEAN /\ shutdown \in BOOLEAN
    OBVIOUS
  <2>2. cpc \in CPlaces /\ spc \in SPlaces /\ fault \in Faults /\ child \in {"none", "setup", "login", "dead"}
    BY DEF CPlaces, SPlaces
  <2>3. typed \in 0 .. MaxKeys /\ wrote \in 0 .. MaxOutput /\ signals \in 0 .. MaxSignals
        /\ cchunk \in Nat /\ schunk \in Nat /\ Len(keys) <= typed /\ Len(ptyOut) <= wrote
    BY <1>2
  <2>4. /\ up \in Seq(Messages(Key)) /\ down \in Seq(Messages(Nat))
        /\ keys \in Seq(Key) /\ sent \in Seq(Key) /\ input \in Seq(Key)
        /\ ptyOut \in Seq(Nat) /\ shown \in Seq(Nat)
    BY <1>2
  <2> QED
    BY <1>1, <2>1, <2>2, <2>3, <2>4, Zenon DEF TypeInv
<1>4. QueueInv
  BY <1>2 DEF QueueInv, Whole, ChunkExact, Chunk
<1>5. PlaceInv /\ HelloInv
  BY DEF PlaceInv, HelloInv
<1>6. DataInv
  <2>1. Count(0) = <<>>
    <3>1. Count(0) \in Seq(Nat) /\ Len(Count(0)) = 0
      BY CountFacts
    <3> QED
      BY <3>1, EmptySeq
  <2>2. <<>> \o <<>> = <<>>
    BY <1>2, ConcatEmptySeq
  <2>3. OutputConserved
    BY <2>1, <2>2, BytesEmpty DEF OutputConserved, Count
  <2> QED
    BY <1>2, <2>1, <2>2, <2>3, BytesEmpty DEF DataInv
<1>7. FailInv
  BY DEF FailInv
<1> QED
  BY <1>3, <1>4, <1>5, <1>6, <1>7 DEF Inv

LEMMA StutterKeeps ==
  ASSUME Inv, UNCHANGED vars
  PROVE  Inv'
<1>1. Quiet /\ (upOpen' => upOpen)
  BY DEF vars, conn, tty, login, net, Quiet
<1>2. UNCHANGED <<cpc, cready, resize, window, spc, sready, shutdown, child, upOpen, downOpen, signals>>
  BY DEF vars, conn, tty, login, net
<1>3. TypeInv'
  BY <1>1, <1>2 DEF Inv, TypeInv, Quiet
<1>4. PlaceInv' /\ HelloInv'
  BY <1>1, <1>2 DEF Inv, PlaceInv, HelloInv, TermReady, ClientReady, Quiet
<1>5. FailInv'
  BY <1>1, <1>2 DEF Inv, FailInv, Told, Quiet
<1> QED
  BY <1>1, <1>3, <1>4, <1>5, QuietData DEF Inv

LEMMA InvKept ==
  ASSUME Inv, [Next]_vars
  PROVE  Inv'
<1>1. CASE Conn
  BY <1>1, HelloKeeps, TopKeeps, ConnQuiet, TerminalKeeps, StdinKeeps DEF Conn
<1>2. CASE Tty
  BY <1>2, AcceptKeeps, TermenvKeeps, TtyQuiet, ClientKeeps, MasterKeeps DEF Tty
<1>3. CASE ChildSetup
  BY <1>3, SetupKeeps
<1>4. CASE Outside
  BY <1>4, WritesKeeps, TtyQuiet, ConnQuiet, TypesKeeps DEF Outside
<1>5. CASE UNCHANGED vars
  BY <1>5, StutterKeeps
<1> QED
  BY <1>1, <1>2, <1>3, <1>4, <1>5 DEF Next

\* The inductive invariant: the queues hold whole messages behind the one that
\* was begun, a loop in the middle of a message knows that it is data, and the
\* bytes sent are those received and those in the queue.
THEOREM InvAlways == Spec => []Inv
<1>1. Init => Inv
  BY InitHolds
<1>2. Inv /\ [Next]_vars => Inv'
  BY InvKept
<1> QED
  BY <1>1, <1>2, PTL DEF Spec

LEMMA SocketFacts ==
  ASSUME Inv
  PROVE  SocketInv
<1>1. TypesOf(up) /\ TypesOf(down)
  <2>1. up \in Seq(Messages(Key)) /\ down \in Seq(Messages(Nat))
    BY DEF Inv, TypeInv
  <2>2. \A i \in DOMAIN up : up[i] \in Messages(Key)
    BY <2>1
  <2>3. \A i \in DOMAIN down : down[i] \in Messages(Nat)
    BY <2>1
  <2> QED
    BY <2>2, <2>3, MessageFacts DEF TypesOf
<1>2. {upOpen, downOpen, escMode, resize, shutdown} \subseteq BOOLEAN
  BY Zenon DEF Inv, TypeInv
<1>3. TypeOK
  BY <1>1, <1>2 DEF Inv, TypeInv, TypeOK, CPlaces, SPlaces
<1> QED
  BY <1>3 DEF Inv, SocketInv, QueueInv, DataInv

\* Sockets.  The number of bytes iucvtty_read_msg still expects is what is left
\* of the message in the socket, in both directions, and every byte of output
\* is on the screen, in a message or in the pty while iucvconn runs.
THEOREM SocketsExact == Spec => []SocketInv
<1>1. Inv => SocketInv
  BY SocketFacts
<1> QED
  BY <1>1, InvAlways, PTL

\* A refused client, a failed fork, login_tty or exec: iucvconn has shown the
\* error when it ends, unless the user or a signal ended it.
THEOREM FailuresShown == Spec => []FailureShown
<1>1. Inv => FailureShown
  BY DEF Inv, FailInv, FailureShown
<1> QED
  BY <1>1, InvAlways, PTL

-----------------------------------------------------------------------------
(* Each direction is a byte pipe. *)

LEMMA PrefixMeans ==
  ASSUME NEW S, NEW s \in Seq(S), NEW t \in Seq(S)
  PROVE  IsPrefix(s, s \o t)
<1>1. Len(s \o t) = Len(s) + Len(t)
  BY ConcatProperties
<1>2. Len(s) <= Len(s \o t)
  BY <1>1
<1>3. SubSeq(s \o t, 1, Len(s)) = s
  BY PrefixOfConcat
<1>4. SubSeq(s, 1, Len(s)) = s
  BY SubSeqFull
<1> QED
  BY <1>2, <1>3, <1>4 DEF IsPrefix

\* What a piece of a message adds to the bytes received
LEMMA PieceFacts ==
  ASSUME NEW S, NEW q \in Seq(Messages(S)), q # <<>>, Whole(q),
         NEW chunk \in Nat, Chunk(q, chunk), NEW type, chunk > 0 => type = "DATA",
         NEW n \in 0 .. Room(chunk), Piece(q, n), TypeOf(q, chunk, type) = "DATA"
  PROVE  Data(q, n) \in Seq(S)
<1>1. n \in Nat
  BY RoomFacts
<1>2. Got(S, q, chunk, type, n)
  BY <1>1, ReadFacts
<1> QED
  BY <1>2 DEF Got

\* A key is put in by iucvconn when it sends it, and comes out in the pty
InputMoves == \/ UNCHANGED <<sent, input>>
              \/ input' = input /\ \E d \in Seq(Key) : sent' = sent \o d
              \/ sent' = sent /\ \E d \in Seq(Key) : input' = input \o d

LEMMA InputStep ==
  ASSUME Inv, [Next]_vars
  PROVE  InputMoves
<1>1. CASE ConnStdin
  <2>1. input' = input /\ (sent' = sent \/ sent' = sent \o Input)
    BY <1>1 DEF ConnStdin, tty
  <2> QED
    BY <2>1, InputFacts DEF InputMoves
<1>2. CASE TtyClient
  <2>1. sent' = sent
    BY <1>2 DEF TtyClient, conn
  <2>2. \/ input' = input
        \/ \E n \in 0 .. Room(schunk) : /\ up # <<>> /\ Piece(up, n) /\ TypeOf(up, schunk, stype) = "DATA"
                                        /\ input' = input \o Data(up, n)
    BY <1>2 DEF TtyClient, Written
  <2>3. ASSUME NEW n \in 0 .. Room(schunk), up # <<>>, Piece(up, n), TypeOf(up, schunk, stype) = "DATA"
        PROVE  Data(up, n) \in Seq(Key)
    <3>1. /\ up \in Seq(Messages(Key)) /\ schunk \in Nat /\ Whole(up) /\ Chunk(up, schunk)
          /\ schunk > 0 => stype = "DATA"
      BY DEF Inv, TypeInv, QueueInv, ChunkExact
    <3> QED
      BY <2>3, <3>1, PieceFacts
  <2> QED
    BY <2>1, <2>2, <2>3 DEF InputMoves
<1>3. CASE Hello \/ ConnTop \/ ConnClear \/ ConnWait \/ ConnSelect \/ ConnTerminal \/ ConnClose
  BY <1>3 DEF Hello, ConnTop, ConnClear, ConnWait, ConnSelect, ConnTerminal, ConnClose, tty, InputMoves
<1>4. CASE Accept \/ RxTermenv \/ TtyTest \/ TtyWait \/ TtySelect \/ TtyMaster \/ KillLogin \/ TtyClose \/ ChildSetup
  BY <1>4 DEF Accept, RxTermenv, TtyTest, TtyWait, TtySelect, TtyMaster, KillLogin, TtyClose, ChildSetup, conn, InputMoves
<1>5. CASE Outside
  BY <1>5 DEF Outside, LoginWrites, LoginExits, TtyTerminated, ConnTerminated, UserTypes, WindowChanges, conn, tty, InputMoves
<1>6. CASE UNCHANGED vars
  BY <1>6 DEF vars, conn, tty, InputMoves
<1> QED
  BY <1>1, <1>2, <1>3, <1>4, <1>5, <1>6 DEF Next, Conn, Tty

\* A byte is put in by the login program, and comes out on the screen
OutputMoves == \/ UNCHANGED <<wrote, shown>>
               \/ shown' = shown /\ wrote' = wrote + 1
               \/ wrote' = wrote /\ \E d \in Seq(Nat) : shown' = shown \o d

LEMMA OutputStep ==
  ASSUME Inv, [Next]_vars
  PROVE  OutputMoves
<1>1. CASE LoginWrites
  BY <1>1 DEF LoginWrites, conn, OutputMoves
<1>2. CASE ConnTerminal
  <2>1. wrote' = wrote
    BY <1>2 DEF ConnTerminal, login
  <2>2. \/ shown' = shown
        \/ \E n \in 0 .. Room(cchunk) : /\ down # <<>> /\ Piece(down, n) /\ TypeOf(down, cchunk, ctype) = "DATA"
                                        /\ shown' = shown \o Data(down, n)
    BY <1>2 DEF ConnTerminal, Written, Drained
  <2>3. ASSUME NEW n \in 0 .. Room(cchunk), down # <<>>, Piece(down, n), TypeOf(down, cchunk, ctype) = "DATA"
        PROVE  Data(down, n) \in Seq(Nat)
    <3>1. /\ down \in Seq(Messages(Nat)) /\ cchunk \in Nat /\ Whole(down) /\ Chunk(down, cchunk)
          /\ cchunk > 0 => ctype = "DATA"
      BY DEF Inv, TypeInv, QueueInv, ChunkExact
    <3> QED
      BY <2>3, <3>1, PieceFacts
  <2> QED
    BY <2>1, <2>2, <2>3 DEF OutputMoves
<1>3. CASE Hello \/ ConnTop \/ ConnClear \/ ConnWait \/ ConnSelect \/ ConnStdin \/ ConnClose
  BY <1>3 DEF Hello, ConnTop, ConnClear, ConnWait, ConnSelect, ConnStdin, ConnClose, login, OutputMoves
<1>4. CASE Accept \/ RxTermenv \/ TtyTest \/ TtyWait \/ TtySelect \/ TtyClient \/ TtyMaster \/ KillLogin \/ TtyClose \/ ChildSetup
  BY <1>4 DEF Accept, RxTermenv, TtyTest, TtyWait, TtySelect, TtyClient, TtyMaster, KillLogin, TtyClose, ChildSetup,
              conn, login, OutputMoves
<1>5. CASE LoginExits \/ TtyTerminated \/ ConnTerminated \/ (\E c \in Chars : UserTypes(c))
           \/ \E w \in Windows : WindowChanges(w)
  BY <1>5 DEF LoginExits, TtyTerminated, ConnTerminated, UserTypes, WindowChanges, conn, login, OutputMoves
<1>6. CASE UNCHANGED vars
  BY <1>6 DEF vars, conn, login, OutputMoves
<1> QED
  BY <1>1, <1>2, <1>3, <1>4, <1>5, <1>6 DEF Next, Conn, Tty, Outside

LEMMA InputPipeStep ==
  ASSUME Inv, Inv', InputMoves
  PROVE  [InputPipe!Put \/ InputPipe!Get]_<<sent, input>>
<1>1. sent \in Seq(Key) /\ input \in Seq(Key) /\ input' \in Seq(Key) /\ sent' = input' \o Bytes(up')
  BY DEF Inv, TypeInv, DataInv, Bytes
<1>2. Bytes(up') \in Seq(Key)
  <2>1. up' \in Seq(Messages(Key))
    BY DEF Inv, TypeInv
  <2> QED
    BY <2>1, BytesType
<1>3. ASSUME input' = input, NEW d \in Seq(Key), sent' = sent \o d PROVE InputPipe!Put
  <2>1. IsPrefix(sent, sent')
    BY <1>1, <1>3, PrefixMeans
  <2> QED
    BY <1>3, <2>1 DEF InputPipe!Put, InputPipe!IsPrefix, IsPrefix
<1>4. ASSUME sent' = sent, NEW d \in Seq(Key), input' = input \o d PROVE InputPipe!Get
  <2>1. IsPrefix(input, input')
    BY <1>1, <1>4, PrefixMeans
  <2>2. IsPrefix(input', sent')
    BY <1>1, <1>2, PrefixMeans
  <2> QED
    BY <1>4, <2>1, <2>2 DEF InputPipe!Get, InputPipe!IsPrefix, IsPrefix
<1> QED
  BY <1>3, <1>4 DEF InputMoves

LEMMA OutputPipeStep ==
  ASSUME Inv, Inv', OutputMoves
  PROVE  [OutputPipe!Put \/ OutputPipe!Get]_<<[i \in 1 .. wrote |-> i], shown>>
<1>1. /\ wrote \in Nat /\ shown \in Seq(Nat) /\ shown' \in Seq(Nat)
      /\ \E t \in Seq(Nat) : shown' \o t = Count(wrote')
  <2>1. wrote \in Nat
    BY IucvAssumption DEF Inv, TypeInv
  <2>2. shown \in Seq(Nat) /\ shown' \in Seq(Nat)
    BY DEF Inv, TypeInv
  <2>3. \E t \in Seq(Nat) : shown' \o t = Count(wrote')
    BY DEF Inv, DataInv, Count
  <2> QED
    BY <2>1, <2>2, <2>3
<1>2. ASSUME shown' = shown, wrote' = wrote + 1 PROVE OutputPipe!Put
  <2>1. Count(wrote') = Count(wrote) \o <<wrote + 1>>
    <3>1. Count(wrote) \in Seq(Nat) /\ Count(wrote + 1) = Append(Count(wrote), wrote + 1)
      BY <1>1, CountFacts
    <3>2. wrote + 1 \in Nat
      BY <1>1
    <3>3. Append(Count(wrote), wrote + 1) = Count(wrote) \o <<wrote + 1>>
      BY <3>1, <3>2, AppendIsConcat
    <3> QED
      BY <1>2, <3>1, <3>3
  <2>2. Count(wrote) \in Seq(Nat) /\ <<wrote + 1>> \in Seq(Nat)
    BY <1>1, CountFacts
  <2>3. IsPrefix(Count(wrote), Count(wrote'))
    BY <2>1, <2>2, PrefixMeans
  <2> QED
    BY <1>2, <2>3 DEF OutputPipe!Put, OutputPipe!IsPrefix, IsPrefix, Count
<1>3. ASSUME wrote' = wrote, NEW d \in Seq(Nat), shown' = shown \o d PROVE OutputPipe!Get
  <2>1. IsPrefix(shown, shown')
    BY <1>1, <1>3, PrefixMeans
  <2>2. IsPrefix(shown', Count(wrote))
    <3>1. PICK t \in Seq(Nat) : shown' \o t = Count(wrote)
      BY <1>1, <1>3
    <3>2. IsPrefix(shown', shown' \o t)
      BY <1>1, PrefixMeans
    <3> QED
      BY <3>1, <3>2
  <2> QED
    BY <1>3, <2>1, <2>2 DEF OutputPipe!Get, OutputPipe!IsPrefix, IsPrefix, Count
<1> QED
  BY <1>2, <1>3 DEF OutputMoves

\* Both directions of a session implement a byte pipe: whatever the sizes of
\* the messages, of the buffers and of the pieces that are read, and whatever
\* ends the session, the pty gets the keys that were sent and the screen the
\* bytes that the login program wrote, in order and each once.
THEOREM PipesImplemented == Spec => ImplementsPipes
<1>1. Init => InputPipe!Init
  BY DEF Init, InputPipe!Init
<1>2. Init => OutputPipe!Init
  <2>1. Count(0) \in Seq(Nat) /\ Len(Count(0)) = 0
    BY CountFacts
  <2>2. Count(0) = <<>>
    BY <2>1, EmptySeq
  <2> QED
    BY <2>2 DEF Init, OutputPipe!Init, Count
<1>3. Inv /\ Inv' /\ [Next]_vars => [InputPipe!Put \/ InputPipe!Get]_<<sent, input>>
  BY InputStep, InputPipeStep
<1>4. Inv /\ Inv' /\ [Next]_vars => [OutputPipe!Put \/ OutputPipe!Get]_<<[i \in 1 .. wrote |-> i], shown>>
  BY OutputStep, OutputPipeStep
<1>5. Spec => InputPipe!Spec
  BY <1>1, <1>3, InvAlways, PTL DEF Spec, InputPipe!Spec
<1>6. Spec => OutputPipe!Spec
  BY <1>2, <1>4, InvAlways, PTL DEF Spec, OutputPipe!Spec
<1> QED
  BY <1>5, <1>6 DEF ImplementsPipes
=============================================================================
