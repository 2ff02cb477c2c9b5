---------------------------- MODULE FdasdProofs ----------------------------
(***************************************************************************)
(* The partition table of fdasd is sound and the same in every place that  *)
(* keeps it, for volumes of any size and geometry, any number of           *)
(* partitions and any number of commands and sessions.                     *)
(*                                                                         *)
(* The free-space labels come first: what AddFree and DelFree do to the    *)
(* set of free tracks, in format 7, and in format 5, whose extents stand   *)
(* for extents of format 7.  Then the list of partitions with the gaps     *)
(* between them, the labels as they are written and read back, and the     *)
(* free space that fdasd_reuse_vtoc makes from the counters.  The last     *)
(* part has the inductive invariant (Inv), one lemma for each action, and  *)
(* the theorems.                                                           *)
(***************************************************************************)
EXTENDS Fdasd, Integers, Sequences, FiniteSetsExt, Functions, SequenceTheorems, FiniteSetTheorems, TLAPS

-----------------------------------------------------------------------------
(* Sets, numbers and sequences.                                            *)

\* A set of natural numbers that is not empty has a least element.
LEMMA LeastNat ==
  ASSUME NEW T \in SUBSET Nat, T # {}
  PROVE  \E m \in T : \A k \in T : m <= k
<1> DEFINE R == {ss \in Nat \X Nat : ss[1] < ss[2]}
<1>1. IsWellFoundedOn(R, Nat)
  BY NatLessThanWellFounded, Zenon DEF OpToRel
<1>2. PICK x \in T : \A y \in T : ~(<<y, x>> \in R)
  BY <1>1, WFMin
<1>3. ASSUME NEW y \in T PROVE x <= y
  <2>1. <<y, x>> \in Nat \X Nat /\ <<y, x>>[1] = y /\ <<y, x>>[2] = x
    OBVIOUS
  <2>2. ~ (y < x)
    BY <1>2, <2>1
  <2> QED
    BY <2>2
<1> QED
  BY <1>3

\* Induction: a set with 0 and with the successors of its elements has all
\* natural numbers.
LEMMA Induct ==
  ASSUME NEW S, 0 \in S, \A n \in Nat : n \in S => n + 1 \in S
  PROVE  Nat \subseteq S
<1> SUFFICES ASSUME Nat \ S # {} PROVE FALSE
  OBVIOUS
<1>1. PICK m \in Nat \ S : \A k \in Nat \ S : m <= k
  BY LeastNat
<1>2. m # 0 /\ m - 1 \in Nat /\ m - 1 \notin Nat \ S
  BY <1>1
<1> QED
  BY <1>1, <1>2

\* A bounded set of natural numbers that is not empty has a greatest element.
LEMMA GreatestNat ==
  ASSUME NEW T \in SUBSET Nat, T # {}, NEW n \in Nat, \A k \in T : k <= n
  PROVE  \E m \in T : \A k \in T : k <= m
<1> DEFINE U == {i \in Nat : n - i \in T}
<1>1. U # {}
  <2>1. PICK k \in T : TRUE
    OBVIOUS
  <2>2. n - k \in Nat /\ n - (n - k) = k
    BY <2>1
  <2> QED
    BY <2>1, <2>2
<1>2. PICK i \in U : \A j \in U : i <= j
  BY <1>1, LeastNat
<1>3. ASSUME NEW k \in T PROVE k <= n - i
  <2>1. n - k \in U
    <3>1. n - k \in Nat /\ n - (n - k) = k
      OBVIOUS
    <3> QED
      BY <3>1
  <2> QED
    BY <1>2, <2>1
<1> QED
  BY <1>2, <1>3

\* Min and Max of such sets.
LEMMA MinFacts ==
  ASSUME NEW S \in SUBSET Nat, S # {}
  PROVE  Min(S) \in S /\ \A k \in S : Min(S) <= k
<1>1. \E m \in S : \A k \in S : m <= k
  BY LeastNat
<1> QED
  BY <1>1 DEF Min

\* One element more, one fewer.
LEMMA CardFacts ==
  ASSUME NEW S, IsFiniteSet(S), NEW x
  PROVE  /\ Cardinality(S) \in Nat
         /\ Cardinality(S) = 0 <=> S = {}
         /\ IsFiniteSet(S \cup {x}) /\ IsFiniteSet(S \ {x})
         /\ x \in S => Cardinality(S \ {x}) = Cardinality(S) - 1 /\ Cardinality(S) >= 1
         /\ x \notin S => Cardinality(S \cup {x}) = Cardinality(S) + 1
<1>1. Cardinality(S) \in Nat /\ (Cardinality(S) = 0 <=> S = {})
  BY FS_CardinalityType, FS_EmptySet
<1>2. IsFiniteSet(S \cup {x}) /\ Cardinality(S \cup {x}) = IF x \in S THEN Cardinality(S) ELSE Cardinality(S) + 1
  BY FS_AddElement
<1>3. IsFiniteSet(S \ {x}) /\ Cardinality(S \ {x}) = IF x \in S THEN Cardinality(S) - 1 ELSE Cardinality(S)
  BY FS_RemoveElement
<1> QED
  BY <1>1, <1>2, <1>3

-----------------------------------------------------------------------------
(* Format 7: extents that neither overlap nor touch.                       *)

Apart(e, g) == e.b < g.a \/ g.b < e.a

Label7(f) ==
  /\ f \subseteq Extents7 /\ \A e \in f : e.a < e.b
  /\ \A e, g \in f : e # g => Apart(e, g)

\* The extent that has a track
LEMMA InTracks7 ==
  ASSUME NEW f, Label7(f), NEW x \in Int
  PROVE  x \in Tracks7(f) <=> \E e \in f : e.a <= x /\ x < e.b
<1>1. \A e \in f : e.a \in Nat /\ e.b \in Nat
  BY DEF Label7, Extents7
<1>2. \A e \in f : x \in e.a .. (e.b - 1) <=> e.a <= x /\ x < e.b
  BY <1>1
<1> QED
  BY <1>2 DEF Tracks7

\* Two labels for the same tracks, extent by extent
LEMMA SameTracks7 ==
  ASSUME NEW f, Label7(f), NEW T \in SUBSET Int,
         \A x \in Int : x \in T <=> \E e \in f : e.a <= x /\ x < e.b
  PROVE  Tracks7(f) = T
<1>1. Tracks7(f) \subseteq Int
  BY DEF Tracks7, Label7, Extents7
<1> QED
  BY <1>1, InTracks7

\* Adding joins the new extent with its neighbours
LEMMA Add7Facts ==
  ASSUME NEW f, Label7(f), NEW a \in Nat, NEW b \in Nat, a < b,
         \A x \in a .. (b - 1) : x \notin Tracks7(f)
  PROVE  Label7(Add7(f, a, b)) /\ Tracks7(Add7(f, a, b)) = Tracks7(f) \cup a .. (b - 1)
<1> DEFINE pred == {e \in f : e.b = a}
           succ == {e \in f : e.a = b}
           lo == IF pred = {} THEN a ELSE (CHOOSE e \in pred : TRUE).a
           hi == IF succ = {} THEN b ELSE (CHOOSE e \in succ : TRUE).b
           rest == f \ (pred \cup succ)
<1>t. \A e \in f : e.a \in Nat /\ e.b \in Nat /\ e.a < e.b
  BY DEF Label7, Extents7
<1>s. \A e, g \in f : e # g => e.b < g.a \/ g.b < e.a
  BY DEF Label7, Apart
<1>1. \A e \in f : e.b <= a \/ b <= e.a
  <2> SUFFICES ASSUME NEW e \in f, a < e.b, e.a < b PROVE FALSE
    BY <1>t
  <2> DEFINE x == IF e.a <= a THEN a ELSE e.a
  <2>1. x \in a .. (b - 1) /\ e.a <= x /\ x < e.b
    BY <1>t
  <2> QED
    BY <2>1, InTracks7
<1>2. \A e, g \in pred : e = g
  BY <1>s, <1>t
<1>3. \A e, g \in succ : e = g
  BY <1>s, <1>t
<1>4. (pred = {} /\ lo = a) \/ \E p \in pred : pred = {p} /\ lo = p.a
  BY <1>2
<1>5. (succ = {} /\ hi = b) \/ \E s \in succ : succ = {s} /\ hi = s.b
  BY <1>3
<1>6. lo \in Nat /\ lo <= a /\ hi \in Nat /\ b <= hi
  BY <1>t, <1>4, <1>5
<1>7. \A e \in rest : e.b < lo \/ hi < e.a
  BY <1>1, <1>4, <1>5, <1>s, <1>t
<1>8. Add7(f, a, b) = rest \cup {Ext7(lo, hi)}
  BY DEF Add7
<1>9. \A x \in Int : lo <= x /\ x < hi <=> (a <= x /\ x < b) \/ \E e \in pred \cup succ : e.a <= x /\ x < e.b
  BY <1>4, <1>5, <1>t
<1> HIDE DEF lo, hi, pred, succ
<1>10. Ext7(lo, hi) \in Extents7 /\ Ext7(lo, hi).a = lo /\ Ext7(lo, hi).b = hi /\ lo < hi
  BY <1>6 DEF Ext7, Extents7
<1>11. Label7(Add7(f, a, b))
  <2>1. rest \subseteq Extents7 /\ \A e, g \in rest : e # g => Apart(e, g)
    BY DEF Label7
  <2> QED
    BY <1>7, <1>8, <1>10, <1>t, <2>1 DEF Label7, Apart
<1>12. ASSUME NEW x \in Int
       PROVE  x \in Tracks7(f) \cup a .. (b - 1) <=> \E e \in Add7(f, a, b) : e.a <= x /\ x < e.b
  <2>1. (\E e \in Add7(f, a, b) : e.a <= x /\ x < e.b)
          <=> (\E e \in rest : e.a <= x /\ x < e.b) \/ (lo <= x /\ x < hi)
    BY <1>8, <1>10
  <2>2. f = rest \cup (pred \cup succ)
    BY DEF pred, succ
  <2>3. (\E e \in f : e.a <= x /\ x < e.b)
          <=> (\E e \in rest : e.a <= x /\ x < e.b) \/ (\E e \in pred \cup succ : e.a <= x /\ x < e.b)
    BY <2>2
  <2>4. x \in a .. (b - 1) <=> a <= x /\ x < b
    OBVIOUS
  <2> QED
    BY <1>9, <2>1, <2>3, <2>4, InTracks7
<1>13. Tracks7(f) \cup a .. (b - 1) \subseteq Int
  BY <1>t DEF Tracks7
<1> QED
  BY <1>11, <1>12, <1>13, SameTracks7

\* Free tracks without a break are in one extent
LEMMA OneExtent ==
  ASSUME NEW f, Label7(f), NEW a \in Nat, NEW b \in Nat, a < b,
         \A x \in a .. (b - 1) : x \in Tracks7(f)
  PROVE  \E e \in f : e.a <= a /\ b <= e.b
<1>t. \A e \in f : e.a \in Nat /\ e.b \in Nat /\ e.a < e.b
  BY DEF Label7, Extents7
<1>1. PICK e \in f : e.a <= a /\ a < e.b
  BY InTracks7
<1>2. CASE e.b < b
  <2>1. e.b \in Tracks7(f)
    BY <1>t, <1>1, <1>2
  <2>2. PICK g \in f : g.a <= e.b /\ e.b < g.b
    BY <1>t, <2>1, InTracks7
  <2> QED
    BY <1>t, <2>2 DEF Label7, Apart
<1> QED
  BY <1>1, <1>2, <1>t
\* Deleting leaves what is in front and what is behind
LEMMA Del7Facts ==
  ASSUME NEW f, Label7(f), NEW a \in Nat, NEW b \in Nat, a < b,
         \A x \in a .. (b - 1) : x \in Tracks7(f)
  PROVE  Label7(Del7(f, a, b)) /\ Tracks7(Del7(f, a, b)) = Tracks7(f) \ (a .. (b - 1))
<1>t. \A e \in f : e.a \in Nat /\ e.b \in Nat /\ e.a < e.b /\ e = Ext7(e.a, e.b)
  BY DEF Label7, Extents7, Ext7
<1>s. \A e, g \in f : e # g => e.b < g.a \/ g.b < e.a
  BY DEF Label7, Apart
<1>1. PICK e \in f : e.a <= a /\ b <= e.b
  BY OneExtent
<1>2. Within7(f, a, b) = {e}
  BY <1>1, <1>s, <1>t DEF Within7
<1> DEFINE lower == IF e.a < a THEN {Ext7(e.a, a)} ELSE {}
           upper == IF b < e.b THEN {Ext7(b, e.b)} ELSE {}
<1>3. Del7(f, a, b) = (f \ {e}) \cup lower \cup upper
  <2>1. (CHOOSE x \in Within7(f, a, b) : TRUE) = e
    BY <1>2
  <2>0. Del7(f, a, b) = CASE a = e.a /\ b = e.b -> f \ {e}
                          [] a = e.a /\ b < e.b -> (f \ {e}) \cup {Ext7(b, e.b)}
                          [] a > e.a /\ b = e.b -> (f \ {e}) \cup {Ext7(e.a, a)}
                          [] OTHER -> (Add7(f, b, e.b) \ {e}) \cup {Ext7(e.a, a)}
    BY <2>1 DEF Del7
  <2>2. CASE a = e.a /\ b = e.b
    BY <2>0, <2>2, <1>t
  <2>3. CASE a = e.a /\ b < e.b
    BY <2>0, <2>3, <1>t
  <2>4. CASE a > e.a /\ b = e.b
    BY <2>0, <2>4, <1>t
  <2>5. CASE a > e.a /\ b < e.b
    <3>1. {x \in f : x.b = b} = {}
      BY <2>5, <1>s, <1>t
    <3>2. {x \in f : x.a = e.b} = {}
      BY <1>s, <1>t
    <3>3. Add7(f, b, e.b) = f \cup {Ext7(b, e.b)}
      BY <3>1, <3>2 DEF Add7
    <3>4. Ext7(b, e.b) # e
      BY <1>1, <1>t DEF Ext7
    <3>5. Del7(f, a, b) = (Add7(f, b, e.b) \ {e}) \cup {Ext7(e.a, a)}
      BY <2>0, <2>5, <1>t
    <3> QED
      BY <2>5, <3>3, <3>4, <3>5
  <2> QED
    BY <1>1, <1>t, <2>2, <2>3, <2>4, <2>5
<1>4. /\ \A g \in lower : g \in Extents7 /\ g.a = e.a /\ g.b = a /\ e.a < a
      /\ \A g \in upper : g \in Extents7 /\ g.a = b /\ g.b = e.b /\ b < e.b
  BY <1>t DEF Ext7, Extents7
<1>5. /\ e.a < a => \E g \in lower : g.a = e.a /\ g.b = a
      /\ b < e.b => \E g \in upper : g.a = b /\ g.b = e.b
  BY DEF Ext7
<1>6. \A g, h \in lower : g = h
  OBVIOUS
<1>7. \A g, h \in upper : g = h
  OBVIOUS
<1> HIDE DEF lower, upper
<1>8. Label7(Del7(f, a, b))
  <2>1. \A g \in f \ {e} : g \in Extents7 /\ (g.b < e.a \/ e.b < g.a)
    BY <1>s DEF Label7
  <2>2. \A g \in Del7(f, a, b) : g \in Extents7 /\ g.a < g.b
    BY <1>3, <1>4, <1>t, <2>1
  <2>3. \A g, h \in Del7(f, a, b) : g # h => g.b < h.a \/ h.b < g.a
    BY <1>1, <1>3, <1>4, <1>6, <1>7, <1>s, <1>t, <2>1
  <2> QED
    BY <2>2, <2>3 DEF Label7, Apart
<1>9. ASSUME NEW x \in Int
      PROVE  x \in Tracks7(f) \ (a .. (b - 1)) <=> \E g \in Del7(f, a, b) : g.a <= x /\ x < g.b
  <2>1. (\E g \in Del7(f, a, b) : g.a <= x /\ x < g.b)
          <=> \/ \E g \in f \ {e} : g.a <= x /\ x < g.b
              \/ e.a <= x /\ x < a
              \/ b <= x /\ x < e.b
    BY <1>1, <1>3, <1>4, <1>5, <1>t
  <2>2. x \in a .. (b - 1) <=> a <= x /\ x < b
    OBVIOUS
  <2>3. x \in Tracks7(f) <=> \/ \E g \in f \ {e} : g.a <= x /\ x < g.b
                             \/ e.a <= x /\ x < e.b
    BY <1>1, InTracks7
  <2>4. \A g \in f \ {e} : g.a <= x /\ x < g.b => ~(a <= x /\ x < b)
    BY <1>1, <1>s, <1>t
  <2> QED
    BY <1>1, <1>t, <2>1, <2>2, <2>3, <2>4
<1>10. Tracks7(f) \ (a .. (b - 1)) \subseteq Int
  BY <1>t DEF Tracks7
<1> QED
  BY <1>8, <1>9, <1>10, SameTracks7

-----------------------------------------------------------------------------
(* Format 5: an extent of cylinders and tracks stands for one of tracks.   *)

Extents5 == [t : Nat, fc : Nat, ft : 0 .. (Heads - 1)]

As7(e) == Ext7(e.t, End5(e))

All7(f) == {As7(e) : e \in f}

Label5(f) == f \subseteq Extents5 /\ Label7(All7(f))

\* Cylinders and tracks of a number of tracks
LEMMA DivFacts ==
  ASSUME NEW n \in Int, NEW h \in Nat \ {0}
  PROVE  /\ n \div h \in Int /\ n % h \in 0 .. (h - 1) /\ n = (n \div h) * h + (n % h)
         /\ n \in Nat => n \div h \in Nat
<1>1. n \div h \in Int
  OBVIOUS
<1>2. n % h \in 0 .. (h - 1)
  OBVIOUS
<1>3. n = (n \div h) * h + (n % h)
  OBVIOUS
<1>4. ASSUME n \in Nat PROVE n \div h \in Nat
  <2> DEFINE q == n \div h
             r == n % h
  <2>1. q \in Int /\ r \in 0 .. (h - 1) /\ n = q * h + r
    BY <1>1, <1>2, <1>3
  <2> HIDE DEF q, r
  <2> SUFFICES ASSUME q <= -1 PROVE FALSE
    BY <2>1 DEF q
  <2>2. q * h <= (-1) * h
    BY <2>1
  <2> QED
    BY <1>4, <2>1, <2>2
<1> QED
  BY <1>1, <1>2, <1>3, <1>4

LEMMA DivUnique ==
  ASSUME NEW h \in Nat \ {0}, NEW q \in Int, NEW p \in Int,
         NEW r \in 0 .. (h - 1), NEW s \in 0 .. (h - 1), q * h + r = p * h + s
  PROVE  q = p /\ r = s
<1>1. ASSUME NEW x \in Int, NEW y \in Int, x < y PROVE x * h + h <= y * h
  <2>1. x + 1 <= y
    BY <1>1
  <2>2. (x + 1) * h <= y * h
    BY <2>1
  <2> QED
    BY <2>2
<1>2. ~(q < p) /\ ~(p < q)
  BY <1>1
<1> QED
  BY <1>2

LEMMA Size5Facts ==
  ASSUME NEW e \in Extents5
  PROVE  /\ Size5(e) \in Nat /\ End5(e) \in Nat /\ End5(e) = e.t + Size5(e)
         /\ As7(e) \in Extents7 /\ As7(e).a = e.t /\ As7(e).b = End5(e)
<1>1. e.fc \in Nat /\ e.ft \in Nat /\ e.t \in Nat /\ Heads \in Nat
  BY GeometryAssumption DEF Extents5
<1>2. e.fc * Heads \in Nat
  BY <1>1
<1> QED
  BY <1>1, <1>2 DEF Size5, End5, As7, Ext7, Extents7

\* An extent is known by its start and size
LEMMA Extent5Unique ==
  ASSUME NEW e \in Extents5, NEW g \in Extents5, e.t = g.t, Size5(e) = Size5(g)
  PROVE  e = g
<1>1. e.fc * Heads + e.ft = g.fc * Heads + g.ft
  BY DEF Size5
<1>2. /\ e.fc \in Int /\ g.fc \in Int /\ e.ft \in 0 .. (Heads - 1) /\ g.ft \in 0 .. (Heads - 1)
      /\ Heads \in Nat \ {0}
  BY GeometryAssumption DEF Extents5
<1>3. e.fc = g.fc /\ e.ft = g.ft
  BY <1>1, <1>2, DivUnique
<1> QED
  BY <1>3 DEF Extents5

LEMMA As7Injective ==
  ASSUME NEW e \in Extents5, NEW g \in Extents5, As7(e) = As7(g)
  PROVE  e = g
<1>1. e.t = g.t /\ End5(e) = End5(g)
  BY Size5Facts
<1>2. Size5(e) = Size5(g)
  BY <1>1, Size5Facts DEF Extents5
<1> QED
  BY <1>1, <1>2, Extent5Unique

\* The same tracks in both formats
LEMMA SameTracks5 ==
  ASSUME NEW f \in SUBSET Extents5
  PROVE  Tracks5(f) = Tracks7(All7(f))
<1>1. \A e \in f : As7(e).a = e.t /\ As7(e).b = End5(e)
  BY Size5Facts
<1>2. Tracks5(f) = UNION {As7(e).a .. (As7(e).b - 1) : e \in f}
  BY <1>1 DEF Tracks5
<1> QED
  BY <1>2 DEF Tracks7, All7

\* b cylinders and c tracks more, with the carry
LEMMA Enlarged5Facts ==
  ASSUME NEW e \in Extents5, NEW b \in Nat, NEW c \in Nat
  PROVE  /\ Enlarged5(e, b, c) \in Extents5 /\ Enlarged5(e, b, c).t = e.t
         /\ Size5(Enlarged5(e, b, c)) = Size5(e) + b * Heads + c
<1> DEFINE q == (c + e.ft) \div Heads
           r == (c + e.ft) % Heads
<1>1. e.t \in Nat /\ e.fc \in Nat /\ e.ft \in Nat /\ Heads \in Nat \ {0}
  BY GeometryAssumption DEF Extents5
<1>2. q \in Nat /\ r \in 0 .. (Heads - 1) /\ c + e.ft = q * Heads + r
  <2> DEFINE n == c + e.ft
  <2>1. n \in Nat /\ n \in Int
    BY <1>1
  <2> HIDE DEF n
  <2>2. n \div Heads \in Nat /\ n % Heads \in 0 .. (Heads - 1) /\ n = (n \div Heads) * Heads + (n % Heads)
    BY <1>1, <2>1, DivFacts
  <2> QED
    BY <2>2, Zenon DEF n
<1>3. Enlarged5(e, b, c) = [t |-> e.t, fc |-> e.fc + b + q, ft |-> r]
  <2>1. e = [t |-> e.t, fc |-> e.fc, ft |-> e.ft]
    BY DEF Extents5
  <2>2. Enlarged5(e, b, c) = [e EXCEPT !.fc = e.fc + b + q, !.ft = r]
    BY <2>1 DEF Enlarged5
  <2> HIDE DEF q, r
  <2> QED
    BY <2>1, <2>2
<1> HIDE DEF q, r
<1>4. (e.fc + b + q) * Heads + r = (e.fc * Heads + e.ft) + b * Heads + c
  <2>1. (e.fc + b + q) * Heads = e.fc * Heads + b * Heads + q * Heads
    BY <1>1, <1>2
  <2> QED
    BY <1>1, <1>2, <2>1
<1> QED
  BY <1>1, <1>2, <1>3, <1>4 DEF Extents5, Size5

\* b cylinders and c tracks fewer, with the borrow
LEMMA Reduced5Facts ==
  ASSUME NEW e \in Extents5, NEW b \in Nat, NEW c \in 0 .. (Heads - 1),
         b * Heads + c <= Size5(e)
  PROVE  /\ Reduced5(e, b, c) \in Extents5 /\ Reduced5(e, b, c).t = e.t
         /\ Size5(Reduced5(e, b, c)) = Size5(e) - (b * Heads + c)
<1>1. e.t \in Nat /\ e.fc \in Nat /\ e.ft \in 0 .. (Heads - 1) /\ Heads \in Nat \ {0}
  BY GeometryAssumption DEF Extents5
<1>2. b * Heads + c <= e.fc * Heads + e.ft
  BY DEF Size5
<1>3. CASE c > e.ft
  <2>1. b + 1 <= e.fc
    <3> SUFFICES ASSUME e.fc <= b PROVE FALSE
      BY <1>1
    <3>1. e.fc * Heads <= b * Heads
      BY <1>1
    <3> QED
      BY <1>1, <1>2, <1>3, <3>1
  <2>2. Reduced5(e, b, c) = [t |-> e.t, fc |-> e.fc - (b + 1), ft |-> e.ft - (c - Heads)]
    BY <1>1, <1>3 DEF Reduced5, Extents5
  <2>3. (e.fc - (b + 1)) * Heads + (e.ft - (c - Heads)) = (e.fc * Heads + e.ft) - (b * Heads + c)
    <3> DEFINE x == e.fc * Heads
               y == b * Heads
               z == (e.fc - (b + 1)) * Heads
    <3>1. z = x - y - Heads /\ x \in Int /\ y \in Int
      BY <1>1
    <3> HIDE DEF x, y, z
    <3>2. z + (e.ft - (c - Heads)) = (x + e.ft) - (y + c)
      BY <1>1, <3>1
    <3> QED
      BY <3>2, Zenon DEF x, y, z
  <2>4. e.fc - (b + 1) \in Nat /\ e.ft - (c - Heads) \in 0 .. (Heads - 1)
    BY <1>1, <1>3, <2>1
  <2> QED
    BY <1>1, <2>2, <2>3, <2>4 DEF Extents5, Size5
<1>4. CASE c <= e.ft
  <2>1. b <= e.fc
    <3> SUFFICES ASSUME e.fc + 1 <= b PROVE FALSE
      BY <1>1
    <3>1. (e.fc + 1) * Heads <= b * Heads
      BY <1>1
    <3>2. (e.fc + 1) * Heads = e.fc * Heads + Heads
      BY <1>1
    <3> QED
      BY <1>1, <1>2, <3>1, <3>2
  <2>2. Reduced5(e, b, c) = [t |-> e.t, fc |-> e.fc - b, ft |-> e.ft - c]
    <3>1. e = [t |-> e.t, fc |-> e.fc, ft |-> e.ft]
      BY DEF Extents5
    <3>2. Reduced5(e, b, c) = [e EXCEPT !.fc = e.fc - b, !.ft = e.ft - c]
      BY <1>1, <1>4, <3>1 DEF Reduced5
    <3> QED
      BY <3>1, <3>2
  <2>3. (e.fc - b) * Heads + (e.ft - c) = (e.fc * Heads + e.ft) - (b * Heads + c)
    BY <1>1
  <2>4. e.fc - b \in Nat /\ e.ft - c \in 0 .. (Heads - 1)
    BY <1>1, <1>4, <2>1
  <2> QED
    BY <1>1, <2>2, <2>3, <2>4 DEF Extents5, Size5
<1> QED
  BY <1>1, <1>3, <1>4

\* A number of tracks as cylinders and tracks
LEMMA LengthFacts ==
  ASSUME NEW n \in Nat
  PROVE  /\ Length5(n).b \in Nat /\ Length5(n).c \in 0 .. (Heads - 1)
         /\ Length5(n).b * Heads + Length5(n).c = n
<1>1. n \in Int /\ Heads \in Nat \ {0}
  BY GeometryAssumption
<1>2. n \div Heads \in Nat /\ n % Heads \in 0 .. (Heads - 1) /\ n = (n \div Heads) * Heads + (n % Heads)
  BY <1>1, DivFacts
<1>3. Length5(n).b = n \div Heads /\ Length5(n).c = n % Heads
  BY DEF Length5
<1> QED
  BY <1>2, <1>3, Zenon

\* Taking extents away, in both formats
LEMMA Without7 ==
  ASSUME NEW f \in SUBSET Extents5, NEW X \in SUBSET f
  PROVE  All7(f \ X) = All7(f) \ All7(X)
BY As7Injective DEF All7

LEMMA With7 ==
  ASSUME NEW f, NEW g
  PROVE  All7(f \cup g) = All7(f) \cup All7(g)
BY DEF All7

\* None of the n tracks from a on is in T
Outside(T, a, n) == \A x \in a .. (a + n - 1) : x \notin T

\* Adding to a format 5 label is adding to the format 7 label it stands for
LEMMA Add5Facts ==
  ASSUME NEW f, Label5(f), NEW a \in Nat, NEW b \in Nat, NEW c \in 0 .. (Heads - 1),
         NEW n \in Nat \ {0}, n = b * Heads + c,
         Outside(Tracks5(f), a, n)
  PROVE  /\ Label5(Add5(f, a, b, c))
         /\ Tracks5(Add5(f, a, b, c)) = Tracks5(f) \cup a .. (a + n - 1)
<1> DEFINE pred == {e \in f : End5(e) = a}
           succ == {e \in f : a + b * Heads + c = e.t}
           new  == Ext5(a, b, c)
           low  == IF pred = {} THEN new
                   ELSE Enlarged5(CHOOSE e \in pred : TRUE, b, c)
           all  == IF succ = {} THEN low
                   ELSE [Enlarged5(CHOOSE e \in succ : TRUE, low.fc, low.ft)
                           EXCEPT !.t = low.t]
           f7 == All7(f)
           pred7 == {e \in f7 : e.b = a}
           succ7 == {e \in f7 : e.a = a + n}
           lo == IF pred7 = {} THEN a ELSE (CHOOSE e \in pred7 : TRUE).a
           hi == IF succ7 = {} THEN a + n ELSE (CHOOSE e \in succ7 : TRUE).b
<1>1. f \subseteq Extents5 /\ Label7(f7) /\ Heads \in Nat \ {0} /\ b * Heads \in Nat
  BY GeometryAssumption DEF Label5
<1>2. \A e \in f : /\ e.t \in Nat /\ Size5(e) \in Nat /\ End5(e) = e.t + Size5(e)
                   /\ As7(e) \in f7 /\ As7(e).a = e.t /\ As7(e).b = End5(e)
  BY <1>1, Size5Facts DEF Extents5, All7
<1>3. \A g \in f7 : \E e \in f : g = As7(e)
  BY DEF All7
<1>4. a + b * Heads + c = a + n
  BY <1>1
<1>5. pred7 = All7(pred)
  BY <1>2, <1>3 DEF All7
<1>6. succ7 = All7(succ)
  BY <1>2, <1>3, <1>4 DEF All7
<1>7. \A x \in a .. ((a + n) - 1) : x \notin Tracks7(f7)
  BY <1>1, SameTracks5 DEF Outside
<1>8. Label7(Add7(f7, a, a + n)) /\ Tracks7(Add7(f7, a, a + n)) = Tracks7(f7) \cup a .. ((a + n) - 1)
  BY <1>1, <1>7, Add7Facts
<1>9. \A e, g \in f : e # g => As7(e) # As7(g)
  BY <1>1, As7Injective
<1>s. \A g, h \in f7 : g # h => g.b < h.a \/ h.b < g.a
  BY <1>1 DEF Label7, Apart
<1>u. \A g \in f7 : g.a < g.b /\ g.a \in Nat /\ g.b \in Nat
  BY <1>1 DEF Label7, Extents7
<1>10. (pred = {} /\ lo = a) \/ \E p \in pred : pred = {p} /\ lo = p.t
  <2>1. \A e, g \in pred : e = g
    <3> SUFFICES ASSUME NEW e \in pred, NEW g \in pred PROVE As7(e) = As7(g)
      BY <1>9
    <3> QED
      BY <1>2, <1>s, <1>u
  <2>2. CASE pred = {}
    BY <1>5, <2>2 DEF All7
  <2>3. ASSUME NEW p \in pred PROVE pred = {p} /\ lo = p.t
    <3>1. pred = {p}
      BY <2>1
    <3>2. pred7 = {As7(p)} /\ As7(p).a = p.t
      BY <1>2, <1>5, <3>1 DEF All7
    <3> HIDE DEF pred7
    <3> QED
      BY <3>1, <3>2
  <2> QED
    BY <2>2, <2>3
<1>11. (succ = {} /\ hi = a + n) \/ \E s \in succ : succ = {s} /\ hi = End5(s) /\ s.t = a + n
  <2>1. \A e, g \in succ : e = g
    <3> SUFFICES ASSUME NEW e \in succ, NEW g \in succ PROVE As7(e) = As7(g)
      BY <1>9
    <3> QED
      BY <1>2, <1>4, <1>s, <1>u
  <2>2. CASE succ = {}
    BY <1>6, <2>2 DEF All7
  <2>3. ASSUME NEW s \in succ PROVE succ = {s} /\ hi = End5(s) /\ s.t = a + n
    <3>1. succ = {s} /\ s.t = a + n
      BY <1>4, <2>1
    <3>2. succ7 = {As7(s)} /\ As7(s).b = End5(s)
      BY <1>2, <1>6, <3>1 DEF All7
    <3> HIDE DEF succ7
    <3> QED
      BY <3>1, <3>2
  <2> QED
    BY <2>2, <2>3
<1>n. new \in Extents5 /\ new.t = a /\ Size5(new) = n
  BY <1>1 DEF Ext5, Extents5, Size5
<1> HIDE DEF lo, hi, pred7, succ7, new
<1>12. low \in Extents5 /\ low.t = lo /\ lo + Size5(low) = a + n
  <2>1. CASE pred = {}
    BY <1>10, <1>n, <2>1
  <2>2. CASE pred # {}
    <3>1. PICK p \in pred : pred = {p} /\ lo = p.t
      BY <1>10, <2>2
    <3>2. low = Enlarged5(p, b, c)
      BY <3>1
    <3>3. p \in f /\ p \in Extents5 /\ End5(p) = a /\ c \in Nat
      BY <1>1, <3>1
    <3>4. low \in Extents5 /\ low.t = p.t /\ Size5(low) = Size5(p) + b * Heads + c
      <4> HIDE DEF low
      <4> QED
        BY <3>2, <3>3, Enlarged5Facts, Zenon
    <3>5. Size5(p) + b * Heads + c = Size5(p) + n /\ Size5(p) \in Nat /\ p.t \in Nat /\ p.t + Size5(p) = a
      BY <1>1, <1>2, <3>3
    <3> HIDE DEF low
    <3> QED
      BY <3>1, <3>4, <3>5
  <2> QED
    BY <2>1, <2>2
<1> HIDE DEF low
<1>13. all \in Extents5 /\ As7(all) = Ext7(lo, hi)
  <2>1. CASE succ = {}
    <3>1. all = low /\ hi = a + n
      BY <1>11, <2>1
    <3> QED
      BY <1>12, <3>1 DEF As7, End5
  <2>2. CASE succ # {}
    <3>1. PICK s \in succ : succ = {s} /\ hi = End5(s) /\ s.t = a + n
      BY <1>11, <2>2
    <3> DEFINE e == Enlarged5(s, low.fc, low.ft)
    <3>2. all = [e EXCEPT !.t = low.t]
      BY <3>1
    <3>3. s \in f /\ s \in Extents5 /\ low.fc \in Nat /\ low.ft \in 0 .. (Heads - 1) /\ low.ft \in Nat /\ low.t \in Nat
      BY <1>1, <1>12, <3>1 DEF Extents5
    <3>4. e \in Extents5 /\ Size5(e) = Size5(s) + low.fc * Heads + low.ft
      BY <3>3, Enlarged5Facts, Zenon
    <3>5. Size5(low) = low.fc * Heads + low.ft /\ low.fc * Heads \in Nat
      BY <1>1, <3>3 DEF Size5
    <3> HIDE DEF e
    <3>6. all \in Extents5 /\ all.t = low.t /\ Size5(all) = Size5(e)
      <4>1. e = [t |-> e.t, fc |-> e.fc, ft |-> e.ft] /\ e.fc \in Nat /\ e.ft \in 0 .. (Heads - 1)
        BY <3>4 DEF Extents5
      <4>2. all = [t |-> low.t, fc |-> e.fc, ft |-> e.ft]
        BY <3>2, <4>1
      <4> QED
        BY <3>3, <4>1, <4>2 DEF Extents5, Size5
    <3>7. Size5(all) = Size5(s) + Size5(low)
      BY <1>2, <3>3, <3>4, <3>5, <3>6
    <3>8. lo + Size5(all) = End5(s)
      BY <1>2, <1>12, <3>1, <3>3, <3>5, <3>7
    <3> QED
      BY <1>12, <3>1, <3>6, <3>8 DEF As7, End5
  <2> QED
    BY <2>1, <2>2
<1> HIDE DEF all
<1>14. Add5(f, a, b, c) = (f \ (pred \cup succ)) \cup {all}
  BY Zenon DEF Add5, all, low, new
<1>15. Add7(f7, a, a + n) = (f7 \ (pred7 \cup succ7)) \cup {Ext7(lo, hi)}
  BY Zenon DEF Add7, lo, hi, pred7, succ7
<1>16. All7(Add5(f, a, b, c)) = Add7(f7, a, a + n)
  <2>1. All7({all}) = {Ext7(lo, hi)}
    BY <1>13 DEF All7
  <2>2. All7(pred \cup succ) = pred7 \cup succ7
    BY <1>5, <1>6, With7
  <2>3. All7(f \ (pred \cup succ)) = f7 \ (pred7 \cup succ7)
    BY <1>1, <2>2, Without7
  <2>4. All7((f \ (pred \cup succ)) \cup {all}) = All7(f \ (pred \cup succ)) \cup All7({all})
    BY With7, Zenon
  <2> QED
    BY <1>14, <1>15, <2>1, <2>3, <2>4, Zenon
<1>17. Add5(f, a, b, c) \subseteq Extents5
  BY <1>1, <1>13, <1>14
<1>18. Tracks5(Add5(f, a, b, c)) = Tracks7(Add7(f7, a, a + n)) /\ Tracks5(f) = Tracks7(f7)
  BY <1>1, <1>16, <1>17, SameTracks5
<1> QED
  BY <1>8, <1>16, <1>17, <1>18 DEF Label5

\* What a format 5 label is, by its own extents
LEMMA Label5Iff ==
  ASSUME NEW f
  PROVE  Label5(f) <=> /\ f \subseteq Extents5 /\ \A e \in f : e.t < End5(e)
                       /\ \A e, g \in f : e # g => End5(e) < g.t \/ End5(g) < e.t
<1> SUFFICES ASSUME f \subseteq Extents5
             PROVE  Label7(All7(f)) <=> /\ \A e \in f : e.t < End5(e)
                                        /\ \A e, g \in f : e # g => End5(e) < g.t \/ End5(g) < e.t
  BY DEF Label5
<1>1. \A e \in f : As7(e) \in Extents7 /\ As7(e).a = e.t /\ As7(e).b = End5(e)
  BY Size5Facts
<1>2. \A e, g \in f : e # g <=> As7(e) # As7(g)
  BY As7Injective
<1>3. (\A x \in All7(f) : x.a < x.b) <=> \A e \in f : e.t < End5(e)
  BY <1>1 DEF All7
<1>4. All7(f) \subseteq Extents7
  BY <1>1 DEF All7
<1>5. (\A x, y \in All7(f) : x # y => x.b < y.a \/ y.b < x.a)
        <=> \A e, g \in f : e # g => End5(e) < g.t \/ End5(g) < e.t
  BY <1>1, <1>2 DEF All7
<1> QED
  BY <1>3, <1>4, <1>5 DEF Label7, Apart

\* The extent that has a track
LEMMA InTracks5 ==
  ASSUME NEW f, Label5(f), NEW x \in Int
  PROVE  x \in Tracks5(f) <=> \E e \in f : e.t <= x /\ x < End5(e)
<1>1. \A e \in f : e.t \in Nat /\ End5(e) \in Nat
  BY Size5Facts DEF Label5, Extents5
<1>2. \A e \in f : x \in e.t .. (End5(e) - 1) <=> e.t <= x /\ x < End5(e)
  BY <1>1
<1> QED
  BY <1>2 DEF Tracks5

LEMMA TracksInt5 ==
  ASSUME NEW f, Label5(f)
  PROVE  Tracks5(f) \subseteq Int
<1>1. \A e \in f : e.t \in Nat /\ End5(e) \in Nat
  BY Size5Facts DEF Label5, Extents5
<1> QED
  BY <1>1 DEF Tracks5

LEMMA Drop5 ==
  ASSUME NEW f, Label5(f), NEW e \in f
  PROVE  /\ Label5(f \ {e}) /\ Tracks5(f \ {e}) = Tracks5(f) \ (e.t .. (End5(e) - 1))
<1>1. /\ f \subseteq Extents5 /\ \A g \in f : g.t < End5(g)
      /\ \A h, g \in f : h # g => End5(h) < g.t \/ End5(g) < h.t
  BY Label5Iff
<1>2. Label5(f \ {e})
  BY <1>1, Label5Iff
<1>t. \A g \in f : g.t \in Nat /\ End5(g) \in Nat
  BY <1>1, Size5Facts DEF Extents5
<1>3. ASSUME NEW x \in Int
      PROVE  x \in Tracks5(f \ {e}) <=> x \in Tracks5(f) /\ ~(e.t <= x /\ x < End5(e))
  BY <1>1, <1>2, <1>t, InTracks5
<1>4. \A x \in Int : x \in e.t .. (End5(e) - 1) <=> e.t <= x /\ x < End5(e)
  BY <1>t
<1> QED
  BY <1>2, <1>3, <1>4, TracksInt5

\* An extent replaced by a part of it
LEMMA Shrink5 ==
  ASSUME NEW f, Label5(f), NEW e \in f, NEW g \in Extents5,
         e.t <= g.t, g.t < End5(g), End5(g) <= End5(e)
  PROVE  /\ Label5((f \ {e}) \cup {g})
         /\ Tracks5((f \ {e}) \cup {g}) = (Tracks5(f) \ (e.t .. (End5(e) - 1))) \cup g.t .. (End5(g) - 1)
<1> DEFINE r == f \ {e}
<1>1. Label5(r) /\ Tracks5(r) = Tracks5(f) \ (e.t .. (End5(e) - 1))
  BY Drop5
<1>2. /\ f \subseteq Extents5 /\ \A h \in f : h.t < End5(h)
      /\ \A h, k \in f : h # k => End5(h) < k.t \/ End5(k) < h.t
  BY Label5Iff
<1>t. \A h \in f \cup {g} : h.t \in Nat /\ End5(h) \in Nat
  BY <1>2, Size5Facts DEF Extents5
<1>3. Label5(r \cup {g})
  <2>1. \A h \in r : End5(h) < g.t \/ End5(g) < h.t
    BY <1>2, <1>t
  <2>2. /\ r \cup {g} \subseteq Extents5 /\ \A h \in r \cup {g} : h.t < End5(h)
        /\ \A h, k \in r \cup {g} : h # k => End5(h) < k.t \/ End5(k) < h.t
    BY <1>2, <2>1
  <2> QED
    BY <2>2, Label5Iff
<1>4. Tracks5(r \cup {g}) = Tracks5(r) \cup g.t .. (End5(g) - 1)
  BY DEF Tracks5
<1> QED
  BY <1>1, <1>3, <1>4

\* The extent that the search of a deletion hits, if the tracks are free
LEMMA Hits5Facts ==
  ASSUME NEW f, Label5(f), NEW a \in Nat, NEW b \in Nat, NEW c \in 0 .. (Heads - 1),
         NEW n \in Nat \ {0}, n = b * Heads + c,
         \A x \in a .. (a + n - 1) : x \in Tracks5(f)
  PROVE  \E e \in f : /\ e.t <= a /\ a + n <= End5(e)
                      /\ Hits5(f, a, b, c) = {e} /\ ~Mismatch5(f, a, b, c)
<1>1. /\ f \subseteq Extents5 /\ \A g \in f : g.t < End5(g)
      /\ \A h, g \in f : h # g => End5(h) < g.t \/ End5(g) < h.t
  BY Label5Iff
<1>t. \A g \in f : g.t \in Nat /\ End5(g) \in Nat /\ Size5(g) \in Nat /\ End5(g) = g.t + Size5(g)
  BY <1>1, Size5Facts DEF Extents5
<1>2. PICK e \in f : e.t <= a /\ a + n <= End5(e)
  <2>1. Label7(All7(f)) /\ \A x \in a .. ((a + n) - 1) : x \in Tracks7(All7(f))
    BY <1>1, SameTracks5 DEF Label5
  <2>2. PICK g \in All7(f) : g.a <= a /\ a + n <= g.b
    BY <2>1, OneExtent
  <2>3. PICK e \in f : g = As7(e)
    BY DEF All7
  <2> QED
    BY <1>1, <2>2, <2>3, Size5Facts
<1>3. a + b * Heads + c = a + n /\ b * Heads \in Nat /\ Heads \in Nat \ {0}
  BY GeometryAssumption
<1>4. \A g \in f : g # e => End5(g) < a \/ a + n < g.t
  BY <1>1, <1>2, <1>t
<1>5. ASSUME NEW g \in f, g # e PROVE g \notin Hits5(f, a, b, c)
  BY <1>1, <1>3, <1>4, <1>5, <1>t DEF Hits5, Fills5, Left5, Right5, Split5
<1>6. e \in Hits5(f, a, b, c)
  <2>1. CASE a = e.t
    <3>1. e.fc \in Nat /\ e.ft \in Nat /\ e.fc * Heads \in Nat
      BY <1>1, <1>3 DEF Extents5
    <3>2. e.fc * Heads + e.ft >= b * Heads + c
      BY <1>2, <1>3, <1>t, <2>1 DEF Size5
    <3>3. ASSUME e.fc < b PROVE c < e.ft
      <4>1. e.fc + 1 <= b
        BY <3>1, <3>3
      <4>2. (e.fc + 1) * Heads <= b * Heads
        BY <1>3, <3>1, <4>1
      <4>3. (e.fc + 1) * Heads = e.fc * Heads + Heads
        BY <1>3, <3>1
      <4> QED
        BY <1>3, <3>1, <3>2, <4>2, <4>3
    <3>4. ASSUME e.fc = b PROVE c <= e.ft
      BY <1>3, <3>1, <3>2, <3>4
    <3>5. b < e.fc \/ c < e.ft \/ (b = e.fc /\ c = e.ft)
      BY <3>1, <3>3, <3>4
    <3>6. Fills5(e, a, b, c) \/ Left5(e, a, b, c)
      BY <2>1, <3>5, Zenon DEF Fills5, Left5
    <3> QED
      BY <3>6 DEF Hits5
  <2>2. CASE a # e.t
    BY <1>2, <1>3, <1>t, <2>2 DEF Hits5, Right5, Split5
  <2> QED
    BY <2>1, <2>2
<1>7. Hits5(f, a, b, c) = {e}
  BY <1>5, <1>6 DEF Hits5
<1>8. ~Mismatch5(f, a, b, c)
  <2> SUFFICES ASSUME NEW g \in f
               PROVE  /\ ~(a < g.t /\ a + n > g.t /\ a + n < End5(g))
                      /\ ~(a > g.t /\ a < End5(g) /\ a + n > End5(g))
    BY <1>3 DEF Mismatch5
  <2> QED
    BY <1>2, <1>4, <1>t
<1> QED
  BY <1>2, <1>7, <1>8

LEMMA FullSize ==
  ASSUME NEW e \in Extents5, NEW b \in Nat, NEW c \in 0 .. (Heads - 1), b * Heads + c = Size5(e)
  PROVE  b = e.fc /\ c = e.ft
<1>1. /\ e.fc \in Int /\ e.ft \in 0 .. (Heads - 1) /\ Heads \in Nat \ {0} /\ b \in Int
      /\ b * Heads + c = e.fc * Heads + e.ft
  BY GeometryAssumption DEF Extents5, Size5
<1> QED
  BY <1>1, DivUnique

\* Deleting takes the tracks away, whichever part of an extent they are
LEMMA Del5Facts ==
  ASSUME NEW f, Label5(f), NEW a \in Nat, NEW b \in Nat, NEW c \in 0 .. (Heads - 1),
         NEW n \in Nat \ {0}, n = b * Heads + c,
         \A x \in a .. (a + n - 1) : x \in Tracks5(f)
  PROVE  /\ Label5(Del5(f, a, b, c))
         /\ Tracks5(Del5(f, a, b, c)) = Tracks5(f) \ (a .. (a + n - 1))
         /\ IsFiniteSet(f) /\ Cardinality(f) < Slots5 => CanDel5(f, a, b, c)
<1>1. PICK e \in f : /\ e.t <= a /\ a + n <= End5(e)
                     /\ Hits5(f, a, b, c) = {e} /\ ~Mismatch5(f, a, b, c)
  BY Hits5Facts
<1> DEFINE rest == f \ {e}
           end == a + b * Heads + c
           u == Upper5(e, a, b, c)
           m == rest \cup {Lower5(e, a)}
<1>2. /\ f \subseteq Extents5 /\ e \in Extents5 /\ \A g \in f : g.t < End5(g)
      /\ \A h, g \in f : h # g => End5(h) < g.t \/ End5(g) < h.t
  BY Label5Iff
<1>t. \A g \in f : g.t \in Nat /\ End5(g) \in Nat /\ Size5(g) \in Nat /\ End5(g) = g.t + Size5(g)
  BY <1>2, Size5Facts DEF Extents5
<1>3. end = a + n /\ b * Heads \in Nat /\ Heads \in Nat \ {0}
  BY GeometryAssumption
<1>d. Del5(f, a, b, c) =
        CASE Fills5(e, a, b, c) -> rest
          [] Left5(e, a, b, c)  -> rest \cup {[Reduced5(e, b, c) EXCEPT !.t = end]}
          [] Right5(e, a, b, c) -> rest \cup {Reduced5(e, b, c)}
          [] OTHER -> Add5(m, end, u.b, u.c)
  <2>1. (CHOOSE x \in Hits5(f, a, b, c) : TRUE) = e
    BY <1>1
  <2> QED
    BY <2>1, Zenon DEF Del5
<1> HIDE DEF end
<1>f. e.fc \in Nat /\ e.ft \in 0 .. (Heads - 1) /\ e.fc * Heads \in Nat /\ Size5(e) = e.fc * Heads + e.ft
  BY <1>2, <1>3 DEF Extents5, Size5
<1>x. \A h \in Int, k \in Int, x \in Int : x \in h .. (k - 1) <=> h <= x /\ x < k
  OBVIOUS
<1>i. Tracks5(f) \subseteq Int /\ \A x \in Int : e.t <= x /\ x < End5(e) => x \in Tracks5(f)
  BY InTracks5, TracksInt5
<1>c. ASSUME ~Split5(e, a, b, c) PROVE CanDel5(f, a, b, c)
  BY <1>1, <1>c DEF CanDel5
<1>4. CASE Fills5(e, a, b, c)
  <2>1. Del5(f, a, b, c) = rest /\ a = e.t /\ End5(e) = a + n
    <3>1. ~Left5(e, a, b, c) /\ ~Right5(e, a, b, c)
      BY <1>4, <1>f, <1>t DEF Fills5, Left5, Right5
    <3>2. Del5(f, a, b, c) = rest
      BY <1>4, <1>d, <3>1
    <3> QED
      BY <1>4, <1>f, <1>t, <3>2 DEF Fills5
  <2>2. ~Split5(e, a, b, c)
    BY <1>3, <2>1 DEF Split5, end
  <2>3. Label5(f \ {e}) /\ Tracks5(f \ {e}) = Tracks5(f) \ (e.t .. (End5(e) - 1))
    BY Drop5, Zenon
  <2>4. e.t .. (End5(e) - 1) = a .. (a + n - 1)
    BY <2>1
  <2> QED
    BY <1>c, <2>1, <2>2, <2>3, <2>4
<1>5. CASE Left5(e, a, b, c)
  <2>1. ~Fills5(e, a, b, c) /\ ~Right5(e, a, b, c) /\ ~Split5(e, a, b, c) /\ a = e.t
    BY <1>5, <1>f, <1>t DEF Fills5, Left5, Right5, Split5
  <2> DEFINE g == [Reduced5(e, b, c) EXCEPT !.t = end]
  <2>2. Del5(f, a, b, c) = rest \cup {g}
    BY <1>5, <1>d, <2>1
  <2>3. n <= Size5(e) /\ n # Size5(e)
    <3>1. n <= Size5(e)
      BY <1>1, <1>t, <2>1
    <3>2. ASSUME n = Size5(e) PROVE FALSE
      <4>1. b * Heads + c = Size5(e)
        BY <3>2
      <4>3. b = e.fc /\ c = e.ft
        BY <1>2, <4>1, FullSize, Zenon
      <4> QED
        BY <2>1, <4>3 DEF Fills5
    <3> QED
      BY <3>1, <3>2
  <2>4. /\ Reduced5(e, b, c) \in Extents5
        /\ Size5(Reduced5(e, b, c)) = Size5(e) - (b * Heads + c)
    BY <1>2, <2>3, Reduced5Facts
  <2>5. g \in Extents5 /\ g.t = a + n /\ Size5(g) = Size5(e) - n
    <3> DEFINE h == Reduced5(e, b, c)
    <3> HIDE DEF h
    <3>1. h \in Extents5 /\ Size5(h) = Size5(e) - n
      BY <2>4 DEF h
    <3>2. h = [t |-> h.t, fc |-> h.fc, ft |-> h.ft] /\ h.fc \in Nat /\ h.ft \in 0 .. (Heads - 1)
      BY <3>1 DEF Extents5
    <3>3. g = [t |-> a + n, fc |-> h.fc, ft |-> h.ft]
      BY <1>3, <3>2 DEF h
    <3>4. a + n \in Nat
      OBVIOUS
    <3> HIDE DEF g
    <3> QED
      BY <3>1, <3>2, <3>3, <3>4 DEF Extents5, Size5
  <2> HIDE DEF g
  <2>6. End5(g) = End5(e)
    BY <1>t, <2>1, <2>3, <2>5 DEF End5
  <2>7. e.t <= g.t /\ g.t < End5(g) /\ End5(g) <= End5(e)
    BY <1>t, <2>1, <2>3, <2>5, <2>6
  <2>8. /\ Label5(rest \cup {g})
        /\ Tracks5(rest \cup {g}) = (Tracks5(f) \ (e.t .. (End5(e) - 1))) \cup g.t .. (End5(g) - 1)
    <3>1. e \in f /\ Label5(f) /\ rest = f \ {e}
      OBVIOUS
    <3> HIDE DEF rest
    <3>2. /\ Label5((f \ {e}) \cup {g})
          /\ Tracks5((f \ {e}) \cup {g}) = (Tracks5(f) \ (e.t .. (End5(e) - 1))) \cup g.t .. (End5(g) - 1)
      BY <2>5, <2>7, <3>1, Shrink5
    <3> QED
      BY <3>1, <3>2, Zenon
  <2>9. (Tracks5(f) \ (e.t .. (End5(e) - 1))) \cup g.t .. (End5(g) - 1) = Tracks5(f) \ (a .. (a + n - 1))
    <3>1. /\ e.t \in Int /\ End5(e) \in Int /\ a \in Int /\ a + n \in Int
          /\ a <= a + n /\ a + n <= End5(e)
      BY <1>1, <1>t
    <3> QED
      BY <1>i, <2>1, <2>5, <2>6, <3>1
  <2> QED
    BY <1>c, <2>1, <2>2, <2>8, <2>9
<1>6. CASE Right5(e, a, b, c)
  <2>1. /\ ~Fills5(e, a, b, c) /\ ~Left5(e, a, b, c) /\ ~Split5(e, a, b, c)
        /\ e.t < a /\ End5(e) = a + n
    BY <1>3, <1>6, <1>t DEF Fills5, Left5, Right5, Split5, end
  <2> DEFINE g == Reduced5(e, b, c)
  <2>2. Del5(f, a, b, c) = rest \cup {g}
    BY <1>6, <1>d, <2>1
  <2>3. n <= Size5(e)
    BY <1>1, <1>t, <2>1
  <2>4. g \in Extents5 /\ g.t = e.t /\ Size5(g) = Size5(e) - n
    BY <1>2, <2>3, Reduced5Facts
  <2> HIDE DEF g
  <2>5. End5(g) = a
    BY <1>t, <2>1, <2>3, <2>4 DEF End5
  <2>6. /\ Label5(rest \cup {g})
        /\ Tracks5(rest \cup {g}) = (Tracks5(f) \ (e.t .. (End5(e) - 1))) \cup g.t .. (End5(g) - 1)
    <3>1. e.t <= g.t /\ g.t < End5(g) /\ End5(g) <= End5(e)
      BY <1>t, <2>1, <2>4, <2>5
    <3>2. e \in f /\ Label5(f) /\ rest = f \ {e}
      OBVIOUS
    <3> HIDE DEF rest
    <3>3. /\ Label5((f \ {e}) \cup {g})
          /\ Tracks5((f \ {e}) \cup {g}) = (Tracks5(f) \ (e.t .. (End5(e) - 1))) \cup g.t .. (End5(g) - 1)
      BY <2>4, <3>1, <3>2, Shrink5
    <3> QED
      BY <3>2, <3>3, Zenon
  <2>7. (Tracks5(f) \ (e.t .. (End5(e) - 1))) \cup g.t .. (End5(g) - 1) = Tracks5(f) \ (a .. (a + n - 1))
    <3>1. /\ e.t \in Int /\ End5(e) \in Int /\ a \in Int /\ a + n \in Int
          /\ a <= a + n /\ a + n <= End5(e)
      BY <1>1, <1>t
    <3> QED
      BY <1>i, <2>1, <2>4, <2>5, <3>1
  <2> QED
    BY <1>c, <2>1, <2>2, <2>6, <2>7
<1>7. CASE Split5(e, a, b, c)
  <2>1. /\ ~Fills5(e, a, b, c) /\ ~Left5(e, a, b, c) /\ ~Right5(e, a, b, c)
        /\ e.t < a /\ End5(e) > a + n
    BY <1>3, <1>7, <1>t DEF Fills5, Left5, Right5, Split5, end
  <2>2. Del5(f, a, b, c) = Add5(m, end, u.b, u.c)
    BY <1>d, <2>1
  <2> DEFINE k == End5(e) - end
             g == Lower5(e, a)
  <2>3. k \in Nat \ {0} /\ end + k = End5(e) /\ end \in Nat /\ a - e.t \in Nat
    BY <1>3, <1>t, <2>1
  <2>4. u = Length5(k)
    BY DEF Upper5, end
  <2> HIDE DEF k, u
  <2>5. u.b \in Nat /\ u.c \in 0 .. (Heads - 1) /\ k = u.b * Heads + u.c
    BY <2>3, <2>4, LengthFacts
  <2>6. g \in Extents5 /\ g.t = e.t /\ End5(g) = a
    <3> DEFINE l == Length5(a - e.t)
    <3>1. l.b \in Nat /\ l.c \in 0 .. (Heads - 1) /\ l.b * Heads + l.c = a - e.t
      BY <2>3, LengthFacts
    <3>2. e = [t |-> e.t, fc |-> e.fc, ft |-> e.ft] /\ e.t \in Nat
      BY <1>2 DEF Extents5
    <3>3. g = [e EXCEPT !.fc = l.b, !.ft = l.c]
      BY DEF Lower5, Length5
    <3> HIDE DEF l, g
    <3>5. g = [t |-> e.t, fc |-> l.b, ft |-> l.c]
      BY <3>2, <3>3
    <3>4. g \in Extents5 /\ g.t = e.t /\ Size5(g) = a - e.t
      BY <3>1, <3>2, <3>5 DEF Extents5, Size5
    <3> QED
      BY <3>2, <3>4 DEF End5
  <2> HIDE DEF g
  <2>7. e.t <= g.t /\ g.t < End5(g) /\ End5(g) <= End5(e)
    BY <1>t, <2>1, <2>6
  <2>8. /\ Label5((f \ {e}) \cup {g})
        /\ Tracks5((f \ {e}) \cup {g}) = (Tracks5(f) \ (e.t .. (End5(e) - 1))) \cup g.t .. (End5(g) - 1)
    <3>1. e \in f /\ Label5(f) /\ g \in Extents5
      BY <2>6
    <3> QED
      BY <2>7, <3>1, Shrink5
  <2>9. m = (f \ {e}) \cup {g}
    BY DEF g
  <2> HIDE DEF m
  <2>10. /\ e.t \in Int /\ End5(e) \in Int /\ a \in Int /\ end \in Int
         /\ e.t < a /\ a < end /\ end < End5(e) /\ end = a + n
    BY <1>3, <1>t, <2>1
  <2>11. Tracks5(m) = (Tracks5(f) \ (e.t .. (End5(e) - 1))) \cup e.t .. (a - 1)
    BY <2>6, <2>8, <2>9
  <2>12. Outside(Tracks5(m), end, k)
    BY <2>3, <2>10, <2>11 DEF Outside
  <2>13. /\ Label5(Add5(m, end, u.b, u.c))
         /\ Tracks5(Add5(m, end, u.b, u.c)) = Tracks5(m) \cup end .. (end + k - 1)
    <3>1. Label5(m)
      BY <2>8, <2>9
    <3> QED
      <4> DEFINE B == u.b  C == u.c
      <4>1. B \in Nat /\ C \in 0 .. (Heads - 1) /\ k = B * Heads + C
        BY <2>5
      <4> HIDE DEF B, C
      <4>2. k \in Nat \ {0} /\ end \in Nat
        BY <2>3
      <4>3. /\ Label5(Add5(m, end, B, C))
            /\ Tracks5(Add5(m, end, B, C)) = Tracks5(m) \cup end .. (end + k - 1)
        BY <2>12, <3>1, <4>1, <4>2, Add5Facts
      <4> QED
        BY <4>3 DEF B, C
  <2>14. Tracks5(m) \cup end .. (end + k - 1) = Tracks5(f) \ (a .. (a + n - 1))
    <3>1. end + k - 1 = End5(e) - 1
      BY <2>3, <2>10
    <3> QED
      BY <1>i, <2>10, <2>11, <3>1
  <2>15. ASSUME IsFiniteSet(f), Cardinality(f) < Slots5
         PROVE  CanDel5(f, a, b, c)
    <3>1. Cardinality(m) < Slots5
      <4> DEFINE r == f \ {e}
      <4>1. IsFiniteSet(r) /\ Cardinality(r) = Cardinality(f) - 1 /\ Cardinality(f) \in Nat
        BY <2>15, CardFacts, Zenon
      <4> HIDE DEF r
      <4>2. Cardinality(r \cup {g}) = Cardinality(r) \/ Cardinality(r \cup {g}) = Cardinality(r) + 1
        BY <4>1, FS_AddElement
      <4>3. Cardinality(m) = Cardinality(r \cup {g})
        BY <2>9 DEF r
      <4> QED
        BY <2>15, <4>1, <4>2, <4>3, GeometryAssumption
    <3>2. ~Overlap5(m, end, u.b, u.c)
      <4>1. end + u.b * Heads + u.c = End5(e)
        <5>1. u.b * Heads \in Nat
          BY <1>3, <2>5
        <5> QED
          BY <2>3, <2>5, <5>1
      <4>2. \A h \in f \ {e} : End5(h) < e.t \/ End5(e) < h.t
        BY <1>2
      <4> SUFFICES ASSUME NEW h \in m
                   PROVE  /\ ~(end < h.t /\ End5(e) > h.t)
                          /\ ~(end > h.t /\ End5(h) > end)
        BY <4>1 DEF Overlap5
      <4>3. h \in f \ {e} \/ h = g
        BY <2>9
      <4> QED
        BY <1>t, <2>6, <2>10, <4>2, <4>3
    <3>3. CanAdd5(m, end, u.b, u.c)
      BY <3>1, <3>2 DEF CanAdd5
    <3> QED
      BY <1>1, <3>3, Zenon DEF CanDel5, m, end, u
  <2> QED
    BY <2>2, <2>13, <2>14, <2>15
<1> QED
  <2>1. e \in Hits5(f, a, b, c)
    BY <1>1
  <2>2. Fills5(e, a, b, c) \/ Left5(e, a, b, c) \/ Right5(e, a, b, c) \/ Split5(e, a, b, c)
    BY <2>1 DEF Hits5
  <2> QED
    BY <1>4, <1>5, <1>6, <1>7, <2>2

-----------------------------------------------------------------------------
(* A label of either format: what vtoc_set_freespace does to the set of    *)
(* free tracks.                                                            *)

Label(big, l) == IF big THEN Label7(l) ELSE Label5(l)

Start(big, e) == IF big THEN e.a ELSE e.t

LEMMA NoFree ==
  ASSUME NEW big \in BOOLEAN
  PROVE  Label(big, EmptyLabel) /\ FreeTracks(big, EmptyLabel) = {}
BY DEF Label, Label7, Label5, All7, EmptyLabel, FreeTracks, Tracks7, Tracks5

LEMMA AddFacts ==
  ASSUME NEW big \in BOOLEAN, NEW l, Label(big, l), NEW s \in Nat, NEW e \in Nat, s <= e,
         \A x \in s .. e : x \notin FreeTracks(big, l)
  PROVE  /\ Label(big, AddFree(big, l, s, e))
         /\ FreeTracks(big, AddFree(big, l, s, e)) = FreeTracks(big, l) \cup s .. e
<1> DEFINE n == e - s + 1
<1>1. n \in Nat \ {0} /\ e + 1 \in Nat /\ s < e + 1 /\ s + n - 1 = e /\ (e + 1) - 1 = e
  OBVIOUS
<1>2. CASE big
  <2>1. Label7(l) /\ \A x \in s .. ((e + 1) - 1) : x \notin Tracks7(l)
    BY <1>1, <1>2 DEF Label, FreeTracks
  <2>2. Label7(Add7(l, s, e + 1)) /\ Tracks7(Add7(l, s, e + 1)) = Tracks7(l) \cup s .. ((e + 1) - 1)
    BY <1>1, <2>1, Add7Facts
  <2> QED
    BY <1>1, <1>2, <2>2 DEF Label, FreeTracks, AddFree
<1>3. CASE ~big
  <2> DEFINE B == Length5(n).b  C == Length5(n).c
  <2>1. B \in Nat /\ C \in 0 .. (Heads - 1) /\ n = B * Heads + C
    BY <1>1, LengthFacts
  <2>2. AddFree(big, l, s, e) = Add5(l, s, B, C)
    BY <1>3 DEF AddFree
  <2> HIDE DEF n, B, C
  <2>3. Label5(l) /\ Outside(Tracks5(l), s, n)
    BY <1>1, <1>3 DEF Label, FreeTracks, Outside
  <2>4. Label5(Add5(l, s, B, C)) /\ Tracks5(Add5(l, s, B, C)) = Tracks5(l) \cup s .. (s + n - 1)
    BY <1>1, <2>1, <2>3, Add5Facts
  <2> QED
    BY <1>1, <1>3, <2>2, <2>4 DEF Label, FreeTracks
<1> QED
  BY <1>2, <1>3

LEMMA CanDel7Facts ==
  ASSUME NEW f, Label7(f), NEW a \in Nat, NEW b \in Nat, a < b,
         \A x \in a .. (b - 1) : x \in Tracks7(f), Cardinality(f) < Slots7
  PROVE  CanDel7(f, a, b)
<1>t. \A e \in f : e.a \in Nat /\ e.b \in Nat /\ e.a < e.b
  BY DEF Label7, Extents7
<1>s. \A e, g \in f : e # g => e.b < g.a \/ g.b < e.a
  BY DEF Label7, Apart
<1>1. PICK e \in f : e.a <= a /\ b <= e.b
  BY OneExtent
<1>2. Within7(f, a, b) = {e}
  BY <1>1, <1>s, <1>t DEF Within7
<1>3. ~Mismatch7(f, a, b)
  BY <1>1, <1>s, <1>t DEF Mismatch7
<1>4. e.a < a /\ b < e.b => ~Overlap7(f, b, e.b)
  BY <1>1, <1>s, <1>t DEF Overlap7
<1> QED
  BY <1>2, <1>3, <1>4 DEF CanDel7, CanAdd7

Slots(big) == IF big THEN Slots7 ELSE Slots5

LEMMA DelFacts ==
  ASSUME NEW big \in BOOLEAN, NEW l, Label(big, l), NEW s \in Nat, NEW e \in Nat, s <= e,
         \A x \in s .. e : x \in FreeTracks(big, l)
  PROVE  /\ Label(big, DelFree(big, l, s, e))
         /\ FreeTracks(big, DelFree(big, l, s, e)) = FreeTracks(big, l) \ (s .. e)
         /\ IsFiniteSet(l) /\ Cardinality(l) < Slots(big) => CanDelFree(big, l, s, e)
<1> DEFINE n == e - s + 1
<1>1. n \in Nat \ {0} /\ e + 1 \in Nat /\ s < e + 1 /\ s + n - 1 = e /\ (e + 1) - 1 = e
  OBVIOUS
<1>2. CASE big
  <2>1. Label7(l) /\ \A x \in s .. ((e + 1) - 1) : x \in Tracks7(l)
    BY <1>1, <1>2 DEF Label, FreeTracks
  <2>2. Label7(Del7(l, s, e + 1)) /\ Tracks7(Del7(l, s, e + 1)) = Tracks7(l) \ (s .. ((e + 1) - 1))
    BY <1>1, <2>1, Del7Facts
  <2>3. Cardinality(l) < Slots7 => CanDel7(l, s, e + 1)
    BY <1>1, <2>1, CanDel7Facts
  <2> QED
    BY <1>1, <1>2, <2>2, <2>3 DEF Label, FreeTracks, DelFree, CanDelFree, Slots
<1>3. CASE ~big
  <2> DEFINE B == Length5(n).b  C == Length5(n).c
  <2>1. B \in Nat /\ C \in 0 .. (Heads - 1) /\ n = B * Heads + C
    BY <1>1, LengthFacts
  <2>2. /\ DelFree(big, l, s, e) = Del5(l, s, B, C)
        /\ CanDelFree(big, l, s, e) = CanDel5(l, s, B, C)
    BY <1>3 DEF DelFree, CanDelFree
  <2> HIDE DEF n, B, C
  <2>3. Label5(l) /\ \A x \in s .. (s + n - 1) : x \in Tracks5(l)
    BY <1>1, <1>3 DEF Label, FreeTracks
  <2>4. /\ Label5(Del5(l, s, B, C)) /\ Tracks5(Del5(l, s, B, C)) = Tracks5(l) \ (s .. (s + n - 1))
        /\ IsFiniteSet(l) /\ Cardinality(l) < Slots5 => CanDel5(l, s, B, C)
    BY <1>1, <2>1, <2>3, Del5Facts
  <2> QED
    BY <1>1, <1>3, <2>2, <2>4 DEF Label, FreeTracks, Slots
<1> QED
  BY <1>2, <1>3

\* The check of libvtoc refuses tracks of which the first is not free
LEMMA RefusedFacts ==
  ASSUME NEW big \in BOOLEAN, NEW l, Label(big, l), NEW s \in Nat, NEW e \in Nat, s <= e,
         CanDelFree(big, l, s, e)
  PROVE  s \in FreeTracks(big, l)
<1> DEFINE n == e - s + 1
<1>1. n \in Nat \ {0} /\ e + 1 \in Nat /\ s < e + 1
  OBVIOUS
<1>2. CASE big
  <2>1. Label7(l) /\ Within7(l, s, e + 1) # {}
    BY <1>2 DEF Label, CanDelFree, CanDel7
  <2>2. PICK x \in l : x.a <= s /\ e + 1 <= x.b
    BY <2>1 DEF Within7
  <2>3. x.a \in Nat /\ x.b \in Nat
    BY <2>1 DEF Label7, Extents7
  <2> QED
    BY <1>2, <2>1, <2>2, <2>3, InTracks7 DEF FreeTracks
<1>3. CASE ~big
  <2> DEFINE B == Length5(n).b  C == Length5(n).c
  <2>1. B \in Nat /\ C \in 0 .. (Heads - 1) /\ n = B * Heads + C /\ B * Heads \in Nat
    BY <1>1, LengthFacts, GeometryAssumption
  <2>2. CanDel5(l, s, B, C)
    BY <1>3 DEF CanDelFree
  <2> HIDE DEF n, B, C
  <2>3. Label5(l)
    BY <1>3 DEF Label
  <2>4. PICK x \in l : Fills5(x, s, B, C) \/ Left5(x, s, B, C) \/ Right5(x, s, B, C) \/ Split5(x, s, B, C)
    BY <2>2 DEF CanDel5, Hits5
  <2>5. x.t \in Nat /\ End5(x) \in Nat /\ x.t < End5(x)
    BY <2>3, Label5Iff, Size5Facts DEF Extents5
  <2>6. x.t <= s /\ s < End5(x)
    BY <1>1, <2>1, <2>4, <2>5 DEF Fills5, Left5, Right5, Split5
  <2> QED
    BY <1>3, <2>3, <2>6, InTracks5 DEF FreeTracks
<1> QED
  BY <1>2, <1>3

\* A free extent begins where no free track is in front
LEMMA StartFacts ==
  ASSUME NEW big \in BOOLEAN, NEW l, Label(big, l), NEW e \in l
  PROVE  /\ Start(big, e) \in Nat /\ Start(big, e) \in FreeTracks(big, l)
         /\ Start(big, e) - 1 \notin FreeTracks(big, l)
         /\ \A g \in l : Start(big, e) = Start(big, g) => e = g
<1>1. CASE big
  <2>1. \A g \in l : g.a \in Nat /\ g.b \in Nat /\ g.a < g.b
    BY <1>1 DEF Label, Label7, Extents7
  <2>2. \A x, g \in l : x # g => x.b < g.a \/ g.b < x.a
    BY <1>1 DEF Label, Label7, Apart
  <2> QED
    BY <1>1, <2>1, <2>2, InTracks7 DEF Label, Start, FreeTracks
<1>2. CASE ~big
  <2>1. \A g \in l : g.t \in Nat /\ End5(g) \in Nat /\ g.t < End5(g)
    BY <1>2, Label5Iff, Size5Facts DEF Label, Extents5
  <2>2. \A x, g \in l : x # g => End5(x) < g.t \/ End5(g) < x.t
    BY <1>2, Label5Iff DEF Label
  <2> QED
    BY <1>2, <2>1, <2>2, InTracks5 DEF Label, Start, FreeTracks
<1> QED
  BY <1>1, <1>2

-----------------------------------------------------------------------------
(* Lists of partitions.                                                    *)

IsList(s) == \E n \in Nat : DOMAIN s = 1 .. n /\ s = [i \in 1 .. n |-> s[i]]

LEMMA ListFacts ==
  ASSUME NEW s, NEW n \in Nat, s = [i \in 1 .. n |-> s[i]]
  PROVE  IsList(s) /\ Len(s) = n /\ DOMAIN s = 1 .. n /\ s \in Seq({s[i] : i \in 1 .. n})
<1> DEFINE S == {s[i] : i \in 1 .. n}
<1>1. s \in [1 .. n -> S] /\ DOMAIN s = 1 .. n
  OBVIOUS
<1>2. s \in Seq(S)
  <2>1. \A i \in 1 .. n : s[i] \in S
    BY <1>1
  <2> HIDE DEF S
  <2>2. [i \in 1 .. n |-> s[i]] \in Seq(S)
    BY <2>1
  <2> QED
    BY <2>2
<1>3. Len(s) = n
  BY <1>1, <1>2
<1> QED
  BY <1>1, <1>2, <1>3 DEF IsList

LEMMA ListLen ==
  ASSUME NEW s, IsList(s)
  PROVE  /\ Len(s) \in Nat /\ DOMAIN s = 1 .. Len(s) /\ s = [i \in 1 .. Len(s) |-> s[i]]
         /\ s \in Seq({s[i] : i \in 1 .. Len(s)})
<1>1. PICK n \in Nat : DOMAIN s = 1 .. n /\ s = [i \in 1 .. n |-> s[i]]
  BY DEF IsList
<1>2. Len(s) = n /\ s \in Seq({s[i] : i \in 1 .. n})
  BY <1>1, ListFacts
<1> QED
  BY <1>1, <1>2

LEMMA InsertFacts ==
  ASSUME NEW S, NEW s \in Seq(S), NEW e \in S, NEW i \in 1 .. (Len(s) + 1)
  PROVE  InsertAt(s, i, e) = [j \in 1 .. (Len(s) + 1) |->
                                IF j < i THEN s[j] ELSE IF j = i THEN e ELSE s[j - 1]]
<1> DEFINE u == SubSeq(s, 1, i - 1)
           v == SubSeq(s, i, Len(s))
           w == u \o <<e>>
<1>1. u \in Seq(S) /\ Len(u) = i - 1 /\ \A j \in 1 .. (i - 1) : u[j] = s[j]
  OBVIOUS
<1>2. v \in Seq(S) /\ Len(v) = Len(s) - i + 1 /\ \A j \in 1 .. (Len(s) - i + 1) : v[j] = s[i + j - 1]
  OBVIOUS
<1> HIDE DEF u, v
<1>3. /\ w \in Seq(S) /\ Len(w) = i /\ w[i] = e
      /\ \A j \in 1 .. (i - 1) : w[j] = s[j]
  <2>1. <<e>> \in Seq(S) /\ Len(<<e>>) = 1 /\ <<e>>[1] = e
    OBVIOUS
  <2>2. /\ w \in Seq(S) /\ Len(w) = Len(u) + Len(<<e>>)
        /\ \A j \in 1 .. Len(u) + Len(<<e>>) : w[j] = IF j <= Len(u) THEN u[j] ELSE <<e>>[j - Len(u)]
    BY <1>1, <2>1, ConcatProperties, Zenon
  <2> HIDE DEF w
  <2> QED
    BY <1>1, <2>1, <2>2
<1> HIDE DEF w
<1> DEFINE r == w \o v
<1>4. /\ r \in Seq(S) /\ Len(r) = Len(s) + 1
      /\ \A j \in 1 .. i : r[j] = w[j]
      /\ \A j \in (i + 1) .. (Len(s) + 1) : r[j] = v[j - i]
  <2>1. /\ r \in Seq(S) /\ Len(r) = Len(w) + Len(v)
        /\ \A j \in 1 .. Len(w) + Len(v) : r[j] = IF j <= Len(w) THEN w[j] ELSE v[j - Len(w)]
    BY <1>2, <1>3, ConcatProperties, Zenon
  <2> HIDE DEF r
  <2> QED
    BY <1>2, <1>3, <2>1
<1>5. InsertAt(s, i, e) = r
  BY DEF InsertAt, u, v, w
<1> HIDE DEF r
<1>6. \A j \in 1 .. (Len(s) + 1) : r[j] = IF j < i THEN s[j] ELSE IF j = i THEN e ELSE s[j - 1]
  <2> TAKE j \in 1 .. (Len(s) + 1)
  <2>1. CASE j < i
    BY <1>3, <1>4, <2>1
  <2>2. CASE j = i
    BY <1>3, <1>4, <2>2
  <2>3. CASE j > i
    <3>1. j - i \in 1 .. (Len(s) - i + 1) /\ i + (j - i) - 1 = j - 1 /\ j \in (i + 1) .. (Len(s) + 1)
      BY <2>3
    <3> QED
      BY <1>2, <1>4, <2>3, <3>1
  <2> QED
    BY <2>1, <2>2, <2>3
<1> QED
  BY <1>4, <1>5, <1>6

LEMMA RemoveFacts ==
  ASSUME NEW S, NEW s \in Seq(S), NEW i \in 1 .. Len(s)
  PROVE  RemoveAt(s, i) = [j \in 1 .. (Len(s) - 1) |-> IF j < i THEN s[j] ELSE s[j + 1]]
<1> DEFINE u == SubSeq(s, 1, i - 1)
           v == SubSeq(s, i + 1, Len(s))
<1>0. Len(s) \in Nat /\ Len(s) - 1 \in Nat
  OBVIOUS
<1>1. u \in Seq(S) /\ Len(u) = i - 1 /\ \A j \in 1 .. (i - 1) : u[j] = s[j]
  OBVIOUS
<1>2. v \in Seq(S) /\ Len(v) = Len(s) - i /\ \A j \in 1 .. (Len(s) - i) : v[j] = s[i + 1 + j - 1]
  OBVIOUS
<1> HIDE DEF u, v
<1> DEFINE r == u \o v
<1>4. /\ r \in Seq(S) /\ Len(r) = Len(s) - 1
      /\ \A j \in 1 .. (i - 1) : r[j] = u[j]
      /\ \A j \in i .. (Len(s) - 1) : r[j] = v[j - (i - 1)]
  <2>1. /\ r \in Seq(S) /\ Len(r) = Len(u) + Len(v)
        /\ \A j \in 1 .. Len(u) + Len(v) : r[j] = IF j <= Len(u) THEN u[j] ELSE v[j - Len(u)]
    BY <1>1, <1>2, ConcatProperties, Zenon
  <2> HIDE DEF r
  <2>2. Len(u) = i - 1 /\ Len(u) + Len(v) = Len(s) - 1
    BY <1>0, <1>1, <1>2
  <2>3. \A j \in 1 .. (Len(s) - 1) : r[j] = IF j <= i - 1 THEN u[j] ELSE v[j - (i - 1)]
    BY <2>1, <2>2
  <2>4. \A j \in 1 .. (i - 1) : j \in 1 .. (Len(s) - 1) /\ j <= i - 1
    BY <1>0
  <2>5. \A j \in i .. (Len(s) - 1) : j \in 1 .. (Len(s) - 1) /\ ~(j <= i - 1)
    BY <1>0
  <2> QED
    BY <2>1, <2>2, <2>3, <2>4, <2>5
<1>5. RemoveAt(s, i) = r
  BY DEF RemoveAt, u, v
<1> HIDE DEF r
<1>6. \A j \in 1 .. (Len(s) - 1) : r[j] = IF j < i THEN s[j] ELSE s[j + 1]
  <2> TAKE j \in 1 .. (Len(s) - 1)
  <2>1. CASE j < i
    BY <1>1, <1>4, <2>1
  <2>2. CASE j >= i
    <3>1. j - (i - 1) \in 1 .. (Len(s) - i) /\ i + 1 + (j - (i - 1)) - 1 = j + 1 /\ j \in i .. (Len(s) - 1)
      BY <2>2
    <3>2. r[j] = v[j - (i - 1)]
      BY <1>4, <3>1, Zenon
    <3>3. v[j - (i - 1)] = s[i + 1 + (j - (i - 1)) - 1]
      BY <1>2, <3>1, Zenon
    <3>4. r[j] = s[j + 1]
      BY <3>1, <3>2, <3>3, Zenon
    <3> QED
      BY <2>2, <3>4
  <2> QED
    BY <2>1, <2>2
<1> QED
  BY <1>0, <1>4, <1>5, <1>6

\* A list of extents in order
Spans(ps) == /\ IsList(ps) /\ Ordered(ps)
             /\ \A i \in 1 .. Len(ps) : ps[i].start \in Nat /\ ps[i].end \in Nat

LEMMA LimitFacts == Limit \in Nat /\ First \in Nat /\ First <= Limit /\ First = 2
<1>1. Cylinders \in Nat \ {0} /\ Heads \in 3 .. 16
  BY FdasdAssumption
<1>2. 1 * Heads <= Cylinders * Heads /\ Cylinders * Heads \in Int
  BY <1>1
<1> QED
  BY <1>1, <1>2 DEF Limit, First

\* The order of neighbours is the order of all
LEMMA OrderFacts ==
  ASSUME NEW ps, Spans(ps)
  PROVE  /\ Len(ps) \in Nat /\ DOMAIN ps = 1 .. Len(ps)
         /\ \A i \in 1 .. Len(ps) : /\ ps[i].start \in Nat /\ ps[i].end \in Nat
                                    /\ First <= ps[i].start /\ ps[i].start <= ps[i].end
                                    /\ ps[i].end <= Limit
         /\ \A i, j \in 1 .. Len(ps) : i < j => ps[i].end < ps[j].start
<1>1. Len(ps) \in Nat /\ DOMAIN ps = 1 .. Len(ps)
  BY ListLen DEF Spans
<1>2. \A i \in 1 .. Len(ps) : /\ ps[i].start \in Nat /\ ps[i].end \in Nat
                              /\ First <= ps[i].start /\ ps[i].start <= ps[i].end
                              /\ ps[i].end <= Limit
  BY <1>1 DEF Spans, Ordered
<1>3. \A i \in 1 .. (Len(ps) - 1) : ps[i].end < ps[i + 1].start
  BY DEF Spans, Ordered
<1> DEFINE N == {j \in Nat : j \in 1 .. Len(ps) =>
                               \A i \in 1 .. Len(ps) : i < j => ps[i].end < ps[j].start}
<1>4. 0 \in N
  OBVIOUS
<1>5. ASSUME NEW j \in Nat, j \in N PROVE j + 1 \in N
  <2> SUFFICES ASSUME j + 1 \in 1 .. Len(ps), NEW i \in 1 .. Len(ps), i < j + 1
               PROVE  ps[i].end < ps[j + 1].start
    OBVIOUS
  <2>1. j \in 1 .. (Len(ps) - 1) /\ j \in 1 .. Len(ps)
    BY <1>1
  <2>2. ps[j].end < ps[j + 1].start
    BY <1>3, <2>1
  <2>3. CASE i = j
    BY <2>2, <2>3
  <2>4. CASE i < j
    <3>1. ps[i].end < ps[j].start
      BY <1>5, <2>1, <2>4
    <3>2. /\ ps[i].end \in Nat /\ ps[j].start \in Nat /\ ps[j].end \in Nat /\ ps[j + 1].start \in Nat
          /\ ps[j].start <= ps[j].end
      BY <1>2, <2>1
    <3> DEFINE a == ps[i].end  b == ps[j].start  c == ps[j].end  d == ps[j + 1].start
    <3>3. a < b /\ b <= c /\ c < d /\ a \in Nat /\ b \in Nat /\ c \in Nat /\ d \in Nat
      BY <2>2, <3>1, <3>2, Zenon
    <3> HIDE DEF a, b, c, d
    <3>4. a < d
      BY <3>3
    <3> QED
      BY <3>4, Zenon DEF a, d
  <2> QED
    BY <2>3, <2>4
<1>6. Nat \subseteq N
  BY <1>4, <1>5, Induct
<1> QED
  BY <1>1, <1>2, <1>6

\* The tracks that a list of extents has
LEMMA InPartFacts ==
  ASSUME NEW ps, Spans(ps), NEW x \in Int
  PROVE  /\ x \in TracksOfParts(ps) <=> \E i \in 1 .. Len(ps) : ps[i].start <= x /\ x <= ps[i].end
         /\ x \in TracksOfParts(ps) <=> InPart(x, ps)
<1>1. /\ DOMAIN ps = 1 .. Len(ps)
      /\ \A i \in 1 .. Len(ps) : ps[i].start \in Nat /\ ps[i].end \in Nat
  BY OrderFacts
<1>2. \A i \in 1 .. Len(ps) : x \in ps[i].start .. ps[i].end <=> ps[i].start <= x /\ x <= ps[i].end
  BY <1>1
<1>3. x \in TracksOfParts(ps) <=> \E i \in DOMAIN ps : x \in ps[i].start .. ps[i].end
  BY DEF TracksOfParts
<1> QED
  BY <1>1, <1>2, <1>3 DEF InPart

\* The extents that begin at or before a track come first
LEMMA Below ==
  ASSUME NEW ps, Spans(ps), NEW x \in Int
  PROVE  \E k \in 0 .. Len(ps) : /\ {i \in DOMAIN ps : ps[i].start <= x} = 1 .. k
                                 /\ Cardinality({i \in DOMAIN ps : ps[i].start <= x}) = k
<1> DEFINE T == {i \in DOMAIN ps : ps[i].start <= x}
<1>1. /\ Len(ps) \in Nat /\ DOMAIN ps = 1 .. Len(ps)
      /\ \A i \in 1 .. Len(ps) : ps[i].start \in Nat /\ ps[i].end \in Nat /\ ps[i].start <= ps[i].end
      /\ \A i, j \in 1 .. Len(ps) : i < j => ps[i].end < ps[j].start
  BY OrderFacts
<1>2. \E k \in 0 .. Len(ps) : T = 1 .. k
  <2>1. CASE T = {}
    <3>1. T = 1 .. 0 /\ 0 \in 0 .. Len(ps)
      BY <1>1, <2>1
    <3> QED
      BY <3>1
  <2>2. CASE T # {}
    <3>1. T \in SUBSET Nat /\ \A i \in T : i <= Len(ps)
      BY <1>1
    <3>2. PICK k \in T : \A i \in T : i <= k
      BY <1>1, <2>2, <3>1, GreatestNat
    <3>3. k \in 1 .. Len(ps) /\ ps[k].start <= x
      BY <1>1, <3>2
    <3>4. \A i \in 1 .. k : i \in 1 .. Len(ps) /\ ps[i].start <= x
      BY <1>1, <3>3
    <3>5. T = 1 .. k
      BY <1>1, <3>2, <3>3, <3>4
    <3> QED
      BY <3>3, <3>5
  <2> QED
    BY <2>1, <2>2
<1>3. PICK k \in 0 .. Len(ps) : T = 1 .. k
  BY <1>2
<1>4. Cardinality(1 .. k) = k
  BY <1>3, FS_Interval
<1> QED
  BY <1>3, <1>4

Row(p) == p = Part(p.start, p.end, p.fspace, p.name)

\* Free tracks behind the i-th element
Behind(ps, i) == (IF i = Len(ps) THEN Limit ELSE ps[i + 1].start - 1) - ps[i].end

\* A list of partitions with its counters
Good(ps) == Spans(ps) /\ \A i \in 1 .. Len(ps) : Row(ps[i]) /\ ps[i].fspace = Behind(ps, i)

LEMMA PartFacts ==
  ASSUME NEW s, NEW e, NEW f, NEW n
  PROVE  /\ Part(s, e, f, n).start = s /\ Part(s, e, f, n).end = e
         /\ Part(s, e, f, n).fspace = f /\ Part(s, e, f, n).name = n
         /\ Row(Part(s, e, f, n)) /\ LengthOf(Part(s, e, f, n)) = e - s + 1
         /\ \A g : [Part(s, e, f, n) EXCEPT !.fspace = g] = Part(s, e, g, n)
BY DEF Part, Row, LengthOf

\* Only the counter of the k-th element changed
LEMMA Recount ==
  ASSUME NEW ps, IsList(ps), NEW k \in 1 .. Len(ps), Row(ps[k]), NEW c
  PROVE  LET r == [ps EXCEPT ![k].fspace = c]
         IN /\ IsList(r) /\ Len(r) = Len(ps)
            /\ \A j \in 1 .. Len(ps) : j # k => r[j] = ps[j]
            /\ r[k] = Part(ps[k].start, ps[k].end, c, ps[k].name)
<1> DEFINE r == [ps EXCEPT ![k].fspace = c]
<1>1. Len(ps) \in Nat /\ DOMAIN ps = 1 .. Len(ps) /\ ps = [i \in 1 .. Len(ps) |-> ps[i]]
  BY ListLen
<1>2. r = [j \in 1 .. Len(ps) |-> IF j = k THEN [ps[k] EXCEPT !.fspace = c] ELSE ps[j]]
  BY <1>1
<1>3. [ps[k] EXCEPT !.fspace = c] = Part(ps[k].start, ps[k].end, c, ps[k].name)
  BY DEF Row, Part
<1> HIDE DEF r
<1>4. r = [j \in 1 .. Len(ps) |-> r[j]]
  BY <1>2
<1>5. IsList(r) /\ Len(r) = Len(ps)
  BY <1>1, <1>4, ListFacts
<1>6. (\A j \in 1 .. Len(ps) : j # k => r[j] = ps[j]) /\ r[k] = Part(ps[k].start, ps[k].end, c, ps[k].name)
  BY <1>2, <1>3
<1> QED
  BY <1>5, <1>6 DEF r

\* InsertAt and RemoveAt of lists
LEMMA InsertList ==
  ASSUME NEW ps, IsList(ps), NEW q, NEW k \in 0 .. Len(ps)
  PROVE  LET r == InsertAt(ps, k + 1, q)
         IN /\ IsList(r) /\ Len(r) = Len(ps) + 1 /\ r[k + 1] = q
            /\ \A j \in 1 .. k : r[j] = ps[j]
            /\ \A j \in (k + 1) .. Len(ps) : r[j + 1] = ps[j]
<1> DEFINE S == {ps[i] : i \in 1 .. Len(ps)} \cup {q}
           r == InsertAt(ps, k + 1, q)
<1>1. Len(ps) \in Nat /\ DOMAIN ps = 1 .. Len(ps) /\ ps = [i \in 1 .. Len(ps) |-> ps[i]]
  BY ListLen
<1>2. ps \in Seq(S) /\ q \in S
  <2>1. \A i \in 1 .. Len(ps) : ps[i] \in S
    OBVIOUS
  <2>2. q \in S
    OBVIOUS
  <2> HIDE DEF S
  <2>3. [i \in 1 .. Len(ps) |-> ps[i]] \in Seq(S)
    BY <1>1, <2>1
  <2> QED
    BY <1>1, <2>2, <2>3
<1> HIDE DEF S
<1>3. k + 1 \in 1 .. (Len(ps) + 1) /\ Len(ps) + 1 \in Nat
  BY <1>1
<1>4. r = [j \in 1 .. (Len(ps) + 1) |-> IF j < k + 1 THEN ps[j] ELSE IF j = k + 1 THEN q ELSE ps[j - 1]]
  <2> DEFINE i == k + 1
  <2>1. i \in 1 .. (Len(ps) + 1)
    BY <1>3
  <2> HIDE DEF i
  <2>2. InsertAt(ps, i, q) = [j \in 1 .. (Len(ps) + 1) |->
                                IF j < i THEN ps[j] ELSE IF j = i THEN q ELSE ps[j - 1]]
    BY <1>2, <2>1, InsertFacts
  <2> QED
    BY <2>2 DEF i
<1> HIDE DEF r
<1>5. r = [j \in 1 .. (Len(ps) + 1) |-> r[j]]
  BY <1>4
<1>6. IsList(r) /\ Len(r) = Len(ps) + 1
  BY <1>3, <1>5, ListFacts
<1>7. r[k + 1] = q /\ \A j \in 1 .. k : r[j] = ps[j]
  BY <1>1, <1>3, <1>4
<1>8. \A j \in (k + 1) .. Len(ps) : r[j + 1] = ps[j]
  <2> TAKE j \in (k + 1) .. Len(ps)
  <2>1. j + 1 \in 1 .. (Len(ps) + 1) /\ ~(j + 1 < k + 1) /\ j + 1 # k + 1 /\ (j + 1) - 1 = j
    BY <1>1
  <2> QED
    BY <1>4, <2>1
<1> QED
  BY <1>6, <1>7, <1>8 DEF r

LEMMA RemoveList ==
  ASSUME NEW ps, IsList(ps), NEW k \in 1 .. Len(ps)
  PROVE  LET r == RemoveAt(ps, k)
         IN /\ IsList(r) /\ Len(r) = Len(ps) - 1
            /\ \A j \in 1 .. (k - 1) : r[j] = ps[j]
            /\ \A j \in k .. (Len(ps) - 1) : r[j] = ps[j + 1]
<1> DEFINE S == {ps[i] : i \in 1 .. Len(ps)}
           r == RemoveAt(ps, k)
<1>1. Len(ps) \in Nat /\ ps \in Seq(S) /\ Len(ps) - 1 \in Nat
  BY ListLen
<1> HIDE DEF S
<1>2. r = [j \in 1 .. (Len(ps) - 1) |-> IF j < k THEN ps[j] ELSE ps[j + 1]]
  BY <1>1, RemoveFacts, Zenon
<1> HIDE DEF r
<1>3. r = [j \in 1 .. (Len(ps) - 1) |-> r[j]]
  BY <1>2
<1>4. IsList(r) /\ Len(r) = Len(ps) - 1
  BY <1>1, <1>3, ListFacts
<1>5. \A j \in 1 .. (k - 1) : r[j] = ps[j]
  BY <1>1, <1>2
<1>6. \A j \in k .. (Len(ps) - 1) : r[j] = ps[j + 1]
  BY <1>1, <1>2
<1> QED
  BY <1>4, <1>5, <1>6 DEF r

\* Where a new partition goes
LEMMA InsertPlace ==
  ASSUME Spans(parts), NEW s \in Nat, NEW e \in Nat, s <= e, \A x \in s .. e : ~InPart(x, parts)
  PROVE  \E k \in 0 .. Len(parts) : /\ Insert(Part(s, e, 0, NewName)) = k + 1
                                    /\ \A i \in 1 .. k : parts[i].end < s
                                    /\ \A i \in (k + 1) .. Len(parts) : e < parts[i].start
<1>1. /\ Len(parts) \in Nat /\ DOMAIN parts = 1 .. Len(parts)
      /\ \A i \in 1 .. Len(parts) : /\ parts[i].start \in Nat /\ parts[i].end \in Nat
                                    /\ parts[i].start <= parts[i].end
  BY OrderFacts
<1>2. PICK k \in 0 .. Len(parts) :
        /\ {i \in DOMAIN parts : parts[i].start <= s} = 1 .. k
        /\ Cardinality({i \in DOMAIN parts : parts[i].start <= s}) = k
  <2>1. s \in Int
    OBVIOUS
  <2> QED
    BY <2>1, Below, Zenon
<1>3. Insert(Part(s, e, 0, NewName)) = k + 1
  <2> DEFINE p == Part(s, e, 0, NewName)
  <2>1. p.start = s
    BY PartFacts
  <2> HIDE DEF p
  <2>2. Insert(p) = 1 + Cardinality({i \in DOMAIN parts : parts[i].start <= p.start})
    BY DEF Insert
  <2>3. Insert(p) = 1 + k
    BY <1>2, <2>1, <2>2, Zenon
  <2>4. 1 + k = k + 1
    OBVIOUS
  <2> QED
    BY <2>3, <2>4, Zenon DEF p
<1>4. ASSUME NEW i \in 1 .. k PROVE parts[i].end < s
  <2>1. i \in DOMAIN parts /\ parts[i].start <= s
    BY <1>2
  <2>2. ~InPart(s, parts)
    OBVIOUS
  <2>3. ~(parts[i].start <= s /\ s <= parts[i].end)
    BY <2>1, <2>2 DEF InPart
  <2> QED
    BY <1>1, <2>1, <2>3
<1>5. ASSUME NEW i \in (k + 1) .. Len(parts) PROVE e < parts[i].start
  <2>1. i \in DOMAIN parts /\ i \notin 1 .. k
    BY <1>1
  <2>2. s < parts[i].start
    BY <1>1, <1>2, <2>1
  <2>3. InPart(parts[i].start, parts)
    BY <1>1, <2>1 DEF InPart
  <2>4. parts[i].start \notin s .. e
    BY <2>3
  <2> QED
    BY <1>1, <2>1, <2>2, <2>4
<1> QED
  BY <1>3, <1>4, <1>5

\* The list with a new partition: everything about the elements of it
LEMMA EnqueuedIs ==
  ASSUME Good(parts), gap = FirstGap(parts), NEW s \in Nat, NEW e \in Nat, s <= e,
         NEW k \in 0 .. Len(parts), Insert(Part(s, e, 0, NewName)) = k + 1
  PROVE  LET r == Enqueued(Part(s, e, 0, NewName))
             after == IF k = Len(parts) THEN Limit + 1 ELSE parts[k + 1].start
         IN /\ IsList(r) /\ Len(r) = Len(parts) + 1
            /\ r[k + 1] = Part(s, e, after - 1 - e, NewName)
            /\ \A j \in 1 .. k : j # k => r[j] = parts[j]
            /\ k > 0 => r[k] = Part(parts[k].start, parts[k].end, s - (parts[k].end + 1), parts[k].name)
            /\ \A j \in (k + 1) .. Len(parts) : r[j + 1] = parts[j]
<1> DEFINE p == Part(s, e, 0, NewName)
           r == Enqueued(p)
           after == IF k = Len(parts) THEN Limit + 1 ELSE parts[k + 1].start
           before == IF k + 1 = 1 THEN gap ELSE parts[(k + 1) - 1].fspace
           from == IF k + 1 = 1 THEN First ELSE parts[(k + 1) - 1].end + 1
           q == [p EXCEPT !.fspace = before - LengthOf(p) - p.start + from]
           ps == IF k + 1 = 1 THEN parts ELSE [parts EXCEPT ![(k + 1) - 1].fspace = p.start - from]
<1>1. /\ Len(parts) \in Nat /\ DOMAIN parts = 1 .. Len(parts) /\ IsList(parts)
      /\ \A i \in 1 .. Len(parts) : /\ parts[i].start \in Nat /\ parts[i].end \in Nat
                                    /\ Row(parts[i]) /\ parts[i].fspace = Behind(parts, i)
  BY OrderFacts DEF Good, Spans
<1>2. r = InsertAt(ps, k + 1, q)
  BY Zenon DEF Enqueued
<1>3. (k + 1) - 1 = k /\ (k + 1 = 1 <=> k = 0)
  OBVIOUS
<1>4. before + from = after /\ before \in Int /\ from \in Int
  <2>1. CASE k = 0
    <3>1. before = FirstGap(parts) /\ from = First
      BY <1>3, <2>1
    <3>2. parts = << >> <=> Len(parts) = 0
      BY <1>1, ListLen
    <3>3. after = IF Len(parts) = 0 THEN Limit + 1 ELSE parts[1].start
      BY <2>1
    <3>4. Len(parts) # 0 => parts[1].start \in Nat
      BY <1>1
    <3> HIDE DEF before, from, after
    <3> QED
      BY <3>1, <3>2, <3>3, <3>4, LimitFacts DEF FirstGap
  <2>2. CASE k # 0
    <3>1. k \in 1 .. Len(parts)
      BY <1>1, <2>2
    <3>2. before = parts[k].fspace /\ from = parts[k].end + 1
      BY <1>3, <2>2
    <3>0. Len(parts) \in Nat
      BY <1>1
    <3>3. k # Len(parts) => k + 1 \in 1 .. Len(parts)
      BY <3>0, <3>1
    <3>4. parts[k].end \in Nat /\ parts[k].fspace = Behind(parts, k)
      BY <1>1, <3>1
    <3>5. k # Len(parts) => parts[k + 1].start \in Nat
      <4>1. \A i \in 1 .. Len(parts) : parts[i].start \in Nat
        BY <1>1
      <4> QED
        BY <3>3, <4>1, Zenon
    <3>6. after = IF k = Len(parts) THEN Limit + 1 ELSE parts[k + 1].start
      OBVIOUS
    <3> HIDE DEF before, from, after
    <3>7. CASE k = Len(parts)
      BY <3>2, <3>4, <3>6, <3>7, LimitFacts DEF Behind
    <3>8. CASE k # Len(parts)
      <4>1. before = (after - 1) - parts[k].end /\ after \in Nat
        BY <3>2, <3>4, <3>5, <3>6, <3>8, Zenon DEF Behind
      <4> DEFINE z == parts[k].end
      <4>2. z \in Nat /\ after \in Nat /\ from = z + 1 /\ before = (after - 1) - z
        BY <3>2, <3>4, <4>1, Zenon
      <4> HIDE DEF z
      <4>3. ((after - 1) - z) + (z + 1) = after /\ (after - 1) - z \in Int /\ z + 1 \in Int
        BY <4>2
      <4> QED
        BY <4>2, <4>3, Zenon
    <3> QED
      BY <3>7, <3>8
  <2> QED
    BY <2>1, <2>2
<1>5. q = Part(s, e, after - 1 - e, NewName)
  <2>1. q = Part(s, e, before - LengthOf(p) - p.start + from, NewName)
    BY PartFacts
  <2>2. LengthOf(p) = e - s + 1 /\ p.start = s
    BY PartFacts
  <2> HIDE DEF before, from, after, p, q
  <2>3. before - (e - s + 1) - s + from = after - 1 - e
    BY <1>4
  <2> QED
    BY <2>1, <2>2, <2>3
<1>6. /\ IsList(ps) /\ Len(ps) = Len(parts)
      /\ \A j \in 1 .. Len(parts) : j # k => ps[j] = parts[j]
      /\ k > 0 => ps[k] = Part(parts[k].start, parts[k].end, s - (parts[k].end + 1), parts[k].name)
  <2>1. CASE k = 0
    BY <1>1, <2>1
  <2>2. CASE k # 0
    <3>1. k \in 1 .. Len(parts) /\ Row(parts[k])
      BY <1>1, <2>2
    <3>2. ps = [parts EXCEPT ![k].fspace = s - (parts[k].end + 1)]
      <4>1. ps = [parts EXCEPT ![k].fspace = p.start - from]
        <5> HIDE DEF p, from
        <5> QED
          BY <1>3, <2>2
      <4>2. p.start = s
        BY PartFacts
      <4>3. from = parts[k].end + 1
        BY <1>3, <2>2
      <4> HIDE DEF p, from, ps
      <4> QED
        BY <4>1, <4>2, <4>3
    <3> HIDE DEF ps
    <3> QED
      BY <1>1, <3>1, <3>2, Recount
  <2> QED
    BY <2>1, <2>2
<1> HIDE DEF ps, q, after, r
<1>7. /\ IsList(r) /\ Len(r) = Len(ps) + 1 /\ r[k + 1] = q
      /\ \A j \in 1 .. k : r[j] = ps[j]
      /\ \A j \in (k + 1) .. Len(ps) : r[j + 1] = ps[j]
  BY <1>1, <1>2, <1>6, InsertList
<1>8. \A j \in 1 .. k : j # k => r[j] = parts[j]
  <2>1. \A j \in 1 .. k : j \in 1 .. Len(parts)
    BY <1>1
  <2> QED
    BY <1>6, <1>7, <2>1, Zenon
<1>9. ASSUME NEW j \in (k + 1) .. Len(parts) PROVE r[j + 1] = parts[j]
  <2>1. j \in 1 .. Len(parts) /\ j # k
    BY <1>1
  <2>2. ps[j] = parts[j]
    BY <1>6, <2>1, Zenon
  <2>3. r[j + 1] = ps[j]
    BY <1>6, <1>7, Zenon
  <2> QED
    BY <2>2, <2>3, Zenon
<1>10. ASSUME k > 0
       PROVE  r[k] = Part(parts[k].start, parts[k].end, s - (parts[k].end + 1), parts[k].name)
  <2>1. k \in 1 .. k
    BY <1>10
  <2> QED
    BY <1>6, <1>7, <1>10, <2>1, Zenon
<1> QED
  BY <1>5, <1>6, <1>7, <1>8, <1>9, <1>10 DEF r, after, p

\* The tracks of a list are those of its extents
LEMMA TracksOfExtents ==
  ASSUME NEW ps, NEW y
  PROVE  y \in TracksOfParts(ps) <=> \E x \in ExtentsOf(ps) : y \in x.start .. x.end
<1> DEFINE X(i) == [start |-> ps[i].start, end |-> ps[i].end]
<1>1. \A i \in DOMAIN ps : X(i).start = ps[i].start /\ X(i).end = ps[i].end
  OBVIOUS
<1>2. ExtentsOf(ps) = {X(i) : i \in DOMAIN ps}
  BY DEF ExtentsOf
<1>3. y \in TracksOfParts(ps) <=> \E i \in DOMAIN ps : y \in ps[i].start .. ps[i].end
  BY DEF TracksOfParts
<1> HIDE DEF X
<1> QED
  BY <1>1, <1>2, <1>3

\* fdasd_enqueue_new_partition keeps the order and all counters exact
LEMMA EnqueueFacts ==
  ASSUME Good(parts), gap = FirstGap(parts), NEW s \in Nat, NEW e \in Nat,
         First <= s, s <= e, e <= Limit, \A x \in s .. e : ~InPart(x, parts)
  PROVE  LET p == Part(s, e, 0, NewName)
             r == Enqueued(p)
         IN /\ Good(r) /\ Len(r) = Len(parts) + 1
            /\ FirstGap(r) = IF Insert(p) - 1 = 0 THEN p.start - First ELSE gap
            /\ ExtentsOf(r) = ExtentsOf(parts) \cup {[start |-> s, end |-> e]}
            /\ TracksOfParts(r) = TracksOfParts(parts) \cup s .. e
<1> DEFINE p == Part(s, e, 0, NewName)
           r == Enqueued(p)
           n == Len(parts)
<1>1. /\ n \in Nat /\ DOMAIN parts = 1 .. n
      /\ \A i \in 1 .. n : /\ parts[i].start \in Nat /\ parts[i].end \in Nat
                           /\ First <= parts[i].start /\ parts[i].start <= parts[i].end
                           /\ parts[i].end <= Limit
      /\ \A i, j \in 1 .. n : i < j => parts[i].end < parts[j].start
  BY OrderFacts DEF Good
<1>2. \A i \in 1 .. n : Row(parts[i]) /\ parts[i].fspace = Behind(parts, i)
  BY DEF Good
<1>3. PICK k \in 0 .. Len(parts) : /\ Insert(p) = k + 1
                                   /\ \A i \in 1 .. k : parts[i].end < s
                                   /\ \A i \in (k + 1) .. Len(parts) : e < parts[i].start
  BY InsertPlace DEF Good
<1>n. n \in Nat /\ k \in Nat /\ k <= n
  BY <1>1, <1>3
<1> DEFINE after == IF k = n THEN Limit + 1 ELSE parts[k + 1].start
<1>4. /\ IsList(r) /\ Len(r) = n + 1
      /\ r[k + 1] = Part(s, e, after - 1 - e, NewName)
      /\ \A j \in 1 .. k : j # k => r[j] = parts[j]
      /\ k > 0 => r[k] = Part(parts[k].start, parts[k].end, s - (parts[k].end + 1), parts[k].name)
      /\ \A j \in (k + 1) .. n : r[j + 1] = parts[j]
  BY <1>3, EnqueuedIs
<1> HIDE DEF r
<1>5. \A j \in 1 .. k : r[j].start = parts[j].start /\ r[j].end = parts[j].end /\ Row(r[j])
  <2> TAKE j \in 1 .. k
  <2>1. j \in 1 .. n
    BY <1>1
  <2>2. CASE j = k
    <3>1. r[j] = Part(parts[k].start, parts[k].end, s - (parts[k].end + 1), parts[k].name)
      BY <1>4, <2>2
    <3> QED
      BY <2>2, <3>1 DEF Part, Row
  <2>3. CASE j # k
    BY <1>2, <1>4, <2>1, <2>3
  <2> QED
    BY <2>2, <2>3
<1>6. r[k + 1].start = s /\ r[k + 1].end = e /\ r[k + 1].fspace = after - 1 - e /\ Row(r[k + 1])
  <2> HIDE DEF after
  <2>1. r[k + 1] = Part(s, e, after - 1 - e, NewName)
    BY <1>4
  <2> QED
    BY <2>1 DEF Part, Row
<1>7. \A j \in (k + 2) .. (n + 1) : r[j] = parts[j - 1] /\ j - 1 \in (k + 1) .. n /\ j - 1 \in 1 .. n
  <2> TAKE j \in (k + 2) .. (n + 1)
  <2>1. j - 1 \in (k + 1) .. n /\ j - 1 \in 1 .. n /\ (j - 1) + 1 = j
    BY <1>1
  <2> QED
    BY <1>4, <2>1
<1>8. \A j \in 1 .. (n + 1) : j \in 1 .. k \/ j = k + 1 \/ j \in (k + 2) .. (n + 1)
  BY <1>1
<1>9. \A j \in 1 .. k : j \in 1 .. n
  BY <1>1
<1>10. \A j \in 1 .. (n + 1) : /\ r[j].start \in Nat /\ r[j].end \in Nat /\ Row(r[j])
                               /\ First <= r[j].start /\ r[j].start <= r[j].end /\ r[j].end <= Limit
  <2> TAKE j \in 1 .. (n + 1)
  <2>1. CASE j \in 1 .. k
    BY <1>1, <1>5, <1>9, <2>1
  <2>2. CASE j = k + 1
    BY <1>6, <2>2
  <2>3. CASE j \in (k + 2) .. (n + 1)
    BY <1>1, <1>2, <1>7, <2>3
  <2> QED
    BY <1>8, <2>1, <2>2, <2>3
<1>11. \A j \in 1 .. n : r[j].end < r[j + 1].start
  <2> TAKE j \in 1 .. n
  <2>1. CASE j < k
    <3>1. j \in 1 .. k /\ j + 1 \in 1 .. k /\ j + 1 \in 1 .. n /\ j < j + 1
      BY <1>n, <2>1
    <3>2. parts[j].end < parts[j + 1].start
      BY <1>1, <3>1
    <3> QED
      BY <1>5, <3>1, <3>2
  <2>2. CASE j = k
    <3>1. j \in 1 .. k
      BY <2>2
    <3> QED
      BY <1>3, <1>5, <1>6, <2>2, <3>1
  <2>3. CASE j = k + 1
    <3>1. j + 1 \in (k + 2) .. (n + 1) /\ (j + 1) - 1 = j /\ j \in (k + 1) .. n
      BY <1>n, <2>3
    <3>2. r[j + 1] = parts[j] /\ e < parts[j].start
      BY <1>3, <1>7, <3>1
    <3> QED
      BY <1>6, <2>3, <3>2
  <2>4. CASE j > k + 1
    <3>1. /\ j \in (k + 2) .. (n + 1) /\ j + 1 \in (k + 2) .. (n + 1) /\ (j + 1) - 1 = j
          /\ j - 1 \in 1 .. n /\ j - 1 < j
      BY <1>n, <2>4
    <3>2. r[j] = parts[j - 1] /\ r[j + 1] = parts[j]
      BY <1>7, <3>1
    <3>3. parts[j - 1].end < parts[j].start
      BY <1>1, <3>1
    <3> QED
      BY <3>2, <3>3
  <2> QED
    BY <1>1, <2>1, <2>2, <2>3, <2>4
<1>12. \A j \in 1 .. (n + 1) : r[j].fspace = Behind(r, j)
  <2> TAKE j \in 1 .. (n + 1)
  <2>0. Behind(r, j) = (IF j = n + 1 THEN Limit ELSE r[j + 1].start - 1) - r[j].end
    BY <1>4 DEF Behind
  <2>1. CASE j < k
    <3>1. j \in 1 .. k /\ j + 1 \in 1 .. k /\ j \in 1 .. n /\ j # n /\ j # n + 1 /\ j # k
      BY <1>n, <2>1
    <3>2. r[j] = parts[j] /\ r[j + 1].start = parts[j + 1].start
      BY <1>4, <1>5, <3>1
    <3>3. parts[j].fspace = (parts[j + 1].start - 1) - parts[j].end
      BY <1>2, <3>1, Zenon DEF Behind
    <3> QED
      BY <2>0, <3>1, <3>2, <3>3, Zenon
  <2>2. CASE j = k
    <3>1. k > 0 /\ j # n + 1 /\ k \in 1 .. n
      BY <1>1, <2>2
    <3>2. r[k] = Part(parts[k].start, parts[k].end, s - (parts[k].end + 1), parts[k].name)
      BY <1>4, <3>1
    <3>3. r[k].fspace = s - (parts[k].end + 1) /\ r[k].end = parts[k].end
      BY <3>2 DEF Part
    <3>4. Behind(r, j) = (s - 1) - parts[k].end
      BY <1>6, <2>0, <2>2, <3>1, <3>3, Zenon
    <3>5. parts[k].end \in Nat
      BY <1>1, <3>1
    <3>6. s - (parts[k].end + 1) = (s - 1) - parts[k].end
      <4>1. \A z \in Nat : s - (z + 1) = (s - 1) - z
        OBVIOUS
      <4> QED
        BY <3>5, <4>1, Zenon
    <3> QED
      BY <2>2, <3>3, <3>4, <3>6, Zenon
  <2>3. CASE j = k + 1
    <3>1. CASE k = n
      <4>1. r[j].fspace = (Limit + 1) - 1 - e /\ Behind(r, j) = Limit - e
        BY <1>6, <2>0, <2>3, <3>1, Zenon
      <4> QED
        BY <4>1, LimitFacts
    <3>2. CASE k # n
      <4>1. /\ j + 1 \in (k + 2) .. (n + 1) /\ (j + 1) - 1 = j /\ j # n + 1 /\ j \in 1 .. n
        BY <1>n, <2>3, <3>2
      <4>2. r[j + 1] = parts[j]
        BY <1>7, <4>1
      <4>3. Behind(r, j) = (parts[k + 1].start - 1) - e /\ r[j].fspace = parts[k + 1].start - 1 - e
        BY <1>6, <2>0, <2>3, <3>2, <4>1, <4>2, Zenon
      <4> QED
        BY <4>3, Zenon
    <3> QED
      BY <3>1, <3>2
  <2>4. CASE j > k + 1
    <3>1. /\ j \in (k + 2) .. (n + 1) /\ j - 1 \in 1 .. n /\ (j - 1) + 1 = j
          /\ (j - 1 = n <=> j = n + 1)
      BY <1>n, <2>4
    <3>2. r[j] = parts[j - 1] /\ parts[j - 1].fspace = Behind(parts, j - 1)
      BY <1>2, <1>7, <3>1
    <3>3. Behind(parts, j - 1) = (IF j = n + 1 THEN Limit ELSE parts[j].start - 1) - parts[j - 1].end
      BY <3>1, Zenon DEF Behind
    <3>4. ASSUME j # n + 1 PROVE r[j + 1] = parts[j]
      <4>1. j + 1 \in (k + 2) .. (n + 1) /\ (j + 1) - 1 = j
        BY <1>n, <2>4, <3>4
      <4> QED
        BY <1>7, <4>1
    <3> QED
      BY <2>0, <3>2, <3>3, <3>4, Zenon
  <2> QED
    BY <1>1, <2>1, <2>2, <2>3, <2>4
<1>13. Good(r)
  <2>1. n + 1 \in Nat /\ (n + 1) - 1 = n /\ DOMAIN r = 1 .. (n + 1)
    BY <1>1, <1>4, ListLen
  <2>2. Ordered(r)
    <3>0. Len(r) = n + 1
      BY <1>4
    <3>1. Len(r) - 1 = n
      BY <2>1, <3>0, Zenon
    <3> QED
      BY <1>10, <1>11, <2>1, <3>1, Zenon DEF Ordered
  <2> QED
    BY <1>4, <1>10, <1>12, <2>2 DEF Good, Spans
<1>14. FirstGap(r) = IF Insert(p) - 1 = 0 THEN p.start - First ELSE gap
  <2>1. r # << >> /\ FirstGap(r) = r[1].start - First
    <3>1. r # << >>
      BY <1>n, <1>4
    <3> QED
      BY <3>1 DEF FirstGap
  <2>2. CASE k = 0
    <3>1. Insert(p) - 1 = 0 /\ p.start = s /\ r[1].start = s
      BY <1>3, <1>6, <2>2, PartFacts
    <3> QED
      BY <2>1, <3>1
  <2>3. CASE k # 0
    <3>1. 1 \in 1 .. k /\ 1 \in 1 .. n /\ Insert(p) - 1 # 0 /\ parts # << >>
      BY <1>1, <1>3, <2>3
    <3>2. r[1].start = parts[1].start
      BY <1>5, <3>1
    <3> QED
      BY <2>1, <3>1, <3>2 DEF FirstGap
  <2> QED
    BY <2>2, <2>3
<1>15. ExtentsOf(r) = ExtentsOf(parts) \cup {[start |-> s, end |-> e]}
  <2> DEFINE X(i) == [start |-> parts[i].start, end |-> parts[i].end]
             Y(i) == [start |-> r[i].start, end |-> r[i].end]
             new == [start |-> s, end |-> e]
  <2>1. ExtentsOf(parts) = {X(i) : i \in 1 .. n} /\ ExtentsOf(r) = {Y(i) : i \in 1 .. (n + 1)}
    BY <1>1, <1>4, ListLen DEF ExtentsOf
  <2>2. (\A j \in 1 .. k : Y(j) = X(j)) /\ Y(k + 1) = new
    BY <1>5, <1>6
  <2>3. \A j \in (k + 2) .. (n + 1) : Y(j) = X(j - 1) /\ j - 1 \in 1 .. n
    BY <1>7
  <2>4. \A j \in (k + 1) .. n : X(j) = Y(j + 1)
    BY <1>4
  <2> HIDE DEF X, Y, new
  <2>5. \A i \in 1 .. n : \/ i \in 1 .. k /\ i \in 1 .. (n + 1)
                          \/ i \in (k + 1) .. n /\ i + 1 \in 1 .. (n + 1)
    BY <1>n
  <2>6. k + 1 \in 1 .. (n + 1)
    BY <1>n
  <2>7. \A x : x \in ExtentsOf(r) => x \in ExtentsOf(parts) \cup {new}
    BY <1>8, <1>9, <2>1, <2>2, <2>3
  <2>8. \A x : x \in ExtentsOf(parts) \cup {new} => x \in ExtentsOf(r)
    BY <2>1, <2>2, <2>4, <2>5, <2>6
  <2> QED
    BY <2>7, <2>8 DEF new
<1>16. TracksOfParts(r) = TracksOfParts(parts) \cup s .. e
  <2> DEFINE new == [start |-> s, end |-> e]
  <2>1. new.start .. new.end = s .. e
    OBVIOUS
  <2> HIDE DEF new
  <2>2. ExtentsOf(r) = ExtentsOf(parts) \cup {new}
    BY <1>15 DEF new
  <2>3. \A y : y \in TracksOfParts(r) <=> y \in TracksOfParts(parts) \cup s .. e
    BY <2>1, <2>2, TracksOfExtents
  <2> QED
    BY <2>3
<1> QED
  BY <1>4, <1>13, <1>14, <1>15, <1>16 DEF r, p

\* fdasd_dequeue_old_partition gives the tracks of a partition to the counter
\* in front of it
LEMMA DequeueFacts ==
  ASSUME Good(parts), gap = FirstGap(parts), NEW k \in 1 .. Len(parts)
  PROVE  LET p == parts[k]
             r == Dequeued(k)
         IN /\ Good(r) /\ Len(r) = Len(parts) - 1
            /\ FirstGap(r) = IF k = 1 THEN gap + LengthOf(p) + p.fspace ELSE gap
            /\ [start |-> p.start, end |-> p.end] \in ExtentsOf(parts)
            /\ ExtentsOf(r) = ExtentsOf(parts) \ {[start |-> p.start, end |-> p.end]}
            /\ TracksOfParts(r) = TracksOfParts(parts) \ (p.start .. p.end)
            /\ p.start .. p.end \subseteq TracksOfParts(parts)
<1> DEFINE p == parts[k]
           r == Dequeued(k)
           n == Len(parts)
           after == IF k = n THEN Limit + 1 ELSE parts[k + 1].start
           c == parts[k - 1].fspace + (LengthOf(parts[k]) + parts[k].fspace)
           ps == IF k = 1 THEN parts ELSE [parts EXCEPT ![k - 1].fspace = c]
<1>1. /\ n \in Nat /\ DOMAIN parts = 1 .. n /\ IsList(parts)
      /\ \A i \in 1 .. n : /\ parts[i].start \in Nat /\ parts[i].end \in Nat
                           /\ First <= parts[i].start /\ parts[i].start <= parts[i].end
                           /\ parts[i].end <= Limit
      /\ \A i, j \in 1 .. n : i < j => parts[i].end < parts[j].start
  BY OrderFacts DEF Good, Spans
<1>2. \A i \in 1 .. n : Row(parts[i]) /\ parts[i].fspace = Behind(parts, i)
  BY DEF Good
<1>n. n \in Nat /\ k \in Nat /\ 1 <= k /\ k <= n
  BY <1>1
<1>3. /\ p.start \in Nat /\ p.end \in Nat /\ after \in Nat /\ p.fspace = after - 1 - p.end
      /\ LengthOf(p) = p.end - p.start + 1
  <2>1. p.start \in Nat /\ p.end \in Nat /\ p.fspace = Behind(parts, k)
    BY <1>1, <1>2
  <2>2. k # n => k + 1 \in 1 .. n
    BY <1>n
  <2>3. k # n => parts[k + 1].start \in Nat
    BY <1>1, <2>2
  <2>4. after \in Nat
    BY <2>3, LimitFacts
  <2>5. CASE k = n
    <3>1. p.fspace = Limit - p.end /\ after = Limit + 1
      BY <2>1, <2>5, Zenon DEF Behind
    <3> HIDE DEF after
    <3> QED
      BY <2>1, <2>4, <3>1, LimitFacts DEF LengthOf
  <2>6. CASE k # n
    BY <2>1, <2>4, <2>6, Zenon DEF Behind, LengthOf
  <2> QED
    BY <2>5, <2>6
<1>4. ASSUME k # 1
      PROVE  /\ k - 1 \in 1 .. n /\ parts[k - 1].end \in Nat
             /\ c = after - 1 - parts[k - 1].end
  <2>1. k - 1 \in 1 .. n /\ (k - 1) + 1 = k /\ k - 1 # n
    BY <1>n, <1>4
  <2>2. parts[k - 1].end \in Nat /\ parts[k - 1].fspace = (p.start - 1) - parts[k - 1].end
    <3>1. parts[k - 1].end \in Nat /\ parts[k - 1].fspace = Behind(parts, k - 1)
      BY <1>1, <1>2, <2>1
    <3> QED
      BY <2>1, <3>1, Zenon DEF Behind
  <2> HIDE DEF after
  <2>4. c = ((p.start - 1) - parts[k - 1].end) + ((p.end - p.start + 1) + (after - 1 - p.end))
    BY <1>3, <2>2, Zenon
  <2> DEFINE x == p.start  y == p.end  z == parts[k - 1].end
  <2>5. x \in Nat /\ y \in Nat /\ z \in Nat /\ after \in Nat
    BY <1>3, <2>2
  <2>6. c = ((x - 1) - z) + ((y - x + 1) + (after - 1 - y))
    BY <2>4, Zenon
  <2> HIDE DEF x, y, z
  <2>7. ((x - 1) - z) + ((y - x + 1) + (after - 1 - y)) = after - 1 - z
    BY <2>5
  <2>8. c = after - 1 - z
    BY <2>6, <2>7, Zenon
  <2> QED
    BY <2>1, <2>2, <2>8, Zenon DEF z
<1>5. r = RemoveAt(ps, k)
  BY <1>1, <1>4 DEF Dequeued
<1>6. /\ IsList(ps) /\ Len(ps) = n
      /\ \A j \in 1 .. n : j # k - 1 => ps[j] = parts[j]
      /\ k # 1 => ps[k - 1] = Part(parts[k - 1].start, parts[k - 1].end, c, parts[k - 1].name)
  <2>1. CASE k = 1
    BY <1>1, <2>1
  <2>2. CASE k # 1
    <3> HIDE DEF c
    <3>1. k - 1 \in 1 .. n /\ Row(parts[k - 1])
      BY <1>2, <1>4, <2>2
    <3>2. ps = [parts EXCEPT ![k - 1].fspace = c]
      BY <2>2
    <3> HIDE DEF ps
    <3> DEFINE m == k - 1
    <3>3. m \in 1 .. Len(parts) /\ Row(parts[m]) /\ ps = [parts EXCEPT ![m].fspace = c]
      BY <3>1, <3>2
    <3> HIDE DEF m
    <3>4. /\ IsList(ps) /\ Len(ps) = n
          /\ \A j \in 1 .. n : j # m => ps[j] = parts[j]
          /\ ps[m] = Part(parts[m].start, parts[m].end, c, parts[m].name)
      BY <1>1, <3>3, Recount
    <3> QED
      BY <3>4, Zenon DEF m
  <2> QED
    BY <2>1, <2>2
<1> HIDE DEF ps, r, c
<1>7. /\ IsList(r) /\ Len(r) = n - 1
      /\ \A j \in 1 .. (k - 1) : r[j] = ps[j]
      /\ \A j \in k .. (n - 1) : r[j] = ps[j + 1]
  <2>1. k \in 1 .. Len(ps)
    BY <1>6
  <2> QED
    BY <1>5, <1>6, <2>1, RemoveList
<1>8. \A j \in 1 .. (k - 1) : /\ j \in 1 .. n /\ r[j].start = parts[j].start /\ r[j].end = parts[j].end
                              /\ Row(r[j]) /\ (j # k - 1 => r[j] = parts[j])
                              /\ (j = k - 1 => r[j].fspace = c)
  <2> TAKE j \in 1 .. (k - 1)
  <2>1. j \in 1 .. n
    BY <1>n
  <2>2. CASE j = k - 1
    <3>1. r[j] = Part(parts[j].start, parts[j].end, c, parts[j].name)
      BY <1>6, <1>7, <1>n, <2>2
    <3> QED
      BY <2>1, <2>2, <3>1 DEF Part, Row
  <2>3. CASE j # k - 1
    BY <1>2, <1>6, <1>7, <2>1, <2>3
  <2> QED
    BY <2>2, <2>3
<1>9. \A j \in k .. (n - 1) : r[j] = parts[j + 1] /\ j + 1 \in 1 .. n /\ j + 1 \in (k + 1) .. n
  <2> TAKE j \in k .. (n - 1)
  <2>1. j + 1 \in 1 .. n /\ j + 1 # k - 1 /\ j + 1 \in (k + 1) .. n
    BY <1>n
  <2> QED
    BY <1>6, <1>7, <2>1
<1>10. \A j \in 1 .. (n - 1) : j \in 1 .. (k - 1) \/ j \in k .. (n - 1)
  BY <1>n
<1>11. \A j \in 1 .. (n - 1) : /\ r[j].start \in Nat /\ r[j].end \in Nat /\ Row(r[j])
                               /\ First <= r[j].start /\ r[j].start <= r[j].end /\ r[j].end <= Limit
  <2> TAKE j \in 1 .. (n - 1)
  <2>1. CASE j \in 1 .. (k - 1)
    BY <1>1, <1>8, <2>1
  <2>2. CASE j \in k .. (n - 1)
    BY <1>1, <1>2, <1>9, <2>2
  <2> QED
    BY <1>10, <2>1, <2>2
<1>12. \A j \in 1 .. (n - 2) : r[j].end < r[j + 1].start
  <2> TAKE j \in 1 .. (n - 2)
  <2>1. CASE j < k - 1
    <3>1. j \in 1 .. (k - 1) /\ j + 1 \in 1 .. (k - 1) /\ j < j + 1
      BY <1>n, <2>1
    <3>2. r[j].end = parts[j].end /\ r[j + 1].start = parts[j + 1].start /\ j \in 1 .. n /\ j + 1 \in 1 .. n
      BY <1>8, <3>1
    <3>3. parts[j].end < parts[j + 1].start
      BY <1>1, <3>1, <3>2
    <3> QED
      BY <3>2, <3>3
  <2>2. CASE j = k - 1
    <3>1. j \in 1 .. (k - 1) /\ j + 1 \in k .. (n - 1) /\ j < (j + 1) + 1
      BY <1>n, <2>2
    <3>2. r[j].end = parts[j].end /\ j \in 1 .. n
      BY <1>8, <3>1
    <3>3. r[j + 1] = parts[(j + 1) + 1] /\ (j + 1) + 1 \in 1 .. n
      BY <1>9, <3>1
    <3>4. parts[j].end < parts[(j + 1) + 1].start
      BY <1>1, <3>1, <3>2, <3>3
    <3> QED
      BY <3>2, <3>3, <3>4
  <2>3. CASE j > k - 1
    <3>1. j \in k .. (n - 1) /\ j + 1 \in k .. (n - 1) /\ j + 1 < (j + 1) + 1
      BY <1>n, <2>3
    <3>2. r[j] = parts[j + 1] /\ j + 1 \in 1 .. n /\ r[j + 1] = parts[(j + 1) + 1] /\ (j + 1) + 1 \in 1 .. n
      BY <1>9, <3>1
    <3>3. parts[j + 1].end < parts[(j + 1) + 1].start
      BY <1>1, <3>1, <3>2
    <3> QED
      BY <3>2, <3>3
  <2> QED
    BY <1>n, <2>1, <2>2, <2>3
<1>13. \A j \in 1 .. (n - 1) : r[j].fspace = Behind(r, j)
  <2> TAKE j \in 1 .. (n - 1)
  <2>0. Behind(r, j) = (IF j = n - 1 THEN Limit ELSE r[j + 1].start - 1) - r[j].end
    BY <1>7 DEF Behind
  <2>1. CASE j < k - 1
    <3>1. j \in 1 .. (k - 1) /\ j + 1 \in 1 .. (k - 1) /\ j # n /\ j # n - 1 /\ j # k - 1
      BY <1>n, <2>1
    <3>2. r[j] = parts[j] /\ r[j + 1].start = parts[j + 1].start /\ j \in 1 .. n
      BY <1>8, <3>1
    <3>3. parts[j].fspace = (parts[j + 1].start - 1) - parts[j].end
      BY <1>2, <3>1, <3>2, Zenon DEF Behind
    <3> QED
      BY <2>0, <3>1, <3>2, <3>3, Zenon
  <2>2. CASE j = k - 1
    <3>1. j \in 1 .. (k - 1) /\ k # 1 /\ (j = n - 1 <=> k = n) /\ (k # n => j + 1 \in k .. (n - 1) /\ (j + 1) + 1 = k + 1)
      BY <1>n, <2>2
    <3>2. r[j].fspace = after - 1 - parts[k - 1].end /\ r[j].end = parts[k - 1].end
      BY <1>4, <1>8, <2>2, <3>1
    <3>3. CASE k = n
      <4>1. Behind(r, j) = Limit - parts[k - 1].end /\ r[j].fspace = (Limit + 1) - 1 - parts[k - 1].end
        BY <2>0, <3>1, <3>2, <3>3, Zenon
      <4>2. parts[k - 1].end \in Nat
        BY <1>4, <3>1
      <4>3. \A z \in Nat : (Limit + 1) - 1 - z = Limit - z
        BY LimitFacts
      <4> QED
        BY <4>1, <4>2, <4>3, Zenon
    <3>4. CASE k # n
      <4>1. r[j + 1] = parts[k + 1]
        BY <1>9, <3>1, <3>4
      <4>2. Behind(r, j) = parts[k + 1].start - 1 - parts[k - 1].end /\ r[j].fspace = parts[k + 1].start - 1 - parts[k - 1].end
        BY <2>0, <3>1, <3>2, <3>4, <4>1, Zenon
      <4> QED
        BY <4>2, Zenon
    <3> QED
      BY <3>3, <3>4
  <2>3. CASE j > k - 1
    <3>1. j \in k .. (n - 1) /\ (j + 1 = n <=> j = n - 1) /\ (j # n - 1 => j + 1 \in k .. (n - 1))
      BY <1>n, <2>3
    <3>2. r[j] = parts[j + 1] /\ j + 1 \in 1 .. n
      BY <1>9, <3>1
    <3>3. j # n - 1 => r[j + 1] = parts[(j + 1) + 1]
      BY <1>9, <3>1
    <3>4. parts[j + 1].fspace = (IF j = n - 1 THEN Limit ELSE parts[(j + 1) + 1].start - 1) - parts[j + 1].end
      BY <1>2, <3>1, <3>2, Zenon DEF Behind
    <3> QED
      BY <2>0, <3>2, <3>3, <3>4, Zenon
  <2> QED
    BY <1>n, <2>1, <2>2, <2>3
<1>14. Good(r)
  <2>1. DOMAIN r = 1 .. (n - 1)
    BY <1>7, ListLen
  <2>2. Len(r) - 1 = n - 2
    <3>1. Len(r) = n - 1
      BY <1>7
    <3> QED
      BY <1>n, <3>1
  <2>3. Ordered(r)
    BY <1>11, <1>12, <2>1, <2>2, Zenon DEF Ordered
  <2> QED
    BY <1>7, <1>11, <1>13, <2>3 DEF Good, Spans
<1>15. FirstGap(r) = IF k = 1 THEN gap + LengthOf(p) + p.fspace ELSE gap
  <2>0. parts # << >> /\ gap = parts[1].start - First
    <3>1. parts # << >>
      BY <1>n
    <3> QED
      BY <3>1, Zenon DEF FirstGap
  <2>1. r = << >> <=> n - 1 = 0
    BY <1>7, <1>n, ListLen
  <2>2. CASE k = 1
    <3>1. gap + LengthOf(p) + p.fspace = after - First
      <4> DEFINE x == p.start  y == p.end
      <4>1. gap + LengthOf(p) + p.fspace = ((x - First) + (y - x + 1)) + (after - 1 - y)
        BY <1>3, <2>0, <2>2, Zenon
      <4>2. x \in Nat /\ y \in Nat /\ after \in Nat /\ First \in Nat
        BY <1>3, LimitFacts
      <4> HIDE DEF after, x, y
      <4>3. ((x - First) + (y - x + 1)) + (after - 1 - y) = after - First
        BY <4>2
      <4> QED
        BY <4>1, <4>3, Zenon
    <3>2. CASE n = 1
      <4>1. FirstGap(r) = Limit - First + 1 /\ after = Limit + 1
        BY <2>1, <2>2, <3>2 DEF FirstGap
      <4> HIDE DEF after
      <4> QED
        BY <2>2, <3>1, <4>1, LimitFacts
    <3>3. CASE n # 1
      <4>1. r # << >> /\ 1 \in k .. (n - 1) /\ k # n /\ k + 1 = 1 + 1
        BY <1>n, <2>1, <2>2, <3>3
      <4>2. r[1] = parts[k + 1]
        BY <1>9, <4>1
      <4>3. FirstGap(r) = parts[k + 1].start - First /\ after = parts[k + 1].start
        BY <4>1, <4>2, Zenon DEF FirstGap
      <4> HIDE DEF after
      <4> QED
        BY <2>2, <3>1, <4>3, Zenon
    <3> QED
      BY <3>2, <3>3
  <2>3. CASE k # 1
    <3>0. k >= 2 /\ n >= 2
      BY <1>n, <2>3
    <3>1. 1 \in 1 .. (k - 1) /\ n - 1 # 0
      <4> HIDE DEF n
      <4>1. k \in Int /\ n \in Int
        BY <1>n
      <4> QED
        BY <3>0, <4>1
    <3>2. r[1].start = parts[1].start /\ r # << >>
      BY <1>8, <2>1, <3>1
    <3> QED
      BY <2>0, <2>3, <3>2, Zenon DEF FirstGap
  <2> QED
    BY <2>2, <2>3
<1> DEFINE X(i) == [start |-> parts[i].start, end |-> parts[i].end]
<1>16. X(k) \in ExtentsOf(parts)
  BY <1>1 DEF ExtentsOf
<1>17. ExtentsOf(r) = ExtentsOf(parts) \ {X(k)}
  <2> DEFINE Y(i) == [start |-> r[i].start, end |-> r[i].end]
  <2>1. ExtentsOf(parts) = {X(i) : i \in 1 .. n} /\ ExtentsOf(r) = {Y(i) : i \in 1 .. (n - 1)}
    BY <1>1, <1>7, ListLen DEF ExtentsOf
  <2>2. \A j \in 1 .. (k - 1) : Y(j) = X(j) /\ j \in 1 .. n /\ j # k
    BY <1>8, <1>n
  <2>3. \A j \in k .. (n - 1) : Y(j) = X(j + 1) /\ j + 1 \in 1 .. n /\ j + 1 # k
    BY <1>9, <1>n
  <2>4. \A i, j \in 1 .. n : i # j => X(i) # X(j)
    <3> SUFFICES ASSUME NEW i \in 1 .. n, NEW j \in 1 .. n, i < j PROVE X(i) # X(j)
      BY <1>n
    <3>1. parts[i].end < parts[j].start /\ parts[i].start <= parts[i].end
      BY <1>1
    <3>2. parts[i].start # parts[j].start
      BY <1>1, <3>1
    <3> QED
      BY <3>2
  <2>5. ASSUME NEW j \in 1 .. n, j # k
        PROVE  \/ j \in 1 .. (k - 1) /\ j \in 1 .. (n - 1)
               \/ j - 1 \in k .. (n - 1) /\ j - 1 \in 1 .. (n - 1) /\ (j - 1) + 1 = j
    <3>1. CASE j < k
      BY <1>n, <3>1
    <3>2. CASE j > k
      BY <1>n, <3>2
    <3> QED
      BY <1>n, <2>5, <3>1, <3>2
  <2> HIDE DEF X, Y
  <2>6. \A x : x \in ExtentsOf(r) => x \in ExtentsOf(parts) \ {X(k)}
    BY <1>10, <2>1, <2>2, <2>3, <2>4
  <2>7. \A x : x \in ExtentsOf(parts) \ {X(k)} => x \in ExtentsOf(r)
    BY <2>1, <2>2, <2>3, <2>5
  <2> QED
    BY <2>6, <2>7
<1>18. p.start .. p.end \subseteq TracksOfParts(parts)
  BY <1>1 DEF TracksOfParts
<1>19. TracksOfParts(r) = TracksOfParts(parts) \ (p.start .. p.end)
  <2>1. Spans(r) /\ Spans(parts)
    BY <1>14 DEF Good
  <2>2. TracksOfParts(r) \subseteq Int /\ TracksOfParts(parts) \subseteq Int
    BY <1>1, <1>7, <1>11, ListLen DEF TracksOfParts
  <2>3. ASSUME NEW x \in TracksOfParts(r) PROVE x \in TracksOfParts(parts) /\ x \notin p.start .. p.end
    <3>1. x \in Int
      BY <2>2
    <3>2. PICK j \in 1 .. (n - 1) : r[j].start <= x /\ x <= r[j].end
      BY <1>7, <2>1, <3>1, InPartFacts
    <3>3. PICK i \in 1 .. n : r[j].start = parts[i].start /\ r[j].end = parts[i].end /\ i # k
      BY <1>8, <1>9, <1>10, <1>n
    <3>4. x \in TracksOfParts(parts)
      BY <2>1, <3>1, <3>2, <3>3, InPartFacts
    <3>5. parts[i].end < p.start \/ p.end < parts[i].start
      BY <1>1, <1>n, <3>3
    <3>6. parts[i].start \in Nat /\ parts[i].end \in Nat /\ parts[i].start <= x /\ x <= parts[i].end
      BY <1>1, <3>2, <3>3
    <3>7. ~(p.start <= x /\ x <= p.end)
      <4> DEFINE a == p.start  b == p.end  u == parts[i].start  v == parts[i].end
      <4>1. a \in Nat /\ b \in Nat /\ u \in Nat /\ v \in Nat /\ u <= x /\ x <= v /\ (v < a \/ b < u)
        BY <1>3, <3>5, <3>6
      <4> HIDE DEF a, b, u, v
      <4>2. ~(a <= x /\ x <= b)
        BY <3>1, <4>1
      <4> QED
        BY <4>2 DEF a, b
    <3> QED
      BY <1>3, <3>1, <3>4, <3>7
  <2>4. ASSUME NEW x \in TracksOfParts(parts), x \notin p.start .. p.end PROVE x \in TracksOfParts(r)
    <3>1. x \in Int
      BY <2>2
    <3>2. PICK i \in 1 .. n : parts[i].start <= x /\ x <= parts[i].end
      BY <2>1, <3>1, InPartFacts
    <3>3. i # k
      BY <1>3, <2>4, <3>1, <3>2
    <3>4. PICK j \in 1 .. (n - 1) : r[j].start = parts[i].start /\ r[j].end = parts[i].end
      <4>1. CASE i < k
        <5>1. i \in 1 .. (k - 1) /\ i \in 1 .. (n - 1)
          BY <1>n, <4>1
        <5> QED
          BY <1>8, <5>1
      <4>2. CASE i > k
        <5>1. i - 1 \in k .. (n - 1) /\ i - 1 \in 1 .. (n - 1) /\ (i - 1) + 1 = i
          BY <1>n, <4>2
        <5>2. r[i - 1] = parts[i]
          BY <1>9, <5>1
        <5> QED
          BY <5>1, <5>2
      <4> QED
        BY <1>n, <3>3, <4>1, <4>2
    <3> QED
      BY <1>7, <2>1, <3>1, <3>2, <3>4, InPartFacts
  <2> QED
    BY <2>3, <2>4
<1> QED
  BY <1>7, <1>14, <1>15, <1>16, <1>17, <1>18, <1>19 DEF r

-----------------------------------------------------------------------------
(* Labels on disk.                                                         *)

\* The address on a label gives the track back, with the cylinder cut in two
\* and the head beside it
LEMMA AddressFacts ==
  ASSUME NEW t \in Nat
  PROVE  Track(Cchh(t)) = t
<1> DEFINE cyl == t \div Heads  r == t % Heads
           q == cyl \div CcSize  c == cyl % CcSize  hh == q * 16 + r
<1>1. Heads \in Nat \ {0} /\ Heads <= 16 /\ CcSize \in Nat \ {0}
  BY FdasdAssumption
<1>2. cyl \in Nat /\ r \in 0 .. (Heads - 1) /\ t = cyl * Heads + r
  BY <1>1, DivFacts
<1>3. q \in Nat /\ c \in 0 .. (CcSize - 1) /\ cyl = q * CcSize + c
  <2>1. cyl \in Int /\ cyl \in Nat /\ CcSize \in Nat \ {0}
    BY <1>1, <1>2
  <2> HIDE DEF cyl
  <2> QED
    BY <2>1, DivFacts
<1>4. Track(Cchh(t)) = ((hh \div 16) * CcSize + c) * Heads + (hh % 16)
  BY DEF Track, Cchh
<1> HIDE DEF cyl, r, q, c
<1>5. r \in 0 .. 15 /\ hh \in Nat
  BY <1>1, <1>2, <1>3
<1> HIDE DEF hh
<1>6. hh \div 16 \in Int /\ hh % 16 \in 0 .. (16 - 1) /\ hh = (hh \div 16) * 16 + (hh % 16)
  <2>1. 16 \in Nat \ {0} /\ hh \in Int
    BY <1>5
  <2> QED
    BY <2>1, DivFacts
<1>7. hh \div 16 = q /\ hh % 16 = r
  <2> DEFINE x == hh \div 16  y == hh % 16
  <2>1. x \in Int /\ y \in 0 .. 15 /\ x * 16 + y = q * 16 + r
    BY <1>6 DEF hh
  <2> HIDE DEF x, y
  <2>2. x = q /\ y = r
    BY <1>3, <1>5, <2>1
  <2> QED
    BY <2>2 DEF x, y
<1> QED
  BY <1>2, <1>3, <1>4, <1>7

\* What a session reads of a list of labels
Read(f1) == [i \in DOMAIN f1 |-> [start |-> Track(f1[i].start), end |-> Track(f1[i].end),
                                  name |-> f1[i].name]]

\* Two lists with the same extents
Same(ps, qs) == /\ IsList(ps) /\ IsList(qs) /\ Len(ps) = Len(qs)
                /\ \A i \in 1 .. Len(ps) : ps[i].start = qs[i].start /\ ps[i].end = qs[i].end

LEMMA SameFacts ==
  ASSUME NEW ps, NEW qs, Same(ps, qs)
  PROVE  /\ Spans(ps) => Spans(qs)
         /\ ExtentsOf(ps) = ExtentsOf(qs) /\ TracksOfParts(ps) = TracksOfParts(qs)
         /\ FirstGap(ps) = FirstGap(qs)
         /\ \A i \in 1 .. Len(ps) : Behind(ps, i) = Behind(qs, i)
<1> DEFINE n == Len(ps)
<1>1. /\ n \in Nat /\ DOMAIN ps = 1 .. n /\ DOMAIN qs = 1 .. n /\ Len(qs) = n
      /\ \A i \in 1 .. n : ps[i].start = qs[i].start /\ ps[i].end = qs[i].end
      /\ IsList(qs)
  BY ListLen DEF Same
<1>2. ExtentsOf(ps) = ExtentsOf(qs)
  BY <1>1 DEF ExtentsOf
<1>3. TracksOfParts(ps) = TracksOfParts(qs)
  BY <1>1 DEF TracksOfParts
<1>4. ASSUME NEW i \in 1 .. n PROVE i = n \/ i + 1 \in 1 .. n
  <2>1. n \in Nat
    BY <1>1
  <2> HIDE DEF n
  <2> QED
    BY <2>1
<1>5. ASSUME NEW i \in 1 .. n PROVE Behind(ps, i) = Behind(qs, i)
  <2>1. CASE i = n
    BY <1>1, <2>1 DEF Behind
  <2>2. CASE i # n
    <3>1. i + 1 \in 1 .. n
      BY <1>4, <2>2
    <3>2. ps[i + 1].start = qs[i + 1].start /\ ps[i].end = qs[i].end /\ Len(ps) = n /\ Len(qs) = n
      BY <1>1, <3>1
    <3>3. Behind(ps, i) = (ps[i + 1].start - 1) - ps[i].end
      BY <2>2, <3>2, Zenon DEF Behind
    <3>4. Behind(qs, i) = (qs[i + 1].start - 1) - qs[i].end
      BY <2>2, <3>2, Zenon DEF Behind
    <3> QED
      BY <3>2, <3>3, <3>4, Zenon
  <2> QED
    BY <2>1, <2>2
<1>6. FirstGap(ps) = FirstGap(qs)
  <2>1. /\ ps = << >> <=> n = 0
        /\ qs = << >> <=> n = 0
    BY <1>1, ListLen DEF Same
  <2>2. n # 0 => 1 \in 1 .. n
    BY <1>1
  <2> QED
    BY <1>1, <2>1, <2>2 DEF FirstGap
<1>7. ASSUME Spans(ps) PROVE Spans(qs)
  <2>1. \A i \in 1 .. (n - 1) : i \in 1 .. n /\ i + 1 \in 1 .. n
    BY <1>1
  <2> QED
    BY <1>1, <1>7, <2>1 DEF Spans, Ordered
<1> QED
  BY <1>2, <1>3, <1>5, <1>6, <1>7

\* Labels that are written are read again as the partitions they are for
LEMMA WrittenFacts ==
  ASSUME NEW ps, Spans(ps), NEW names, NEW v
  PROVE  LET f1 == Labels(ps, names, v)
         IN /\ Same(ps, Read(f1)) /\ IsList(f1) /\ Len(f1) = Len(ps)
            /\ \A i \in DOMAIN f1 : f1[i].volser = v
<1> DEFINE n == Len(ps)  f1 == Labels(ps, names, v)  r == Read(f1)
<1>1. /\ n \in Nat /\ DOMAIN ps = 1 .. n
      /\ \A i \in 1 .. n : ps[i].start \in Nat /\ ps[i].end \in Nat
      /\ IsList(ps)
  BY ListLen DEF Spans
<1> HIDE DEF n
<1>2. /\ DOMAIN f1 = 1 .. n /\ f1 = [i \in 1 .. n |-> f1[i]]
      /\ \A i \in 1 .. n : /\ f1[i].start = Cchh(ps[i].start) /\ f1[i].end = Cchh(ps[i].end)
                           /\ f1[i].volser = v
  BY <1>1 DEF Labels
<1> HIDE DEF f1
<1>3. /\ DOMAIN r = 1 .. n /\ r = [i \in 1 .. n |-> r[i]]
      /\ \A i \in 1 .. n : r[i].start = Track(f1[i].start) /\ r[i].end = Track(f1[i].end)
  BY <1>2 DEF Read
<1> HIDE DEF r
<1>4. IsList(f1) /\ Len(f1) = n /\ IsList(r) /\ Len(r) = n
  BY <1>1, <1>2, <1>3, ListFacts
<1>5. \A i \in 1 .. n : r[i].start = ps[i].start /\ r[i].end = ps[i].end
  BY <1>1, <1>2, <1>3, AddressFacts
<1>6. Same(ps, r)
  BY <1>1, <1>4, <1>5 DEF Same, n
<1> QED
  BY <1>2, <1>4, <1>6 DEF r, f1, n

-----------------------------------------------------------------------------
(* The free-space label made from the counters.                            *)

\* The label of the tracks in front of the first partition, and a label with
\* those behind the i-th partition added
Ahead(g) == IF g > 0 THEN AddFree(Big, EmptyLabel, First, First + g - 1) ELSE EmptyLabel

More(ps, l, i) == IF ps[i].fspace > 0
                  THEN AddFree(Big, l, ps[i].end + 1, ps[i].end + ps[i].fspace) ELSE l

\* The labels that the loop over the partitions makes, one after the other
Builds(g, ps, n, f) == f = [i \in 0 .. n |-> IF i = 0 THEN Ahead(g) ELSE More(ps, f[i - 1], i)]

LEMMA BuildExists ==
  ASSUME NEW g, NEW ps, NEW n \in Nat
  PROVE  \E f : Builds(g, ps, n, f)
<1> DEFINE S == {m \in Nat : \E f : Builds(g, ps, m, f)}
<1>1. 0 \in S
  <2> DEFINE f == [i \in 0 .. 0 |-> Ahead(g)]
  <2>1. \A i \in 0 .. 0 : i = 0
    OBVIOUS
  <2>2. Builds(g, ps, 0, f)
    BY <2>1 DEF Builds
  <2> QED
    BY <2>2
<1>2. ASSUME NEW m \in Nat, m \in S PROVE m + 1 \in S
  <2>1. PICK f : Builds(g, ps, m, f)
    BY <1>2
  <2>2. \A i \in 0 .. m : f[i] = IF i = 0 THEN Ahead(g) ELSE More(ps, f[i - 1], i)
    BY <2>1 DEF Builds
  <2> DEFINE h == [i \in 0 .. (m + 1) |-> IF i = m + 1 THEN More(ps, f[m], m + 1) ELSE f[i]]
             v(i) == IF i = 0 THEN Ahead(g) ELSE More(ps, h[i - 1], i)
  <2>3. ASSUME NEW i \in 0 .. (m + 1) PROVE h[i] = v(i)
    <3>1. CASE i = m + 1
      <4>1. i # 0 /\ i - 1 = m /\ m \in 0 .. (m + 1) /\ m # m + 1
        BY <3>1
      <4>2. h[m] = f[m] /\ h[i] = More(ps, f[m], i)
        BY <3>1, <4>1
      <4> HIDE DEF h
      <4> QED
        BY <4>1, <4>2
    <3>2. CASE i # m + 1 /\ i # 0
      <4>1. i \in 0 .. m /\ i - 1 \in 0 .. (m + 1) /\ i - 1 # m + 1
        BY <3>2
      <4>2. h[i] = f[i] /\ h[i - 1] = f[i - 1]
        BY <3>2, <4>1
      <4>3. f[i] = More(ps, f[i - 1], i)
        BY <2>2, <3>2, <4>1
      <4> HIDE DEF h
      <4> QED
        BY <3>2, <4>2, <4>3
    <3>3. CASE i = 0
      <4>1. i \in 0 .. m /\ i # m + 1
        BY <3>3
      <4> QED
        BY <2>2, <3>3, <4>1
    <3> QED
      BY <3>1, <3>2, <3>3
  <2>4. h = [i \in 0 .. (m + 1) |-> v(i)]
    <3>1. h = [i \in 0 .. (m + 1) |-> h[i]]
      OBVIOUS
    <3> HIDE DEF h, v
    <3> QED
      BY <2>3, <3>1
  <2>5. Builds(g, ps, m + 1, h)
    <3> HIDE DEF h
    <3> QED
      BY <2>4 DEF Builds
  <2> HIDE DEF h
  <2> QED
    BY <2>5
<1> HIDE DEF S
<1>3. Nat \subseteq S
  BY <1>1, <1>2, Induct
<1> QED
  BY <1>3 DEF S

LEMMA CountersBuild ==
  ASSUME NEW g, NEW ps, Len(ps) \in Nat
  PROVE  \E f : Builds(g, ps, Len(ps), f) /\ FromCounters(g, ps) = f[Len(ps)]
<1> DEFINE f == CHOOSE x : Builds(g, ps, Len(ps), x)
<1>1. Builds(g, ps, Len(ps), f)
  BY BuildExists, Zenon
<1>2. FromCounters(g, ps) = f[Len(ps)]
  BY Zenon DEF FromCounters, Builds, Ahead, More
<1> HIDE DEF f
<1> QED
  BY <1>1, <1>2

\* The first track behind the free tracks that follow the i-th partition
Stop(ps, i) == IF i = Len(ps) THEN Limit + 1 ELSE ps[i + 1].start

\* The free tracks up to there
Upto(ps, i) == {x \in Usable : x \notin TracksOfParts(ps) /\ x < Stop(ps, i)}

LEMMA StopFacts ==
  ASSUME NEW ps, Good(ps)
  PROVE  /\ \A i \in 0 .. Len(ps) : Stop(ps, i) \in Nat /\ First <= Stop(ps, i) /\ Stop(ps, i) <= Limit + 1
         /\ First + FirstGap(ps) = Stop(ps, 0)
         /\ \A i \in 1 .. Len(ps) : /\ ps[i].end + ps[i].fspace = Stop(ps, i) - 1
                                    /\ ps[i].fspace \in Nat /\ ps[i].end < Stop(ps, i)
                                    /\ Stop(ps, i - 1) = ps[i].start
         /\ \A i \in 0 .. Len(ps) : \A j \in 1 .. Len(ps) :
              /\ j <= i => ps[j].end < Stop(ps, i)
              /\ j > i => Stop(ps, i) <= ps[j].start
<1> DEFINE n == Len(ps)
<1>1. /\ n \in Nat /\ DOMAIN ps = 1 .. n
      /\ \A i \in 1 .. n : /\ ps[i].start \in Nat /\ ps[i].end \in Nat
                           /\ First <= ps[i].start /\ ps[i].start <= ps[i].end
                           /\ ps[i].end <= Limit
      /\ \A i, j \in 1 .. n : i < j => ps[i].end < ps[j].start
  BY OrderFacts DEF Good
<1>2. IsList(ps) /\ \A i \in 1 .. n : ps[i].fspace = Behind(ps, i)
  BY DEF Good, Spans
<1>n. n \in Nat
  BY <1>1
<1>3. n = Len(ps)
  OBVIOUS
<1> HIDE DEF n
<1>4. ASSUME NEW i \in 0 .. n
      PROVE  /\ Stop(ps, i) \in Nat /\ First <= Stop(ps, i) /\ Stop(ps, i) <= Limit + 1
             /\ \A j \in 1 .. n : /\ j <= i => ps[j].end < Stop(ps, i)
                                  /\ j > i => Stop(ps, i) <= ps[j].start
  <2>1. CASE i = n
    <3>1. Stop(ps, i) = Limit + 1
      BY <1>3, <2>1 DEF Stop
    <3>2. \A j \in 1 .. n : ps[j].end \in Nat /\ ps[j].end <= Limit
      BY <1>1
    <3>3. \A j \in 1 .. n : ~(j > i)
      BY <1>n, <2>1
    <3> QED
      BY <3>1, <3>2, <3>3, LimitFacts
  <2>2. CASE i # n
    <3>1. i + 1 \in 1 .. n
      BY <1>n, <2>2
    <3>2. Stop(ps, i) = ps[i + 1].start
      BY <1>3, <2>2 DEF Stop
    <3> DEFINE k == i + 1  a == ps[k].start  b == ps[k].end
    <3>3. a \in Nat /\ First <= a /\ a <= b /\ b <= Limit /\ b \in Nat
      BY <1>1, <3>1
    <3>4. ASSUME NEW j \in 1 .. n
          PROVE  /\ j <= i => ps[j].end < a
                 /\ j > i => a <= ps[j].start
      <4>1. ASSUME j <= i PROVE ps[j].end < a
        <5>1. j < k
          BY <4>1
        <5> QED
          BY <1>1, <3>1, <5>1
      <4>2. ASSUME j > i PROVE a <= ps[j].start
        <5>1. j = k \/ k < j
          BY <4>2
        <5>2. CASE j = k
          BY <3>3, <5>2
        <5>3. CASE k < j
          <6>1. b < ps[j].start /\ ps[j].start \in Nat
            BY <1>1, <3>1, <5>3
          <6> HIDE DEF a, b
          <6> QED
            BY <3>3, <6>1
        <5> QED
          BY <5>1, <5>2, <5>3
      <4> QED
        BY <4>1, <4>2
    <3>5. Stop(ps, i) = a
      BY <3>2
    <3> HIDE DEF a, b, k
    <3>6. a <= Limit + 1
      BY <3>3, LimitFacts
    <3> QED
      BY <3>3, <3>4, <3>5, <3>6
  <2> QED
    BY <2>1, <2>2
<1>5. First + FirstGap(ps) = Stop(ps, 0)
  <2>1. ps = << >> <=> n = 0
    BY <1>2, <1>3, ListLen
  <2>2. CASE n = 0
    <3>1. FirstGap(ps) = Limit - First + 1 /\ Stop(ps, 0) = Limit + 1
      BY <1>3, <2>1, <2>2 DEF FirstGap, Stop
    <3> QED
      BY <3>1, LimitFacts
  <2>3. CASE n # 0
    <3>1. 1 \in 1 .. n /\ 0 + 1 = 1
      BY <1>n, <2>3
    <3>2. FirstGap(ps) = ps[1].start - First /\ Stop(ps, 0) = ps[1].start
      <4>1. ps # << >> /\ 0 # Len(ps)
        BY <1>3, <2>1, <2>3
      <4> QED
        BY <3>1, <4>1 DEF FirstGap, Stop
    <3>3. ps[1].start \in Nat
      BY <1>1, <3>1
    <3> QED
      BY <3>2, <3>3, LimitFacts
  <2> QED
    BY <2>2, <2>3
<1>6. ASSUME NEW i \in 1 .. n
      PROVE  /\ ps[i].end + ps[i].fspace = Stop(ps, i) - 1
             /\ ps[i].fspace \in Nat /\ ps[i].end < Stop(ps, i)
             /\ Stop(ps, i - 1) = ps[i].start
  <2>0. i \in 0 .. n /\ i <= i /\ i - 1 # n /\ (i - 1) + 1 = i
    BY <1>n
  <2> DEFINE e == ps[i].end  s == Stop(ps, i)
  <2>1. s \in Nat /\ e < s /\ e \in Nat
    BY <1>1, <1>4, <2>0
  <2>2. ps[i].fspace = (s - 1) - e
    <3>1. CASE i = n
      <4>1. Behind(ps, i) = Limit - e /\ s = Limit + 1
        BY <1>3, <3>1 DEF Behind, Stop
      <4> HIDE DEF e, s
      <4>2. Limit - e = (s - 1) - e
        BY <2>1, <4>1, LimitFacts
      <4> QED
        BY <1>2, <4>1, <4>2
    <3>2. CASE i # n
      <4>1. Behind(ps, i) = (ps[i + 1].start - 1) - e /\ s = ps[i + 1].start
        BY <1>3, <3>2, Zenon DEF Behind, Stop
      <4> QED
        BY <1>2, <4>1, Zenon
    <3> QED
      BY <3>1, <3>2
  <2>3. Stop(ps, i - 1) = ps[i].start
    BY <1>3, <2>0, Zenon DEF Stop
  <2> DEFINE f == ps[i].fspace
  <2>4. f = (s - 1) - e
    BY <2>2
  <2> HIDE DEF e, s, f
  <2>5. e + f = s - 1 /\ f \in Nat
    BY <2>1, <2>4
  <2> QED
    BY <2>1, <2>3, <2>5 DEF e, s, f
<1> QED
  BY <1>3, <1>4, <1>5, <1>6

\* A free track up to the i-th stop, by numbers alone
LEMMA UptoIff ==
  ASSUME NEW ps, Good(ps), NEW i \in 0 .. Len(ps), NEW x
  PROVE  x \in Upto(ps, i) <=> /\ x \in Int /\ First <= x /\ x < Stop(ps, i)
                               /\ \A j \in 1 .. Len(ps) : x < ps[j].start \/ ps[j].end < x
<1>1. Stop(ps, i) \in Nat /\ Stop(ps, i) <= Limit + 1
  BY StopFacts
<1>2. Spans(ps)
  BY DEF Good
<1>3. \A j \in 1 .. Len(ps) : ps[j].start \in Nat /\ ps[j].end \in Nat
  BY <1>2, OrderFacts
<1>4. x \in Usable <=> x \in Int /\ First <= x /\ x <= Limit
  BY LimitFacts DEF Usable
<1>5. ASSUME x \in Int
      PROVE  x \notin TracksOfParts(ps) <=> \A j \in 1 .. Len(ps) : x < ps[j].start \/ ps[j].end < x
  <2>1. x \in TracksOfParts(ps) <=> \E j \in 1 .. Len(ps) : ps[j].start <= x /\ x <= ps[j].end
    BY <1>2, <1>5, InPartFacts
  <2>2. \A j \in 1 .. Len(ps) : ~(ps[j].start <= x /\ x <= ps[j].end) <=> x < ps[j].start \/ ps[j].end < x
    BY <1>3, <1>5
  <2> QED
    BY <2>1, <2>2
<1>6. x \in Int /\ x < Stop(ps, i) => x <= Limit
  BY <1>1, LimitFacts
<1> QED
  BY <1>4, <1>5, <1>6 DEF Upto

LEMMA UptoFacts ==
  ASSUME NEW ps, Good(ps)
  PROVE  /\ Upto(ps, 0) = First .. (Stop(ps, 0) - 1)
         /\ \A i \in 1 .. Len(ps) :
              /\ Upto(ps, i) = Upto(ps, i - 1) \cup (ps[i].end + 1) .. (Stop(ps, i) - 1)
              /\ \A x \in (ps[i].end + 1) .. (Stop(ps, i) - 1) : x \notin Upto(ps, i - 1)
         /\ Upto(ps, Len(ps)) = Usable \ TracksOfParts(ps)
<1> DEFINE n == Len(ps)
<1>1. /\ n \in Nat
      /\ \A i \in 1 .. n : /\ ps[i].start \in Nat /\ ps[i].end \in Nat
                           /\ First <= ps[i].start /\ ps[i].start <= ps[i].end
                           /\ ps[i].end <= Limit
      /\ \A i, j \in 1 .. n : i < j => ps[i].end < ps[j].start
  BY OrderFacts DEF Good
<1>n. n \in Nat
  BY <1>1
<1> HIDE DEF n
<1>2. /\ \A i \in 0 .. n : Stop(ps, i) \in Nat /\ First <= Stop(ps, i)
      /\ \A i \in 1 .. n : ps[i].end < Stop(ps, i) /\ Stop(ps, i - 1) = ps[i].start
      /\ \A i \in 0 .. n : \A j \in 1 .. n : /\ j <= i => ps[j].end < Stop(ps, i)
                                             /\ j > i => Stop(ps, i) <= ps[j].start
  BY StopFacts DEF n
<1>3. \A i \in 0 .. n : \A x : x \in Upto(ps, i) <=>
        /\ x \in Int /\ First <= x /\ x < Stop(ps, i)
        /\ \A j \in 1 .. n : x < ps[j].start \/ ps[j].end < x
  BY UptoIff DEF n
<1>4. Upto(ps, 0) = First .. (Stop(ps, 0) - 1)
  <2>0. 0 \in 0 .. n
    BY <1>n
  <2> DEFINE s == Stop(ps, 0)
  <2>1. s \in Nat /\ \A j \in 1 .. n : s <= ps[j].start /\ ps[j].start \in Nat
    <3>1. \A j \in 1 .. n : j > 0
      BY <1>n
    <3> QED
      BY <1>1, <1>2, <2>0, <3>1
  <2>2. \A x : x \in Upto(ps, 0) <=> /\ x \in Int /\ First <= x /\ x < s
                                     /\ \A j \in 1 .. n : x < ps[j].start \/ ps[j].end < x
    BY <1>3, <2>0
  <2> HIDE DEF s
  <2>3. ASSUME NEW x \in Int, x < s, NEW j \in 1 .. n PROVE x < ps[j].start
    BY <2>1, <2>3
  <2>4. \A x : x \in First .. (s - 1) <=> x \in Int /\ First <= x /\ x < s
    BY <2>1, LimitFacts
  <2>5. Upto(ps, 0) = First .. (s - 1)
    BY <2>2, <2>3, <2>4
  <2> QED
    BY <2>5 DEF s
<1>5. ASSUME NEW i \in 1 .. n
      PROVE  /\ Upto(ps, i) = Upto(ps, i - 1) \cup (ps[i].end + 1) .. (Stop(ps, i) - 1)
             /\ \A x \in (ps[i].end + 1) .. (Stop(ps, i) - 1) : x \notin Upto(ps, i - 1)
  <2> DEFINE a == ps[i].start  e == ps[i].end  s == Stop(ps, i)
  <2>0. i \in 0 .. n /\ i - 1 \in 0 .. n
    BY <1>n
  <2>1. a \in Nat /\ e \in Nat /\ s \in Nat /\ a <= e /\ e < s /\ First <= a /\ Stop(ps, i - 1) = a
    BY <1>1, <1>2, <2>0
  <2>2. \A x : x \in Upto(ps, i) <=> /\ x \in Int /\ First <= x /\ x < s
                                     /\ \A j \in 1 .. n : x < ps[j].start \/ ps[j].end < x
    BY <1>3, <2>0
  <2>3. \A x : x \in Upto(ps, i - 1) <=> /\ x \in Int /\ First <= x /\ x < a
                                         /\ \A j \in 1 .. n : x < ps[j].start \/ ps[j].end < x
    BY <1>3, <2>0, <2>1
  <2>4. \A j \in 1 .. n : /\ ps[j].start \in Nat /\ ps[j].end \in Nat
                          /\ ps[j].end <= e \/ s <= ps[j].start
    <3> SUFFICES ASSUME NEW j \in 1 .. n PROVE ps[j].end <= e \/ s <= ps[j].start
      BY <1>1
    <3>1. j < i \/ j = i \/ j > i
      BY <1>n
    <3>2. CASE j < i
      <4>1. ps[j].end < a /\ ps[j].end \in Nat
        BY <1>1, <3>2
      <4> HIDE DEF a, e
      <4>2. ps[j].end <= e
        BY <2>1, <4>1
      <4> QED
        BY <4>2
    <3>3. CASE j = i
      BY <2>1, <3>3
    <3>4. CASE j > i
      BY <1>2, <2>0, <3>4
    <3> QED
      BY <3>1, <3>2, <3>3, <3>4
  <2>5. a = ps[i].start /\ e = ps[i].end
    OBVIOUS
  <2> HIDE DEF a, e, s
  <2>6. \A x : x \in (e + 1) .. (s - 1) <=> x \in Int /\ e < x /\ x < s
    BY <2>1
  <2>7. ASSUME NEW x \in Upto(ps, i), x \notin (e + 1) .. (s - 1) PROVE x \in Upto(ps, i - 1)
    <3>1. x \in Int /\ First <= x /\ x < s /\ (x < a \/ e < x)
      BY <2>2, <2>5, <2>7
    <3>2. x < a
      BY <2>6, <2>7, <3>1
    <3> QED
      BY <2>2, <2>3, <2>7, <3>2
  <2>8. ASSUME NEW x \in Upto(ps, i - 1) PROVE x \in Upto(ps, i) /\ x \notin (e + 1) .. (s - 1)
    <3>1. x \in Int /\ x < a
      BY <2>3, <2>8
    <3>2. x < s /\ ~(e < x)
      BY <2>1, <3>1
    <3> QED
      BY <2>2, <2>3, <2>6, <2>8, <3>2
  <2>9. ASSUME NEW x \in (e + 1) .. (s - 1) PROVE x \in Upto(ps, i)
    <3>1. x \in Int /\ e < x /\ x < s
      BY <2>6
    <3>2. First <= x
      BY <2>1, <3>1, LimitFacts
    <3>3. ASSUME NEW j \in 1 .. n PROVE x < ps[j].start \/ ps[j].end < x
      <4> DEFINE c == ps[j].start  d == ps[j].end
      <4>1. c \in Nat /\ d \in Nat /\ (d <= e \/ s <= c)
        BY <2>4
      <4> HIDE DEF c, d
      <4>2. x < c \/ d < x
        BY <2>1, <3>1, <4>1
      <4> QED
        BY <4>2 DEF c, d
    <3> QED
      BY <2>2, <3>1, <3>2, <3>3
  <2>10. Upto(ps, i) = Upto(ps, i - 1) \cup (e + 1) .. (s - 1)
    BY <2>7, <2>8, <2>9
  <2>11. \A x \in (e + 1) .. (s - 1) : x \notin Upto(ps, i - 1)
    BY <2>8
  <2> QED
    BY <2>10, <2>11 DEF e, s
<1>6. Upto(ps, n) = Usable \ TracksOfParts(ps)
  <2>1. Stop(ps, n) = Limit + 1
    BY DEF Stop, n
  <2>2. \A x \in Usable : x < Limit + 1
    BY LimitFacts DEF Usable
  <2> QED
    BY <2>1, <2>2 DEF Upto
<1> QED
  BY <1>4, <1>5, <1>6 DEF n

\* fdasd_reuse_vtoc: the counters have all that the label has
LEMMA CounterFacts ==
  ASSUME NEW ps, Good(ps)
  PROVE  /\ Label(Big, FromCounters(FirstGap(ps), ps))
         /\ FreeTracks(Big, FromCounters(FirstGap(ps), ps)) = Usable \ TracksOfParts(ps)
<1> DEFINE n == Len(ps)  g == FirstGap(ps)
<1>1. n \in Nat
  BY OrderFacts DEF Good
<1>2. PICK f : Builds(g, ps, n, f) /\ FromCounters(g, ps) = f[n]
  BY <1>1, CountersBuild
<1>3. \A i \in 0 .. n : f[i] = IF i = 0 THEN Ahead(g) ELSE More(ps, f[i - 1], i)
  BY <1>2 DEF Builds
<1> HIDE DEF n
<1>4. Big \in BOOLEAN
  BY DEF Big
<1> DEFINE ok(i) == Label(Big, f[i]) /\ FreeTracks(Big, f[i]) = Upto(ps, i)
           S == {i \in Nat : i <= n => ok(i)}
<1>5. 0 \in S
  <2>1. 0 \in 0 .. n
    BY <1>1
  <2> DEFINE s == Stop(ps, 0)
  <2>2. s \in Nat /\ First <= s /\ First + g = s /\ Upto(ps, 0) = First .. (s - 1)
    BY <2>1, StopFacts, UptoFacts DEF n
  <2>3. f[0] = Ahead(g)
    BY <1>3, <2>1
  <2> HIDE DEF s, g
  <2>6. g \in Int
    <3>1. ps = << >> \/ 1 \in 1 .. n
      BY <1>1, ListLen DEF Good, Spans, n
    <3>2. 1 \in 1 .. n => ps[1].start \in Nat
      BY OrderFacts DEF Good, n
    <3> QED
      BY <3>1, <3>2, LimitFacts DEF g, FirstGap
  <2>4. CASE g > 0
    <3>1. s - 1 \in Nat /\ First <= s - 1 /\ First + g - 1 = s - 1
      BY <2>2, <2>4, <2>6, LimitFacts
    <3>2. f[0] = AddFree(Big, EmptyLabel, First, s - 1)
      BY <2>3, <2>4, <3>1 DEF Ahead
    <3>3. Label(Big, EmptyLabel) /\ FreeTracks(Big, EmptyLabel) = {}
      BY <1>4, NoFree
    <3> DEFINE t == s - 1
    <3>4. t \in Nat /\ First <= t /\ First \in Nat
      BY <3>1, LimitFacts
    <3>5. f[0] = AddFree(Big, EmptyLabel, First, t) /\ Upto(ps, 0) = First .. t
      BY <2>2, <3>2
    <3> HIDE DEF t
    <3>7. \A x \in First .. t : x \notin FreeTracks(Big, EmptyLabel)
      BY <3>3
    <3>6. /\ Label(Big, AddFree(Big, EmptyLabel, First, t))
          /\ FreeTracks(Big, AddFree(Big, EmptyLabel, First, t)) = FreeTracks(Big, EmptyLabel) \cup First .. t
      <4> DEFINE l == EmptyLabel  z == First
      <4>1. Label(Big, l) /\ z \in Nat /\ z <= t /\ \A x \in z .. t : x \notin FreeTracks(Big, l)
        BY <3>3, <3>4, <3>7
      <4> HIDE DEF l, z
      <4>2. /\ Label(Big, AddFree(Big, l, z, t))
            /\ FreeTracks(Big, AddFree(Big, l, z, t)) = FreeTracks(Big, l) \cup z .. t
        BY <1>4, <3>4, <4>1, AddFacts
      <4> QED
        BY <4>2 DEF l, z
    <3> QED
      BY <3>3, <3>5, <3>6
  <2>5. CASE ~(g > 0)
    <3>1. First .. (s - 1) = {}
      BY <2>2, <2>5, <2>6, LimitFacts
    <3>2. f[0] = EmptyLabel
      BY <2>3, <2>5 DEF Ahead
    <3> QED
      BY <1>4, <2>2, <3>1, <3>2, NoFree
  <2> QED
    BY <2>4, <2>5
<1>6. ASSUME NEW j \in Nat, j \in S PROVE j + 1 \in S
  <2> SUFFICES ASSUME j + 1 <= n PROVE ok(j + 1)
    OBVIOUS
  <2> DEFINE i == j + 1
  <2>1. i \in 1 .. n /\ i \in 0 .. n /\ i # 0 /\ i - 1 = j
    BY <1>1
  <2>2. ok(j)
    BY <1>1, <1>6
  <2> HIDE DEF i
  <2> DEFINE e == ps[i].end  s == Stop(ps, i)
  <2>3. /\ e \in Nat /\ s \in Nat /\ e + ps[i].fspace = s - 1 /\ ps[i].fspace \in Nat /\ e < s
        /\ Upto(ps, i) = Upto(ps, j) \cup (e + 1) .. (s - 1)
        /\ \A x \in (e + 1) .. (s - 1) : x \notin Upto(ps, j)
    BY <2>1, StopFacts, UptoFacts, OrderFacts DEF n, Good
  <2>4. f[i] = More(ps, f[j], i)
    BY <1>3, <2>1
  <2>5. CASE ps[i].fspace > 0
    <3> DEFINE u == e + 1  t == s - 1  c == ps[i].fspace
    <3>1. u \in Nat /\ t \in Nat /\ u <= t /\ e + c = t
      <4>1. c \in Nat /\ c > 0 /\ e \in Nat /\ s \in Nat /\ e + c = s - 1
        BY <2>3, <2>5
      <4> HIDE DEF e, s, c
      <4> QED
        BY <4>1
    <3>2. f[i] = AddFree(Big, f[j], u, t)
      BY <2>4, <2>5, <3>1 DEF More
    <3>3. Upto(ps, i) = Upto(ps, j) \cup u .. t /\ \A x \in u .. t : x \notin FreeTracks(Big, f[j])
      BY <2>2, <2>3
    <3> HIDE DEF u, t
    <3>4. Label(Big, f[j])
      BY <2>2
    <3>5. Label(Big, f[i]) /\ FreeTracks(Big, f[i]) = FreeTracks(Big, f[j]) \cup u .. t
      BY <1>4, <3>1, <3>2, <3>3, <3>4, AddFacts
    <3> QED
      BY <2>2, <3>3, <3>5 DEF i
  <2>6. CASE ~(ps[i].fspace > 0)
    <3>1. f[i] = f[j]
      BY <2>4, <2>6 DEF More
    <3>2. (e + 1) .. (s - 1) = {}
      <4> DEFINE c == ps[i].fspace
      <4>1. c \in Nat /\ ~(c > 0) /\ e \in Nat /\ s \in Nat /\ e + c = s - 1
        BY <2>3, <2>6
      <4> HIDE DEF e, s, c
      <4> QED
        BY <4>1
    <3> QED
      BY <2>2, <2>3, <3>1, <3>2 DEF i
  <2> QED
    BY <2>5, <2>6
<1>7. ok(n)
  <2> HIDE DEF S
  <2>1. Nat \subseteq S
    BY <1>5, <1>6, Induct
  <2>2. n \in S /\ n <= n
    BY <1>1, <2>1
  <2> QED
    BY <2>2 DEF S
<1>8. Upto(ps, n) = Usable \ TracksOfParts(ps)
  BY UptoFacts DEF n
<1> QED
  BY <1>2, <1>7, <1>8

\* The label of a volume without partitions
LEMMA WholeFacts == Label(Big, WholeFree) /\ FreeTracks(Big, WholeFree) = Usable
<1> DEFINE l == EmptyLabel  z == First  t == Limit
<1>1. Big \in BOOLEAN
  BY DEF Big
<1>2. Label(Big, l) /\ FreeTracks(Big, l) = {}
  BY <1>1, NoFree
<1>3. z \in Nat /\ t \in Nat /\ z <= t
  BY LimitFacts
<1>4. WholeFree = AddFree(Big, l, z, t) /\ Usable = z .. t
  BY DEF WholeFree, Usable
<1> HIDE DEF l, z, t
<1>5. Label(Big, l) /\ z <= t /\ \A x \in z .. t : x \notin FreeTracks(Big, l)
  BY <1>2, <1>3
<1>6. /\ Label(Big, AddFree(Big, l, z, t))
      /\ FreeTracks(Big, AddFree(Big, l, z, t)) = FreeTracks(Big, l) \cup z .. t
  BY <1>1, <1>3, <1>5, AddFacts
<1> QED
  BY <1>2, <1>4, <1>6

-----------------------------------------------------------------------------
(* Lists as they are made at once.                                         *)

LEMMA EmptyFacts ==
  /\ Good(<< >>) /\ Len(<< >>) = 0 /\ FirstGap(<< >>) = Limit - First + 1
  /\ ExtentsOf(<< >>) = {} /\ TracksOfParts(<< >>) = {}
<1> DEFINE e == << >>
<1>1. Len(e) = 0 /\ DOMAIN e = 1 .. 0 /\ e = [i \in 1 .. 0 |-> e[i]] /\ 1 .. 0 = {}
  OBVIOUS
<1>2. e = << >>
  OBVIOUS
<1> HIDE DEF e
<1>3. IsList(e)
  <2>1. 0 \in Nat
    OBVIOUS
  <2> QED
    BY <1>1, <2>1, ListFacts
<1>4. Ordered(e)
  <2>1. 1 .. (Len(e) - 1) = {}
    BY <1>1
  <2> QED
    BY <1>1, <2>1 DEF Ordered
<1>5. Good(e) /\ ExtentsOf(e) = {} /\ TracksOfParts(e) = {}
  BY <1>1, <1>3, <1>4 DEF Good, Spans, ExtentsOf, TracksOfParts
<1>6. FirstGap(e) = Limit - First + 1
  BY <1>2 DEF FirstGap
<1> QED
  BY <1>1, <1>2, <1>5, <1>6, Zenon

\* The counters of a list that has none yet
LEMMA GapsFacts ==
  ASSUME NEW ps, Spans(ps), \A i \in 1 .. Len(ps) : Row(ps[i])
  PROVE  Good(Gaps(ps)) /\ Same(ps, Gaps(ps)) /\ Len(Gaps(ps)) = Len(ps)
<1> DEFINE n == Len(ps)  r == Gaps(ps)
<1>1. n \in Nat /\ DOMAIN ps = 1 .. n /\ IsList(ps)
  BY ListLen DEF Spans
<1>2. r = [i \in 1 .. n |-> [ps[i] EXCEPT !.fspace = Behind(ps, i)]]
  BY <1>1 DEF Gaps, Behind
<1>3. ASSUME NEW i \in 1 .. n
      PROVE  r[i] = Part(ps[i].start, ps[i].end, Behind(ps, i), ps[i].name)
  <2> DEFINE b == Behind(ps, i)  q == Part(ps[i].start, ps[i].end, ps[i].fspace, ps[i].name)
  <2>1. ps[i] = q
    BY DEF Row
  <2>2. [q EXCEPT !.fspace = b] = Part(ps[i].start, ps[i].end, b, ps[i].name)
    BY DEF Part
  <2>3. r[i] = [ps[i] EXCEPT !.fspace = b]
    BY <1>2
  <2> QED
    BY <2>1, <2>2, <2>3, Zenon
<1>4. DOMAIN r = 1 .. n /\ r = [i \in 1 .. n |-> r[i]]
  BY <1>2
<1>5. n = Len(ps)
  OBVIOUS
<1> HIDE DEF n, r
<1>6. IsList(r) /\ Len(r) = n
  BY <1>1, <1>4, ListFacts
<1>7. \A i \in 1 .. n : /\ r[i].start = ps[i].start /\ r[i].end = ps[i].end
                        /\ r[i].fspace = Behind(ps, i) /\ Row(r[i])
  BY <1>3, PartFacts
<1>8. Same(ps, r)
  BY <1>1, <1>5, <1>6, <1>7 DEF Same
<1>9. Spans(r) /\ \A i \in 1 .. n : Behind(ps, i) = Behind(r, i)
  BY <1>5, <1>8, SameFacts
<1>10. Good(r)
  BY <1>6, <1>7, <1>9 DEF Good
<1> QED
  BY <1>5, <1>6, <1>8, <1>10 DEF r

\* The counters of a list that has its own
LEMMA GapsSame ==
  ASSUME NEW ps, Good(ps)
  PROVE  ps = Gaps(ps)
<1> DEFINE n == Len(ps)
<1>1. /\ n \in Nat /\ DOMAIN ps = 1 .. n /\ ps = [i \in 1 .. n |-> ps[i]]
      /\ \A i \in 1 .. n : Row(ps[i]) /\ ps[i].fspace = Behind(ps, i)
  BY ListLen DEF Good, Spans
<1>2. Gaps(ps) = [i \in 1 .. n |-> [ps[i] EXCEPT !.fspace = Behind(ps, i)]]
  BY <1>1 DEF Gaps, Behind
<1>3. ASSUME NEW i \in 1 .. n PROVE [ps[i] EXCEPT !.fspace = Behind(ps, i)] = ps[i]
  <2> DEFINE q == Part(ps[i].start, ps[i].end, ps[i].fspace, ps[i].name)
  <2>1. ps[i] = q /\ ps[i].fspace = Behind(ps, i)
    BY <1>1 DEF Row
  <2>2. [q EXCEPT !.fspace = ps[i].fspace] = q
    BY DEF Part
  <2> QED
    BY <2>1, <2>2, Zenon
<1> HIDE DEF n
<1> QED
  BY <1>1, <1>2, <1>3

\* Another name
LEMMA RenameFacts ==
  ASSUME NEW ps, Good(ps), NEW k \in 1 .. Len(ps), NEW t
  PROVE  LET r == [ps EXCEPT ![k].name.type = t]
         IN Good(r) /\ Same(ps, r) /\ Len(r) = Len(ps)
<1> DEFINE n == Len(ps)  m == [ps[k].name EXCEPT !.type = t]
           r == [ps EXCEPT ![k].name.type = t]
<1>1. /\ n \in Nat /\ DOMAIN ps = 1 .. n /\ IsList(ps) /\ Spans(ps)
      /\ \A i \in 1 .. n : Row(ps[i]) /\ ps[i].fspace = Behind(ps, i)
      /\ ps = [i \in 1 .. n |-> ps[i]]
  BY ListLen DEF Good, Spans
<1>2. r = [i \in 1 .. n |-> IF i = k THEN [ps[k] EXCEPT !.name = m] ELSE ps[i]]
  BY <1>1
<1> DEFINE q == Part(ps[k].start, ps[k].end, ps[k].fspace, ps[k].name)
<1>3. [ps[k] EXCEPT !.name = m] = Part(ps[k].start, ps[k].end, ps[k].fspace, m)
  <2>1. ps[k] = q
    BY <1>1 DEF Row
  <2>2. [q EXCEPT !.name = m] = Part(ps[k].start, ps[k].end, ps[k].fspace, m)
    BY DEF Part
  <2> QED
    BY <2>1, <2>2, Zenon
<1>4. DOMAIN r = 1 .. n /\ r = [i \in 1 .. n |-> r[i]]
  BY <1>2
<1>5. \A i \in 1 .. n : i # k => r[i] = ps[i]
  BY <1>2
<1>6. r[k] = Part(ps[k].start, ps[k].end, ps[k].fspace, m)
  BY <1>2, <1>3
<1>7. n = Len(ps) /\ k \in 1 .. n
  OBVIOUS
<1> HIDE DEF n, r, m
<1>8. IsList(r) /\ Len(r) = n
  BY <1>1, <1>4, ListFacts
<1>9. \A i \in 1 .. n : /\ r[i].start = ps[i].start /\ r[i].end = ps[i].end
                        /\ r[i].fspace = ps[i].fspace /\ Row(r[i])
  <2>1. \A i \in 1 .. n : Row(ps[i])
    BY <1>1
  <2>2. r[k].start = ps[k].start /\ r[k].end = ps[k].end /\ r[k].fspace = ps[k].fspace /\ Row(r[k])
    BY <1>6, PartFacts
  <2> QED
    BY <1>5, <2>1, <2>2
<1>10. Same(ps, r)
  BY <1>1, <1>7, <1>8, <1>9 DEF Same
<1>11. Spans(r) /\ \A i \in 1 .. n : Behind(ps, i) = Behind(r, i)
  BY <1>1, <1>7, <1>10, SameFacts
<1>12. Good(r)
  BY <1>1, <1>8, <1>9, <1>11 DEF Good
<1> QED
  BY <1>7, <1>8, <1>10, <1>12 DEF r

-----------------------------------------------------------------------------
(* Where fdasd_get_partition_data puts a new partition.                    *)

LEMMA UsableFacts ==
  ASSUME NEW x
  PROVE  x \in Usable <=> x \in Int /\ x \in Nat /\ First <= x /\ x <= Limit
BY LimitFacts DEF Usable

LEMMA DefaultFacts == DefaultStart \in Nat /\ First <= DefaultStart
<1> DEFINE f == {x \in Usable : ~InPart(x, parts)}
<1>1. DefaultStart = IF f = {} THEN Limit + 1 ELSE Min(f)
  BY DEF DefaultStart
<1>2. f \subseteq Usable /\ f \in SUBSET Nat
  BY UsableFacts
<1> HIDE DEF f
<1>3. CASE f = {}
  BY <1>1, <1>3, LimitFacts
<1>4. CASE f # {}
  <2>1. Min(f) \in f
    BY <1>2, <1>4, MinFacts
  <2> QED
    BY <1>1, <1>2, <1>4, <2>1, UsableFacts
<1> QED
  BY <1>3, <1>4

\* The start is usable; it is free if there is a free track behind
LEMMA PlacedFacts ==
  ASSUME NEW x \in DefaultStart .. Limit
  PROVE  /\ Placed(x) \in Usable
         /\ Placed(x) = First \/ ~InPart(Placed(x), parts)
         /\ InPart(Placed(x), parts) => \A y \in x .. Limit : InPart(y, parts)
<1> DEFINE f == {y \in x .. Limit : ~InPart(y, parts)}
<1>1. Placed(x) = IF f # {} THEN Min(f) ELSE First
  BY DEF Placed
<1>2. x \in Nat /\ First <= x
  BY DefaultFacts, LimitFacts
<1>3. f \subseteq Usable /\ f \in SUBSET Nat
  BY <1>2, LimitFacts DEF Usable
<1>4. f = {} => \A y \in x .. Limit : InPart(y, parts)
  OBVIOUS
<1>5. \A y \in f : ~InPart(y, parts)
  OBVIOUS
<1> HIDE DEF f
<1>6. First \in Usable
  BY LimitFacts, UsableFacts
<1>7. CASE f = {}
  BY <1>1, <1>4, <1>6, <1>7
<1>8. CASE f # {}
  <2>1. Min(f) \in f
    BY <1>3, <1>8, MinFacts
  <2> QED
    BY <1>1, <1>3, <1>5, <1>8, <2>1
<1> QED
  BY <1>7, <1>8

\* From a free track on everything is free up to the next partition
LEMMA LimitFromFacts ==
  ASSUME Spans(parts), NEW s \in Usable, NEW e \in s .. LimitFrom(s, parts)
  PROVE  /\ s \in Nat /\ e \in Nat /\ First <= s /\ s <= e /\ e <= Limit
         /\ ~InPart(s, parts) => \A x \in s .. e : ~InPart(x, parts)
<1> DEFINE n == Len(parts)
           later == {parts[i].start : i \in {j \in DOMAIN parts : parts[j].start > s}}
<1>1. /\ n \in Nat /\ DOMAIN parts = 1 .. n
      /\ \A i \in 1 .. n : /\ parts[i].start \in Nat /\ parts[i].end \in Nat
                           /\ parts[i].start <= parts[i].end /\ parts[i].end <= Limit
  BY OrderFacts
<1>2. s \in Nat /\ First <= s /\ s <= Limit
  BY UsableFacts
<1>3. LimitFrom(s, parts) = IF later = {} THEN Limit ELSE Min(later) - 1
  BY DEF LimitFrom
<1>4. later \in SUBSET Nat
  BY <1>1
<1>5. \A i \in 1 .. n : parts[i].start > s => parts[i].start \in later
  BY <1>1
<1>6. \A y \in later : \E i \in 1 .. n : y = parts[i].start
  BY <1>1
<1> HIDE DEF later, n
<1>7. /\ LimitFrom(s, parts) \in Int /\ LimitFrom(s, parts) <= Limit
      /\ \A i \in 1 .. n : parts[i].start > s => LimitFrom(s, parts) < parts[i].start
  <2>1. CASE later = {}
    BY <1>3, <1>5, <2>1, LimitFacts
  <2>2. CASE later # {}
    <3> DEFINE m == Min(later)
    <3>1. m \in later /\ \A y \in later : m <= y
      BY <1>4, <2>2, MinFacts
    <3>2. PICK i \in 1 .. n : m = parts[i].start
      BY <1>6, <3>1
    <3>3. m \in Nat
      BY <1>4, <3>1
    <3>4. LimitFrom(s, parts) = m - 1
      BY <1>3, <2>2
    <3> HIDE DEF m
    <3>5. m <= Limit
      <4> DEFINE a == parts[i].end
      <4>1. a \in Nat /\ m <= a /\ a <= Limit
        BY <1>1, <3>2
      <4> HIDE DEF a
      <4> QED
        BY <3>3, <4>1, LimitFacts
    <3>6. ASSUME NEW j \in 1 .. n, parts[j].start > s PROVE m - 1 < parts[j].start
      <4>1. parts[j].start \in Nat /\ m <= parts[j].start
        BY <1>1, <1>5, <3>1, <3>6
      <4> QED
        BY <3>3, <4>1
    <3> QED
      BY <3>3, <3>4, <3>5, <3>6, LimitFacts
  <2> QED
    BY <2>1, <2>2
<1> DEFINE l == LimitFrom(s, parts)
<1>8. l \in Int /\ l <= Limit /\ e \in s .. l
  BY <1>7
<1>9. e \in Nat /\ s <= e /\ e <= Limit /\ e <= l
  <2> HIDE DEF l
  <2> QED
    BY <1>2, <1>8, LimitFacts
<1>10. ASSUME ~InPart(s, parts), NEW x \in s .. e, InPart(x, parts) PROVE FALSE
  <2>1. PICK i \in 1 .. n : parts[i].start <= x /\ x <= parts[i].end
    BY <1>1, <1>10 DEF InPart
  <2>2. ~(parts[i].start <= s /\ s <= parts[i].end)
    BY <1>1, <1>10 DEF InPart
  <2> DEFINE a == parts[i].start  b == parts[i].end
  <2>3. /\ a \in Nat /\ b \in Nat /\ a <= x /\ x <= b /\ ~(a <= s /\ s <= b)
        /\ a > s => l < a
    BY <1>1, <1>7, <2>1, <2>2
  <2> HIDE DEF a, b, l
  <2>4. x \in Int /\ s <= x /\ x <= e
    BY <1>2, <1>9
  <2> QED
    BY <1>2, <1>8, <1>9, <2>3, <2>4
<1> QED
  BY <1>2, <1>9, <1>10

\* What libvtoc does not refuse is a place for a partition: also where the
\* start was moved to the first usable track without looking
LEMMA PlaceFacts ==
  ASSUME Spans(parts), Label(Big, free), FreeTracks(Big, free) = Usable \ TracksOfParts(parts),
         NEW x \in DefaultStart .. Limit, NEW e \in Placed(x) .. LimitFrom(Placed(x), parts),
         CanDelFree(Big, free, Placed(x), e)
  PROVE  /\ Placed(x) \in Nat /\ e \in Nat /\ First <= Placed(x) /\ Placed(x) <= e /\ e <= Limit
         /\ \A y \in Placed(x) .. e : ~InPart(y, parts)
         /\ \A y \in Placed(x) .. e : y \in FreeTracks(Big, free)
<1> DEFINE s == Placed(x)
<1>1. s \in Usable
  BY PlacedFacts
<1>2. e \in s .. LimitFrom(s, parts) /\ CanDelFree(Big, free, s, e)
  OBVIOUS
<1> HIDE DEF s
<1>3. /\ s \in Nat /\ e \in Nat /\ First <= s /\ s <= e /\ e <= Limit
      /\ ~InPart(s, parts) => \A y \in s .. e : ~InPart(y, parts)
  BY <1>1, <1>2, LimitFromFacts
<1>4. Big \in BOOLEAN
  BY DEF Big
<1>5. s \in FreeTracks(Big, free)
  BY <1>2, <1>3, <1>4, RefusedFacts
<1>6. ~InPart(s, parts)
  <2>1. s \in Int /\ s \notin TracksOfParts(parts)
    BY <1>3, <1>5
  <2> QED
    BY <2>1, InPartFacts
<1>7. ASSUME NEW y \in s .. e PROVE ~InPart(y, parts) /\ y \in FreeTracks(Big, free)
  <2>1. y \in Int /\ First <= y /\ y <= Limit /\ ~InPart(y, parts)
    BY <1>3, <1>6, LimitFacts
  <2>2. y \in Usable /\ y \notin TracksOfParts(parts)
    BY <2>1, InPartFacts, LimitFacts DEF Usable
  <2> QED
    BY <2>1, <2>2
<1> QED
  BY <1>3, <1>7 DEF s

-----------------------------------------------------------------------------
(* How many extents there are.                                             *)

\* No more extents than partitions
LEMMA ExtentsCount ==
  ASSUME NEW ps, IsList(ps)
  PROVE  IsFiniteSet(ExtentsOf(ps)) /\ Cardinality(ExtentsOf(ps)) <= Len(ps)
<1> DEFINE n == Len(ps)  T == ExtentsOf(ps)
           f == [i \in 1 .. n |-> [start |-> ps[i].start, end |-> ps[i].end]]
<1>1. n \in Nat /\ DOMAIN ps = 1 .. n
  BY ListLen
<1>2. \A y : y \in T <=> \E i \in 1 .. n : f[i] = y
  BY <1>1 DEF ExtentsOf
<1>3. DOMAIN f = 1 .. n /\ f = [i \in 1 .. n |-> f[i]]
  OBVIOUS
<1> HIDE DEF n, T, f
<1>4. f \in [1 .. n -> T]
  BY <1>2, <1>3
<1>5. f \in Surjection(1 .. n, T)
  BY <1>2, <1>4 DEF Surjection
<1>6. IsFiniteSet(1 .. n) /\ Cardinality(1 .. n) = n
  <2>1. 1 \in Int /\ n \in Int
    BY <1>1
  <2>2. IsFiniteSet(1 .. n) /\ Cardinality(1 .. n) = IF 1 > n THEN 0 ELSE n - 1 + 1
    BY <2>1, FS_Interval
  <2> QED
    BY <1>1, <2>2
<1> QED
  BY <1>5, <1>6, FS_Surjection DEF T, n

\* An extent of the label begins at the first usable track or behind a partition
LEMMA StartsBehind ==
  ASSUME NEW ps, Spans(ps), NEW l, Label(Big, l), FreeTracks(Big, l) = Usable \ TracksOfParts(ps),
         NEW e \in l, Start(Big, e) # First
  PROVE  \E i \in 1 .. Len(ps) : Start(Big, e) = ps[i].end + 1
<1> DEFINE x == Start(Big, e)
<1>1. x \in Nat /\ x \in FreeTracks(Big, l) /\ x - 1 \notin FreeTracks(Big, l)
  <2>1. Big \in BOOLEAN
    BY DEF Big
  <2> QED
    BY <2>1, StartFacts
<1>2. x # First
  OBVIOUS
<1> HIDE DEF x
<1>3. x \in Usable /\ x \notin TracksOfParts(ps)
  BY <1>1
<1>4. First < x /\ x <= Limit
  BY <1>1, <1>2, <1>3, LimitFacts, UsableFacts
<1>5. x - 1 \in Usable
  BY <1>1, <1>4, LimitFacts, UsableFacts
<1>6. x - 1 \in Int /\ x - 1 \in TracksOfParts(ps)
  BY <1>1, <1>5
<1>7. PICK i \in 1 .. Len(ps) : ps[i].start <= x - 1 /\ x - 1 <= ps[i].end
  BY <1>6, InPartFacts
<1>8. ~(ps[i].start <= x /\ x <= ps[i].end)
  <2>1. x \in Int
    BY <1>1
  <2> QED
    BY <1>3, <2>1, InPartFacts
<1> DEFINE a == ps[i].start  b == ps[i].end
<1>9. a \in Nat /\ b \in Nat /\ a <= x - 1 /\ x - 1 <= b /\ ~(a <= x /\ x <= b)
  BY <1>7, <1>8, OrderFacts
<1> HIDE DEF a, b
<1>10. x = b + 1
  BY <1>1, <1>9
<1> QED
  BY <1>10 DEF x, b

LEMMA FewExtents ==
  ASSUME NEW ps, Spans(ps), NEW l, Label(Big, l), FreeTracks(Big, l) = Usable \ TracksOfParts(ps)
  PROVE  IsFiniteSet(l) /\ Cardinality(l) <= Len(ps) + 1
<1> DEFINE n == Len(ps)
           From(e, i) == Start(Big, e) = IF i = 0 THEN First ELSE ps[i].end + 1
           f == [e \in l |-> CHOOSE i \in 0 .. n : From(e, i)]
<1>1. n \in Nat
  BY OrderFacts
<1>2. ASSUME NEW e \in l PROVE \E i \in 0 .. n : From(e, i)
  <2>1. CASE Start(Big, e) = First
    <3>1. 0 \in 0 .. n /\ From(e, 0)
      BY <1>1, <2>1
    <3> QED
      BY <3>1
  <2>2. CASE Start(Big, e) # First
    <3>1. PICK i \in 1 .. n : Start(Big, e) = ps[i].end + 1
      BY <2>2, StartsBehind
    <3>2. i \in 0 .. n /\ i # 0
      BY <1>1
    <3>3. From(e, i)
      BY <3>1, <3>2
    <3> QED
      BY <3>2, <3>3
  <2> QED
    BY <2>1, <2>2
<1> HIDE DEF n
<1>3. \A e \in l : f[e] \in 0 .. n /\ From(e, f[e])
  BY <1>2
<1>4. \A e, g \in l : Start(Big, e) = Start(Big, g) => e = g
  <2>1. Big \in BOOLEAN
    BY DEF Big
  <2> QED
    BY <2>1, StartFacts
<1>5. f = [e \in l |-> f[e]] /\ DOMAIN f = l
  OBVIOUS
<1> HIDE DEF f
<1>6. \A e, g \in l : f[e] = f[g] => e = g
  BY <1>3, <1>4
<1>7. f \in [l -> 0 .. n]
  BY <1>3, <1>5
<1>8. f \in Injection(l, 0 .. n)
  BY <1>5, <1>6, <1>7 DEF Injection, IsInjective
<1>9. IsFiniteSet(0 .. n) /\ Cardinality(0 .. n) = n + 1
  <2>1. 0 \in Int /\ n \in Int
    BY <1>1
  <2>2. IsFiniteSet(0 .. n) /\ Cardinality(0 .. n) = IF 0 > n THEN 0 ELSE n - 0 + 1
    BY <2>1, FS_Interval
  <2> QED
    BY <1>1, <2>2
<1> QED
  BY <1>8, <1>9, FS_Injection DEF n

-----------------------------------------------------------------------------
(* The invariant.                                                          *)

\* What is kept side by side of a list of partitions
Kept(ps, g, u, d, h, l) ==
  /\ Good(ps) /\ g = FirstGap(ps) /\ u = Len(ps) /\ u <= MaxParts
  /\ d = Sectors - 2 - u /\ h = (IF u = 0 THEN 0 ELSE HighestLabel(u))
  /\ Label(Big, l) /\ FreeTracks(Big, l) = Usable \ TracksOfParts(ps)

\* A volume without labels has no partitions; one with labels has those of a
\* sound list, and the other labels agree with them
Stored(d) ==
  /\ d = [kind |-> d.kind, volser |-> d.volser, dsrec |-> d.dsrec, highest |-> d.highest,
          free |-> d.free, f1 |-> d.f1]
  /\ d.kind # "vtoc" => d.f1 = << >>
  /\ d.kind = "vtoc" =>
       /\ IsList(d.f1) /\ Len(d.f1) <= MaxParts /\ Spans(Read(d.f1))
       /\ d.dsrec = Sectors - 2 - Len(d.f1)
       /\ d.highest = (IF Len(d.f1) = 0 THEN 0 ELSE HighestLabel(Len(d.f1)))
       /\ Label(Big, d.free) /\ FreeTracks(Big, d.free) = Usable \ TracksOfParts(Read(d.f1))
       /\ \A i \in DOMAIN d.f1 : d.f1[i].volser = d.volser

\* A serial that is not to be written is the one of the volume
Flags(c, v, d) ==
  /\ c \in [vtoc : BOOLEAN, vlabel : BOOLEAN]
  /\ c.vlabel => c.vtoc
  /\ ~c.vlabel => v = d.volser

Inv == /\ Stored(disk)
       /\ pc # "off" => Kept(parts, gap, used, dsrec, highest, free) /\ Flags(changed, volser, disk)

\* The invariant after a step on the same volume
LEMMA Again ==
  ASSUME size' = size, Stored(disk'),
         pc' # "off" => /\ Kept(parts', gap', used', dsrec', highest', free')
                        /\ Flags(changed', volser', disk')
  PROVE  Inv'
<1>1. Big' = Big
  BY DEF Big
<1>2. \A n : HighestLabel(n)' = HighestLabel(n)
  BY <1>1 DEF HighestLabel
<1>3. Stored(disk)'
  BY <1>1, <1>2 DEF Stored
<1>4. pc' # "off" => Kept(parts, gap, used, dsrec, highest, free)' /\ Flags(changed, volser, disk)'
  BY <1>1, <1>2 DEF Kept, Flags
<1> QED
  BY <1>3, <1>4 DEF Inv

LEMMA ReadList ==
  ASSUME NEW f1, IsList(f1)
  PROVE  /\ IsList(Read(f1)) /\ Len(Read(f1)) = Len(f1) /\ DOMAIN f1 = 1 .. Len(f1)
         /\ \A i \in 1 .. Len(f1) : Read(f1)[i] = [start |-> Track(f1[i].start),
                                                   end |-> Track(f1[i].end), name |-> f1[i].name]
<1> DEFINE n == Len(f1)  r == Read(f1)
<1>1. n \in Nat /\ DOMAIN f1 = 1 .. n
  BY ListLen
<1> HIDE DEF n
<1>2. /\ r = [i \in 1 .. n |-> r[i]]
      /\ \A i \in 1 .. n : r[i] = [start |-> Track(f1[i].start), end |-> Track(f1[i].end),
                                   name |-> f1[i].name]
  BY <1>1 DEF Read
<1> HIDE DEF r
<1>3. IsList(r) /\ Len(r) = n
  BY <1>1, <1>2, ListFacts
<1> QED
  BY <1>1, <1>2, <1>3 DEF r, n

LEMMA OnDiskIs == OnDisk = Read(disk.f1) /\ (OnDisk = Read(disk.f1))'
BY DEF OnDisk, Read

\* Labels that agree with a sound list
LEMMA StoredFacts ==
  ASSUME NEW ps, Spans(ps), Len(ps) <= MaxParts, NEW l, NEW h, NEW d, NEW names, NEW v,
         d = Sectors - 2 - Len(ps), h = (IF Len(ps) = 0 THEN 0 ELSE HighestLabel(Len(ps))),
         Label(Big, l), FreeTracks(Big, l) = Usable \ TracksOfParts(ps)
  PROVE  LET f1 == Labels(ps, names, v)
         IN /\ Stored([kind |-> "vtoc", volser |-> v, dsrec |-> d, highest |-> h, free |-> l, f1 |-> f1])
            /\ ExtentsOf(Read(f1)) = ExtentsOf(ps)
<1> DEFINE f1 == Labels(ps, names, v)
<1>1. /\ Same(ps, Read(f1)) /\ IsList(f1) /\ Len(f1) = Len(ps)
      /\ \A i \in DOMAIN f1 : f1[i].volser = v
  BY WrittenFacts
<1> HIDE DEF f1
<1>2. /\ Spans(Read(f1)) /\ ExtentsOf(Read(f1)) = ExtentsOf(ps)
      /\ TracksOfParts(Read(f1)) = TracksOfParts(ps)
  BY <1>1, SameFacts
<1> DEFINE r == [kind |-> "vtoc", volser |-> v, dsrec |-> d, highest |-> h, free |-> l, f1 |-> f1]
<1>3. /\ r.kind = "vtoc" /\ r.volser = v /\ r.dsrec = d /\ r.highest = h /\ r.free = l /\ r.f1 = f1
      /\ r = [kind |-> r.kind, volser |-> r.volser, dsrec |-> r.dsrec, highest |-> r.highest,
              free |-> r.free, f1 |-> r.f1]
  OBVIOUS
<1> HIDE DEF r
<1>4. Stored(r)
  BY <1>1, <1>2, <1>3 DEF Stored
<1> QED
  BY <1>2, <1>4 DEF r, f1

-----------------------------------------------------------------------------
(* Sound tables.                                                           *)

LEMMA SoundFacts ==
  ASSUME NEW ps, Spans(ps), Len(ps) <= MaxParts
  PROVE  Table!Sound(ExtentsOf(ps))
<1> DEFINE n == Len(ps)  T == ExtentsOf(ps)
<1>1. /\ n \in Nat /\ DOMAIN ps = 1 .. n
      /\ \A i \in 1 .. n : /\ ps[i].start \in Nat /\ ps[i].end \in Nat
                           /\ First <= ps[i].start /\ ps[i].start <= ps[i].end
                           /\ ps[i].end <= Limit
      /\ \A i, j \in 1 .. n : i < j => ps[i].end < ps[j].start
  BY OrderFacts
<1>2. IsFiniteSet(T) /\ Cardinality(T) <= n /\ Cardinality(T) \in Nat
  BY ExtentsCount, FS_CardinalityType DEF Spans
<1>n. n \in Nat /\ n <= MaxParts
  BY <1>1
<1>3. ASSUME NEW y \in T
      PROVE  \E i \in 1 .. n : y = [start |-> ps[i].start, end |-> ps[i].end]
  BY <1>1 DEF ExtentsOf
<1> HIDE DEF n, T
<1>4. ASSUME NEW i \in 1 .. n PROVE ps[i].start \in Usable /\ ps[i].end \in Usable
  <2> DEFINE a == ps[i].start  b == ps[i].end
  <2>1. a \in Nat /\ b \in Nat /\ First <= a /\ a <= b /\ b <= Limit
    BY <1>1
  <2> HIDE DEF a, b
  <2>2. a \in Usable /\ b \in Usable
    BY <2>1, LimitFacts DEF Usable
  <2> QED
    BY <2>2 DEF a, b
<1>5. T \subseteq Table!Extents
  BY <1>3, <1>4 DEF Table!Extents
<1>6. Cardinality(T) <= MaxParts
  BY <1>2, <1>n, FdasdAssumption
<1>7. \A e \in T : e.start <= e.end
  BY <1>1, <1>3
<1>8. ASSUME NEW e \in T, NEW g \in T, e # g
      PROVE  Table!TracksOf(e) \cap Table!TracksOf(g) = {}
  <2>1. PICK i \in 1 .. n : e = [start |-> ps[i].start, end |-> ps[i].end]
    BY <1>3
  <2>2. PICK j \in 1 .. n : g = [start |-> ps[j].start, end |-> ps[j].end]
    BY <1>3
  <2>3. i # j
    BY <1>8, <2>1, <2>2
  <2>4. i < j \/ j < i
    BY <1>n, <2>3
  <2> DEFINE a == ps[i].start  b == ps[i].end  c == ps[j].start  d == ps[j].end
  <2>5. /\ a \in Nat /\ b \in Nat /\ c \in Nat /\ d \in Nat /\ (b < c \/ d < a)
        /\ e.start = a /\ e.end = b /\ g.start = c /\ g.end = d
    BY <1>1, <2>1, <2>2, <2>4
  <2> HIDE DEF a, b, c, d
  <2>6. a .. b \cap c .. d = {}
    BY <2>5
  <2> QED
    BY <2>5, <2>6 DEF Table!TracksOf
<1> QED
  <2>0. Table!Cardinality(T) = Cardinality(T)
    BY Zenon DEF Table!Cardinality, Cardinality
  <2>1. Table!Sound(T)
    BY <1>5, <1>6, <1>7, <1>8, <2>0 DEF Table!Sound
  <2> QED
    BY <2>1 DEF T

-----------------------------------------------------------------------------
(* The commands of the menu, each with the step of PartitionTable it is.   *)

LEMMA DiskSame ==
  ASSUME disk' = disk
  PROVE  ExtentsOf(OnDisk)' = ExtentsOf(OnDisk)
BY DEF ExtentsOf, OnDisk

\* What the invariant says while a session is open
LEMMA InMenu ==
  ASSUME Inv, pc # "off"
  PROVE  /\ Good(parts) /\ Spans(parts) /\ gap = FirstGap(parts) /\ used = Len(parts)
         /\ Len(parts) \in Nat /\ DOMAIN parts = 1 .. Len(parts) /\ used \in Nat /\ used <= MaxParts
         /\ dsrec = Sectors - 2 - used /\ highest = (IF used = 0 THEN 0 ELSE HighestLabel(used))
         /\ Label(Big, free) /\ FreeTracks(Big, free) = Usable \ TracksOfParts(parts)
         /\ Flags(changed, volser, disk) /\ Stored(disk)
BY ListLen DEF Inv, Kept, Good, Spans

\* A command that makes a new VTOC necessary
LEMMA FlagsVtoc ==
  ASSUME NEW c, NEW v, NEW d, Flags(c, v, d)
  PROVE  Flags([c EXCEPT !.vtoc = TRUE], v, d)
<1> DEFINE e == [c EXCEPT !.vtoc = TRUE]
<1>1. e \in [vtoc : BOOLEAN, vlabel : BOOLEAN] /\ e.vtoc = TRUE /\ e.vlabel = c.vlabel
  BY DEF Flags
<1> HIDE DEF e
<1>2. Flags(e, v, d)
  BY <1>1 DEF Flags
<1> QED
  BY <1>2 DEF e

LEMMA AddStep ==
  ASSUME Inv, AddPartition
  PROVE  Inv' /\ Table!Add
<1>1. pc = "menu" /\ pc' = pc /\ size' = size /\ disk' = disk /\ used < MaxParts
  BY DEF AddPartition, Edit
<1>2. /\ Good(parts) /\ Spans(parts) /\ gap = FirstGap(parts) /\ used = Len(parts)
      /\ Len(parts) \in Nat /\ DOMAIN parts = 1 .. Len(parts) /\ used \in Nat
      /\ dsrec = Sectors - 2 - used
      /\ Label(Big, free) /\ FreeTracks(Big, free) = Usable \ TracksOfParts(parts)
      /\ Flags(changed, volser, disk) /\ Stored(disk)
  BY <1>1, InMenu
<1> DEFINE Effect(p) == /\ CanDelFree(Big, free, p.start, p.end)
                        /\ parts' = Enqueued(p)
                        /\ gap' = IF Insert(p) - 1 = 0 THEN p.start - First ELSE gap
                        /\ used' = used + 1 /\ dsrec' = dsrec - 1
                        /\ highest' = HighestLabel(used + 1)
                        /\ free' = DelFree(Big, free, p.start, p.end)
<1>20. PICK x \in DefaultStart .. Limit : \E e \in Placed(x) .. LimitFrom(Placed(x), parts) :
         Effect(Part(Placed(x), e, 0, NewName))
  BY DEF AddPartition
<1>3. PICK e \in Placed(x) .. LimitFrom(Placed(x), parts) : Effect(Part(Placed(x), e, 0, NewName))
  BY <1>20
<1> DEFINE s == Placed(x)  p == Part(s, e, 0, NewName)
<1>4. p.start = s /\ p.end = e
  BY PartFacts
<1>5. /\ CanDelFree(Big, free, s, e) /\ free' = DelFree(Big, free, s, e)
      /\ parts' = Enqueued(p) /\ gap' = IF Insert(p) - 1 = 0 THEN p.start - First ELSE gap
      /\ used' = used + 1 /\ dsrec' = dsrec - 1 /\ highest' = HighestLabel(used + 1)
  BY <1>3, <1>4
<1>6. /\ s \in Nat /\ e \in Nat /\ First <= s /\ s <= e /\ e <= Limit
      /\ \A y \in s .. e : ~InPart(y, parts)
      /\ \A y \in s .. e : y \in FreeTracks(Big, free)
  BY <1>2, <1>5, PlaceFacts
<1> HIDE DEF s
<1>7. /\ Good(Enqueued(p)) /\ Len(Enqueued(p)) = Len(parts) + 1
      /\ FirstGap(Enqueued(p)) = IF Insert(p) - 1 = 0 THEN p.start - First ELSE gap
      /\ ExtentsOf(Enqueued(p)) = ExtentsOf(parts) \cup {[start |-> s, end |-> e]}
      /\ TracksOfParts(Enqueued(p)) = TracksOfParts(parts) \cup s .. e
  BY <1>2, <1>6, EnqueueFacts
<1> HIDE DEF p
<1>8. /\ Good(parts') /\ Len(parts') = Len(parts) + 1 /\ gap' = FirstGap(parts')
      /\ ExtentsOf(parts') = ExtentsOf(parts) \cup {[start |-> s, end |-> e]}
      /\ TracksOfParts(parts') = TracksOfParts(parts) \cup s .. e
  BY <1>5, <1>7
<1>9. Label(Big, free') /\ FreeTracks(Big, free') = Usable \ TracksOfParts(parts')
  <2>1. Big \in BOOLEAN
    BY DEF Big
  <2>2. /\ Label(Big, DelFree(Big, free, s, e))
        /\ FreeTracks(Big, DelFree(Big, free, s, e)) = FreeTracks(Big, free) \ (s .. e)
    BY <1>2, <1>6, <2>1, DelFacts
  <2> QED
    BY <1>2, <1>5, <1>8, <2>2
<1>10. used' = Len(parts') /\ used' <= MaxParts /\ dsrec' = Sectors - 2 - used' /\ used' # 0
  BY <1>1, <1>2, <1>5, <1>8, FdasdAssumption
<1>11. highest' = (IF used' = 0 THEN 0 ELSE HighestLabel(used'))
  BY <1>5, <1>10
<1>12. Kept(parts', gap', used', dsrec', highest', free')
  BY <1>8, <1>9, <1>10, <1>11 DEF Kept
<1>13. Flags(changed', volser', disk')
  <2>1. changed' = [changed EXCEPT !.vtoc = TRUE] /\ volser' = volser
    BY DEF AddPartition
  <2> QED
    BY <1>1, <1>2, <2>1, FlagsVtoc
<1>14. Inv'
  BY <1>1, <1>2, <1>12, <1>13, Again
<1>15. Table!Sound(ExtentsOf(parts'))
  <2>1. Spans(parts') /\ Len(parts') <= MaxParts
    BY <1>8, <1>10 DEF Good
  <2> QED
    BY <2>1, SoundFacts
<1> DEFINE z == [start |-> s, end |-> e]
<1>16. z \notin ExtentsOf(parts)
  <2> SUFFICES ASSUME z \in ExtentsOf(parts) PROVE FALSE
    OBVIOUS
  <2>1. PICK i \in DOMAIN parts : z = [start |-> parts[i].start, end |-> parts[i].end]
    BY DEF ExtentsOf
  <2>2. s = parts[i].start /\ e = parts[i].end
    BY <2>1
  <2>3. InPart(s, parts)
    BY <1>6, <2>2 DEF InPart
  <2> QED
    BY <1>6, <2>3
<1>17. z \in Table!Extents
  <2>1. s \in Usable /\ e \in Usable
    BY <1>6, LimitFacts, UsableFacts
  <2> QED
    BY <2>1 DEF Table!Extents
<1> HIDE DEF z
<1>18. ExtentsOf(parts)' = ExtentsOf(parts) \cup {z} /\ Table!Sound(ExtentsOf(parts)')
  BY <1>8, <1>15 DEF z, ExtentsOf
<1>19. Table!Add
  BY <1>1, <1>16, <1>17, <1>18, DiskSame DEF Table!Add, Table!Sound, Table!Extents
<1> QED
  BY <1>14, <1>19

LEMMA RemoveStep ==
  ASSUME Inv, RemovePartition
  PROVE  Inv' /\ Table!Remove
<1>1. pc = "menu" /\ pc' = pc /\ size' = size /\ disk' = disk
  BY DEF RemovePartition, Edit
<1>2. /\ Good(parts) /\ Spans(parts) /\ gap = FirstGap(parts) /\ used = Len(parts)
      /\ Len(parts) \in Nat /\ DOMAIN parts = 1 .. Len(parts) /\ used \in Nat /\ used <= MaxParts
      /\ dsrec = Sectors - 2 - used
      /\ Label(Big, free) /\ FreeTracks(Big, free) = Usable \ TracksOfParts(parts)
      /\ Flags(changed, volser, disk) /\ Stored(disk)
  BY <1>1, InMenu
<1>3. PICK k \in DOMAIN parts :
        /\ parts' = Dequeued(k)
        /\ gap' = IF k = 1 THEN gap + LengthOf(parts[k]) + parts[k].fspace ELSE gap
        /\ used' = used - 1 /\ dsrec' = dsrec + 1
        /\ highest' = IF used = 1 THEN 0 ELSE HighestLabel(used - 1)
        /\ free' = AddFree(Big, free, parts[k].start, parts[k].end)
  BY DEF RemovePartition
<1> DEFINE p == parts[k]  s == p.start  e == p.end  r == Dequeued(k)  z == [start |-> s, end |-> e]
<1>4. k \in 1 .. Len(parts)
  BY <1>2
<1>5. /\ Good(r) /\ Len(r) = Len(parts) - 1
      /\ FirstGap(r) = IF k = 1 THEN gap + LengthOf(p) + p.fspace ELSE gap
      /\ z \in ExtentsOf(parts) /\ ExtentsOf(r) = ExtentsOf(parts) \ {z}
      /\ TracksOfParts(r) = TracksOfParts(parts) \ (s .. e)
      /\ s .. e \subseteq TracksOfParts(parts)
  BY <1>2, <1>4, DequeueFacts
<1>6. s \in Nat /\ e \in Nat /\ First <= s /\ s <= e /\ e <= Limit
  BY <1>2, <1>4, OrderFacts
<1>7. /\ Good(parts') /\ Len(parts') = Len(parts) - 1 /\ gap' = FirstGap(parts')
      /\ ExtentsOf(parts') = ExtentsOf(parts) \ {z}
      /\ TracksOfParts(parts') = TracksOfParts(parts) \ (s .. e)
      /\ used' = used - 1 /\ dsrec' = dsrec + 1
      /\ highest' = (IF used = 1 THEN 0 ELSE HighestLabel(used - 1))
      /\ free' = AddFree(Big, free, s, e)
  BY <1>3, <1>5, Zenon
<1>8. z \in ExtentsOf(parts) /\ s .. e \subseteq TracksOfParts(parts)
  BY <1>5
<1> HIDE DEF p, s, e, r, z
<1>9. s .. e \subseteq Usable
  BY <1>6, LimitFacts DEF Usable
<1>10. Label(Big, free') /\ FreeTracks(Big, free') = Usable \ TracksOfParts(parts')
  <2>1. Big \in BOOLEAN
    BY DEF Big
  <2>2. \A x \in s .. e : x \notin FreeTracks(Big, free)
    BY <1>2, <1>8
  <2>3. /\ Label(Big, AddFree(Big, free, s, e))
        /\ FreeTracks(Big, AddFree(Big, free, s, e)) = FreeTracks(Big, free) \cup s .. e
    BY <1>2, <1>6, <2>1, <2>2, AddFacts
  <2> QED
    BY <1>2, <1>7, <1>9, <2>3
<1>11. used' = Len(parts') /\ used' <= MaxParts /\ dsrec' = Sectors - 2 - used' /\ (used = 1 <=> used' = 0)
  BY <1>2, <1>7, FdasdAssumption
<1>12. highest' = (IF used' = 0 THEN 0 ELSE HighestLabel(used'))
  BY <1>7, <1>11
<1>13. Kept(parts', gap', used', dsrec', highest', free')
  BY <1>7, <1>10, <1>11, <1>12 DEF Kept
<1>14. Flags(changed', volser', disk')
  <2>1. changed' = [changed EXCEPT !.vtoc = TRUE] /\ volser' = volser
    BY DEF RemovePartition
  <2> QED
    BY <1>1, <1>2, <2>1, FlagsVtoc
<1>15. Inv'
  BY <1>1, <1>2, <1>13, <1>14, Again
<1>16. ExtentsOf(parts)' = ExtentsOf(parts) \ {z}
  BY <1>7 DEF ExtentsOf
<1>17. Table!Remove
  BY <1>1, <1>8, <1>16, DiskSame DEF Table!Remove
<1> QED
  BY <1>15, <1>17

\* No variable of PartitionTable changes
LEMMA NoTableStep ==
  ASSUME disk' = disk, pc' = pc, ExtentsOf(parts)' = ExtentsOf(parts)
  PROVE  UNCHANGED Table!absVars
BY DiskSame DEF Table!absVars

LEMMA TypeStep ==
  ASSUME Inv, ChangeType
  PROVE  Inv' /\ UNCHANGED Table!absVars
<1>1. /\ pc = "menu" /\ pc' = pc /\ size' = size /\ disk' = disk
      /\ gap' = gap /\ used' = used /\ dsrec' = dsrec /\ highest' = highest /\ free' = free
      /\ volser' = volser /\ changed' = [changed EXCEPT !.vtoc = TRUE]
  BY DEF ChangeType, Edit
<1>2. /\ Kept(parts, gap, used, dsrec, highest, free) /\ Stored(disk)
      /\ Flags(changed, volser, disk) /\ DOMAIN parts = 1 .. Len(parts)
  BY <1>1, InMenu DEF Inv
<1>3. PICK k \in DOMAIN parts, t \in Types :
        parts' = IF parts[k].name.no = -1 THEN parts ELSE [parts EXCEPT ![k].name.type = t]
  BY DEF ChangeType
<1>4. Kept(parts', gap, used, dsrec, highest, free) /\ ExtentsOf(parts') = ExtentsOf(parts)
  <2>1. CASE parts' = parts
    BY <1>2, <2>1
  <2>2. CASE parts' = [parts EXCEPT ![k].name.type = t]
    <3>1. Good(parts') /\ Same(parts, parts') /\ Len(parts') = Len(parts)
      <4>1. Good(parts) /\ k \in 1 .. Len(parts)
        BY <1>2 DEF Kept
      <4> QED
        BY <2>2, <4>1, RenameFacts
    <3>2. /\ ExtentsOf(parts) = ExtentsOf(parts') /\ TracksOfParts(parts) = TracksOfParts(parts')
          /\ FirstGap(parts) = FirstGap(parts')
      BY <3>1, SameFacts
    <3> QED
      BY <1>2, <3>1, <3>2 DEF Kept
  <2> QED
    BY <1>3, <2>1, <2>2
<1>5. Inv'
  <2>1. Flags(changed', volser', disk')
    BY <1>1, <1>2, FlagsVtoc
  <2> QED
    BY <1>1, <1>2, <1>4, <2>1, Again
<1>6. ExtentsOf(parts)' = ExtentsOf(parts)
  BY <1>4 DEF ExtentsOf
<1> QED
  BY <1>1, <1>5, <1>6, NoTableStep

LEMMA VolserStep ==
  ASSUME Inv, ChangeVolser
  PROVE  Inv' /\ UNCHANGED Table!absVars
<1>1. /\ pc = "menu" /\ pc' = pc /\ size' = size /\ disk' = disk /\ parts' = parts
      /\ gap' = gap /\ used' = used /\ dsrec' = dsrec /\ highest' = highest /\ free' = free
      /\ changed' = [vtoc |-> TRUE, vlabel |-> TRUE]
  BY DEF ChangeVolser, Edit, VolserFlags
<1>2. Kept(parts, gap, used, dsrec, highest, free) /\ Stored(disk)
  BY <1>1 DEF Inv
<1>3. Flags(changed', volser', disk')
  BY <1>1 DEF Flags
<1>4. Inv'
  BY <1>1, <1>2, <1>3, Again
<1>5. ExtentsOf(parts)' = ExtentsOf(parts)
  BY <1>1 DEF ExtentsOf
<1> QED
  BY <1>1, <1>4, <1>5, NoTableStep

LEMMA ReuseStep ==
  ASSUME Inv, ReuseVtoc
  PROVE  Inv' /\ UNCHANGED Table!absVars
<1>1. /\ pc = "menu" /\ pc' = pc /\ size' = size /\ disk' = disk /\ parts' = parts
      /\ gap' = gap /\ used' = used /\ dsrec' = dsrec /\ highest' = highest
      /\ volser' = volser /\ changed' = [changed EXCEPT !.vtoc = TRUE]
      /\ free' = FromCounters(gap, parts)
  BY DEF ReuseVtoc, Edit
<1>2. Kept(parts, gap, used, dsrec, highest, free) /\ Stored(disk) /\ Flags(changed, volser, disk)
  BY <1>1 DEF Inv
<1>3. Kept(parts, gap, used, dsrec, highest, free')
  BY <1>1, <1>2, CounterFacts DEF Kept
<1>4. Flags(changed', volser', disk')
  BY <1>1, <1>2, FlagsVtoc
<1>5. Inv'
  BY <1>1, <1>2, <1>3, <1>4, Again
<1>6. ExtentsOf(parts)' = ExtentsOf(parts)
  BY <1>1 DEF ExtentsOf
<1> QED
  BY <1>1, <1>5, <1>6, NoTableStep

\* A table without partitions
LEMMA NewFacts ==
  Kept(<< >>, Limit - First + 1, 0, Sectors - 2, 0, WholeFree)
<1>1. 0 <= MaxParts /\ Sectors - 2 = Sectors - 2 - 0
  BY FdasdAssumption
<1> QED
  BY <1>1, EmptyFacts, WholeFacts DEF Kept

LEMMA RecreateStep ==
  ASSUME Inv, RecreateVtoc
  PROVE  Inv' /\ Table!Clear
<1>1. /\ pc = "menu" /\ pc' = pc /\ size' = size /\ disk' = disk /\ parts' = << >>
      /\ gap' = Limit - First + 1 /\ used' = 0 /\ dsrec' = Sectors - 2 /\ highest' = 0
      /\ free' = WholeFree
      /\ volser' = volser /\ changed' = [changed EXCEPT !.vtoc = TRUE]
  BY DEF RecreateVtoc, Edit
<1>2. Stored(disk) /\ Flags(changed, volser, disk)
  BY <1>1 DEF Inv
<1>3. Kept(parts', gap', used', dsrec', highest', free')
  BY <1>1, NewFacts
<1>4. Flags(changed', volser', disk')
  BY <1>1, <1>2, FlagsVtoc
<1>5. Inv'
  BY <1>1, <1>2, <1>3, <1>4, Again
<1>6. ExtentsOf(parts)' = {}
  <2>1. ExtentsOf(parts') = {}
    BY <1>1, EmptyFacts
  <2> QED
    BY <2>1 DEF ExtentsOf
<1> QED
  BY <1>1, <1>5, <1>6, DiskSame DEF Table!Clear

-----------------------------------------------------------------------------
(* The start and the end of a session.                                     *)

LEMMA StartNewStep ==
  ASSUME Inv, StartNew
  PROVE  Inv' /\ Table!Open
<1>1. /\ pc = "off" /\ disk.kind # "vtoc" /\ pc' = "menu" /\ size' = size /\ disk' = disk
      /\ parts' = << >> /\ gap' = Limit - First + 1 /\ used' = 0 /\ dsrec' = Sectors - 2
      /\ highest' = 0 /\ free' = WholeFree
      /\ changed' = [vtoc |-> TRUE, vlabel |-> disk.kind # "novtoc"]
      /\ disk.kind # "nolabel" => volser' = disk.volser
  BY DEF StartNew
<1>2. Stored(disk)
  BY DEF Inv
<1>3. Kept(parts', gap', used', dsrec', highest', free')
  BY <1>1, NewFacts
<1>4. Flags(changed', volser', disk')
  <2>1. /\ changed' \in [vtoc : BOOLEAN, vlabel : BOOLEAN] /\ changed'.vtoc
        /\ changed'.vlabel <=> disk.kind # "novtoc"
    BY <1>1
  <2>2. ~changed'.vlabel => disk.kind # "nolabel"
    BY <2>1
  <2> QED
    BY <1>1, <2>1, <2>2 DEF Flags
<1>5. Inv'
  BY <1>1, <1>2, <1>3, <1>4, Again
<1>6. ExtentsOf(parts)' = {}
  <2>1. ExtentsOf(parts') = {}
    BY <1>1, EmptyFacts
  <2> QED
    BY <2>1 DEF ExtentsOf
<1>7. ExtentsOf(OnDisk) = {}
  <2>1. DOMAIN OnDisk = {}
    BY <1>1, <1>2 DEF Stored, OnDisk
  <2> QED
    BY <2>1 DEF ExtentsOf
<1> QED
  BY <1>1, <1>5, <1>6, <1>7, DiskSame DEF Table!Open

LEMMA StartReadStep ==
  ASSUME Inv, StartRead
  PROVE  Inv' /\ Table!Open
<1> DEFINE q == [i \in DOMAIN disk.f1 |-> Part(OnDisk[i].start, OnDisk[i].end, 0, OnDisk[i].name)]
           n == Len(disk.f1)
<1>1. /\ pc = "off" /\ disk.kind = "vtoc" /\ pc' = "menu" /\ size' = size /\ disk' = disk
      /\ parts' = Gaps(q) /\ gap' = FirstGap(OnDisk)
      /\ dsrec' = disk.dsrec /\ used' = Sectors - 2 - disk.dsrec
      /\ highest' = disk.highest /\ free' = disk.free /\ volser' = disk.volser
      /\ changed' = [vtoc |-> FALSE, vlabel |-> FALSE]
  BY DEF StartRead
<1>2. /\ Stored(disk) /\ IsList(disk.f1) /\ n <= MaxParts /\ Spans(OnDisk)
      /\ disk.dsrec = Sectors - 2 - n
      /\ disk.highest = (IF n = 0 THEN 0 ELSE HighestLabel(n))
      /\ Label(Big, disk.free) /\ FreeTracks(Big, disk.free) = Usable \ TracksOfParts(OnDisk)
  BY <1>1, OnDiskIs DEF Inv, Stored
<1>3. /\ IsList(OnDisk) /\ Len(OnDisk) = n /\ DOMAIN disk.f1 = 1 .. n /\ n \in Nat
  BY <1>2, OnDiskIs, ReadList, ListLen
<1>4. /\ q = [i \in 1 .. n |-> q[i]] /\ DOMAIN q = 1 .. n
      /\ \A i \in 1 .. n : q[i] = Part(OnDisk[i].start, OnDisk[i].end, 0, OnDisk[i].name)
  BY <1>3
<1>n. n = Len(disk.f1)
  OBVIOUS
<1> HIDE DEF q, n
<1>5. IsList(q) /\ Len(q) = n
  BY <1>3, <1>4, ListFacts
<1>6. Same(OnDisk, q) /\ \A i \in 1 .. n : Row(q[i])
  BY <1>3, <1>4, <1>5, PartFacts DEF Same
<1>7. Spans(q) /\ FirstGap(q) = FirstGap(OnDisk)
      /\ ExtentsOf(q) = ExtentsOf(OnDisk) /\ TracksOfParts(q) = TracksOfParts(OnDisk)
  BY <1>2, <1>6, SameFacts
<1>8. Good(parts') /\ Same(q, parts') /\ Len(parts') = n
  BY <1>1, <1>5, <1>6, <1>7, GapsFacts
<1>9. /\ FirstGap(parts') = gap' /\ ExtentsOf(parts') = ExtentsOf(OnDisk)
      /\ TracksOfParts(parts') = TracksOfParts(OnDisk)
  BY <1>1, <1>7, <1>8, SameFacts
<1>10. used' = n
  BY <1>1, <1>2, <1>3, FdasdAssumption
<1>11. Kept(parts', gap', used', dsrec', highest', free')
  BY <1>1, <1>2, <1>8, <1>9, <1>10 DEF Kept
<1>12. Flags(changed', volser', disk')
  BY <1>1 DEF Flags
<1>13. Inv'
  BY <1>1, <1>2, <1>11, <1>12, Again
<1>14. ExtentsOf(parts)' = ExtentsOf(OnDisk)
  BY <1>9 DEF ExtentsOf
<1> QED
  BY <1>1, <1>13, <1>14, DiskSame DEF Table!Open

\* Nothing is in memory any more
LEMMA IdleFacts ==
  ASSUME Idle
  PROVE  ExtentsOf(parts)' = {}
<1>1. ExtentsOf(parts') = {}
  BY EmptyFacts DEF Idle
<1> QED
  BY <1>1 DEF ExtentsOf

LEMMA DropStep ==
  ASSUME Inv, pc = "menu", pc' = "off", Idle, size' = size, disk' = disk
  PROVE  Inv' /\ Table!Drop
<1>1. Stored(disk)
  BY DEF Inv
<1>2. Inv'
  BY <1>1, Again
<1> QED
  BY <1>2, IdleFacts, DiskSame DEF Table!Drop

LEMMA WriteStep ==
  ASSUME Inv, WriteLabels
  PROVE  Inv' /\ (Table!Save \/ Table!Drop)
<1>1. pc = "menu" /\ pc' = "off" /\ Idle /\ size' = size
  BY DEF WriteLabels
<1>2. /\ Kept(parts, gap, used, dsrec, highest, free) /\ Stored(disk)
      /\ changed \in [vtoc : BOOLEAN, vlabel : BOOLEAN]
      /\ changed.vlabel => changed.vtoc
      /\ ~changed.vlabel => volser = disk.volser
  BY <1>1 DEF Inv, Flags
<1> DEFINE names == Naming(parts).names  f1 == Labels(parts, names, volser)
<1>3. disk = [kind |-> disk.kind, volser |-> disk.volser, dsrec |-> disk.dsrec,
              highest |-> disk.highest, free |-> disk.free, f1 |-> disk.f1]
  BY <1>2 DEF Stored
<1>4. disk' = [disk EXCEPT
        !.kind = IF changed.vtoc THEN "vtoc" ELSE @,
        !.volser = IF changed.vlabel THEN volser ELSE @,
        !.dsrec = IF changed.vtoc THEN dsrec ELSE @,
        !.highest = IF changed.vtoc THEN highest ELSE @,
        !.free = IF changed.vtoc THEN free ELSE @,
        !.f1 = IF changed.vtoc THEN f1 ELSE @]
  BY DEF WriteLabels
<1> HIDE DEF f1
<1>5. CASE changed.vtoc
  <2>1. disk' = [kind |-> "vtoc", volser |-> volser, dsrec |-> dsrec, highest |-> highest,
                 free |-> free, f1 |-> f1]
    <3>1. volser = IF changed.vlabel THEN volser ELSE disk.volser
      BY <1>2
    <3>2. disk' = [kind |-> "vtoc", volser |-> IF changed.vlabel THEN volser ELSE disk.volser,
                   dsrec |-> dsrec, highest |-> highest, free |-> free, f1 |-> f1]
      BY <1>3, <1>4, <1>5
    <3> QED
      BY <3>1, <3>2, Zenon
  <2>2. Stored(disk') /\ ExtentsOf(Read(f1)) = ExtentsOf(parts)
    <3>1. /\ Spans(parts) /\ Len(parts) <= MaxParts
          /\ dsrec = Sectors - 2 - Len(parts)
          /\ highest = (IF Len(parts) = 0 THEN 0 ELSE HighestLabel(Len(parts)))
          /\ Label(Big, free) /\ FreeTracks(Big, free) = Usable \ TracksOfParts(parts)
      BY <1>2 DEF Kept, Good
    <3> QED
      BY <2>1, <3>1, StoredFacts DEF f1
  <2>3. disk'.f1 = f1
    BY <2>1
  <2>4. ExtentsOf(OnDisk)' = ExtentsOf(parts)
    <3>1. OnDisk' = Read(f1)
      BY <2>3, OnDiskIs DEF Read
    <3> QED
      BY <2>2, <3>1 DEF ExtentsOf
  <2>5. Inv'
    BY <1>1, <2>2, Again
  <2>6. Table!Save
    BY <1>1, <2>4, IdleFacts DEF Table!Save
  <2> QED
    BY <2>5, <2>6
<1>6. CASE ~changed.vtoc
  <2>1. disk' = disk
    <3>1. ~changed.vlabel
      BY <1>2, <1>6
    <3> QED
      BY <1>3, <1>4, <1>6, <3>1
  <2> QED
    BY <1>1, <2>1, DropStep
<1> QED
  BY <1>5, <1>6

LEMMA StayStep ==
  ASSUME Inv, UNCHANGED <<size, disk, mem>>, pc' # "off" => pc # "off",
         (pc' \in {"menu", "torn"}) = (pc \in {"menu", "torn"})
  PROVE  Inv' /\ UNCHANGED Table!absVars
<1>1. /\ size' = size /\ disk' = disk /\ parts' = parts
      /\ gap' = gap /\ used' = used /\ dsrec' = dsrec /\ highest' = highest /\ free' = free
      /\ volser' = volser /\ changed' = changed
  BY DEF mem
<1>2. /\ Stored(disk)
      /\ pc' # "off" => Kept(parts, gap, used, dsrec, highest, free) /\ Flags(changed, volser, disk)
  BY DEF Inv
<1>3. Inv'
  BY <1>1, <1>2, Again
<1>4. ExtentsOf(parts)' = ExtentsOf(parts)
  BY <1>1 DEF ExtentsOf
<1> QED
  BY <1>1, <1>3, <1>4, DiskSame DEF Table!absVars

-----------------------------------------------------------------------------
(* The modes without a session.                                            *)

LEMMA FreshStep ==
  ASSUME Inv, pc = "off", UNCHANGED <<size, pc, mem>>,
         NEW ps, Spans(ps), Len(ps) <= MaxParts, NEW l, NEW v, disk' = Fresh(ps, l, v),
         Label(Big, l), FreeTracks(Big, l) = Usable \ TracksOfParts(ps)
  PROVE  Inv' /\ Table!Install
<1> DEFINE n == Len(ps)  d == Sectors - 2 - n  h == IF n = 0 THEN 0 ELSE HighestLabel(n)
           names == [i \in DOMAIN ps |-> [no |-> i, type |-> ps[i].name.type]]
           f1 == Labels(ps, names, v)
<1>1. ps = << >> <=> n = 0
  BY ListLen DEF Spans
<1>2. disk' = [kind |-> "vtoc", volser |-> v, dsrec |-> d, highest |-> h, free |-> l, f1 |-> f1]
  BY <1>1 DEF Fresh
<1>3. /\ Stored([kind |-> "vtoc", volser |-> v, dsrec |-> d, highest |-> h, free |-> l, f1 |-> f1])
      /\ ExtentsOf(Read(f1)) = ExtentsOf(ps)
  <2>1. d = Sectors - 2 - Len(ps) /\ h = (IF Len(ps) = 0 THEN 0 ELSE HighestLabel(Len(ps)))
    OBVIOUS
  <2> HIDE DEF d, h, names, n
  <2> QED
    BY <2>1, StoredFacts
<1> HIDE DEF d, h, f1
<1>4. Stored(disk') /\ disk'.f1 = f1
  BY <1>2, <1>3
<1>5. Inv'
  BY <1>4, Again
<1>6. ExtentsOf(OnDisk)' = ExtentsOf(ps)
  <2>1. OnDisk' = Read(f1)
    BY <1>4, OnDiskIs DEF Read
  <2> QED
    BY <1>3, <2>1 DEF ExtentsOf
<1>7. Table!Sound(ExtentsOf(OnDisk)')
  BY <1>6, SoundFacts
<1>8. ExtentsOf(parts)' = ExtentsOf(parts) /\ pc' = pc
  BY DEF mem, ExtentsOf
<1>9. Table!Install
  BY <1>7, <1>8 DEF Table!Install, Table!Sound
<1> QED
  BY <1>5, <1>9

LEMMA AutoStep ==
  ASSUME Inv, AutoPartition
  PROVE  Inv' /\ Table!Install
<1> DEFINE p == Part(First, Limit, 0, [no |-> 0, type |-> "NATIVE"])
<1>1. PICK v \in Volsers : disk' = Fresh(<<p>>, EmptyLabel, v)
  BY DEF AutoPartition
<1>2. pc = "off" /\ UNCHANGED <<size, pc, mem>>
  BY DEF AutoPartition
<1>3. p.start = First /\ p.end = Limit
  BY PartFacts
<1> HIDE DEF p
<1> DEFINE ps == <<p>>
<1>4. /\ ps = [i \in 1 .. 1 |-> ps[i]] /\ ps[1] = p /\ \A i \in 1 .. 1 : i = 1
      /\ 1 .. (1 - 1) = {}
  OBVIOUS
<1> HIDE DEF ps
<1>5. IsList(ps) /\ Len(ps) = 1 /\ DOMAIN ps = 1 .. 1
  <2>1. 1 \in Nat
    OBVIOUS
  <2> QED
    BY <1>4, <2>1, ListFacts
<1>6. Spans(ps)
  <2>1. Ordered(ps)
    <3>1. \A i \in DOMAIN ps : First <= ps[i].start /\ ps[i].start <= ps[i].end /\ ps[i].end <= Limit
      BY <1>3, <1>4, <1>5, LimitFacts
    <3>2. 1 .. (Len(ps) - 1) = {}
      BY <1>4, <1>5
    <3> QED
      BY <3>1, <3>2 DEF Ordered
  <2>2. \A i \in 1 .. Len(ps) : ps[i].start \in Nat /\ ps[i].end \in Nat
    BY <1>3, <1>4, <1>5, LimitFacts
  <2> QED
    BY <1>5, <2>1, <2>2 DEF Spans
<1>7. TracksOfParts(ps) = Usable
  <2>1. DOMAIN ps = {1} /\ ps[1].start = First /\ ps[1].end = Limit
    BY <1>3, <1>4, <1>5
  <2> QED
    BY <2>1 DEF TracksOfParts, Usable
<1>8. Label(Big, EmptyLabel) /\ FreeTracks(Big, EmptyLabel) = {}
  <2>1. Big \in BOOLEAN
    BY DEF Big
  <2> QED
    BY <2>1, NoFree
<1>9. Len(ps) <= MaxParts /\ disk' = Fresh(ps, EmptyLabel, v)
  <2>1. Len(ps) <= MaxParts
    BY <1>5, FdasdAssumption
  <2> QED
    BY <1>1, <2>1 DEF ps
<1> DEFINE l == EmptyLabel
<1>10. Label(Big, l) /\ FreeTracks(Big, l) = Usable \ TracksOfParts(ps) /\ disk' = Fresh(ps, l, v)
  BY <1>7, <1>8, <1>9
<1> HIDE DEF l
<1> QED
  BY <1>2, <1>6, <1>9, <1>10, FreshStep

LEMMA ConfigStep ==
  ASSUME Inv, ConfigPartition
  PROVE  Inv' /\ Table!Install
<1> DEFINE type == [no |-> 0, type |-> "NATIVE"]
           q(c) == [i \in DOMAIN c |-> Part(c[i].start, c[i].end, 0, type)]
<1>1. PICK c \in Configs, v \in Volsers :
        ConfigOk(c) /\ disk' = Fresh(Gaps(q(c)), FromCounters(FirstGap(c), Gaps(q(c))), v)
  BY DEF ConfigPartition
<1>2. pc = "off" /\ UNCHANGED <<size, pc, mem>>
  BY DEF ConfigPartition
<1>3. PICK n \in 0 .. MaxParts : c \in [1 .. n -> [start : Usable, end : Usable]]
  BY DEF Configs
<1>4. n \in Nat /\ n <= MaxParts
  BY FdasdAssumption
<1> DEFINE b == q(c)
<1>5. /\ DOMAIN c = 1 .. n /\ c = [i \in 1 .. n |-> c[i]]
      /\ \A i \in 1 .. n : c[i].start \in Usable /\ c[i].end \in Usable
  BY <1>3
<1>6. /\ DOMAIN b = 1 .. n /\ b = [i \in 1 .. n |-> b[i]]
      /\ \A i \in 1 .. n : b[i] = Part(c[i].start, c[i].end, 0, type)
  BY <1>5
<1> HIDE DEF b, type
<1>7. /\ IsList(c) /\ Len(c) = n /\ IsList(b) /\ Len(b) = n
  BY <1>4, <1>5, <1>6, ListFacts
<1>8. Same(c, b) /\ \A i \in 1 .. n : Row(b[i])
  BY <1>5, <1>6, <1>7, PartFacts DEF Same
<1>9. Spans(c)
  <2>1. ASSUME NEW i \in 1 .. n
        PROVE  /\ c[i].start \in Nat /\ c[i].end \in Nat
               /\ First <= c[i].start /\ c[i].start <= c[i].end /\ c[i].end <= Limit
    <3>1. c[i].start < c[i].end
      BY <1>1, <1>5 DEF ConfigOk
    <3>2. /\ c[i].start \in Nat /\ c[i].end \in Nat /\ First <= c[i].start /\ c[i].end <= Limit
      BY <1>5, UsableFacts
    <3> QED
      BY <3>1, <3>2
  <2>2. Ordered(c)
    BY <1>1, <1>5, <2>1 DEF ConfigOk, Ordered
  <2> QED
    BY <1>7, <2>1, <2>2 DEF Spans
<1>10. Spans(b) /\ FirstGap(c) = FirstGap(b)
  BY <1>8, <1>9, SameFacts
<1> DEFINE g == Gaps(b)
<1>11. Good(g) /\ Same(b, g) /\ Len(g) = n
  BY <1>7, <1>8, <1>10, GapsFacts
<1>12. FirstGap(b) = FirstGap(g)
  BY <1>11, SameFacts
<1> DEFINE l == FromCounters(FirstGap(c), g)
<1>13. disk' = Fresh(g, l, v)
  BY <1>1 DEF b, type
<1>14. Label(Big, l) /\ FreeTracks(Big, l) = Usable \ TracksOfParts(g)
  <2>1. l = FromCounters(FirstGap(g), g)
    BY <1>10, <1>12, Zenon
  <2> HIDE DEF l, g
  <2> QED
    BY <1>11, <2>1, CounterFacts
<1>15. Spans(g) /\ Len(g) <= MaxParts
  BY <1>4, <1>11 DEF Good
<1> HIDE DEF l, g
<1> QED
  BY <1>2, <1>13, <1>14, <1>15, FreshStep

-----------------------------------------------------------------------------
(* The theorems.                                                           *)

LEMMA InitFacts ==
  ASSUME Init
  PROVE  Inv /\ Table!AbsInit
<1>1. PICK k \in {"nolabel", "nopointer", "novtoc"}, v \in Volsers : disk = Blank(k, v)
  BY DEF Init
<1>2. /\ disk = [kind |-> disk.kind, volser |-> disk.volser, dsrec |-> disk.dsrec,
                 highest |-> disk.highest, free |-> disk.free, f1 |-> disk.f1]
      /\ disk.kind # "vtoc" /\ disk.f1 = << >>
  BY <1>1 DEF Blank
<1>3. Stored(disk)
  BY <1>2 DEF Stored
<1>4. pc = "off" /\ parts = << >>
  BY DEF Init
<1>5. ExtentsOf(OnDisk) = {}
  <2>1. DOMAIN OnDisk = {}
    BY <1>2 DEF OnDisk
  <2> QED
    BY <2>1 DEF ExtentsOf
<1>6. ExtentsOf(parts) = {}
  BY <1>4, EmptyFacts
<1> QED
  BY <1>3, <1>4, <1>5, <1>6 DEF Inv, Table!AbsInit

\* Every step keeps the invariant and is one of PartitionTable or leaves its
\* variables alone.
LEMMA StepFacts ==
  ASSUME Inv, [Next]_vars
  PROVE  Inv' /\ [Table!AbsNext]_(Table!absVars)
<1> DEFINE Goal == Inv' /\ (Table!AbsNext \/ UNCHANGED Table!absVars)
<1>1. CASE StartNew
  BY <1>1, StartNewStep DEF Table!AbsNext
<1>2. CASE StartRead
  BY <1>2, StartReadStep DEF Table!AbsNext
<1>3. CASE AddPartition
  BY <1>3, AddStep DEF Table!AbsNext
<1>4. CASE AddBug
  <2>1. pc = "menu" /\ pc' = "off" /\ Idle /\ size' = size /\ disk' = disk
    BY <1>4 DEF AddBug
  <2> QED
    BY <2>1, DropStep DEF Table!AbsNext
<1>5. CASE RemovePartition
  BY <1>5, RemoveStep DEF Table!AbsNext
<1>6. CASE ChangeType
  BY <1>6, TypeStep
<1>7. CASE ChangeVolser
  BY <1>7, VolserStep
<1>8. CASE ReuseVtoc
  BY <1>8, ReuseStep
<1>9. CASE RecreateVtoc
  BY <1>9, RecreateStep DEF Table!AbsNext
<1>10. CASE Quit
  <2>1. pc = "menu" /\ pc' = "off" /\ Idle /\ size' = size /\ disk' = disk
    BY <1>10 DEF Quit
  <2> QED
    BY <2>1, DropStep DEF Table!AbsNext
<1>11. CASE WriteLabels
  BY <1>11, WriteStep DEF Table!AbsNext
<1>12. CASE WriteTorn
  <2>1. pc = "menu" /\ pc' = "torn" /\ UNCHANGED <<size, disk, mem>>
    BY <1>12 DEF WriteTorn
  <2> QED
    BY <2>1, StayStep
<1>13. CASE AutoPartition
  BY <1>13, AutoStep DEF Table!AbsNext
<1>14. CASE ConfigPartition
  BY <1>14, ConfigStep DEF Table!AbsNext
<1>15. CASE Torn \/ UNCHANGED vars
  <2>1. pc' = pc /\ UNCHANGED <<size, disk, mem>>
    BY <1>15 DEF Torn, vars
  <2> QED
    BY <2>1, StayStep
<1> QED
  BY <1>1, <1>2, <1>3, <1>4, <1>5, <1>6, <1>7, <1>8, <1>9, <1>10, <1>11, <1>12, <1>13,
     <1>14, <1>15 DEF Next

\* The inductive invariant.
THEOREM Invariance == Spec => []Inv
<1>1. Init => Inv
  BY InitFacts
<1>2. Inv /\ [Next]_vars => Inv'
  BY StepFacts
<1> QED
  BY <1>1, <1>2, PTL DEF Spec

\* The free-space label of format 5 or 7 says of every usable track whether a
\* partition has it, whatever merges, splits, carries and borrows of its extents
\* (vtoc_set_freespace) came before: in memory and on disk.
THEOREM FreeSpaceAlways == Spec => []FreeSpaceExact
<1>1. Inv => FreeSpaceExact
  <2> SUFFICES ASSUME Inv PROVE FreeSpaceExact
    OBVIOUS
  <2>1. ASSUME pc = "menu" PROVE FreeTracks(Big, free) = Usable \ TracksOfParts(parts)
    BY <2>1, InMenu
  <2>2. ASSUME disk.kind = "vtoc" PROVE FreeTracks(Big, disk.free) = Usable \ TracksOfParts(OnDisk)
    BY <2>2, OnDiskIs DEF Inv, Stored
  <2> QED
    BY <2>1, <2>2 DEF FreeSpaceExact
<1> QED
  BY <1>1, Invariance, PTL

\* The counters, the record of the last label and the serials agree with the
\* list of partitions, in memory after each command and on disk.
THEOREM LabelsAlways == Spec => []LabelsExact
<1>1. Inv => LabelsExact
  <2> SUFFICES ASSUME Inv PROVE LabelsExact
    OBVIOUS
  <2>1. CountersExact
    <3> SUFFICES ASSUME pc = "menu"
                 PROVE  /\ parts = Gaps(parts) /\ gap = FirstGap(parts)
                        /\ used = Len(parts) /\ dsrec = Sectors - 2 - used
      BY DEF CountersExact
    <3> QED
      BY InMenu, GapsSame
  <2>2. HighestExact
    <3> SUFFICES ASSUME disk.kind = "vtoc"
                 PROVE  disk.highest = IF disk.f1 = << >> THEN 0
                          ELSE Len(disk.f1) + (IF size = "small" THEN 2 ELSE 3)
                                 + (IF size = "large" THEN Len(disk.f1) - 1 ELSE 0)
      BY DEF HighestExact
    <3> DEFINE n == Len(disk.f1)
    <3>1. disk.highest = (IF n = 0 THEN 0 ELSE HighestLabel(n)) /\ IsList(disk.f1)
      BY DEF Inv, Stored
    <3>2. n \in Nat /\ (disk.f1 = << >> <=> n = 0)
      BY <3>1, ListLen
    <3> HIDE DEF n
    <3>3. HighestLabel(n) = n + (IF size = "small" THEN 2 ELSE 3) + (IF size = "large" THEN n - 1 ELSE 0)
      BY <3>2 DEF HighestLabel, Big
    <3> QED
      BY <3>1, <3>2, <3>3 DEF n
  <2>3. SerialExact
    BY DEF Inv, Stored, SerialExact
  <2> QED
    BY <2>1, <2>2, <2>3 DEF LabelsExact
<1> QED
  BY <1>1, Invariance, PTL

\* fdasd implements PartitionTable: each command is one step of it or none, the
\* table on disk is sound, and nothing is on disk that was not saved.
THEOREM TableImplemented == Spec => ImplementsTable
<1>1. Init => Table!AbsInit
  BY InitFacts
<1>2. Inv /\ [Next]_vars => [Table!AbsNext]_(Table!absVars)
  BY StepFacts
<1> QED
  BY <1>1, <1>2, Invariance, PTL DEF Spec, ImplementsTable, Table!AbsSpec

\* The table on disk is sound: its partitions are in the usable tracks and have
\* no track in common.
THEOREM TableSound == Spec => [](Table!Sound(ExtentsOf(OnDisk)))
<1>1. Inv => Table!Sound(ExtentsOf(OnDisk))
  <2> SUFFICES ASSUME Inv PROVE Table!Sound(ExtentsOf(OnDisk))
    OBVIOUS
  <2>1. Spans(OnDisk) /\ Len(OnDisk) <= MaxParts
    <3>1. CASE disk.kind = "vtoc"
      <4>1. IsList(disk.f1) /\ Len(disk.f1) <= MaxParts /\ Spans(Read(disk.f1))
        BY <3>1 DEF Inv, Stored
      <4> QED
        BY <4>1, ReadList, OnDiskIs
    <3>2. CASE disk.kind # "vtoc"
      <4>1. OnDisk = << >>
        <5>1. disk.f1 = << >>
          BY <3>2 DEF Inv, Stored
        <5> QED
          BY <5>1 DEF OnDisk
      <4>2. 0 <= MaxParts
        BY FdasdAssumption
      <4> QED
        BY <4>1, <4>2, EmptyFacts DEF Good
    <3> QED
      BY <3>1, <3>2
  <2> QED
    BY <2>1, SoundFacts
<1> QED
  BY <1>1, Invariance, PTL

\* With a slot left in the label, libvtoc refuses no free tracks; a session of at
\* most MaxParts partitions leaves one.  So the only exit with "BUG: ..." of
\* fdasd_add_partition is where the start was moved to the first usable track.
THEOREM BugsExplained == Spec => BugOnlyAfterWrap
<1> DEFINE Wrapped == parts # << >> /\ parts[1].start = First /\ parts[Len(parts)].end = Limit
<1>1. ASSUME Inv, AddBug PROVE Wrapped
  <2>1. pc = "menu" /\ used < MaxParts
    BY <1>1 DEF AddBug
  <2>2. /\ Good(parts) /\ Spans(parts) /\ used = Len(parts) /\ Len(parts) \in Nat
        /\ DOMAIN parts = 1 .. Len(parts)
        /\ Label(Big, free) /\ FreeTracks(Big, free) = Usable \ TracksOfParts(parts)
    BY <1>1, <2>1, InMenu
  <2>3. PICK x \in DefaultStart .. Limit : \E e \in Placed(x) .. LimitFrom(Placed(x), parts) :
          ~CanDelFree(Big, free, Placed(x), e)
    BY <1>1 DEF AddBug
  <2>4. PICK e \in Placed(x) .. LimitFrom(Placed(x), parts) : ~CanDelFree(Big, free, Placed(x), e)
    BY <2>3
  <2> DEFINE s == Placed(x)  n == Len(parts)
  <2>5. /\ s \in Usable /\ (s = First \/ ~InPart(s, parts))
        /\ InPart(s, parts) => \A y \in x .. Limit : InPart(y, parts)
    BY PlacedFacts
  <2>6. e \in s .. LimitFrom(s, parts) /\ ~CanDelFree(Big, free, s, e)
    BY <2>4
  <2> HIDE DEF s
  <2>7. /\ s \in Nat /\ e \in Nat /\ First <= s /\ s <= e /\ e <= Limit
        /\ ~InPart(s, parts) => \A y \in s .. e : ~InPart(y, parts)
    BY <2>2, <2>5, <2>6, LimitFromFacts
  <2>8. Big \in BOOLEAN
    BY DEF Big
  <2>9. IsFiniteSet(free) /\ Cardinality(free) < Slots(Big)
    <3>1. IsFiniteSet(free) /\ Cardinality(free) <= n + 1 /\ Cardinality(free) \in Nat
      BY <2>2, FewExtents, FS_CardinalityType
    <3>2. MaxParts \in Nat /\ MaxParts < Slots(Big) /\ Slots(Big) \in Nat
      BY FdasdAssumption, GeometryAssumption DEF Slots
    <3>3. n \in Nat /\ n < MaxParts
      BY <2>1, <2>2
    <3> HIDE DEF n
    <3> QED
      BY <3>1, <3>2, <3>3
  <2>10. InPart(s, parts)
    <3> SUFFICES ASSUME ~InPart(s, parts) PROVE FALSE
      OBVIOUS
    <3>1. ASSUME NEW y \in s .. e PROVE y \in FreeTracks(Big, free)
      <4>1. y \in Int /\ y \in Usable /\ ~InPart(y, parts)
        BY <2>7, LimitFacts DEF Usable
      <4>2. y \notin TracksOfParts(parts)
        BY <2>2, <4>1, InPartFacts
      <4> QED
        BY <2>2, <4>1, <4>2
    <3>2. CanDelFree(Big, free, s, e)
      BY <2>2, <2>7, <2>8, <2>9, <3>1, DelFacts
    <3> QED
      BY <2>6, <3>2
  <2>11. s = First /\ InPart(Limit, parts)
    <3>1. x \in Nat /\ x <= Limit
      BY DefaultFacts, LimitFacts
    <3>2. Limit \in x .. Limit
      BY <3>1, LimitFacts
    <3> QED
      BY <2>5, <2>10, <3>2
  <2>12. /\ \A i \in 1 .. n : /\ parts[i].start \in Nat /\ parts[i].end \in Nat
                              /\ First <= parts[i].start /\ parts[i].start <= parts[i].end
                              /\ parts[i].end <= Limit
         /\ \A i, j \in 1 .. n : i < j => parts[i].end < parts[j].start
    BY <2>2, OrderFacts
  <2>13. PICK i \in 1 .. n : parts[i].start <= First /\ First <= parts[i].end
    BY <2>2, <2>10, <2>11 DEF InPart
  <2>14. PICK j \in 1 .. n : parts[j].start <= Limit /\ Limit <= parts[j].end
    BY <2>2, <2>11 DEF InPart
  <2>n. n \in Nat
    BY <2>2
  <2> HIDE DEF n
  <2>15. i = 1
    <3>1. 1 \in 1 .. n /\ (i = 1 \/ 1 < i)
      BY <2>n
    <3>2. ASSUME 1 < i PROVE FALSE
      <4>1. First <= parts[1].start /\ parts[1].start <= parts[1].end /\ parts[1].end < parts[i].start
        BY <2>12, <3>1, <3>2
      <4>2. parts[1].start \in Nat /\ parts[1].end \in Nat /\ parts[i].start \in Nat
        BY <2>12, <3>1
      <4> DEFINE a == parts[1].start  b == parts[1].end  c == parts[i].start
      <4>3. First <= a /\ a <= b /\ b < c /\ c <= First /\ a \in Nat /\ b \in Nat /\ c \in Nat
        BY <2>13, <4>1, <4>2
      <4> HIDE DEF a, b, c
      <4> QED
        BY <4>3, LimitFacts
    <3> QED
      BY <3>1, <3>2
  <2>16. parts[1].start = First
    <3> DEFINE a == parts[1].start
    <3>1. a \in Nat /\ a <= First /\ First <= a
      BY <2>12, <2>13, <2>15
    <3> HIDE DEF a
    <3>2. a = First
      BY <3>1, LimitFacts
    <3> QED
      BY <3>2 DEF a
  <2>17. j = n
    <3>1. n \in 1 .. n /\ (j = n \/ j < n)
      BY <2>n
    <3>2. ASSUME j < n PROVE FALSE
      <4> DEFINE a == parts[j].end  b == parts[n].start  c == parts[n].end
      <4>1. Limit <= a /\ a < b /\ b <= c /\ c <= Limit /\ a \in Nat /\ b \in Nat /\ c \in Nat
        BY <2>12, <2>14, <3>1, <3>2
      <4> HIDE DEF a, b, c
      <4> QED
        BY <4>1, LimitFacts
    <3> QED
      BY <3>1, <3>2
  <2>18. parts[n].end = Limit
    <3> DEFINE c == parts[n].end
    <3>1. c \in Nat /\ c <= Limit /\ Limit <= c
      BY <2>12, <2>14, <2>17
    <3> HIDE DEF c
    <3>2. c = Limit
      BY <3>1, LimitFacts
    <3> QED
      BY <3>2 DEF c
  <2>19. parts # << >>
    <3>1. n # 0
      BY <2>13, <2>n
    <3>2. ASSUME parts = << >> PROVE n = 0
      BY <3>2, EmptyFacts DEF n
    <3> QED
      BY <3>1, <3>2
  <2> QED
    BY <2>16, <2>18, <2>19 DEF n
<1>2. Inv /\ [Next]_vars => [AddBug => Wrapped]_vars
  BY <1>1
<1> HIDE DEF Wrapped
<1> QED
  BY <1>2, Invariance, PTL DEF Spec, BugOnlyAfterWrap, Wrapped
=============================================================================
