----------------------------- MODULE FreeSpace -----------------------------
(***************************************************************************)
(* The free-space labels of a volume, as libvtoc keeps them: up to         *)
(* BIG_DISK_SIZE tracks a format 5 label with 26 extents, each a start     *)
(* track, a number of cylinders and a number of tracks; beyond that a      *)
(* format 7 label with 16 extents, each a start track and the track behind *)
(* its end.  A label is the set of its extents that are in use: the code   *)
(* sorts the slots, the empty ones last, after each change, so that the    *)
(* slot an extent is in tells nothing.                                     *)
(***************************************************************************)
EXTENDS Integers, FiniteSets, FiniteSetsExt

CONSTANTS Heads,    \* tracks per cylinder, geo.heads
          Slots5,   \* extents in a format 5 label
          Slots7    \* extents in a format 7 label

ASSUME GeometryAssumption ==
  Heads \in Nat \ {0} /\ Slots5 \in Nat /\ Slots7 \in Nat

-----------------------------------------------------------------------------
(* Format 7.                                                               *)

Ext7(a, b) == [a |-> a, b |-> b]

Extents7 == [a : Nat, b : Nat]

\* The tracks that a format 7 label calls free
Tracks7(f7) == UNION {e.a .. (e.b - 1) : e \in f7}

Overlap7(f7, a, b) ==
  \E e \in f7 : \/ a < e.a /\ b > e.a /\ b < e.b
                \/ a > e.a /\ a < e.b /\ b > e.b

CanAdd7(f7, a, b) == ~Overlap7(f7, a, b) /\ Cardinality(f7) < Slots7

\* A merge that stops after the predecessor
Add7PredOnly(f7, a, b) ==
  LET pred == {e \in f7 : e.b = a}
      succ == {e \in f7 : e.a = b}
      lo == IF pred = {} THEN a ELSE (CHOOSE e \in pred : TRUE).a
      hi == IF succ = {} \/ pred # {} THEN b ELSE (CHOOSE e \in succ : TRUE).b
  IN (f7 \ (pred \cup (IF pred # {} THEN {} ELSE succ))) \cup {Ext7(lo, hi)}

\* The new extent swallows the one that ends where it starts and the one that
\* starts where it ends
Add7(f7, a, b) ==
  LET pred == {e \in f7 : e.b = a}
      succ == {e \in f7 : e.a = b}
      lo == IF pred = {} THEN a ELSE (CHOOSE e \in pred : TRUE).a
      hi == IF succ = {} THEN b ELSE (CHOOSE e \in succ : TRUE).b
  IN (f7 \ (pred \cup succ)) \cup {Ext7(lo, hi)}

\* The extent in which all of a .. b - 1 lies
Within7(f7, a, b) == {e \in f7 : e.a <= a /\ b <= e.b}

Mismatch7(f7, a, b) ==
  \E e \in f7 : \/ a < e.a /\ b > e.a
                \/ a < e.b /\ b > e.b

\* Taking the middle of an extent adds one: the label must have a slot left
CanDel7(f7, a, b) ==
  /\ Within7(f7, a, b) # {} /\ ~Mismatch7(f7, a, b)
  /\ \A e \in Within7(f7, a, b) :
       e.a < a /\ b < e.b => CanAdd7(f7, b, e.b)

Del7(f7, a, b) ==
  LET e == CHOOSE x \in Within7(f7, a, b) : TRUE
      rest == f7 \ {e}
  IN CASE a = e.a /\ b = e.b -> rest
       [] a = e.a /\ b < e.b -> rest \cup {Ext7(b, e.b)}
       [] a > e.a /\ b = e.b -> rest \cup {Ext7(e.a, a)}
       [] OTHER -> (Add7(f7, b, e.b) \ {e}) \cup {Ext7(e.a, a)}

-----------------------------------------------------------------------------
(* Format 5.                                                               *)

Ext5(t, fc, ft) == [t |-> t, fc |-> fc, ft |-> ft]

Size5(e) == e.fc * Heads + e.ft

End5(e) == e.t + Size5(e)

\* The tracks that a format 5 label calls free
Tracks5(f5) == UNION {e.t .. (End5(e) - 1) : e \in f5}

\* As many cylinders and tracks as n tracks are
Length5(n) == [b |-> n \div Heads, c |-> n % Heads]

Overlap5(f5, a, b, c) ==
  \E e \in f5 : \/ a < e.t /\ a + b * Heads + c > e.t
                \/ a > e.t /\ End5(e) > a

CanAdd5(f5, a, b, c) == ~Overlap5(f5, a, b, c) /\ Cardinality(f5) < Slots5

\* e enlarged by b cylinders and c tracks, with the carry
Enlarged5(e, b, c) ==
  [e EXCEPT !.fc = @ + b + (c + e.ft) \div Heads, !.ft = (c + @) % Heads]

Add5(f5, a, b, c) ==
  LET pred == {e \in f5 : End5(e) = a}
      succ == {e \in f5 : a + b * Heads + c = e.t}
      new  == Ext5(a, b, c)
      low  == IF pred = {} THEN new
              ELSE Enlarged5(CHOOSE e \in pred : TRUE, b, c)
      all  == IF succ = {} THEN low
              ELSE [Enlarged5(CHOOSE e \in succ : TRUE, low.fc, low.ft)
                      EXCEPT !.t = low.t]
  IN (f5 \ (pred \cup succ)) \cup {all}

\* The borrow forgotten
Reduced5NoBorrow(e, b, c) ==
  IF c > e.ft THEN [e EXCEPT !.fc = @ - b, !.ft = @ - (c - Heads)]
              ELSE [e EXCEPT !.fc = @ - b, !.ft = @ - c]

\* e without b cylinders and c tracks, with the borrow
Reduced5(e, b, c) ==
  IF c > e.ft THEN [e EXCEPT !.fc = @ - (b + 1), !.ft = @ - (c - Heads)]
              ELSE [e EXCEPT !.fc = @ - b, !.ft = @ - c]

Fills5(e, a, b, c) == a = e.t /\ b = e.fc /\ c = e.ft
Left5(e, a, b, c)  == a = e.t /\ (b < e.fc \/ c < e.ft)
Right5(e, a, b, c) == e.t < a /\ End5(e) = a + b * Heads + c
Split5(e, a, b, c) == e.t < a /\ End5(e) > a + b * Heads + c

Hits5(f5, a, b, c) ==
  {e \in f5 : \/ Fills5(e, a, b, c) \/ Left5(e, a, b, c)
              \/ Right5(e, a, b, c) \/ Split5(e, a, b, c)}

Mismatch5(f5, a, b, c) ==
  LET end == a + b * Heads + c
  IN \E e \in f5 : \/ a < e.t /\ end > e.t /\ end < End5(e)
                   \/ a > e.t /\ a < End5(e) /\ end > End5(e)

\* What is left of e behind the tracks taken from its middle
Upper5(e, a, b, c) == Length5(End5(e) - (a + b * Heads + c))

\* The part of e in front of track a
Lower5(e, a) == [e EXCEPT !.fc = (a - e.t) \div Heads, !.ft = (a - e.t) % Heads]

\* Taking the middle of an extent first shortens it, then adds the rest
CanDel5(f5, a, b, c) ==
  /\ Hits5(f5, a, b, c) # {} /\ ~Mismatch5(f5, a, b, c)
  /\ \A e \in Hits5(f5, a, b, c) :
       Split5(e, a, b, c) =>
         LET u == Upper5(e, a, b, c)
         IN CanAdd5((f5 \ {e}) \cup {Lower5(e, a)}, a + b * Heads + c, u.b, u.c)

Del5(f5, a, b, c) ==
  LET e == CHOOSE x \in Hits5(f5, a, b, c) : TRUE
      rest == f5 \ {e}
      end == a + b * Heads + c
      u == Upper5(e, a, b, c)
  IN CASE Fills5(e, a, b, c) -> rest
       [] Left5(e, a, b, c)  -> rest \cup {[Reduced5(e, b, c) EXCEPT !.t = end]}
       [] Right5(e, a, b, c) -> rest \cup {Reduced5(e, b, c)}
       [] OTHER -> Add5(rest \cup {Lower5(e, a)}, end, u.b, u.c)

-----------------------------------------------------------------------------
(* vtoc_set_freespace: the label of a volume that is big or not.           *)

EmptyLabel == {}

FreeTracks(big, label) == IF big THEN Tracks7(label) ELSE Tracks5(label)

CanAddFree(big, label, start, stop) ==
  LET l == Length5(stop - start + 1)
  IN IF big THEN CanAdd7(label, start, stop + 1)
            ELSE CanAdd5(label, start, l.b, l.c)

AddFree(big, label, start, stop) ==
  LET l == Length5(stop - start + 1)
  IN IF big THEN Add7(label, start, stop + 1)
            ELSE Add5(label, start, l.b, l.c)

CanDelFree(big, label, start, stop) ==
  LET l == Length5(stop - start + 1)
  IN IF big THEN CanDel7(label, start, stop + 1)
            ELSE CanDel5(label, start, l.b, l.c)

DelFree(big, label, start, stop) ==
  LET l == Length5(stop - start + 1)
  IN IF big THEN Del7(label, start, stop + 1)
            ELSE Del5(label, start, l.b, l.c)
=============================================================================
