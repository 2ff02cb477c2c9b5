----------------------------- MODULE MCHmcDrive -----------------------------
(***************************************************************************)
(* Two DVDs for HmcDrive: a directory with a file, and one without.        *)
(***************************************************************************)
EXTENDS HmcDrive, TLC

CONSTANTS D, F, A, One, Two

MCParent == (D :> Root) @@ (A :> Root) @@ (F :> D)

MCLines ==
  [d \in Discs |-> [p \in Paths |->
     CASE d = One /\ p = Root -> <<D, A>>
       [] d = One /\ p = D -> <<Junk, F>>
       [] d = Two /\ p = Root -> <<A, Junk>>
       [] OTHER -> <<>>]]

MCLine == [p \in Paths |-> CASE p \in {Root, F} -> 0 [] p = D -> 2 [] OTHER -> 1]
=============================================================================
