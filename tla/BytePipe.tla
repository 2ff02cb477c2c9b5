------------------------------ MODULE BytePipe ------------------------------
(***************************************************************************)
(* What one direction of a terminal session promises: bytes come out in    *)
(* the order they were put in, none is lost on the way to a later one,     *)
(* none is made up, and none is taken back.                                *)
(***************************************************************************)
EXTENDS Sequences, SequencesExt

VARIABLES put,   \* bytes that went in so far
          got    \* bytes that came out so far

Init == put = <<>> /\ got = <<>>

Put == IsPrefix(put, put') /\ UNCHANGED got

Get == /\ IsPrefix(got, got') /\ IsPrefix(got', put)
       /\ UNCHANGED put

Spec == Init /\ [][Put \/ Get]_<<put, got>>
=============================================================================
