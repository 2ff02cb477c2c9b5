------------------------------ MODULE MCFdasd ------------------------------
(***************************************************************************)
(* Small volumes for Fdasd.                                                *)
(***************************************************************************)
EXTENDS Fdasd
=============================================================================
