----------------------------- MODULE MCIucvTerm -----------------------------
(***************************************************************************)
(* Small sessions for IucvTerm.                                            *)
(***************************************************************************)
EXTENDS IucvTerm
=============================================================================
