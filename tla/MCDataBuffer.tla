---------------------------- MODULE MCDataBuffer ----------------------------
(***************************************************************************)
(* DataBuffer for TLC: its constants get small values in BufferEntries.cfg. *)
(***************************************************************************)
EXTENDS DataBuffer
=============================================================================
