------------------------------ MODULE MCCmsfs ------------------------------
(***************************************************************************)
(* Small disks for Cmsfs.                                                  *)
(***************************************************************************)
EXTENDS Cmsfs

NameSymmetry == Permutations(Names)

-----------------------------------------------------------------------------
\* delete_file says "update cached address of moved FST": as long as the entry
\* of an open file exists, its object has the address of it
FollowsMove ==
  ~ am.bug => \A i \in DOMAIN open : Walk(st, open[i].path) \in {NoAddr, open[i].addr}
=============================================================================
