-------------------------- MODULE PartitionTable --------------------------
(***************************************************************************)
(* What a partitioning tool promises: the table on the disk is a set of at *)
(* most MaxParts extents of the usable tracks, no two of which have a      *)
(* track in common; a session edits a copy of it, one partition at a time, *)
(* and either saves the copy or drops it.                                  *)
(***************************************************************************)
EXTENDS Integers, FiniteSets

CONSTANTS Usable,    \* the tracks that partitions may use
          MaxParts

VARIABLES table,     \* the extents on disk
          draft,     \* the extents as edited in the session
          open       \* a session is going on

absVars == <<table, draft, open>>

Extents == [start : Usable, end : Usable]

TracksOf(e) == e.start .. e.end

Sound(t) ==
  /\ t \subseteq Extents /\ Cardinality(t) <= MaxParts
  /\ \A e \in t : e.start <= e.end
  /\ \A e, f \in t : e # f => TracksOf(e) \cap TracksOf(f) = {}

AbsInit == table = {} /\ draft = {} /\ ~open

Open == ~open /\ open' = TRUE /\ draft' = table /\ table' = table

Add == /\ open /\ UNCHANGED <<table, open>>
       /\ \E e \in Extents : e \notin draft /\ draft' = draft \cup {e} /\ Sound(draft')

Remove == /\ open /\ UNCHANGED <<table, open>>
          /\ \E e \in draft : draft' = draft \ {e}

Clear == open /\ draft' = {} /\ UNCHANGED <<table, open>>

Save == open /\ table' = draft /\ draft' = {} /\ open' = FALSE

Drop == open /\ draft' = {} /\ open' = FALSE /\ UNCHANGED table

\* A whole table in one go, without a session
Install == ~open /\ Sound(table') /\ UNCHANGED <<draft, open>>

AbsNext == Open \/ Add \/ Remove \/ Clear \/ Save \/ Drop \/ Install

AbsSpec == AbsInit /\ [][AbsNext]_absVars
=============================================================================
