----------------------------- MODULE MCCpacfstats -----------------------------
(***************************************************************************)
(* Instance of Cpacfstats: daemons that follow each other, clients that    *)
(* may wait behind each other.                                             *)
(***************************************************************************)
EXTENDS Cpacfstats

Ask(cmd, ctr) == [cmd |-> cmd, ctr |-> ctr]

\* Changes and reports, for all counters or for one; a reset is answered like
\* a print
MCAsks == {Ask("enable", All), Ask("disable", 1), Ask("print", All)}
=============================================================================
