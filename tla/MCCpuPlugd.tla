----------------------------- MODULE MCCpuPlugd -----------------------------
(***************************************************************************)
(* Configuration files for CpuPlugd.                                       *)
(***************************************************************************)
EXTENDS CpuPlugd

\* Rules in which the history index is at most n
CpuIndex(n) == [r \in Rules |-> IF r \in CpuRules THEN n ELSE -1]
MemIndex(n) == [r \in Rules |-> IF r \in MemRules THEN n ELSE -1]

None == [cpuMin |-> -1, cpuMax |-> -1, cmmMin |-> -1, cmmMax |-> -1,
         rules |-> [r \in Rules |-> -1], firstVar |-> FALSE]
Cpu == [None EXCEPT !.cpuMin = 1, !.cpuMax = 0, !.rules = CpuIndex(0)]
Tight == [Cpu EXCEPT !.cpuMin = 2, !.cpuMax = 2, !.rules = CpuIndex(3)]
Both == [Cpu EXCEPT !.cpuMin = 2, !.cmmMin = 1, !.cmmMax = 2,
                    !.rules = [r \in Rules |-> IF r = "cmm_dec" THEN -1 ELSE 0]]
Memory == [None EXCEPT !.cmmMin = 1, !.cmmMax = 2, !.rules = MemIndex(1)]
Variable == [Tight EXCEPT !.firstVar = TRUE]
Wrong == [Tight EXCEPT !.cpuMax = 1]
TooMany == [Both EXCEPT !.cpuMin = 4, !.cpuMax = 4]

MCFiles == {Both, Memory, Variable, Wrong, TooMany}
MCMatches == {{}, {"plug", "unplug"}, {"unplug"}, {"fpe"}}
MCSteps == -1 .. 2
=============================================================================
