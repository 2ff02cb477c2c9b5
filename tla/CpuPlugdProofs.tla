--------------------------- MODULE CpuPlugdProofs ---------------------------
(***************************************************************************)
(* The safety properties of CpuPlugd, for any number of CPUs, any files,   *)
(* rules, history depth and number of events.                              *)
(***************************************************************************)
EXTENDS CpuPlugd, Integers, Sequences, FiniteSetsExt, Functions, SequenceTheorems, FiniteSetTheorems, TLAPS

-----------------------------------------------------------------------------
(* Sets, numbers and sequences.                                            *)

\* A set of natural numbers that is not empty has a least element.
LEMMA LeastNat ==
  ASSUME NEW T \in SUBSET Nat, T # {}
  PROVE  \E m \in T : \A k \in T : m <= k
<1> DEFINE R == {ss \in Nat \X Nat : ss[1] < ss[2]}
<1>1. IsWellFoundedOn(R, Nat)
  BY NatLessThanWellFounded, Zenon DEF OpToRel
<1>2. PICK x \in T : \A y \in T : ~(<<y, x>> \in R)
  BY <1>1, WFMin
<1>3. ASSUME NEW y \in T PROVE x <= y
  <2>1. <<y, x>> \in Nat \X Nat /\ <<y, x>>[1] = y /\ <<y, x>>[2] = x
    OBVIOUS
  <2>2. ~ (y < x)
    BY <1>2, <2>1
  <2> QED
    BY <2>2
<1> QED
  BY <1>3

\* A bounded set of natural numbers that is not empty has a greatest element.
LEMMA GreatestNat ==
  ASSUME NEW T \in SUBSET Nat, T # {}, NEW n \in Nat, \A k \in T : k <= n
  PROVE  \E m \in T : \A k \in T : k <= m
<1> DEFINE U == {i \in Nat : n - i \in T}
<1>1. U # {}
  <2>1. PICK k \in T : TRUE
    OBVIOUS
  <2>2. n - k \in Nat /\ n - (n - k) = k
    BY <2>1
  <2> QED
    BY <2>1, <2>2
<1>2. PICK i \in U : \A j \in U : i <= j
  BY <1>1, LeastNat
<1>3. ASSUME NEW k \in T PROVE k <= n - i
  <2>1. n - k \in U
    <3>1. n - k \in Nat /\ n - (n - k) = k
      OBVIOUS
    <3> QED
      BY <3>1
  <2> QED
    BY <1>2, <2>1
<1> QED
  BY <1>2, <1>3

\* Min and Max of such sets.
LEMMA MinFacts ==
  ASSUME NEW S \in SUBSET Nat, S # {}
  PROVE  Min(S) \in S /\ \A k \in S : Min(S) <= k
<1>1. \E m \in S : \A k \in S : m <= k
  BY LeastNat
<1> QED
  BY <1>1 DEF Min

LEMMA MaxFacts ==
  ASSUME NEW S \in SUBSET Nat, S # {}, NEW n \in Nat, \A k \in S : k <= n
  PROVE  Max(S) \in S /\ \A k \in S : k <= Max(S)
<1>1. \E m \in S : \A k \in S : k <= m
  BY GreatestNat
<1>2. \E m \in S : \A k \in S : m >= k
  BY <1>1
<1>3. Max(S) \in S /\ \A k \in S : Max(S) >= k
  BY <1>2 DEF Max
<1> QED
  BY <1>3

\* Min and Max of two integers.
LEMMA PairFacts ==
  ASSUME NEW a \in Int, NEW b \in Int
  PROVE  /\ Min({a, b}) = IF a <= b THEN a ELSE b
         /\ Max({a, b}) = IF a >= b THEN a ELSE b
<1>1. /\ \E x \in {a, b} : \A y \in {a, b} : x <= y
      /\ \E x \in {a, b} : \A y \in {a, b} : x >= y
  <2>1. CASE a <= b
    BY <2>1
  <2>2. CASE b <= a
    BY <2>2
  <2> QED
    BY <2>1, <2>2
<1>2. Min({a, b}) \in {a, b} /\ \A y \in {a, b} : Min({a, b}) <= y
  BY <1>1 DEF Min
<1>3. Max({a, b}) \in {a, b} /\ \A y \in {a, b} : Max({a, b}) >= y
  BY <1>1 DEF Max
<1> QED
  BY <1>2, <1>3

\* One element more, one fewer.
LEMMA CardFacts ==
  ASSUME NEW S, IsFiniteSet(S), NEW x
  PROVE  /\ Cardinality(S) \in Nat
         /\ Cardinality(S) = 0 <=> S = {}
         /\ IsFiniteSet(S \cup {x}) /\ IsFiniteSet(S \ {x})
         /\ x \in S => Cardinality(S \ {x}) = Cardinality(S) - 1 /\ Cardinality(S) >= 1
         /\ x \notin S => Cardinality(S \cup {x}) = Cardinality(S) + 1
<1>1. Cardinality(S) \in Nat /\ (Cardinality(S) = 0 <=> S = {})
  BY FS_CardinalityType, FS_EmptySet
<1>2. IsFiniteSet(S \cup {x}) /\ Cardinality(S \cup {x}) = IF x \in S THEN Cardinality(S) ELSE Cardinality(S) + 1
  BY FS_AddElement
<1>3. IsFiniteSet(S \ {x}) /\ Cardinality(S \ {x}) = IF x \in S THEN Cardinality(S) - 1 ELSE Cardinality(S)
  BY FS_RemoveElement
<1> QED
  BY <1>1, <1>2, <1>3

-----------------------------------------------------------------------------
Places == {"off", "parse", "history", "check", "raise", "lower", "cmm", "loop", "read",
           "cpu", "mem", "restore"}

GhostsOK ==
  /\ saved \in [cpus : 0 .. NumCpus, pages : Nat, history : Nat]
  /\ found \in [cpus : 0 .. NumCpus, pages : Nat, cpu : BOOLEAN, memory : BOOLEAN]
  /\ left \in Places
  /\ kept \subseteq Rules

\* Behind the loops of check_config, or in the first filling of the ring
Filling == pc = "history" /\ ~reloading
Checked == pc = "cmm" \/ InLoop \/ Filling

\* The flags that check_config has set are those of the limits it has seen
ConfigInv ==
  /\ cfg.cpuMin # 0 /\ cfg.cpuMax # 0
  /\ Checked \/ pc \in {"raise", "lower"} =>
       cpu = CpuConfig /\ memory = MemConfig /\ cfg.cpuMin <= cfg.cpuMax
  /\ pc \in {"raise", "lower"} => cpu
  /\ InLoop => ~reloading

\* The loop that lowers the number of CPUs has switched off all it has passed,
\* but for the last one
LimitInv ==
  ~touched =>
    /\ Checked /\ cpu => cfg.cpuMin <= Count /\ Count <= cfg.cpuMax
    /\ (InLoop \/ Filling) /\ memory => cfg.cmmMin <= pages /\ pages <= cfg.cmmMax
    /\ pc = "lower" => \A c \in online : c < scan => online = {c}
    /\ pc = "cpu" => snapshot = Count

\* The last k readings are in the slots in which a rule looks for them
Holds(k) == \A n \in 0 .. k : age[HistoryIndex(n)] = n

RingInv ==
  /\ pc = "history" => /\ historyCur < historyMax
                       /\ \A s \in 0 .. (historyCur - 1) : age[s] = historyCur - 1 - s
  /\ pc \in {"cpu", "mem"} => Holds(historyMax)
  /\ pc \in {"loop", "read"} => Holds(historyMax - 1)
  /\ reloading /\ pc \in {"parse", "check", "raise", "lower", "cmm"} => Holds(historyMax - 1)
  /\ reloading /\ pc = "parse" => saved.history = historyMax
  /\ ~reloading /\ pc \in {"parse", "check", "raise", "lower", "cmm"} => historyCur = 0

\* The ring is deep enough for the rules of the file last read
KeptInv == \A r \in Rules : r \in kept \/ cfg.rules[r] <= historyMax

\* What the daemon is to restore is what it has found
Recalls(cpus, n) == (found.cpu => cpus = found.cpus) /\ (found.memory => n = found.pages)

Settled == {"parse", "history", "check", "loop", "read", "cpu", "mem"}
Checking == {"raise", "lower", "cmm"}

\* reactivate_cpus goes in one direction only, and all CPUs that it has passed
\* are on, or off but for the last one
Reactivated ==
  \/ Count = startCpus
  \/ Count < startCpus /\ \A c \in configured : c < scan => c \in online
  \/ Count > startCpus /\ \A c \in online : c < scan => online = {c}

StartInv ==
  /\ pc \in {"parse", "check"} /\ ~reloading => found = Nothing
  /\ left # "restore" /\ (Running => left = "off")
  /\ ~touched =>
       /\ found.cpu => 1 <= found.cpus /\ found.cpus <= Cardinality(configured)
       /\ pc \in Settled => Recalls(startCpus, startPages)
       /\ reloading => Recalls(saved.cpus, saved.pages)
       /\ pc \in Checking /\ ~reloading =>
            Recalls(startCpus, pages) /\ found.memory = memory
       /\ pc = "restore" /\ left \in Settled =>
            Recalls(startCpus, startPages) /\ (found.cpu => Reactivated)
       /\ pc = "restore" /\ left \in Checking /\ ~reloading /\ found.cpu =>
            startCpus = found.cpus /\ Reactivated

Inv == TypeOK /\ GhostsOK /\ ConfigInv /\ LimitInv /\ RingInv /\ KeptInv /\ StartInv /\ RestoredAtExit

USE DEF system, outside, limits, ring, start, reload, ghosts, InLoop, Running

-----------------------------------------------------------------------------
(* Operators. *)

LEMMA CpuSets ==
  ASSUME TypeOK
  PROVE  /\ IsFiniteSet(online) /\ IsFiniteSet(configured)
         /\ Count \in 1 .. NumCpus /\ Cardinality(configured) \in Nat
         /\ Count <= Cardinality(configured)
         /\ Count = Cardinality(configured) => online = configured
<1>1. IsFiniteSet(Cpus) /\ Cardinality(Cpus) = NumCpus
  BY FS_Interval, CpuPlugdAssumption DEF Cpus
<1>2. IsFiniteSet(configured)
  BY <1>1, FS_Subset DEF TypeOK
<1>3. /\ IsFiniteSet(online) /\ Cardinality(online) <= Cardinality(configured)
      /\ Cardinality(configured) = Cardinality(online) => configured = online
  BY <1>2, FS_Subset DEF TypeOK
<1>4. Cardinality(online) <= NumCpus
  <2>1. online \in SUBSET Cpus
    BY DEF TypeOK
  <2> QED
    BY <1>1, <2>1, FS_Subset
<1>5. Cardinality(online) \in Nat /\ Cardinality(online) # 0 /\ Cardinality(configured) \in Nat
  <2>1. online # {}
    BY DEF TypeOK
  <2> QED
    BY <1>2, <1>3, <2>1, FS_CardinalityType, FS_EmptySet
<1> QED
  BY <1>2, <1>3, <1>4, <1>5, CpuPlugdAssumption DEF Count

\* hotplug
LEMMA PluggedFacts ==
  ASSUME TypeOK, NEW c \in Cpus
  PROVE  /\ Plugged(c) \in (SUBSET configured) \ {{}}
         /\ online \subseteq Plugged(c)
         /\ c \in configured \ online => Plugged(c) = online \cup {c} /\ Cardinality(Plugged(c)) = Count + 1
         /\ c \notin configured \ online => Plugged(c) = online
<1>1. Plugged(c) \in (SUBSET configured) \ {{}} /\ online \subseteq Plugged(c)
  <2>1. online \in (SUBSET configured) \ {{}}
    BY DEF TypeOK
  <2> QED
    BY <2>1 DEF Plugged
<1>2. c \in configured \ online => Plugged(c) = online \cup {c}
  BY DEF Plugged
<1>3. c \notin online => Cardinality(online \cup {c}) = Count + 1
  BY CpuSets, CardFacts DEF Count
<1> QED
  BY <1>1, <1>2, <1>3 DEF Plugged

\* hotunplug
LEMMA UnpluggedFacts ==
  ASSUME TypeOK, NEW c \in Cpus
  PROVE  /\ Unplugged(c) \in (SUBSET configured) \ {{}}
         /\ Unplugged(c) \subseteq online
         /\ c \in online /\ online # {c} => Unplugged(c) = online \ {c} /\ Cardinality(Unplugged(c)) = Count - 1
         /\ c \notin online \/ online = {c} => Unplugged(c) = online
<1>1. Unplugged(c) \in (SUBSET configured) \ {{}} /\ Unplugged(c) \subseteq online
  BY DEF Unplugged, TypeOK
<1>2. c \in online => Cardinality(online \ {c}) = Count - 1
  BY CpuSets, CardFacts DEF Count
<1> QED
  BY <1>1, <1>2 DEF Unplugged

LEMMA ClampedFacts ==
  ASSUME cfg \in Limits, MemConfig, NEW n \in Int
  PROVE  Clamped(n) \in Nat /\ cfg.cmmMin <= Clamped(n) /\ Clamped(n) <= cfg.cmmMax
<1>1. cfg.cmmMin \in Int /\ cfg.cmmMax \in Int /\ 0 <= cfg.cmmMin /\ cfg.cmmMin <= cfg.cmmMax
  BY DEF MemConfig, Limits, Limit
<1> DEFINE m == Max({n, cfg.cmmMin})
<1>2. m = IF n >= cfg.cmmMin THEN n ELSE cfg.cmmMin
  BY <1>1, PairFacts
<1>3. m \in Int /\ cfg.cmmMin <= m
  BY <1>1, <1>2
<1> HIDE DEF m
<1>4. Min({m, cfg.cmmMax}) = IF m <= cfg.cmmMax THEN m ELSE cfg.cmmMax
  BY <1>1, <1>3, PairFacts
<1> QED
  BY <1>1, <1>3, <1>4 DEF Clamped, m

\* The depth of the ring is at least one, and no less than any index in the file
LEMMA DepthFacts ==
  ASSUME NEW f \in Files
  PROVE  Depth(f) \in Nat \ {0} /\ \A r \in Rules : f.rules[r] <= Depth(f)
<1> DEFINE S == {1} \cup {f.rules[r] : r \in Rules}
           T == {k + 1 : k \in S}
           N(r) == f.rules[r] + 1
           n == 2 + N("hotplug") + N("hotunplug") + N("memplug") + N("memunplug") + N("cmm_inc") + N("cmm_dec")
<1>1. \A r \in Rules : f.rules[r] \in Int /\ N(r) \in Nat
  BY CpuPlugdAssumption DEF Limit
<1>2. n \in Nat /\ n >= 2 /\ \A r \in Rules : N(r) <= n
  BY <1>1 DEF Rules, CpuRules, MemRules
<1>3. S \subseteq Int /\ T \in SUBSET Nat /\ T # {} /\ \A k \in T : k <= n
  BY <1>1, <1>2
<1>4. PICK m \in T : \A k \in T : k <= m
  BY <1>2, <1>3, GreatestNat
<1>5. \E x \in S : \A y \in S : x >= y
  <2>1. m - 1 \in S
    BY <1>3, <1>4
  <2>2. \A y \in S : y + 1 <= m
    BY <1>4
  <2>3. m \in Int
    BY <1>3
  <2>4. \A y \in S : m - 1 >= y
    BY <1>3, <2>2, <2>3
  <2> QED
    BY <2>1, <2>4
<1>6. Max(S) \in S /\ \A y \in S : Max(S) >= y
  BY <1>5 DEF Max
<1>7. Depth(f) = Max(S)
  BY DEF Depth
<1>8. \A r \in Rules : f.rules[r] \in S
  OBVIOUS
<1>9. 1 \in S
  OBVIOUS
<1> HIDE DEF S
<1>10. Depth(f) \in Int /\ Depth(f) >= 1
  BY <1>3, <1>6, <1>7, <1>9
<1>11. \A r \in Rules : f.rules[r] <= Depth(f)
  BY <1>1, <1>6, <1>7, <1>8, <1>10
<1> QED
  BY <1>10, <1>11

LEMMA ParsedFacts ==
  ASSUME cfg \in Limits, cfg.cpuMin # 0, cfg.cpuMax # 0, NEW f \in Files, f.cpuMin # 0
  PROVE  Parsed(f) \in Limits /\ Parsed(f).cpuMin # 0 /\ Parsed(f).cpuMax # 0
<1>1. /\ f.cpuMin \in Limit /\ f.cpuMax \in Limit /\ f.cmmMin \in Limit /\ f.cmmMax \in Limit
      /\ f.rules \in [Rules -> Limit]
  BY CpuPlugdAssumption
<1>2. /\ cfg.cpuMin \in Limit /\ cfg.cpuMax \in Limit /\ cfg.cmmMin \in Limit /\ cfg.cmmMax \in Limit
      /\ cfg.rules \in [Rules -> Limit]
  BY DEF Limits
<1>3. NumCpus \in Limit /\ NumCpus # 0
  BY CpuPlugdAssumption DEF Limit
<1>4. [r \in Rules |-> Given(f.rules[r], cfg.rules[r])] \in [Rules -> Limit]
  BY <1>1, <1>2 DEF Given
<1>5. /\ Given(f.cpuMin, cfg.cpuMin) \in Limit \ {0} /\ Given(f.cmmMin, cfg.cmmMin) \in Limit
      /\ Given(f.cpuMax, cfg.cpuMax) \in Limit /\ Given(f.cmmMax, cfg.cmmMax) \in Limit
      /\ f.cpuMax # 0 => Given(f.cpuMax, cfg.cpuMax) # 0
  BY <1>1, <1>2 DEF Given
<1> QED
  BY <1>3, <1>4, <1>5 DEF Parsed, Limits

\* eval_cpu_rules changes nothing, or switches one CPU on below the limit, or
\* one off above it
LEMMA EvalFacts ==
  ASSUME TypeOK, EvalCpuRules
  PROVE  \/ online' = online
         \/ \E c \in configured \ online : online' = online \cup {c} /\ snapshot + 1 <= cfg.cpuMax /\ cpu
         \/ \E c \in online : online # {c} /\ online' = online \ {c} /\ snapshot > cfg.cpuMin /\ cpu
<1>0. /\ configured \subseteq Cpus /\ online \subseteq configured /\ online # {}
      /\ Cpus \subseteq Nat /\ \A c \in Cpus : c <= NumCpus - 1
      /\ NumCpus - 1 \in Nat /\ cfg.cpuMin \in Int /\ cfg.cpuMax \in Int /\ snapshot \in Int
  BY CpuPlugdAssumption DEF TypeOK, Cpus, Limits, Limit
<1>1. CASE ~AtMax /\ Pluggable # {} /\ online' = Plugged(Min(Pluggable)) /\ cpu
  <2>1. Pluggable \in SUBSET Nat
    BY <1>0 DEF Pluggable
  <2>2. Min(Pluggable) \in Pluggable
    BY <1>1, <2>1, MinFacts
  <2>3. /\ Min(Pluggable) \in configured \ online
        /\ Plugged(Min(Pluggable)) = online \cup {Min(Pluggable)}
    BY <2>2 DEF Plugged, Pluggable
  <2>4. snapshot + 1 <= cfg.cpuMax
    BY <1>0, <1>1 DEF AtMax
  <2> QED
    BY <1>1, <2>3, <2>4
<1>2. CASE ~AtMin /\ Last # 0 /\ online' = Unplugged(Last) /\ cpu
  <2>1. online \in SUBSET Nat /\ \A c \in online : c <= NumCpus - 1
    BY <1>0
  <2>2. Last \in online
    BY <1>0, <2>1, MaxFacts DEF Last
  <2> QED
    BY <1>0, <1>2, <2>2 DEF AtMin, Unplugged
<1> QED
  BY <1>1, <1>2 DEF EvalCpuRules

\* eval_mem_rules leaves the balloon alone or sets it between the limits
LEMMA BalloonFacts ==
  ASSUME TypeOK, EvalMemRules
  PROVE  pages' = pages \/ (memory /\ \E n \in Int : pages' = Clamped(n))
<1>1. PICK d \in Steps :
        pages' = IF ~memory \/ "fpe" \in match THEN pages
                 ELSE Clamped(IF "plug" \in match THEN pages - Max({d, 0})
                              ELSE IF "unplug" \in match THEN pages + Max({d, 0})
                              ELSE pages)
  BY DEF EvalMemRules
<1>2. d \in Int /\ pages \in Int /\ memory \in BOOLEAN
  BY CpuPlugdAssumption DEF TypeOK
<1>3. Max({d, 0}) \in Int
  <2>1. Max({d, 0}) = IF d >= 0 THEN d ELSE 0
    BY <1>2, PairFacts
  <2> QED
    BY <1>2, <2>1
<1> DEFINE n == IF "plug" \in match THEN pages - Max({d, 0})
                ELSE IF "unplug" \in match THEN pages + Max({d, 0})
                ELSE pages
<1>4. n \in Int
  BY <1>2, <1>3
<1>5. pages' = IF ~memory \/ "fpe" \in match THEN pages ELSE Clamped(n)
  BY <1>1
<1> QED
  BY <1>2, <1>4, <1>5

-----------------------------------------------------------------------------
(* Types. *)

\* The parts of the type invariant that single steps change
SystemOK == /\ configured \subseteq Cpus /\ online \in (SUBSET configured) \ {{}} /\ pages \in Nat
ControlOK == /\ file \in Files /\ match \in Matches /\ events \in 0 .. MaxEvents
             /\ pc \in Places /\ scan \in 0 .. NumCpus /\ snapshot \in 0 .. NumCpus
             /\ newline \in BOOLEAN /\ reloading \in BOOLEAN /\ pending \in BOOLEAN /\ touched \in BOOLEAN
LimitsOK == /\ cfg \in Limits /\ cpu \in BOOLEAN /\ memory \in BOOLEAN
            /\ startCpus \in 0 .. NumCpus /\ startPages \in Nat
RingOK == /\ historyMax \in 1 .. MaxHistory /\ historyCur \in 0 .. historyMax
          /\ age \in [0 .. historyMax -> 0 .. Oldest]

LEMMA TypeParts == TypeOK <=> SystemOK /\ ControlOK /\ LimitsOK /\ RingOK /\ kept \subseteq Rules
  BY DEF TypeOK, SystemOK, ControlOK, LimitsOK, RingOK, Places

LEMMA SystemKept == ASSUME Inv, Next PROVE SystemOK'
<1> USE DEF SystemOK
<1>0. TypeOK /\ SystemOK /\ ControlOK /\ LimitsOK
  BY TypeParts DEF Inv
<1>1. CASE UNCHANGED system
  BY <1>0, <1>1
<1>2. CASE RaiseCpus
  <2>1. CASE UNCHANGED online
    BY <1>0, <1>2, <2>1 DEF RaiseCpus
  <2>2. CASE online' = Plugged(scan) /\ scan < NumCpus
    <3>1. scan \in Cpus
      BY <1>0, <2>2, CpuPlugdAssumption DEF ControlOK, Cpus
    <3> QED
      BY <1>0, <1>2, <2>2, <3>1, PluggedFacts DEF RaiseCpus
  <2> QED
    BY <1>2, <2>1, <2>2 DEF RaiseCpus
<1>3. CASE LowerCpus
  <2>1. CASE UNCHANGED online
    BY <1>0, <1>3, <2>1 DEF LowerCpus
  <2>2. CASE online' = Unplugged(scan) /\ scan < NumCpus
    <3>1. scan \in Cpus
      BY <1>0, <2>2, CpuPlugdAssumption DEF ControlOK, Cpus
    <3> QED
      BY <1>0, <1>3, <2>2, <3>1, UnpluggedFacts DEF LowerCpus
  <2> QED
    BY <1>3, <2>1, <2>2 DEF LowerCpus
<1>4. CASE CheckCmm
  <2>1. memory => MemConfig
    BY <1>4 DEF CheckCmm, Inv, ConfigInv, Checked
  <2>2. memory => Clamped(pages) \in Nat
    BY <1>0, <2>1, ClampedFacts DEF LimitsOK
  <2> QED
    BY <1>0, <1>4, <2>2 DEF CheckCmm
<1>5. CASE EvalCpuRules
  BY <1>0, <1>5, EvalFacts DEF EvalCpuRules
<1>6. CASE EvalMemRules
  <2>1. pages' = pages \/ (memory /\ \E n \in Int : pages' = Clamped(n))
    BY <1>0, <1>6, BalloonFacts
  <2>2. memory => MemConfig
    BY <1>6 DEF EvalMemRules, Inv, ConfigInv, Checked
  <2> QED
    BY <1>0, <1>6, <2>1, <2>2, ClampedFacts DEF EvalMemRules, LimitsOK
<1>7. CASE Reactivate
  <2>1. CASE UNCHANGED online
    BY <1>0, <1>7, <2>1 DEF Reactivate, LimitsOK
  <2>2. CASE UNCHANGED pages /\ online' \in {Unplugged(scan), Plugged(scan)} /\ scan # NumCpus
    <3>1. scan \in Cpus
      BY <1>0, <2>2, CpuPlugdAssumption DEF ControlOK, Cpus
    <3> QED
      BY <1>0, <1>7, <2>2, <3>1, UnpluggedFacts, PluggedFacts DEF Reactivate
  <2> QED
    BY <1>7, <2>1, <2>2 DEF Reactivate, Restored
<1>8. ASSUME NEW c \in Cpus, AdminCpu(c) PROVE SystemOK'
  BY <1>0, <1>8, PluggedFacts, UnpluggedFacts DEF AdminCpu
<1>9. ASSUME NEW n \in Pages, AdminPages(n) PROVE SystemOK'
  BY <1>0, <1>9, CpuPlugdAssumption DEF AdminPages
<1> QED
  BY <1>1, <1>2, <1>3, <1>4, <1>5, <1>6, <1>7, <1>8, <1>9
  DEF Next, Daemon, Admin, ParseConfig, SetupHistory, CheckConfig, ReloadDaemon, ReadInterval,
      StrayRead, EditFile, Hup, Start, KillDaemon

LEMMA ControlKept == ASSUME Inv, Next PROVE ControlOK'
<1> USE DEF ControlOK, Places
<1>0. TypeOK /\ ControlOK
  BY TypeParts DEF Inv
<1>1. MaxEvents \in Nat /\ NumCpus \in Nat \ {0} /\ {} \in Matches
  BY CpuPlugdAssumption
<1>2. CASE ParseConfig
  BY <1>0, <1>1, <1>2 DEF ParseConfig, Cleanup
<1>3. CASE SetupHistory
  BY <1>0, <1>3 DEF SetupHistory
<1>4. CASE CheckConfig
  BY <1>0, <1>1, <1>4 DEF CheckConfig, Cleanup
<1>5. CASE RaiseCpus
  BY <1>0, <1>1, <1>5 DEF RaiseCpus
<1>6. CASE LowerCpus
  BY <1>0, <1>1, <1>6 DEF LowerCpus, Cleanup
<1>7. CASE CheckCmm
  BY <1>0, <1>7 DEF CheckCmm
<1>8. CASE ReloadDaemon
  BY <1>0, <1>8 DEF ReloadDaemon
<1>9. CASE ReadInterval
  <2>1. snapshot' \in 0 .. NumCpus
    BY <1>0, <1>1, <1>9, CpuSets DEF ReadInterval
  <2> QED
    BY <1>0, <1>9, <2>1 DEF ReadInterval
<1>10. CASE EvalCpuRules \/ EvalMemRules
  BY <1>0, <1>1, <1>10 DEF EvalCpuRules, EvalMemRules
<1>11. CASE Reactivate
  BY <1>0, <1>1, <1>11 DEF Reactivate, Restored
<1>12. ASSUME NEW c \in Cpus, AdminCpu(c) PROVE ControlOK'
  BY <1>0, <1>1, <1>12 DEF AdminCpu, DaemonUnchanged, Event
<1>13. ASSUME NEW n \in Pages, AdminPages(n) PROVE ControlOK'
  BY <1>0, <1>1, <1>13 DEF AdminPages, DaemonUnchanged, Event
<1>14. ASSUME NEW f \in Files, EditFile(f) PROVE ControlOK'
  BY <1>0, <1>1, <1>14 DEF EditFile, DaemonUnchanged, Event
<1>15. CASE Hup
  BY <1>0, <1>1, <1>15 DEF Hup, DaemonUnchanged, Event
<1>16. CASE Start
  <2>1. /\ file' = file /\ match' = {} /\ events' = events + 1 /\ events < MaxEvents /\ pc' = "parse"
        /\ scan' = 0 /\ snapshot' = 0 /\ newline' = TRUE /\ reloading' = FALSE /\ pending' = FALSE
        /\ touched' = FALSE
    BY <1>16 DEF Start
  <2>2. events' \in 0 .. MaxEvents /\ scan' \in 0 .. NumCpus /\ snapshot' \in 0 .. NumCpus
    BY <1>0, <1>1, <2>1
  <2>3. pc' \in Places /\ match' \in Matches /\ file' \in Files
    BY <1>0, <1>1, <2>1
  <2> QED
    BY <2>1, <2>2, <2>3, Zenon
<1>17. CASE KillDaemon
  BY <1>0, <1>1, <1>17 DEF KillDaemon, Event, Cleanup
<1>18. CASE StrayRead
  BY <1>0, <1>18 DEF StrayRead
<1> QED
  BY <1>2, <1>3, <1>4, <1>5, <1>6, <1>7, <1>8, <1>9, <1>10, <1>11, <1>12, <1>13, <1>14,
     <1>15, <1>16, <1>17, <1>18 DEF Next, Daemon, Admin

LEMMA LimitsKept == ASSUME Inv, Next PROVE LimitsOK'
<1> USE DEF LimitsOK
<1>0. TypeOK /\ SystemOK /\ LimitsOK /\ ControlOK
  BY TypeParts DEF Inv
<1>1. CASE UNCHANGED <<cfg, cpu, memory, startCpus, startPages>>
  BY <1>0, <1>1
<1>2. CASE ParseConfig
  <2>1. CASE UNCHANGED cfg
    BY <1>0, <1>2, <2>1 DEF ParseConfig
  <2>2. CASE file.cpuMin # 0 /\ cfg' = Parsed(file)
    <3>1. cfg.cpuMin # 0 /\ cfg.cpuMax # 0
      BY DEF Inv, ConfigInv
    <3>2. cfg' \in Limits
      BY <1>0, <2>2, <3>1, ParsedFacts DEF ControlOK
    <3> QED
      BY <1>0, <1>2, <3>2 DEF ParseConfig
  <2> QED
    BY <1>2, <2>1, <2>2 DEF ParseConfig
<1>3. CASE CheckConfig
  <2>1. Count \in 0 .. NumCpus /\ CmmUsable \in BOOLEAN /\ CpuConfig \in BOOLEAN /\ MemConfig \in BOOLEAN
    BY <1>0, CpuSets, CpuPlugdAssumption DEF CpuConfig, MemConfig
  <2> QED
    BY <1>0, <1>3, <2>1 DEF CheckConfig
<1>4. CASE CheckCmm
  BY <1>0, <1>4 DEF CheckCmm, RecallStart, SystemOK, Inv, GhostsOK
<1>5. CASE Start
  <2>1. /\ cfg' = NoLimits /\ cpu' = FALSE /\ memory' = FALSE /\ startCpus' = 0 /\ startPages' = 0
    BY <1>5 DEF Start
  <2>2. NoLimits \in Limits
    BY DEF NoLimits, Limits, Limit
  <2>3. startCpus' \in 0 .. NumCpus /\ startPages' \in Nat
    BY <2>1, CpuPlugdAssumption
  <2> QED
    BY <2>1, <2>2, <2>3, Zenon
<1> QED
  BY <1>1, <1>2, <1>3, <1>4, <1>5
  DEF Next, Daemon, Admin, SetupHistory, RaiseCpus, LowerCpus, ReloadDaemon, ReadInterval,
      EvalCpuRules, EvalMemRules, StrayRead, Reactivate, AdminCpu, AdminPages, EditFile, Hup,
      KillDaemon, DaemonUnchanged

-----------------------------------------------------------------------------
(* The ring of intervals. *)

\* Where a rule looks for the reading n ago, and where the next one goes
LEMMA SlotFacts ==
  ASSUME RingOK
  PROVE  /\ NextSlot = IF historyCur = historyMax THEN 0 ELSE historyCur + 1
         /\ NextSlot \in 0 .. historyMax
         /\ \A n \in 0 .. historyMax : HistoryIndex(n) \in 0 .. historyMax
         /\ \A n \in 0 .. historyMax : HistoryIndex(n) = historyCur - n \/ HistoryIndex(n) = historyCur - n + historyMax + 1
<1>1. historyMax \in Nat /\ historyCur \in 0 .. historyMax /\ historyMax >= 1
  BY CpuPlugdAssumption DEF RingOK
<1>2. NextSlot = IF historyCur = historyMax THEN 0 ELSE historyCur + 1
  BY <1>1 DEF NextSlot
<1> QED
  BY <1>1, <1>2 DEF HistoryIndex

\* A reading makes its slot the youngest and all others older
LEMMA ReadFacts ==
  ASSUME RingOK, NEW slot \in 0 .. historyMax, Read(slot)
  PROVE  /\ age' \in [0 .. historyMax -> 0 .. Oldest]
         /\ age'[slot] = 0
         /\ \A s \in 0 .. historyMax :
              s # slot => age'[s] = IF age[s] + 1 <= Oldest THEN age[s] + 1 ELSE Oldest
<1>1. Oldest \in Nat /\ DOMAIN age = 0 .. historyMax /\ \A s \in 0 .. historyMax : age[s] \in 0 .. Oldest
  BY CpuPlugdAssumption DEF RingOK, Oldest
<1>2. ASSUME NEW s \in 0 .. historyMax
      PROVE  Min({age[s] + 1, Oldest}) = IF age[s] + 1 <= Oldest THEN age[s] + 1 ELSE Oldest
  <2>1. age[s] + 1 \in Int /\ Oldest \in Int
    BY <1>1
  <2> QED
    BY <2>1, PairFacts
<1>3. age' = [s \in 0 .. historyMax |-> IF s = slot THEN 0 ELSE Min({age[s] + 1, Oldest})]
  BY <1>1 DEF Read
<1>4. \A s \in 0 .. historyMax : age'[s] = IF s = slot THEN 0 ELSE IF age[s] + 1 <= Oldest THEN age[s] + 1 ELSE Oldest
  BY <1>2, <1>3
<1>5. \A s \in 0 .. historyMax : age'[s] \in 0 .. Oldest
  BY <1>1, <1>4
<1> QED
  BY <1>3, <1>4, <1>5

LEMMA RingKept == ASSUME Inv, Next PROVE RingOK'
<1>0. TypeOK /\ RingOK /\ ControlOK /\ RingInv
  BY TypeParts DEF Inv
<1>1. MaxHistory \in Nat /\ Oldest \in Nat
  BY CpuPlugdAssumption DEF Oldest
<1>2. \A m \in Nat : Unread(m) \in [0 .. m -> 0 .. Oldest]
  BY <1>1 DEF Unread
<1>3. CASE UNCHANGED ring
  BY <1>0, <1>3 DEF RingOK
<1>4. CASE ParseConfig
  <2>1. CASE Depth(file) <= MaxHistory /\ historyMax' = Depth(file) /\ historyCur' = 0 /\ age' = Unread(Depth(file))
    <3>1. Depth(file) \in 1 .. MaxHistory /\ Depth(file) \in Nat
      BY <1>0, <1>1, <2>1, DepthFacts DEF ControlOK
    <3> QED
      BY <1>2, <2>1, <3>1 DEF RingOK
  <2>2. CASE reloading /\ Depth(file) = saved.history /\ historyMax' = Depth(file) /\ historyCur' = historyCur /\ age' = age
    BY <1>0, <1>4, <2>2 DEF ParseConfig, RingInv, RingOK
  <2>3. ~reloading => historyCur = 0
    BY <1>0, <1>4 DEF ParseConfig, RingInv
  <2>4. Depth(file) \in Nat
    BY <1>0, DepthFacts DEF ControlOK
  <2> QED
    BY <1>1, <1>3, <1>4, <2>1, <2>2, <2>3, <2>4 DEF ParseConfig
<1>5. CASE SetupHistory
  <2>1. historyCur \in 0 .. historyMax /\ historyMax \in Nat
    BY <1>0, <1>1 DEF RingOK
  <2>2. age' \in [0 .. historyMax -> 0 .. Oldest] /\ historyMax' = historyMax
    BY <1>0, <1>5, <2>1, ReadFacts DEF SetupHistory
  <2>3. historyCur' \in 0 .. historyMax
    BY <1>5, <2>1 DEF SetupHistory
  <2> QED
    BY <1>0, <2>2, <2>3 DEF RingOK
<1>6. CASE CheckCmm
  BY <1>0, <1>1, <1>6 DEF CheckCmm, RingOK
<1>7. CASE ReadInterval
  <2>1. NextSlot \in 0 .. historyMax /\ Read(NextSlot) /\ historyCur' = NextSlot /\ historyMax' = historyMax
    BY <1>0, <1>7, SlotFacts DEF ReadInterval
  <2>2. age' \in [0 .. historyMax -> 0 .. Oldest]
    BY <1>0, <2>1, ReadFacts
  <2> QED
    BY <1>0, <2>1, <2>2 DEF RingOK
<1>8. CASE Start
  <2>1. historyMax' = 1 /\ historyCur' = 0 /\ age' = Unread(1)
    BY <1>8 DEF Start
  <2>2. 1 \in 1 .. MaxHistory /\ 0 \in 0 .. 1 /\ Unread(1) \in [0 .. 1 -> 0 .. Oldest]
    BY <1>1, CpuPlugdAssumption DEF Unread
  <2> QED
    BY <2>1, <2>2, Zenon DEF RingOK
<1> QED
  BY <1>3, <1>4, <1>5, <1>6, <1>7, <1>8
  DEF Next, Daemon, Admin, CheckConfig, RaiseCpus, LowerCpus, ReloadDaemon, EvalCpuRules,
      EvalMemRules, StrayRead, Reactivate, AdminCpu, AdminPages, EditFile, Hup, KillDaemon,
      DaemonUnchanged

\* A reading into the next slot completes the ring
LEMMA ReadCompletes ==
  ASSUME RingOK, RingOK', Holds(historyMax - 1), Read(NextSlot), historyCur' = NextSlot,
         historyMax' = historyMax
  PROVE  Holds(historyMax)'
<1>1. historyMax \in Nat /\ historyCur \in 0 .. historyMax /\ historyMax >= 1
      /\ historyMax <= MaxHistory /\ MaxHistory \in Nat
  BY CpuPlugdAssumption DEF RingOK
<1>2. NextSlot \in 0 .. historyMax /\ NextSlot = IF historyCur = historyMax THEN 0 ELSE historyCur + 1
  BY SlotFacts
<1>3. ASSUME NEW n \in 0 .. historyMax PROVE age'[HistoryIndex(n)'] = n
  <2>1. CASE n = 0
    <3>1. HistoryIndex(n)' = NextSlot
      BY <1>1, <1>2, <2>1 DEF HistoryIndex
    <3> QED
      BY <1>2, <2>1, <3>1, ReadFacts
  <2>2. CASE n # 0
    <3>1. n - 1 \in 0 .. (historyMax - 1) /\ n - 1 \in 0 .. historyMax
      BY <1>1, <2>2
    <3>2. HistoryIndex(n)' = HistoryIndex(n - 1)
      BY <1>1, <1>2, <2>2 DEF HistoryIndex
    <3>3. HistoryIndex(n - 1) \in 0 .. historyMax /\ HistoryIndex(n - 1) # NextSlot
      BY <1>1, <1>2, <3>1 DEF HistoryIndex
    <3>4. age[HistoryIndex(n - 1)] = n - 1
      BY <3>1 DEF Holds
    <3>5. n - 1 + 1 <= Oldest /\ n - 1 + 1 = n
      BY <1>1 DEF Oldest
    <3> QED
      BY <1>2, <3>2, <3>3, <3>4, <3>5, ReadFacts
  <2> QED
    BY <2>1, <2>2
<1> QED
  BY <1>3 DEF Holds

\* An interval of setup_history
LEMMA FillFacts ==
  ASSUME Inv, RingOK', SetupHistory
  PROVE  RingInv'
<1>0. RingOK /\ RingInv
  BY TypeParts DEF Inv
<1>1. /\ historyMax \in Nat /\ historyCur \in 0 .. historyMax /\ historyMax >= 1
      /\ historyMax <= MaxHistory /\ MaxHistory \in Nat /\ historyCur < historyMax
      /\ historyMax' = historyMax
  BY <1>0, CpuPlugdAssumption DEF RingOK, RingInv, SetupHistory
<1>2. ASSUME NEW s \in 0 .. historyCur PROVE age'[s] = historyCur - s
  <2>1. s \in 0 .. historyMax /\ Read(historyCur)
    BY <1>1 DEF SetupHistory
  <2>2. CASE s = historyCur
    BY <1>0, <1>1, <2>1, <2>2, ReadFacts
  <2>3. CASE s # historyCur
    <3>1. age[s] = historyCur - 1 - s
      BY <1>0, <1>1, <2>3 DEF RingInv, SetupHistory
    <3>2. age[s] + 1 = historyCur - s /\ age[s] + 1 <= Oldest
      BY <1>1, <3>1 DEF Oldest
    <3> QED
      BY <1>0, <1>1, <2>1, <2>3, <3>2, ReadFacts
  <2> QED
    BY <2>2, <2>3
<1>3. CASE historyCur + 1 < historyMax /\ historyCur' = historyCur + 1 /\ pc' = pc
  <2>1. pc' = "history" /\ historyCur' < historyMax'
    BY <1>1, <1>3 DEF SetupHistory
  <2>2. \A s \in 0 .. (historyCur' - 1) : age'[s] = historyCur' - 1 - s
    BY <1>1, <1>2, <1>3
  <2> QED
    BY <2>1, <2>2 DEF RingInv
<1>4. CASE ~(historyCur + 1 < historyMax) /\ historyCur' = historyCur /\ pc' \in {"check", "loop"} /\ reloading' = reloading
           /\ (pc' = "check" => reloading)
  <2>1. historyCur = historyMax - 1
    BY <1>1, <1>4
  <2>2. ASSUME NEW n \in 0 .. (historyMax - 1) PROVE age'[HistoryIndex(n)'] = n
    <3>1. HistoryIndex(n)' = historyCur - n /\ historyCur - n \in 0 .. historyCur
      BY <1>1, <1>4, <2>1 DEF HistoryIndex
    <3> QED
      BY <1>1, <1>2, <3>1
  <2>3. Holds(historyMax - 1)'
    BY <1>1, <2>2 DEF Holds
  <2> QED
    BY <1>4, <2>3 DEF RingInv
<1> QED
  BY <1>3, <1>4 DEF SetupHistory

LEMMA RingInvKept == ASSUME Inv, Next, RingOK' PROVE RingInv'
<1>0. RingOK /\ ControlOK /\ RingInv /\ ConfigInv
  BY TypeParts DEF Inv
<1>1. /\ historyMax \in Nat /\ historyCur \in 0 .. historyMax /\ historyMax >= 1
  BY <1>0, CpuPlugdAssumption DEF RingOK
<1>2. ASSUME UNCHANGED <<historyMax, historyCur, age>>
      PROVE  (Holds(historyMax))' = Holds(historyMax) /\ (Holds(historyMax - 1))' = Holds(historyMax - 1)
  BY <1>2 DEF Holds, HistoryIndex
<1>3. CASE UNCHANGED <<pc, historyMax, historyCur, age, reloading, saved>>
  BY <1>0, <1>2, <1>3 DEF RingInv
<1>4. CASE pc' \in {"off", "restore"}
  BY <1>4 DEF RingInv
<1>5. CASE ParseConfig /\ pc' # "restore"
  <2>1. CASE pc' = "history" /\ historyCur' = 0
    <3>1. historyCur' < historyMax'
      BY <2>1, CpuPlugdAssumption DEF RingOK
    <3> QED
      BY <2>1, <3>1 DEF RingInv
  <2>2. CASE pc' = "check" /\ reloading /\ Depth(file) = saved.history /\ historyMax' = Depth(file)
             /\ UNCHANGED <<age, historyCur, reloading>>
    BY <1>0, <1>2, <1>5, <2>2 DEF RingInv, ParseConfig
  <2>3. CASE pc' = "check" /\ ~reloading /\ UNCHANGED <<historyCur, reloading>>
    BY <1>0, <1>5, <2>3 DEF RingInv, ParseConfig
  <2> QED
    BY <1>5, <2>1, <2>2, <2>3 DEF ParseConfig, Cleanup
<1>6. CASE SetupHistory
  BY <1>6, FillFacts
<1>7. CASE (CheckConfig \/ RaiseCpus \/ LowerCpus) /\ pc' # "restore"
  <2>1. /\ pc \in {"check", "raise", "lower"} /\ pc' \in {"raise", "lower", "cmm"}
        /\ UNCHANGED <<historyMax, historyCur, age, reloading, saved>>
    BY <1>7 DEF CheckConfig, RaiseCpus, LowerCpus, Cleanup
  <2> QED
    BY <1>0, <1>2, <2>1 DEF RingInv
<1>8. CASE CheckCmm
  BY <1>0, <1>1, <1>2, <1>8 DEF CheckCmm, RingInv
<1>9. CASE ReloadDaemon
  BY <1>0, <1>2, <1>9 DEF ReloadDaemon, RingInv
<1>10. CASE ReadInterval
  <2>1. Holds(historyMax - 1) /\ Read(NextSlot) /\ historyCur' = NextSlot /\ historyMax' = historyMax /\ pc' = "cpu"
    BY <1>0, <1>10 DEF ReadInterval, RingInv
  <2>2. Holds(historyMax)'
    BY <1>0, <2>1, ReadCompletes
  <2> QED
    BY <2>1, <2>2 DEF RingInv
<1>11. CASE EvalCpuRules
  BY <1>0, <1>2, <1>11 DEF EvalCpuRules, RingInv
<1>12. CASE EvalMemRules
  <2>1. Holds(historyMax) => Holds(historyMax - 1)
    BY <1>1 DEF Holds
  <2> QED
    BY <1>0, <1>2, <1>12, <2>1 DEF EvalMemRules, RingInv
<1>13. CASE Start
  <2>1. pc' = "parse" /\ ~reloading' /\ historyCur' = 0
    BY <1>13 DEF Start
  <2> QED
    BY <2>1 DEF RingInv
<1>14. CASE Reactivate
  BY <1>0, <1>4, <1>14 DEF Reactivate
<1> QED
  BY <1>3, <1>4, <1>5, <1>6, <1>7, <1>8, <1>9, <1>10, <1>11, <1>12, <1>13, <1>14
  DEF Next, Daemon, Admin, StrayRead, AdminCpu, AdminPages, EditFile, Hup, KillDaemon, DaemonUnchanged, Cleanup

\* Only parse_configfile and a new start change the rules, or the depth
LEMMA KeptKept == ASSUME Inv, Next PROVE KeptInv'
<1>0. TypeOK /\ KeptInv /\ ControlOK
  BY TypeParts DEF Inv
<1>1. CASE UNCHANGED <<cfg, historyMax, kept>>
  BY <1>0, <1>1 DEF KeptInv
<1>2. CASE cfg' = Parsed(file) /\ kept' = Missing(file) /\ historyMax' = Depth(file)
  <2>1. ASSUME NEW r \in Rules, r \notin Missing(file) PROVE cfg'.rules[r] = file.rules[r]
    BY <1>2, <2>1 DEF Parsed, Given, Missing
  <2>2. \A r \in Rules : file.rules[r] <= Depth(file)
    BY <1>0, DepthFacts DEF ControlOK
  <2> QED
    BY <1>2, <2>1, <2>2 DEF KeptInv
<1>3. CASE Start
  <2>1. cfg' = NoLimits /\ historyMax' = 1
    BY <1>3 DEF Start
  <2> QED
    BY <2>1 DEF KeptInv, NoLimits
<1> QED
  BY <1>1, <1>2, <1>3
  DEF Next, Daemon, Admin, ParseConfig, SetupHistory, CheckConfig, RaiseCpus, LowerCpus, CheckCmm,
      ReloadDaemon, ReadInterval, EvalCpuRules, EvalMemRules, StrayRead, Reactivate, AdminCpu,
      AdminPages, EditFile, Hup, KillDaemon, DaemonUnchanged

-----------------------------------------------------------------------------
(* The limits. *)

LEMMA GhostsKept == ASSUME Inv, Next PROVE GhostsOK'
<1>0. TypeOK /\ GhostsOK /\ LimitsOK /\ RingOK /\ SystemOK /\ ControlOK
  BY TypeParts DEF Inv
<1>1. CASE UNCHANGED <<saved, found, left, kept>>
  BY <1>0, <1>1 DEF GhostsOK
<1>2. CASE UNCHANGED <<saved, found, kept>> /\ left' = pc
  BY <1>0, <1>2 DEF GhostsOK, ControlOK
<1>6. CASE UNCHANGED <<saved, found, left>> /\ kept' = Missing(file)
  BY <1>0, <1>6 DEF GhostsOK, Missing
<1>3. CASE CheckConfig
  <2>1. Count \in 0 .. NumCpus /\ pages \in Nat /\ CpuConfig \in BOOLEAN /\ MemConfig \in BOOLEAN
    BY <1>0, CpuSets, CpuPlugdAssumption DEF SystemOK, CpuConfig, MemConfig
  <2>2. [cpus |-> Count, pages |-> pages, cpu |-> CpuConfig, memory |-> MemConfig]
          \in [cpus : 0 .. NumCpus, pages : Nat, cpu : BOOLEAN, memory : BOOLEAN]
    BY <2>1
  <2>3. found' = found \/ found' = [cpus |-> Count, pages |-> pages, cpu |-> CpuConfig, memory |-> MemConfig]
    BY <1>3 DEF CheckConfig
  <2>4. UNCHANGED <<saved, kept>> /\ left' \in {pc, left}
    BY <1>3 DEF CheckConfig, Cleanup
  <2> QED
    BY <1>0, <2>2, <2>3, <2>4 DEF GhostsOK, ControlOK
<1>4. CASE ReloadDaemon
  <2>1. startCpus \in 0 .. NumCpus /\ startPages \in Nat /\ historyMax \in Nat
    BY <1>0, CpuPlugdAssumption DEF LimitsOK, RingOK
  <2>2. saved' \in [cpus : 0 .. NumCpus, pages : Nat, history : Nat]
    BY <1>4, <2>1 DEF ReloadDaemon
  <2> QED
    BY <1>0, <1>4, <2>2 DEF ReloadDaemon, GhostsOK
<1>5. CASE Start
  <2>1. saved' = NoTemp /\ found' = Nothing /\ left' = "off" /\ kept' = {}
    BY <1>5 DEF Start
  <2>2. /\ NoTemp \in [cpus : 0 .. NumCpus, pages : Nat, history : Nat]
        /\ Nothing \in [cpus : 0 .. NumCpus, pages : Nat, cpu : BOOLEAN, memory : BOOLEAN]
    BY CpuPlugdAssumption DEF NoTemp, Nothing
  <2> QED
    BY <2>1, <2>2 DEF GhostsOK, Places
<1> QED
  BY <1>1, <1>2, <1>3, <1>4, <1>5, <1>6
  DEF Next, Daemon, Admin, ParseConfig, SetupHistory, RaiseCpus, LowerCpus, CheckCmm,
      ReadInterval, EvalCpuRules, EvalMemRules, StrayRead, Reactivate, AdminCpu, AdminPages, EditFile,
      Hup, KillDaemon, DaemonUnchanged, Cleanup

LEMMA ConfigKept == ASSUME Inv, Next PROVE ConfigInv'
<1>0. TypeOK /\ ConfigInv /\ LimitsOK /\ ControlOK
  BY TypeParts DEF Inv
<1>1. cfg.cpuMin \in Int /\ cfg.cpuMax \in Int /\ cfg.cpuMin # 0 /\ cfg.cpuMax # 0
  BY <1>0 DEF LimitsOK, Limits, Limit, ConfigInv
<1>2. ASSUME UNCHANGED cfg
      PROVE  CpuConfig' = CpuConfig /\ MemConfig' = MemConfig
  BY <1>2 DEF CpuConfig, MemConfig
<1>3. CASE UNCHANGED <<pc, limits, reloading>>
  BY <1>0, <1>2, <1>3 DEF ConfigInv, Checked, Filling
<1>4. CASE UNCHANGED cfg /\ pc' \in {"off", "restore"}
  BY <1>1, <1>4 DEF ConfigInv, Checked, Filling
<1>5. CASE ParseConfig
  <2>1. CASE UNCHANGED cfg /\ pc' = "restore"
    BY <1>4, <2>1
  <2>2. CASE /\ file.cpuMin # 0 /\ cfg' = Parsed(file) /\ UNCHANGED reloading
             /\ pc' = "check" \/ (pc' = "history" /\ reloading)
    <3>1. cfg'.cpuMin # 0 /\ cfg'.cpuMax # 0
      BY <1>0, <1>1, <2>2, ParsedFacts DEF ControlOK, LimitsOK
    <3> QED
      BY <2>2, <3>1 DEF ConfigInv, Checked, Filling
  <2> QED
    BY <1>5, <2>1, <2>2 DEF ParseConfig, Cleanup
<1>6. CASE SetupHistory
  BY <1>0, <1>2, <1>6 DEF SetupHistory, ConfigInv, Checked, Filling
<1>7. CASE CheckConfig
  <2>1. CASE pc' = "restore"
    BY <1>4, <1>7, <2>1 DEF CheckConfig
  <2>2. CASE cpu' = CpuConfig /\ memory' = MemConfig /\ UNCHANGED cfg /\ ~(cfg.cpuMax < cfg.cpuMin /\ cfg.cpuMax # 0)
             /\ pc' = IF CpuConfig THEN "raise" ELSE "cmm"
    BY <1>1, <1>2, <2>2 DEF ConfigInv, Checked, Filling
  <2> QED
    BY <1>7, <2>1, <2>2 DEF CheckConfig, Cleanup
<1>8. CASE (RaiseCpus \/ LowerCpus) /\ pc' # "restore"
  BY <1>0, <1>2, <1>8 DEF RaiseCpus, LowerCpus, Cleanup, ConfigInv, Checked, Filling
<1>9. CASE CheckCmm
  BY <1>0, <1>2, <1>9 DEF CheckCmm, ConfigInv, Checked, Filling
<1>10. CASE ReloadDaemon
  BY <1>0, <1>2, <1>10 DEF ReloadDaemon, ConfigInv, Checked, Filling
<1>11. CASE ReadInterval \/ EvalCpuRules \/ EvalMemRules
  BY <1>0, <1>2, <1>11 DEF ReadInterval, EvalCpuRules, EvalMemRules, ConfigInv, Checked, Filling
<1>12. CASE Start
  <2>1. pc' = "parse" /\ cfg' = NoLimits
    BY <1>12 DEF Start
  <2> QED
    BY <2>1 DEF NoLimits, ConfigInv, Checked, Filling
<1>13. CASE Reactivate
  BY <1>3, <1>4, <1>13 DEF Reactivate
<1>14. CASE (RaiseCpus \/ LowerCpus \/ KillDaemon) /\ pc' = "restore"
  BY <1>4, <1>14 DEF RaiseCpus, LowerCpus, KillDaemon
<1>15. CASE StrayRead
  BY <1>4, <1>15 DEF StrayRead
<1> QED
  BY <1>3, <1>5, <1>6, <1>7, <1>8, <1>9, <1>10, <1>11, <1>12, <1>13, <1>14, <1>15
  DEF Next, Daemon, Admin, AdminCpu, AdminPages, EditFile, Hup, KillDaemon, DaemonUnchanged, Cleanup

\* The CPUs behind check_config, and the end of its loops
LEMMA LowerFacts ==
  ASSUME Inv, LowerCpus, ~touched, SystemOK'
  PROVE  LimitInv'
<1>0. TypeOK /\ SystemOK /\ ControlOK /\ LimitsOK /\ LimitInv /\ ConfigInv
  BY TypeParts DEF Inv
<1>1. /\ cfg.cpuMin \in Int /\ cfg.cpuMax \in Int /\ cfg.cpuMin <= cfg.cpuMax
      /\ 1 <= cfg.cpuMax /\ NumCpus \in Nat /\ scan \in 0 .. NumCpus /\ Cpus \subseteq Nat
      /\ Count \in Nat
  BY <1>0, CpuPlugdAssumption, CpuSets
  DEF LowerCpus, ConfigInv, CpuConfig, LimitsOK, Limits, Limit, ControlOK, Cpus
<1>2. \A c \in online : c < scan => online = {c}
  BY <1>0 DEF LimitInv, LowerCpus
<1>3. CASE online' = Unplugged(scan) /\ scan' = scan + 1 /\ UNCHANGED pc /\ scan < NumCpus
  <2>1. scan \in Cpus
    BY <1>1, <1>3 DEF Cpus
  <2>2. /\ online' \subseteq online /\ online' # {}
        /\ scan \in online' => online' = {scan}
    BY <1>0, <1>3, <2>1, UnpluggedFacts DEF SystemOK
  <2>3. ASSUME NEW c \in online', c < scan + 1 PROVE online' = {c}
    <3>1. c \in online /\ c \in Nat
      BY <1>0, <1>1, <2>2, <2>3 DEF SystemOK
    <3>2. c < scan \/ c = scan
      BY <1>1, <2>3, <3>1
    <3> QED
      BY <1>2, <2>2, <2>3, <3>1, <3>2
  <2> QED
    BY <1>3, <2>3 DEF LimitInv, Checked, Filling, LowerCpus
<1>4. CASE ~(Count > cfg.cpuMax /\ scan < NumCpus) /\ pc' = "cmm" /\ UNCHANGED online /\ ~(Count < cfg.cpuMin)
  <2>1. Count <= cfg.cpuMax
    <3>1. CASE scan = NumCpus
      <4>1. PICK c \in online : c \in Cpus
        BY <1>0 DEF SystemOK
      <4>2. c < scan
        BY <1>1, <3>1, <4>1 DEF Cpus
      <4>3. Count = 1
        BY <1>2, <4>1, <4>2, FS_Singleton DEF Count
      <4> QED
        BY <1>1, <4>3
    <3> QED
      BY <1>1, <1>4, <3>1
  <2>2. Count' = Count /\ cfg' = cfg
    BY <1>4 DEF Count, LowerCpus
  <2> QED
    BY <1>1, <1>4, <2>1, <2>2 DEF LimitInv, Checked, Filling
<1>5. CASE pc' = "restore"
  BY <1>5 DEF LimitInv, Checked, Filling
<1> QED
  BY <1>3, <1>4, <1>5 DEF LowerCpus, Cleanup

LEMMA LimitKept == ASSUME Inv, Next, SystemOK' PROVE LimitInv'
<1>0. TypeOK /\ SystemOK /\ ControlOK /\ LimitsOK /\ LimitInv /\ ConfigInv
  BY TypeParts DEF Inv
<1> SUFFICES ASSUME ~touched' PROVE LimitInv'
  BY DEF LimitInv
<1>1. CASE pc' \in {"off", "parse", "check", "raise", "restore"}
  BY <1>1 DEF LimitInv, Checked, Filling
<1> SUFFICES ASSUME pc' \notin {"off", "parse", "check", "raise", "restore"} PROVE LimitInv'
  BY <1>1
<1>2. /\ cfg.cpuMin \in Int /\ cfg.cpuMax \in Int /\ cfg.cmmMin \in Int /\ cfg.cmmMax \in Int
      /\ Count \in Nat /\ snapshot \in Nat /\ pages \in Nat
  BY <1>0, CpuSets, CpuPlugdAssumption DEF LimitsOK, Limits, Limit, SystemOK, ControlOK
<1>3. ASSUME UNCHANGED online PROVE Count' = Count
  BY <1>3 DEF Count
<1>4. CASE UNCHANGED <<system, pc, scan, limits, reloading, snapshot, touched>>
  BY <1>0, <1>3, <1>4 DEF LimitInv, Checked, Filling
<1>5. CASE ParseConfig
  BY <1>5 DEF ParseConfig, Cleanup, LimitInv, Checked, Filling
<1>6. CASE SetupHistory
  BY <1>0, <1>3, <1>6 DEF SetupHistory, LimitInv, Checked, Filling
<1>7. CASE CheckConfig
  <2>1. pc' = "cmm" /\ ~cpu'
    BY <1>7 DEF CheckConfig, Cleanup
  <2> QED
    BY <2>1 DEF LimitInv, Checked, Filling
<1>8. CASE RaiseCpus
  <2>1. pc' = "lower" /\ scan' = 0 /\ UNCHANGED online
    BY <1>8 DEF RaiseCpus
  <2>2. \A c \in online : ~ (c < 0)
    BY <1>0, CpuPlugdAssumption DEF SystemOK, Cpus
  <2> QED
    BY <2>1, <2>2 DEF LimitInv, Checked, Filling
<1>9. CASE LowerCpus
  BY <1>9, LowerFacts DEF LowerCpus
<1>10. CASE CheckCmm
  <2>1. memory => MemConfig
    BY <1>0, <1>10 DEF ConfigInv, CheckCmm, Checked
  <2>2. memory => cfg.cmmMin <= pages' /\ pages' <= cfg.cmmMax
    BY <1>0, <1>2, <1>10, <2>1, ClampedFacts DEF CheckCmm, LimitsOK
  <2>3. Checked /\ UNCHANGED <<online, limits, touched>> /\ pc' \in {"read", "history"}
    BY <1>10 DEF CheckCmm, Checked
  <2> QED
    BY <1>0, <1>3, <2>2, <2>3 DEF LimitInv
<1>11. CASE ReadInterval
  BY <1>0, <1>3, <1>11 DEF ReadInterval, LimitInv, Checked, Filling
<1>12. CASE EvalCpuRules
  <2>1. Checked /\ pc' = "mem" /\ UNCHANGED <<limits, pages, touched>> /\ pc = "cpu"
    BY <1>12 DEF EvalCpuRules, Checked
  <2>2. cpu => cfg.cpuMin <= Count /\ Count <= cfg.cpuMax /\ snapshot = Count
    BY <1>0, <2>1 DEF LimitInv
  <2>3. cpu => cfg.cpuMin <= Count' /\ Count' <= cfg.cpuMax
    <3>1. IsFiniteSet(online)
      BY <1>0, CpuSets
    <3>2. \A c : c \notin online => Cardinality(online \cup {c}) = Count + 1
      BY <3>1, CardFacts DEF Count
    <3>3. \A c : c \in online => Cardinality(online \ {c}) = Count - 1
      BY <3>1, CardFacts DEF Count
    <3>4. CASE online' = online
      BY <1>3, <2>2, <3>4
    <3>5. ASSUME NEW c \in configured \ online, online' = online \cup {c}, snapshot + 1 <= cfg.cpuMax, cpu
          PROVE  cfg.cpuMin <= Count' /\ Count' <= cfg.cpuMax
      <4>1. Count' = Count + 1
        BY <3>2, <3>5 DEF Count
      <4> QED
        BY <1>2, <2>2, <3>5, <4>1
    <3>6. ASSUME NEW c \in online, online' = online \ {c}, snapshot > cfg.cpuMin, cpu
          PROVE  cfg.cpuMin <= Count' /\ Count' <= cfg.cpuMax
      <4>1. Count' = Count - 1
        BY <3>3, <3>6 DEF Count
      <4> QED
        BY <1>2, <2>2, <3>6, <4>1
    <3> QED
      BY <1>0, <1>12, <3>4, <3>5, <3>6, EvalFacts
  <2> QED
    BY <1>0, <2>1, <2>3 DEF LimitInv, Checked, Filling
<1>13. CASE EvalMemRules
  <2>1. Checked /\ pc' = "loop" /\ UNCHANGED <<limits, online, touched>> /\ pc = "mem"
    BY <1>13 DEF EvalMemRules, Checked
  <2>2. memory => MemConfig
    BY <1>0, <2>1 DEF ConfigInv
  <2>3. memory => cfg.cmmMin <= pages' /\ pages' <= cfg.cmmMax
    <3>1. pages' = pages \/ \E n \in Int : pages' = Clamped(n)
      BY <1>0, <1>13, BalloonFacts
    <3> QED
      BY <1>0, <2>1, <2>2, <3>1, ClampedFacts DEF LimitInv, LimitsOK
  <2> QED
    BY <1>0, <1>3, <2>1, <2>3 DEF LimitInv, Checked, Filling
<1> QED
  BY <1>4, <1>5, <1>6, <1>7, <1>8, <1>9, <1>10, <1>11, <1>12, <1>13
  DEF Next, Daemon, Admin, ReloadDaemon, StrayRead, Reactivate, AdminCpu, AdminPages, EditFile, Hup,
      KillDaemon, DaemonUnchanged, Cleanup, Start

-----------------------------------------------------------------------------
(* The end of the daemon. *)

LEMMA CountKept == ASSUME UNCHANGED <<online, configured>>
                   PROVE  Count' = Count /\ Cardinality(configured') = Cardinality(configured)
  BY DEF Count

\* The first step of reactivate_cpus, and every further one
LEMMA CleanupFacts ==
  ASSUME TypeOK, SystemOK', UNCHANGED <<online, configured, startCpus>>, scan' = 0
  PROVE  Reactivated'
<1>1. Count \in Int /\ startCpus \in Int
  BY CpuSets DEF TypeOK
<1>2. \A c \in configured' : c \in online' \/ ~(c < 0)
  BY DEF SystemOK, Cpus
<1>3. \A c \in online' : ~(c < 0)
  BY DEF SystemOK, Cpus
<1>4. Count' = Count
  BY CountKept
<1> QED
  BY <1>1, <1>2, <1>3, <1>4 DEF Reactivated

LEMMA ReactivateFacts ==
  ASSUME TypeOK, SystemOK', Reactivate, ~Restored, Reactivated
  PROVE  Reactivated'
<1>0. SystemOK /\ ControlOK /\ LimitsOK
  BY TypeParts
<1>1. /\ scan \in Cpus /\ scan \in Nat /\ scan' = scan + 1 /\ UNCHANGED <<configured, startCpus>>
      /\ startCpus \in Int /\ Count \in Int /\ Count # startCpus /\ Cpus \subseteq Nat
  BY <1>0, CpuSets, CpuPlugdAssumption DEF Restored, ControlOK, Cpus, LimitsOK, Reactivate
<1>2. CASE Count > startCpus
  <2>1. online' = Unplugged(scan) /\ \A c \in online : c < scan => online = {c}
    BY <1>1, <1>2 DEF Reactivated, Reactivate
  <2>2. /\ online' \subseteq online /\ online' # {}
        /\ scan \in online' => online' = {scan}
        /\ Count' \in {Count, Count - 1}
    BY <1>0, <1>1, <2>1, UnpluggedFacts DEF SystemOK, Count
  <2>3. ASSUME NEW c \in online', c < scan + 1 PROVE online' = {c}
    <3>1. c \in online /\ c \in Nat
      BY <1>0, <1>1, <2>2 DEF SystemOK
    <3>2. c < scan \/ c = scan
      BY <1>1, <2>3, <3>1
    <3> QED
      BY <2>1, <2>2, <3>1, <3>2
  <2> QED
    BY <1>1, <1>2, <2>2, <2>3 DEF Reactivated
<1>3. CASE Count < startCpus
  <2>1. online' = Plugged(scan) /\ \A c \in configured : c < scan => c \in online
    BY <1>1, <1>3 DEF Reactivated, Reactivate
  <2>2. /\ online \subseteq online' /\ (scan \in configured => scan \in online')
        /\ Count' \in {Count, Count + 1}
    BY <1>0, <1>1, <2>1, PluggedFacts DEF SystemOK, Count
  <2>3. ASSUME NEW c \in configured', c < scan + 1 PROVE c \in online'
    <3>1. c \in configured /\ c \in Nat
      BY <1>0, <1>1 DEF SystemOK
    <3>2. c < scan \/ c = scan
      BY <1>1, <2>3, <3>1
    <3> QED
      BY <2>1, <2>2, <3>1, <3>2
  <2> QED
    BY <1>1, <1>3, <2>2, <2>3 DEF Reactivated
<1> QED
  BY <1>1, <1>2, <1>3

\* The last one: as many CPUs are on as the daemon found
LEMMA RestoredFacts ==
  ASSUME TypeOK, Reactivated, Restored, 1 <= startCpus, startCpus <= Cardinality(configured)
  PROVE  Count = startCpus
<1>0. SystemOK /\ ControlOK /\ LimitsOK
  BY TypeParts
<1>1. /\ startCpus \in Int /\ Count \in Int /\ Cardinality(configured) \in Int
      /\ configured \subseteq Cpus /\ online \subseteq configured /\ online # {}
  BY <1>0, CpuSets DEF LimitsOK, SystemOK
<1>2. CASE scan = NumCpus
  <2>1. \A c \in Cpus : c < scan
    BY <1>2, CpuPlugdAssumption DEF Cpus
  <2>2. ~ (Count < startCpus /\ \A c \in configured : c < scan => c \in online)
    <3> SUFFICES ASSUME Count < startCpus, \A c \in configured : c < scan => c \in online PROVE FALSE
      OBVIOUS
    <3>1. online = configured
      BY <1>1, <2>1
    <3> QED
      BY <1>1, <3>1 DEF Count
  <2>3. ~ (Count > startCpus /\ \A c \in online : c < scan => online = {c})
    <3> SUFFICES ASSUME Count > startCpus, \A c \in online : c < scan => online = {c} PROVE FALSE
      OBVIOUS
    <3>1. PICK c \in online : online = {c}
      BY <1>1, <2>1
    <3> QED
      BY <1>1, <3>1, FS_Singleton DEF Count
  <2> QED
    BY <2>2, <2>3 DEF Reactivated
<1> QED
  BY <1>1, <1>2 DEF Restored

LEMMA StartKept == ASSUME Inv, Next, SystemOK' PROVE StartInv'
<1>0. TypeOK /\ SystemOK /\ ControlOK /\ LimitsOK /\ StartInv /\ ConfigInv /\ GhostsOK
  BY TypeParts DEF Inv
<1>1. CASE Start
  <2>1. found' = Nothing /\ pc' = "parse" /\ ~reloading' /\ left' = "off"
    BY <1>1 DEF Start
  <2>2. ~found'.cpu /\ ~found'.memory
    BY <2>1 DEF Nothing
  <2> QED
    BY <2>1, <2>2 DEF StartInv, Recalls, Settled, Checking
<1>2. CASE UNCHANGED <<pc, reloading, found, left>> /\ touched'
  BY <1>0, <1>2 DEF StartInv
<1>3. CASE UNCHANGED <<system, pc, scan, startCpus, startPages, memory, reloading, saved, ghosts>>
  BY <1>0, <1>3, CountKept DEF StartInv, Recalls, Reactivated
<1>4. CASE Cleanup /\ UNCHANGED <<system, startCpus, startPages, reloading, saved, found, touched>> /\ Running
  <2>1. Reactivated'
    BY <1>0, <1>4, CleanupFacts DEF Cleanup
  <2> QED
    BY <1>0, <1>4, <2>1 DEF StartInv, Recalls, Cleanup, Settled, Checking
<1>5. CASE ParseConfig /\ pc' # "restore"
  BY <1>0, <1>5 DEF ParseConfig, Cleanup, StartInv, Recalls, Settled, Checking
<1>6. CASE SetupHistory
  BY <1>0, <1>6 DEF SetupHistory, StartInv, Recalls, Settled, Checking
<1>7. CASE CheckConfig
  <2>1. CASE UNCHANGED <<startCpus, startPages, found>> /\ Cleanup
    BY <1>4, <1>7, <2>1 DEF CheckConfig
  <2>2. CASE reloading /\ UNCHANGED found
    <3>1. CASE pc' = "restore"
      BY <1>4, <1>7, <2>2, <3>1 DEF CheckConfig
    <3>2. CASE pc' # "restore"
      BY <1>0, <1>7, <2>2, <3>2 DEF CheckConfig, Cleanup, StartInv, Recalls, Settled, Checking
    <3> QED
      BY <3>1, <3>2
  <2>3. CASE ~reloading /\ cpu' = CpuConfig /\ memory' = MemConfig /\ (pc' = "restore" => ~CpuConfig /\ ~MemConfig)
             /\ startCpus' = (IF CpuConfig THEN Count ELSE startCpus)
             /\ found' = [cpus |-> Count, pages |-> pages, cpu |-> CpuConfig, memory |-> MemConfig]
    <3>1. 1 <= Count /\ Count <= Cardinality(configured)
      BY <1>0, CpuSets
    <3>2. /\ found'.cpus = Count /\ found'.pages = pages /\ found'.cpu = CpuConfig /\ found'.memory = MemConfig
      BY <2>3
    <3>3. UNCHANGED <<configured, pages, reloading>> /\ pc' \in {"restore", "raise", "cmm"}
          /\ (pc' = "restore" => left' = "check") /\ (pc' # "restore" => left' = left)
      BY <1>7 DEF CheckConfig, Cleanup
    <3>4. CASE pc' = "restore"
      BY <1>0, <1>7, <2>3, <3>2, <3>3, <3>4 DEF CheckConfig, StartInv, Recalls, Settled, Checking
    <3>5. CASE pc' # "restore"
      BY <1>0, <1>7, <2>3, <3>1, <3>2, <3>3, <3>5 DEF CheckConfig, StartInv, Recalls, Settled, Checking
    <3> QED
      BY <3>4, <3>5
  <2> QED
    BY <1>7, <2>1, <2>2, <2>3 DEF CheckConfig, Cleanup
<1>8. CASE RaiseCpus \/ (LowerCpus /\ pc' # "restore")
  BY <1>0, <1>8 DEF RaiseCpus, LowerCpus, Cleanup, StartInv, Recalls, Settled, Checking
<1>9. CASE LowerCpus /\ pc' = "restore"
  BY <1>0, <1>4, <1>9 DEF LowerCpus
<1>10. CASE CheckCmm
  BY <1>0, <1>10 DEF CheckCmm, RecallStart, StartInv, Recalls, Settled, Checking
<1>11. CASE ReloadDaemon
  BY <1>0, <1>11 DEF ReloadDaemon, StartInv, Recalls, Settled, Checking
<1>12. CASE ReadInterval \/ EvalCpuRules \/ EvalMemRules
  BY <1>0, <1>12 DEF ReadInterval, EvalCpuRules, EvalMemRules, StartInv, Recalls, Settled, Checking
<1>13. CASE Reactivate
  <2>1. CASE Restored
    BY <1>0, <1>13, <2>1 DEF Reactivate, StartInv, Recalls, Settled, Checking
  <2>2. CASE ~Restored
    <3>1. Reactivated => Reactivated'
      BY <1>0, <1>13, <2>2, ReactivateFacts
    <3> QED
      BY <1>0, <1>13, <2>2, <3>1 DEF Reactivate, StartInv, Recalls, Settled, Checking
  <2> QED
    BY <2>1, <2>2
<1>14. CASE ParseConfig /\ pc' = "restore"
  BY <1>4, <1>14 DEF ParseConfig
<1>15. CASE KillDaemon
  BY <1>4, <1>15 DEF KillDaemon
<1>16. CASE StrayRead
  BY <1>0, <1>16, CountKept DEF StrayRead, StartInv, Recalls, Settled, Checking
<1> QED
  BY <1>1, <1>2, <1>3, <1>5, <1>6, <1>7, <1>8, <1>9, <1>10, <1>11, <1>12, <1>13, <1>14, <1>15, <1>16
  DEF Next, Daemon, Admin, AdminCpu, AdminPages, EditFile, Hup, DaemonUnchanged

LEMMA RestoredKept == ASSUME Inv, Next PROVE RestoredAtExit'
<1>0. TypeOK /\ StartInv /\ GhostsOK /\ RestoredAtExit
  BY DEF Inv
<1>1. CASE pc' # "off" \/ touched'
  BY <1>1 DEF RestoredAtExit
<1>2. CASE UNCHANGED <<system, pc, memory, reloading, ghosts>>
  BY <1>0, <1>2, CountKept DEF RestoredAtExit
<1>3. CASE Reactivate /\ Restored /\ ~touched
  <2>1. CASE left \in Settled
    <3>1. /\ Recalls(startCpus, startPages) /\ (found.cpu => Reactivated)
          /\ found.cpu => 1 <= found.cpus /\ found.cpus <= Cardinality(configured)
      BY <1>0, <1>3, <2>1 DEF StartInv, Reactivate
    <3>2. found.cpu => Count = found.cpus
      BY <1>0, <1>3, <3>1, RestoredFacts DEF Recalls
    <3>3. UNCHANGED <<online, configured, memory, found>> /\ pages' = IF memory THEN startPages ELSE pages
      BY <1>3 DEF Reactivate
    <3> QED
      BY <3>1, <3>2, <3>3, CountKept DEF RestoredAtExit, Recalls
  <2>2. CASE left \in Checking
    <3>1. ~reloading /\ found.cpu => /\ startCpus = found.cpus /\ Reactivated
                                    /\ 1 <= found.cpus /\ found.cpus <= Cardinality(configured)
      BY <1>0, <1>3, <2>2 DEF StartInv, Reactivate
    <3>2. ~reloading /\ found.cpu => Count = found.cpus
      BY <1>0, <1>3, <3>1, RestoredFacts
    <3>3. UNCHANGED <<online, configured, reloading, found, left>>
      BY <1>3 DEF Reactivate
    <3> QED
      BY <2>2, <3>2, <3>3, CountKept DEF RestoredAtExit, Checking
  <2>3. CASE left = "off"
    BY <1>3, <2>3 DEF RestoredAtExit, Reactivate
  <2> QED
    BY <1>0, <2>1, <2>2, <2>3 DEF StartInv, GhostsOK, Places, Settled, Checking
<1>4. CASE StrayRead
  <2>1. Running /\ left' = left
    BY <1>4 DEF StrayRead, Evaluated
  <2> QED
    BY <1>0, <2>1 DEF StartInv, RestoredAtExit
<1> QED
  BY <1>1, <1>2, <1>3, <1>4
  DEF Next, Daemon, Admin, ParseConfig, SetupHistory, CheckConfig, RaiseCpus, LowerCpus, CheckCmm,
      ReloadDaemon, ReadInterval, EvalCpuRules, EvalMemRules, Reactivate, AdminCpu, AdminPages,
      EditFile, Hup, Start, KillDaemon, DaemonUnchanged, Cleanup

-----------------------------------------------------------------------------
(* Theorems. *)

LEMMA InitInv == Init => Inv
<1> SUFFICES ASSUME Init PROVE Inv
  OBVIOUS
<1>1. /\ configured \in {Cpus \ s : s \in Standby} /\ online \in (SUBSET configured) \ {{}}
      /\ pages \in Pages /\ file \in Files /\ events = 0
      /\ pc = "off" /\ scan = 0 /\ cfg = NoLimits /\ startCpus = 0 /\ startPages = 0
      /\ historyMax = 1 /\ historyCur = 0 /\ age = Unread(1)
      /\ saved = NoTemp /\ snapshot = 0 /\ match = {} /\ found = Nothing /\ left = "off" /\ kept = {}
  BY Zenon DEF Init
<1>2. /\ cpu \in BOOLEAN /\ memory \in BOOLEAN /\ newline \in BOOLEAN /\ reloading \in BOOLEAN
      /\ pending \in BOOLEAN /\ touched \in BOOLEAN
  BY Zenon DEF Init
<1>3. SystemOK /\ RingOK
  BY <1>1, CpuPlugdAssumption DEF SystemOK, RingOK, Unread, Oldest
<1>4. ControlOK /\ LimitsOK
  BY <1>1, <1>2, CpuPlugdAssumption DEF ControlOK, Places, LimitsOK, Limits, Limit, NoLimits
<1>5. GhostsOK
  BY <1>1, CpuPlugdAssumption DEF GhostsOK, NoTemp, Nothing, Places
<1>6. ConfigInv /\ LimitInv /\ RingInv /\ KeptInv
  BY <1>1 DEF ConfigInv, LimitInv, RingInv, KeptInv, NoLimits, Checked, Filling
<1>7. StartInv /\ RestoredAtExit
  <2>1. pc = "off" /\ left = "off" /\ reloading = FALSE
    BY DEF Init
  <2>2. ~found.cpu /\ ~found.memory
    BY <1>1 DEF Nothing
  <2>3. StartInv
    BY <2>1, <2>2 DEF StartInv, Settled, Checking
  <2> QED
    BY <2>1, <2>3 DEF RestoredAtExit
<1> QED
  BY <1>3, <1>4, <1>5, <1>6, <1>7, TypeParts DEF Inv, GhostsOK

LEMMA NextInv == Inv /\ [Next]_vars => Inv'
<1> SUFFICES ASSUME Inv, [Next]_vars PROVE Inv'
  OBVIOUS
<1>1. CASE UNCHANGED vars
  <2> USE DEF vars, Inv
  <2>1. TypeOK' /\ GhostsOK'
    BY <1>1 DEF TypeOK, GhostsOK
  <2>2. ConfigInv' /\ RingInv' /\ KeptInv'
    BY <1>1 DEF ConfigInv, CpuConfig, MemConfig, RingInv, KeptInv, Checked, Filling, Holds, HistoryIndex
  <2>3. LimitInv' /\ RestoredAtExit'
    BY <1>1 DEF LimitInv, RestoredAtExit, Checked, Filling, Count
  <2>4. StartInv'
    BY <1>1 DEF StartInv, Recalls, Reactivated, Count
  <2> QED
    BY <2>1, <2>2, <2>3, <2>4
<1>2. CASE Next
  <2>1. SystemOK' /\ ControlOK' /\ LimitsOK' /\ RingOK'
    BY <1>2, SystemKept, ControlKept, LimitsKept, RingKept
  <2>2. GhostsOK'
    BY <1>2, GhostsKept
  <2>3. TypeOK'
    BY <2>1, <2>2 DEF TypeOK, SystemOK, ControlOK, LimitsOK, RingOK, GhostsOK, Places
  <2> QED
    BY <1>2, <2>1, <2>2, <2>3, ConfigKept, LimitKept, RingInvKept, KeptKept, StartKept, RestoredKept DEF Inv
<1> QED
  BY <1>1, <1>2

\* All parts of the invariant hold in every state of the daemon.
THEOREM Invariant == Spec => []Inv
  BY InitInv, NextInv, PTL DEF Spec

\* The number of CPUs and the size of the balloon stay between the limits of
\* the configuration that is in force from the end of check_config on, through
\* rules, reloads and failed reloads, as long as nobody else interferes.
THEOREM LimitsHold == Spec => []WithinLimits
<1>1. Inv => WithinLimits
  BY DEF Inv, LimitInv, WithinLimits, CpuLimits, CmmLimits, Checked
<1> QED
  BY <1>1, Invariant, PTL

\* A rule of the configuration file last read that asks for the value n intervals
\* ago gets the one that was read exactly n readings ago, for every depth, and
\* after a reload that changes it.  A rule that this file does not have, but one
\* before it had, does so as far as the ring now reaches.
THEOREM RingExact == Spec => []HistoryExact
<1>1. Inv => HistoryExact
  <2> SUFFICES ASSUME Inv, pc \in {"cpu", "mem"}
               PROVE  /\ age[HistoryIndex(0)] = 0 /\ age[HistoryIndex(1)] = 1
                      /\ \A r \in Evaluated : \A n \in 0 .. cfg.rules[r] :
                           r \notin kept \/ n <= historyMax => age[HistoryIndex(n)] = n
    BY DEF HistoryExact
  <2>1. historyMax \in Nat /\ historyMax >= 1 /\ cfg.rules \in [Rules -> Limit]
    BY TypeParts, CpuPlugdAssumption DEF Inv, RingOK, LimitsOK, Limits
  <2>2. \A n \in 0 .. historyMax : age[HistoryIndex(n)] = n
    BY DEF Inv, RingInv, Holds
  <2>3. ASSUME NEW r \in Evaluated, NEW n \in 0 .. cfg.rules[r], r \notin kept \/ n <= historyMax
        PROVE  age[HistoryIndex(n)] = n
    <3>1. r \in Rules
      BY DEF Evaluated, Rules
    <3>2. cfg.rules[r] \in Int /\ (r \in kept \/ cfg.rules[r] <= historyMax)
      BY <2>1, <3>1 DEF Inv, KeptInv, Limit
    <3>3. n \in 0 .. historyMax
      BY <2>1, <2>3, <3>2
    <3> QED
      BY <2>2, <3>3
  <2> QED
    BY <2>1, <2>2, <2>3
<1> QED
  BY <1>1, Invariant, PTL

\* A daemon that cleans up restores the CPUs and the pages that it found, unless
\* it ends in the middle of check_config: there the CPUs only, and those not in
\* a reload.
THEOREM StateRestored == Spec => []RestoredAtExit
<1>1. Inv => RestoredAtExit
  BY DEF Inv
<1> QED
  BY <1>1, Invariant, PTL

\* What eval_cpu_rules decides from a snapshot that is out of date crosses a
\* limit only if somebody else moved the number of CPUs towards it.
THEOREM StaleSnapshot == Spec => NoOvershoot
<1> DEFINE Safe == EvalCpuRules /\ online' # online =>
                     \/ Count' < Count /\ (Count' >= cfg.cpuMin \/ Count < snapshot)
                     \/ Count' > Count /\ (Count' <= cfg.cpuMax \/ Count > snapshot)
<1>1. Inv /\ [Next]_vars => [Safe]_vars
  <2> SUFFICES ASSUME Inv, EvalCpuRules, online' # online
               PROVE  \/ Count' < Count /\ (Count' >= cfg.cpuMin \/ Count < snapshot)
                      \/ Count' > Count /\ (Count' <= cfg.cpuMax \/ Count > snapshot)
    OBVIOUS
  <2>1. TypeOK /\ LimitsOK /\ ControlOK
    BY TypeParts DEF Inv
  <2>2. /\ cfg.cpuMin \in Int /\ cfg.cpuMax \in Int /\ Count \in Nat /\ snapshot \in Int /\ IsFiniteSet(online)
    BY <2>1, CpuSets DEF LimitsOK, Limits, Limit, ControlOK
  <2>3. ASSUME NEW c \in configured \ online, online' = online \cup {c}, snapshot + 1 <= cfg.cpuMax
        PROVE  Count' > Count /\ (Count' <= cfg.cpuMax \/ Count > snapshot)
    <3>1. Count' = Count + 1
      BY <2>2, <2>3, CardFacts DEF Count
    <3> QED
      BY <2>2, <2>3, <3>1
  <2>4. ASSUME NEW c \in online, online' = online \ {c}, snapshot > cfg.cpuMin
        PROVE  Count' < Count /\ (Count' >= cfg.cpuMin \/ Count < snapshot)
    <3>1. Count' = Count - 1
      BY <2>2, <2>4, CardFacts DEF Count
    <3> QED
      BY <2>2, <2>4, <3>1
  <2> QED
    BY <2>1, <2>3, <2>4, EvalFacts
<1> QED
  BY <1>1, Invariant, PTL DEF Spec, NoOvershoot
=============================================================================
