------------------------------ MODULE CpuPlugd ------------------------------
(***************************************************************************)
(* cpuplugd: the daemon that switches CPUs on and off and moves memory in  *)
(* and out of the CMM balloon by rules.  It reads its configuration,       *)
(* brings the system between the configured limits, then reads the state   *)
(* of the system once per interval into a ring of intervals and acts on    *)
(* it.  SIGHUP makes it read the configuration again, SIGTERM makes it     *)
(* restore what it found when it was started.  Meanwhile administrators    *)
(* switch CPUs, set the balloon and edit the file.                         *)
(* What the rules compute is not modelled: each evaluation picks a verdict.*)
(***************************************************************************)
EXTENDS Integers, FiniteSets, FiniteSetsExt

CONSTANTS NumCpus,      \* get_numcpus()
          Files,        \* contents the configuration file can have
          MaxHistory,   \* MAX_HISTORY
          CmmUsable,    \* z/VM, and /proc/sys/vm/cmm_pages is there
          Standby,      \* sets of CPUs that can be deconfigured at first
          Matches,      \* combinations of rules that can match, "fpe" for a trap
          Pages,        \* sizes an administrator gives the balloon
          Steps,        \* values the terms cmm_inc and cmm_dec can have
          MaxEvents     \* bound: events from outside

Cpus == 0 .. (NumCpus - 1)
CpuRules == {"hotplug", "hotunplug"}
MemRules == {"memplug", "memunplug", "cmm_inc", "cmm_dec"}
Rules == CpuRules \cup MemRules

\* -1: not set.  A rule is the largest history index in it
Limit == Nat \cup {-1}
Limits == [cpuMin : Limit, cpuMax : Limit, cmmMin : Limit, cmmMax : Limit,
           rules : [Rules -> Limit]]

\* A file has the fields of Limits, and firstVar: a rule uses the first
\* variable that the file defines
ASSUME CpuPlugdAssumption ==
  /\ NumCpus \in Nat \ {0} /\ MaxHistory \in Nat \ {0} /\ CmmUsable \in BOOLEAN
  /\ Matches \subseteq SUBSET {"plug", "unplug", "fpe"} /\ {} \in Matches
  /\ MaxEvents \in Nat /\ Pages \subseteq Nat /\ Steps \subseteq Int
  /\ \A f \in Files : /\ {f.cpuMin, f.cpuMax, f.cmmMin, f.cmmMax} \subseteq Limit
                      /\ f.rules \in [Rules -> Limit] /\ f.firstVar \in BOOLEAN

VARIABLES
  online, configured,  \* CPUs switched on, CPUs that can be
  pages,               \* /proc/sys/vm/cmm_pages
  file,                \* the configuration file
  events,              \* events from outside so far
  pc, scan,            \* where the daemon is, and cpuid of the loop it is in
  cfg,                 \* cfg
  cpu, memory,         \* cpu, memory
  startCpus, startPages,   \* num_cpu_start, cmm_pagesize_start
  historyMax, historyCur,  \* history_max, history_current
  age,                 \* how many readings ago each slot was filled
  newline,             \* varinfo[0] = '\n'
  reloading, saved,    \* in reload_daemon, and its temp_ variables
  pending,             \* reload_pending
  snapshot,            \* onumcpus of the current interval
  match,               \* the rules to be evaluated next that match, and "fpe" if one traps
  found,               \* history variable: what the daemon found at its start
  left,                \* history variable: where it was when it began to end
  touched,             \* history variable: an administrator interfered since
  kept                 \* history variable: rules that the file last read does not have

system == <<online, configured, pages>>
outside == <<file, events>>
limits == <<cfg, cpu, memory>>
ring == <<historyMax, historyCur, age>>
start == <<startCpus, startPages>>
reload == <<reloading, saved, pending>>
ghosts == <<found, left, touched, kept>>
vars == <<system, outside, pc, scan, limits, start, ring, newline, reload,
          snapshot, match, ghosts>>

Count == Cardinality(online)
Running == pc \notin {"off", "restore"}
InLoop == pc \in {"loop", "read", "cpu", "mem"}

NoLimits == [cpuMin |-> -1, cpuMax |-> -1, cmmMin |-> -1, cmmMax |-> -1,
             rules |-> [r \in Rules |-> -1]]
Nothing == [cpus |-> 0, pages |-> 0, cpu |-> FALSE, memory |-> FALSE]
NoTemp == [cpus |-> 0, pages |-> 0, history |-> 0]
Oldest == MaxHistory + 1       \* bound: also a slot that was never filled
Unread(max) == [s \in 0 .. max |-> Oldest]

Init ==
  /\ configured \in {Cpus \ s : s \in Standby} /\ online \in (SUBSET configured) \ {{}}
  /\ pages \in Pages /\ file \in Files /\ events = 0
  /\ pc = "off" /\ scan = 0 /\ cfg = NoLimits /\ cpu = FALSE /\ memory = FALSE
  /\ startCpus = 0 /\ startPages = 0
  /\ historyMax = 1 /\ historyCur = 0 /\ age = Unread(1) /\ newline = TRUE
  /\ reloading = FALSE /\ saved = NoTemp /\ pending = FALSE /\ snapshot = 0 /\ match = {}
  /\ found = Nothing /\ left = "off" /\ touched = FALSE /\ kept = {}

-----------------------------------------------------------------------------
(* The kernel, and the administrators *)

\* hotplug: a CPU that is not configured stays off
Plugged(c) == IF c \in configured THEN online \cup {c} ELSE online

\* hotunplug: the kernel keeps the last CPU
Unplugged(c) == IF online = {c} THEN online ELSE online \ {c}

Event == events < MaxEvents /\ events' = events + 1
DaemonUnchanged ==
  UNCHANGED <<pc, scan, limits, start, ring, newline, reloading, saved, snapshot, match, found, left, kept>>

AdminCpu(c) ==
  /\ Event /\ touched' = TRUE
  /\ \/ c \in configured \ online /\ online' = Plugged(c) /\ UNCHANGED configured
     \/ c \in online /\ online' = Unplugged(c) /\ UNCHANGED configured
     \/ c \in configured \ online /\ configured' = configured \ {c} /\ UNCHANGED online
     \/ c \notin configured /\ configured' = configured \cup {c} /\ UNCHANGED online
  /\ DaemonUnchanged /\ UNCHANGED <<pages, file, pending>>

AdminPages(n) ==
  /\ Event /\ n # pages /\ touched' = TRUE /\ pages' = n
  /\ DaemonUnchanged /\ UNCHANGED <<online, configured, file, pending>>

EditFile(f) ==
  /\ Event /\ f # file /\ file' = f
  /\ DaemonUnchanged /\ UNCHANGED <<system, pending, touched>>

\* reload_handler
Hup ==
  /\ Running /\ Event /\ pending' = TRUE
  /\ DaemonUnchanged /\ UNCHANGED <<system, file, touched>>

-----------------------------------------------------------------------------
(* Reading the configuration *)

\* get_var_rvalue looks for a name between a newline and an equals sign: the
\* first variable is only found if varinfo starts with a newline
Found(f) == newline \/ ~f.firstVar

\* What a pass over the file leaves in cfg: a setting or a rule that is not in
\* the file stays as it was, the indices in the rule included
Given(new, old) == IF new = -1 THEN old ELSE new
Parsed(f) ==
  [cpuMin |-> Given(f.cpuMin, cfg.cpuMin),
   cpuMax |-> IF f.cpuMax = 0 THEN NumCpus ELSE Given(f.cpuMax, cfg.cpuMax),
   cmmMin |-> Given(f.cmmMin, cfg.cmmMin), cmmMax |-> Given(f.cmmMax, cfg.cmmMax),
   rules |-> [r \in Rules |-> Given(f.rules[r], cfg.rules[r])]]

Missing(f) == {r \in Rules : f.rules[r] = -1}

\* And in history_max, which only the rules in the file raise
Depth(f) == Max({1} \cup {f.rules[r] : r \in Rules})

\* clean_up and kill_daemon, up to the loop of reactivate_cpus
Cleanup == pc' = "restore" /\ scan' = 0 /\ left' = pc

\* main, up to parse_configfile
Start ==
  /\ pc = "off" /\ events < MaxEvents
  /\ pc' = "parse" /\ scan' = 0 /\ cfg' = NoLimits /\ cpu' = FALSE /\ memory' = FALSE
  /\ startCpus' = 0 /\ startPages' = 0 /\ historyMax' = 1 /\ historyCur' = 0
  /\ age' = Unread(1) /\ newline' = TRUE /\ snapshot' = 0 /\ match' = {}
  /\ reloading' = FALSE /\ saved' = NoTemp /\ pending' = FALSE
  /\ found' = Nothing /\ left' = "off" /\ touched' = FALSE /\ kept' = {}
  /\ events' = events + 1
  /\ UNCHANGED <<system, file>>

ParseConfig ==
  /\ pc = "parse"
  /\ IF ~Found(file) \/ file.cpuMin = 0 \/ Depth(file) > MaxHistory
     THEN Cleanup /\ UNCHANGED <<cfg, ring, kept>>
     ELSE /\ cfg' = Parsed(file) /\ kept' = Missing(file)
          /\ historyMax' = Depth(file) /\ UNCHANGED <<scan, left>>
          /\ IF reloading /\ Depth(file) # saved.history
             THEN historyCur' = 0 /\ age' = Unread(Depth(file)) /\ pc' = "history"
             ELSE /\ pc' = "check" /\ UNCHANGED historyCur
                  /\ age' = IF reloading THEN age ELSE Unread(Depth(file))
  /\ UNCHANGED <<system, outside, cpu, memory, start, newline, reload, snapshot, match, found, touched>>

\* One reading of /proc into a slot of the ring
Read(slot) == age' = [s \in DOMAIN age |-> IF s = slot THEN 0 ELSE Min({age[s] + 1, Oldest})]

\* setup_history: an interval of the loop that fills the ring
SetupHistory ==
  /\ pc = "history" /\ Read(historyCur)
  /\ IF historyCur + 1 < historyMax
     THEN historyCur' = historyCur + 1 /\ UNCHANGED pc
     ELSE UNCHANGED historyCur /\ pc' = IF reloading THEN "check" ELSE "loop"
  /\ UNCHANGED <<system, outside, scan, limits, start, historyMax, newline, reload, snapshot, match, ghosts>>

\* cmm_dec is optional
CpuConfig == cfg.cpuMax >= 0 /\ cfg.cpuMin >= 0 /\ \A r \in CpuRules : cfg.rules[r] >= 0
MemConfig == /\ cfg.cmmMax >= 0 /\ cfg.cmmMin >= 0 /\ cfg.cmmMax >= cfg.cmmMin
             /\ CmmUsable /\ \A r \in MemRules \ {"cmm_dec"} : cfg.rules[r] >= 0

\* check_config, up to the loops over the CPUs
CheckConfig ==
  /\ pc = "check"
  /\ IF cfg.cpuMax < cfg.cpuMin /\ cfg.cpuMax # 0
     THEN Cleanup /\ UNCHANGED <<cpu, memory, startCpus, found>>
     ELSE /\ cpu' = CpuConfig /\ memory' = MemConfig
          /\ startCpus' = IF CpuConfig THEN Count ELSE startCpus
          /\ found' = IF reloading THEN found
                      ELSE [cpus |-> Count, pages |-> pages, cpu |-> CpuConfig, memory |-> MemConfig]
          /\ IF ~CpuConfig /\ ~MemConfig THEN Cleanup
             ELSE pc' = (IF CpuConfig THEN "raise" ELSE "cmm") /\ scan' = 0 /\ UNCHANGED left
  /\ UNCHANGED <<system, outside, cfg, startPages, ring, newline, reload, snapshot, match, touched, kept>>

\* The loop that switches CPUs on until there are cpu_min
RaiseCpus ==
  /\ pc = "raise"
  /\ IF startCpus < cfg.cpuMin /\ NumCpus >= cfg.cpuMin /\ Count < cfg.cpuMin /\ scan < NumCpus
     THEN online' = Plugged(scan) /\ scan' = scan + 1 /\ UNCHANGED pc
     ELSE pc' = "lower" /\ scan' = 0 /\ UNCHANGED online
  /\ UNCHANGED <<configured, pages, outside, limits, start, ring, newline, reload, snapshot, match, ghosts>>

\* The loop that switches CPUs off until there are cpu_max, and the checks
\* behind it
LowerCpus ==
  /\ pc = "lower"
  /\ IF Count > cfg.cpuMax /\ scan < NumCpus
     THEN online' = Unplugged(scan) /\ scan' = scan + 1 /\ UNCHANGED <<pc, left>>
     ELSE /\ UNCHANGED online
          /\ IF cfg.cpuMin > NumCpus \/ Count < cfg.cpuMin THEN Cleanup
             ELSE pc' = "cmm" /\ scan' = 0 /\ UNCHANGED left
  /\ UNCHANGED <<configured, pages, outside, limits, start, ring, newline, reload, snapshot, match, found, touched, kept>>

Clamped(n) == Min({Max({n, cfg.cmmMin}), cfg.cmmMax})

\* reload_daemon: what the daemon found when it was started
KeepNew == UNCHANGED <<startCpus, startPages>>   \* mutant: the reload counts as a start
RecallStart == startCpus' = saved.cpus /\ startPages' = saved.pages

\* The end of check_config and what main or reload_daemon does behind it
CheckCmm ==
  /\ pc = "cmm"
  /\ pages' = IF memory THEN Clamped(pages) ELSE pages
  /\ IF reloading
     THEN /\ RecallStart /\ reloading' = FALSE /\ pending' = FALSE /\ pc' = "read"
          /\ UNCHANGED ring
     ELSE /\ startPages' = IF memory THEN pages ELSE startPages
          /\ pc' = "history" /\ historyCur' = 0
          /\ UNCHANGED <<startCpus, reloading, pending, historyMax, age>>
  /\ UNCHANGED <<online, configured, outside, scan, limits, newline, saved, snapshot, match, ghosts>>

-----------------------------------------------------------------------------
(* The main loop *)

\* reload_daemon, up to parse_configfile
ReloadDaemon ==
  /\ pc = "loop" /\ pending /\ pc' = "parse" /\ reloading' = TRUE
  /\ saved' = [cpus |-> startCpus, pages |-> startPages, history |-> historyMax]
  /\ newline' = FALSE
  /\ UNCHANGED <<system, outside, scan, limits, start, ring, pending, snapshot, match, ghosts>>

NextSlot == (historyCur + 1) % (historyMax + 1)

ReadInterval ==
  /\ pc = "read" \/ (pc = "loop" /\ ~pending)
  /\ historyCur' = NextSlot /\ Read(NextSlot)
  /\ snapshot' = Count /\ pc' = "cpu" /\ match' \in Matches
  /\ UNCHANGED <<system, outside, scan, limits, start, historyMax, newline, reload, ghosts>>

\* get_value: the slot a rule reads for index n
IndexWrapsEarly(n) == IF n <= historyCur THEN historyCur - n
                      ELSE historyMax - (n - historyCur)   \* mutant: off by one
HistoryIndex(n) == IF n <= historyCur THEN historyCur - n
                   ELSE historyMax + 1 - (n - historyCur)

\* eval_cpu_rules: the limits, and the CPUs it considers, the first of those
\* that are off and configured and the last that is on, unless that is CPU 0
AtMaxLate == snapshot > cfg.cpuMax               \* mutant: off by one
AtMaxEqual == snapshot = cfg.cpuMax              \* mutant: not beyond it
AtMax == snapshot + 1 > cfg.cpuMax
AtMin == snapshot <= cfg.cpuMin
AllOffline == Cpus \ online                      \* mutant: cpu_is_configured not asked
Pluggable == (Cpus \ online) \cap configured
Last == Max(online)

EvalCpuRules ==
  /\ pc = "cpu" /\ pc' = "mem" /\ match' \in Matches
  /\ online' = IF ~cpu \/ "fpe" \in match THEN online
               ELSE IF "plug" \in match
               THEN IF AtMax \/ Pluggable = {} THEN online
                    ELSE Plugged(Min(Pluggable))
               ELSE IF "unplug" \in match
               THEN IF AtMin \/ Last = 0 THEN online ELSE Unplugged(Last)
               ELSE online
  /\ UNCHANGED <<configured, pages, outside, scan, limits, start, ring, newline, reload, snapshot, ghosts>>

\* cmm_dec or cmm_inc, d, moves the balloon; a negative value counts as 0
EvalMemRules ==
  /\ pc = "mem" /\ pc' = "loop" /\ match' = {}
  /\ \E d \in Steps :
       pages' = IF ~memory \/ "fpe" \in match THEN pages
                ELSE Clamped(IF "plug" \in match THEN pages - Max({d, 0})
                             ELSE IF "unplug" \in match THEN pages + Max({d, 0})
                             ELSE pages)
  /\ UNCHANGED <<online, configured, outside, scan, limits, start, ring, newline, reload, snapshot, ghosts>>

\* The rules evaluated at this place
Evaluated == IF pc = "cpu" /\ cpu THEN CpuRules
             ELSE IF pc = "mem" /\ memory THEN MemRules ELSE {}

\* get_value for an index beyond the ring: what it reads there may be anything,
\* as in the two actions above, or not be mapped
StrayRead ==
  /\ \E r \in Evaluated : \E n \in 0 .. cfg.rules[r] : HistoryIndex(n) \notin DOMAIN age
  /\ pc' = "off"
  /\ UNCHANGED <<system, outside, scan, limits, start, ring, newline, reload, snapshot, match, ghosts>>

-----------------------------------------------------------------------------
(* The end of the daemon *)

\* SIGTERM or SIGINT
KillDaemon ==
  /\ Running /\ Event /\ Cleanup
  /\ UNCHANGED <<system, file, limits, start, ring, newline, reload, snapshot, match, found, touched, kept>>

\* The loop of reactivate_cpus, and cleanup_cmm behind it
Restored == startCpus = 0 \/ Count = startCpus \/ scan = NumCpus

Reactivate ==
  /\ pc = "restore"
  /\ IF Restored
     THEN /\ pc' = "off" /\ pages' = (IF memory THEN startPages ELSE pages)
          /\ UNCHANGED <<online, scan>>
     ELSE /\ scan' = scan + 1 /\ UNCHANGED <<pc, pages>>
          /\ online' = IF Count > startCpus THEN Unplugged(scan) ELSE Plugged(scan)
  /\ UNCHANGED <<configured, outside, limits, start, ring, newline, reload, snapshot, match, ghosts>>

Daemon == \/ ParseConfig \/ SetupHistory \/ CheckConfig \/ RaiseCpus \/ LowerCpus
          \/ CheckCmm \/ ReloadDaemon \/ ReadInterval \/ EvalCpuRules
          \/ EvalMemRules \/ StrayRead \/ Reactivate

Admin == \/ \E c \in Cpus : AdminCpu(c)
         \/ \E n \in Pages : AdminPages(n)
         \/ \E f \in Files : EditFile(f)
         \/ Hup \/ Start \/ KillDaemon

Next == Daemon \/ Admin

Spec == Init /\ [][Next]_vars
FairSpec == Spec /\ WF_vars(Daemon)
-----------------------------------------------------------------------------
(* Properties *)

\* The type of every variable.
TypeOK ==
  /\ configured \subseteq Cpus /\ online \in (SUBSET configured) \ {{}}
  /\ pages \in Nat /\ file \in Files /\ match \in Matches /\ events \in 0 .. MaxEvents
  /\ pc \in {"off", "parse", "history", "check", "raise", "lower", "cmm", "loop", "read",
             "cpu", "mem", "restore"}
  /\ scan \in 0 .. NumCpus /\ cfg \in Limits /\ {cpu, memory} \subseteq BOOLEAN
  /\ startCpus \in 0 .. NumCpus /\ startPages \in Nat
  /\ historyMax \in 1 .. MaxHistory /\ historyCur \in 0 .. historyMax
  /\ age \in [0 .. historyMax -> 0 .. Oldest]
  /\ {newline, reloading, pending, touched} \subseteq BOOLEAN
  /\ snapshot \in 0 .. NumCpus /\ kept \subseteq Rules

\* Where rules are evaluated, the slot that get_value takes for index n was
\* filled exactly n readings ago: the ring is full before the first evaluation,
\* across its end, and after a reload that keeps or changes its size.  So it is
\* for the two slots behind the symbols, for every index in a rule of the file
\* last read, and for a rule kept from a file before it as far as the ring
\* reaches: the depth is that of the last file alone.
HistoryExact ==
  pc \in {"cpu", "mem"} =>
    /\ age[HistoryIndex(0)] = 0 /\ age[HistoryIndex(1)] = 1
    /\ \A r \in Evaluated : \A n \in 0 .. cfg.rules[r] :
         r \notin kept \/ n <= historyMax => age[HistoryIndex(n)] = n

\* Unless somebody else switches CPUs, the daemon keeps their number between
\* cpu_min and cpu_max from the end of check_config on, also after a reload
\* with other limits.
CpuLimits ==
  InLoop /\ cpu /\ ~touched => cfg.cpuMin <= Count /\ Count <= cfg.cpuMax

\* The same of the balloon and cmm_min and cmm_max.
CmmLimits ==
  InLoop /\ memory /\ ~touched => cfg.cmmMin <= pages /\ pages <= cfg.cmmMax

\* What the daemon decides from its snapshot crosses no limit although the
\* number of CPUs may be another one by then: it never leaves the system with
\* fewer than cpu_min CPUs, or more than cpu_max, that somebody else did not
\* cause since the snapshot.
NoOvershoot ==
  [][EvalCpuRules /\ online' # online =>
       \/ Count' < Count /\ (Count' >= cfg.cpuMin \/ Count < snapshot)
       \/ Count' > Count /\ (Count' <= cfg.cpuMax \/ Count > snapshot)]_vars

\* A daemon that cleans up leaves the system with as many CPUs and pages as it
\* found, whatever rules and reloads did in between, if CPUs, or pages, were
\* configured when it was started (and pages still are).  Where check_config has
\* set its flags but is not through, this holds for the CPUs at the start of the
\* daemon only: a reload forgets them there, and the pages are not yet known.
RestoredAtExit ==
  pc = "off" /\ ~touched /\ left # "off" =>
    /\ found.cpu /\ ~(reloading /\ left \in {"raise", "lower", "cmm"}) => Count = found.cpus
    /\ found.memory /\ memory /\ left \notin {"raise", "lower", "cmm"} => pages = found.pages

\* If the hotplug rule always matches from some time on and the daemon goes on,
\* the number of CPUs goes up to cpu_max, or until there is none left to switch on.
GrowsUnderLoad ==
  <>[](Running /\ cpu /\ (pc = "cpu" => "plug" \in match /\ "fpe" \notin match)) =>
    <>[](Count >= cfg.cpuMax \/ online = configured)

\* CPUs and balloon stay between their limits, whatever is reloaded.
WithinLimits == TypeOK /\ CpuLimits /\ CmmLimits
=============================================================================
