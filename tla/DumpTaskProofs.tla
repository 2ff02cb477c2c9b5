--------------------------- MODULE DumpTaskProofs ---------------------------
(***************************************************************************)
(* Proofs about DumpTask, for any number of workers, any tree of entries,  *)
(* any options and any faults.                                             *)
(*                                                                         *)
(* OwnerInv is inductive.  TypeStep, OutputStep, PositionStep, OwnerStep   *)
(* and OnceStep show that a step preserves its five conjuncts, each with   *)
(* one case per action; the lemmas before them deal with the actions that  *)
(* move jobs.                                                              *)
(*                                                                         *)
(* On top of OwnerInv, further invariants count: HandleInv the references  *)
(* of directory handles, OrderInv and NumInv the active jobs, LeakInv and  *)
(* ReapInv what is left at the end.  For these, Moves, Calm and MainCalm   *)
(* sum up what the many steps that touch neither jobs nor handles do.      *)
(*                                                                         *)
(* Without --file-timeout no thread is restarted (OnTime).  Then CountInv  *)
(* tells what was counted for each entry, ExactInv and IdleInv that no job *)
(* is left when threads are canceled, and WorkInv, StatusInv and EmitInv   *)
(* what has become of each entry, up to the end of the archive.            *)
(***************************************************************************)
EXTENDS DumpTask, Integers, Sequences, FiniteSetsExt, Functions, SequenceTheorems, FiniteSetTheorems, TLAPS

-----------------------------------------------------------------------------
(* Sets, numbers and sequences.                                            *)

\* One element more, one fewer.
LEMMA CardFacts ==
  ASSUME NEW S, IsFiniteSet(S), NEW x
  PROVE  /\ Cardinality(S) \in Nat
         /\ Cardinality(S) = 0 <=> S = {}
         /\ IsFiniteSet(S \cup {x}) /\ IsFiniteSet(S \ {x})
         /\ x \in S => Cardinality(S \ {x}) = Cardinality(S) - 1 /\ Cardinality(S) >= 1
         /\ x \notin S => Cardinality(S \cup {x}) = Cardinality(S) + 1
<1>1. Cardinality(S) \in Nat /\ (Cardinality(S) = 0 <=> S = {})
  BY FS_CardinalityType, FS_EmptySet
<1>2. IsFiniteSet(S \cup {x}) /\ Cardinality(S \cup {x}) = IF x \in S THEN Cardinality(S) ELSE Cardinality(S) + 1
  BY FS_AddElement
<1>3. IsFiniteSet(S \ {x}) /\ Cardinality(S \ {x}) = IF x \in S THEN Cardinality(S) - 1 ELSE Cardinality(S)
  BY FS_RemoveElement
<1> QED
  BY <1>1, <1>2, <1>3

\* Removing the head of a list: the rest is still without duplicates and
\* does not contain what was removed.
LEMMA TailFacts ==
  ASSUME NEW S, NEW s \in Seq(S), s # << >>
  PROVE  /\ Head(s) \in S
         /\ Head(s) \in Range(s)
         /\ Tail(s) \in Seq(S)
         /\ Range(Tail(s)) \subseteq Range(s)
         /\ IsInjective(s) => /\ IsInjective(Tail(s))
                              /\ Head(s) \notin Range(Tail(s))
<1>1. /\ Len(s) \in Nat \ {0} /\ DOMAIN s = 1..Len(s)
      /\ Head(s) = s[1]
      /\ Tail(s) \in Seq(S) /\ DOMAIN Tail(s) = 1..(Len(s) - 1)
      /\ \A i \in 1..(Len(s) - 1) : Tail(s)[i] = s[i + 1]
  OBVIOUS
<1>2. \A i \in 1..(Len(s) - 1) : i + 1 \in 1..Len(s) /\ i + 1 # 1
  BY <1>1
<1>3. Range(Tail(s)) \subseteq Range(s)
  BY <1>1, <1>2 DEF Range
<1>4. ASSUME IsInjective(s)
      PROVE  IsInjective(Tail(s)) /\ Head(s) \notin Range(Tail(s))
  BY <1>1, <1>2, <1>4 DEF Range, IsInjective
<1> QED
  BY <1>1, <1>3, <1>4 DEF Range

\* Adding at the end of a list: one more
\* element, and no duplicate if it is new.
LEMMA AppendFacts ==
  ASSUME NEW S, NEW s \in Seq(S), NEW e \in S
  PROVE  /\ Append(s, e) \in Seq(S)
         /\ Range(Append(s, e)) = Range(s) \cup {e}
         /\ IsInjective(s) /\ e \notin Range(s) => IsInjective(Append(s, e))
<1>1. /\ Len(s) \in Nat /\ DOMAIN s = 1..Len(s)
      /\ Append(s, e) \in Seq(S)
      /\ DOMAIN Append(s, e) = 1..(Len(s) + 1)
      /\ \A i \in 1..Len(s) : Append(s, e)[i] = s[i]
      /\ Append(s, e)[Len(s) + 1] = e
  OBVIOUS
<1>2. \A i \in 1..(Len(s) + 1) : i \in 1..Len(s) \/ i = Len(s) + 1
  BY <1>1
<1>3. 1..Len(s) \subseteq 1..(Len(s) + 1) /\ Len(s) + 1 \in 1..(Len(s) + 1)
  BY <1>1
<1>4. Range(Append(s, e)) = Range(s) \cup {e}
  BY <1>1, <1>2, <1>3 DEF Range
<1>5. ASSUME IsInjective(s), e \notin Range(s)
      PROVE  IsInjective(Append(s, e))
  BY <1>1, <1>2, <1>5 DEF Range, IsInjective
<1> QED
  BY <1>1, <1>4, <1>5

\* Putting one list before another: the elements of both, and no
\* duplicate if they have none in common.
LEMMA ConcatFacts ==
  ASSUME NEW S, NEW r \in Seq(S), NEW s \in Seq(S)
  PROVE  /\ r \o s \in Seq(S)
         /\ Range(r \o s) = Range(r) \cup Range(s)
         /\ IsInjective(r) /\ IsInjective(s) /\ Range(r) \cap Range(s) = {}
              => IsInjective(r \o s)
<1> DEFINE m == Len(r)  n == Len(s)
<1>1. /\ m \in Nat /\ DOMAIN r = 1..m
      /\ n \in Nat /\ DOMAIN s = 1..n
      /\ r \o s \in Seq(S) /\ DOMAIN (r \o s) = 1..(m + n)
      /\ \A i \in 1..m : (r \o s)[i] = r[i]
      /\ \A i \in 1..n : (r \o s)[m + i] = s[i]
  OBVIOUS
<1>2. \A i \in 1..(m + n) : i \in 1..m \/ \E k \in 1..n : i = m + k
  <2> SUFFICES ASSUME NEW i \in 1..(m + n), i \notin 1..m
               PROVE  \E k \in 1..n : i = m + k
    OBVIOUS
  <2>1. i - m \in 1..n /\ i = m + (i - m)
    BY <1>1
  <2> QED
    BY <2>1
<1> HIDE DEF m, n
<1>4. Range(r \o s) = Range(r) \cup Range(s)
  BY RangeConcatenation
<1>5. ASSUME IsInjective(r), IsInjective(s), Range(r) \cap Range(s) = {}
      PROVE  IsInjective(r \o s)
  <2> SUFFICES ASSUME NEW i \in 1..(m + n), NEW k \in 1..(m + n),
                      (r \o s)[i] = (r \o s)[k]
               PROVE  i = k
    BY <1>1 DEF IsInjective
  <2>1. \A p \in 1..m, q \in 1..n : r[p] # s[q]
    BY <1>1, <1>5 DEF Range
  <2>2. CASE i \in 1..m /\ k \in 1..m
    BY <1>1, <1>5, <2>2 DEF IsInjective
  <2>3. CASE i \in 1..m /\ k \notin 1..m
    BY <1>1, <1>2, <2>1, <2>3
  <2>4. CASE i \notin 1..m /\ k \in 1..m
    BY <1>1, <1>2, <2>1, <2>4
  <2>5. CASE i \notin 1..m /\ k \notin 1..m
    <3>1. PICK p \in 1..n, q \in 1..n : i = m + p /\ k = m + q
      BY <1>2, <2>5
    <3>2. p = q
      BY <1>1, <1>5, <3>1 DEF IsInjective
    <3> QED
      BY <3>1, <3>2
  <2> QED
    BY <2>2, <2>3, <2>4, <2>5
<1> QED
  BY <1>1, <1>4, <1>5

-----------------------------------------------------------------------------
(* What is known of the jobs that the threads refer to.                    *)

\* NULL is no job, and only jobs are in lists.
LEMMA NoJobFacts ==
  ASSUME TypeOK
  PROVE  /\ NoJob \notin Jobs
         /\ Range(queue) \subseteq Jobs
         /\ \A u \in Threads : Range(list[u]) \subseteq Entries
BY EntriesAssumption DEF TypeOK, Jobs, Range

\* The job of a thread is of the type that its position needs.
LEMMA JobFacts ==
  ASSUME OwnerInv, NEW t \in Threads
  PROVE  /\ pc[t] \in Processing \cup Writing \cup {"post", "fin"} =>
              job[t] \in Jobs
         /\ pc[t] \in {"opendir", "readdir"} => job[t] \in Dirs
         /\ pc[t] \in {"read", "emit", "emitstat"} => job[t] \in Entries
         /\ pc[t] = "enqueue" => Len(list[t]) = 1
BY DEF OwnerInv, TypeOK, Positioned, ThreadPositioned

\* While it times a thread out, the main thread refers to the job of it.
LEMMA TargetFacts ==
  ASSUME OwnerInv, mpc \in {"cancel", "join"}
  PROVE  target \in Threads /\ tjob \in Jobs /\ tjob = job[target]
BY DEF OwnerInv, TypeOK, Positioned, UniqueOwner

\* A wakeup moves waiting threads only, and only to the test of their condition.
LEMMA WakeMoves ==
  ASSUME NEW p, p \in [Threads -> Positions]
  PROVE  /\ WakeAll(p) \in [Threads -> Positions]
         /\ \A q \in WakeOne(p) :
              /\ q \in [Threads -> Positions]
              /\ \A u \in Threads :
                   q[u] = p[u] \/ (p[u] = "wait" /\ q[u] = "get")
BY DEF WakeAll, WakeOne, Positions

\* set_aborted keeps the types.
LEMMA AbortType ==
  ASSUME TypeOK, NEW c \in BOOLEAN, NEW p \in [Threads -> Positions],
         AbortIf(c, p)
  PROVE  aborted' \in BOOLEAN /\ pc' \in [Threads -> Positions] /\ mpc' \in MainPositions
<1>1. aborted' \in BOOLEAN
  BY DEF AbortIf, TypeOK
<1>2. pc' \in [Threads -> Positions]
  BY WakeMoves DEF AbortIf
<1>3. mpc' \in MainPositions
  BY DEF AbortIf, TypeOK, MainWoken, MainPositions
<1> QED
  BY <1>1, <1>2, <1>3

-----------------------------------------------------------------------------
(* Types.                                                                  *)

\* create_job, called for a specification or for a name in a directory.
LEMMA CreateType ==
  ASSUME OwnerInv, NEW t \in Threads, WSpec(t) \/ WReaddir(t)
  PROVE  TypeOK'
<1>t. TypeOK
  BY DEF OwnerInv
<1> USE DEF TypeOK, queueVars, fileVars, mainVars
<1>1. PICK e \in left[t] :
        /\ left' = [left EXCEPT ![t] = @ \ {e}]
        /\ \/ \E p \in {"enqueue", "readdir"} : CreateJob(t, e, p)
           \/ StatFails(t, e) \/ SkipType(t, e)
  BY DEF WSpec, WReaddir
<1>2. e \in Entries /\ e \in Jobs
  BY <1>t DEF Jobs
<1>3. UNCHANGED <<queueVars, outLock, fileVars, job, running, timedOut,
                  canceled, hasBuf, mainVars>>
  BY DEF WSpec, WReaddir
<1>4. left' \in [Threads -> SUBSET Entries]
  BY <1>t, <1>1
<1>5. ASSUME NEW p \in {"enqueue", "readdir"}, CreateJob(t, e, p) PROVE TypeOK'
  <2>1. list' \in [Threads -> Seq(Entries)]
    BY <1>t, <1>2, <1>5 DEF CreateJob
  <2>2. status' \in [Jobs -> Statuses] /\ alive' \in SUBSET Jobs
    BY <1>t, <1>2, <1>5 DEF CreateJob, Statuses
  <2>3. dref' \in [Dirs -> Int]
    BY <1>t, <1>5 DEF CreateJob, DrefGet, HoldsDref
  <2>4. pc' \in [Threads -> Positions] /\ UNCHANGED <<stats, aborted, mpc>>
    BY <1>t, <1>5 DEF CreateJob, Positions
  <2> QED
    BY <1>t, <1>3, <1>4, <2>1, <2>2, <2>3, <2>4
<1>6. CASE StatFails(t, e)
  <2>1. status' \in [Jobs -> Statuses] /\ stats' \in [Counters -> Nat]
    BY <1>t, <1>2, <1>6 DEF StatFails, Statuses, Counters
  <2>2. aborted' \in BOOLEAN /\ pc' \in [Threads -> Positions] /\ mpc' \in MainPositions
    BY <1>t, <1>6, AbortType, OptsAssumption DEF StatFails, ReadError
  <2>3. UNCHANGED <<alive, dref, list>>
    BY <1>6 DEF StatFails
  <2> QED
    BY <1>t, <1>3, <1>4, <2>1, <2>2, <2>3
<1>7. CASE SkipType(t, e)
  <2>1. status' \in [Jobs -> Statuses] /\ stats' \in [Counters -> Nat]
    BY <1>t, <1>2, <1>7 DEF SkipType, Statuses, Counters
  <2>2. UNCHANGED <<pc, aborted, mpc, alive, dref, list>>
    BY <1>7 DEF SkipType
  <2> QED
    BY <1>t, <1>3, <1>4, <2>1, <2>2
<1> QED
  BY <1>1, <1>5, <1>6, <1>7

\* Every step keeps the types.
LEMMA TypeStep == OwnerInv /\ [Next]_vars => TypeOK'
<1> SUFFICES ASSUME OwnerInv, [Next]_vars PROVE TypeOK'
  OBVIOUS
<1>t. TypeOK
  BY DEF OwnerInv
<1> USE DEF TypeOK, queueVars, fileVars, jobVars, threadVars, mainVars
<1>1. ASSUME NEW t \in Threads,
             WStep(t) \/ WInput(t) \/ WOutput(t) \/ WSpurious(t)
      PROVE  TypeOK'
  <2>1. CASE WBegin(t)
    BY <2>1, <1>t DEF WBegin, Positions
  <2>2. CASE WDequeue(t)
    <3>1. Head(queue) \in Jobs /\ Tail(queue) \in Seq(Jobs)
      BY <2>2, <1>t DEF WDequeue
    <3> QED
      BY <2>2, <1>t, <3>1 DEF WDequeue, Positions, MainPositions, Statuses,
         MainWoken
  <2>3. CASE WLeave(t)
    BY <1>t, <2>3, ThreadsAssumption DEF WLeave, MainWoken, Exits, Positions,
       Writing, MainPositions
  <2>4. CASE WWait(t)
    BY <1>t, <2>4 DEF WWait, Positions, Writing
  <2>5. CASE WExclude(t)
    BY <1>t, <2>5, JobFacts DEF WExclude, Positions, Writing, Statuses, Final,
       Processing
  <2>6. CASE WNoRecursion(t)
    BY <1>t, <2>6, JobFacts DEF WNoRecursion, Positions, Writing, Statuses,
       Final, Processing
  <2>7. CASE WProc(t)
    BY <1>t, <2>7, JobFacts DEF WProc, WorkFor, Positions, Writing, Processing
  <2>8. CASE WOpen(t)
    BY <1>t, <2>8 DEF WOpen, Kids, Positions, Writing
  <2>9. CASE WOpenFails(t)
    BY <1>t, <2>9, JobFacts DEF WOpenFails, WakeAll, MainWoken, AbortIf,
       Positions, Writing, MainPositions, Statuses, Final, Processing
  <2>10. CASE WSpec(t)
    BY <2>10, CreateType
  <2>11. CASE WEnqueue(t)
    <3>1. Head(list[t]) \in Entries /\ Head(list[t]) \in Jobs
      BY <2>11, <1>t, JobFacts DEF WEnqueue, Jobs
    <3>2. queue' \in Seq(Jobs) /\ tail' \in Jobs
      BY <2>11, <1>t, <3>1 DEF WEnqueue, TailInsert
    <3>3. pc' \in [Threads -> Positions]
      BY <2>11, <1>t, WakeMoves DEF WEnqueue, Positions
    <3>4. numActive' \in Int /\ list' \in [Threads -> Seq(Entries)]
      BY <2>11, <1>t DEF WEnqueue
    <3> QED
      BY <2>11, <1>t, <3>2, <3>3, <3>4 DEF WEnqueue
  <2>12. CASE WSpecsDone(t)
    BY <1>t, <2>12, JobFacts DEF WSpecsDone, Positions, Writing, Statuses,
       Final, Processing
  <2>13. CASE WOpendir(t)
    BY <1>t, <2>13, JobFacts DEF WOpendir, Kids, Positions, Writing,
       Processing
  <2>14. CASE WOpendirFails(t)
    BY <1>t, <2>14, JobFacts DEF WOpendirFails, WakeAll, MainWoken, AbortIf,
       ReadError, Positions, Writing, MainPositions, Statuses, Final,
       Processing
  <2>15. CASE WReaddir(t)
    BY <2>15, CreateType
  <2>16. CASE WQueueJobs(t)
    <3>1. queue' \in Seq(Jobs) /\ numActive' \in Int /\ list' \in [Threads -> Seq(Entries)]
      BY <2>16, <1>t DEF WQueueJobs, HeadInsert, Jobs
    <3>2. job[t] \in Dirs /\ job[t] \in Jobs
      BY <2>16, JobFacts DEF WQueueJobs, Processing
    <3>3. status' \in [Jobs -> Statuses] /\ dref' \in [Dirs -> Int]
      BY <2>16, <1>t, <3>2 DEF WQueueJobs, Statuses, Final
    <3>4. pc' \in [Threads -> Positions]
      BY <2>16, <1>t, WakeMoves DEF WQueueJobs, Positions
    <3> QED
      BY <2>16, <1>t, <3>1, <3>3, <3>4 DEF WQueueJobs
  <2>17. CASE WPost(t)
    <3>1. stats' \in [Counters -> Nat]
      BY <2>17, <1>t DEF WPost, Account, Counted
    <3> QED
      BY <2>17, <1>t, <3>1 DEF WPost, Positions, Writing
  <2>18. CASE WEmitBegin(t)
    BY <1>t, <2>18, JobFacts DEF WEmitBegin, Positions, Writing, Processing
  <2>19. CASE WSkip(t)
    BY <1>t, <2>19, JobFacts DEF WSkip, Positions, Writing, Processing
  <2>20. CASE WCheck(t)
    BY <1>t, <2>20 DEF WCheck, WakeAll, MainWoken, AbortIf, Positions,
       Writing, MainPositions
  <2>21. CASE WComplete(t)
    <3>1. dref' \in [Dirs -> Int] /\ alive' \in SUBSET Jobs
      BY <2>21, <1>t DEF WComplete, FreeJob, DrefPut, HoldsDref
    <3>2. pc' \in [Threads -> Positions] /\ mpc' \in MainPositions
      BY <2>21, <1>t DEF WComplete, MainWoken, Positions, MainPositions
    <3> QED
      BY <2>21, <1>t, <3>1, <3>2 DEF WComplete
  <2>22. CASE WTimedOut(t)
    BY <1>t, <2>22 DEF WTimedOut, MainWoken, Exits, Positions, Writing,
       MainPositions
  <2>23. CASE WCancel(t)
    BY <1>t, <2>23, ThreadsAssumption DEF WCancel, UnlockedBy, Positions,
       Writing
  <2>24. CASE WRead(t)
    BY <1>t, <2>24, JobFacts DEF WRead, Positions, Writing, Statuses, Final,
       Processing
  <2>25. CASE WReadFails(t)
    <3>1. status' \in [Jobs -> Statuses]
      BY <2>25, <1>t, JobFacts DEF WReadFails, Statuses, Final, Processing
    <3>2. hasBuf' \in [Threads -> BOOLEAN]
      BY <2>25, <1>t, Zenon DEF WReadFails
    <3>3. aborted' \in BOOLEAN /\ pc' \in [Threads -> Positions] /\ mpc' \in MainPositions
      <4>1. [pc EXCEPT ![t] = "post"] \in [Threads -> Positions]
        BY <1>t DEF Positions
      <4> QED
        BY <2>25, <1>t, <4>1, AbortType, OptsAssumption DEF WReadFails,
           ReadError
    <3> QED
      BY <2>25, <1>t, <3>1, <3>2, <3>3 DEF WReadFails
  <2>26. CASE WReadAborted(t)
    <3>1. status' \in [Jobs -> Statuses]
      BY <2>26, <1>t, JobFacts DEF WReadAborted, Statuses, Final, Processing
    <3>2. hasBuf' \in [Threads -> BOOLEAN]
      BY <2>26, <1>t, Zenon DEF WReadAborted
    <3>3. pc' \in [Threads -> Positions] /\ mpc' \in MainPositions
      BY <2>26, <1>t DEF WReadAborted, Positions, MainPositions
    <3> QED
      BY <2>26, <1>t, <3>1, <3>2, <3>3 DEF WReadAborted
  <2>27. CASE WEmit(t)
    <3>1. job[t] \in Entries
      BY <2>27, JobFacts DEF WEmit
    <3>2. written' \in [Entries -> Nat] /\ outWritten' \in Nat /\ numFiles' \in Nat
      BY <2>27, <1>t, <3>1 DEF WEmit
    <3>3. pc' \in [Threads -> Positions]
      BY <2>27, <1>t DEF WEmit, AfterEmit, Positions, Writing
    <3> QED
      BY <2>27, <1>t, <3>2, <3>3 DEF WEmit
  <2>28. CASE WEmitFails(t)
    BY <1>t, <2>28, JobFacts DEF WEmitFails, WakeAll, MainWoken, AbortIf,
       AfterEmit, Positions, Writing, MainPositions, Processing
  <2>29. CASE WSpurious(t)
    BY <1>t, <2>29 DEF WSpurious, Positions, Writing
  <2> QED
    BY <1>1, <2>1, <2>2, <2>3, <2>4, <2>5, <2>6, <2>7, <2>8, <2>9, <2>10,
       <2>11, <2>12, <2>13, <2>14, <2>15, <2>16, <2>17, <2>18, <2>19, <2>20,
       <2>21, <2>22, <2>23, <2>24, <2>25, <2>26, <2>27, <2>28, <2>29 DEF
       WStep, WInput, WOutput
<1>2. ASSUME MStep \/ MExpire \/ MSpurious PROVE TypeOK'
  <2>1. CASE MCreate
    BY <1>t, <2>1 DEF MCreate, Positions, Writing, MainPositions
  <2>2. CASE MMark
    BY <1>t, <2>2 DEF MMark, Positions, Writing, MainPositions
  <2>3. CASE MCreateFails
    BY <1>t, <2>3 DEF MCreateFails, Positions, Writing, MainPositions
  <2>4. CASE MWait
    BY <1>t, <2>4 DEF MWait, Deadlines, WorkLeft, Positions, Writing,
       MainPositions
  <2>5. CASE MLeave
    BY <1>t, <2>5 DEF MLeave, WakeAll, WorkLeft, Positions, Writing,
       MainPositions
  <2>6. CASE MToolTimeout
    BY <1>t, <2>6 DEF MToolTimeout, WakeAll, Positions, Writing, MainPositions
  <2>7. CASE MTimeoutRaced
    BY <1>t, <2>7 DEF MTimeoutRaced, Positions, Writing, MainPositions
  <2>8. CASE MTimeout
    BY <1>t, <2>8 DEF MTimeout, Positions, Writing, MainPositions
  <2>9. CASE MCancel
    BY <1>t, <2>9 DEF MCancel, Positions, Writing, MainPositions
  <2>10. CASE MRestart
    BY <1>t, <2>10, TargetFacts DEF MRestart, WakeAll, Interrupted, Positions,
       Writing, MainPositions, Statuses, Final
  <2>11. CASE MRestartFails
    BY <1>t, <2>11, TargetFacts DEF MRestartFails, WakeAll, Interrupted,
       Positions, Writing, MainPositions, Statuses, Final
  <2>12. CASE MGrace
    BY <1>t, <2>12 DEF MGrace, Positions, Writing, MainPositions
  <2>13. CASE MReap
    BY <1>t, <2>13 DEF MReap, Positions, Writing, MainPositions
  <2>14. CASE MReapJoin
    <3>1. dref' \in [Dirs -> Int] /\ alive' \in SUBSET Jobs
      BY <1>t, <2>14 DEF MReapJoin, FreeJob, DrefPut, HoldsDref
    <3>2. mpc' \in MainPositions /\ pc' \in [Threads -> Positions]
      BY <1>t, <2>14 DEF MReapJoin, MainPositions, Positions
    <3> QED
      BY <1>t, <2>14, <3>1, <3>2 DEF MReapJoin
  <2>15. CASE MAbortQueued
    <3>1. Head(queue) \in Jobs /\ Tail(queue) \in Seq(Jobs)
      BY <2>15, <1>t DEF MAbortQueued
    <3>2. dref' \in [Dirs -> Int] /\ alive' \in SUBSET Jobs
      BY <2>15, <1>t DEF MAbortQueued, FreeJob, DrefPut, HoldsDref
    <3>3. stats' \in [Counters -> Nat] /\ status' \in [Jobs -> Statuses]
      BY <2>15, <1>t, <3>1 DEF MAbortQueued, Counters, Statuses, Final
    <3> QED
      BY <2>15, <1>t, <3>1, <3>2, <3>3 DEF MAbortQueued
  <2>16. CASE MFinal
    BY <1>t, <2>16 DEF MFinal, Positions, Writing, MainPositions
  <2>17. CASE MExpire
    BY <1>t, <2>17 DEF MExpire, Positions, Writing, MainPositions
  <2>18. CASE MSpurious
    BY <1>t, <2>18 DEF MSpurious, Positions, Writing, MainPositions
  <2> QED
    BY <1>2, <2>1, <2>2, <2>3, <2>4, <2>5, <2>6, <2>7, <2>8, <2>9, <2>10,
       <2>11, <2>12, <2>13, <2>14, <2>15, <2>16, <2>17, <2>18 DEF MStep
<1>3. CASE UNCHANGED vars
  BY <1>t, <1>3 DEF vars
<1> QED
  BY <1>1, <1>2, <1>3 DEF Next, Ended

-----------------------------------------------------------------------------
(* Positions and the output mutex.                                         *)

\* queue_job wakes one worker up, who is not writing.
LEMMA EnqueueMoves ==
  ASSUME OwnerInv, NEW t \in Threads, WEnqueue(t)
  PROVE  OutputExclusion' /\ Positioned'
<1>t. TypeOK /\ Positioned /\ OutputExclusion
  BY DEF OwnerInv
<1> USE DEF TypeOK, queueVars, fileVars, jobVars, threadVars, mainVars
<1> DEFINE p == [pc EXCEPT ![t] = "specs"]
<1>1. /\ p \in [Threads -> Positions] /\ pc' \in WakeOne(p)
      /\ p[t] = "specs" /\ \A u \in Threads \ {t} : p[u] = pc[u]
  BY <1>t DEF WEnqueue, Positions
<1> HIDE DEF p
<1>2. \A u \in Threads : \/ u # t /\ pc'[u] = pc[u]
                         \/ u = t /\ pc'[u] = "specs"
                         \/ pc[u] = "wait" /\ pc'[u] = "get"
  BY <1>1, WakeMoves
<1>5. pc[t] = "enqueue"
  BY <1>1 DEF WEnqueue
<1>3. OutputExclusion'
  BY <1>1, <1>t, <1>2, <1>5 DEF WEnqueue, OutputExclusion, Writing
<1>6. list'[t] = << >> /\ \A u \in Threads \ {t} : list'[u] = list[u]
  BY <1>1, <1>t DEF WEnqueue
<1>7. UNCHANGED <<mpc, todo, target, timedOut, left, job>>
  BY <1>1 DEF WEnqueue
<1>4. Positioned'
  <2>1. ASSUME NEW u \in Threads PROVE ThreadPositioned(u)'
    <3>1. ThreadPositioned(u) /\ (u = t => job[t] = InitJob)
      BY <1>t, <1>5 DEF Positioned, ThreadPositioned
    <3>2. CASE u = t
      BY <1>2, <1>5, <1>6, <1>7, <3>1, <3>2, EntriesAssumption DEF
         ThreadPositioned, Processing, Writing
    <3>3. CASE u # t
      BY <1>2, <1>5, <1>6, <1>7, <3>1, <3>3 DEF ThreadPositioned, Processing,
         Writing
    <3> QED
      BY <3>2, <3>3
  <2> QED
    BY <1>t, <1>2, <1>5, <1>7, <2>1 DEF Positioned
<1> QED
  BY <1>3, <1>4

\* Every step keeps the output mutex with the thread that writes.
LEMMA OutputStep == OwnerInv /\ [Next]_vars => OutputExclusion'
<1> SUFFICES ASSUME OwnerInv, [Next]_vars PROVE OutputExclusion'
  OBVIOUS
<1>t. TypeOK /\ Positioned /\ OutputExclusion
  BY DEF OwnerInv
<1> USE DEF TypeOK, OutputExclusion, Writing, queueVars, fileVars, jobVars,
   threadVars, mainVars
<1>1. ASSUME NEW t \in Threads,
             WStep(t) \/ WInput(t) \/ WOutput(t) \/ WSpurious(t)
      PROVE  OutputExclusion'
  <2>1. CASE WBegin(t)
    BY <1>t, <2>1, ThreadsAssumption DEF WBegin
  <2>2. CASE WDequeue(t)
    BY <1>t, <2>2, ThreadsAssumption DEF WDequeue, MainWoken
  <2>3. CASE WLeave(t)
    BY <1>t, <2>3, ThreadsAssumption DEF WLeave, MainWoken, Exits
  <2>4. CASE WWait(t)
    BY <1>t, <2>4, ThreadsAssumption DEF WWait
  <2>5. CASE WExclude(t)
    BY <1>t, <2>5, ThreadsAssumption DEF WExclude
  <2>6. CASE WNoRecursion(t)
    BY <1>t, <2>6, ThreadsAssumption DEF WNoRecursion
  <2>7. CASE WProc(t)
    BY <1>t, <2>7, ThreadsAssumption DEF WProc, WorkFor
  <2>8. CASE WOpen(t)
    BY <1>t, <2>8, ThreadsAssumption DEF WOpen
  <2>9. CASE WOpenFails(t)
    BY <1>t, <2>9, ThreadsAssumption DEF WOpenFails, WakeAll, MainWoken,
       AbortIf
  <2>10. CASE WSpec(t)
    BY <1>t, <2>10, ThreadsAssumption DEF WSpec, WakeAll, MainWoken, AbortIf,
       ReadError, CreateJob, StatFails, SkipType
  <2>11. CASE WEnqueue(t)
    BY <2>11, EnqueueMoves
  <2>12. CASE WSpecsDone(t)
    BY <1>t, <2>12, ThreadsAssumption DEF WSpecsDone
  <2>13. CASE WOpendir(t)
    BY <1>t, <2>13, ThreadsAssumption DEF WOpendir
  <2>14. CASE WOpendirFails(t)
    BY <1>t, <2>14, ThreadsAssumption DEF WOpendirFails, WakeAll, MainWoken,
       AbortIf, ReadError
  <2>15. CASE WReaddir(t)
    BY <1>t, <2>15, ThreadsAssumption DEF WReaddir, WakeAll, MainWoken,
       AbortIf, ReadError, CreateJob, StatFails, SkipType
  <2>16. CASE WQueueJobs(t)
    BY <1>t, <2>16, ThreadsAssumption DEF WQueueJobs, WakeAll
  <2>17. CASE WPost(t)
    BY <1>t, <2>17, ThreadsAssumption DEF WPost, OutFree
  <2>18. CASE WEmitBegin(t)
    BY <1>t, <2>18, ThreadsAssumption DEF WEmitBegin
  <2>19. CASE WSkip(t)
    BY <1>t, <2>19, ThreadsAssumption DEF WSkip
  <2>20. CASE WCheck(t)
    BY <1>t, <2>20, ThreadsAssumption DEF WCheck, WakeAll, MainWoken, AbortIf
  <2>21. CASE WComplete(t)
    BY <1>t, <2>21, ThreadsAssumption DEF WComplete, MainWoken
  <2>22. CASE WTimedOut(t)
    BY <1>t, <2>22, ThreadsAssumption DEF WTimedOut, MainWoken, Exits
  <2>23. CASE WCancel(t)
    BY <1>t, <2>23, ThreadsAssumption DEF WCancel, UnlockedBy
  <2>24. CASE WRead(t)
    BY <1>t, <2>24, ThreadsAssumption DEF WRead
  <2>25. CASE WReadFails(t)
    BY <1>t, <2>25, ThreadsAssumption DEF WReadFails, WakeAll, MainWoken,
       AbortIf, ReadError
  <2>26. CASE WReadAborted(t)
    BY <1>t, <2>26, ThreadsAssumption DEF WReadAborted
  <2>27. CASE WEmit(t)
    BY <1>t, <2>27, ThreadsAssumption DEF WEmit, AfterEmit
  <2>28. CASE WEmitFails(t)
    BY <1>t, <2>28, ThreadsAssumption DEF WEmitFails, WakeAll, MainWoken,
       AbortIf, AfterEmit
  <2>29. CASE WSpurious(t)
    BY <1>t, <2>29, ThreadsAssumption DEF WSpurious
  <2> QED
    BY <1>1, <2>1, <2>2, <2>3, <2>4, <2>5, <2>6, <2>7, <2>8, <2>9, <2>10,
       <2>11, <2>12, <2>13, <2>14, <2>15, <2>16, <2>17, <2>18, <2>19, <2>20,
       <2>21, <2>22, <2>23, <2>24, <2>25, <2>26, <2>27, <2>28, <2>29 DEF
       WStep, WInput, WOutput
<1>2. ASSUME MStep \/ MExpire \/ MSpurious PROVE OutputExclusion'
  <2>1. CASE MCreate
    BY <1>t, <2>1, ThreadsAssumption DEF MCreate, Positioned
  <2>2. CASE MMark
    BY <1>t, <2>2, ThreadsAssumption DEF MMark, Positioned
  <2>3. CASE MCreateFails
    BY <1>t, <2>3, ThreadsAssumption DEF MCreateFails, Positioned
  <2>4. CASE MWait
    BY <1>t, <2>4, ThreadsAssumption DEF MWait, Positioned
  <2>5. CASE MLeave
    BY <1>t, <2>5, ThreadsAssumption DEF MLeave, WakeAll, Positioned
  <2>6. CASE MToolTimeout
    BY <1>t, <2>6, ThreadsAssumption DEF MToolTimeout, WakeAll, Positioned
  <2>7. CASE MTimeoutRaced
    BY <1>t, <2>7, ThreadsAssumption DEF MTimeoutRaced, Positioned
  <2>8. CASE MTimeout
    BY <1>t, <2>8, ThreadsAssumption DEF MTimeout, Positioned
  <2>9. CASE MCancel
    BY <1>t, <2>9, ThreadsAssumption DEF MCancel, Positioned
  <2>10. CASE MRestart
    BY <1>t, <2>10, ThreadsAssumption DEF MRestart, WakeAll, Positioned
  <2>11. CASE MRestartFails
    BY <1>t, <2>11, ThreadsAssumption DEF MRestartFails, WakeAll, Positioned
  <2>12. CASE MGrace
    BY <1>t, <2>12, ThreadsAssumption DEF MGrace, Positioned
  <2>13. CASE MReap
    BY <1>t, <2>13, ThreadsAssumption DEF MReap, Positioned
  <2>14. CASE MReapJoin
    BY <1>t, <2>14, ThreadsAssumption DEF MReapJoin, Positioned
  <2>15. CASE MAbortQueued
    BY <1>t, <2>15, ThreadsAssumption DEF MAbortQueued, Positioned
  <2>16. CASE MFinal
    BY <1>t, <2>16, ThreadsAssumption DEF MFinal, Positioned
  <2>17. CASE MExpire
    BY <1>t, <2>17, ThreadsAssumption DEF MExpire, Positioned
  <2>18. CASE MSpurious
    BY <1>t, <2>18, ThreadsAssumption DEF MSpurious, Positioned
  <2> QED
    BY <1>2, <2>1, <2>2, <2>3, <2>4, <2>5, <2>6, <2>7, <2>8, <2>9, <2>10,
       <2>11, <2>12, <2>13, <2>14, <2>15, <2>16, <2>17, <2>18 DEF MStep
<1>3. CASE UNCHANGED vars
  BY <1>t, <1>3 DEF vars
<1> QED
  BY <1>1, <1>2, <1>3 DEF Next, Ended

\* Every step leads to a position that fits the variables.
LEMMA PositionStep == OwnerInv /\ [Next]_vars => Positioned'
<1> SUFFICES ASSUME OwnerInv, [Next]_vars PROVE Positioned'
  OBVIOUS
<1>t. TypeOK /\ Positioned
  BY DEF OwnerInv
<1> USE DEF TypeOK, Positioned, ThreadPositioned, Processing, Writing,
   queueVars, fileVars, jobVars, threadVars, mainVars
<1>1. ASSUME NEW t \in Threads,
             WStep(t) \/ WInput(t) \/ WOutput(t) \/ WSpurious(t)
      PROVE  Positioned'
  <2>1. CASE WBegin(t)
    BY <1>t, <2>1 DEF WBegin
  <2>2. CASE WDequeue(t)
    <3>1. Head(queue) \in Jobs /\ Head(queue) # NoJob
      BY <2>2, <1>t, EntriesAssumption DEF WDequeue, Jobs
    <3> QED
      BY <2>2, <1>t, <3>1 DEF WDequeue, Positioned, ThreadPositioned,
         Processing, Writing, MainWoken
  <2>3. CASE WLeave(t)
    BY <1>t, <2>3 DEF WLeave, MainWoken, Exits
  <2>4. CASE WWait(t)
    BY <1>t, <2>4 DEF WWait
  <2>5. CASE WExclude(t)
    BY <1>t, <2>5 DEF WExclude
  <2>6. CASE WNoRecursion(t)
    BY <1>t, <2>6 DEF WNoRecursion
  <2>7. CASE WProc(t)
    <3>1. job[t] = InitJob \/ job[t] \in Entries
      BY <2>7, <1>t DEF WProc, Positioned, ThreadPositioned, Processing, Jobs
    <3> QED
      BY <2>7, <1>t, <3>1, EntriesAssumption DEF WProc, WorkFor, Positioned,
         ThreadPositioned, Processing, Writing, Dirs
  <2>8. CASE WOpen(t)
    BY <1>t, <2>8 DEF WOpen
  <2>9. CASE WOpenFails(t)
    BY <1>t, <2>9 DEF WOpenFails, WakeAll, MainWoken, AbortIf
  <2>10. CASE WSpec(t)
    <3>1. list[t] = << >>
      BY <2>10, <1>t DEF WSpec, Positioned, ThreadPositioned
    <3>2. PICK e \in left[t] :
            /\ left' = [left EXCEPT ![t] = @ \ {e}]
            /\ CreateJob(t, e, "enqueue") \/ StatFails(t, e) \/ SkipType(t, e)
      BY <2>10 DEF WSpec
    <3>3. pc[t] = "specs" /\ UNCHANGED <<job, todo, target, timedOut>>
      BY <2>10 DEF WSpec
    <3>4. CASE CreateJob(t, e, "enqueue")
      <4>1. Len(list'[t]) = 1
        BY <1>t, <3>1, <3>4 DEF CreateJob
      <4> QED
        BY <1>t, <3>2, <3>3, <3>4, <4>1 DEF Positioned, ThreadPositioned,
           Processing, Writing, CreateJob
    <3>5. CASE StatFails(t, e)
      BY <1>t, <3>2, <3>3, <3>5 DEF Positioned, ThreadPositioned, Processing,
         Writing, StatFails, ReadError, AbortIf, WakeAll, MainWoken
    <3>6. CASE SkipType(t, e)
      BY <1>t, <3>2, <3>3, <3>6 DEF Positioned, ThreadPositioned, Processing,
         Writing, SkipType
    <3> QED
      BY <3>2, <3>4, <3>5, <3>6
  <2>11. CASE WEnqueue(t)
    BY <2>11, EnqueueMoves
  <2>12. CASE WSpecsDone(t)
    BY <1>t, <2>12 DEF WSpecsDone
  <2>13. CASE WOpendir(t)
    BY <1>t, <2>13 DEF WOpendir
  <2>14. CASE WOpendirFails(t)
    BY <1>t, <2>14 DEF WOpendirFails, WakeAll, MainWoken, AbortIf, ReadError
  <2>15. CASE WReaddir(t)
    BY <1>t, <2>15 DEF WReaddir, WakeAll, MainWoken, AbortIf, ReadError,
       CreateJob, StatFails, SkipType
  <2>16. CASE WQueueJobs(t)
    BY <1>t, <2>16 DEF WQueueJobs, WakeAll
  <2>17. CASE WPost(t)
    BY <1>t, <2>17 DEF WPost, OutFree
  <2>18. CASE WEmitBegin(t)
    <3>1. InitDone(job[t]) \/ job[t] \in Entries
      BY <2>18 DEF WEmitBegin, Writes
    <3> QED
      BY <2>18, <1>t, <3>1 DEF WEmitBegin, Positioned, ThreadPositioned,
         Processing, Writing
  <2>19. CASE WSkip(t)
    BY <1>t, <2>19 DEF WSkip
  <2>20. CASE WCheck(t)
    BY <1>t, <2>20 DEF WCheck, WakeAll, MainWoken, AbortIf
  <2>21. CASE WComplete(t)
    BY <1>t, <2>21 DEF WComplete, MainWoken
  <2>22. CASE WTimedOut(t)
    BY <1>t, <2>22 DEF WTimedOut, MainWoken, Exits
  <2>23. CASE WCancel(t)
    <3>1. pc[t] \in {"open", "read", "emit", "emitstat", "write", "check"}
      BY <2>23 DEF WCancel, Cancelable
    <3> QED
      BY <2>23, <1>t, <3>1 DEF WCancel, Positioned, ThreadPositioned,
         Processing, Writing
  <2>24. CASE WRead(t)
    BY <1>t, <2>24 DEF WRead
  <2>25. CASE WReadFails(t)
    BY <1>t, <2>25 DEF WReadFails, WakeAll, MainWoken, AbortIf, ReadError
  <2>26. CASE WReadAborted(t)
    BY <1>t, <2>26 DEF WReadAborted
  <2>27. CASE WEmit(t)
    BY <1>t, <2>27 DEF WEmit, AfterEmit
  <2>28. CASE WEmitFails(t)
    BY <1>t, <2>28 DEF WEmitFails, WakeAll, MainWoken, AbortIf, AfterEmit
  <2>29. CASE WSpurious(t)
    BY <1>t, <2>29 DEF WSpurious
  <2> QED
    BY <1>1, <2>1, <2>2, <2>3, <2>4, <2>5, <2>6, <2>7, <2>8, <2>9, <2>10,
       <2>11, <2>12, <2>13, <2>14, <2>15, <2>16, <2>17, <2>18, <2>19, <2>20,
       <2>21, <2>22, <2>23, <2>24, <2>25, <2>26, <2>27, <2>28, <2>29 DEF
       WStep, WInput, WOutput
<1>2. ASSUME MStep \/ MExpire \/ MSpurious PROVE Positioned'
  <2>1. CASE MCreate
    BY <1>t, <2>1, ThreadsAssumption DEF MCreate
  <2>2. CASE MMark
    BY <1>t, <2>2, ThreadsAssumption DEF MMark
  <2>3. CASE MCreateFails
    BY <1>t, <2>3, ThreadsAssumption DEF MCreateFails
  <2>4. CASE MWait
    BY <1>t, <2>4, ThreadsAssumption DEF MWait
  <2>5. CASE MLeave
    BY <1>t, <2>5, ThreadsAssumption DEF MLeave, WakeAll
  <2>6. CASE MToolTimeout
    BY <1>t, <2>6, ThreadsAssumption DEF MToolTimeout, WakeAll
  <2>7. CASE MTimeoutRaced
    BY <1>t, <2>7, ThreadsAssumption DEF MTimeoutRaced
  <2>8. CASE MTimeout
    BY <1>t, <2>8, ThreadsAssumption DEF MTimeout
  <2>9. CASE MCancel
    BY <1>t, <2>9, ThreadsAssumption DEF MCancel
  <2>10. CASE MRestart
    BY <1>t, <2>10, ThreadsAssumption DEF MRestart, WakeAll
  <2>11. CASE MRestartFails
    BY <1>t, <2>11, ThreadsAssumption DEF MRestartFails, WakeAll
  <2>12. CASE MGrace
    BY <1>t, <2>12, ThreadsAssumption DEF MGrace
  <2>13. CASE MReap
    BY <1>t, <2>13, ThreadsAssumption DEF MReap
  <2>14. CASE MReapJoin
    BY <1>t, <2>14, ThreadsAssumption DEF MReapJoin
  <2>15. CASE MAbortQueued
    BY <1>t, <2>15, ThreadsAssumption DEF MAbortQueued
  <2>16. CASE MFinal
    BY <1>t, <2>16, ThreadsAssumption DEF MFinal
  <2>17. CASE MExpire
    BY <1>t, <2>17, ThreadsAssumption DEF MExpire
  <2>18. CASE MSpurious
    BY <1>t, <2>18, ThreadsAssumption DEF MSpurious
  <2> QED
    BY <1>2, <2>1, <2>2, <2>3, <2>4, <2>5, <2>6, <2>7, <2>8, <2>9, <2>10,
       <2>11, <2>12, <2>13, <2>14, <2>15, <2>16, <2>17, <2>18 DEF MStep
<1>3. CASE UNCHANGED vars
  BY <1>t, <1>3 DEF vars
<1> QED
  BY <1>1, <1>2, <1>3 DEF Next, Ended

-----------------------------------------------------------------------------
(* Steps that hand jobs on.                                                *)

\* _dequeue_job and start_thread_job: from the queue to one thread.
LEMMA StepDequeue ==
  ASSUME OwnerInv, NEW t \in Threads, WDequeue(t)
  PROVE  UniqueOwner' /\ CreatedOnce'
<1>t. TypeOK /\ Positioned /\ UniqueOwner /\ CreatedOnce
  BY DEF OwnerInv
<1> DEFINE j == Head(queue)
<1>1. /\ queue # << >> /\ pc[t] = "get"
      /\ queue' = Tail(queue) /\ job' = [job EXCEPT ![t] = j]
      /\ status' = [status EXCEPT ![j] = "in_progress"]
      /\ pc' = [pc EXCEPT ![t] = "proc"]
      /\ UNCHANGED <<alive, list, left, target, tjob>>
      /\ mpc' = mpc \/ (mpc = "waiting" /\ mpc' = "loop")
  BY DEF WDequeue, MainWoken, mainVars
<1>2. /\ j \in Jobs /\ j \in Range(queue) /\ j # NoJob
      /\ Range(queue') \subseteq Range(queue)
      /\ IsInjective(queue') /\ j \notin Range(queue')
  BY <1>1, <1>t, TailFacts, EntriesAssumption DEF TypeOK, UniqueOwner, Jobs
<1>3. job[t] = NoJob /\ (mpc \in {"cancel", "join"} => target # t)
  BY <1>1, <1>t DEF Positioned, ThreadPositioned, UniqueOwner
<1>4. /\ job'[t] = j /\ \A u \in Threads \ {t} : job'[u] = job[u]
      /\ pc'[t] = "proc" /\ \A u \in Threads \ {t} : pc'[u] = pc[u]
      /\ status'[j] = "in_progress" /\ \A k \in Jobs \ {j} : status'[k] = status[k]
  BY <1>1, <1>t, <1>2 DEF TypeOK
<1> HIDE DEF j
<1>10. \A u \in Threads : job[u] # j /\ j \notin Range(list[u]) /\ j \in alive
  BY <1>t, <1>2 DEF UniqueOwner
<1>5. UniqueOwner'
  <2>1. Range(queue') \subseteq alive'
    BY <1>t, <1>1, <1>2 DEF UniqueOwner
  <2>2. ASSUME NEW u \in Threads
        PROVE  /\ job'[u] \notin Range(queue')
               /\ job'[u] # NoJob => job'[u] \in alive'
               /\ IsInjective(list'[u])
               /\ Range(list'[u]) \subseteq alive' \ Range(queue')
    BY <1>t, <1>1, <1>2, <1>4, <1>10 DEF UniqueOwner
  <2>3. ASSUME NEW u \in Threads, NEW v \in Threads
        PROVE  /\ job'[v] \notin Range(list'[u])
               /\ v # u => /\ job'[u] # NoJob => job'[u] # job'[v]
                           /\ Range(list'[u]) \cap Range(list'[v]) = {}
    BY <1>t, <1>1, <1>4, <1>10 DEF UniqueOwner
  <2>4. mpc' \in {"cancel", "join"} => tjob' # NoJob /\ tjob' = job'[target']
    BY <1>t, <1>1, <1>3, <1>4 DEF UniqueOwner, Positioned
  <2> QED
    BY <1>2, <2>1, <2>2, <2>3, <2>4 DEF UniqueOwner
<1>6. status[j] = "queued" /\ \A e \in Kids(j) : status[e] = "none"
  BY <1>t, <1>2 DEF CreatedOnce, Unstarted
<1>7. \A u \in Threads : job[u] # j /\ j \notin Range(list[u]) /\ j \notin left[u]
  BY <1>t, <1>2, <1>6 DEF UniqueOwner, CreatedOnce
<1>8. \A e \in Jobs : status[e] = "none" => status'[e] = "none"
  BY <1>4, <1>6
<1>11. \A k \in Range(queue') : k \in Jobs /\ k # j
  BY <1>t, <1>2 DEF UniqueOwner, TypeOK
<1>9. CreatedOnce'
  <2>1. ASSUME NEW k \in Jobs
        PROVE  /\ status'[k] \in Unstarted \ {"queued"} => k \notin alive'
               /\ status'[k] \in Unstarted => \A e \in Kids(k) : status'[e] = "none"
    <3>1. status'[k] \in Unstarted => k # j /\ status'[k] = status[k]
      BY <1>4 DEF Unstarted
    <3>2. Kids(k) \subseteq Jobs
      BY DEF Kids, Jobs
    <3> QED
      BY <1>t, <1>1, <1>8, <3>1, <3>2 DEF CreatedOnce
  <2>2. \A k \in Range(queue') : status'[k] = "queued"
    BY <1>t, <1>2, <1>4, <1>11 DEF CreatedOnce
  <2>3. ASSUME NEW u \in Threads
        PROVE  /\ \A k \in Range(list'[u]) : status'[k] = "queued"
               /\ job'[u] # NoJob => status'[job'[u]] \notin Unstarted
               /\ pc'[u] \in Processing => status'[job'[u]] = "in_progress"
               /\ pc'[u] \in {"proc", "open", "opendir"} =>
                    \A e \in Kids(job'[u]) : status'[e] = "none"
               /\ \A e \in left'[u] : status'[e] = "none" /\ Parent[e] = job'[u]
    <3>1. \A k \in Range(list'[u]) : k \in Jobs /\ k # j /\ status[k] = "queued"
      BY <1>t, <1>1, <1>7 DEF UniqueOwner, CreatedOnce, TypeOK
    <3>2. \A e \in left[u] : e \in Jobs /\ e # j /\ status[e] = "none"
      BY <1>t, <1>7 DEF CreatedOnce, TypeOK, Jobs
    <3>3. Kids(job'[u]) \subseteq Jobs
      BY DEF Kids, Jobs
    <3>4. CASE u = t
      <4>1. left[t] = {}
        BY <1>t, <1>1 DEF Positioned, ThreadPositioned
      <4> QED
        BY <1>1, <1>4, <1>6, <1>8, <3>1, <3>3, <3>4, <4>1 DEF Unstarted
    <3>5. CASE u # t
      <4>1. job'[u] = job[u] /\ pc'[u] = pc[u] /\ job[u] # j
        BY <1>4, <1>7, <3>5
      <4>2. job[u] # NoJob => status'[job[u]] = status[job[u]]
        BY <1>t, <1>4, <4>1 DEF TypeOK
      <4>3. pc[u] \in Processing => job[u] # NoJob
        BY <1>t DEF Positioned, ThreadPositioned
      <4> QED
        BY <1>t, <1>1, <1>4, <1>8, <3>1, <3>2, <3>3, <4>1, <4>2, <4>3 DEF
           CreatedOnce
    <3> QED
      BY <3>4, <3>5
  <2> QED
    BY <2>1, <2>2, <2>3 DEF CreatedOnce
<1> QED
  BY <1>5, <1>9

\* create_job makes a job, for an entry that has had none.
LEMMA StepCreate ==
  ASSUME OwnerInv, NEW t \in Threads, NEW e \in left[t],
         NEW p \in {"enqueue", "readdir"}, CreateJob(t, e, p),
         pc[t] \in {"specs", "readdir"},
         left' = [left EXCEPT ![t] = @ \ {e}],
         UNCHANGED <<queue, job, target, tjob>>
  PROVE  UniqueOwner' /\ CreatedOnce'
<1>t. TypeOK /\ Positioned /\ UniqueOwner /\ CreatedOnce
  BY DEF OwnerInv
<1>1. /\ alive' = alive \cup {e}
      /\ list' = [list EXCEPT ![t] = Append(@, e)]
      /\ status' = [status EXCEPT ![e] = "queued"]
      /\ pc' = [pc EXCEPT ![t] = p] /\ mpc' = mpc
  BY DEF CreateJob
<1>2. /\ e \in Entries /\ e \in Jobs /\ status[e] = "none" /\ Parent[e] = job[t]
      /\ e \notin alive
  BY <1>t DEF TypeOK, CreatedOnce, Unstarted, Jobs
<1>3. /\ list'[t] = Append(list[t], e) /\ \A u \in Threads \ {t} : list'[u] = list[u]
      /\ left'[t] = left[t] \ {e} /\ \A u \in Threads \ {t} : left'[u] = left[u]
      /\ pc'[t] = p /\ \A u \in Threads \ {t} : pc'[u] = pc[u]
      /\ status'[e] = "queued" /\ \A k \in Jobs \ {e} : status'[k] = status[k]
  BY <1>1, <1>2, <1>t DEF TypeOK
<1>4. /\ Range(list'[t]) = Range(list[t]) \cup {e}
      /\ IsInjective(list[t]) /\ e \notin Range(list[t]) => IsInjective(list'[t])
  BY <1>2, <1>3, <1>t, AppendFacts DEF TypeOK
<1>5. /\ e \notin Range(queue)
      /\ \A u \in Threads : job[u] # e /\ e \notin Range(list[u])
  <2>1. \A u \in Threads : job[u] # e
    BY <1>2, <1>t, EntriesAssumption DEF UniqueOwner
  <2> QED
    BY <1>2, <1>t, <2>1 DEF UniqueOwner
<1>6. UniqueOwner'
  <2>1. ASSUME NEW u \in Threads
        PROVE  /\ IsInjective(list'[u])
               /\ Range(list'[u]) \subseteq alive' \ Range(queue)
    BY <1>t, <1>1, <1>3, <1>4, <1>5 DEF UniqueOwner
  <2>2. ASSUME NEW u \in Threads, NEW v \in Threads
        PROVE  /\ job[v] \notin Range(list'[u])
               /\ v # u => Range(list'[u]) \cap Range(list'[v]) = {}
    <3>1. \A w \in Threads : Range(list'[w]) \subseteq Range(list[w]) \cup {e}
      BY <1>3, <1>4
    <3>2. \A w \in Threads \ {t} : e \notin Range(list'[w])
      BY <1>3, <1>5
    <3> QED
      BY <1>t, <1>5, <3>1, <3>2 DEF UniqueOwner
  <2> QED
    BY <1>t, <1>1, <2>1, <2>2 DEF UniqueOwner
<1>7. job[t] # NoJob /\ \A u \in Threads \ {t} : job[u] # job[t]
  BY <1>t DEF Positioned, ThreadPositioned, UniqueOwner, Processing
<1>8. job[t] \in Jobs /\ status[job[t]] = "in_progress" /\ job[t] # e
  BY <1>t, <1>2, <1>7 DEF TypeOK, CreatedOnce, Processing
<1>9. \A j \in Jobs : status'[j] \in Unstarted => \A k \in Kids(j) : status'[k] = "none"
  <2> SUFFICES ASSUME NEW j \in Jobs, status'[j] \in Unstarted, NEW k \in Kids(j)
               PROVE  status'[k] = "none"
    OBVIOUS
  <2>1. status[j] \in Unstarted
    BY <1>2, <1>3 DEF Unstarted
  <2>2. status[k] = "none" /\ k \in Jobs
    BY <1>t, <2>1 DEF CreatedOnce, Kids, Jobs
  <2>3. k # e
    BY <1>2, <1>8, <2>1 DEF Kids, Unstarted
  <2> QED
    BY <1>3, <2>2, <2>3
<1>10. \A j \in Jobs : status'[j] \in Unstarted \ {"queued"} => j \notin alive'
  BY <1>t, <1>1, <1>3 DEF CreatedOnce
<1>11. \A j \in Range(queue) : j \in Jobs /\ status'[j] = "queued"
  BY <1>t, <1>3, <1>5 DEF CreatedOnce, UniqueOwner, TypeOK
<1>12. ASSUME NEW u \in Threads
       PROVE  /\ \A j \in Range(list'[u]) : status'[j] = "queued"
              /\ job[u] # NoJob => status'[job[u]] \notin Unstarted
              /\ pc'[u] \in Processing => status'[job[u]] = "in_progress"
              /\ pc'[u] \in {"proc", "open", "opendir"} =>
                   \A k \in Kids(job[u]) : status'[k] = "none"
              /\ \A k \in left'[u] : status'[k] = "none" /\ Parent[k] = job[u]
  <2>1. \A j \in Range(list'[u]) : status'[j] = "queued"
    <3>1. \A j \in Range(list'[u]) : j = e \/ (j \in Range(list[u]) /\ j # e /\ j \in Jobs)
      BY <1>t, <1>3, <1>4, <1>5 DEF UniqueOwner, TypeOK
    <3> QED
      BY <1>t, <1>3, <3>1 DEF CreatedOnce
  <2>2. /\ job[u] # NoJob => status'[job[u]] \notin Unstarted
        /\ pc'[u] \in Processing => status'[job[u]] = "in_progress"
    BY <1>t, <1>3, <1>5, <1>8 DEF CreatedOnce, TypeOK, Positioned,
       ThreadPositioned
  <2>3. pc'[u] \in {"proc", "open", "opendir"} =>
                   \A k \in Kids(job[u]) : status'[k] = "none"
    BY <1>t, <1>2, <1>3, <1>7 DEF CreatedOnce, Kids, Jobs
  <2>4. \A k \in left'[u] : status'[k] = "none" /\ Parent[k] = job[u]
    BY <1>t, <1>2, <1>3, <1>7 DEF CreatedOnce, TypeOK, Jobs
  <2> QED
    BY <2>1, <2>2, <2>3, <2>4
<1>13. CreatedOnce'
  BY <1>9, <1>10, <1>11, <1>12 DEF CreatedOnce
<1> QED
  BY <1>6, <1>13

\* create_job makes no job, and never will for that entry.
LEMMA StepNoJob ==
  ASSUME OwnerInv, NEW t \in Threads, NEW e \in left[t],
         pc[t] \in {"specs", "readdir"},
         StatFails(t, e) \/ SkipType(t, e),
         left' = [left EXCEPT ![t] = @ \ {e}],
         UNCHANGED <<queue, job, target, tjob>>
  PROVE  UniqueOwner' /\ CreatedOnce'
<1>t. TypeOK /\ Positioned /\ UniqueOwner /\ CreatedOnce
  BY DEF OwnerInv
<1>1. PICK s \in {"statfail", "typeexcl"} : status' = [status EXCEPT ![e] = s]
  BY DEF StatFails, SkipType
<1>2. UNCHANGED <<alive, list>>
  BY DEF StatFails, SkipType
<1>3. mpc' = mpc \/ mpc' = "loop"
  BY DEF StatFails, SkipType, ReadError, AbortIf, MainWoken
<1>4. \A u \in Threads : pc'[u] = pc[u] \/ pc'[u] = "get"
  BY <1>t DEF StatFails, SkipType, ReadError, AbortIf, WakeAll
<1>5. /\ e \in Entries /\ e \in Jobs /\ status[e] = "none" /\ Parent[e] = job[t]
      /\ e \notin alive
  BY <1>t DEF TypeOK, CreatedOnce, Unstarted, Jobs
<1>6. /\ left'[t] = left[t] \ {e} /\ \A u \in Threads \ {t} : left'[u] = left[u]
      /\ status'[e] = s /\ \A k \in Jobs \ {e} : status'[k] = status[k]
  BY <1>1, <1>5, <1>t DEF TypeOK
<1>7. UniqueOwner'
  BY <1>t, <1>2, <1>3 DEF UniqueOwner
<1>8. /\ e \notin Range(queue)
      /\ \A u \in Threads : job[u] # e /\ e \notin Range(list[u])
  <2>1. \A u \in Threads : job[u] # e
    BY <1>5, <1>t, EntriesAssumption DEF UniqueOwner
  <2> QED
    BY <1>5, <1>t, <2>1 DEF UniqueOwner
<1>9. /\ job[t] # NoJob /\ \A u \in Threads \ {t} : job[u] # job[t]
      /\ job[t] \in Jobs /\ status[job[t]] = "in_progress" /\ job[t] # e
  BY <1>t, <1>8 DEF Positioned, ThreadPositioned, UniqueOwner, Processing,
     TypeOK, CreatedOnce
<1>10. ASSUME NEW j \in Jobs
       PROVE  /\ status'[j] \in Unstarted \ {"queued"} => j \notin alive
              /\ status'[j] \in Unstarted => \A k \in Kids(j) : status'[k] = "none"
  <2>1. status'[j] \in Unstarted \ {"queued"} => j \notin alive
    BY <1>t, <1>5, <1>6 DEF CreatedOnce
  <2>2. ASSUME status'[j] \in Unstarted, NEW k \in Kids(j) PROVE status'[k] = "none"
    <3>1. status[j] \in Unstarted
      BY <1>5, <1>6, <2>2 DEF Unstarted
    <3>2. status[k] = "none" /\ k \in Jobs
      BY <1>t, <3>1 DEF CreatedOnce, Kids, Jobs
    <3>3. k # e
      BY <1>5, <1>9, <3>1 DEF Kids, Unstarted
    <3> QED
      BY <1>6, <3>2, <3>3
  <2> QED
    BY <2>1, <2>2
<1>11. \A j \in Range(queue) : status'[j] = "queued"
  BY <1>t, <1>6, <1>8, NoJobFacts DEF CreatedOnce
<1>12. ASSUME NEW u \in Threads
       PROVE  /\ \A j \in Range(list[u]) : status'[j] = "queued"
              /\ job[u] # NoJob => status'[job[u]] \notin Unstarted
              /\ pc'[u] \in Processing => status'[job[u]] = "in_progress"
              /\ pc'[u] \in {"proc", "open", "opendir"} =>
                   \A k \in Kids(job[u]) : status'[k] = "none"
              /\ \A k \in left'[u] : status'[k] = "none" /\ Parent[k] = job[u]
  <2>1. \A j \in Range(list[u]) : status'[j] = "queued"
    BY <1>t, <1>6, <1>8, NoJobFacts DEF CreatedOnce, Jobs
  <2>2. job[u] # NoJob => status'[job[u]] = status[job[u]]
    BY <1>t, <1>6, <1>8 DEF TypeOK
  <2>3. pc'[u] \in Processing => pc[u] \in Processing /\ pc'[u] = pc[u] /\ job[u] # NoJob
    BY <1>t, <1>4 DEF Processing, Positioned, ThreadPositioned
  <2>4. pc'[u] \in {"proc", "open", "opendir"} =>
                   \A k \in Kids(job[u]) : status'[k] = "none"
    <3> SUFFICES ASSUME pc'[u] \in {"proc", "open", "opendir"}, NEW k \in Kids(job[u])
                 PROVE  status'[k] = "none"
      OBVIOUS
    <3>1. u # t /\ pc[u] \in {"proc", "open", "opendir"}
      BY <1>4
    <3>2. k \in Jobs /\ k # e /\ status[k] = "none"
      BY <1>t, <1>5, <1>9, <3>1 DEF CreatedOnce, Kids, Jobs
    <3> QED
      BY <1>6, <3>2
  <2>5. \A k \in left'[u] : status'[k] = "none" /\ Parent[k] = job[u]
    BY <1>t, <1>5, <1>6, <1>9 DEF CreatedOnce, TypeOK, Jobs
  <2> QED
    BY <1>t, <2>1, <2>2, <2>3, <2>4, <2>5 DEF CreatedOnce
<1>13. CreatedOnce'
  BY <1>2, <1>10, <1>11, <1>12 DEF CreatedOnce
<1> QED
  BY <1>7, <1>13

\* A chain of new jobs goes to the queue.
LEMMA StepInsert ==
  ASSUME OwnerInv, NEW t \in Threads,
         pc[t] \in {"enqueue", "readdir"},
         IsInjective(queue'), Range(queue') \subseteq Range(queue) \cup Range(list[t]),
         list' = [list EXCEPT ![t] = << >>],
         UNCHANGED <<alive, job, target, tjob, mpc>>
  PROVE  UniqueOwner'
<1>t. TypeOK /\ Positioned /\ UniqueOwner
  BY DEF OwnerInv
<1>1. list'[t] = << >> /\ \A u \in Threads \ {t} : list'[u] = list[u]
  BY <1>t DEF TypeOK
<1>2. IsInjective(list'[t]) /\ Range(list'[t]) = {}
  <2>1. DOMAIN << >> = {}
    OBVIOUS
  <2> QED
    BY <1>1, <2>1 DEF IsInjective, Range
<1>3. Range(queue') \subseteq alive
  BY <1>t DEF UniqueOwner
<1>4. ASSUME NEW u \in Threads
      PROVE  /\ job[u] \notin Range(queue')
             /\ IsInjective(list'[u])
             /\ Range(list'[u]) \subseteq alive \ Range(queue')
  BY <1>t, <1>1, <1>2 DEF UniqueOwner
<1>5. ASSUME NEW u \in Threads, NEW v \in Threads
      PROVE  /\ job[v] \notin Range(list'[u])
             /\ v # u => Range(list'[u]) \cap Range(list'[v]) = {}
  BY <1>t, <1>1, <1>2 DEF UniqueOwner
<1> QED
  BY <1>t, <1>3, <1>4, <1>5 DEF UniqueOwner

\* queue_job; what _queue_job_tail loses is lost to everyone.
LEMMA StepEnqueue ==
  ASSUME OwnerInv, NEW t \in Threads, WEnqueue(t)
  PROVE  UniqueOwner' /\ CreatedOnce'
<1>t. TypeOK /\ Positioned /\ UniqueOwner /\ CreatedOnce
  BY DEF OwnerInv
<1> DEFINE j == Head(list[t])
<1>1. /\ pc[t] = "enqueue" /\ queue' = TailInsert(j)
      /\ list' = [list EXCEPT ![t] = << >>]
      /\ pc' \in WakeOne([pc EXCEPT ![t] = "specs"])
      /\ UNCHANGED <<status, alive, job, target, tjob, mpc, left>>
  BY DEF WEnqueue, jobVars, mainVars
<1>2. list[t] \in Seq(Entries) /\ list[t] # << >>
  BY <1>t, <1>1 DEF TypeOK, Positioned, ThreadPositioned
<1>3. j \in Entries /\ j \in Jobs /\ j \in Range(list[t])
  BY <1>2, TailFacts DEF Jobs
<1> HIDE DEF j
<1>4. IsInjective(queue') /\ Range(queue') \subseteq Range(queue) \cup {j}
  <2>1. CASE tail # NoJob
    <3>1. queue \in Seq(Jobs) /\ IsInjective(queue) /\ j \notin Range(queue)
      BY <1>t, <1>3 DEF TypeOK, UniqueOwner
    <3> QED
      BY <1>1, <1>3, <2>1, <3>1, AppendFacts DEF TailInsert
  <2>2. CASE tail = NoJob
    <3>1. queue' = <<j>>
      BY <1>1, <2>2 DEF TailInsert
    <3>2. DOMAIN <<j>> = {1} /\ <<j>>[1] = j
      OBVIOUS
    <3> QED
      BY <3>1, <3>2 DEF IsInjective, Range
  <2> QED
    BY <2>1, <2>2
<1>5. UniqueOwner'
  BY <1>1, <1>3, <1>4, StepInsert
<1>6. \A u \in Threads : pc'[u] = pc[u] \/ pc'[u] \in {"specs", "get"}
  BY <1>t, <1>1 DEF WakeOne, TypeOK
<1>7. list'[t] = << >> /\ \A u \in Threads \ {t} : list'[u] = list[u]
  BY <1>t, <1>1 DEF TypeOK
<1>8. ASSUME NEW u \in Threads
      PROVE  /\ \A k \in Range(list'[u]) : status[k] = "queued"
             /\ pc'[u] \in Processing => status[job[u]] = "in_progress"
  <2>1. Range(<< >>) = {}
    BY DEF Range
  <2>2. pc'[u] \in Processing => pc[u] \in Processing
    <3>1. u # t => pc'[u] = pc[u] \/ pc'[u] = "get"
      BY <1>t, <1>1 DEF WakeOne, TypeOK
    <3> QED
      BY <1>1, <3>1 DEF Processing
  <2> QED
    BY <1>t, <1>7, <2>1, <2>2 DEF CreatedOnce
<1>9. \A k \in Range(queue') : status[k] = "queued"
  BY <1>t, <1>3, <1>4 DEF CreatedOnce
<1>10. CreatedOnce'
  BY <1>t, <1>1, <1>6, <1>8, <1>9 DEF CreatedOnce
<1> QED
  BY <1>5, <1>10

\* queue_jobs puts the chain of a scan before the queue.
LEMMA StepQueueJobs ==
  ASSUME OwnerInv, NEW t \in Threads, WQueueJobs(t)
  PROVE  UniqueOwner' /\ CreatedOnce'
<1>t. TypeOK /\ Positioned /\ UniqueOwner /\ CreatedOnce
  BY DEF OwnerInv
<1>1. /\ pc[t] = "readdir" /\ queue' = list[t] \o queue
      /\ list' = [list EXCEPT ![t] = << >>]
      /\ status' = [status EXCEPT ![job[t]] = "done"]
      /\ UNCHANGED <<alive, job, target, tjob, mpc, left>>
  BY DEF WQueueJobs, HeadInsert, mainVars
<1>2. list[t] \in Seq(Jobs) /\ queue \in Seq(Jobs)
  BY <1>t DEF TypeOK, Jobs
<1>3. IsInjective(queue') /\ Range(queue') = Range(list[t]) \cup Range(queue)
  BY <1>t, <1>1, <1>2, ConcatFacts DEF UniqueOwner
<1>4. UniqueOwner'
  BY <1>1, <1>3, StepInsert
<1>5. job[t] \in Jobs /\ job[t] # NoJob /\ status[job[t]] = "in_progress"
  BY <1>t, <1>1 DEF Positioned, ThreadPositioned, TypeOK, CreatedOnce,
     Processing
<1>6. /\ status'[job[t]] = "done" /\ \A k \in Jobs \ {job[t]} : status'[k] = status[k]
      /\ list'[t] = << >> /\ \A u \in Threads \ {t} : list'[u] = list[u]
  BY <1>t, <1>1, <1>5 DEF TypeOK
<1>7. \A k \in Jobs : status[k] \in Unstarted \/ status'[k] \in Unstarted => status'[k] = status[k]
  BY <1>5, <1>6 DEF Unstarted
<1>8. \A u \in Threads : (u # t /\ pc'[u] = pc[u]) \/ pc'[u] \in {"post", "get"}
  BY <1>t, <1>1 DEF WQueueJobs, WakeAll, TypeOK
<1>9. \A u \in Threads \ {t} : job[u] # job[t]
  BY <1>t, <1>5 DEF UniqueOwner
<1>10. ASSUME NEW k \in Jobs
       PROVE  /\ status'[k] \in Unstarted \ {"queued"} => k \notin alive
              /\ status'[k] \in Unstarted => \A e \in Kids(k) : status'[e] = "none"
  <2>1. Kids(k) \subseteq Jobs
    BY DEF Kids, Jobs
  <2> QED
    BY <1>t, <1>7, <2>1 DEF CreatedOnce, Unstarted
<1>11. \A k \in Range(queue') : status'[k] = "queued"
  BY <1>t, <1>3, <1>7, NoJobFacts DEF CreatedOnce, Unstarted, Jobs
<1>12. ASSUME NEW u \in Threads
       PROVE  /\ \A k \in Range(list'[u]) : status'[k] = "queued"
              /\ job[u] # NoJob => status'[job[u]] \notin Unstarted
              /\ pc'[u] \in Processing => status'[job[u]] = "in_progress"
              /\ pc'[u] \in {"proc", "open", "opendir"} =>
                   \A e \in Kids(job[u]) : status'[e] = "none"
              /\ \A e \in left[u] : status'[e] = "none" /\ Parent[e] = job[u]
  <2>1. \A k \in Range(list'[u]) : status'[k] = "queued"
    <3>1. Range(<< >>) = {}
      BY DEF Range
    <3> QED
      BY <1>t, <1>6, <1>7, <3>1, NoJobFacts DEF CreatedOnce, Unstarted, Jobs
  <2>2. job[u] # NoJob => status'[job[u]] \notin Unstarted
    BY <1>t, <1>7 DEF CreatedOnce, TypeOK
  <2>3. pc'[u] \in Processing => status'[job[u]] = "in_progress"
    <3>1. pc[u] \in Processing => job[u] # NoJob
      BY <1>t DEF Positioned, ThreadPositioned
    <3>2. pc'[u] \in Processing => u # t /\ pc[u] \in Processing
      BY <1>8 DEF Processing
    <3> QED
      BY <1>t, <1>6, <1>9, <3>1, <3>2 DEF CreatedOnce, TypeOK
  <2>4. pc'[u] \in {"proc", "open", "opendir"} =>
          \A e \in Kids(job[u]) : status'[e] = "none"
    <3>1. Kids(job[u]) \subseteq Jobs
      BY DEF Kids, Jobs
    <3> QED
      BY <1>t, <1>7, <1>8, <3>1 DEF CreatedOnce, Unstarted
  <2>5. \A e \in left[u] : status'[e] = "none" /\ Parent[e] = job[u]
    BY <1>t, <1>7 DEF CreatedOnce, Unstarted, TypeOK, Jobs
  <2> QED
    BY <2>1, <2>2, <2>3, <2>4, <2>5
<1>13. CreatedOnce'
  BY <1>1, <1>10, <1>11, <1>12 DEF CreatedOnce
<1> QED
  BY <1>4, <1>13

\* A thread lets go of its job, which is freed.
LEMMA StepRelease ==
  ASSUME OwnerInv, NEW t \in Threads,
         job' = [job EXCEPT ![t] = NoJob],
         alive' = alive \ {job[t]} \/ (job[t] = NoJob /\ alive' = alive),
         UNCHANGED <<queue, list, target, tjob>>,
         mpc' \in {"cancel", "join"} => mpc' = mpc /\ target # t
  PROVE  UniqueOwner'
<1>t. TypeOK /\ Positioned /\ UniqueOwner
  BY DEF OwnerInv
<1>1. job'[t] = NoJob /\ \A u \in Threads \ {t} : job'[u] = job[u]
  BY <1>t DEF TypeOK
<1>2. /\ job[t] \notin Range(queue)
      /\ \A u \in Threads : job[t] \notin Range(list[u])
      /\ \A u \in Threads \ {t} : job[t] # NoJob => job[u] # job[t]
  BY <1>t DEF UniqueOwner
<1>3. Range(queue) \subseteq alive'
  BY <1>t, <1>2 DEF UniqueOwner
<1>4. ASSUME NEW u \in Threads
      PROVE  /\ job'[u] \notin Range(queue)
             /\ job'[u] # NoJob => job'[u] \in alive'
             /\ Range(list[u]) \subseteq alive' \ Range(queue)
  BY <1>t, <1>1, <1>2, NoJobFacts DEF UniqueOwner
<1>5. ASSUME NEW u \in Threads, NEW v \in Threads
      PROVE  /\ job'[v] \notin Range(list[u])
             /\ v # u => /\ job'[u] # NoJob => job'[u] # job'[v]
                         /\ Range(list[u]) \cap Range(list[v]) = {}
  <2>1. NoJob \notin Range(list[u])
    BY <1>t, NoJobFacts DEF Jobs
  <2> QED
    BY <1>t, <1>1, <2>1 DEF UniqueOwner
<1>6. mpc' \in {"cancel", "join"} => tjob # NoJob /\ tjob = job'[target]
  BY <1>t, <1>1 DEF UniqueOwner, Positioned
<1> QED
  BY <1>t, <1>3, <1>4, <1>5, <1>6 DEF UniqueOwner

\* _complete_job and cleanup_thread are such steps: no job is timed out there.
LEMMA StepReleases ==
  ASSUME OwnerInv, MReapJoin \/ \E t \in Threads : WComplete(t)
  PROVE  UniqueOwner'
<1>t. TypeOK /\ Positioned
  BY DEF OwnerInv
<1>1. ASSUME NEW t \in Threads, WComplete(t) PROVE UniqueOwner'
  <2>1. /\ job' = [job EXCEPT ![t] = NoJob] /\ alive' = alive \ {job[t]}
        /\ UNCHANGED <<queue, list, target, tjob>>
        /\ mpc' = mpc \/ mpc' = "loop"
        /\ ~timedOut[t]
    BY <1>1 DEF WComplete, FreeJob, mainVars, MainWoken, StillMine
  <2>2. mpc' \in {"cancel", "join"} => mpc' = mpc /\ target # t
    BY <1>t, <2>1 DEF Positioned
  <2> QED
    BY <2>1, <2>2, StepRelease
<1>2. CASE MReapJoin
  <2>1. /\ target \in Threads
        /\ job' = [job EXCEPT ![target] = NoJob]
        /\ alive' = alive \ {job[target]} \/ (job[target] = NoJob /\ alive' = alive)
        /\ UNCHANGED <<queue, list, target, tjob>>
        /\ mpc' \notin {"cancel", "join"}
    BY <1>2, <1>t DEF MReapJoin, FreeJob, queueVars, mainVars, Positioned
  <2> QED
    BY <2>1, StepRelease
<1> QED
  BY <1>1, <1>2

\* A scan begins, with nothing created from it so far.
LEMMA StepScan ==
  ASSUME OwnerInv, NEW t \in Threads, pc[t] \in {"open", "opendir"},
         NEW p \in {"specs", "readdir"}, pc' = [pc EXCEPT ![t] = p],
         left' = [left EXCEPT ![t] = Kids(job[t])],
         UNCHANGED <<queue, status, alive, job, list>>
  PROVE  CreatedOnce'
<1>t. TypeOK /\ CreatedOnce
  BY DEF OwnerInv
<1>1. /\ pc'[t] = p /\ \A u \in Threads \ {t} : pc'[u] = pc[u]
      /\ left'[t] = Kids(job[t]) /\ \A u \in Threads \ {t} : left'[u] = left[u]
  BY <1>t DEF TypeOK
<1>2. ASSUME NEW u \in Threads
      PROVE  /\ pc'[u] \in Processing => status[job[u]] = "in_progress"
             /\ pc'[u] \in {"proc", "open", "opendir"} =>
                  \A e \in Kids(job[u]) : status[e] = "none"
             /\ \A e \in left'[u] : status[e] = "none" /\ Parent[e] = job[u]
  BY <1>t, <1>1 DEF CreatedOnce, Processing, Kids
<1> QED
  BY <1>t, <1>2 DEF CreatedOnce

\* open_output and dref_create begin scans.
LEMMA StepScans ==
  ASSUME OwnerInv, NEW t \in Threads, WOpen(t) \/ WOpendir(t)
  PROVE  CreatedOnce'
<1>1. pc[t] = "open" => job[t] = InitJob
  BY DEF OwnerInv, Positioned, ThreadPositioned
<1>2. CASE WOpen(t)
  BY <1>1, <1>2, StepScan DEF WOpen, queueVars, jobVars
<1>3. CASE WOpendir(t)
  BY <1>3, StepScan DEF WOpendir, queueVars
<1> QED
  BY <1>2, <1>3

\* _timeout_thread gives a result to a job that was started.
LEMMA StepInterrupt ==
  ASSUME OwnerInv, MRestart \/ MRestartFails
  PROVE  CreatedOnce'
<1>t. TypeOK /\ CreatedOnce /\ UniqueOwner /\ Positioned
  BY DEF OwnerInv
<1> DEFINE s == Interrupted(status[tjob])
<1>1. /\ target \in Threads /\ tjob # NoJob /\ tjob = job[target] /\ tjob \in Jobs
  BY <1>t DEF MRestart, MRestartFails, UniqueOwner, Positioned, TypeOK
<1>2. /\ status' = [status EXCEPT ![tjob] = s]
      /\ UNCHANGED <<queue, alive, job, list, left>>
  BY DEF MRestart, MRestartFails, queueVars
<1>3. status[tjob] \notin Unstarted /\ s \notin Unstarted
  BY <1>t, <1>1 DEF CreatedOnce, Interrupted, Unstarted, Final
<1> HIDE DEF s
<1>4. status'[tjob] = s /\ \A k \in Jobs \ {tjob} : status'[k] = status[k]
  BY <1>t, <1>1, <1>2 DEF TypeOK
<1>5. \A k \in Jobs : status[k] \in Unstarted \/ status'[k] \in Unstarted => status'[k] = status[k]
  BY <1>3, <1>4
<1>6. \A u \in Threads : pc'[u] \in Processing => pc'[u] = pc[u] /\ u # target
  <2>1. \A u \in Threads : pc'[u] = pc[u] \/ pc'[u] \in {"begin", "joined", "get"}
    BY <1>t, <1>1 DEF TypeOK, MRestart, MRestartFails, WakeAll
  <2> QED
    BY <1>1, <2>1 DEF MRestart, MRestartFails, Processing
<1>7. \A u \in Threads : u # target => job[u] # tjob
  BY <1>t, <1>1 DEF UniqueOwner
<1>8. ASSUME NEW k \in Jobs
      PROVE  /\ status'[k] \in Unstarted \ {"queued"} => k \notin alive
             /\ status'[k] \in Unstarted => \A e \in Kids(k) : status'[e] = "none"
  <2>1. Kids(k) \subseteq Jobs
    BY DEF Kids, Jobs
  <2> QED
    BY <1>t, <1>5, <2>1 DEF CreatedOnce, Unstarted
<1>9. \A k \in Range(queue) : status'[k] = "queued"
  BY <1>t, <1>5, NoJobFacts DEF CreatedOnce, Unstarted
<1>10. ASSUME NEW u \in Threads
       PROVE  /\ \A k \in Range(list[u]) : status'[k] = "queued"
              /\ job[u] # NoJob => status'[job[u]] \notin Unstarted
              /\ pc'[u] \in Processing => status'[job[u]] = "in_progress"
              /\ pc'[u] \in {"proc", "open", "opendir"} =>
                   \A e \in Kids(job[u]) : status'[e] = "none"
              /\ \A e \in left[u] : status'[e] = "none" /\ Parent[e] = job[u]
  <2>1. \A k \in Range(list[u]) : status'[k] = "queued"
    BY <1>t, <1>5, NoJobFacts DEF CreatedOnce, Unstarted, Jobs
  <2>2. job[u] # NoJob => status'[job[u]] \notin Unstarted
    BY <1>t, <1>5 DEF CreatedOnce, TypeOK
  <2>3. pc'[u] \in Processing => status'[job[u]] = "in_progress"
    <3>1. pc[u] \in Processing => job[u] # NoJob
      BY <1>t DEF Positioned, ThreadPositioned
    <3> QED
      BY <1>t, <1>4, <1>6, <1>7, <3>1 DEF CreatedOnce, TypeOK
  <2>4. pc'[u] \in {"proc", "open", "opendir"} =>
          \A e \in Kids(job[u]) : status'[e] = "none"
    <3>1. Kids(job[u]) \subseteq Jobs
      BY DEF Kids, Jobs
    <3> QED
      BY <1>t, <1>5, <1>6, <3>1 DEF CreatedOnce, Unstarted, Processing
  <2>5. \A e \in left[u] : status'[e] = "none" /\ Parent[e] = job[u]
    BY <1>t, <1>5 DEF CreatedOnce, Unstarted, TypeOK, Jobs
  <2> QED
    BY <2>1, <2>2, <2>3, <2>4, <2>5
<1> QED
  BY <1>2, <1>8, <1>9, <1>10 DEF CreatedOnce

\* abort_queued_jobs takes a job that no thread has.
LEMMA StepAbortQueued ==
  ASSUME OwnerInv, MAbortQueued
  PROVE  UniqueOwner' /\ CreatedOnce'
<1>t. TypeOK /\ Positioned /\ UniqueOwner /\ CreatedOnce
  BY DEF OwnerInv
<1> DEFINE j == Head(queue)
<1>1. /\ queue # << >> /\ mpc = "final" /\ queue' = Tail(queue)
      /\ status' = [status EXCEPT ![j] = "failed"]
      /\ alive' = alive \ {j}
      /\ UNCHANGED <<pc, job, list, left, mpc>>
  BY DEF MAbortQueued, FreeJob, threadVars
<1>2. /\ j \in Jobs /\ j \in Range(queue)
      /\ Range(queue') \subseteq Range(queue)
      /\ IsInjective(queue') /\ j \notin Range(queue')
  BY <1>1, <1>t, TailFacts DEF TypeOK, UniqueOwner
<1> HIDE DEF j
<1>3. \A u \in Threads : job[u] # j /\ j \notin Range(list[u])
  BY <1>t, <1>2 DEF UniqueOwner
<1>4. UniqueOwner'
  <2>1. Range(queue') \subseteq alive'
    BY <1>t, <1>1, <1>2 DEF UniqueOwner
  <2>2. ASSUME NEW u \in Threads
        PROVE  /\ job[u] \notin Range(queue')
               /\ job[u] # NoJob => job[u] \in alive'
               /\ Range(list[u]) \subseteq alive' \ Range(queue')
    BY <1>t, <1>1, <1>2, <1>3 DEF UniqueOwner
  <2> QED
    BY <1>t, <1>1, <1>2, <2>1, <2>2 DEF UniqueOwner
<1>5. status[j] = "queued"
  BY <1>t, <1>2 DEF CreatedOnce
<1>6. status'[j] = "failed" /\ \A k \in Jobs \ {j} : status'[k] = status[k]
  BY <1>t, <1>1, <1>2 DEF TypeOK
<1>7. \A k \in Jobs : (k # j /\ status[k] \in Unstarted) \/ status'[k] \in Unstarted
                        => k # j /\ status'[k] = status[k]
  BY <1>6 DEF Unstarted
<1>8. \A k \in Jobs : status[k] = "none" => status'[k] = "none"
  BY <1>5, <1>6
<1>9. ASSUME NEW k \in Jobs
      PROVE  /\ status'[k] \in Unstarted \ {"queued"} => k \notin alive'
             /\ status'[k] \in Unstarted => \A e \in Kids(k) : status'[e] = "none"
  <2>1. Kids(k) \subseteq Jobs
    BY DEF Kids, Jobs
  <2> QED
    BY <1>t, <1>1, <1>7, <1>8, <2>1 DEF CreatedOnce
<1>10. \A k \in Range(queue') : status'[k] = "queued"
  BY <1>t, <1>2, <1>6, NoJobFacts DEF CreatedOnce
<1>11. ASSUME NEW u \in Threads
       PROVE  /\ \A k \in Range(list[u]) : status'[k] = "queued"
              /\ job[u] # NoJob => status'[job[u]] = status[job[u]]
              /\ \A e \in Kids(job[u]) : status[e] = "none" => status'[e] = "none"
              /\ \A e \in left[u] : status'[e] = "none"
  <2>1. \A k \in Range(list[u]) : status'[k] = "queued"
    BY <1>t, <1>3, <1>6, NoJobFacts DEF CreatedOnce, Jobs
  <2>2. job[u] # NoJob => status'[job[u]] = status[job[u]]
    BY <1>t, <1>3, <1>6 DEF TypeOK
  <2>3. \A e \in Kids(job[u]) : status[e] = "none" => status'[e] = "none"
    BY <1>8 DEF Kids, Jobs
  <2>4. \A e \in left[u] : status'[e] = "none"
    BY <1>t, <1>8 DEF CreatedOnce, TypeOK, Jobs
  <2> QED
    BY <2>1, <2>2, <2>3, <2>4
<1>12. \A u \in Threads : pc[u] \in Processing => job[u] # NoJob
  BY <1>t DEF Positioned, ThreadPositioned
<1>13. CreatedOnce'
  BY <1>t, <1>1, <1>9, <1>10, <1>11, <1>12 DEF CreatedOnce
<1> QED
  BY <1>4, <1>13

\* Both callers of create_job.
LEMMA StepCreates ==
  ASSUME OwnerInv, NEW t \in Threads, WSpec(t) \/ WReaddir(t)
  PROVE  UniqueOwner' /\ CreatedOnce'
<1>1. PICK e \in left[t] :
        /\ left' = [left EXCEPT ![t] = @ \ {e}]
        /\ \/ \E p \in {"enqueue", "readdir"} : CreateJob(t, e, p)
           \/ StatFails(t, e) \/ SkipType(t, e)
  BY DEF WSpec, WReaddir
<1>2. pc[t] \in {"specs", "readdir"} /\ UNCHANGED <<queue, job, target, tjob>>
  BY DEF WSpec, WReaddir, queueVars, mainVars
<1>3. CASE \E p \in {"enqueue", "readdir"} : CreateJob(t, e, p)
  BY <1>1, <1>2, <1>3, StepCreate
<1>4. CASE StatFails(t, e) \/ SkipType(t, e)
  BY <1>1, <1>2, <1>4, StepNoJob
<1> QED
  BY <1>1, <1>3, <1>4

\* After every step a job has one owner.
LEMMA OwnerStep == OwnerInv /\ [Next]_vars => UniqueOwner'
<1> SUFFICES ASSUME OwnerInv, [Next]_vars PROVE UniqueOwner'
  OBVIOUS
<1>t. TypeOK /\ Positioned /\ UniqueOwner /\ CreatedOnce
  BY DEF OwnerInv
<1> USE DEF TypeOK, Positioned, ThreadPositioned, UniqueOwner, queueVars,
   fileVars, jobVars, threadVars, mainVars
<1>1. ASSUME NEW t \in Threads,
             WStep(t) \/ WInput(t) \/ WOutput(t) \/ WSpurious(t)
      PROVE  UniqueOwner'
  <2>1. CASE WBegin(t)
    BY <1>t, <2>1 DEF WBegin
  <2>2. CASE WDequeue(t)
    BY <2>2, StepDequeue
  <2>3. CASE WLeave(t)
    BY <1>t, <2>3 DEF WLeave, MainWoken, Exits
  <2>4. CASE WWait(t)
    BY <1>t, <2>4 DEF WWait
  <2>5. CASE WExclude(t)
    BY <1>t, <2>5 DEF WExclude
  <2>6. CASE WNoRecursion(t)
    BY <1>t, <2>6 DEF WNoRecursion
  <2>7. CASE WProc(t)
    BY <1>t, <2>7 DEF WProc, WorkFor
  <2>8. CASE WOpen(t)
    BY <1>t, <2>8 DEF WOpen
  <2>9. CASE WOpenFails(t)
    BY <1>t, <2>9 DEF WOpenFails, WakeAll, MainWoken, AbortIf
  <2>10. CASE WSpec(t)
    BY <2>10, StepCreates
  <2>11. CASE WEnqueue(t)
    BY <2>11, StepEnqueue
  <2>12. CASE WSpecsDone(t)
    BY <1>t, <2>12 DEF WSpecsDone
  <2>13. CASE WOpendir(t)
    BY <1>t, <2>13 DEF WOpendir
  <2>14. CASE WOpendirFails(t)
    BY <1>t, <2>14 DEF WOpendirFails, WakeAll, MainWoken, AbortIf, ReadError
  <2>15. CASE WReaddir(t)
    BY <2>15, StepCreates
  <2>16. CASE WQueueJobs(t)
    BY <2>16, StepQueueJobs
  <2>17. CASE WPost(t)
    BY <1>t, <2>17 DEF WPost
  <2>18. CASE WEmitBegin(t)
    BY <1>t, <2>18 DEF WEmitBegin
  <2>19. CASE WSkip(t)
    BY <1>t, <2>19 DEF WSkip
  <2>20. CASE WCheck(t)
    BY <1>t, <2>20 DEF WCheck, WakeAll, MainWoken, AbortIf
  <2>21. CASE WComplete(t)
    BY <2>21, StepReleases
  <2>22. CASE WTimedOut(t)
    BY <1>t, <2>22 DEF WTimedOut, MainWoken, StillMine, Exits
  <2>23. CASE WCancel(t)
    BY <1>t, <2>23 DEF WCancel, UnlockedBy
  <2>24. CASE WRead(t)
    BY <1>t, <2>24 DEF WRead
  <2>25. CASE WReadFails(t)
    BY <1>t, <2>25 DEF WReadFails, WakeAll, MainWoken, AbortIf, ReadError
  <2>26. CASE WReadAborted(t)
    BY <1>t, <2>26 DEF WReadAborted
  <2>27. CASE WEmit(t)
    BY <1>t, <2>27 DEF WEmit, AfterEmit
  <2>28. CASE WEmitFails(t)
    BY <1>t, <2>28 DEF WEmitFails, WakeAll, MainWoken, AbortIf, AfterEmit
  <2>29. CASE WSpurious(t)
    BY <1>t, <2>29 DEF WSpurious
  <2> QED
    BY <1>1, <2>1, <2>2, <2>3, <2>4, <2>5, <2>6, <2>7, <2>8, <2>9, <2>10,
       <2>11, <2>12, <2>13, <2>14, <2>15, <2>16, <2>17, <2>18, <2>19, <2>20,
       <2>21, <2>22, <2>23, <2>24, <2>25, <2>26, <2>27, <2>28, <2>29 DEF
       WStep, WInput, WOutput
<1>2. ASSUME MStep \/ MExpire \/ MSpurious PROVE UniqueOwner'
  <2>1. CASE MCreate
    BY <1>t, <2>1 DEF MCreate
  <2>2. CASE MMark
    BY <1>t, <2>2 DEF MMark
  <2>3. CASE MCreateFails
    BY <1>t, <2>3 DEF MCreateFails
  <2>4. CASE MWait
    BY <1>t, <2>4 DEF MWait
  <2>5. CASE MLeave
    BY <1>t, <2>5 DEF MLeave, WakeAll
  <2>6. CASE MToolTimeout
    BY <1>t, <2>6 DEF MToolTimeout, WakeAll
  <2>7. CASE MTimeoutRaced
    BY <1>t, <2>7 DEF MTimeoutRaced, MissedDeadline
  <2>8. CASE MTimeout
    BY <1>t, <2>8 DEF MTimeout, MissedDeadline
  <2>9. CASE MCancel
    BY <1>t, <2>9 DEF MCancel
  <2>10. CASE MRestart
    BY <1>t, <2>10 DEF MRestart, WakeAll
  <2>11. CASE MRestartFails
    BY <1>t, <2>11 DEF MRestartFails, WakeAll
  <2>12. CASE MGrace
    BY <1>t, <2>12 DEF MGrace
  <2>13. CASE MReap
    BY <1>t, <2>13 DEF MReap
  <2>14. CASE MReapJoin
    BY <2>14, StepReleases
  <2>15. CASE MAbortQueued
    BY <2>15, StepAbortQueued
  <2>16. CASE MFinal
    BY <1>t, <2>16 DEF MFinal
  <2>17. CASE MExpire
    BY <1>t, <2>17 DEF MExpire
  <2>18. CASE MSpurious
    BY <1>t, <2>18 DEF MSpurious
  <2> QED
    BY <1>2, <2>1, <2>2, <2>3, <2>4, <2>5, <2>6, <2>7, <2>8, <2>9, <2>10,
       <2>11, <2>12, <2>13, <2>14, <2>15, <2>16, <2>17, <2>18 DEF MStep
<1>3. CASE UNCHANGED vars
  BY <1>t, <1>3 DEF vars
<1> QED
  BY <1>1, <1>2, <1>3 DEF Next, Ended

\* After every step an entry has had at most one job.
LEMMA OnceStep == OwnerInv /\ [Next]_vars => CreatedOnce'
<1> SUFFICES ASSUME OwnerInv, [Next]_vars PROVE CreatedOnce'
  OBVIOUS
<1>t. TypeOK /\ Positioned /\ UniqueOwner /\ CreatedOnce
  BY DEF OwnerInv
<1> USE DEF TypeOK, Positioned, ThreadPositioned, Processing, Unstarted,
   Final, UniqueOwner, CreatedOnce, queueVars, fileVars, jobVars, threadVars,
   mainVars
<1>1. ASSUME NEW t \in Threads,
             WStep(t) \/ WInput(t) \/ WOutput(t) \/ WSpurious(t)
      PROVE  CreatedOnce'
  <2>1. CASE WBegin(t)
    BY <1>t, <2>1, EntriesAssumption DEF WBegin
  <2>2. CASE WDequeue(t)
    BY <2>2, StepDequeue
  <2>3. CASE WLeave(t)
    BY <1>t, <2>3, EntriesAssumption DEF WLeave, MainWoken, Exits
  <2>4. CASE WWait(t)
    BY <1>t, <2>4, EntriesAssumption DEF WWait
  <2>5. CASE WExclude(t)
    BY <1>t, <2>5, EntriesAssumption DEF WExclude
  <2>6. CASE WNoRecursion(t)
    BY <1>t, <2>6, EntriesAssumption DEF WNoRecursion
  <2>7. CASE WProc(t)
    BY <1>t, <2>7, EntriesAssumption DEF WProc, WorkFor
  <2>8. CASE WOpen(t)
    BY <2>8, StepScans
  <2>9. CASE WOpenFails(t)
    BY <1>t, <2>9, EntriesAssumption DEF WOpenFails, WakeAll, MainWoken,
       AbortIf
  <2>10. CASE WSpec(t)
    BY <2>10, StepCreates
  <2>11. CASE WEnqueue(t)
    BY <2>11, StepEnqueue
  <2>12. CASE WSpecsDone(t)
    BY <1>t, <2>12, EntriesAssumption DEF WSpecsDone
  <2>13. CASE WOpendir(t)
    BY <2>13, StepScans
  <2>14. CASE WOpendirFails(t)
    BY <1>t, <2>14, EntriesAssumption DEF WOpendirFails, WakeAll, MainWoken,
       AbortIf, ReadError
  <2>15. CASE WReaddir(t)
    BY <2>15, StepCreates
  <2>16. CASE WQueueJobs(t)
    BY <2>16, StepQueueJobs
  <2>17. CASE WPost(t)
    BY <1>t, <2>17, EntriesAssumption DEF WPost
  <2>18. CASE WEmitBegin(t)
    BY <1>t, <2>18, EntriesAssumption DEF WEmitBegin
  <2>19. CASE WSkip(t)
    BY <1>t, <2>19, EntriesAssumption DEF WSkip
  <2>20. CASE WCheck(t)
    BY <1>t, <2>20, EntriesAssumption DEF WCheck, WakeAll, MainWoken, AbortIf
  <2>21. CASE WComplete(t)
    BY <1>t, <2>21, EntriesAssumption DEF WComplete, MainWoken, FreeJob,
       StillMine
  <2>22. CASE WTimedOut(t)
    BY <1>t, <2>22, EntriesAssumption DEF WTimedOut, MainWoken, StillMine,
       Exits
  <2>23. CASE WCancel(t)
    BY <1>t, <2>23, EntriesAssumption DEF WCancel, UnlockedBy
  <2>24. CASE WRead(t)
    BY <1>t, <2>24, EntriesAssumption DEF WRead
  <2>25. CASE WReadFails(t)
    BY <1>t, <2>25, EntriesAssumption DEF WReadFails, WakeAll, MainWoken,
       AbortIf, ReadError
  <2>26. CASE WReadAborted(t)
    BY <1>t, <2>26, EntriesAssumption DEF WReadAborted
  <2>27. CASE WEmit(t)
    BY <1>t, <2>27, EntriesAssumption DEF WEmit, AfterEmit
  <2>28. CASE WEmitFails(t)
    BY <1>t, <2>28, EntriesAssumption DEF WEmitFails, WakeAll, MainWoken,
       AbortIf, AfterEmit
  <2>29. CASE WSpurious(t)
    BY <1>t, <2>29, EntriesAssumption DEF WSpurious
  <2> QED
    BY <1>1, <2>1, <2>2, <2>3, <2>4, <2>5, <2>6, <2>7, <2>8, <2>9, <2>10,
       <2>11, <2>12, <2>13, <2>14, <2>15, <2>16, <2>17, <2>18, <2>19, <2>20,
       <2>21, <2>22, <2>23, <2>24, <2>25, <2>26, <2>27, <2>28, <2>29 DEF
       WStep, WInput, WOutput
<1>2. ASSUME MStep \/ MExpire \/ MSpurious PROVE CreatedOnce'
  <2>1. CASE MCreate
    BY <1>t, <2>1, EntriesAssumption DEF MCreate
  <2>2. CASE MMark
    BY <1>t, <2>2, EntriesAssumption DEF MMark
  <2>3. CASE MCreateFails
    BY <1>t, <2>3, EntriesAssumption DEF MCreateFails
  <2>4. CASE MWait
    BY <1>t, <2>4, EntriesAssumption DEF MWait
  <2>5. CASE MLeave
    BY <1>t, <2>5, EntriesAssumption DEF MLeave, WakeAll
  <2>6. CASE MToolTimeout
    BY <1>t, <2>6, EntriesAssumption DEF MToolTimeout, WakeAll
  <2>7. CASE MTimeoutRaced
    BY <1>t, <2>7, EntriesAssumption DEF MTimeoutRaced, MissedDeadline
  <2>8. CASE MTimeout
    BY <1>t, <2>8, EntriesAssumption DEF MTimeout, MissedDeadline
  <2>9. CASE MCancel
    BY <1>t, <2>9, EntriesAssumption DEF MCancel
  <2>10. CASE MRestart
    BY <2>10, StepInterrupt
  <2>11. CASE MRestartFails
    BY <2>11, StepInterrupt
  <2>12. CASE MGrace
    BY <1>t, <2>12, EntriesAssumption DEF MGrace
  <2>13. CASE MReap
    BY <1>t, <2>13, EntriesAssumption DEF MReap
  <2>14. CASE MReapJoin
    BY <1>t, <2>14, EntriesAssumption DEF MReapJoin, FreeJob
  <2>15. CASE MAbortQueued
    BY <2>15, StepAbortQueued
  <2>16. CASE MFinal
    BY <1>t, <2>16, EntriesAssumption DEF MFinal
  <2>17. CASE MExpire
    BY <1>t, <2>17, EntriesAssumption DEF MExpire
  <2>18. CASE MSpurious
    BY <1>t, <2>18, EntriesAssumption DEF MSpurious
  <2> QED
    BY <1>2, <2>1, <2>2, <2>3, <2>4, <2>5, <2>6, <2>7, <2>8, <2>9, <2>10,
       <2>11, <2>12, <2>13, <2>14, <2>15, <2>16, <2>17, <2>18 DEF MStep
<1>3. CASE UNCHANGED vars
  BY <1>t, <1>3 DEF vars
<1> QED
  BY <1>1, <1>2, <1>3 DEF Next, Ended

-----------------------------------------------------------------------------
(* The theorems.                                                           *)

\* The state in which init_task and init_queue leave the task.
LEMMA InitOwnerInv == Init => OwnerInv
<1> SUFFICES ASSUME Init PROVE OwnerInv
  OBVIOUS
<1>1. TypeOK
  <2>1. queue \in Seq(Jobs) /\ list \in [Threads -> Seq(Entries)]
    BY DEF Init, Jobs
  <2>2. status \in [Jobs -> Statuses] /\ stats \in [Counters -> Nat]
    BY DEF Init, Statuses
  <2>3. pc \in [Threads -> Positions] /\ mpc \in MainPositions
    BY DEF Init, Positions, MainPositions
  <2>4. /\ running \in [Threads -> BOOLEAN] /\ timedOut \in [Threads -> BOOLEAN]
        /\ canceled \in [Threads -> BOOLEAN] /\ hasBuf \in [Threads -> BOOLEAN]
    BY Zenon DEF Init
  <2>5. /\ dref \in [Dirs -> Int] /\ written \in [Entries -> Nat]
        /\ left \in [Threads -> SUBSET Entries]
        /\ job \in [Threads -> Jobs \cup {NoJob}]
    BY DEF Init
  <2>6. /\ tail \in Jobs \cup {NoJob} /\ numActive \in Int /\ aborted \in BOOLEAN
        /\ outLock \in Threads \cup {NoThread} /\ outWritten \in Nat
        /\ numFiles \in Nat /\ alive \in SUBSET Jobs /\ todo \in SUBSET Threads
        /\ target \in Threads \cup {NoThread, Tool}
        /\ armed \in Jobs \cup {NoJob} /\ tjob \in Jobs \cup {NoJob}
        /\ rc \in {0, 1} /\ torn \in Nat /\ eof \in BOOLEAN
    <3>1. aborted \in BOOLEAN /\ eof \in BOOLEAN
      BY Zenon DEF Init
    <3> QED
      BY <3>1 DEF Init, Jobs
  <2> QED
    BY <2>1, <2>2, <2>3, <2>4, <2>5, <2>6 DEF TypeOK
<1>2. /\ DOMAIN queue = {1} /\ queue[1] = InitJob
      /\ \A t \in Threads : DOMAIN list[t] = {} /\ list[t] = << >>
  BY DEF Init
<1>3. /\ Range(queue) = {InitJob} /\ IsInjective(queue)
      /\ \A t \in Threads : Range(list[t]) = {} /\ IsInjective(list[t])
  BY <1>2 DEF Range, IsInjective
<1>4. UniqueOwner
  BY <1>3, EntriesAssumption DEF Init, UniqueOwner
<1>5. CreatedOnce
  <2>1. \A j \in Jobs : /\ j = InitJob => status[j] = "queued"
                        /\ j # InitJob => status[j] = "none"
    BY DEF Init
  <2>2. \A j \in Jobs : \A e \in Kids(j) : status[e] = "none"
    BY <2>1, EntriesAssumption DEF Kids, Jobs
  <2>3. \A t \in Threads : job[t] = NoJob /\ pc[t] = "none" /\ left[t] = {}
    BY DEF Init
  <2> QED
    BY <1>3, <2>1, <2>2, <2>3 DEF Init, CreatedOnce, Unstarted, Processing,
       Jobs
<1>6. Positioned
  BY DEF Init, Positioned, ThreadPositioned, Processing, Writing
<1>7. OutputExclusion
  BY ThreadsAssumption DEF Init, OutputExclusion, Writing
<1> QED
  BY <1>1, <1>4, <1>5, <1>6, <1>7 DEF OwnerInv

\* OwnerInv holds in every reachable state, for all constants.
THEOREM OwnerInvariant == Spec => []OwnerInv
<1>1. OwnerInv /\ [Next]_vars => OwnerInv'
  BY TypeStep, OutputStep, PositionStep, OwnerStep, OnceStep DEF OwnerInv
<1> QED
  BY <1>1, InitOwnerInv, PTL DEF Spec

\* Every variable of the task keeps its type.
THEOREM TypeCorrect == Spec => []TypeOK
<1>1. OwnerInv => TypeOK
  BY DEF OwnerInv
<1> QED
  BY <1>1, OwnerInvariant, PTL

\* Two threads never handle or free the same job, no job is in the queue twice
\* or queued while it is processed, and the job that _timeout_thread refers to
\* across its release of the mutex stays allocated, whatever the interleaving
\* of dequeueing, scanning, timing out, restarting and reaping.
THEOREM OneOwner == Spec => []UniqueOwner
<1>1. OwnerInv => UniqueOwner
  BY DEF OwnerInv
<1> QED
  BY <1>1, OwnerInvariant, PTL

\* Whoever writes to the archive holds output_mutex, and nobody else does, even
\* if writers are canceled in the middle of an entry.
THEOREM OutputExclusive == Spec => []OutputExclusion
<1>1. OwnerInv => OutputExclusion
  BY DEF OwnerInv
<1> QED
  BY <1>1, OwnerInvariant, PTL

\* A step never changes a final job status: the workers set one only while they
\* process the job, _timeout_thread spares results that are there, and
\* abort_queued_jobs meets only jobs that were never started.
LEMMA StepFinal ==
  ASSUME OwnerInv, [Next]_vars, NEW j \in Jobs, status[j] \in Final
  PROVE  status'[j] = status[j]
<1>t. TypeOK /\ Positioned /\ UniqueOwner /\ CreatedOnce
  BY DEF OwnerInv
<1>1. ASSUME NEW t \in Threads, pc[t] \in Processing,
             NEW s, status' = [status EXCEPT ![job[t]] = s]
      PROVE  status'[j] = status[j]
  BY <1>1, <1>t DEF CreatedOnce, TypeOK, Final
<1>2. ASSUME NEW e \in Jobs, status[e] \in {"none", "queued"},
             NEW s, status' = [status EXCEPT ![e] = s]
      PROVE  status'[j] = status[j]
  BY <1>2, <1>t DEF TypeOK, Final
<1>3. queue # << >> => Head(queue) \in Jobs /\ status[Head(queue)] = "queued"
  BY <1>t, TailFacts DEF TypeOK, CreatedOnce
<1>4. \A t \in Threads : \A e \in left[t] : e \in Jobs /\ status[e] = "none"
  BY <1>t DEF TypeOK, CreatedOnce, Jobs
<1>5. ASSUME NEW t \in Threads,
             WStep(t) \/ WInput(t) \/ WOutput(t) \/ WSpurious(t)
      PROVE  status'[j] = status[j]
  <2>1. CASE UNCHANGED status
    BY <2>1
  <2>2. CASE WDequeue(t)
    BY <1>2, <1>3, <2>2 DEF WDequeue
  <2>3. CASE \/ WExclude(t) \/ WNoRecursion(t) \/ WOpenFails(t)
             \/ WSpecsDone(t) \/ WOpendirFails(t) \/ WQueueJobs(t)
             \/ WInput(t)
    BY <1>1, <2>3 DEF WExclude, WNoRecursion, WOpenFails, WSpecsDone,
       WOpendirFails, WQueueJobs, WInput, WRead, WReadFails, WReadAborted,
       Processing
  <2>4. CASE WSpec(t) \/ WReaddir(t)
    BY <1>2, <1>4, <2>4 DEF WSpec, WReaddir, CreateJob, StatFails, SkipType
  <2>5. CASE \/ WBegin(t) \/ WLeave(t) \/ WWait(t) \/ WProc(t) \/ WOpen(t)
             \/ WEnqueue(t) \/ WOpendir(t) \/ WPost(t) \/ WEmitBegin(t)
             \/ WSkip(t) \/ WCheck(t) \/ WComplete(t) \/ WTimedOut(t)
             \/ WCancel(t) \/ WOutput(t) \/ WSpurious(t)
    BY <2>1, <2>5 DEF WBegin, WLeave, WWait, WProc, WOpen, WEnqueue,
       WOpendir, WPost, WEmitBegin, WSkip, WCheck, WComplete, WTimedOut,
       WCancel, WOutput, WEmit, WEmitFails, WSpurious, jobVars
  <2> QED
    BY <1>5, <2>2, <2>3, <2>4, <2>5 DEF WStep
<1>6. ASSUME MStep \/ MExpire \/ MSpurious PROVE status'[j] = status[j]
  <2>1. CASE MAbortQueued
    BY <1>2, <1>3, <2>1 DEF MAbortQueued
  <2>2. CASE MRestart \/ MRestartFails
    <3>1. Interrupted(status[j]) = status[j]
      BY DEF Interrupted, Final
    <3> QED
      BY <1>t, <2>2, <3>1, TargetFacts DEF MRestart, MRestartFails, TypeOK
  <2>3. CASE \/ MCreate \/ MMark \/ MCreateFails \/ MWait \/ MLeave
             \/ MToolTimeout \/ MTimeoutRaced \/ MTimeout \/ MCancel \/ MGrace
             \/ MReap \/ MReapJoin \/ MFinal \/ MExpire \/ MSpurious
    BY <2>3 DEF MCreate, MMark, MCreateFails, MWait, MLeave, MToolTimeout,
       MTimeoutRaced, MTimeout, MCancel, MGrace, MReap, MReapJoin, MFinal,
       MExpire, MSpurious, jobVars
  <2> QED
    BY <1>6, <2>1, <2>2, <2>3 DEF MStep
<1>7. CASE UNCHANGED vars
  BY <1>7 DEF vars, jobVars
<1> QED
  BY <1>5, <1>6, <1>7 DEF Next, Ended

\* The status a job ends with is the status it is written and counted with.
THEOREM ResultsFinal == Spec => FinalIsFinal
<1>1. OwnerInv /\ [Next]_vars =>
        [\A j \in Jobs : status[j] \in Final => status'[j] = status[j]]_vars
  BY StepFinal
<1> QED
  BY <1>1, OwnerInvariant, PTL DEF Spec, FinalIsFinal

-----------------------------------------------------------------------------
(* Counts: what the counters of jobs and of directory handles stand for.   *)

\* What a step of worker t does to the other threads: it may wake them up
Moves(t) ==
  /\ pc[t] # "joined" /\ UNCHANGED <<todo, target>>
  /\ mpc' \in {mpc, "crashed"} \/ (mpc = "waiting" /\ mpc' = "loop")
  /\ \A u \in Threads \ {t} : /\ job'[u] = job[u] /\ list'[u] = list[u]
                              /\ pc'[u] = pc[u] \/ (pc[u] = "wait" /\ pc'[u] = "get")

Worker(t) == WStep(t) \/ WInput(t) \/ WOutput(t) \/ WSpurious(t)

\* Worker t moves jobs or uses directory handles
Handles(t) == \/ WDequeue(t) \/ WSpec(t) \/ WEnqueue(t) \/ WOpendir(t)
              \/ WReaddir(t) \/ WQueueJobs(t) \/ WComplete(t)

LEMMA WorkerMoves ==
  ASSUME TypeOK, NEW t \in Threads, Worker(t)
  PROVE  Moves(t)
<1> USE DEF Moves, queueVars, fileVars, jobVars, threadVars, mainVars
<1>t. /\ pc \in [Threads -> Positions] /\ job \in [Threads -> Jobs \cup {NoJob}]
      /\ list \in [Threads -> Seq(Entries)]
  BY DEF TypeOK
<1>1. CASE WBegin(t)
  BY <1>t, <1>1 DEF WBegin
<1>2. CASE WDequeue(t)
  BY <1>t, <1>2 DEF WDequeue, MainWoken
<1>3. CASE WLeave(t)
  BY <1>t, <1>3 DEF WLeave, Exits, MainWoken
<1>4. CASE WWait(t)
  BY <1>t, <1>4 DEF WWait
<1>5. CASE WExclude(t)
  BY <1>t, <1>5 DEF WExclude
<1>6. CASE WNoRecursion(t)
  BY <1>t, <1>6 DEF WNoRecursion
<1>7. CASE WProc(t)
  BY <1>t, <1>7 DEF WProc, WorkFor
<1>8. CASE WOpen(t)
  BY <1>t, <1>8 DEF WOpen
<1>9. CASE WOpenFails(t)
  BY <1>t, <1>9 DEF WOpenFails, AbortIf, WakeAll, MainWoken
<1>10. CASE WSpec(t)
  BY <1>t, <1>10 DEF WSpec, CreateJob, StatFails, SkipType, ReadError, AbortIf, WakeAll, MainWoken
<1>11. CASE WEnqueue(t)
  BY <1>t, <1>11 DEF WEnqueue, WakeOne
<1>12. CASE WSpecsDone(t)
  BY <1>t, <1>12 DEF WSpecsDone
<1>13. CASE WOpendir(t)
  BY <1>t, <1>13 DEF WOpendir
<1>14. CASE WOpendirFails(t)
  BY <1>t, <1>14 DEF WOpendirFails, ReadError, AbortIf, WakeAll, MainWoken
<1>15. CASE WReaddir(t)
  BY <1>t, <1>15 DEF WReaddir, CreateJob, StatFails, SkipType, ReadError, AbortIf, WakeAll, MainWoken
<1>16. CASE WQueueJobs(t)
  BY <1>t, <1>16 DEF WQueueJobs, WakeAll
<1>17. CASE WPost(t)
  BY <1>t, <1>17 DEF WPost
<1>18. CASE WEmitBegin(t)
  BY <1>t, <1>18 DEF WEmitBegin
<1>19. CASE WSkip(t)
  BY <1>t, <1>19 DEF WSkip
<1>20. CASE WCheck(t)
  BY <1>t, <1>20 DEF WCheck, AbortIf, WakeAll, MainWoken
<1>21. CASE WComplete(t)
  BY <1>t, <1>21 DEF WComplete, MainWoken
<1>22. CASE WTimedOut(t)
  BY <1>t, <1>22 DEF WTimedOut, Exits, MainWoken
<1>23. CASE WCancel(t)
  BY <1>t, <1>23 DEF WCancel, Cancelable
<1>24. CASE WRead(t)
  BY <1>t, <1>24 DEF WRead
<1>25. CASE WReadFails(t)
  BY <1>t, <1>25 DEF WReadFails, ReadError, AbortIf, WakeAll, MainWoken
<1>26. CASE WReadAborted(t)
  BY <1>t, <1>26 DEF WReadAborted
<1>27. CASE WEmit(t)
  BY <1>t, <1>27 DEF WEmit, AfterEmit
<1>28. CASE WEmitFails(t)
  BY <1>t, <1>28 DEF WEmitFails, AbortIf, WakeAll, MainWoken, AfterEmit
<1>29. CASE WSpurious(t)
  BY <1>t, <1>29 DEF WSpurious
<1> QED
  BY <1>1, <1>2, <1>3, <1>4, <1>5, <1>6, <1>7, <1>8, <1>9, <1>10, <1>11, <1>12, <1>13, <1>14, <1>15, <1>16, <1>17, <1>18, <1>19, <1>20, <1>21, <1>22, <1>23, <1>24, <1>25, <1>26, <1>27, <1>28, <1>29
     DEF Worker, WStep, WInput, WOutput

\* The steps of a worker that do not move jobs
Calm(t) ==
  /\ UNCHANGED <<queue, tail, numActive, alive, dref, job, list>>
  /\ pc[t] # "readdir" /\ pc'[t] \notin {"readdir", "enqueue"}
  /\ pc'[t] = "opendir" => Opts.recursive

LEMMA WorkerCalm ==
  ASSUME TypeOK, NEW t \in Threads, Worker(t), ~Handles(t)
  PROVE  Calm(t)
<1> USE DEF Calm, queueVars, fileVars, jobVars, threadVars, mainVars
<1>t. pc \in [Threads -> Positions]
  BY DEF TypeOK
<1>1. CASE WBegin(t)
  BY <1>t, <1>1 DEF WBegin
<1>2. CASE WLeave(t)
  BY <1>t, <1>2 DEF WLeave, Exits, MainWoken
<1>3. CASE WWait(t)
  BY <1>t, <1>3 DEF WWait
<1>4. CASE WExclude(t)
  BY <1>t, <1>4 DEF WExclude
<1>5. CASE WNoRecursion(t)
  BY <1>t, <1>5 DEF WNoRecursion
<1>6. CASE WProc(t)
  BY <1>t, <1>6 DEF WProc, WorkFor
<1>7. CASE WOpen(t)
  BY <1>t, <1>7 DEF WOpen
<1>8. CASE WOpenFails(t)
  BY <1>t, <1>8 DEF WOpenFails, AbortIf, WakeAll, MainWoken
<1>9. CASE WSpecsDone(t)
  BY <1>t, <1>9 DEF WSpecsDone
<1>10. CASE WOpendirFails(t)
  BY <1>t, <1>10 DEF WOpendirFails, ReadError, AbortIf, WakeAll, MainWoken
<1>11. CASE WPost(t)
  BY <1>t, <1>11 DEF WPost
<1>12. CASE WEmitBegin(t)
  BY <1>t, <1>12 DEF WEmitBegin
<1>13. CASE WSkip(t)
  BY <1>t, <1>13 DEF WSkip
<1>14. CASE WCheck(t)
  BY <1>t, <1>14 DEF WCheck, AbortIf, WakeAll, MainWoken
<1>15. CASE WTimedOut(t)
  BY <1>t, <1>15 DEF WTimedOut, Exits, MainWoken
<1>16. CASE WCancel(t)
  BY <1>t, <1>16 DEF WCancel, Cancelable
<1>17. CASE WRead(t)
  BY <1>t, <1>17 DEF WRead
<1>18. CASE WReadFails(t)
  BY <1>t, <1>18 DEF WReadFails, ReadError, AbortIf, WakeAll, MainWoken
<1>19. CASE WReadAborted(t)
  BY <1>t, <1>19 DEF WReadAborted
<1>20. CASE WEmit(t)
  BY <1>t, <1>20 DEF WEmit, AfterEmit
<1>21. CASE WEmitFails(t)
  BY <1>t, <1>21 DEF WEmitFails, AbortIf, WakeAll, MainWoken, AfterEmit
<1>22. CASE WSpurious(t)
  BY <1>t, <1>22 DEF WSpurious
<1> QED
  BY <1>1, <1>2, <1>3, <1>4, <1>5, <1>6, <1>7, <1>8, <1>9, <1>10, <1>11, <1>12, <1>13, <1>14, <1>15, <1>16, <1>17, <1>18, <1>19, <1>20, <1>21, <1>22
     DEF Worker, Handles, WStep, WInput, WOutput

\* The threads that have a job
Busy == {t \in Threads : job[t] # NoJob}

\* What keeps the handle of directory d open: jobs, and a scan
Held(d) == {j \in alive : HoldsDref(j) /\ Parent[j] = d}
Scans(d) == {t \in Threads : pc[t] = "readdir" /\ job[t] = d}

HandleInv == IsFiniteSet(alive) /\ IsFiniteSet(Busy) /\ HandleCount

LEMMA HandleFacts ==
  ASSUME OwnerInv, HandleInv, NEW d \in Dirs
  PROVE  /\ IsFiniteSet(Held(d)) /\ IsFiniteSet(Scans(d))
         /\ Cardinality(Held(d)) \in Nat /\ Cardinality(Scans(d)) \in Nat
         /\ dref[d] = Cardinality(Held(d)) + Cardinality(Scans(d))
<1>1. Held(d) \subseteq alive
  BY DEF Held
<1>2. Scans(d) \subseteq Busy
  BY DEF Scans, Busy, OwnerInv, Positioned, ThreadPositioned, Processing
<1>3. IsFiniteSet(Held(d)) /\ IsFiniteSet(Scans(d))
  BY <1>1, <1>2, FS_Subset DEF HandleInv
<1> QED
  BY <1>3, FS_CardinalityType DEF HandleInv, HandleCount, Held, Scans

\* Scans go on as they did
ScansKept == \A d \in Dirs : Scans(d)' = Scans(d)

LEMMA SameScans ==
  ASSUME \A u \in Threads : /\ pc'[u] = "readdir" <=> pc[u] = "readdir"
                            /\ pc[u] = "readdir" => job'[u] = job[u]
  PROVE  ScansKept
  BY DEF ScansKept, Scans

LEMMA SameHandles ==
  ASSUME HandleInv, ScansKept, UNCHANGED <<alive, dref>>, IsFiniteSet(Busy')
  PROVE  HandleInv'
<1>1. \A d \in Dirs : Held(d)' = Held(d)
  BY DEF Held, HoldsDref
<1>2. \A d \in Dirs : dref[d] = Cardinality(Held(d)) + Cardinality(Scans(d))
  BY DEF HandleInv, HandleCount, Held, Scans
<1>3. \A d \in Dirs : dref'[d] = Cardinality(Held(d)') + Cardinality(Scans(d)')
  BY <1>1, <1>2 DEF ScansKept
<1>4. HandleCount'
  BY <1>3 DEF HandleCount, Held, Scans
<1> QED
  BY <1>4 DEF HandleInv

\* free_job
LEMMA FreeHandle ==
  ASSUME OwnerInv, HandleInv, NEW j \in alive, FreeJob(j), ScansKept, IsFiniteSet(Busy')
  PROVE  HandleInv'
<1>1. IsFiniteSet(alive') /\ alive' = alive \ {j}
  BY CardFacts DEF HandleInv, FreeJob
<1>2. ASSUME NEW d \in Dirs
      PROVE  dref'[d] = Cardinality(Held(d)') + Cardinality(Scans(d)')
  <2>0. Scans(d)' = Scans(d)
    BY DEF ScansKept
  <2>1. CASE HoldsDref(j) /\ Parent[j] = d
    <3>1. Held(d)' = Held(d) \ {j} /\ j \in Held(d)
      BY <1>1, <2>1 DEF Held, HoldsDref
    <3>2. Cardinality(Held(d)') = Cardinality(Held(d)) - 1
      BY <3>1, HandleFacts, CardFacts
    <3>3. dref'[d] = dref[d] - 1
      BY <2>1 DEF FreeJob, DrefPut, OwnerInv, TypeOK
    <3> QED
      BY <2>0, <3>2, <3>3, HandleFacts
  <2>2. CASE ~(HoldsDref(j) /\ Parent[j] = d)
    <3>1. Held(d)' = Held(d)
      BY <1>1, <2>2 DEF Held, HoldsDref
    <3>2. dref'[d] = dref[d]
      BY <2>2 DEF FreeJob, DrefPut, OwnerInv, TypeOK
    <3> QED
      BY <2>0, <3>1, <3>2, HandleFacts
  <2> QED
    BY <2>1, <2>2
<1>3. HandleCount'
  BY <1>2 DEF HandleCount, Held, Scans
<1> QED
  BY <1>1, <1>3 DEF HandleInv

\* create_job: dref_get
LEMMA CreateHandle ==
  ASSUME OwnerInv, HandleInv, NEW j \in Entries, j \notin alive,
         alive' = alive \cup {j}, dref' = DrefGet(j), ScansKept, IsFiniteSet(Busy')
  PROVE  HandleInv'
<1>1. IsFiniteSet(alive')
  BY CardFacts DEF HandleInv
<1>2. ASSUME NEW d \in Dirs
      PROVE  dref'[d] = Cardinality(Held(d)') + Cardinality(Scans(d)')
  <2>0. Scans(d)' = Scans(d)
    BY DEF ScansKept
  <2>1. CASE HoldsDref(j) /\ Parent[j] = d
    <3>1. Held(d)' = Held(d) \cup {j} /\ j \notin Held(d)
      BY <2>1 DEF Held, HoldsDref
    <3>2. Cardinality(Held(d)') = Cardinality(Held(d)) + 1
      BY <3>1, HandleFacts, CardFacts
    <3>3. dref'[d] = dref[d] + 1
      BY <2>1 DEF DrefGet, OwnerInv, TypeOK
    <3> QED
      BY <2>0, <3>2, <3>3, HandleFacts
  <2>2. CASE ~(HoldsDref(j) /\ Parent[j] = d)
    <3>1. Held(d)' = Held(d)
      BY <2>2 DEF Held, HoldsDref
    <3>2. dref'[d] = dref[d]
      BY <2>2 DEF DrefGet, OwnerInv, TypeOK
    <3> QED
      BY <2>0, <3>1, <3>2, HandleFacts
  <2> QED
    BY <2>1, <2>2
<1>3. HandleCount'
  BY <1>2 DEF HandleCount, Held, Scans
<1> QED
  BY <1>1, <1>3 DEF HandleInv

\* queue_dir: the handle is open for the scan, as no job for an entry of the
\* directory is there yet
LEMMA OpenHandle ==
  ASSUME OwnerInv, HandleInv, NEW t \in Threads, WOpendir(t)
  PROVE  HandleInv'
<1>0. PICK j : j = job[t]
  OBVIOUS
<1>1. /\ pc[t] = "opendir" /\ pc' = [pc EXCEPT ![t] = "readdir"] /\ dref' = [dref EXCEPT ![j] = 1]
      /\ UNCHANGED <<alive, job>>
  BY <1>0 DEF WOpendir
<1>2. j \in Dirs /\ j # NoJob
  BY <1>0, <1>1, JobFacts DEF OwnerInv, Positioned, ThreadPositioned, Processing
<1>3. pc'[t] = "readdir" /\ \A u \in Threads \ {t} : pc'[u] = pc[u] /\ job[u] # j
  BY <1>0, <1>1, <1>2 DEF OwnerInv, TypeOK, UniqueOwner
<1>4. \A e \in Kids(j) : status[e] = "none" /\ e \in Entries
  BY <1>0, <1>1 DEF OwnerInv, CreatedOnce, Kids
<1>5. Held(j)' = {}
  <2>1. \A e \in alive : HoldsDref(e) /\ Parent[e] = j => e \in Kids(j)
    BY DEF HoldsDref, Kids
  <2>2. \A e \in Kids(j) : e \notin alive
    BY <1>4 DEF OwnerInv, CreatedOnce, Unstarted, Jobs
  <2> QED
    BY <1>1, <2>1, <2>2 DEF Held, HoldsDref
<1>6. Scans(j)' = {t}
  BY <1>0, <1>1, <1>3 DEF Scans
<1>7. dref'[j] = Cardinality(Held(j)') + Cardinality(Scans(j)')
  <2>1. Cardinality({}) = 0 /\ Cardinality({t}) = 1
    BY FS_EmptySet, FS_Singleton
  <2>2. dref'[j] = 1
    BY <1>1, <1>2 DEF OwnerInv, TypeOK
  <2> QED
    BY <1>5, <1>6, <2>1, <2>2
<1>8. ASSUME NEW d \in Dirs, d # j
      PROVE  dref'[d] = Cardinality(Held(d)') + Cardinality(Scans(d)')
  <2>1. Held(d)' = Held(d) /\ Scans(d)' = Scans(d)
    BY <1>0, <1>1, <1>3, <1>8 DEF Held, HoldsDref, Scans
  <2>2. dref'[d] = dref[d]
    BY <1>1, <1>8 DEF OwnerInv, TypeOK
  <2> QED
    BY <2>1, <2>2, HandleFacts
<1>9. HandleCount'
  BY <1>7, <1>8 DEF HandleCount, Held, Scans
<1> QED
  BY <1>1, <1>9 DEF HandleInv, Busy

\* queue_dir: dref_put at its end
LEMMA CloseHandle ==
  ASSUME OwnerInv, HandleInv, NEW t \in Threads, WQueueJobs(t)
  PROVE  HandleInv'
<1>0. PICK j : j = job[t]
  OBVIOUS
<1>1. /\ pc[t] = "readdir" /\ dref' = [dref EXCEPT ![j] = @ - 1]
      /\ UNCHANGED <<alive, job>>
  BY <1>0 DEF WQueueJobs
<1>2. pc'[t] = "post" /\ \A u \in Threads \ {t} : pc'[u] = "readdir" <=> pc[u] = "readdir"
  BY DEF WQueueJobs, WakeAll, OwnerInv, TypeOK
<1>3. j \in Dirs
  BY <1>0, <1>1, JobFacts
<1>4. ASSUME NEW d \in Dirs
      PROVE  dref'[d] = Cardinality(Held(d)') + Cardinality(Scans(d)')
  <2>1. Held(d)' = Held(d)
    BY <1>1 DEF Held, HoldsDref
  <2>2. CASE d = j
    <3>1. Scans(d)' = Scans(d) \ {t} /\ t \in Scans(d)
      BY <1>1, <1>2, <2>2, <1>0 DEF Scans
    <3>2. Cardinality(Scans(d)') = Cardinality(Scans(d)) - 1
      BY <3>1, HandleFacts, CardFacts
    <3>3. dref'[d] = dref[d] - 1
      BY <1>1, <1>3, <2>2 DEF OwnerInv, TypeOK
    <3> QED
      BY <2>1, <3>2, <3>3, HandleFacts
  <2>3. CASE d # j
    <3>1. Scans(d)' = Scans(d)
      BY <1>1, <1>2, <2>3, <1>0 DEF Scans
    <3>2. dref'[d] = dref[d]
      BY <1>1, <2>3 DEF OwnerInv, TypeOK
    <3> QED
      BY <2>1, <3>1, <3>2, HandleFacts
  <2> QED
    BY <2>2, <2>3
<1>5. HandleCount'
  BY <1>4 DEF HandleCount, Held, Scans
<1> QED
  BY <1>1, <1>5 DEF HandleInv, Busy

\* create_job, for a specification or a name found in a directory
LEMMA CreateStep ==
  ASSUME OwnerInv, NEW t \in Threads, WSpec(t) \/ WReaddir(t)
  PROVE  /\ ScansKept /\ UNCHANGED <<queueVars, job>>
         /\ \A u \in Threads \ {t} : list'[u] = list[u]
         /\ \/ UNCHANGED <<alive, dref, list>>
            \/ \E e \in Entries : /\ e \notin alive /\ alive' = alive \cup {e} /\ dref' = DrefGet(e)
                                  /\ Parent[e] = job[t] /\ Range(list'[t]) = Range(list[t]) \cup {e}
<1>1. PICK e \in left[t] : \/ \E p \in {"enqueue", "readdir"} : /\ CreateJob(t, e, p)
                                                                /\ p = "readdir" <=> pc[t] = "readdir"
                           \/ StatFails(t, e) \/ SkipType(t, e)
  BY DEF WSpec, WReaddir
<1>2. e \in Entries /\ status[e] = "none" /\ e \notin alive /\ Parent[e] = job[t]
  BY DEF OwnerInv, TypeOK, CreatedOnce, Unstarted, Jobs
<1>3. UNCHANGED <<queueVars, job>> /\ pc[t] \in {"specs", "readdir"}
  BY DEF WSpec, WReaddir, queueVars
<1>4. ASSUME NEW p \in {"enqueue", "readdir"}, CreateJob(t, e, p), p = "readdir" <=> pc[t] = "readdir"
      PROVE  /\ ScansKept
             /\ alive' = alive \cup {e} /\ dref' = DrefGet(e)
             /\ \A u \in Threads \ {t} : list'[u] = list[u]
             /\ Range(list'[t]) = Range(list[t]) \cup {e}
  <2>1. \A u \in Threads : pc'[u] = "readdir" <=> pc[u] = "readdir"
    BY <1>4 DEF CreateJob, OwnerInv, TypeOK
  <2>2. ScansKept
    BY <1>3, <2>1, SameScans
  <2>3. list[t] \in Seq(Entries) /\ list'[t] = Append(list[t], e) /\ \A u \in Threads \ {t} : list'[u] = list[u]
    BY <1>4 DEF CreateJob, OwnerInv, TypeOK
  <2>4. Range(list'[t]) = Range(list[t]) \cup {e}
    BY <1>2, <2>3, AppendFacts
  <2> QED
    BY <1>4, <2>2, <2>3, <2>4 DEF CreateJob
<1>5. ASSUME StatFails(t, e) \/ SkipType(t, e)
      PROVE  ScansKept /\ UNCHANGED <<alive, dref, list>>
  <2>1. \A u \in Threads : pc'[u] = "readdir" <=> pc[u] = "readdir"
    BY <1>5 DEF StatFails, SkipType, ReadError, AbortIf, WakeAll
  <2> QED
    BY <1>3, <1>5, <2>1, SameScans DEF StatFails, SkipType
<1> QED
  BY <1>1, <1>2, <1>3, <1>4, <1>5

Supervisor == MStep \/ MExpire \/ MSpurious

\* The main thread starts, wakes up and joins threads; it frees jobs only in
\* cleanup_thread and abort_queued_jobs
MainCalm ==
  /\ UNCHANGED <<queue, tail, numActive, alive, dref, job, list>>
  /\ \A u \in Threads : pc'[u] = pc[u] \/ (pc[u] \in {"none", "wait", "dead"} /\ pc'[u] \in {"begin", "get", "joined"})

LEMMA SupervisorCalm ==
  ASSUME OwnerInv, Supervisor, ~MReapJoin, ~MAbortQueued
  PROVE  MainCalm
<1> USE DEF MainCalm, queueVars, jobVars, threadVars
<1>t. pc \in [Threads -> Positions] /\ Positioned
  BY DEF OwnerInv, TypeOK
<1>1. CASE MCreate
  BY <1>t, <1>1 DEF MCreate, Positioned
<1>2. CASE MMark
  BY <1>t, <1>2 DEF MMark
<1>3. CASE MCreateFails
  BY <1>t, <1>3 DEF MCreateFails
<1>4. CASE MWait
  BY <1>t, <1>4 DEF MWait
<1>5. CASE MLeave
  BY <1>t, <1>5 DEF MLeave, WakeAll
<1>6. CASE MToolTimeout
  BY <1>t, <1>6 DEF MToolTimeout, WakeAll
<1>7. CASE MTimeoutRaced
  BY <1>t, <1>7 DEF MTimeoutRaced
<1>8. CASE MTimeout
  BY <1>t, <1>8 DEF MTimeout
<1>9. CASE MCancel
  BY <1>t, <1>9 DEF MCancel
<1>10. CASE MRestart
  BY <1>t, <1>10 DEF MRestart, WakeAll
<1>11. CASE MRestartFails
  BY <1>t, <1>11 DEF MRestartFails, WakeAll
<1>12. CASE MGrace
  BY <1>t, <1>12 DEF MGrace
<1>13. CASE MReap
  BY <1>t, <1>13 DEF MReap
<1>14. CASE MFinal
  BY <1>t, <1>14 DEF MFinal
<1>15. CASE MExpire
  BY <1>t, <1>15 DEF MExpire
<1>16. CASE MSpurious
  BY <1>t, <1>16 DEF MSpurious
<1> QED
  BY <1>1, <1>2, <1>3, <1>4, <1>5, <1>6, <1>7, <1>8, <1>9, <1>10, <1>11, <1>12, <1>13, <1>14, <1>15, <1>16 DEF Supervisor, MStep

\* Whoever lets go of a job frees it: _complete_job and cleanup_thread
LEMMA ReleaseFacts ==
  ASSUME OwnerInv, NEW t \in Threads, WComplete(t) \/ (MReapJoin /\ target = t)
  PROVE  /\ job' = [job EXCEPT ![t] = NoJob] /\ UNCHANGED <<queue, list>> /\ ScansKept
         /\ IF job[t] = NoJob THEN UNCHANGED <<alive, dref>> ELSE FreeJob(job[t]) /\ job[t] \in alive
<1>1. /\ job' = [job EXCEPT ![t] = NoJob] /\ UNCHANGED <<queue, list>>
      /\ pc[t] # "readdir"
      /\ \E p \in {"get", "joined"} : pc' = [pc EXCEPT ![t] = p]
      /\ IF job[t] = NoJob THEN UNCHANGED <<alive, dref>> ELSE FreeJob(job[t])
  <2>1. CASE WComplete(t)
    <3>1. job[t] # NoJob
      BY <2>1 DEF WComplete, OwnerInv, Positioned, ThreadPositioned
    <3> QED
      BY <2>1, <3>1 DEF WComplete
  <2>2. CASE MReapJoin /\ target = t
    BY <2>2 DEF MReapJoin, queueVars
  <2> QED
    BY <2>1, <2>2
<1>2. \A u \in Threads : /\ pc'[u] = "readdir" <=> pc[u] = "readdir"
                         /\ pc[u] = "readdir" => job'[u] = job[u]
  BY <1>1 DEF OwnerInv, TypeOK
<1> QED
  BY <1>1, <1>2, SameScans DEF OwnerInv, UniqueOwner

LEMMA HandleStep ==
  ASSUME OwnerInv, HandleInv, [Next]_vars
  PROVE  HandleInv'
<1>1. ASSUME UNCHANGED job PROVE IsFiniteSet(Busy')
  BY <1>1 DEF HandleInv, Busy
<1>2. ASSUME NEW t \in Threads, Worker(t), ~Handles(t) PROVE HandleInv'
  <2>1. Calm(t) /\ Moves(t)
    BY <1>2, WorkerCalm, WorkerMoves DEF OwnerInv
  <2>2. \A u \in Threads : pc'[u] = "readdir" <=> pc[u] = "readdir"
    BY <2>1 DEF Calm, Moves
  <2>3. ScansKept
    BY <2>1, <2>2, SameScans DEF Calm
  <2> QED
    BY <1>1, <2>1, <2>3, SameHandles DEF Calm
<1>3. ASSUME NEW t \in Threads, WDequeue(t) PROVE HandleInv'
  <2>1. /\ pc[t] = "get" /\ \E j \in Jobs : job' = [job EXCEPT ![t] = j]
        /\ pc' = [pc EXCEPT ![t] = "proc"] /\ UNCHANGED <<alive, dref>>
    BY <1>3, TailFacts DEF WDequeue, OwnerInv, TypeOK
  <2>2. Busy' = Busy \cup {t}
    BY <2>1, EntriesAssumption DEF Busy, OwnerInv, TypeOK, Jobs
  <2>3. IsFiniteSet(Busy')
    BY <2>2, CardFacts DEF HandleInv
  <2>4. \A u \in Threads : /\ pc'[u] = "readdir" <=> pc[u] = "readdir"
                           /\ pc[u] = "readdir" => job'[u] = job[u]
    BY <2>1 DEF OwnerInv, TypeOK
  <2> QED
    BY <2>1, <2>3, <2>4, SameScans, SameHandles
<1>4. ASSUME NEW t \in Threads, WSpec(t) \/ WReaddir(t) PROVE HandleInv'
  BY <1>1, <1>4, CreateStep, CreateHandle, SameHandles
<1>5. ASSUME NEW t \in Threads, WEnqueue(t) PROVE HandleInv'
  <2>1. UNCHANGED <<alive, dref, job>> /\ pc[t] = "enqueue" /\ pc' \in WakeOne([pc EXCEPT ![t] = "specs"])
    BY <1>5 DEF WEnqueue, jobVars
  <2>2. \A u \in Threads : pc'[u] = "readdir" <=> pc[u] = "readdir"
    BY <2>1 DEF WakeOne, OwnerInv, TypeOK
  <2> QED
    BY <1>1, <2>1, <2>2, SameScans, SameHandles
<1>6. ASSUME NEW t \in Threads, WComplete(t) \/ (MReapJoin /\ target = t) PROVE HandleInv'
  <2>1. /\ job' = [job EXCEPT ![t] = NoJob] /\ ScansKept
        /\ IF job[t] = NoJob THEN UNCHANGED <<alive, dref>> ELSE FreeJob(job[t]) /\ job[t] \in alive
    BY <1>6, ReleaseFacts
  <2>2. Busy' = Busy \ {t}
    BY <2>1 DEF Busy, OwnerInv, TypeOK
  <2>3. IsFiniteSet(Busy')
    BY <2>2, CardFacts DEF HandleInv
  <2> QED
    BY <2>1, <2>3, SameHandles, FreeHandle
<1>7. CASE MAbortQueued
  <2>1. Head(queue) \in alive /\ FreeJob(Head(queue)) /\ UNCHANGED <<pc, job>>
    <3>1. queue # << >> /\ queue \in Seq(Jobs) /\ FreeJob(Head(queue)) /\ UNCHANGED <<pc, job>>
      BY <1>7 DEF MAbortQueued, OwnerInv, TypeOK, threadVars
    <3> QED
      BY <3>1, TailFacts DEF OwnerInv, UniqueOwner
  <2> QED
    BY <1>1, <2>1, SameScans, FreeHandle
<1>8. CASE Supervisor /\ ~MReapJoin /\ ~MAbortQueued
  <2>1. MainCalm
    BY <1>8, SupervisorCalm
  <2>2. \A u \in Threads : pc'[u] = "readdir" <=> pc[u] = "readdir"
    BY <2>1 DEF MainCalm
  <2> QED
    BY <1>1, <2>1, <2>2, SameScans, SameHandles DEF MainCalm
<1>9. CASE UNCHANGED vars
  BY <1>1, <1>9, SameScans, SameHandles DEF vars, jobVars, threadVars
<1>10. MReapJoin => target \in Threads
  BY DEF MReapJoin, OwnerInv, Positioned
<1> QED
  BY <1>2, <1>3, <1>4, <1>5, <1>6, <1>7, <1>8, <1>9, <1>10, OpenHandle, CloseHandle
     DEF Next, Ended, Handles, Worker, Supervisor

\* dref.c and free_job: the count of references of an open directory is exact,
\* whatever is canceled, timed out, aborted or freed in whatever order.
THEOREM HandlesCounted == Spec => []HandleCount
<1>1. Init => HandleInv
  <2> SUFFICES ASSUME Init PROVE HandleInv
    OBVIOUS
  <2>1. IsFiniteSet(alive)
    BY FS_Singleton DEF Init
  <2>2. Busy = {} /\ \A d \in Dirs : Scans(d) = {} /\ Held(d) = {} /\ dref[d] = 0
    BY EntriesAssumption DEF Init, Busy, Scans, Held, HoldsDref
  <2>3. IsFiniteSet({}) /\ Cardinality({}) = 0
    BY FS_EmptySet
  <2> QED
    BY <2>1, <2>2, <2>3 DEF HandleInv, HandleCount, Scans, Held
<1>2. OwnerInv /\ HandleInv /\ [Next]_vars => HandleInv'
  BY HandleStep
<1>3. HandleInv => HandleCount
  BY DEF HandleInv
<1> QED
  BY <1>1, <1>2, <1>3, OwnerInvariant, PTL DEF Spec

-----------------------------------------------------------------------------
(* The order in which jobs appear.                                         *)

\* queue_jobs does not set jobs_tail: a job queued by _queue_job_tail later can
\* replace the queue.  It cannot with one specification, which is queued before
\* any directory is read, nor if no directory is.
NothingLost == (\A e, f \in Kids(InitJob) : e = f) \/ ~Opts.recursive

\* Nothing is found before a specification was worked on
SpecsFirst ==
  (\A e \in Kids(InitJob) : status[e] \in Unstarted) =>
    \A e \in Entries \ Kids(InitJob) : status[e] = "none"

\* A thread creates jobs for what it finds in the directory it scans
OwnKids == \A t \in Threads : \A e \in Range(list[t]) : Parent[e] = job[t]

\* The last job, as long as only _queue_job_tail is used
TailInv ==
  ~Opts.recursive =>
    /\ queue # << >> => tail = queue[Len(queue)]
    /\ \A t \in Threads : pc[t] \notin {"opendir", "readdir"}

OrderInv == SpecsFirst /\ OwnKids /\ TailInv

\* A job that was begun stays so, and an entry gets its first status from the
\* thread that works on its directory
LEMMA StatusStep ==
  ASSUME OwnerInv, [Next]_vars, NEW j \in Jobs
  PROVE  /\ status[j] \notin Unstarted => status'[j] \notin Unstarted
         /\ status[j] = "none" /\ status'[j] # "none" =>
              \E t \in Threads : Parent[j] = job[t] /\ status[job[t]] = "in_progress"
<1> DEFINE Good == /\ status[j] \notin Unstarted => status'[j] \notin Unstarted
                   /\ status[j] = "none" /\ status'[j] # "none" =>
                        \E t \in Threads : Parent[j] = job[t] /\ status[job[t]] = "in_progress"
<1>t. TypeOK /\ Positioned /\ UniqueOwner /\ CreatedOnce
  BY DEF OwnerInv
<1>0. ASSUME UNCHANGED status PROVE Good
  BY <1>0
<1>1. ASSUME NEW t \in Threads, pc[t] \in Processing,
             NEW s \in Final, status' = [status EXCEPT ![job[t]] = s]
      PROVE  Good
  BY <1>1, <1>t DEF CreatedOnce, TypeOK, Final, Unstarted
<1>2. ASSUME NEW e \in Jobs, status[e] = "queued",
             NEW s \in {"in_progress", "failed"}, status' = [status EXCEPT ![e] = s]
      PROVE  Good
  BY <1>2, <1>t DEF TypeOK, Unstarted
<1>3. ASSUME NEW t \in Threads, NEW e \in left[t], pc[t] \in {"specs", "readdir"},
             NEW s, status' = [status EXCEPT ![e] = s]
      PROVE  Good
  <2>1. status[e] = "none" /\ Parent[e] = job[t] /\ status[job[t]] = "in_progress"
    BY <1>t, <1>3 DEF CreatedOnce, Processing
  <2> QED
    BY <1>t, <1>3, <2>1 DEF TypeOK, Unstarted
<1>4. queue # << >> => Head(queue) \in Jobs /\ status[Head(queue)] = "queued"
  BY <1>t, TailFacts DEF TypeOK, CreatedOnce
<1> HIDE DEF Good
<1>5. ASSUME NEW t \in Threads, Worker(t) PROVE Good
  <2>2. CASE WDequeue(t)
    BY <1>2, <1>4, <2>2 DEF WDequeue
  <2>3. CASE \/ WExclude(t) \/ WNoRecursion(t) \/ WOpenFails(t)
             \/ WSpecsDone(t) \/ WOpendirFails(t) \/ WQueueJobs(t)
             \/ WInput(t)
    BY <1>1, <2>3 DEF WExclude, WNoRecursion, WOpenFails, WSpecsDone,
       WOpendirFails, WQueueJobs, WInput, WRead, WReadFails, WReadAborted,
       Processing, Final
  <2>4. CASE WSpec(t) \/ WReaddir(t)
    BY <1>3, <2>4 DEF WSpec, WReaddir, CreateJob, StatFails, SkipType
  <2>5. CASE \/ WBegin(t) \/ WLeave(t) \/ WWait(t) \/ WProc(t) \/ WOpen(t)
             \/ WEnqueue(t) \/ WOpendir(t) \/ WPost(t) \/ WEmitBegin(t)
             \/ WSkip(t) \/ WCheck(t) \/ WComplete(t) \/ WTimedOut(t)
             \/ WCancel(t) \/ WOutput(t) \/ WSpurious(t)
    BY <1>0, <2>5 DEF WBegin, WLeave, WWait, WProc, WOpen, WEnqueue,
       WOpendir, WPost, WEmitBegin, WSkip, WCheck, WComplete, WTimedOut,
       WCancel, WOutput, WEmit, WEmitFails, WSpurious, jobVars
  <2> QED
    BY <1>5, <2>2, <2>3, <2>4, <2>5 DEF Worker, WStep
<1>6. ASSUME Supervisor PROVE Good
  <2>1. CASE MAbortQueued
    BY <1>2, <1>4, <2>1 DEF MAbortQueued
  <2>2. CASE MRestart \/ MRestartFails
    <3>1. tjob \in Jobs /\ status[tjob] \notin Unstarted
      <4>1. target \in Threads /\ tjob \in Jobs /\ tjob = job[target]
        BY <2>2, TargetFacts DEF MRestart, MRestartFails
      <4> QED
        BY <1>t, <4>1, EntriesAssumption DEF CreatedOnce, Jobs
    <3>2. status' = [status EXCEPT ![tjob] = Interrupted(@)]
      BY <2>2 DEF MRestart, MRestartFails
    <3>3. status'[tjob] = Interrupted(status[tjob]) /\ (j # tjob => status'[j] = status[j])
      BY <1>t, <3>1, <3>2 DEF TypeOK
    <3>4. Interrupted(status[tjob]) \notin Unstarted
      BY <3>1 DEF Interrupted, Unstarted, Final
    <3> QED
      BY <3>1, <3>3, <3>4 DEF Good, Unstarted
  <2>3. CASE \/ MCreate \/ MMark \/ MCreateFails \/ MWait \/ MLeave
             \/ MToolTimeout \/ MTimeoutRaced \/ MTimeout \/ MCancel \/ MGrace
             \/ MReap \/ MReapJoin \/ MFinal \/ MExpire \/ MSpurious
    BY <1>0, <2>3 DEF MCreate, MMark, MCreateFails, MWait, MLeave, MToolTimeout,
       MTimeoutRaced, MTimeout, MCancel, MGrace, MReap, MReapJoin, MFinal,
       MExpire, MSpurious, jobVars
  <2> QED
    BY <1>6, <2>1, <2>2, <2>3 DEF Supervisor, MStep
<1>7. ASSUME UNCHANGED vars PROVE Good
  BY <1>0, <1>7 DEF vars, jobVars
<1>8. (\E t \in Threads : Worker(t)) \/ Supervisor \/ UNCHANGED vars
  BY DEF Next, Ended, Worker, Supervisor
<1>9. Good
  BY <1>5, <1>6, <1>7, <1>8
<1> QED
  BY <1>9 DEF Good

LEMMA SpecsStep ==
  ASSUME OwnerInv, SpecsFirst, [Next]_vars
  PROVE  SpecsFirst'
<1> SUFFICES ASSUME \A e \in Kids(InitJob) : status'[e] \in Unstarted,
                    NEW j \in Entries \ Kids(InitJob), status'[j] # "none"
             PROVE  FALSE
  BY DEF SpecsFirst
<1>1. \A e \in Kids(InitJob) : status[e] \in Unstarted /\ e \in Entries
  BY StatusStep DEF Kids, Jobs
<1>2. status[j] = "none"
  BY <1>1 DEF SpecsFirst
<1>3. Parent[j] \in Dirs
  BY ParentAssumption DEF Kids
<1>4. status[Parent[j]] = "in_progress"
  BY <1>2, StatusStep DEF Jobs
<1>5. Parent[j] \in Entries
  BY <1>3 DEF Dirs
<1> QED
  BY <1>1, <1>4, <1>5 DEF SpecsFirst, Unstarted

\* Where the list of a thread is filled: create_job; where it is emptied, all
\* of it is queued; a thread gets another job only when it is empty
LEMMA OwnKidsStep ==
  ASSUME OwnerInv, OwnKids, [Next]_vars
  PROVE  OwnKids'
<1>t. /\ list \in [Threads -> Seq(Entries)] /\ job \in [Threads -> Jobs \cup {NoJob}]
      /\ \A t \in Threads : ThreadPositioned(t)
  BY DEF OwnerInv, TypeOK, Positioned
<1>0. Range(<< >>) = {}
  BY DEF Range
<1>1. ASSUME UNCHANGED <<job, list>> PROVE OwnKids'
  BY <1>1 DEF OwnKids
<1>2. ASSUME NEW t \in Threads, WSpec(t) \/ WReaddir(t) PROVE OwnKids'
  <2>1. /\ UNCHANGED job /\ \A u \in Threads \ {t} : list'[u] = list[u]
        /\ list' = list \/ \E e \in Entries : Parent[e] = job[t] /\ Range(list'[t]) = Range(list[t]) \cup {e}
    BY <1>2, CreateStep
  <2> QED
    BY <2>1 DEF OwnKids
<1>3. ASSUME NEW t \in Threads, list[t] = << >>, UNCHANGED list,
             NEW j, job' = [job EXCEPT ![t] = j]
      PROVE  OwnKids'
  BY <1>t, <1>0, <1>3 DEF OwnKids
<1>4. ASSUME NEW t \in Threads, UNCHANGED job, list' = [list EXCEPT ![t] = << >>]
      PROVE  OwnKids'
  BY <1>t, <1>0, <1>4 DEF OwnKids
<1>5. ASSUME NEW t \in Threads, Worker(t) PROVE OwnKids'
  <2>1. CASE ~Handles(t)
    BY <1>1, <1>5, <2>1, WorkerCalm DEF Calm, OwnerInv
  <2>2. CASE WDequeue(t)
    BY <1>t, <1>3, <2>2 DEF WDequeue, ThreadPositioned
  <2>3. CASE WComplete(t)
    BY <1>t, <1>3, <2>3 DEF WComplete, ThreadPositioned
  <2>4. CASE WEnqueue(t) \/ WQueueJobs(t)
    BY <1>4, <2>4 DEF WEnqueue, WQueueJobs
  <2>5. CASE WOpendir(t)
    BY <1>1, <2>5 DEF WOpendir
  <2> QED
    BY <1>2, <2>1, <2>2, <2>3, <2>4, <2>5 DEF Handles
<1>6. CASE MReapJoin
  <2>1. /\ target \in Threads /\ pc[target] \in {"dead", "none", "joined"}
        /\ UNCHANGED list /\ job' = [job EXCEPT ![target] = NoJob]
    BY <1>6 DEF MReapJoin, OwnerInv, Positioned
  <2> QED
    BY <1>t, <1>3, <2>1 DEF ThreadPositioned
<1>7. CASE Supervisor /\ ~MReapJoin
  BY <1>1, <1>7, SupervisorCalm DEF MainCalm, MAbortQueued, threadVars
<1>8. CASE UNCHANGED vars
  BY <1>1, <1>8 DEF vars, threadVars
<1>9. (\E t \in Threads : Worker(t)) \/ Supervisor \/ UNCHANGED vars
  BY DEF Next, Ended, Worker, Supervisor
<1> QED
  BY <1>5, <1>6, <1>7, <1>8, <1>9

LEMMA TailStep ==
  ASSUME OwnerInv, TailInv, [Next]_vars
  PROVE  TailInv'
<1> SUFFICES ASSUME ~Opts.recursive PROVE TailInv'
  BY DEF TailInv
<1>t. /\ queue \in Seq(Jobs) /\ IsInjective(queue)
      /\ \A t \in Threads : list[t] \in Seq(Entries) /\ pc[t] \notin {"opendir", "readdir"}
      /\ queue # << >> => tail = queue[Len(queue)]
      /\ Jobs = Entries \cup {InitJob}
      /\ NoJob \notin Jobs
  BY NoJobFacts DEF OwnerInv, TypeOK, UniqueOwner, TailInv, Jobs
<1> DEFINE Last == queue' # << >> => tail' = queue'[Len(queue')]
           Closed == \A t \in Threads : pc'[t] \notin {"opendir", "readdir"}
<1>0. ASSUME Last, Closed PROVE TailInv'
  BY <1>0 DEF TailInv
<1> HIDE DEF Last, Closed
<1>1. ASSUME UNCHANGED <<queue, tail>> PROVE Last
  BY <1>1, <1>t DEF Last
<1>2. ASSUME queue # << >>, queue' = Tail(queue),
             tail' = IF Head(queue) = tail THEN NoJob ELSE tail
      PROVE  Last
  <2> SUFFICES ASSUME queue' # << >> PROVE tail' = queue'[Len(queue')]
    BY DEF Last
  <2>1. /\ Len(queue) \in Nat /\ Len(queue) >= 2 /\ DOMAIN queue = 1..Len(queue)
        /\ Len(queue') = Len(queue) - 1 /\ queue'[Len(queue')] = queue[Len(queue)]
        /\ Head(queue) = queue[1]
    BY <1>t, <1>2
  <2>2. queue[1] # queue[Len(queue)]
    BY <1>t, <2>1 DEF IsInjective
  <2> QED
    BY <1>t, <1>2, <2>1, <2>2
<1>3. ASSUME NEW t \in Threads, Worker(t) PROVE Last /\ Closed
  <2>0. Moves(t)
    BY <1>3, WorkerMoves DEF OwnerInv
  <2>1. ASSUME pc'[t] \notin {"opendir", "readdir"} PROVE Closed
    BY <1>t, <2>0, <2>1 DEF Moves, Closed
  <2>2. CASE ~Handles(t)
    <3>1. UNCHANGED <<queue, tail>> /\ pc'[t] \notin {"opendir", "readdir"}
      BY <1>3, <2>2, WorkerCalm DEF Calm, OwnerInv
    <3> QED
      BY <1>1, <2>1, <3>1
  <2>3. CASE WDequeue(t)
    <3>1. pc'[t] = "proc"
      BY <2>3 DEF WDequeue, OwnerInv, TypeOK
    <3> QED
      BY <1>2, <2>1, <2>3, <3>1 DEF WDequeue
  <2>4. CASE WSpec(t)
    <3>1. pc[t] = "specs" /\ pc'[t] \in {"specs", "enqueue"}
      BY <2>4 DEF WSpec, CreateJob, StatFails, SkipType, ReadError, AbortIf, WakeAll, OwnerInv, TypeOK
    <3> QED
      BY <1>1, <2>1, <2>4, <3>1 DEF WSpec, queueVars
  <2>5. CASE WEnqueue(t)
    <3>1. pc[t] = "enqueue" /\ pc'[t] = "specs"
      BY <2>5 DEF WEnqueue, WakeOne, OwnerInv, TypeOK
    <3>2. list[t] \in Seq(Entries) /\ Len(list[t]) = 1
      BY <1>t, <3>1 DEF OwnerInv, Positioned, ThreadPositioned
    <3>3. Head(list[t]) \in Jobs
      BY <1>t, <3>2
    <3>4. tail' = Head(list[t]) /\ queue' = TailInsert(Head(list[t]))
      BY <2>5 DEF WEnqueue
    <3>5. Last
      BY <1>t, <3>3, <3>4 DEF TailInsert, Last
    <3> QED
      BY <2>1, <3>1, <3>5
  <2>6. CASE WComplete(t)
    <3>1. pc'[t] = "get" /\ UNCHANGED <<queue, tail>>
      BY <2>6 DEF WComplete, OwnerInv, TypeOK
    <3> QED
      BY <1>1, <2>1, <3>1
  <2>7. ~WOpendir(t) /\ ~WReaddir(t) /\ ~WQueueJobs(t)
    BY <1>t DEF WOpendir, WReaddir, WQueueJobs
  <2> QED
    BY <2>2, <2>3, <2>4, <2>5, <2>6, <2>7 DEF Handles
<1>4. CASE MReapJoin \/ MAbortQueued
  <2>1. Closed
    BY <1>t, <1>4 DEF MReapJoin, MAbortQueued, OwnerInv, TypeOK, Closed
  <2>2. Last
    BY <1>1, <1>2, <1>4 DEF MReapJoin, MAbortQueued, queueVars
  <2> QED
    BY <1>0, <2>1, <2>2
<1>5. CASE Supervisor /\ ~MReapJoin /\ ~MAbortQueued
  <2>1. MainCalm
    BY <1>5, SupervisorCalm
  <2>2. Closed /\ Last
    BY <1>t, <1>1, <2>1 DEF MainCalm, Closed
  <2> QED
    BY <1>0, <2>2
<1>6. CASE UNCHANGED vars
  <2>1. Closed /\ Last
    BY <1>t, <1>1, <1>6 DEF vars, queueVars, Closed
  <2> QED
    BY <1>0, <2>1
<1>7. (\E t \in Threads : Worker(t)) \/ Supervisor \/ UNCHANGED vars
  BY DEF Next, Ended, Worker, Supervisor
<1> QED
  BY <1>0, <1>3, <1>4, <1>5, <1>6, <1>7

LEMMA OrderStep == OwnerInv /\ OrderInv /\ [Next]_vars => OrderInv'
BY SpecsStep, OwnKidsStep, TailStep DEF OrderInv

\* With the order known, _queue_job_tail does not replace the queue
LEMMA InsertSafe ==
  ASSUME OwnerInv, OrderInv, NothingLost, NEW t \in Threads, pc[t] = "enqueue"
  PROVE  queue = << >> \/ tail # NoJob
<1> SUFFICES ASSUME queue # << >> PROVE tail # NoJob
  OBVIOUS
<1>1. /\ queue \in Seq(Jobs) /\ NoJob \notin Jobs /\ Jobs = Entries \cup {InitJob}
      /\ list[t] \in Seq(Entries) /\ Len(list[t]) = 1 /\ job[t] = InitJob
  BY NoJobFacts DEF OwnerInv, TypeOK, Positioned, ThreadPositioned, Jobs
<1>2. CASE ~Opts.recursive
  <2>1. tail = queue[Len(queue)] /\ Len(queue) \in 1..Len(queue)
    BY <1>1, <1>2 DEF OrderInv, TailInv
  <2> QED
    BY <1>1, <2>1
<1>3. CASE \A e, f \in Kids(InitJob) : e = f
  <2>1. PICK h : h = Head(queue)
    OBVIOUS
  <2>2. h \in Jobs /\ h \in Range(queue) /\ status[h] = "queued"
    BY <1>1, <2>1, TailFacts DEF OwnerInv, CreatedOnce
  <2>3. PICK e : e = Head(list[t])
    OBVIOUS
  <2>4. e \in Entries /\ e \in Range(list[t])
    BY <1>1, <2>3, TailFacts
  <2>5. e \in Kids(InitJob) /\ status[e] = "queued"
    BY <1>1, <2>4 DEF OrderInv, OwnKids, Kids, OwnerInv, CreatedOnce
  <2>6. \A f \in Kids(InitJob) : status[f] \in Unstarted
    BY <1>3, <2>5 DEF Unstarted
  <2>7. h # InitJob /\ h # e
    BY <1>1, <2>2, <2>4 DEF OwnerInv, UniqueOwner
  <2>8. h \notin Kids(InitJob)
    BY <1>3, <2>5, <2>7
  <2> QED
    BY <1>1, <2>2, <2>6, <2>7, <2>8 DEF OrderInv, SpecsFirst
<1> QED
  BY <1>2, <1>3 DEF NothingLost

-----------------------------------------------------------------------------
(* The number of active jobs.                                              *)

Early == mpc \notin {"reap", "reapjoin", "final", "done", "crashed"}

\* The count is never too low, and it is exact unless a job is lost
NumInv ==
  Early => /\ numActive >= Len(queue) + Cardinality(Busy)
           /\ NothingLost => numActive = Len(queue) + Cardinality(Busy)

\* Once threads are reaped this goes on to the end
LEMMA EarlyBefore ==
  ASSUME OwnerInv, [Next]_vars, Early'
  PROVE  Early
<1>1. ASSUME NEW t \in Threads, Worker(t) PROVE Early
  BY <1>1, WorkerMoves DEF Moves, Early, OwnerInv
<1>2. CASE Supervisor
  BY <1>2 DEF Supervisor, MStep, MCreate, MMark, MCreateFails, MWait, MLeave,
     MToolTimeout, MTimeoutRaced, MTimeout, MCancel, MRestart, MRestartFails,
     MGrace, MReap, MReapJoin, MAbortQueued, MFinal, MExpire, MSpurious, Early
<1>3. CASE UNCHANGED vars
  BY <1>3 DEF vars, Early
<1> QED
  BY <1>1, <1>2, <1>3 DEF Next, Ended, Worker, Supervisor

\* Jobs are taken, queued and completed
LEMMA NumStep ==
  ASSUME OwnerInv, HandleInv, OrderInv, NumInv, [Next]_vars
  PROVE  NumInv'
<1> SUFFICES ASSUME Early'
             PROVE  /\ numActive' >= Len(queue') + Cardinality(Busy')
                    /\ NothingLost => numActive' = Len(queue') + Cardinality(Busy')
  BY DEF NumInv
<1> DEFINE Exact(n, q, b) == n >= Len(q) + b /\ (NothingLost => n = Len(q) + b)
<1>0. Exact(numActive, queue, Cardinality(Busy))
  BY EarlyBefore DEF NumInv
<1>t. /\ queue \in Seq(Jobs) /\ numActive \in Int /\ Cardinality(Busy) \in Nat
      /\ job \in [Threads -> Jobs \cup {NoJob}] /\ NoJob \notin Jobs
      /\ \A t \in Threads : list[t] \in Seq(Entries)
      /\ Jobs = Entries \cup {InitJob}
  BY CardFacts, NoJobFacts DEF OwnerInv, TypeOK, HandleInv, Jobs
<1>1. ASSUME UNCHANGED <<queue, numActive, job>>
      PROVE  Exact(numActive', queue', Cardinality(Busy'))
  <2>1. Busy' = Busy
    BY <1>1 DEF Busy
  <2> QED
    BY <1>0, <1>1, <2>1
<1>2. ASSUME NEW t \in Threads, WDequeue(t)
      PROVE  Exact(numActive', queue', Cardinality(Busy'))
  <2>1. job[t] = NoJob
    BY <1>2 DEF WDequeue, OwnerInv, Positioned, ThreadPositioned
  <2>2. /\ queue # << >> /\ queue' = Tail(queue) /\ numActive' = numActive
        /\ job' = [job EXCEPT ![t] = Head(queue)]
    BY <1>2 DEF WDequeue
  <2>3. Head(queue) \in Jobs /\ Len(Tail(queue)) = Len(queue) - 1 /\ Len(queue) \in Nat
    BY <1>t, <2>2
  <2>4. Busy' = Busy \cup {t} /\ t \notin Busy
    BY <1>t, <2>1, <2>2, <2>3 DEF Busy
  <2>5. Cardinality(Busy') = Cardinality(Busy) + 1
    BY <2>4, CardFacts DEF HandleInv
  <2> QED
    BY <1>0, <1>t, <2>2, <2>3, <2>5
<1>3. ASSUME NEW t \in Threads, WEnqueue(t)
      PROVE  Exact(numActive', queue', Cardinality(Busy'))
  <2>1. /\ pc[t] = "enqueue" /\ UNCHANGED job /\ numActive' = numActive + 1
        /\ queue' = TailInsert(Head(list[t]))
    BY <1>3 DEF WEnqueue
  <2>2. Head(list[t]) \in Jobs
    BY <1>t, <2>1 DEF OwnerInv, Positioned, ThreadPositioned
  <2>3. Len(queue) \in Nat /\ Len(queue') = IF tail # NoJob THEN Len(queue) + 1 ELSE 1
    BY <1>t, <2>1, <2>2 DEF TailInsert
  <2>4. Len(queue') <= Len(queue) + 1
    BY <2>3
  <2>5. NothingLost => Len(queue') = Len(queue) + 1
    BY <2>1, <2>3, InsertSafe
  <2>6. Busy' = Busy
    BY <2>1 DEF Busy
  <2>7. Len(queue') \in Nat
    BY <2>3
  <2>8. numActive' >= Len(queue') + Cardinality(Busy')
    BY <1>0, <1>t, <2>1, <2>3, <2>4, <2>6, <2>7
  <2>9. ASSUME NothingLost PROVE numActive' = Len(queue') + Cardinality(Busy')
    <3>1. numActive = Len(queue) + Cardinality(Busy) /\ Len(queue') = Len(queue) + 1
      BY <1>0, <2>5, <2>9
    <3>2. numActive' = numActive + 1 /\ Cardinality(Busy') = Cardinality(Busy)
      BY <2>1, <2>6
    <3>3. numActive \in Int /\ Cardinality(Busy) \in Nat /\ Len(queue) \in Nat
      BY <1>t
    <3> QED
      BY <3>1, <3>2, <3>3
  <2> QED
    BY <2>8, <2>9
<1>4. ASSUME NEW t \in Threads, WQueueJobs(t)
      PROVE  Exact(numActive', queue', Cardinality(Busy'))
  <2>1. UNCHANGED job /\ numActive' = numActive + Len(list[t]) /\ queue' = list[t] \o queue
    BY <1>4 DEF WQueueJobs, HeadInsert
  <2>2. Len(queue') = Len(list[t]) + Len(queue) /\ Len(list[t]) \in Nat /\ Len(queue) \in Nat
    BY <1>t, <2>1
  <2>3. Busy' = Busy
    BY <2>1 DEF Busy
  <2> QED
    BY <1>0, <1>t, <2>1, <2>2, <2>3
<1>5. ASSUME NEW t \in Threads, WComplete(t)
      PROVE  Exact(numActive', queue', Cardinality(Busy'))
  <2>1. job[t] # NoJob
    BY <1>5 DEF WComplete, OwnerInv, Positioned, ThreadPositioned
  <2>2. UNCHANGED queue /\ numActive' = numActive - 1 /\ job' = [job EXCEPT ![t] = NoJob]
    BY <1>5 DEF WComplete
  <2>3. Busy' = Busy \ {t} /\ t \in Busy
    BY <1>t, <2>1, <2>2 DEF Busy
  <2>4. Cardinality(Busy') = Cardinality(Busy) - 1
    BY <2>3, CardFacts DEF HandleInv
  <2>5. Len(queue) \in Nat
    BY <1>t
  <2>6. numActive' >= Len(queue') + Cardinality(Busy')
    BY <1>0, <1>t, <2>2, <2>4, <2>5
  <2>7. ASSUME NothingLost PROVE numActive' = Len(queue') + Cardinality(Busy')
    BY <1>0, <1>t, <2>2, <2>4, <2>5, <2>7
  <2> QED
    BY <2>6, <2>7
<1> HIDE DEF Exact
<1>6. ASSUME NEW t \in Threads, Worker(t)
      PROVE  Exact(numActive', queue', Cardinality(Busy'))
  <2>1. CASE ~Handles(t)
    BY <1>1, <1>6, <2>1, WorkerCalm DEF Calm, OwnerInv
  <2>2. CASE WSpec(t) \/ WReaddir(t)
    BY <1>1, <2>2, CreateStep DEF queueVars
  <2>3. CASE WOpendir(t)
    BY <1>1, <2>3 DEF WOpendir, queueVars
  <2> QED
    BY <1>2, <1>3, <1>4, <1>5, <2>1, <2>2, <2>3 DEF Handles
<1>7. ~MReapJoin /\ ~MAbortQueued
  BY DEF MReapJoin, MAbortQueued, Early
<1>8. ASSUME Supervisor
      PROVE  Exact(numActive', queue', Cardinality(Busy'))
  BY <1>1, <1>7, <1>8, SupervisorCalm DEF MainCalm
<1>9. ASSUME UNCHANGED vars
      PROVE  Exact(numActive', queue', Cardinality(Busy'))
  BY <1>1, <1>9 DEF vars, queueVars, threadVars
<1>10. (\E t \in Threads : Worker(t)) \/ Supervisor \/ UNCHANGED vars
  BY DEF Next, Ended, Worker, Supervisor
<1>11. Exact(numActive', queue', Cardinality(Busy'))
  BY <1>6, <1>8, <1>9, <1>10
<1> QED
  BY <1>11 DEF Exact

LEMMA InitCounts == Init => HandleInv /\ OrderInv /\ NumInv
<1> SUFFICES ASSUME Init PROVE HandleInv /\ OrderInv /\ NumInv
  OBVIOUS
<1>1. Busy = {} /\ Cardinality({}) = 0 /\ IsFiniteSet({})
  BY EntriesAssumption, FS_EmptySet DEF Init, Busy
<1>2. NumInv
  <2>1. Len(queue) = 1 /\ numActive = 1
    BY DEF Init
  <2> QED
    BY <1>1, <2>1 DEF NumInv
<1>3. OrderInv
  <2>1. SpecsFirst
    BY EntriesAssumption DEF Init, SpecsFirst, Jobs, Kids
  <2>2. OwnKids
    BY DEF Init, OwnKids, Range
  <2>3. TailInv
    BY DEF Init, TailInv
  <2> QED
    BY <2>1, <2>2, <2>3 DEF OrderInv
<1>4. HandleInv
  <2>1. IsFiniteSet(alive)
    BY FS_Singleton DEF Init
  <2>2. \A d \in Dirs : Scans(d) = {} /\ Held(d) = {} /\ dref[d] = 0
    BY EntriesAssumption DEF Init, Scans, Held, HoldsDref
  <2> QED
    BY <1>1, <2>1, <2>2 DEF HandleInv, HandleCount, Scans, Held
<1> QED
  BY <1>2, <1>3, <1>4

\* num_jobs_active is never below the number of jobs queued and in progress,
\* so wait_for_completion does not leave while there is work to do.
EnoughActive == Early => numActive >= Len(queue) + Cardinality(Busy)

THEOREM NeverTooLow == Spec => []EnoughActive
<1>1. OwnerInv /\ HandleInv /\ OrderInv /\ NumInv /\ [Next]_vars =>
        HandleInv' /\ OrderInv' /\ NumInv'
  BY HandleStep, OrderStep, NumStep
<1>2. NumInv => EnoughActive
  BY DEF NumInv, EnoughActive
<1> QED
  BY <1>1, <1>2, InitCounts, OwnerInvariant, PTL DEF Spec

\* num_jobs_active is exact with one specification or with --no-recursion: a
\* job that queue_jobs and _queue_job_tail lose between them stays counted.
THEOREM ActiveExact ==
  ASSUME NothingLost
  PROVE  Spec => []ActiveCount
<1>1. OwnerInv /\ HandleInv /\ OrderInv /\ NumInv /\ [Next]_vars =>
        HandleInv' /\ OrderInv' /\ NumInv'
  BY HandleStep, OrderStep, NumStep
<1>2. NumInv => ActiveCount
  BY NothingLost DEF NumInv, ActiveCount, Early, Busy
<1> QED
  BY <1>1, <1>2, InitCounts, OwnerInvariant, PTL DEF Spec

-----------------------------------------------------------------------------
(* What is left at the end.                                                *)

\* A job that is allocated is in the queue or with a thread
LeakInv ==
  NothingLost =>
    \A j \in alive : \/ j \in Range(queue)
                     \/ \E t \in Threads : j = job[t] \/ j \in Range(list[t])

LEMMA LeakStep ==
  ASSUME OwnerInv, OrderInv, LeakInv, [Next]_vars
  PROVE  LeakInv'
<1> SUFFICES ASSUME NothingLost, NEW j, j \in alive'
             PROVE  \/ j \in Range(queue')
                    \/ \E t \in Threads : j = job'[t] \/ j \in Range(list'[t])
  BY DEF LeakInv
<1> DEFINE Found(q, b, l) == \/ j \in Range(q)
                             \/ \E t \in Threads : j = b[t] \/ j \in Range(l[t])
<1>t. /\ queue \in Seq(Jobs) /\ alive \subseteq Jobs /\ NoJob \notin Jobs
      /\ job \in [Threads -> Jobs \cup {NoJob}] /\ list \in [Threads -> Seq(Entries)]
      /\ Jobs = Entries \cup {InitJob}
  BY NoJobFacts DEF OwnerInv, TypeOK, Jobs
<1>0. j \in alive => Found(queue, job, list)
  BY DEF LeakInv
<1>1. ASSUME UNCHANGED <<queue, alive, job, list>> PROVE Found(queue', job', list')
  BY <1>0, <1>1
<1>2. ASSUME queue \in Seq(Jobs), queue # << >>
      PROVE  Head(queue) \in Jobs /\ Range(queue) = {Head(queue)} \cup Range(Tail(queue))
  <2>1. /\ Len(queue) \in Nat \ {0} /\ DOMAIN queue = 1..Len(queue) /\ Head(queue) = queue[1]
        /\ Tail(queue) \in Seq(Jobs) /\ DOMAIN Tail(queue) = 1..(Len(queue) - 1)
        /\ \A i \in 1..(Len(queue) - 1) : Tail(queue)[i] = queue[i + 1]
    BY <1>2
  <2>2. \A i \in DOMAIN queue : i = 1 \/ (i - 1 \in DOMAIN Tail(queue) /\ queue[i] = Tail(queue)[i - 1])
    BY <2>1
  <2>3. Range(queue) \subseteq {Head(queue)} \cup Range(Tail(queue))
    BY <2>1, <2>2 DEF Range
  <2> QED
    BY <1>2, <2>3, TailFacts
<1>3. ASSUME NEW t \in Threads, WDequeue(t) PROVE Found(queue', job', list')
  <2>1. /\ queue # << >> /\ queue' = Tail(queue) /\ UNCHANGED <<alive, list>>
        /\ job' = [job EXCEPT ![t] = Head(queue)] /\ job[t] = NoJob
    BY <1>3 DEF WDequeue, OwnerInv, Positioned, ThreadPositioned
  <2>2. job'[t] = Head(queue) /\ \A u \in Threads \ {t} : job'[u] = job[u]
    BY <1>t, <2>1
  <2>3. j # NoJob /\ j \in alive
    BY <1>t, <2>1
  <2>4. j \in Range(queue) => j = Head(queue) \/ j \in Range(queue')
    BY <1>t, <1>2, <2>1
  <2> QED
    BY <1>0, <2>1, <2>2, <2>3, <2>4
<1>4. ASSUME NEW t \in Threads, WSpec(t) \/ WReaddir(t) PROVE Found(queue', job', list')
  <2>1. /\ UNCHANGED <<queue, job>> /\ \A u \in Threads \ {t} : list'[u] = list[u]
        /\ \/ UNCHANGED <<alive, list>>
           \/ \E e : alive' = alive \cup {e} /\ Range(list'[t]) = Range(list[t]) \cup {e}
    BY <1>4, CreateStep DEF queueVars
  <2> QED
    BY <1>0, <1>1, <2>1
<1>5. ASSUME NEW t \in Threads, WEnqueue(t) PROVE Found(queue', job', list')
  <2>1. /\ pc[t] = "enqueue" /\ UNCHANGED <<alive, job>> /\ list' = [list EXCEPT ![t] = << >>]
        /\ queue' = TailInsert(Head(list[t]))
    BY <1>5 DEF WEnqueue, jobVars
  <2>2. list[t] \in Seq(Entries) /\ Len(list[t]) = 1
    BY <1>t, <2>1 DEF OwnerInv, Positioned, ThreadPositioned
  <2>3. Head(list[t]) \in Jobs /\ Range(list[t]) \subseteq {Head(list[t])}
    <3>1. DOMAIN list[t] = {1} /\ Head(list[t]) = list[t][1] /\ Head(list[t]) \in Entries
      BY <2>2
    <3> QED
      BY <1>t, <3>1 DEF Range
  <2>4. Range(queue') = Range(queue) \cup {Head(list[t])}
    <3>1. CASE tail # NoJob
      BY <1>t, <2>1, <2>3, <3>1, AppendFacts DEF TailInsert
    <3>2. CASE tail = NoJob
      <4>1. queue = << >>
        BY <2>1, <3>2, InsertSafe
      <4>2. queue' = <<Head(list[t])>>
        BY <2>1, <3>2 DEF TailInsert
      <4> QED
        BY <4>1, <4>2 DEF Range
    <3> QED
      BY <3>1, <3>2
  <2>5. \A u \in Threads \ {t} : list'[u] = list[u]
    BY <1>t, <2>1
  <2> QED
    BY <1>0, <2>1, <2>3, <2>4, <2>5
<1>6. ASSUME NEW t \in Threads, WQueueJobs(t) PROVE Found(queue', job', list')
  <2>1. /\ UNCHANGED <<alive, job>> /\ list' = [list EXCEPT ![t] = << >>]
        /\ queue' = list[t] \o queue
    BY <1>6 DEF WQueueJobs, HeadInsert
  <2>2. list[t] \in Seq(Jobs)
    BY <1>t
  <2>3. Range(queue') = Range(list[t]) \cup Range(queue)
    BY <1>t, <2>1, <2>2, ConcatFacts
  <2>4. \A u \in Threads \ {t} : list'[u] = list[u]
    BY <1>t, <2>1
  <2> QED
    BY <1>0, <2>1, <2>3, <2>4
<1>7. ASSUME NEW t \in Threads, WComplete(t) \/ (MReapJoin /\ target = t)
      PROVE  Found(queue', job', list')
  <2>1. /\ job' = [job EXCEPT ![t] = NoJob] /\ UNCHANGED <<queue, list>>
        /\ IF job[t] = NoJob THEN UNCHANGED alive ELSE alive' = alive \ {job[t]}
    BY <1>7, ReleaseFacts DEF FreeJob
  <2>2. \A u \in Threads \ {t} : job'[u] = job[u]
    BY <1>t, <2>1
  <2>3. j \in alive /\ j # job[t]
    BY <1>t, <2>1
  <2> QED
    BY <1>0, <2>1, <2>2, <2>3
<1>8. ASSUME MAbortQueued PROVE Found(queue', job', list')
  <2>1. /\ queue # << >> /\ queue' = Tail(queue) /\ alive' = alive \ {Head(queue)}
        /\ UNCHANGED <<job, list>>
    BY <1>8 DEF MAbortQueued, FreeJob, threadVars
  <2> QED
    BY <1>0, <1>2, <1>t, <2>1
<1> HIDE DEF Found
<1>9. ASSUME NEW t \in Threads, Worker(t) PROVE Found(queue', job', list')
  <2>1. CASE ~Handles(t)
    BY <1>1, <1>9, <2>1, WorkerCalm DEF Calm, OwnerInv
  <2>2. CASE WOpendir(t)
    BY <1>1, <2>2 DEF WOpendir, queueVars
  <2> QED
    BY <1>3, <1>4, <1>5, <1>6, <1>7, <2>1, <2>2 DEF Handles
<1>10. ASSUME Supervisor PROVE Found(queue', job', list')
  <2>1. CASE MReapJoin
    BY <1>7, <2>1 DEF MReapJoin, OwnerInv, Positioned
  <2>2. CASE ~MReapJoin /\ ~MAbortQueued
    BY <1>1, <1>10, <2>2, SupervisorCalm DEF MainCalm
  <2> QED
    BY <1>8, <2>1, <2>2
<1>11. ASSUME UNCHANGED vars PROVE Found(queue', job', list')
  BY <1>1, <1>11 DEF vars, queueVars, jobVars, threadVars
<1>12. (\E t \in Threads : Worker(t)) \/ Supervisor \/ UNCHANGED vars
  BY DEF Next, Ended, Worker, Supervisor
<1>13. Found(queue', job', list')
  BY <1>9, <1>10, <1>11, <1>12
<1> QED
  BY <1>13 DEF Found

\* process_queue_threaded joins one thread after the other; nobody is left to
\* queue anything when abort_queued_jobs empties the queue
ReapInv ==
  mpc \in {"reap", "reapjoin", "final", "done"} =>
    /\ \A t \in Threads \ todo : \/ pc[t] = "joined" /\ job[t] = NoJob
                                 \/ mpc = "reapjoin" /\ t = target
    /\ mpc \in {"final", "done"} => todo = {}
    /\ mpc = "done" => queue = << >>

LEMMA ReapStep ==
  ASSUME OwnerInv, ReapInv, [Next]_vars
  PROVE  ReapInv'
<1> USE DEF ReapInv
<1>t. pc \in [Threads -> Positions] /\ job \in [Threads -> Jobs \cup {NoJob}]
  BY DEF OwnerInv, TypeOK
<1>1. ASSUME NEW t \in Threads, Worker(t) PROVE ReapInv'
  <2>1. Moves(t)
    BY <1>1, WorkerMoves DEF OwnerInv
  <2>2. mpc' = mpc \/ mpc' \in {"crashed", "loop"}
    BY <2>1 DEF Moves
  <2>3. CASE mpc' = mpc /\ mpc \in {"reap", "reapjoin", "final", "done"}
    <3>1. t \in todo \/ (mpc = "reapjoin" /\ t = target)
      BY <2>1, <2>3 DEF Moves
    <3>2. mpc \in {"reap", "reapjoin"}
      BY <2>3, <3>1
    <3>3. \A u \in Threads \ {t} : pc[u] = "joined" /\ job[u] = NoJob => pc'[u] = "joined" /\ job'[u] = NoJob
      BY <2>1 DEF Moves
    <3> QED
      BY <2>1, <2>3, <3>1, <3>2, <3>3 DEF Moves
  <2> QED
    BY <2>2, <2>3
<1>2. ASSUME mpc' \notin {"reap", "reapjoin", "final", "done"} PROVE ReapInv'
  BY <1>2
<1>3. CASE MGrace \/ MCreateFails
  BY <1>3 DEF MGrace, MCreateFails
<1>4. CASE MReap
  BY <1>4 DEF MReap, threadVars, queueVars
<1>5. CASE MReapJoin
  <2>1. /\ mpc = "reapjoin" /\ UNCHANGED <<todo, target, queue>> /\ target \in Threads
        /\ pc' = [pc EXCEPT ![target] = "joined"] /\ job' = [job EXCEPT ![target] = NoJob]
        /\ mpc' \in {"reap", "final", "crashed"} /\ (mpc' = "final" => todo = {})
    BY <1>5 DEF MReapJoin, mainVars, queueVars, OwnerInv, Positioned
  <2>2. pc'[target] = "joined" /\ job'[target] = NoJob
    BY <1>t, <2>1
  <2>3. \A u \in Threads \ {target} : pc'[u] = pc[u] /\ job'[u] = job[u]
    BY <1>t, <2>1
  <2> QED
    BY <2>1, <2>2, <2>3
<1>6. CASE MAbortQueued
  BY <1>6 DEF MAbortQueued, threadVars, mainVars
<1>7. CASE MFinal
  BY <1>7 DEF MFinal, threadVars, queueVars
<1>8. CASE \/ MCreate \/ MMark \/ MWait \/ MLeave \/ MToolTimeout
           \/ MTimeoutRaced \/ MTimeout \/ MCancel \/ MRestart \/ MRestartFails
           \/ MExpire \/ MSpurious
  BY <1>2, <1>8 DEF MCreate, MMark, MWait, MLeave, MToolTimeout,
     MTimeoutRaced, MTimeout, MCancel, MRestart, MRestartFails, MExpire, MSpurious
<1>9. CASE UNCHANGED vars
  BY <1>9 DEF vars, queueVars, threadVars, mainVars
<1>10. (\E t \in Threads : Worker(t)) \/ Supervisor \/ UNCHANGED vars
  BY DEF Next, Ended, Worker, Supervisor
<1> QED
  BY <1>1, <1>3, <1>4, <1>5, <1>6, <1>7, <1>8, <1>9, <1>10 DEF Supervisor, MStep

\* What the invariants say together when the output is finalised
LEMMA EndFacts ==
  ASSUME OwnerInv, HandleInv, LeakInv, ReapInv, NothingLost
  PROVE  QuietAtEnd
<1> SUFFICES ASSUME mpc \in {"final", "done"}
             PROVE  /\ outLock = NoThread
                    /\ \A t \in Threads : pc[t] = "joined" /\ job[t] = NoJob
                    /\ alive = Range(queue)
                    /\ mpc = "done" => queue = << >> /\ \A d \in Dirs : dref[d] = 0
  BY DEF QuietAtEnd
<1>1. \A t \in Threads : pc[t] = "joined" /\ job[t] = NoJob
  BY DEF ReapInv
<1>2. outLock = NoThread
  BY <1>1 DEF OwnerInv, OutputExclusion, TypeOK, Writing
<1>3. alive = Range(queue)
  <2>1. \A t \in Threads : list[t] = << >>
    BY <1>1 DEF OwnerInv, Positioned, ThreadPositioned
  <2>2. Range(<< >>) = {} /\ NoJob \notin alive
    BY NoJobFacts DEF Range, OwnerInv, TypeOK
  <2>3. alive \subseteq Range(queue)
    BY <1>1, <2>1, <2>2 DEF LeakInv
  <2> QED
    BY <2>3 DEF OwnerInv, UniqueOwner
<1>4. ASSUME mpc = "done" PROVE queue = << >> /\ \A d \in Dirs : dref[d] = 0
  <2>1. queue = << >>
    BY <1>4 DEF ReapInv
  <2>2. alive = {}
    BY <1>3, <2>1 DEF Range
  <2>3. \A d \in Dirs : Held(d) = {} /\ Scans(d) = {}
    BY <1>1, <2>2 DEF Held, Scans
  <2>4. Cardinality({}) = 0
    BY FS_EmptySet
  <2>5. \A d \in Dirs : dref[d] = 0
    BY <2>3, <2>4, HandleFacts
  <2> QED
    BY <2>1, <2>5
<1> QED
  BY <1>1, <1>2, <1>3, <1>4

\* At the end every thread is joined, the output mutex is free, and every job
\* and every directory handle is released but for what is still queued, which
\* abort_queued_jobs then frees: with one specification or --no-recursion.
THEOREM EndIsQuiet ==
  ASSUME NothingLost
  PROVE  Spec => []QuietAtEnd
<1>1. Init => HandleInv /\ OrderInv /\ LeakInv /\ ReapInv
  <2> SUFFICES ASSUME Init PROVE LeakInv /\ ReapInv
    BY InitCounts
  <2>1. ReapInv
    BY DEF Init, ReapInv
  <2>2. alive = {InitJob} /\ queue = <<InitJob>>
    BY DEF Init
  <2>3. LeakInv
    BY <2>2 DEF LeakInv, Range
  <2> QED
    BY <2>1, <2>3
<1>2. OwnerInv /\ HandleInv /\ OrderInv /\ LeakInv /\ ReapInv /\ [Next]_vars =>
        HandleInv' /\ OrderInv' /\ LeakInv' /\ ReapInv'
  BY HandleStep, OrderStep, LeakStep, ReapStep
<1>3. OwnerInv /\ HandleInv /\ LeakInv /\ ReapInv => QuietAtEnd
  BY NothingLost, EndFacts
<1> QED
  BY <1>1, <1>2, <1>3, OwnerInvariant, PTL DEF Spec

-----------------------------------------------------------------------------
(* Without --file-timeout no thread is restarted: what dump2tar counts and *)
(* writes for each entry.                                                  *)

\* With --file-timeout, a deadline that strikes when a read has just ended
\* makes the new thread count and write the entry again.
NoDeadlines == ~Opts.file_timeout

OnTime ==
  /\ mpc \in {"waiting", "timedout"} => target \notin Threads
  /\ mpc \notin {"cancel", "join"}
  /\ \A t \in Threads : /\ ~timedOut[t] /\ (canceled[t] => ~Early)
                        /\ pc[t] = "begin" => job[t] = NoJob

LEMMA OnTimeStep ==
  ASSUME OwnerInv, NoDeadlines, OnTime, [Next]_vars
  PROVE  OnTime'
<1>t. /\ \A j : ~Timed(j) /\ NoThread \notin Threads /\ Tool \notin Threads
      /\ pc \in [Threads -> Positions] /\ canceled \in [Threads -> BOOLEAN]
  BY ThreadsAssumption DEF Timed, NoDeadlines, OwnerInv, TypeOK
<1>e. ~Early => ~Early'
  BY EarlyBefore
<1>1. ASSUME NEW t \in Threads, Worker(t) PROVE OnTime'
  <2>1. Moves(t)
    BY <1>1, WorkerMoves DEF OwnerInv
  <2>2. UNCHANGED <<timedOut, canceled>> /\ pc'[t] # "begin"
    <3> USE DEF threadVars
    <3>1. CASE \/ WBegin(t) \/ WDequeue(t) \/ WLeave(t) \/ WWait(t) \/ WExclude(t)
               \/ WNoRecursion(t) \/ WProc(t) \/ WOpen(t)
      BY <1>t, <3>1 DEF WBegin, WDequeue, WLeave, Exits, WWait, WExclude, WNoRecursion, WProc, WorkFor, WOpen
    <3>2. CASE WOpenFails(t) \/ WOpendirFails(t)
      BY <1>t, <3>2 DEF WOpenFails, WOpendirFails, ReadError, AbortIf, WakeAll
    <3>3. CASE WSpec(t) \/ WReaddir(t)
      BY <1>t, <3>3 DEF WSpec, WReaddir, CreateJob, StatFails, SkipType, ReadError, AbortIf, WakeAll
    <3>4. CASE WEnqueue(t)
      BY <1>t, <3>4 DEF WEnqueue, WakeOne
    <3>5. CASE WSpecsDone(t) \/ WOpendir(t) \/ WPost(t) \/ WEmitBegin(t) \/ WSkip(t) \/ WComplete(t)
               \/ WTimedOut(t) \/ WCancel(t) \/ WSpurious(t) \/ WEmit(t) \/ WRead(t) \/ WReadAborted(t)
      BY <1>t, <3>5 DEF WSpecsDone, WOpendir, WPost, WEmitBegin, WSkip, WComplete, WTimedOut, Exits,
         WCancel, WSpurious, WEmit, AfterEmit, WRead, WReadAborted
    <3>6. CASE WQueueJobs(t)
      BY <1>t, <3>6 DEF WQueueJobs, WakeAll
    <3>7. CASE WCheck(t) \/ WReadFails(t) \/ WEmitFails(t)
      BY <1>t, <3>7 DEF WCheck, WReadFails, WEmitFails, AfterEmit, ReadError, AbortIf, WakeAll
    <3> QED
      BY <1>1, <3>1, <3>2, <3>3, <3>4, <3>5, <3>6, <3>7 DEF Worker, WStep, WInput, WOutput
  <2> QED
    BY <1>e, <2>1, <2>2 DEF Moves, OnTime
<1>2. CASE Supervisor
  <2>1. CASE MCreate
    BY <1>e, <1>t, <2>1 DEF MCreate, OnTime, threadVars, OwnerInv, Positioned, ThreadPositioned
  <2>2. CASE MMark \/ MCreateFails \/ MTimeoutRaced \/ MGrace \/ MFinal \/ MSpurious \/ MExpire
    BY <1>e, <1>t, <2>2 DEF MMark, MCreateFails, MTimeoutRaced, MGrace, MFinal, MSpurious, MExpire, OnTime,
       threadVars, mainVars
  <2>3. CASE MWait
    BY <1>e, <1>t, <2>3 DEF MWait, Deadlines, OnTime, threadVars
  <2>4. CASE MLeave \/ MToolTimeout
    BY <1>e, <1>t, <2>4 DEF MLeave, MToolTimeout, WakeAll, OnTime, threadVars, mainVars
  <2>5. ~MTimeout /\ ~MCancel /\ ~MRestart /\ ~MRestartFails
    BY DEF OnTime, MTimeout, MCancel, MRestart, MRestartFails
  <2>6. CASE MReap
    BY <1>e, <1>t, <2>6 DEF MReap, OnTime, Early
  <2>7. CASE MReapJoin
    BY <1>e, <1>t, <2>7 DEF MReapJoin, OnTime, OwnerInv, TypeOK, mainVars
  <2>8. CASE MAbortQueued
    BY <1>e, <1>t, <2>8 DEF MAbortQueued, OnTime, threadVars, mainVars
  <2> QED
    BY <1>2, <2>1, <2>2, <2>3, <2>4, <2>5, <2>6, <2>7, <2>8 DEF Supervisor, MStep
<1>3. CASE UNCHANGED vars
  BY <1>e, <1>3 DEF vars, OnTime, threadVars, mainVars
<1> QED
  BY <1>1, <1>2, <1>3 DEF Next, Ended, Worker, Supervisor

LEMMA InitOnTime == Init => OnTime
BY DEF Init, OnTime

-----------------------------------------------------------------------------
(* The statistics.                                                         *)

\* process_job is through with the job of t; its result is not counted yet
Finishes(t) ==
  /\ pc[t] \in Processing /\ pc'[t] = "post" /\ UNCHANGED <<job, stats, written, torn>>
  /\ \E s \in {"done", "excluded", "failed"} : status' = [status EXCEPT ![job[t]] = s]

\* create_job for entry e leads to status s
Creates(t, e, s) ==
  /\ e \in left[t] /\ status[e] = "none" /\ status' = [status EXCEPT ![e] = s]
  /\ UNCHANGED <<job, written, torn>> /\ pc[t] \in {"specs", "readdir"} /\ pc'[t] # "post"
  /\ \/ s = "queued" /\ UNCHANGED stats
     \/ s = "statfail" /\ stats' = [stats EXCEPT !["failed"] = @ + 1]
     \/ s = "typeexcl" /\ stats' = [stats EXCEPT !["excluded"] = @ + 1]

\* A step of t that neither finds, finishes nor counts anything
Passes(t) == UNCHANGED <<status, stats>> /\ pc[t] # "post" /\ pc'[t] # "post"

LEMMA WorkerKinds ==
  ASSUME OwnerInv, NoDeadlines, OnTime, NEW t \in Threads, Worker(t)
  PROVE  \/ WDequeue(t) \/ Finishes(t) \/ WPost(t) \/ Passes(t)
         \/ \E e \in Entries, s \in {"queued", "statfail", "typeexcl"} : Creates(t, e, s)
<1>t. /\ pc \in [Threads -> Positions] /\ left \in [Threads -> SUBSET Entries]
      /\ \A u \in Threads : \A e \in left[u] : status[e] = "none"
  BY DEF OwnerInv, TypeOK, CreatedOnce
<1> USE DEF threadVars, fileVars, jobVars
<1>1. CASE WBegin(t)
  BY <1>t, <1>1 DEF WBegin, OnTime, Passes
<1>2. CASE WLeave(t) \/ WWait(t) \/ WSpurious(t) \/ WProc(t) \/ WOpen(t)
  BY <1>t, <1>2 DEF WLeave, Exits, WWait, WSpurious, WProc, WorkFor, WOpen, Passes
<1>3. CASE WExclude(t) \/ WNoRecursion(t) \/ WSpecsDone(t)
  BY <1>t, <1>3 DEF WExclude, WNoRecursion, WSpecsDone, Finishes, Processing
<1>4. CASE WOpenFails(t) \/ WOpendirFails(t)
  BY <1>t, <1>4 DEF WOpenFails, WOpendirFails, ReadError, AbortIf, WakeAll, Finishes, Processing
<1>5. CASE WSpec(t) \/ WReaddir(t)
  <2>1. PICK e \in left[t] : \/ \E p \in {"enqueue", "readdir"} : CreateJob(t, e, p)
                             \/ StatFails(t, e) \/ SkipType(t, e)
    BY <1>5 DEF WSpec, WReaddir
  <2>2. e \in Entries /\ status[e] = "none" /\ pc[t] \in {"specs", "readdir"} /\ UNCHANGED <<job, written, torn>>
    BY <1>5, <1>t DEF WSpec, WReaddir
  <2>3. CASE \E p \in {"enqueue", "readdir"} : CreateJob(t, e, p)
    <3>1. Creates(t, e, "queued")
      BY <1>t, <2>2, <2>3 DEF CreateJob, Creates
    <3> QED
      BY <2>2, <3>1
  <2>4. CASE StatFails(t, e)
    <3>1. Creates(t, e, "statfail")
      BY <1>t, <2>2, <2>4 DEF StatFails, ReadError, AbortIf, WakeAll, Creates
    <3> QED
      BY <2>2, <3>1
  <2>5. CASE SkipType(t, e)
    <3>1. Creates(t, e, "typeexcl")
      BY <1>t, <2>2, <2>5 DEF SkipType, Creates
    <3> QED
      BY <2>2, <3>1
  <2> QED
    BY <2>1, <2>3, <2>4, <2>5
<1>6. CASE WEnqueue(t)
  BY <1>t, <1>6 DEF WEnqueue, WakeOne, Passes
<1>7. CASE WOpendir(t) \/ WEmitBegin(t) \/ WSkip(t) \/ WComplete(t) \/ WTimedOut(t) \/ WCancel(t) \/ WEmit(t)
  BY <1>t, <1>7 DEF WOpendir, WEmitBegin, WSkip, WComplete, WTimedOut, Exits, WCancel, Cancelable, WEmit,
     AfterEmit, Passes
<1>8. CASE WQueueJobs(t)
  BY <1>t, <1>8 DEF WQueueJobs, WakeAll, Finishes, Processing
<1>9. CASE WCheck(t) \/ WEmitFails(t)
  BY <1>t, <1>9 DEF WCheck, WEmitFails, AfterEmit, AbortIf, WakeAll, Passes
<1>10. CASE WRead(t) \/ WReadAborted(t) \/ WReadFails(t)
  BY <1>t, <1>10 DEF WRead, WReadAborted, WReadFails, ReadError, AbortIf, WakeAll, Finishes, Processing
<1> QED
  BY <1>1, <1>2, <1>3, <1>4, <1>5, <1>6, <1>7, <1>8, <1>9, <1>10 DEF Worker, WStep, WInput, WOutput

\* The main thread changes a status only in abort_queued_jobs
LEMMA SupervisorKinds ==
  ASSUME OwnerInv, NoDeadlines, OnTime, Supervisor
  PROVE  \/ MAbortQueued
         \/ /\ UNCHANGED <<status, stats, written, torn>>
            /\ \A u \in Threads : (pc'[u] = "post" <=> pc[u] = "post") /\ (pc[u] = "post" => job'[u] = job[u])
<1>t. pc \in [Threads -> Positions] /\ job \in [Threads -> Jobs \cup {NoJob}] /\ Positioned
  BY DEF OwnerInv, TypeOK
<1>1. ~MRestart /\ ~MRestartFails
  BY DEF OnTime, MRestart, MRestartFails
<1>2. Supervisor /\ ~MAbortQueued => UNCHANGED <<status, stats, written, torn>>
  BY <1>1 DEF Supervisor, MStep, MCreate, MMark, MCreateFails, MWait, MLeave, MToolTimeout, MTimeoutRaced,
     MTimeout, MCancel, MGrace, MReap, MReapJoin, MFinal, MExpire, MSpurious, jobVars, fileVars
<1>3. CASE MReapJoin
  BY <1>t, <1>2, <1>3 DEF MReapJoin, Positioned
<1>4. CASE ~MReapJoin /\ ~MAbortQueued
  BY <1>2, <1>4, SupervisorCalm DEF MainCalm
<1> QED
  BY <1>3, <1>4

Results == {"done", "partial", "excluded", "failed", "statfail", "typeexcl"}

\* The entries with result s, but for those that a thread is still to account
Unsettled == {job[t] : t \in {u \in Threads : pc[u] = "post"}}
Settled(s) == {e \in Entries : status[e] = s /\ e \notin Unsettled}
SettledCmds(s) == {e \in Settled(s) : IsCmd(e)}

\* What an entry with result s adds to counter n
Worth(e, s, n) ==
  IF n = "done" THEN IF s \notin {"done", "partial"} THEN 0
                     ELSE IF IsCmd(e) /\ Opts.add_cmd_status THEN 2 ELSE 1
  ELSE IF s = n \/ (n = "failed" /\ s = "statfail") \/ (n = "excluded" /\ s = "typeexcl") THEN 1 ELSE 0

\* The sums
Tally(n) ==
  IF n = "done" THEN Cardinality(Settled("done")) + Cardinality(Settled("partial"))
                     + (IF Opts.add_cmd_status
                        THEN Cardinality(SettledCmds("done")) + Cardinality(SettledCmds("partial")) ELSE 0)
  ELSE IF n = "failed" THEN Cardinality(Settled("failed")) + Cardinality(Settled("statfail"))
  ELSE IF n = "excluded" THEN Cardinality(Settled("excluded")) + Cardinality(Settled("typeexcl"))
  ELSE Cardinality(Settled("partial"))

\* abort_queued_jobs counts the first job, which is no entry, as failed
CountInv ==
  /\ \A s \in Results : IsFiniteSet(Settled(s))
  /\ \A n \in Counters : (n = "failed" /\ status[InitJob] = "failed") \/ stats[n] = Tally(n)

SameSettled == \A s \in Results : Settled(s)' = Settled(s)

\* Entry e gets result s and is counted
Settles(e, s) ==
  /\ e \in Entries /\ s \in Results /\ \A r \in Results : e \notin Settled(r)
  /\ \A r \in Results : Settled(r)' = IF r = s THEN Settled(r) \cup {e} ELSE Settled(r)
  /\ stats' = [n \in Counters |-> stats[n] + Worth(e, s, n)]

LEMMA CountSame ==
  ASSUME CountInv, SameSettled, UNCHANGED stats,
         status[InitJob] = "failed" => status'[InitJob] = "failed"
  PROVE  CountInv'
<1>1. \A s \in Results : Settled(s)' = Settled(s) /\ SettledCmds(s)' = SettledCmds(s)
  BY DEF SameSettled, SettledCmds, IsCmd
<1>2. ASSUME NEW n \in Counters PROVE Tally(n)' = Tally(n)
  BY <1>1 DEF Tally, Results, Counters
<1> QED
  BY <1>1, <1>2 DEF CountInv

LEMMA CountSettles ==
  ASSUME CountInv, TypeOK, NEW e, NEW s, Settles(e, s),
         status[InitJob] = "failed" => status'[InitJob] = "failed"
  PROVE  CountInv'
<1> DEFINE C(r) == Cardinality(Settled(r))  M(r) == Cardinality(SettledCmds(r))
           add == Opts.add_cmd_status
<1>1. /\ e \in Entries /\ s \in Results /\ \A r \in Results : e \notin Settled(r)
      /\ \A r \in Results : Settled(r)' = IF r = s THEN Settled(r) \cup {e} ELSE Settled(r)
      /\ stats' = [n \in Counters |-> stats[n] + Worth(e, s, n)]
  BY DEF Settles
<1>2. ASSUME NEW r \in Results
      PROVE  /\ IsFiniteSet(Settled(r)) /\ IsFiniteSet(SettledCmds(r)) /\ C(r) \in Nat /\ M(r) \in Nat
             /\ IsFiniteSet(Settled(r)')
             /\ C(r)' = IF r = s THEN C(r) + 1 ELSE C(r)
  <2>1. IsFiniteSet(Settled(r)) /\ SettledCmds(r) \subseteq Settled(r)
    BY DEF CountInv, SettledCmds
  <2>2. IsFiniteSet(SettledCmds(r))
    BY <2>1, FS_Subset
  <2>3. CASE r = s
    <3>1. Settled(r)' = Settled(r) \cup {e} /\ e \notin Settled(r)
      BY <1>1, <2>3
    <3>2. /\ IsFiniteSet(Settled(r) \cup {e}) /\ Cardinality(Settled(r) \cup {e}) = Cardinality(Settled(r)) + 1
          /\ Cardinality(Settled(r)) \in Nat
      BY <2>1, <3>1, CardFacts
    <3>3. Cardinality(SettledCmds(r)) \in Nat
      BY <2>2, CardFacts
    <3> QED
      BY <2>1, <2>2, <2>3, <3>1, <3>2, <3>3
  <2>4. CASE r # s
    BY <1>1, <2>1, <2>2, <2>4, CardFacts
  <2> QED
    BY <2>3, <2>4
<1>3. ASSUME NEW r \in Results
      PROVE  M(r)' = IF r = s /\ IsCmd(e) THEN M(r) + 1 ELSE M(r)
  <2>1. \A f : IsCmd(f)' <=> IsCmd(f)
    BY DEF IsCmd
  <2>2. CASE r = s /\ IsCmd(e)
    <3>1. SettledCmds(r)' = SettledCmds(r) \cup {e} /\ e \notin SettledCmds(r)
      BY <1>1, <2>1, <2>2 DEF SettledCmds
    <3> QED
      BY <1>2, <2>2, <3>1, CardFacts
  <2>3. CASE ~(r = s /\ IsCmd(e))
    <3>1. SettledCmds(r)' = SettledCmds(r)
      BY <1>1, <2>1, <2>3 DEF SettledCmds
    <3> QED
      BY <2>3, <3>1
  <2> QED
    BY <2>2, <2>3
<1> DEFINE T(n) == Tally(n)
<1>4. ASSUME NEW n \in Counters, stats[n] = Tally(n) PROVE stats'[n] = Tally(n)'
  <2>1. stats'[n] = Tally(n) + Worth(e, s, n)
    BY <1>1, <1>4
  <2> DEFINE cd == C("done")  cp == C("partial")  ce == C("excluded")
             cf == C("failed")  cs == C("statfail")  ct == C("typeexcl")
             md == M("done")  mp == M("partial")
             dd == C("done")'  dp == C("partial")'  de == C("excluded")'
             df == C("failed")'  ds == C("statfail")'  dt == C("typeexcl")'
             nd == M("done")'  np == M("partial")'
  <2>2. /\ Tally(n) = (IF n = "done" THEN cd + cp + (IF add THEN md + mp ELSE 0)
                       ELSE IF n = "failed" THEN cf + cs ELSE IF n = "excluded" THEN ce + ct ELSE cp)
        /\ Tally(n)' = (IF n = "done" THEN dd + dp + (IF add THEN nd + np ELSE 0)
                        ELSE IF n = "failed" THEN df + ds ELSE IF n = "excluded" THEN de + dt ELSE dp)
    BY DEF Tally
  <2>3. /\ cd \in Nat /\ cp \in Nat /\ ce \in Nat /\ cf \in Nat /\ cs \in Nat /\ ct \in Nat
        /\ md \in Nat /\ mp \in Nat
    BY <1>2 DEF Results
  <2>4. /\ dd = (IF s = "done" THEN cd + 1 ELSE cd) /\ dp = (IF s = "partial" THEN cp + 1 ELSE cp)
        /\ de = (IF s = "excluded" THEN ce + 1 ELSE ce) /\ df = (IF s = "failed" THEN cf + 1 ELSE cf)
        /\ ds = (IF s = "statfail" THEN cs + 1 ELSE cs) /\ dt = (IF s = "typeexcl" THEN ct + 1 ELSE ct)
    BY <1>2 DEF Results
  <2>5. /\ nd = (IF s = "done" /\ IsCmd(e) THEN md + 1 ELSE md)
        /\ np = (IF s = "partial" /\ IsCmd(e) THEN mp + 1 ELSE mp)
    BY <1>3 DEF Results
  <2> HIDE DEF cd, cp, ce, cf, cs, ct, md, mp, dd, dp, de, df, ds, dt, nd, np
  <2>6. CASE n = "done"
    <3>1. Worth(e, s, n) = IF s \notin {"done", "partial"} THEN 0 ELSE IF IsCmd(e) /\ add THEN 2 ELSE 1
      BY <2>6 DEF Worth
    <3>2. Tally(n) = cd + cp + (IF add THEN md + mp ELSE 0) /\ Tally(n)' = dd + dp + (IF add THEN nd + np ELSE 0)
      BY <2>2, <2>6
    <3>3. CASE s = "done"
      BY <2>1, <2>3, <2>4, <2>5, <3>1, <3>2, <3>3
    <3>4. CASE s = "partial"
      BY <2>1, <2>3, <2>4, <2>5, <3>1, <3>2, <3>4
    <3>5. CASE s \notin {"done", "partial"}
      BY <2>1, <2>3, <2>4, <2>5, <3>1, <3>2, <3>5
    <3> QED
      BY <3>3, <3>4, <3>5
  <2>7. CASE n = "failed"
    BY <2>1, <2>2, <2>3, <2>4, <2>7 DEF Worth
  <2>8. CASE n = "excluded"
    BY <2>1, <2>2, <2>3, <2>4, <2>8 DEF Worth
  <2>9. CASE n = "partial"
    BY <2>1, <2>2, <2>3, <2>4, <2>9 DEF Worth
  <2> QED
    BY <2>6, <2>7, <2>8, <2>9 DEF Counters
<1> QED
  BY <1>2, <1>4 DEF CountInv

\* Where the results come from
LEMMA SettledFacts ==
  ASSUME OwnerInv
  PROVE  /\ \A t \in Threads : pc[t] = "post" => job[t] \in Jobs /\ status[job[t]] \notin Unstarted
         /\ \A t, u \in Threads : job[t] = job[u] /\ job[t] # NoJob => t = u
         /\ Unsettled \subseteq Jobs
<1>1. \A t \in Threads : pc[t] = "post" => job[t] \in Jobs /\ job[t] # NoJob
  BY JobFacts DEF OwnerInv, Positioned, ThreadPositioned
<1> QED
  BY <1>1 DEF OwnerInv, UniqueOwner, CreatedOnce, Unsettled

LEMMA CountStep ==
  ASSUME OwnerInv, NoDeadlines, OnTime, CountInv, [Next]_vars
  PROVE  CountInv'
<1>t. /\ TypeOK /\ CreatedOnce
      /\ status \in [Jobs -> Statuses] /\ stats \in [Counters -> Nat]
      /\ pc \in [Threads -> Positions] /\ job \in [Threads -> Jobs \cup {NoJob}]
      /\ NoJob \notin Jobs /\ Entries \subseteq Jobs /\ InitJob \in Jobs /\ InitJob \notin Entries
  BY EntriesAssumption DEF OwnerInv, TypeOK, Jobs
<1>f. status[InitJob] = "failed" => status'[InitJob] = "failed"
  BY <1>t, StepFinal DEF Final
<1>1. ASSUME NEW t \in Threads, Worker(t) PROVE CountInv'
  <2>1. /\ \A u \in Threads \ {t} : (pc'[u] = "post" <=> pc[u] = "post") /\ job'[u] = job[u]
    BY <1>1, WorkerMoves DEF Moves, OwnerInv
  <2>2. CASE pc[t] # "post" /\ pc'[t] # "post"
    <3>1. Unsettled' = Unsettled
      BY <2>1, <2>2 DEF Unsettled
    <3>2. CASE WDequeue(t)
      <4>1. queue # << >> /\ status' = [status EXCEPT ![Head(queue)] = "in_progress"] /\ UNCHANGED stats
        BY <3>2 DEF WDequeue
      <4>2. Head(queue) \in Jobs /\ status[Head(queue)] = "queued"
        BY <1>t, <4>1, TailFacts DEF TypeOK, CreatedOnce
      <4>3. SameSettled
        BY <1>t, <3>1, <4>1, <4>2 DEF SameSettled, Settled, Results
      <4> QED
        BY <1>f, <4>1, <4>3, CountSame
    <3>3. CASE Passes(t)
      <4>1. SameSettled
        BY <3>1, <3>3 DEF Passes, SameSettled, Settled
      <4> QED
        BY <1>f, <3>3, <4>1, CountSame DEF Passes
    <3>4. ASSUME NEW e \in Entries, NEW s \in {"queued", "statfail", "typeexcl"}, Creates(t, e, s)
          PROVE  CountInv'
      <4>1. status[e] = "none" /\ status' = [status EXCEPT ![e] = s]
        BY <3>4 DEF Creates
      <4>2. e \notin Unsettled
        BY <4>1, SettledFacts DEF Unsettled, Unstarted
      <4>3. CASE s = "queued"
        <5>1. SameSettled
          BY <1>t, <3>1, <4>1, <4>3 DEF SameSettled, Settled, Results
        <5> QED
          BY <1>f, <3>4, <4>3, <5>1, CountSame DEF Creates
      <4>4. CASE s # "queued"
        <5>1. /\ \A r \in Results : e \notin Settled(r)
              /\ \A r \in Results : Settled(r)' = IF r = s THEN Settled(r) \cup {e} ELSE Settled(r)
          BY <1>t, <3>1, <4>1, <4>2, <4>4 DEF Settled, Results
        <5>2. stats' = [stats EXCEPT ![IF s = "statfail" THEN "failed" ELSE "excluded"] = @ + 1]
          BY <3>4, <4>4 DEF Creates
        <5>3. stats' = [n \in Counters |-> stats[n] + Worth(e, s, n)]
          <6>1. ASSUME NEW n \in Counters PROVE stats'[n] = stats[n] + Worth(e, s, n)
            <7>1. CASE s = "statfail"
              BY <1>t, <5>2, <6>1, <7>1 DEF Worth, Counters
            <7>2. CASE s = "typeexcl"
              BY <1>t, <5>2, <6>1, <7>2 DEF Worth, Counters
            <7> QED
              BY <4>4, <7>1, <7>2
          <6>2. stats' = [n \in Counters |-> stats'[n]]
            BY <1>t, <5>2
          <6> QED
            BY <6>1, <6>2
        <5>4. Settles(e, s)
          BY <4>4, <5>1, <5>3 DEF Settles, Results
        <5> QED
          BY <1>f, <1>t, <5>4, CountSettles
      <4> QED
        BY <4>3, <4>4
    <3> QED
      BY <1>1, <2>2, <3>2, <3>3, <3>4, WorkerKinds DEF Finishes, WPost
  <2>3. CASE Finishes(t)
    <3>1. PICK s \in {"done", "excluded", "failed"} : status' = [status EXCEPT ![job[t]] = s]
      BY <2>3 DEF Finishes
    <3>2. job[t] \in Jobs /\ status[job[t]] = "in_progress"
      BY <1>t, <2>3, JobFacts DEF Finishes, CreatedOnce
    <3>3. Unsettled' = Unsettled \cup {job[t]}
      BY <2>1, <2>3 DEF Finishes, Unsettled, Processing
    <3>4. SameSettled
      BY <1>t, <3>1, <3>2, <3>3 DEF SameSettled, Settled, Results
    <3> QED
      BY <1>f, <2>3, <3>4, CountSame DEF Finishes
  <2>4. CASE WPost(t)
    <3> DEFINE j == job[t]  s == status[job[t]]
    <3>1. /\ pc[t] = "post" /\ pc' = [pc EXCEPT ![t] = "write"] /\ UNCHANGED <<job, status>>
          /\ stats' = Account(j)
      BY <2>4 DEF WPost, jobVars, threadVars
    <3>2. j \in Jobs /\ s \in Statuses /\ s \notin Unstarted
      BY <1>t, <3>1, SettledFacts
    <3>3. Unsettled' = Unsettled \ {j}
      <4>1. pc'[t] # "post" /\ \A u \in Threads \ {t} : job[u] # j
        BY <1>t, <3>1, <3>2, SettledFacts
      <4> QED
        BY <2>1, <3>1, <4>1 DEF Unsettled
    <3>4. j \in Unsettled
      BY <3>1 DEF Unsettled
    <3>6. CASE j \in Entries /\ s \in Results
      <4>1. \A r \in Results : j \notin Settled(r)
        BY <3>4 DEF Settled
      <4>2. ASSUME NEW r \in Results PROVE Settled(r)' = IF r = s THEN Settled(r) \cup {j} ELSE Settled(r)
        <5>1. status' = status
          BY <3>1
        <5>2. Settled(r)' = {e \in Entries : status[e] = r /\ (e \notin Unsettled \/ e = j)}
          BY <3>3, <3>4, <5>1 DEF Settled
        <5> QED
          BY <3>6, <5>2 DEF Settled
      <4>3. \A n \in Counters : Counted(j, n) = Worth(j, s, n)
        BY <1>t, <3>2, <3>6 DEF Counted, Worth, Counters, Results, Unstarted
      <4>4. stats' = [n \in Counters |-> stats[n] + Worth(j, s, n)]
        BY <3>1, <4>3 DEF Account
      <4>5. Settles(j, s)
        BY <3>6, <4>1, <4>2, <4>4 DEF Settles
      <4> QED
        BY <1>f, <1>t, <4>5, CountSettles
    <3>7. CASE ~(j \in Entries /\ s \in Results)
      <4>1. SameSettled
        BY <3>1, <3>3, <3>7 DEF SameSettled, Settled
      <4>2. \A n \in Counters : Counted(j, n) = 0
        BY <1>t, <3>2, <3>7 DEF Counted, Jobs, Results, Counters
      <4>3. stats' = stats
        BY <1>t, <3>1, <4>2 DEF Account
      <4> QED
        BY <1>f, <4>1, <4>3, CountSame
    <3> QED
      BY <3>6, <3>7
  <2> QED
    BY <1>1, <1>t, <2>2, <2>3, <2>4, WorkerKinds DEF Passes, WDequeue, Creates
<1>2. CASE MAbortQueued
  <2> DEFINE j == Head(queue)
  <2>1. /\ queue # << >> /\ status' = [status EXCEPT ![j] = "failed"] /\ UNCHANGED <<pc, job>>
        /\ stats' = [stats EXCEPT !["failed"] = @ + 1]
    BY <1>2 DEF MAbortQueued, threadVars
  <2>2. j \in Jobs /\ status[j] = "queued"
    BY <1>t, <2>1, TailFacts DEF TypeOK, CreatedOnce
  <2> HIDE DEF j
  <2>3. Unsettled' = Unsettled /\ j \notin Unsettled
    <3>1. Unsettled' = Unsettled
      BY <2>1 DEF Unsettled
    <3>2. j \notin Unsettled
      BY <2>2, SettledFacts DEF Unsettled, Unstarted
    <3> QED
      BY <3>1, <3>2
  <2>4. CASE j \in Entries
    <3>1. /\ \A r \in Results : j \notin Settled(r)
          /\ \A r \in Results : Settled(r)' = IF r = "failed" THEN Settled(r) \cup {j} ELSE Settled(r)
      BY <1>t, <2>1, <2>2, <2>3, <2>4 DEF Settled, Results
    <3>2. stats' = [n \in Counters |-> stats[n] + Worth(j, "failed", n)]
      <4>1. \A n \in Counters : Worth(j, "failed", n) = IF n = "failed" THEN 1 ELSE 0
        BY DEF Worth, Counters
      <4>2. \A n \in Counters : stats'[n] = stats[n] + Worth(j, "failed", n)
        BY <1>t, <2>1, <4>1
      <4>3. stats' = [n \in Counters |-> stats'[n]]
        BY <1>t, <2>1
      <4> QED
        BY <4>2, <4>3
    <3>3. Settles(j, "failed")
      BY <2>4, <3>1, <3>2 DEF Settles, Results
    <3> QED
      BY <1>f, <1>t, <3>3, CountSettles
  <2>5. CASE j = InitJob
    <3>1. SameSettled
      BY <1>t, <2>1, <2>2, <2>3, <2>5 DEF SameSettled, Settled
    <3>2. status'[InitJob] = "failed"
      BY <1>t, <2>1, <2>5
    <3>3. \A n \in Counters : n # "failed" => stats'[n] = stats[n]
      BY <1>t, <2>1
    <3>4. \A s \in Results : Settled(s)' = Settled(s) /\ SettledCmds(s)' = SettledCmds(s)
      BY <3>1 DEF SameSettled, SettledCmds, IsCmd
    <3>5. ASSUME NEW n \in Counters, n # "failed" PROVE stats'[n] = Tally(n)'
      <4>1. Tally(n)' = Tally(n)
        BY <3>4, <3>5 DEF Tally, Results, Counters
      <4> QED
        BY <3>3, <3>5, <4>1 DEF CountInv
    <3> QED
      BY <3>2, <3>4, <3>5 DEF CountInv
  <2> QED
    BY <2>2, <2>4, <2>5 DEF Jobs
<1>3. ASSUME /\ UNCHANGED <<status, stats>>
             /\ \A u \in Threads : (pc'[u] = "post" <=> pc[u] = "post") /\ (pc[u] = "post" => job'[u] = job[u])
      PROVE  CountInv'
  <2>1. Unsettled' = Unsettled
    BY <1>3 DEF Unsettled
  <2>2. SameSettled
    BY <1>3, <2>1 DEF SameSettled, Settled
  <2> QED
    BY <1>3, <1>f, <2>2, CountSame
<1>4. CASE Supervisor
  BY <1>2, <1>3, <1>4, SupervisorKinds
<1>5. CASE UNCHANGED vars
  BY <1>3, <1>5 DEF vars, jobVars, threadVars
<1> QED
  BY <1>1, <1>2, <1>4, <1>5 DEF Next, Ended, Worker, Supervisor

LEMMA InitCountInv == Init => CountInv
<1> SUFFICES ASSUME Init PROVE CountInv
  OBVIOUS
<1>1. \A s \in Results : Settled(s) = {} /\ SettledCmds(s) = {}
  BY EntriesAssumption DEF Init, Settled, SettledCmds, Results, Jobs
<1>2. IsFiniteSet({}) /\ Cardinality({}) = 0
  BY FS_EmptySet
<1>3. \A n \in Counters : stats[n] = 0
  BY DEF Init
<1>4. \A n \in Counters : Tally(n) = 0
  <2>1. \A s \in Results : Cardinality(Settled(s)) = 0 /\ Cardinality(SettledCmds(s)) = 0
    BY <1>1, <1>2
  <2> QED
    BY <2>1 DEF Tally, Results, Counters
<1> QED
  BY <1>1, <1>2, <1>3, <1>4 DEF CountInv

\* Each entry that got a result is counted once and under that result, by the
\* worker that had it, by create_job or by abort_queued_jobs, whatever threads are
\* canceled in between: without --file-timeout.
THEOREM CountsTrue ==
  ASSUME NoDeadlines
  PROVE  Spec => []Accounting
<1>1. OwnerInv /\ OnTime /\ CountInv /\ ReapInv /\ [Next]_vars => OnTime' /\ CountInv' /\ ReapInv'
  BY NoDeadlines, OnTimeStep, CountStep, ReapStep
<1>2. Init => OnTime /\ CountInv /\ ReapInv
  BY InitOnTime, InitCountInv DEF Init, ReapInv
<1>3. CountInv /\ ReapInv => Accounting
  <2> SUFFICES ASSUME CountInv, ReapInv, mpc = "done", status[InitJob] = "done" PROVE Accounting
    BY DEF Accounting
  <2>1. Unsettled = {}
    BY DEF ReapInv, Unsettled
  <2> DEFINE N(s) == {e \in Entries : status[e] = s}
             M(s) == {e \in Entries : status[e] = s /\ IsCmd(e)}
  <2>2. \A s : Settled(s) = N(s) /\ SettledCmds(s) = M(s)
    BY <2>1 DEF Settled, SettledCmds
  <2>3. \A n \in Counters : stats[n] = Tally(n)
    BY DEF CountInv
  <2> HIDE DEF N, M
  <2>4. /\ stats["done"] = Cardinality(N("done")) + Cardinality(N("partial"))
                             + (IF Opts.add_cmd_status THEN Cardinality(M("done")) + Cardinality(M("partial")) ELSE 0)
        /\ stats["partial"] = Cardinality(N("partial"))
        /\ stats["excluded"] = Cardinality(N("excluded")) + Cardinality(N("typeexcl"))
        /\ stats["failed"] = Cardinality(N("failed")) + Cardinality(N("statfail"))
    BY <2>2, <2>3 DEF Tally, Counters
  <2> QED
    BY <2>4 DEF Accounting, N, M
<1> QED
  BY <1>1, <1>2, <1>3, OwnerInvariant, PTL DEF Spec

-----------------------------------------------------------------------------
(* A complete archive.  All jobs that are allocated count as active but    *)
(* for those that a scan has still to queue, also if one of them is lost.  *)

Listed == UNION {Range(list[t]) : t \in Threads}

ExactInv == Early => numActive = Cardinality(alive \ Listed)

LEMMA ListedFacts ==
  ASSUME OwnerInv, HandleInv
  PROVE  /\ IsFiniteSet(alive \ Listed) /\ Cardinality(alive \ Listed) \in Nat
         /\ \A t \in Threads : /\ list[t] \in Seq(Entries) /\ Range(list[t]) \subseteq alive
                               /\ job[t] \notin Listed
                               /\ \A u \in Threads : u # t => Range(list[t]) \cap Range(list[u]) = {}
<1>1. IsFiniteSet(alive \ Listed)
  BY FS_Difference DEF HandleInv
<1> QED
  BY <1>1, FS_CardinalityType DEF OwnerInv, TypeOK, UniqueOwner, Listed

\* A list without duplicates has as many elements as its length
LEMMA RangeCount ==
  ASSUME NEW S, NEW s \in Seq(S), IsInjective(s)
  PROVE  IsFiniteSet(Range(s)) /\ Cardinality(Range(s)) = Len(s)
<1> DEFINE n == Len(s)
<1>1. n \in Nat /\ DOMAIN s = 1 .. n /\ s \in [1 .. n -> Range(s)]
  BY DEF Range
<1>2. IsFiniteSet(1 .. n) /\ Cardinality(1 .. n) = n
  BY <1>1, FS_Interval
<1>3. s \in Bijection(1 .. n, Range(s))
  <2>1. \A i, k \in 1 .. n : s[i] = s[k] => i = k
    BY <1>1 DEF IsInjective
  <2>2. \A y \in Range(s) : \E i \in 1 .. n : s[i] = y
    BY <1>1 DEF Range
  <2> QED
    BY <1>1, <2>1, <2>2 DEF Bijection, Injection, Surjection
<1> QED
  BY <1>2, <1>3, FS_Bijection DEF ExistsBijection

LEMMA ExactStep ==
  ASSUME OwnerInv, HandleInv, ExactInv, [Next]_vars
  PROVE  ExactInv'
<1> SUFFICES ASSUME Early' PROVE numActive' = Cardinality(alive' \ Listed')
  BY DEF ExactInv
<1>0. numActive = Cardinality(alive \ Listed)
  BY EarlyBefore DEF ExactInv
<1>t. /\ IsFiniteSet(alive \ Listed) /\ list \in [Threads -> Seq(Entries)]
      /\ \A t \in Threads : /\ Range(list[t]) \subseteq alive /\ job[t] \notin Listed
                            /\ \A u \in Threads : u # t => Range(list[t]) \cap Range(list[u]) = {}
  BY ListedFacts DEF OwnerInv, TypeOK
<1>1. ASSUME UNCHANGED <<numActive, alive, list>> PROVE numActive' = Cardinality(alive' \ Listed')
  BY <1>0, <1>1 DEF Listed
<1>2. ASSUME NEW t \in Threads, WSpec(t) \/ WReaddir(t) PROVE numActive' = Cardinality(alive' \ Listed')
  <2>1. /\ UNCHANGED numActive /\ \A u \in Threads \ {t} : list'[u] = list[u]
        /\ \/ UNCHANGED <<alive, list>>
           \/ \E e : /\ e \notin alive /\ alive' = alive \cup {e}
                     /\ Range(list'[t]) = Range(list[t]) \cup {e}
    BY <1>2, CreateStep DEF queueVars
  <2>2. ASSUME NEW e, e \notin alive, alive' = alive \cup {e}, Range(list'[t]) = Range(list[t]) \cup {e}
        PROVE  alive' \ Listed' = alive \ Listed
    <3>1. Listed' = Listed \cup {e}
      BY <2>1, <2>2 DEF Listed
    <3> QED
      BY <2>2, <3>1
  <2> QED
    BY <1>0, <1>1, <2>1, <2>2
<1>3. ASSUME NEW t \in Threads, list' = [list EXCEPT ![t] = << >>], UNCHANGED alive
      PROVE  alive' \ Listed' = (alive \ Listed) \cup Range(list[t])
  <2>1. list'[t] = << >> /\ \A u \in Threads \ {t} : list'[u] = list[u]
    BY <1>3, <1>t
  <2>2. Range(<< >>) = {}
    BY DEF Range
  <2>3. Listed' = Listed \ Range(list[t])
    BY <1>t, <2>1, <2>2 DEF Listed
  <2> QED
    BY <1>3, <1>t, <2>3
<1>4. ASSUME NEW t \in Threads, list' = [list EXCEPT ![t] = << >>], UNCHANGED alive,
             numActive' = numActive + Len(list[t])
      PROVE  numActive' = Cardinality(alive' \ Listed')
  <2>1. IsFiniteSet(Range(list[t])) /\ Cardinality(Range(list[t])) = Len(list[t])
    BY <1>t, RangeCount DEF OwnerInv, UniqueOwner
  <2>2. (alive \ Listed) \cap Range(list[t]) = {}
    BY DEF Listed
  <2>3. Cardinality((alive \ Listed) \cup Range(list[t])) = Cardinality(alive \ Listed) + Cardinality(Range(list[t]))
    <3> DEFINE A == alive \ Listed  B == Range(list[t])
    <3>1. IsFiniteSet(A) /\ IsFiniteSet(B) /\ A \cap B = {}
      BY <1>t, <2>1, <2>2
    <3> HIDE DEF A, B
    <3>2. Cardinality({}) = 0 /\ Cardinality(A) \in Nat /\ Cardinality(B) \in Nat
      BY <3>1, FS_EmptySet, FS_CardinalityType
    <3>3. Cardinality(A \cup B) = Cardinality(A) + Cardinality(B) - Cardinality(A \cap B)
      BY <3>1, FS_Union
    <3>4. Cardinality(A \cap B) = 0
      BY <3>1, <3>2, Zenon
    <3> DEFINE a == Cardinality(A)  b == Cardinality(B)  c == Cardinality(A \cap B)
    <3>5. a \in Nat /\ b \in Nat /\ c = 0 /\ Cardinality(A \cup B) = a + b - c
      BY <3>2, <3>3, <3>4
    <3> HIDE DEF a, b, c
    <3>6. Cardinality(A \cup B) = a + b
      BY <3>5
    <3> QED
      BY <3>6 DEF A, B, a, b
  <2> QED
    BY <1>0, <1>3, <1>4, <2>1, <2>3
<1>5. ASSUME NEW t \in Threads, WEnqueue(t) \/ WQueueJobs(t) PROVE numActive' = Cardinality(alive' \ Listed')
  <2>1. /\ list' = [list EXCEPT ![t] = << >>] /\ UNCHANGED alive
        /\ (pc[t] = "enqueue" /\ numActive' = numActive + 1) \/ numActive' = numActive + Len(list[t])
    BY <1>5 DEF WEnqueue, WQueueJobs, jobVars
  <2>2. pc[t] = "enqueue" => Len(list[t]) = 1
    BY JobFacts
  <2> QED
    BY <1>4, <2>1, <2>2
<1>6. ASSUME NEW t \in Threads, WComplete(t) PROVE numActive' = Cardinality(alive' \ Listed')
  <2>1. job[t] # NoJob
    BY <1>6 DEF WComplete, OwnerInv, Positioned, ThreadPositioned
  <2>2. numActive' = numActive - 1 /\ alive' = alive \ {job[t]} /\ UNCHANGED list /\ job[t] \in alive
    BY <1>6, <2>1 DEF WComplete, FreeJob, OwnerInv, UniqueOwner
  <2>3. alive' \ Listed' = (alive \ Listed) \ {job[t]} /\ job[t] \in alive \ Listed
    BY <1>t, <2>2 DEF Listed
  <2>4. Cardinality((alive \ Listed) \ {job[t]}) = Cardinality(alive \ Listed) - 1
    BY <1>t, <2>3, CardFacts
  <2> QED
    BY <1>0, <2>2, <2>3, <2>4
<1>7. ASSUME NEW t \in Threads, Worker(t) PROVE numActive' = Cardinality(alive' \ Listed')
  <2>1. CASE ~Handles(t)
    BY <1>1, <1>7, <2>1, WorkerCalm DEF Calm, OwnerInv
  <2>2. CASE WDequeue(t) \/ WOpendir(t)
    BY <1>1, <2>2 DEF WDequeue, WOpendir, queueVars
  <2> QED
    BY <1>2, <1>5, <1>6, <2>1, <2>2 DEF Handles
<1>8. ~MReapJoin /\ ~MAbortQueued
  BY DEF MReapJoin, MAbortQueued, Early
<1>9. ASSUME Supervisor PROVE numActive' = Cardinality(alive' \ Listed')
  BY <1>1, <1>8, <1>9, SupervisorCalm DEF MainCalm
<1>10. ASSUME UNCHANGED vars PROVE numActive' = Cardinality(alive' \ Listed')
  BY <1>1, <1>10 DEF vars, queueVars, jobVars, threadVars
<1> QED
  BY <1>7, <1>9, <1>10 DEF Next, Ended, Worker, Supervisor

LEMMA InitExact == Init => ExactInv
<1> SUFFICES ASSUME Init PROVE numActive = Cardinality(alive \ Listed)
  BY DEF ExactInv
<1>1. Listed = {} /\ alive = {InitJob} /\ numActive = 1
  BY DEF Init, Listed, Range
<1> QED
  BY <1>1, FS_Singleton

\* Nothing has gone wrong that the exit code tells
Clean == ~aborted /\ rc = 0

\* Threads are canceled only when no job is left
Late == mpc \in {"grace", "reap", "reapjoin", "final", "done", "crashed"}

IdleInv == Clean /\ Late => alive = {}

LEMMA CleanBefore ==
  ASSUME OwnerInv, [Next]_vars, Clean'
  PROVE  Clean
<1>t. aborted \in BOOLEAN /\ rc \in {0, 1}
  BY DEF OwnerInv, TypeOK
<1> USE DEF Clean
<1>1. ASSUME NEW t \in Threads, Worker(t) PROVE Clean
  BY <1>1, <1>t DEF Worker, WStep, WInput, WOutput, WBegin, WDequeue, WLeave, WWait, WExclude, WNoRecursion,
     WProc, WOpen, WOpenFails, WSpec, WEnqueue, WSpecsDone, WOpendir, WOpendirFails, WReaddir, WQueueJobs,
     WPost, WEmitBegin, WSkip, WCheck, WComplete, WTimedOut, WCancel, WRead, WReadFails, WReadAborted, WEmit,
     WEmitFails, WSpurious, CreateJob, StatFails, SkipType, ReadError, AbortIf, mainVars
<1>2. CASE Supervisor
  BY <1>2, <1>t DEF Supervisor, MStep, MCreate, MMark, MCreateFails, MWait, MLeave, MToolTimeout,
     MTimeoutRaced, MTimeout, MCancel, MRestart, MRestartFails, MGrace, MReap, MReapJoin, MAbortQueued,
     MFinal, MExpire, MSpurious, mainVars
<1>3. CASE UNCHANGED vars
  BY <1>3 DEF vars, mainVars
<1> QED
  BY <1>1, <1>2, <1>3 DEF Next, Ended, Worker, Supervisor

\* Without a job there is nothing a thread could do
LEMMA IdleFacts ==
  ASSUME OwnerInv, IdleInv, Clean, Late
  PROVE  /\ alive = {} /\ queue = << >>
         /\ \A t \in Threads : /\ job[t] = NoJob
                               /\ pc[t] \in {"none", "begin", "get", "wait", "dead", "joined"}
<1>1. alive = {}
  BY DEF IdleInv
<1>2. \A t \in Threads : job[t] = NoJob
  BY <1>1 DEF OwnerInv, UniqueOwner
<1>3. \A t \in Threads : pc[t] \in {"none", "begin", "get", "wait", "dead", "joined"}
  BY <1>2 DEF OwnerInv, TypeOK, Positioned, ThreadPositioned, Positions, Processing, Writing
<1>4. queue = << >>
  <2>1. Range(queue) = {} /\ queue \in Seq(Jobs)
    BY <1>1 DEF OwnerInv, UniqueOwner, TypeOK
  <2> QED
    BY <2>1, TailFacts
<1> QED
  BY <1>1, <1>2, <1>3, <1>4

LEMMA IdleStep ==
  ASSUME OwnerInv, HandleInv, ExactInv, OnTime, IdleInv, [Next]_vars
  PROVE  IdleInv'
<1> SUFFICES ASSUME Clean', Late' PROVE alive' = {}
  BY DEF IdleInv
<1>c. Clean
  BY CleanBefore
<1>1. ASSUME Late PROVE alive' = {}
  <2>1. /\ alive = {} /\ queue = << >>
        /\ \A t \in Threads : pc[t] \in {"none", "begin", "get", "wait", "dead", "joined"} /\ job[t] = NoJob
    BY <1>1, <1>c, IdleFacts
  <2>2. ASSUME NEW t \in Threads, Worker(t) PROVE alive' = {}
    <3>1. ~WSpec(t) /\ ~WReaddir(t) /\ ~WEnqueue(t) /\ ~WOpendir(t) /\ ~WQueueJobs(t) /\ ~WComplete(t)
      BY <2>1 DEF WSpec, WReaddir, WEnqueue, WOpendir, WQueueJobs, WComplete
    <3>2. WDequeue(t) => alive' = alive
      BY DEF WDequeue
    <3>3. ~Handles(t) => alive' = alive
      BY <2>2, WorkerCalm DEF Calm, OwnerInv
    <3> QED
      BY <2>1, <3>1, <3>2, <3>3 DEF Handles
  <2>3. CASE Supervisor
    <3>1. ~MAbortQueued
      BY <2>1 DEF MAbortQueued
    <3>2. CASE MReapJoin
      <4>1. target \in Threads
        BY <3>2 DEF MReapJoin, OwnerInv, Positioned
      <4> QED
        BY <2>1, <3>2, <4>1 DEF MReapJoin
    <3> QED
      BY <2>1, <2>3, <3>1, <3>2, SupervisorCalm DEF MainCalm
  <2>4. CASE UNCHANGED vars
    BY <2>1, <2>4 DEF vars, jobVars
  <2> QED
    BY <2>2, <2>3, <2>4 DEF Next, Ended, Worker, Supervisor
<1>2. ASSUME ~Late PROVE alive' = {}
  <2>1. ASSUME NEW t \in Threads, Worker(t) PROVE FALSE
    <3>1. Moves(t) /\ mpc' = "crashed"
      BY <1>2, <2>1, WorkerMoves DEF Moves, Late, OwnerInv
    <3>2. mpc' = "crashed" => WReadAborted(t)
      BY <1>2, <2>1 DEF Late, Worker, WStep, WInput, WOutput, WBegin, WDequeue, WLeave, WWait, WExclude, WNoRecursion,
         WProc, WOpen, WOpenFails, WSpec, WEnqueue, WSpecsDone, WOpendir, WOpendirFails, WReaddir, WQueueJobs,
         WPost, WEmitBegin, WSkip, WCheck, WComplete, WTimedOut, WCancel, WRead, WReadFails, WEmit,
         WEmitFails, WSpurious, CreateJob, StatFails, SkipType, ReadError, AbortIf, Exits, MainWoken
    <3> QED
      BY <1>c, <3>1, <3>2 DEF WReadAborted, Clean
  <2>2. CASE Supervisor
    <3>1. MLeave
      <4>1. mpc \notin {"grace", "reap", "reapjoin", "final", "done", "crashed"} /\ ~aborted' /\ rc' = 0
        BY <1>2 DEF Late, Clean
      <4>2. mpc' \in {"grace", "reap", "reapjoin", "final", "done", "crashed"}
        BY DEF Late
      <4>3. ~MCreate /\ ~MMark /\ ~MCreateFails /\ ~MWait /\ ~MToolTimeout /\ ~MTimeoutRaced /\ ~MTimeout
        BY <4>1, <4>2 DEF MCreate, MMark, MCreateFails, MWait, MToolTimeout, MTimeoutRaced, MTimeout
      <4>4. ~MCancel /\ ~MRestart /\ ~MRestartFails /\ ~MGrace /\ ~MReap /\ ~MExpire /\ ~MSpurious
        BY <4>1, <4>2 DEF MCancel, MRestart, MRestartFails, MGrace, MReap, MExpire, MSpurious
      <4>5. ~MReapJoin /\ ~MAbortQueued /\ ~MFinal
        BY <4>1, <4>2 DEF MReapJoin, MAbortQueued, MFinal
      <4> QED
        BY <2>2, <4>3, <4>4, <4>5 DEF Supervisor, MStep
    <3>2. /\ mpc = "loop" /\ numActive <= 0 /\ UNCHANGED alive
      BY <1>c, <3>1 DEF MLeave, WorkLeft, Clean, jobVars, OwnerInv, TypeOK
    <3>3. alive \ Listed = {}
      <4>1. Cardinality(alive \ Listed) <= 0
        BY <3>2 DEF ExactInv, Early
      <4>2. Cardinality(alive \ Listed) = 0 /\ IsFiniteSet(alive \ Listed)
        BY <4>1, ListedFacts
      <4> QED
        BY <4>2, CardFacts
    <3>4. ASSUME NEW t \in Threads, list[t] # << >> PROVE FALSE
      <4>1. job[t] # NoJob
        BY <3>4 DEF OwnerInv, Positioned, ThreadPositioned, Processing
      <4>2. job[t] \in alive /\ job[t] \notin Listed
        BY <4>1, ListedFacts DEF OwnerInv, UniqueOwner
      <4> QED
        BY <3>3, <4>2
    <3>5. Listed = {}
      BY <3>4 DEF Listed, Range
    <3> QED
      BY <3>2, <3>3, <3>5
  <2>3. CASE UNCHANGED vars
    BY <1>2, <2>3 DEF vars, Late
  <2> QED
    BY <2>1, <2>2, <2>3 DEF Next, Ended, Worker, Supervisor
<1> QED
  BY <1>1, <1>2

-----------------------------------------------------------------------------
(* What is known while nothing goes wrong.                                 *)

AfterWork == {"post", "write", "emit", "emitstat", "check", "fin"}
Scanning == {"specs", "enqueue", "readdir"}

\* What the position of a worker tells about its job
WorkInv ==
  \A t \in Threads :
    /\ pc[t] \in AfterWork => status[job[t]] \in Final
    /\ pc[t] = "emit" => Writes(job[t])
    /\ pc[t] = "read" => job[t] \notin Dirs
    /\ pc[t] \in Scanning => \A k \in Kids(job[t]) : k \in left[t] \/ status[k] # "none"

LEMMA FoundStays ==
  ASSUME OwnerInv, NoDeadlines, OnTime, [Next]_vars, NEW j \in Jobs, status[j] # "none"
  PROVE  status'[j] # "none"
<1>t. status \in [Jobs -> Statuses]
  BY DEF OwnerInv, TypeOK
<1>1. ASSUME NEW t \in Threads, Worker(t) PROVE status'[j] # "none"
  BY <1>1, <1>t, WorkerKinds DEF WDequeue, Finishes, WPost, Passes, Creates, jobVars
<1>2. ASSUME Supervisor PROVE status'[j] # "none"
  BY <1>2, <1>t, SupervisorKinds DEF MAbortQueued
<1>3. ASSUME UNCHANGED vars PROVE status'[j] # "none"
  BY <1>3 DEF vars, jobVars
<1> QED
  BY <1>1, <1>2, <1>3 DEF Next, Ended, Worker, Supervisor

\* How a worker comes to such a position
LEMMA WorkerPlaces ==
  ASSUME OwnerInv, NoDeadlines, OnTime, NEW t \in Threads, Worker(t)
  PROVE  /\ pc'[t] \in AfterWork => Finishes(t) \/ (pc[t] \in AfterWork /\ job'[t] = job[t])
         /\ pc'[t] = "emit" => job'[t] = job[t] /\ UNCHANGED status /\ Writes(job[t])
         /\ pc'[t] = "read" => job'[t] = job[t] /\ job[t] \notin Dirs
         /\ pc'[t] \in Scanning =>
              /\ job'[t] = job[t]
              /\ \/ left'[t] = Kids(job[t])
                 \/ /\ pc[t] \in Scanning
                    /\ left'[t] = left[t] \/ \E e \in left[t] : left'[t] = left[t] \ {e} /\ status'[e] # "none"
         /\ \A u \in Threads \ {t} : left'[u] = left[u]
<1>t. /\ pc \in [Threads -> Positions] /\ left \in [Threads -> SUBSET Entries] /\ job \in [Threads -> Jobs \cup {NoJob}]
      /\ status \in [Jobs -> Statuses] /\ CreatedOnce
  BY DEF OwnerInv, TypeOK
<1> DEFINE Good == /\ pc'[t] \in AfterWork => Finishes(t) \/ (pc[t] \in AfterWork /\ job'[t] = job[t])
                   /\ pc'[t] = "emit" => job'[t] = job[t] /\ UNCHANGED status /\ Writes(job[t])
                   /\ pc'[t] = "read" => job'[t] = job[t] /\ job[t] \notin Dirs
                   /\ pc'[t] \in Scanning =>
                        /\ job'[t] = job[t]
                        /\ \/ left'[t] = Kids(job[t])
                           \/ /\ pc[t] \in Scanning
                              /\ left'[t] = left[t] \/ \E e \in left[t] : left'[t] = left[t] \ {e} /\ status'[e] # "none"
                   /\ \A u \in Threads \ {t} : left'[u] = left[u]
<1> USE DEF threadVars, jobVars, AfterWork, Scanning
<1>1. CASE WBegin(t)
  BY <1>t, <1>1 DEF WBegin, OnTime
<1>2. CASE WDequeue(t) \/ WLeave(t) \/ WWait(t) \/ WSpurious(t)
  BY <1>t, <1>2 DEF WDequeue, WLeave, Exits, WWait, WSpurious
<1>3. CASE WExclude(t) \/ WNoRecursion(t) \/ WSpecsDone(t) \/ WOpenFails(t) \/ WOpendirFails(t)
           \/ WQueueJobs(t) \/ WRead(t) \/ WReadFails(t) \/ WReadAborted(t)
  <2>1. pc'[t] = "post" /\ \A u \in Threads \ {t} : left'[u] = left[u]
    <3>1. CASE WExclude(t) \/ WNoRecursion(t) \/ WSpecsDone(t) \/ WOpenFails(t) \/ WOpendirFails(t)
      BY <1>t, <3>1 DEF WExclude, WNoRecursion, WSpecsDone, WOpenFails, WOpendirFails, ReadError, AbortIf, WakeAll
    <3>2. CASE WQueueJobs(t) \/ WRead(t) \/ WReadFails(t) \/ WReadAborted(t)
      BY <1>t, <3>2 DEF WQueueJobs, WRead, WReadFails, WReadAborted, ReadError, AbortIf, WakeAll
    <3> QED
      BY <1>3, <3>1, <3>2
  <2>2. ~WDequeue(t) /\ ~WPost(t)
    BY <1>t, <2>1 DEF WDequeue, WPost
  <2>3. Finishes(t)
    BY <2>1, <2>2, WorkerKinds DEF Passes, Creates
  <2> QED
    BY <2>1, <2>3
<1>4. CASE WProc(t)
  BY <1>t, <1>4 DEF WProc, WorkFor
<1>5. CASE WOpen(t) \/ WOpendir(t)
  BY <1>t, <1>5 DEF WOpen, WOpendir, OwnerInv, Positioned, ThreadPositioned
<1>6. CASE WSpec(t) \/ WReaddir(t)
  <2>1. PICK e \in left[t] : /\ left' = [left EXCEPT ![t] = @ \ {e}]
                             /\ \/ \E p \in {"enqueue", "readdir"} : CreateJob(t, e, p)
                                \/ StatFails(t, e) \/ SkipType(t, e)
    BY <1>6 DEF WSpec, WReaddir
  <2>2. e \in Jobs /\ UNCHANGED job /\ pc[t] \in {"specs", "readdir"}
    BY <1>6, <1>t DEF WSpec, WReaddir, Jobs
  <2>3. status'[e] # "none" /\ pc'[t] \in Scanning
    BY <1>t, <2>1, <2>2 DEF CreateJob, StatFails, SkipType, ReadError, AbortIf, WakeAll
  <2> QED
    BY <1>t, <2>1, <2>2, <2>3
<1>7. CASE WEnqueue(t)
  BY <1>t, <1>7 DEF WEnqueue, WakeOne
<1>8. CASE WPost(t) \/ WSkip(t) \/ WComplete(t) \/ WTimedOut(t) \/ WCancel(t)
  BY <1>t, <1>8 DEF WPost, WSkip, WComplete, WTimedOut, Exits, WCancel
<1>9. CASE WEmitBegin(t)
  BY <1>t, <1>9 DEF WEmitBegin, InitDone
<1>10. CASE WEmit(t) \/ WEmitFails(t) \/ WCheck(t)
  BY <1>t, <1>10 DEF WEmit, WEmitFails, WCheck, AfterEmit, AbortIf, WakeAll
<1> QED
  BY <1>1, <1>2, <1>3, <1>4, <1>5, <1>6, <1>7, <1>8, <1>9, <1>10 DEF Worker, WStep, WInput, WOutput

\* abort_queued_jobs finds nothing to do, and cleanup_thread frees nothing
LEMMA NoAborts ==
  ASSUME OwnerInv, IdleInv, Clean
  PROVE  /\ ~MAbortQueued
         /\ MReapJoin => UNCHANGED <<job, alive>>
<1>1. Late => /\ queue = << >>
              /\ \A t \in Threads : job[t] = NoJob
  BY IdleFacts
<1>2. ~MAbortQueued
  BY <1>1 DEF MAbortQueued, Late
<1>3. MReapJoin => UNCHANGED <<job, alive>>
  <2> SUFFICES ASSUME MReapJoin PROVE UNCHANGED <<job, alive>>
    OBVIOUS
  <2>1. target \in Threads /\ Late /\ job \in [Threads -> Jobs \cup {NoJob}]
    BY DEF MReapJoin, OwnerInv, Positioned, TypeOK, Late
  <2>2. job[target] = NoJob
    BY <1>1, <2>1
  <2> QED
    BY <2>1, <2>2 DEF MReapJoin
<1> QED
  BY <1>2, <1>3

\* The main thread gets no worker to a position where it has a job
LEMMA SupervisorPlaces ==
  ASSUME OwnerInv, NoDeadlines, OnTime, Supervisor, NEW t \in Threads,
         pc'[t] \in AfterWork \cup Scanning \cup {"read"}
  PROVE  pc[t] = pc'[t] /\ job'[t] = job[t] /\ left'[t] = left[t]
<1>t. pc \in [Threads -> Positions] /\ job \in [Threads -> Jobs \cup {NoJob}]
  BY DEF OwnerInv, TypeOK
<1>1. left' = left
  <2>1. ~MRestart /\ ~MRestartFails
    BY DEF OnTime, MRestart, MRestartFails
  <2> QED
    BY <2>1 DEF Supervisor, MStep, MCreate, MMark, MCreateFails, MWait, MLeave, MToolTimeout, MTimeoutRaced,
       MTimeout, MCancel, MGrace, MReap, MReapJoin, MAbortQueued, MFinal, MExpire, MSpurious, threadVars
<1>2. CASE MReapJoin
  BY <1>t, <1>1, <1>2 DEF MReapJoin, AfterWork, Scanning
<1>3. CASE MAbortQueued
  BY <1>1, <1>3 DEF MAbortQueued, threadVars
<1>4. CASE ~MReapJoin /\ ~MAbortQueued
  BY <1>1, <1>4, SupervisorCalm DEF MainCalm, AfterWork, Scanning
<1> QED
  BY <1>2, <1>3, <1>4

LEMMA WorkStep ==
  ASSUME OwnerInv, NoDeadlines, OnTime, WorkInv, [Next]_vars
  PROVE  WorkInv'
<1>t. /\ pc \in [Threads -> Positions] /\ job \in [Threads -> Jobs \cup {NoJob}]
      /\ status \in [Jobs -> Statuses] /\ left \in [Threads -> SUBSET Entries]
      /\ Entries \subseteq Jobs /\ \A j : Kids(j) \subseteq Entries
  BY DEF OwnerInv, TypeOK, Jobs, Kids
<1>k. \A j : Kids(j)' = Kids(j)
  BY DEF Kids
<1>w. ASSUME NEW j, Writes(j) PROVE Writes(j)'
  <2>1. j \in Jobs /\ status[j] \in Final
    BY <1>t, <1>w DEF Writes, Final
  <2> QED
    BY <1>w, <2>1, StepFinal DEF Writes
<1> DEFINE Good(u) == /\ pc'[u] \in AfterWork => status'[job'[u]] \in Final
                      /\ pc'[u] = "emit" => Writes(job[u])' /\ job'[u] = job[u]
                      /\ pc'[u] = "read" => job'[u] \notin Dirs
                      /\ pc'[u] \in Scanning => \A k \in Kids(job'[u]) : k \in left'[u] \/ status'[k] # "none"
<1>1. ASSUME NEW u \in Threads, pc'[u] = pc[u], job'[u] = job[u], left'[u] = left[u]
      PROVE  Good(u)
  <2>1. pc[u] \in AfterWork => job[u] \in Jobs
    BY JobFacts DEF AfterWork, Writing
  <2>2. pc'[u] \in AfterWork => status'[job'[u]] \in Final
    BY <1>1, <2>1, StepFinal DEF WorkInv
  <2>3. pc'[u] = "emit" => Writes(job[u])'
    BY <1>1, <1>w DEF WorkInv
  <2>4. pc'[u] \in Scanning => \A k \in Kids(job'[u]) : k \in left'[u] \/ status'[k] # "none"
    BY <1>1, <1>t, FoundStays DEF WorkInv
  <2> QED
    BY <1>1, <2>2, <2>3, <2>4 DEF WorkInv
<1>2. ASSUME NEW t \in Threads, Worker(t), NEW u \in Threads PROVE Good(u)
  <2>1. CASE u # t
    <3>1. left'[u] = left[u] /\ job'[u] = job[u] /\ (pc'[u] = pc[u] \/ pc'[u] = "get")
      BY <1>2, <2>1, WorkerPlaces, WorkerMoves DEF Moves, OwnerInv
    <3>2. pc'[u] = "get" => Good(u)
      BY DEF AfterWork, Scanning
    <3> QED
      BY <1>1, <3>1, <3>2
  <2>2. CASE u = t
    <3>1. pc'[t] \in AfterWork => status'[job'[t]] \in Final
      <4>1. ASSUME Finishes(t) PROVE status'[job'[t]] \in Final
        <5>1. job[t] \in Jobs /\ job'[t] = job[t]
          BY <4>1, JobFacts DEF Finishes
        <5> QED
          BY <1>t, <4>1, <5>1 DEF Finishes, Final
      <4>2. ASSUME pc[t] \in AfterWork, job'[t] = job[t] PROVE status'[job'[t]] \in Final
        <5>1. job[t] \in Jobs /\ status[job[t]] \in Final
          BY <4>2, JobFacts DEF AfterWork, Writing, WorkInv
        <5> QED
          BY <4>2, <5>1, StepFinal
      <4> QED
        BY <1>2, <4>1, <4>2, WorkerPlaces
    <3>2. pc'[t] = "emit" => Writes(job[t])' /\ job'[t] = job[t]
      <4> SUFFICES ASSUME pc'[t] = "emit" PROVE Writes(job[t])' /\ job'[t] = job[t]
        OBVIOUS
      <4>1. job'[t] = job[t] /\ UNCHANGED status /\ Writes(job[t])
        BY <1>2, WorkerPlaces
      <4> QED
        BY <4>1, <1>w
    <3>3. pc'[t] = "read" => job'[t] \notin Dirs
      BY <1>2, WorkerPlaces
    <3>4. ASSUME pc'[t] \in Scanning, NEW k \in Kids(job'[t]) PROVE k \in left'[t] \/ status'[k] # "none"
      <4>1. /\ job'[t] = job[t]
            /\ \/ left'[t] = Kids(job[t])
               \/ /\ pc[t] \in Scanning
                  /\ left'[t] = left[t] \/ \E e \in left[t] : left'[t] = left[t] \ {e} /\ status'[e] # "none"
        BY <1>2, <3>4, WorkerPlaces
      <4>2. k \in Kids(job[t]) /\ k \in Jobs
        BY <1>t, <3>4, <4>1
      <4>3. pc[t] \in Scanning => k \in left[t] \/ status'[k] # "none"
        BY <4>2, FoundStays DEF WorkInv
      <4> QED
        BY <4>1, <4>2, <4>3
    <3> QED
      BY <2>2, <3>1, <3>2, <3>3, <3>4
  <2> QED
    BY <2>1, <2>2
<1>3. ASSUME Supervisor, NEW u \in Threads PROVE Good(u)
  <2>1. CASE pc'[u] \in AfterWork \cup Scanning \cup {"read"}
    BY <1>1, <1>3, <2>1, SupervisorPlaces
  <2>2. CASE pc'[u] \notin AfterWork \cup Scanning \cup {"read"}
    BY <2>2 DEF AfterWork
  <2> QED
    BY <2>1, <2>2
<1>4. ASSUME UNCHANGED vars, NEW u \in Threads PROVE Good(u)
  BY <1>1, <1>4 DEF vars, threadVars
<1>5. \A u \in Threads : Good(u)
  BY <1>2, <1>3, <1>4 DEF Next, Ended, Worker, Supervisor
<1> HIDE DEF Good
<1>6. ASSUME NEW u \in Threads
      PROVE  /\ pc'[u] \in AfterWork => status'[job'[u]] \in Final
             /\ pc'[u] = "emit" => Writes(job[u])' /\ job'[u] = job[u]
             /\ pc'[u] = "read" => job'[u] \notin Dirs
             /\ pc'[u] \in Scanning => \A k \in Kids(job'[u]) : k \in left'[u] \/ status'[k] # "none"
  BY <1>5, Zenon DEF Good
<1> QED
  BY <1>6 DEF WorkInv, Writes, Kids, Scanning, AfterWork

\* What is found for a job that is done: all of it, nothing by option, or
\* nothing as the directory could not be opened
DoneWell(j) ==
  \/ \A k \in Kids(j) : status[k] # "none"
  \/ j \in Dirs /\ ~Opts.recursive
  \/ "opendir" \in Faults /\ \A k \in Kids(j) : status[k] = "none"

\* The status that a job can have while nothing goes wrong
StatusInv ==
  Clean =>
    /\ status[InitJob] # "failed"
    /\ \A j \in Jobs : /\ status[j] \in {"queued", "in_progress"} => j \in alive
                       /\ status[j] # "partial"
                       /\ status[j] = "failed" => Opts.ignore_failed_read /\ j \notin Dirs
                       /\ status[j] = "done" => DoneWell(j)

LEMMA DoneStays ==
  ASSUME OwnerInv, NoDeadlines, OnTime, [Next]_vars, NEW j \in Jobs, status[j] = "done", DoneWell(j)
  PROVE  DoneWell(j)'
<1>t. \A k \in Kids(j) : k \in Jobs /\ Parent[k] = j
  BY DEF Kids, Jobs
<1>1. ASSUME NEW k \in Kids(j), status[k] # "none" PROVE status'[k] # "none"
  BY <1>1, <1>t, FoundStays
<1>2. ASSUME NEW k \in Kids(j), status[k] = "none" PROVE status'[k] = "none"
  BY <1>2, <1>t, StatusStep
<1>3. DoneWell(j)' <=> \/ \A k \in Kids(j) : status'[k] # "none"
                       \/ j \in Dirs /\ ~Opts.recursive
                       \/ "opendir" \in Faults /\ \A k \in Kids(j) : status'[k] = "none"
  BY DEF DoneWell, Kids
<1> QED
  BY <1>1, <1>2, <1>3 DEF DoneWell

\* How process_job ends while nothing goes wrong
LEMMA FinishedWell ==
  ASSUME OwnerInv, NoDeadlines, OnTime, WorkInv, [Next]_vars, Clean',
         NEW t \in Threads, Worker(t), Finishes(t)
  PROVE  LET j == job[t]
         IN  /\ status'[j] \in {"done", "excluded", "failed"}
             /\ status'[j] = "failed" => Opts.ignore_failed_read /\ j \in Entries \ Dirs
             /\ status'[j] = "done" => DoneWell(j)'
<1> DEFINE j == job[t]
<1>t. /\ pc \in [Threads -> Positions] /\ status \in [Jobs -> Statuses] /\ pc[t] \in Processing /\ pc'[t] = "post"
      /\ j \in Jobs /\ CreatedOnce /\ status[j] = "in_progress" /\ ~aborted'
  BY JobFacts DEF OwnerInv, TypeOK, Finishes, Clean, CreatedOnce
<1>k. \A k \in Kids(j) : k \in Jobs
  BY DEF Kids, Jobs
<1>d. DoneWell(j)' <=> \/ \A k \in Kids(j) : status'[k] # "none"
                       \/ j \in Dirs /\ ~Opts.recursive
                       \/ "opendir" \in Faults /\ \A k \in Kids(j) : status'[k] = "none"
  BY DEF DoneWell, Kids, Finishes
<1>1. status'[j] \in {"done", "excluded", "failed"}
  BY <1>t DEF Finishes
<1> DEFINE Good == /\ status'[j] = "failed" => Opts.ignore_failed_read /\ j \in Entries \ Dirs
                   /\ status'[j] = "done" => DoneWell(j)'
<1>2. CASE WExclude(t) \/ WNoRecursion(t)
  BY <1>t, <1>d, <1>2 DEF WExclude, WNoRecursion
<1>3. ASSUME pc[t] \in Scanning, left[t] = {} PROVE DoneWell(j)'
  <2>1. \A k \in Kids(j) : status[k] # "none"
    BY <1>3 DEF WorkInv
  <2>2. \A k \in Kids(j) : status'[k] # "none"
    BY <1>k, <2>1, FoundStays
  <2> QED
    BY <1>d, <2>2
<1>4. CASE WSpecsDone(t)
  <2>1. pc[t] \in Scanning /\ left[t] = {} /\ status'[j] = "done"
    BY <1>t, <1>4 DEF WSpecsDone, Scanning
  <2> QED
    BY <1>3, <2>1
<1>5. CASE WQueueJobs(t)
  <2>1. pc[t] \in Scanning /\ left[t] = {} /\ status'[j] = "done"
    BY <1>t, <1>5 DEF WQueueJobs, Scanning
  <2> QED
    BY <1>3, <2>1
<1>6. ~WOpenFails(t) /\ ~WReadAborted(t)
  <2>1. WOpenFails(t) => aborted' = TRUE
    BY DEF WOpenFails, AbortIf
  <2>2. WReadAborted(t) => aborted' = aborted /\ aborted
    BY DEF WReadAborted
  <2> QED
    BY <1>t, <2>1, <2>2
<1>7. CASE WOpendirFails(t)
  <2>1. pc[t] = "opendir" /\ "opendir" \in Faults /\ status' = [status EXCEPT ![j] = "done"]
    BY <1>7 DEF WOpendirFails
  <2>2. \A k \in Kids(j) : status[k] = "none"
    BY <1>t, <2>1 DEF CreatedOnce
  <2>3. \A k \in Kids(j) : status'[k] = "none"
    BY <1>t, <1>k, <2>1, <2>2
  <2>4. status'[j] = "done"
    BY <1>t, <2>1
  <2> QED
    BY <1>d, <2>1, <2>3, <2>4
<1>8. pc[t] = "read" => j \in Entries \ Dirs /\ Kids(j) = {}
  <2> SUFFICES ASSUME pc[t] = "read" PROVE j \in Entries \ Dirs /\ Kids(j) = {}
    OBVIOUS
  <2>1. j \in Entries /\ j \notin Dirs
    BY JobFacts DEF WorkInv
  <2>2. \A e \in Entries : Parent[e] # j
    BY <2>1, ParentAssumption, EntriesAssumption
  <2> QED
    BY <2>1, <2>2 DEF Kids
<1>9. CASE WRead(t)
  <2>1. pc[t] = "read" /\ status'[j] = "done"
    BY <1>t, <1>9 DEF WRead
  <2> QED
    BY <1>d, <1>8, <2>1
<1>10. CASE WReadFails(t)
  <2>1. pc[t] = "read" /\ status'[j] = "failed" /\ Opts.ignore_failed_read
    BY <1>t, <1>10 DEF WReadFails, ReadError, AbortIf
  <2> QED
    BY <1>8, <2>1
<1>11. \/ WExclude(t) \/ WNoRecursion(t) \/ WSpecsDone(t) \/ WOpenFails(t) \/ WOpendirFails(t)
       \/ WQueueJobs(t) \/ WRead(t) \/ WReadFails(t) \/ WReadAborted(t)
  <2>1. pc[t] # "begin" /\ pc'[t] = "post" /\ status' # status
    BY <1>t, <1>1 DEF Processing
  <2>2. ~WBegin(t) /\ ~WDequeue(t) /\ ~WLeave(t) /\ ~WWait(t) /\ ~WSpurious(t) /\ ~WProc(t) /\ ~WOpen(t)
    BY <1>t, <2>1 DEF WBegin, WDequeue, WLeave, Exits, WWait, WSpurious, WProc, WorkFor, WOpen
  <2>3. ~WEnqueue(t) /\ ~WOpendir(t) /\ ~WPost(t) /\ ~WEmitBegin(t) /\ ~WSkip(t) /\ ~WCheck(t)
    BY <1>t, <2>1 DEF WEnqueue, jobVars, WOpendir, WPost, WEmitBegin, WSkip, WCheck
  <2>4. ~WComplete(t) /\ ~WTimedOut(t) /\ ~WCancel(t) /\ ~WEmit(t) /\ ~WEmitFails(t)
    BY <2>1 DEF WComplete, WTimedOut, WCancel, WEmit, WEmitFails, jobVars
  <2>5. ~WSpec(t) /\ ~WReaddir(t)
    <3>1. status[j] = "in_progress" /\ status'[j] # "in_progress"
      BY <1>t, <1>1
    <3>2. \A e \in left[t] : e # j
      BY <1>t DEF CreatedOnce
    <3> QED
      BY <1>t, <3>1, <3>2 DEF WSpec, WReaddir, CreateJob, StatFails, SkipType
  <2> QED
    BY <2>2, <2>3, <2>4, <2>5 DEF Worker, WStep, WInput, WOutput
<1>12. Good
  BY <1>2, <1>4, <1>5, <1>6, <1>7, <1>9, <1>10, <1>11
<1> QED
  BY <1>1, <1>12

\* Only a job with a result is freed, and a new one is allocated
LEMMA AliveStays ==
  ASSUME OwnerInv, NoDeadlines, OnTime, WorkInv, IdleInv, [Next]_vars, Clean', NEW j \in Jobs
  PROVE  /\ j \in alive /\ status[j] \notin Final => j \in alive'
         /\ status'[j] = "queued" /\ status[j] # "queued" => j \in alive'
<1> DEFINE Good == /\ j \in alive /\ status[j] \notin Final => j \in alive'
                   /\ status'[j] = "queued" /\ status[j] # "queued" => j \in alive'
<1>t. /\ status \in [Jobs -> Statuses] /\ pc \in [Threads -> Positions] /\ job \in [Threads -> Jobs \cup {NoJob}]
  BY DEF OwnerInv, TypeOK
<1>c. Clean
  BY CleanBefore
<1>0. ASSUME UNCHANGED alive, status'[j] = "queued" => status[j] = "queued" PROVE Good
  BY <1>0
<1>1. ASSUME NEW t \in Threads, WSpec(t) \/ WReaddir(t) PROVE Good
  <2>1. PICK e \in left[t] : \/ \E p \in {"enqueue", "readdir"} : CreateJob(t, e, p)
                             \/ StatFails(t, e) \/ SkipType(t, e)
    BY <1>1 DEF WSpec, WReaddir
  <2>2. CASE \E p \in {"enqueue", "readdir"} : CreateJob(t, e, p)
    BY <1>t, <2>2 DEF CreateJob
  <2>3. CASE StatFails(t, e) \/ SkipType(t, e)
    BY <1>t, <2>3 DEF StatFails, SkipType
  <2> QED
    BY <2>1, <2>2, <2>3
<1>2. ASSUME NEW t \in Threads, WComplete(t) PROVE Good
  <2>1. job[t] \in Jobs /\ status[job[t]] \in Final /\ UNCHANGED status /\ alive' = alive \ {job[t]}
    BY <1>2, JobFacts DEF WComplete, FreeJob, WorkInv, AfterWork
  <2> QED
    BY <2>1
<1>3. ASSUME NEW t \in Threads, Worker(t), ~WSpec(t), ~WReaddir(t), ~WComplete(t) PROVE Good
  <2>1. UNCHANGED alive
    <3>1. CASE Handles(t)
      BY <1>3, <3>1 DEF Handles, WDequeue, WEnqueue, WOpendir, WQueueJobs, jobVars
    <3>2. CASE ~Handles(t)
      BY <1>3, <3>2, WorkerCalm DEF Calm, OwnerInv
    <3> QED
      BY <3>1, <3>2
  <2>2. status'[j] = "queued" => status[j] = "queued"
    <3>1. CASE WDequeue(t)
      BY <1>t, <3>1 DEF WDequeue
    <3>2. CASE Finishes(t)
      BY <1>t, <3>2 DEF Finishes
    <3>3. CASE WPost(t) \/ Passes(t)
      BY <3>3 DEF WPost, Passes, jobVars
    <3>4. ASSUME NEW e \in Entries, NEW s \in {"queued", "statfail", "typeexcl"}, Creates(t, e, s)
          PROVE  FALSE
      <4>1. pc[t] \in {"specs", "readdir"} /\ status' # status /\ UNCHANGED job
        BY <1>t, <3>4 DEF Creates, Jobs
      <4>2. pc'[t] # "post"
        BY <3>4 DEF Creates
      <4>3. ~WSpecsDone(t) /\ ~WQueueJobs(t)
        BY <1>t, <4>2 DEF WSpecsDone, WQueueJobs, WakeAll
      <4> QED
        BY <1>3, <4>1, <4>3 DEF Worker, WStep, WInput, WOutput, WBegin, WDequeue, WLeave, WWait, WExclude,
           WNoRecursion, WProc, WOpen, WOpenFails, WEnqueue, WOpendir, WOpendirFails, WPost, WEmitBegin, WSkip,
           WCheck, WTimedOut, WCancel, Cancelable, WRead, WReadFails, WReadAborted, WEmit, WEmitFails, WSpurious, jobVars
    <3> QED
      BY <1>3, <3>1, <3>2, <3>3, <3>4, WorkerKinds
  <2> QED
    BY <1>0, <2>1, <2>2
<1>4. ASSUME Supervisor PROVE Good
  <2>1. UNCHANGED alive /\ ~MAbortQueued
    BY <1>c, <1>4, NoAborts, SupervisorCalm DEF MainCalm
  <2>2. UNCHANGED status
    BY <1>4, <2>1, SupervisorKinds
  <2> QED
    BY <1>0, <2>1, <2>2
<1>5. ASSUME UNCHANGED vars PROVE Good
  BY <1>0, <1>5 DEF vars, jobVars
<1> QED
  BY <1>1, <1>2, <1>3, <1>4, <1>5 DEF Next, Ended, Worker, Supervisor

LEMMA StatusInvStep ==
  ASSUME OwnerInv, NoDeadlines, OnTime, WorkInv, IdleInv, StatusInv, [Next]_vars
  PROVE  StatusInv'
<1> DEFINE Good(j) == /\ status'[j] \in {"queued", "in_progress"} => j \in alive'
                      /\ status'[j] # "partial"
                      /\ status'[j] = "failed" => Opts.ignore_failed_read /\ j \notin Dirs /\ j # InitJob
                      /\ status'[j] = "done" => DoneWell(j)'
<1> SUFFICES ASSUME Clean' PROVE \A j \in Jobs : Good(j)
  BY DEF StatusInv, Jobs
<1>t. /\ status \in [Jobs -> Statuses] /\ InitJob \notin Entries /\ Entries \subseteq Jobs
  BY EntriesAssumption DEF OwnerInv, TypeOK, Jobs
<1>i. /\ Clean /\ status[InitJob] # "failed"
      /\ \A j \in Jobs : /\ status[j] \in {"queued", "in_progress"} => j \in alive
                         /\ status[j] # "partial"
                         /\ status[j] = "failed" => Opts.ignore_failed_read /\ j \notin Dirs
                         /\ status[j] = "done" => DoneWell(j)
  BY CleanBefore DEF StatusInv
<1>0. ASSUME NEW j \in Jobs, status'[j] = status[j] PROVE Good(j)
  <2>1. status[j] \in {"queued", "in_progress"} => j \in alive'
    BY <1>i, AliveStays DEF Final
  <2>2. status[j] = "done" => DoneWell(j)'
    BY <1>i, DoneStays
  <2> QED
    BY <1>0, <1>i, <2>1, <2>2
<1>1. ASSUME NEW t \in Threads, Worker(t), NEW j \in Jobs PROVE Good(j)
  <2>1. CASE WDequeue(t)
    <3>1. queue # << >> /\ status' = [status EXCEPT ![Head(queue)] = "in_progress"] /\ UNCHANGED alive
      BY <2>1 DEF WDequeue
    <3>2. Head(queue) \in alive
      BY <3>1, TailFacts DEF OwnerInv, TypeOK, UniqueOwner
    <3>3. status'[j] = status[j] \/ (status'[j] = "in_progress" /\ j \in alive')
      BY <1>t, <3>1, <3>2
    <3> QED
      BY <1>0, <3>3
  <2>2. CASE Finishes(t)
    <3>1. status'[j] = status[j] \/ j = job[t]
      BY <1>t, <2>2 DEF Finishes
    <3>2. /\ status'[job[t]] \in {"done", "excluded", "failed"}
          /\ status'[job[t]] = "failed" => Opts.ignore_failed_read /\ job[t] \in Entries \ Dirs
          /\ status'[job[t]] = "done" => DoneWell(job[t])'
      BY <1>1, <2>2, FinishedWell
    <3>3. job'[t] = job[t]
      BY <2>2 DEF Finishes
    <3>4. CASE j = job[t]
      <4>1. status'[j] = "done" => DoneWell(j)'
        BY <3>2, <3>3, <3>4 DEF DoneWell, Kids
      <4> QED
        BY <1>t, <3>2, <3>4, <4>1
    <3> QED
      BY <1>0, <3>1, <3>4
  <2>3. CASE WPost(t) \/ Passes(t)
    BY <1>0, <2>3 DEF WPost, Passes, jobVars
  <2>4. ASSUME NEW e \in Entries, NEW s \in {"queued", "statfail", "typeexcl"}, Creates(t, e, s)
        PROVE  Good(j)
    <3>1. status'[j] = status[j] \/ status'[j] \in {"queued", "statfail", "typeexcl"}
      BY <1>t, <2>4 DEF Creates
    <3>2. status'[j] = "queued" => j \in alive'
      BY <1>i, AliveStays DEF Final
    <3> QED
      BY <1>0, <3>1, <3>2
  <2> QED
    BY <1>1, <2>1, <2>2, <2>3, <2>4, WorkerKinds
<1>2. ASSUME Supervisor, NEW j \in Jobs PROVE Good(j)
  BY <1>0, <1>2, <1>i, NoAborts, SupervisorKinds
<1>3. ASSUME UNCHANGED vars, NEW j \in Jobs PROVE Good(j)
  BY <1>0, <1>3 DEF vars, jobVars
<1> HIDE DEF Good
<1> QED
  BY <1>1, <1>2, <1>3 DEF Next, Ended, Worker, Supervisor

\* What the archive holds: each job with a result is there once, but for those
\* that a thread has still to write, and nothing is torn
Unwritten == {job[t] : t \in {u \in Threads : pc[u] \in {"post", "write", "emit"}}}

Expected(e) == IF status[e] \in {"done", "partial", "failed"} /\ e \notin Unwritten THEN 1 ELSE 0

EmitInv == Clean => torn = 0 /\ \A e \in Entries : written[e] = Expected(e)

\* Without fault or cancellation, process_job and write_job_data go on like this
LEMMA WriteKinds ==
  ASSUME OwnerInv, NoDeadlines, OnTime, IdleInv, [Next]_vars, NEW t \in Threads, Worker(t), Clean'
  PROVE  \/ pc[t] \notin {"post", "write", "emit"} /\ UNCHANGED <<written, torn>>
         \/ WPost(t) \/ WEmitBegin(t) \/ WSkip(t)
         \/ WEmit(t) /\ pc[t] = "emit"
<1>c. Clean
  BY CleanBefore
<1>1. ~WCancel(t)
  <2> SUFFICES ASSUME WCancel(t) PROVE FALSE
    OBVIOUS
  <2>1. ~Early /\ pc[t] \in {"open", "read", "emit", "emitstat", "write", "check"}
    BY DEF WCancel, Cancelable, OnTime
  <2>2. Late
    BY <2>1 DEF Early, Late, OwnerInv, TypeOK, MainPositions
  <2> QED
    BY <1>c, <2>1, <2>2, IdleFacts
<1>2. ~WEmitFails(t)
  BY DEF WEmitFails, AbortIf, Clean
<1>3. WEmit(t) => \/ pc[t] = "emit"
                  \/ pc[t] \notin {"post", "write", "emit"} /\ UNCHANGED <<written, torn>>
  BY DEF WEmit
<1>4. \/ WPost(t) \/ WEmitBegin(t) \/ WSkip(t) \/ WCancel(t) \/ WEmit(t) \/ WEmitFails(t)
      \/ pc[t] \notin {"post", "write", "emit"} /\ UNCHANGED <<written, torn>>
  BY DEF Worker, WStep, WInput, WOutput, WBegin, WDequeue, WLeave, WWait, WExclude, WNoRecursion,
     WProc, WOpen, WOpenFails, WSpec, WEnqueue, WSpecsDone, WOpendir, WOpendirFails, WReaddir, WQueueJobs,
     WCheck, WComplete, WTimedOut, WRead, WReadFails, WReadAborted, WSpurious, fileVars
<1> QED
  BY <1>1, <1>2, <1>3, <1>4

\* Where a worker gets something to write
LEMMA WritePlaces ==
  ASSUME OwnerInv, NoDeadlines, OnTime, NEW t \in Threads, Worker(t),
         pc'[t] \in {"post", "write", "emit"}
  PROVE  Finishes(t) \/ WPost(t) \/ WEmitBegin(t)
<1>t. pc \in [Threads -> Positions]
  BY DEF OwnerInv, TypeOK
<1>1. CASE pc'[t] = "post"
  <2>1. ~WDequeue(t) /\ ~WPost(t)
    BY <1>t, <1>1 DEF WDequeue, WPost
  <2> QED
    BY <1>1, <2>1, WorkerKinds DEF Passes, Creates
<1>2. CASE pc'[t] \in {"write", "emit"}
  <2>1. pc[t] \in AfterWork
    BY <1>2, WorkerPlaces DEF AfterWork, Finishes
  <2>2. ~WSkip(t) /\ ~WComplete(t) /\ ~WTimedOut(t) /\ ~WCancel(t) /\ ~WEmit(t)
    BY <1>t, <1>2 DEF WSkip, WComplete, WTimedOut, Exits, WCancel, WEmit, AfterEmit
  <2>3. ~WEmitFails(t) /\ ~WCheck(t)
    BY <1>t, <1>2 DEF WEmitFails, WCheck, AfterEmit, AbortIf, WakeAll
  <2> QED
    BY <2>1, <2>2, <2>3 DEF AfterWork, Worker, WStep, WInput, WOutput, WBegin, WDequeue, WLeave, WWait, WExclude,
       WNoRecursion, WProc, WOpen, WOpenFails, WSpec, WEnqueue, WSpecsDone, WOpendir, WOpendirFails, WReaddir,
       WQueueJobs, WRead, WReadFails, WReadAborted, WSpurious
<1> QED
  BY <1>1, <1>2

\* The main thread takes no such job from a worker
LEMMA SupervisorKeeps ==
  ASSUME OwnerInv, Supervisor, NEW t \in Threads
  PROVE  /\ pc'[t] \in {"post", "write", "emit"} <=> pc[t] \in {"post", "write", "emit"}
         /\ pc[t] \in {"post", "write", "emit"} => job'[t] = job[t]
<1>t. /\ pc \in [Threads -> Positions] /\ job \in [Threads -> Jobs \cup {NoJob}]
  BY DEF OwnerInv, TypeOK
<1>1. CASE MReapJoin
  BY <1>t, <1>1 DEF MReapJoin
<1>2. CASE MAbortQueued
  BY <1>2 DEF MAbortQueued, threadVars
<1>3. CASE ~MReapJoin /\ ~MAbortQueued
  BY <1>3, SupervisorCalm DEF MainCalm
<1> QED
  BY <1>1, <1>2, <1>3

LEMMA EmitStep ==
  ASSUME OwnerInv, NoDeadlines, OnTime, WorkInv, IdleInv, StatusInv, EmitInv, [Next]_vars
  PROVE  EmitInv'
<1> SUFFICES ASSUME Clean' PROVE torn' = 0 /\ \A e \in Entries : written'[e] = Expected(e)'
  BY DEF EmitInv
<1>t. /\ pc \in [Threads -> Positions] /\ job \in [Threads -> Jobs \cup {NoJob}]
      /\ status \in [Jobs -> Statuses] /\ written \in [Entries -> Nat]
      /\ InitJob \notin Entries /\ Entries \subseteq Jobs /\ NoJob \notin Jobs
  BY EntriesAssumption DEF OwnerInv, TypeOK, Jobs
<1>i. Clean /\ torn = 0 /\ \A e \in Entries : written[e] = Expected(e)
  BY CleanBefore DEF EmitInv
<1>u. \A t, u \in Threads : job[t] = job[u] /\ job[t] # NoJob => t = u
  BY DEF OwnerInv, UniqueOwner
<1>0. ASSUME UNCHANGED <<written, torn>>, \A e \in Entries : Expected(e)' = Expected(e)
      PROVE  torn' = 0 /\ \A e \in Entries : written'[e] = Expected(e)'
  BY <1>0, <1>i
<1>1. ASSUME NEW t \in Threads, Worker(t) PROVE torn' = 0 /\ \A e \in Entries : written'[e] = Expected(e)'
  <2>1. \A u \in Threads \ {t} : /\ pc'[u] \in {"post", "write", "emit"} <=> pc[u] \in {"post", "write", "emit"}
                                 /\ job'[u] = job[u]
    BY <1>1, WorkerMoves DEF Moves, OwnerInv
  <2>2. ASSUME pc'[t] \in {"post", "write", "emit"} <=> pc[t] \in {"post", "write", "emit"},
               pc[t] \in {"post", "write", "emit"} => job'[t] = job[t]
        PROVE  Unwritten' = Unwritten
    BY <2>1, <2>2 DEF Unwritten
  <2>3. ASSUME pc[t] \in {"post", "write", "emit"}, pc'[t] \notin {"post", "write", "emit"}, UNCHANGED job
        PROVE  Unwritten' = Unwritten \ {job[t]} /\ job[t] \in Unwritten
    <3>1. \A u \in Threads \ {t} : job[u] # job[t]
      BY <2>3, <1>u, <1>t, JobFacts DEF Writing
    <3> QED
      BY <2>1, <2>3, <3>1 DEF Unwritten
  <2>4. CASE Finishes(t)
    <3> DEFINE j == job[t]
    <3>1. UNCHANGED <<job, written, torn>> /\ pc[t] \in Processing /\ pc'[t] = "post"
      BY <2>4 DEF Finishes
    <3>2. j \in Jobs /\ status[j] = "in_progress"
      BY <3>1, JobFacts DEF OwnerInv, CreatedOnce
    <3>3. Unwritten' = Unwritten \cup {j}
      BY <2>1, <3>1 DEF Unwritten, Processing
    <3>4. \A e \in Entries \ {j} : status'[e] = status[e]
      BY <1>t, <2>4 DEF Finishes
    <3>5. \A e \in Entries : Expected(e)' = Expected(e)
      BY <3>2, <3>3, <3>4 DEF Expected
    <3> QED
      BY <1>0, <3>1, <3>5
  <2>5. CASE WPost(t)
    <3>1. Unwritten' = Unwritten
      BY <1>t, <2>2, <2>5 DEF WPost, threadVars
    <3> QED
      BY <1>0, <2>5, <3>1 DEF WPost, Expected, jobVars, fileVars
  <2>6. CASE WEmitBegin(t)
    <3>1. UNCHANGED <<status, job, written, torn>> /\ pc[t] = "write"
      BY <2>6 DEF WEmitBegin, jobVars, threadVars, fileVars
    <3>2. Unwritten' = Unwritten \/ Unwritten' = Unwritten \ {InitJob}
      <4>1. CASE InitDone(job[t])
        BY <1>t, <2>3, <2>6, <3>1, <4>1 DEF WEmitBegin, InitDone
      <4>2. CASE ~InitDone(job[t])
        BY <1>t, <2>2, <2>6, <3>1, <4>2 DEF WEmitBegin
      <4> QED
        BY <4>1, <4>2
    <3>3. \A e \in Entries : Expected(e)' = Expected(e)
      BY <1>t, <3>1, <3>2 DEF Expected
    <3> QED
      BY <1>0, <3>1, <3>3
  <2>7. CASE WSkip(t)
    <3> DEFINE j == job[t]
    <3>1. /\ UNCHANGED <<status, job, written, torn>> /\ pc[t] = "write" /\ pc'[t] = "fin" /\ ~Writes(j)
      BY <1>t, <2>7 DEF WSkip, jobVars, threadVars, fileVars
    <3>2. j \in Jobs /\ status[j] \in Final
      BY <3>1, JobFacts DEF WorkInv, AfterWork, Writing
    <3>3. j \in Entries => status[j] = "excluded"
      BY <1>i, <3>1, <3>2 DEF Writes, Final, StatusInv
    <3>4. Unwritten' = Unwritten \ {j}
      BY <2>3, <3>1
    <3>5. \A e \in Entries : Expected(e)' = Expected(e)
      BY <3>1, <3>3, <3>4 DEF Expected
    <3> QED
      BY <1>0, <3>1, <3>5
  <2>8. CASE WEmit(t) /\ pc[t] = "emit"
    <3> DEFINE j == job[t]
    <3>1. /\ UNCHANGED <<status, job, torn>> /\ written' = [written EXCEPT ![j] = @ + 1]
          /\ pc'[t] \in {"emitstat", "check"}
      BY <1>t, <2>8 DEF WEmit, AfterEmit, jobVars, threadVars
    <3>2. j \in Entries /\ status[j] \in {"done", "partial", "failed"}
      BY <2>8, JobFacts DEF WorkInv, Writes
    <3>3. Unwritten' = Unwritten \ {j} /\ j \in Unwritten
      BY <2>3, <2>8, <3>1
    <3>4. \A e \in Entries : Expected(e)' = IF e = j THEN 1 ELSE Expected(e)
      BY <3>1, <3>2, <3>3 DEF Expected
    <3>5. Expected(j) = 0
      BY <3>3 DEF Expected
    <3>6. \A e \in Entries : written'[e] = IF e = j THEN 1 ELSE written[e]
      BY <1>t, <1>i, <3>1, <3>2, <3>5
    <3> QED
      BY <1>i, <3>1, <3>4, <3>6
  <2>9. CASE pc[t] \notin {"post", "write", "emit"} /\ UNCHANGED <<written, torn>> /\ ~Finishes(t)
    <3>1. pc'[t] \notin {"post", "write", "emit"}
      BY <1>1, <2>9, WritePlaces DEF WPost, WEmitBegin
    <3>2. Unwritten' = Unwritten
      BY <2>2, <2>9, <3>1
    <3>3. ASSUME NEW e \in Entries
          PROVE  status'[e] = status[e] \/ {status[e], status'[e]} \cap {"done", "partial", "failed"} = {}
      <4>1. CASE WDequeue(t)
        <5>1. Head(queue) \in Jobs /\ status[Head(queue)] = "queued"
          BY <4>1, TailFacts DEF WDequeue, OwnerInv, TypeOK, CreatedOnce
        <5> QED
          BY <1>t, <4>1, <5>1 DEF WDequeue
      <4>2. ASSUME NEW f \in Entries, NEW s \in {"queued", "statfail", "typeexcl"}, Creates(t, f, s)
            PROVE  status'[e] = status[e] \/ {status[e], status'[e]} \cap {"done", "partial", "failed"} = {}
        BY <1>t, <4>2 DEF Creates
      <4> QED
        BY <1>1, <2>9, <4>1, <4>2, WorkerKinds DEF Passes, WPost
    <3>4. \A e \in Entries : Expected(e)' = Expected(e)
      BY <3>2, <3>3 DEF Expected
    <3> QED
      BY <1>0, <2>9, <3>4
  <2> QED
    BY <1>1, <2>4, <2>5, <2>6, <2>7, <2>8, <2>9, WriteKinds
<1>2. CASE Supervisor
  <2>1. Unwritten' = Unwritten
    BY <1>2, SupervisorKeeps DEF Unwritten
  <2>2. UNCHANGED <<status, written, torn>>
    BY <1>2, <1>i, NoAborts, SupervisorKinds
  <2> QED
    BY <1>0, <2>1, <2>2 DEF Expected
<1>3. CASE UNCHANGED vars
  BY <1>0, <1>3 DEF vars, jobVars, threadVars, fileVars, Expected, Unwritten
<1> QED
  BY <1>1, <1>2, <1>3 DEF Next, Ended, Worker, Supervisor

\* Exit code 0 is given only when nothing was aborted and the end is written
EofInv == mpc = "done" /\ rc = 0 => ~aborted /\ (numFiles > 0 /\ ~Opts.no_eof => eof)

LEMMA EofStep ==
  ASSUME OwnerInv, ReapInv, EofInv, [Next]_vars
  PROVE  EofInv'
<1> SUFFICES ASSUME mpc' = "done", rc' = 0
             PROVE  ~aborted' /\ (numFiles' > 0 /\ ~Opts.no_eof => eof')
  BY DEF EofInv
<1>1. ASSUME NEW t \in Threads, Worker(t) PROVE FALSE
  <2>1. mpc = "done" /\ pc[t] # "joined"
    BY <1>1, WorkerMoves DEF Moves, OwnerInv
  <2> QED
    BY <2>1 DEF ReapInv
<1>2. CASE Supervisor
  <2>1. MFinal
    BY <1>2 DEF Supervisor, MStep, MCreate, MMark, MCreateFails, MWait, MLeave, MToolTimeout, MTimeoutRaced,
       MTimeout, MCancel, MRestart, MRestartFails, MGrace, MReap, MReapJoin, MAbortQueued, MExpire, MSpurious
  <2>2. aborted \in BOOLEAN /\ rc \in {0, 1}
    BY DEF OwnerInv, TypeOK
  <2>3. PICK fails \in BOOLEAN : /\ eof' = (numFiles > 0 /\ ~Opts.no_eof /\ ~fails)
                                 /\ aborted' = (aborted \/ fails)
                                 /\ rc' = IF rc = 1 \/ aborted \/ fails THEN 1 ELSE 0
    BY <2>1 DEF MFinal
  <2>4. ~aborted /\ ~fails
    BY <2>3
  <2>5. numFiles' = numFiles
    BY <2>1 DEF MFinal
  <2> QED
    BY <2>3, <2>4, <2>5
<1>3. CASE UNCHANGED vars
  BY <1>3 DEF vars, mainVars, fileVars, EofInv
<1> QED
  BY <1>1, <1>2, <1>3 DEF Next, Ended, Worker, Supervisor

\* The invariants behind CompleteDump
EndInv == /\ HandleInv /\ ReapInv /\ OnTime /\ ExactInv /\ IdleInv /\ WorkInv
          /\ StatusInv /\ EmitInv /\ EofInv

LEMMA InitEnd == Init => EndInv
<1> SUFFICES ASSUME Init PROVE EndInv
  OBVIOUS
<1>1. HandleInv /\ OnTime /\ ExactInv
  BY InitCounts, InitOnTime, InitExact
<1>2. ReapInv /\ IdleInv /\ WorkInv /\ EofInv
  BY DEF Init, ReapInv, IdleInv, Late, WorkInv, AfterWork, Scanning, EofInv
<1>3. StatusInv
  BY EntriesAssumption DEF Init, StatusInv, Jobs
<1>4. EmitInv
  BY EntriesAssumption DEF Init, EmitInv, Expected, Jobs
<1> QED
  BY <1>1, <1>2, <1>3, <1>4 DEF EndInv

LEMMA EndStep ==
  ASSUME OwnerInv, NoDeadlines, EndInv, [Next]_vars
  PROVE  EndInv'
<1>1. HandleInv' /\ ReapInv' /\ OnTime' /\ ExactInv' /\ EofInv'
  BY HandleStep, ReapStep, OnTimeStep, ExactStep, EofStep DEF EndInv
<1>2. IdleInv' /\ WorkInv' /\ StatusInv' /\ EmitInv'
  BY IdleStep, WorkStep, StatusInvStep, EmitStep DEF EndInv
<1> QED
  BY <1>1, <1>2 DEF EndInv

LEMMA EndComplete ==
  ASSUME OwnerInv, EndInv
  PROVE  CompleteDump
<1> SUFFICES ASSUME mpc = "done", rc = 0
             PROVE  /\ torn = 0 /\ (numFiles > 0 /\ ~Opts.no_eof => eof)
                    /\ \A e \in Entries :
                         \/ status[e] \in {"done", "partial", "failed"} /\ written[e] = 1
                         \/ status[e] \in {"excluded", "statfail", "typeexcl"} /\ written[e] = 0
                         \/ /\ status[e] = "none" /\ written[e] = 0
                            /\ \/ status[Parent[e]] \in {"none", "excluded", "statfail", "typeexcl"}
                               \/ ~Opts.recursive
                               \/ "opendir" \in Faults /\ \A k \in Kids(Parent[e]) : status[k] = "none"
  BY DEF CompleteDump
<1>1. Clean /\ Late /\ (numFiles > 0 /\ ~Opts.no_eof => eof)
  BY DEF EndInv, EofInv, Clean, Late
<1>2. alive = {}
  BY <1>1 DEF EndInv, IdleInv
<1>3. Unwritten = {}
  BY DEF Unwritten, EndInv, ReapInv
<1>4. torn = 0 /\ \A e \in Entries : written[e] = IF status[e] \in {"done", "partial", "failed"} THEN 1 ELSE 0
  BY <1>1, <1>3 DEF EndInv, EmitInv, Expected
<1>5. /\ status[InitJob] # "failed"
      /\ \A j \in Jobs : /\ status[j] \in Statuses \ {"queued", "in_progress", "partial"}
                         /\ status[j] = "failed" => j \notin Dirs
                         /\ status[j] = "done" => DoneWell(j)
  BY <1>1, <1>2 DEF EndInv, StatusInv, OwnerInv, TypeOK
<1>6. ASSUME NEW e \in Entries, status[e] = "none"
      PROVE  \/ status[Parent[e]] \in {"none", "excluded", "statfail", "typeexcl"}
             \/ ~Opts.recursive
             \/ "opendir" \in Faults /\ \A k \in Kids(Parent[e]) : status[k] = "none"
  <2>1. Parent[e] \in Jobs /\ (Parent[e] \in Dirs \/ Parent[e] = InitJob) /\ e \in Kids(Parent[e])
    BY ParentAssumption DEF Jobs, Dirs, Kids
  <2>2. status[Parent[e]] \in {"none", "excluded", "statfail", "typeexcl", "done"}
    BY <1>5, <2>1 DEF Statuses, Final
  <2> QED
    BY <1>5, <1>6, <2>1, <2>2 DEF DoneWell
<1>7. \A e \in Entries : e \in Jobs
  BY DEF Jobs
<1> QED
  BY <1>1, <1>4, <1>5, <1>6, <1>7 DEF Statuses, Final

\* Exit code 0 means a complete archive: every entry that was found is there
\* exactly once and whole, and what is missing was excluded, could not be found, or
\* belongs to a directory that could not be opened: without --file-timeout.
THEOREM ArchiveComplete ==
  ASSUME NoDeadlines
  PROVE  Spec => []CompleteDump
<1>1. OwnerInv /\ EndInv /\ [Next]_vars => EndInv'
  BY NoDeadlines, EndStep
<1>2. Init => EndInv
  BY InitEnd
<1>3. OwnerInv /\ EndInv => CompleteDump
  BY EndComplete
<1> QED
  BY <1>1, <1>2, <1>3, OwnerInvariant, PTL DEF Spec
=============================================================================
