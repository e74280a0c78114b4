-------------------------- MODULE EventLoopProofs --------------------------
(***************************************************************************)
(* Theorems about EventLoop for every set of executions, readers and       *)
(* instructions and every number of threads.                               *)
(***************************************************************************)
EXTENDS EventLoop, FiniteSetTheorems, SequenceTheorems, TLAPS

-----------------------------------------------------------------------------
(* What a step changes.                                                      *)

\* What there is to say of an execution.
State ==
  [phase : {"absent", "queued", "working", "paused", "ending", "returned", "done"},
   slot : {<< >>} \cup {<<i>> : i \in Instructions},
   stopped : BOOLEAN, late : 0 .. 1, pauses : 0 .. MaxPauses,
   status : {"none", "completed", "failed", "cancelled"}]

\* One execution changes, and stays one.
Only(e) == ex' \in [Executions -> State] /\ \A f \in Executions \ {e} : ex'[f] = ex[f]

\* What the contract sees of an execution but for its phase.
Seen(s) == <<s.slot, s.stopped, s.late, s.status>>

\* What is said of each execution is of the right kind.
LEMMA StateType == TypeOK => /\ ex \in [Executions -> State]
                             /\ \A e \in Executions : ex[e] \in State
  BY DEF TypeOK, State

\* An execution is replaced.
LEMMA Changed ==
  ASSUME TypeOK, NEW e \in Executions, NEW s \in State, ex' = [ex EXCEPT ![e] = s]
  PROVE  Only(e) /\ ex'[e] = s
<1>1. ex \in [Executions -> State]
  BY StateType
<1> HIDE DEF State
<1> QED
  BY <1>1 DEF Only

\* A change of phase and nothing else.
LEMMA PhaseChanges ==
  ASSUME TypeOK, NEW e \in Executions,
         NEW p \in {"absent", "queued", "working", "paused", "ending", "returned", "done"},
         ex' = [ex EXCEPT ![e].phase = p]
  PROVE  Only(e) /\ ex'[e].phase = p /\ Seen(ex'[e]) = Seen(ex[e])
<1> DEFINE s == [ex[e] EXCEPT !.phase = p]
<1>1. ex[e] \in State /\ ex \in [Executions -> State]
  BY StateType
<1>2. s \in State /\ s.phase = p /\ Seen(s) = Seen(ex[e])
  BY <1>1 DEF State, Seen
<1>3. ex' = [ex EXCEPT ![e] = s]
  BY <1>1 DEF State
<1> HIDE DEF s
<1> QED
  BY <1>2, <1>3, Changed

\* A pause is counted.
LEMMA PauseChanges ==
  ASSUME TypeOK, NEW e \in Executions, Pause(e)
  PROVE  Only(e) /\ ex'[e].phase = "paused" /\ Seen(ex'[e]) = Seen(ex[e])
<1> DEFINE s == [ex[e] EXCEPT !.phase = "paused", !.pauses = @ + 1]
<1>1. ex[e] \in State /\ ex \in [Executions -> State]
  BY StateType
<1>2. s \in State /\ s.phase = "paused" /\ Seen(s) = Seen(ex[e])
  BY <1>1, PoolAssumption DEF State, Seen, Pause
<1>3. ex' = [ex EXCEPT ![e] = s]
  BY <1>1 DEF State, Pause
<1> HIDE DEF s
<1> QED
  BY <1>2, <1>3, Changed

\* An execution that is over has a status.
LEMMA EndChanges ==
  ASSUME TypeOK, NEW e \in Executions, NEW p \in {"returned", "done"},
         NEW t \in {"completed", "failed", "cancelled"},
         ex' = [ex EXCEPT ![e].phase = p, ![e].status = t]
  PROVE  /\ Only(e) /\ ex'[e].phase = p /\ ex'[e].status = t
         /\ ex'[e].slot = ex[e].slot /\ ex'[e].stopped = ex[e].stopped /\ ex'[e].late = ex[e].late
<1> DEFINE s == [ex[e] EXCEPT !.phase = p, !.status = t]
<1>1. ex[e] \in State /\ ex \in [Executions -> State]
  BY StateType
<1>2. /\ s \in State /\ s.phase = p /\ s.status = t
      /\ s.slot = ex[e].slot /\ s.stopped = ex[e].stopped /\ s.late = ex[e].late
  BY <1>1 DEF State
<1>3. ex' = [ex EXCEPT ![e] = s]
  BY <1>1 DEF State
<1> HIDE DEF s
<1> QED
  BY <1>2, <1>3, Changed

\* A late step is counted.
LEMMA LateStepChanges ==
  ASSUME TypeOK, NEW e \in Executions, LateStep(e)
  PROVE  /\ Only(e) /\ ex'[e].phase = ex[e].phase /\ ex'[e].late = 1
         /\ ex'[e].slot = ex[e].slot /\ ex'[e].stopped = ex[e].stopped /\ ex'[e].status = ex[e].status
<1> DEFINE s == [ex[e] EXCEPT !.late = 1]
<1>1. ex[e] \in State /\ ex \in [Executions -> State]
  BY StateType
<1>2. /\ s \in State /\ s.phase = ex[e].phase /\ s.late = 1
      /\ s.slot = ex[e].slot /\ s.stopped = ex[e].stopped /\ s.status = ex[e].status
  BY <1>1 DEF State
<1>3. ex' = [ex EXCEPT ![e] = s]
  BY <1>1 DEF State, LateStep
<1> HIDE DEF s
<1> QED
  BY <1>2, <1>3, Changed

\* The instruction is taken off the queue.
LEMMA WakeChanges ==
  ASSUME TypeOK, NEW e \in Executions, Wake(e)
  PROVE  /\ Only(e) /\ ex'[e].slot = << >>
         /\ ex'[e].phase = IF Head(ex[e].slot).action = "abort" THEN "ending" ELSE "working"
         /\ ex'[e].late = ex[e].late /\ ex'[e].stopped = ex[e].stopped /\ ex'[e].status = ex[e].status
<1> DEFINE p == IF Head(ex[e].slot).action = "abort" THEN "ending" ELSE "working"
           s == [ex[e] EXCEPT !.slot = << >>, !.phase = p]
<1>1. ex[e] \in State /\ ex \in [Executions -> State]
  BY StateType
<1>2. ex' = [ex EXCEPT ![e].slot = << >>, ![e].phase = p]
  BY DEF Wake
<1>3. p \in {"ending", "working"}
  OBVIOUS
<1> HIDE DEF p
<1>4. /\ s \in State /\ s.phase = p /\ s.slot = << >>
      /\ s.late = ex[e].late /\ s.stopped = ex[e].stopped /\ s.status = ex[e].status
  BY <1>1, <1>3 DEF State
<1>5. ex' = [ex EXCEPT ![e] = s]
  BY <1>1, <1>2 DEF State
<1> HIDE DEF s
<1>6. Only(e) /\ ex'[e] = s
  BY <1>4, <1>5, Changed
<1> QED
  BY <1>4, <1>6 DEF p

\* The cancel event is set.
LEMMA StopChanges ==
  ASSUME TypeOK, NEW e \in Executions, ex' = [ex EXCEPT ![e].stopped = TRUE]
  PROVE  /\ Only(e) /\ ex'[e].phase = ex[e].phase /\ ex'[e].stopped = TRUE
         /\ ex'[e].slot = ex[e].slot /\ ex'[e].late = ex[e].late /\ ex'[e].status = ex[e].status
<1> DEFINE s == [ex[e] EXCEPT !.stopped = TRUE]
<1>1. ex[e] \in State /\ ex \in [Executions -> State]
  BY StateType
<1>2. /\ s \in State /\ s.phase = ex[e].phase /\ s.stopped = TRUE
      /\ s.slot = ex[e].slot /\ s.late = ex[e].late /\ s.status = ex[e].status
  BY <1>1 DEF State
<1>3. ex' = [ex EXCEPT ![e] = s]
  BY <1>1 DEF State
<1> HIDE DEF s
<1> QED
  BY <1>2, <1>3, Changed

\* The slot is filled.
LEMMA PutChanges ==
  ASSUME TypeOK, NEW e \in Executions, NEW i \in Instructions, ex' = [ex EXCEPT ![e].slot = <<i>>]
  PROVE  /\ Only(e) /\ ex'[e].phase = ex[e].phase /\ ex'[e].slot = <<i>>
         /\ ex'[e].stopped = ex[e].stopped /\ ex'[e].late = ex[e].late /\ ex'[e].status = ex[e].status
<1> DEFINE s == [ex[e] EXCEPT !.slot = <<i>>]
<1>1. ex[e] \in State /\ ex \in [Executions -> State]
  BY StateType
<1>2. /\ s \in State /\ s.phase = ex[e].phase /\ s.slot = <<i>>
      /\ s.stopped = ex[e].stopped /\ s.late = ex[e].late /\ s.status = ex[e].status
  BY <1>1 DEF State
<1>3. ex' = [ex EXCEPT ![e] = s]
  BY <1>1 DEF State
<1> HIDE DEF s
<1> QED
  BY <1>2, <1>3, Changed

\* A thread stays with its execution until it returns.
LEMMA ThreadChanges ==
  ASSUME TypeOK, NEW e \in Executions, Thread(e)
  PROVE  /\ Only(e) /\ UNCHANGED <<work, reader, loop>>
         /\ ex[e].phase \in {"working", "paused", "ending"}
         /\ ex'[e].phase \in {"working", "paused", "ending", "returned"}
<1>0. ex[e] \in State
  BY StateType
<1>1. UNCHANGED <<work, reader, loop>>
  BY DEF Thread
<1>2. CASE LateStep(e)
  BY <1>1, <1>2, LateStepChanges DEF LateStep
<1>3. CASE Pause(e)
  BY <1>1, <1>3, PauseChanges DEF Pause
<1>4. CASE Wake(e)
  BY <1>1, <1>4, WakeChanges DEF Wake
<1>5. CASE TimeOut(e) \/ Obey(e)
  BY <1>1, <1>5, PhaseChanges DEF TimeOut, Obey
<1>6. CASE Return(e)
  BY <1>1, <1>6, EndChanges DEF Return
<1> QED
  BY <1>2, <1>3, <1>4, <1>5, <1>6 DEF Thread

-----------------------------------------------------------------------------
(* The pool.                                                                 *)

\* Nothing waits twice; only finitely many wait, run or read.
WorkInv ==
  /\ TypeOK
  /\ IsFiniteSet(Waiting) /\ IsFiniteSet(InThread) /\ IsFiniteSet(Reading)
  /\ \A j, k \in DOMAIN work : work[j] = work[k] => j = k

\* Who waits and who runs is told by the phases.
LEMMA PhasesTell ==
  ASSUME TypeOK, NEW e \in Executions, Only(e), reader' = reader
  PROVE  /\ Waiting' = IF ex'[e].phase = "queued" THEN Waiting \cup {e} ELSE Waiting \ {e}
         /\ InThread' = IF ex'[e].phase \in {"working", "paused", "ending"}
                        THEN InThread \cup {e} ELSE InThread \ {e}
         /\ Reading' = Reading
         /\ e \in Waiting <=> ex[e].phase = "queued"
         /\ e \in InThread <=> ex[e].phase \in {"working", "paused", "ending"}
<1>1. e \notin Readers
  BY PoolAssumption
<1>2. \A f \in Executions \ {e} : ex'[f] = ex[f]
  BY DEF Only
<1> QED
  BY <1>1, <1>2 DEF Waiting, InThread, Reading

\* The same of a reader.
LEMMA ReadersTell ==
  ASSUME TypeOK, NEW r \in Readers, ex' = ex, NEW p \in {"queued", "reading", "read", "answered"},
         reader' = [reader EXCEPT ![r] = p]
  PROVE  /\ Waiting' = IF p = "queued" THEN Waiting \cup {r} ELSE Waiting \ {r}
         /\ Reading' = IF p = "reading" THEN Reading \cup {r} ELSE Reading \ {r}
         /\ InThread' = InThread
         /\ r \in Waiting <=> reader[r] = "queued"
         /\ r \in Reading <=> reader[r] = "reading"
         /\ reader' \in [Readers -> {"idle", "queued", "reading", "read", "answered"}]
<1>1. r \notin Executions
  BY PoolAssumption
<1>2. /\ \A q \in Readers \ {r} : reader'[q] = reader[q]
      /\ reader'[r] = p
      /\ reader' \in [Readers -> {"idle", "queued", "reading", "read", "answered"}]
  BY DEF TypeOK
<1> QED
  BY <1>1, <1>2 DEF Waiting, InThread, Reading

\* Threads that end and phases that do not matter to the pool.
LEMMA PoolKept ==
  ASSUME WorkInv, work' = work, Waiting' = Waiting,
         InThread' \subseteq InThread, Reading' \subseteq Reading,
         ex' \in [Executions -> State],
         reader' \in [Readers -> {"idle", "queued", "reading", "read", "answered"}],
         loop' \in {Free} \cup [of : Executions, instr : Instructions]
  PROVE  WorkInv'
<1> DEFINE R == Reading
           T == InThread
           RR == Reading'
           TT == InThread'
<1>1. /\ IsFiniteSet(TT) /\ IsFiniteSet(RR)
      /\ Cardinality(TT) <= Cardinality(T) /\ Cardinality(RR) <= Cardinality(R)
      /\ Cardinality(TT) \in Nat /\ Cardinality(RR) \in Nat
      /\ Cardinality(T) \in Nat /\ Cardinality(R) \in Nat
  BY FS_Subset, FS_CardinalityType DEF WorkInv
<1>2. Cardinality(T) + Cardinality(R) <= Threads /\ Threads \in Nat
  BY PoolAssumption DEF WorkInv, TypeOK
<1>3. Cardinality(TT) + Cardinality(RR) <= Threads
  <2> HIDE DEF T, TT, R, RR
  <2> QED
    BY <1>1, <1>2
<1>4. /\ ex' \in [Executions -> State]
      /\ work \in Seq(Waiting) /\ Len(work) = Cardinality(Waiting)
      /\ IsFiniteSet(Waiting) /\ \A j, k \in DOMAIN work : work[j] = work[k] => j = k
  BY DEF WorkInv, TypeOK
<1>5. TypeOK'
  BY <1>3, <1>4 DEF TypeOK, State
<1> QED
  BY <1>1, <1>4, <1>5 DEF WorkInv

\* One more waits, at the end.
LEMMA PoolQueues ==
  ASSUME WorkInv, NEW x, x \notin Waiting, work' = Append(work, x), Waiting' = Waiting \cup {x},
         InThread' = InThread, Reading' = Reading,
         ex' \in [Executions -> State],
         reader' \in [Readers -> {"idle", "queued", "reading", "read", "answered"}],
         loop' \in {Free} \cup [of : Executions, instr : Instructions]
  PROVE  WorkInv'
<1> DEFINE W == Waiting
           V == Waiting'
           n == Len(work)
<1>1. /\ IsFiniteSet(W) /\ work \in Seq(W) /\ n = Cardinality(W)
      /\ \A j, k \in DOMAIN work : work[j] = work[k] => j = k
  BY DEF WorkInv, TypeOK
<1>2. V = W \cup {x} /\ x \notin W
  OBVIOUS
<1> HIDE DEF W, V
<1>3. IsFiniteSet(V) /\ Cardinality(V) = Cardinality(W) + 1
  BY <1>1, <1>2, FS_AddElement
<1>4. /\ n \in Nat /\ DOMAIN work = 1 .. n /\ DOMAIN work' = 1 .. n + 1 /\ Len(work') = n + 1
      /\ \A k \in 1 .. n : work[k] \in W /\ work'[k] = work[k]
      /\ work'[n + 1] = x
  BY <1>1
<1>5. work' \in Seq(V)
  <2>1. work \in Seq(V) /\ x \in V
    BY <1>1, <1>2
  <2> QED
    BY <2>1
<1>6. ASSUME NEW j \in DOMAIN work', NEW k \in DOMAIN work', work'[j] = work'[k] PROVE j = k
  <2>1. (j \in 1 .. n \/ j = n + 1) /\ (k \in 1 .. n \/ k = n + 1)
    BY <1>4
  <2> QED
    BY <1>1, <1>2, <1>4, <1>6, <2>1
<1>7. Len(work') = Cardinality(V)
  BY <1>1, <1>3, <1>4
<1>8. TypeOK'
  <2>1. Cardinality(InThread') + Cardinality(Reading') <= Threads
    BY DEF WorkInv, TypeOK
  <2> QED
    BY <1>5, <1>7, <2>1 DEF TypeOK, State, V
<1> QED
  BY <1>3, <1>6, <1>8 DEF WorkInv, V

\* A sequence is one over any set that has its elements.
LEMMA SeqNarrowed ==
  ASSUME NEW n \in Nat, NEW W, NEW V, NEW s \in [1 .. n -> W], \A k \in 1 .. n : s[k] \in V
  PROVE  s \in Seq(V)
<1>1. s \in [1 .. n -> V]
  OBVIOUS
<1>2. [1 .. n -> V] \subseteq UNION {[1 .. m -> V] : m \in Nat}
  BY Zenon
<1> QED
  BY <1>1, <1>2, SeqDef, Zenon

\* The oldest piece of work gets a thread.
LEMMA PoolAssigns ==
  ASSUME WorkInv, work # << >>, work' = Tail(work), Waiting' = Waiting \ {Head(work)},
         \/ InThread' = InThread \cup {Head(work)} /\ Reading' = Reading
         \/ Reading' = Reading \cup {Head(work)} /\ InThread' = InThread,
         Cardinality(InThread) + Cardinality(Reading) < Threads,
         ex' \in [Executions -> State],
         reader' \in [Readers -> {"idle", "queued", "reading", "read", "answered"}],
         loop' \in {Free} \cup [of : Executions, instr : Instructions]
  PROVE  WorkInv'
<1> DEFINE W == Waiting
           V == Waiting'
           T == InThread
           R == Reading
           TT == InThread'
           RR == Reading'
           n == Len(work)
           h == Head(work)
<1>1. /\ IsFiniteSet(W) /\ IsFiniteSet(T) /\ IsFiniteSet(R)
      /\ work \in Seq(W) /\ n = Cardinality(W)
      /\ \A j, k \in DOMAIN work : work[j] = work[k] => j = k
  BY DEF WorkInv, TypeOK
<1>2. /\ V = W \ {h}
      /\ \/ TT = T \cup {h} /\ RR = R
         \/ RR = R \cup {h} /\ TT = T
      /\ Cardinality(T) + Cardinality(R) < Threads /\ Threads \in Nat
  BY PoolAssumption
<1>3. /\ n \in Nat \ {0} /\ DOMAIN work = 1 .. n /\ h = work[1] /\ h \in W
      /\ Len(work') = n - 1 /\ DOMAIN work' = 1 .. n - 1
      /\ \A k \in 1 .. n - 1 : work'[k] = work[k + 1] /\ work[k + 1] \in W
  <2> HIDE DEF W
  <2> QED
    BY <1>1
<1> HIDE DEF W, V, T, R, TT, RR, h
<1>4. IsFiniteSet(V) /\ Cardinality(V) = Cardinality(W) - 1
  BY <1>1, <1>2, <1>3, FS_RemoveElement
<1>5. /\ IsFiniteSet(TT) /\ IsFiniteSet(RR)
      /\ Cardinality(TT) + Cardinality(RR) <= Threads
  <2>1. /\ Cardinality(T) \in Nat /\ Cardinality(R) \in Nat
        /\ IsFiniteSet(T \cup {h}) /\ IsFiniteSet(R \cup {h})
    BY <1>1, FS_CardinalityType, FS_AddElement
  <2>2. CASE TT = T \cup {h} /\ RR = R
    <3>1. Cardinality(TT) \in {Cardinality(T), Cardinality(T) + 1}
      BY <1>1, <2>2, FS_AddElement
    <3> QED
      BY <1>1, <1>2, <2>1, <2>2, <3>1
  <2>3. CASE RR = R \cup {h} /\ TT = T
    <3>1. Cardinality(RR) \in {Cardinality(R), Cardinality(R) + 1}
      BY <1>1, <2>3, FS_AddElement
    <3> QED
      BY <1>1, <1>2, <2>1, <2>3, <3>1
  <2> QED
    BY <1>2, <2>2, <2>3
<1>6. \A k \in 1 .. n - 1 : work'[k] \in V
  <2> SUFFICES ASSUME NEW k \in 1 .. n - 1 PROVE work'[k] \in V
    OBVIOUS
  <2>1. work'[k] = work[k + 1] /\ work[k + 1] \in W /\ k + 1 \in 1 .. n /\ 1 \in 1 .. n /\ k + 1 # 1
    BY <1>3
  <2>2. work[k + 1] # work[1]
    BY <1>1, <1>3, <2>1
  <2> QED
    BY <1>2, <1>3, <2>1, <2>2
<1>7. work' \in Seq(V)
  <2>1. work' \in Seq(W)
    BY <1>1, <1>3
  <2>2. work' \in [1 .. n - 1 -> W]
    BY <1>3, <2>1, LenProperties
  <2>3. n - 1 \in Nat
    BY <1>3
  <2> QED
    BY <1>6, <2>2, <2>3, SeqNarrowed
<1>8. ASSUME NEW j \in DOMAIN work', NEW k \in DOMAIN work', work'[j] = work'[k] PROVE j = k
  <2>1. j \in 1 .. n - 1 /\ k \in 1 .. n - 1
    BY <1>3
  <2>2. j + 1 \in 1 .. n /\ k + 1 \in 1 .. n /\ work[j + 1] = work[k + 1]
    BY <1>3, <1>8, <2>1
  <2>3. j + 1 = k + 1
    BY <1>1, <1>3, <2>2
  <2> QED
    BY <2>1, <2>3
<1>9. Len(work') = Cardinality(V)
  BY <1>1, <1>3, <1>4
<1>10. TypeOK'
  BY <1>5, <1>7, <1>9 DEF TypeOK, State, V, TT, RR
<1> QED
  BY <1>4, <1>5, <1>8, <1>10 DEF WorkInv, V, TT, RR

-----------------------------------------------------------------------------
(* Type correctness.                                                         *)

\* Nothing waits, runs or reads at the start.
LEMMA WorkInit == Init => WorkInv
<1> SUFFICES ASSUME Init PROVE WorkInv
  OBVIOUS
<1>1. Waiting = {} /\ InThread = {} /\ Reading = {}
  BY DEF Init, Waiting, InThread, Reading, NotStarted
<1>2. IsFiniteSet({}) /\ Cardinality({}) = 0
  BY FS_EmptySet
<1>3. /\ ex \in [Executions -> State]
      /\ reader \in [Readers -> {"idle", "queued", "reading", "read", "answered"}]
      /\ loop = Free /\ work = << >>
  BY PoolAssumption DEF Init, State, NotStarted
<1>4. TypeOK
  BY <1>1, <1>2, <1>3, PoolAssumption DEF TypeOK, State
<1> QED
  BY <1>1, <1>2, <1>3, <1>4 DEF WorkInv

\* A request that blocks the loop is one to a known execution.
LEMMA BlockedBy == ASSUME TypeOK, ~LoopFree
                   PROVE  loop.of \in Executions /\ loop.instr \in Instructions
  BY DEF TypeOK, LoopFree

\* What waits first is an execution in the queue or a reader in it.
LEMMA FirstWaits ==
  ASSUME TypeOK, work # << >>
  PROVE  \/ Head(work) \in Executions /\ ex[Head(work)].phase = "queued"
         \/ Head(work) \in Readers \ Executions /\ reader[Head(work)] = "queued"
<1>1. work \in Seq(Waiting)
  BY DEF TypeOK
<1>2. Head(work) \in Waiting
  <2> HIDE DEF Waiting
  <2> QED
    BY <1>1
<1> QED
  BY <1>2, PoolAssumption DEF Waiting

\* An execution in which only a phase matters to the pool, and is not "queued".
LEMMA PoolSees ==
  ASSUME WorkInv, NEW e \in Executions, Only(e), UNCHANGED <<work, reader>>,
         loop' \in {Free} \cup [of : Executions, instr : Instructions],
         ex[e].phase = "queued" <=> ex'[e].phase = "queued",
         ex'[e].phase \in {"working", "paused", "ending"}
           => ex[e].phase \in {"working", "paused", "ending"}
  PROVE  WorkInv'
<1>0. TypeOK
  BY DEF WorkInv
<1>1. /\ Waiting' = IF ex'[e].phase = "queued" THEN Waiting \cup {e} ELSE Waiting \ {e}
      /\ InThread' = IF ex'[e].phase \in {"working", "paused", "ending"}
                     THEN InThread \cup {e} ELSE InThread \ {e}
      /\ Reading' = Reading
      /\ e \in Waiting <=> ex[e].phase = "queued"
      /\ e \in InThread <=> ex[e].phase \in {"working", "paused", "ending"}
  BY <1>0, PhasesTell
<1>2. ex' \in [Executions -> State]
      /\ reader' \in [Readers -> {"idle", "queued", "reading", "read", "answered"}]
  BY <1>0 DEF Only, TypeOK
<1>3. Waiting' = Waiting /\ InThread' \subseteq InThread
  <2> HIDE DEF Waiting, InThread
  <2> QED
    BY <1>1
<1> QED
  BY <1>1, <1>2, <1>3, PoolKept

\* One case for each action.
LEMMA WorkNext == WorkInv /\ [Next]_vars => WorkInv'
<1> SUFFICES ASSUME WorkInv, [Next]_vars PROVE WorkInv'
  OBVIOUS
<1>0. /\ TypeOK
      /\ loop \in {Free} \cup [of : Executions, instr : Instructions]
      /\ reader \in [Readers -> {"idle", "queued", "reading", "read", "answered"}]
  BY DEF WorkInv, TypeOK
<1>1. ASSUME NEW e \in Executions, Start(e) PROVE WorkInv'
  <2>1. CASE ex' = [ex EXCEPT ![e].phase = "queued"] /\ work' = Append(work, e)
    <3>1. Only(e) /\ ex'[e].phase = "queued" /\ UNCHANGED <<reader, loop>> /\ ex[e].phase = "absent"
      BY <1>0, <1>1, <2>1, PhaseChanges DEF Start
    <3>2. /\ Waiting' = Waiting \cup {e} /\ e \notin Waiting
          /\ InThread' = InThread \ {e} /\ e \notin InThread /\ Reading' = Reading
      BY <1>0, <3>1, PhasesTell
    <3>3. InThread' = InThread
      BY <3>2
    <3> QED
      BY <1>0, <2>1, <3>1, <3>2, <3>3, PoolQueues DEF Only
  <2>2. CASE ex' = [ex EXCEPT ![e].phase = "done", ![e].status = "failed"] /\ UNCHANGED work
    <3>1. /\ Only(e) /\ ex'[e].phase = "done"
          /\ UNCHANGED <<work, reader, loop>> /\ ex[e].phase = "absent"
      BY <1>0, <1>1, <2>2, EndChanges DEF Start
    <3> QED
      BY <1>0, <3>1, PoolSees
  <2> QED
    BY <1>1, <2>1, <2>2 DEF Start
<1>2. ASSUME NEW e \in Executions, Collect(e) PROVE WorkInv'
  <2>1. /\ Only(e) /\ ex'[e].phase = "done"
        /\ UNCHANGED <<work, reader, loop>> /\ ex[e].phase = "returned"
    BY <1>0, <1>2, PhaseChanges DEF Collect
  <2> QED
    BY <1>0, <2>1, PoolSees
<1>3. ASSUME NEW e \in Executions, Thread(e) PROVE WorkInv'
  <2>1. /\ Only(e) /\ UNCHANGED <<work, reader, loop>>
        /\ ex[e].phase \in {"working", "paused", "ending"}
        /\ ex'[e].phase \in {"working", "paused", "ending", "returned"}
    BY <1>0, <1>3, ThreadChanges
  <2> QED
    BY <1>0, <2>1, PoolSees
<1>4. ASSUME NEW e \in Executions, Stop(e) PROVE WorkInv'
  <2>1. Only(e) /\ ex'[e].phase = ex[e].phase /\ UNCHANGED <<work, reader, loop>>
    BY <1>0, <1>4, StopChanges DEF Stop
  <2> QED
    BY <1>0, <2>1, PoolSees
<1>5. ASSUME NEW e \in Executions, NEW i \in Instructions, Resume(e, i) PROVE WorkInv'
  <2>1. CASE ex' = [ex EXCEPT ![e].slot = <<i>>] /\ UNCHANGED loop
    <3>1. Only(e) /\ ex'[e].phase = ex[e].phase /\ UNCHANGED <<work, reader, loop>>
      BY <1>0, <1>5, <2>1, PutChanges DEF Resume
    <3> QED
      BY <1>0, <3>1, PoolSees
  <2>2. CASE loop' = [of |-> e, instr |-> i] /\ UNCHANGED ex
    <3>1. UNCHANGED <<ex, work, reader>>
          /\ loop' \in {Free} \cup [of : Executions, instr : Instructions]
      BY <1>5, <2>2 DEF Resume
    <3>2. Waiting' = Waiting /\ InThread' = InThread /\ Reading' = Reading
      BY <3>1 DEF Waiting, InThread, Reading
    <3> QED
      BY <1>0, <3>1, <3>2, StateType, PoolKept
  <2> QED
    BY <1>5, <2>1, <2>2 DEF Resume
<1>6. CASE PutCompletes
  <2>1. /\ loop.of \in Executions /\ loop.instr \in Instructions
        /\ ex' = [ex EXCEPT ![loop.of].slot = <<loop.instr>>]
        /\ loop' = Free /\ UNCHANGED <<work, reader>>
    BY <1>0, <1>6, BlockedBy DEF PutCompletes
  <2>2. Only(loop.of) /\ ex'[loop.of].phase = ex[loop.of].phase
    BY <1>0, <2>1, PutChanges
  <2> QED
    BY <2>1, <2>2, PoolSees
<1>7. ASSUME NEW r \in Readers, Ask(r) PROVE WorkInv'
  <2>1. /\ ex' = ex /\ UNCHANGED loop /\ reader[r] = "idle" /\ work' = Append(work, r)
        /\ reader' = [reader EXCEPT ![r] = "queued"]
    BY <1>7 DEF Ask
  <2>2. /\ Waiting' = Waiting \cup {r} /\ r \notin Waiting
        /\ Reading' = Reading \ {r} /\ r \notin Reading /\ InThread' = InThread
        /\ reader' \in [Readers -> {"idle", "queued", "reading", "read", "answered"}]
    BY <1>0, <2>1, ReadersTell
  <2>3. Reading' = Reading
    BY <2>2
  <2> QED
    BY <1>0, <2>1, <2>2, <2>3, StateType, PoolQueues
<1>8. ASSUME NEW r \in Readers, ReadFiles(r) \/ Answer(r) PROVE WorkInv'
  <2>1. /\ UNCHANGED <<ex, work, loop>> /\ reader[r] \in {"reading", "read"}
        /\ \E p \in {"read", "answered"} : reader' = [reader EXCEPT ![r] = p]
    BY <1>8 DEF ReadFiles, Answer
  <2>2. PICK p \in {"read", "answered"} : reader' = [reader EXCEPT ![r] = p]
    BY <2>1
  <2>3. /\ Waiting' = Waiting \ {r} /\ r \notin Waiting
        /\ Reading' = Reading \ {r} /\ InThread' = InThread
        /\ reader' \in [Readers -> {"idle", "queued", "reading", "read", "answered"}]
    BY <1>0, <2>1, <2>2, ReadersTell
  <2>4. Waiting' = Waiting /\ Reading' \subseteq Reading
    BY <2>3
  <2> QED
    BY <1>0, <2>1, <2>3, <2>4, StateType, PoolKept
<1>9. CASE Assign
  <2>1. /\ work # << >> /\ work' = Tail(work) /\ UNCHANGED loop
        /\ Cardinality(InThread) + Cardinality(Reading) < Threads
    BY <1>9 DEF Assign
  <2>2. CASE Head(work) \in Executions /\ ex[Head(work)].phase = "queued"
    <3> DEFINE e == Head(work)
    <3>1. e \in Executions /\ ex' = [ex EXCEPT ![e].phase = "working"] /\ UNCHANGED reader
      BY <1>9, <2>2 DEF Assign
    <3> HIDE DEF e
    <3>2. Only(e) /\ ex'[e].phase = "working"
      BY <1>0, <3>1, PhaseChanges
    <3>3. Waiting' = Waiting \ {e} /\ InThread' = InThread \cup {e} /\ Reading' = Reading
      BY <1>0, <3>1, <3>2, PhasesTell
    <3> QED
      BY <1>0, <2>1, <3>1, <3>2, <3>3, PoolAssigns DEF Only, e
  <2>3. CASE Head(work) \in Readers \ Executions /\ reader[Head(work)] = "queued"
    <3> DEFINE r == Head(work)
    <3>1. r \in Readers /\ reader' = [reader EXCEPT ![r] = "reading"] /\ UNCHANGED ex
      BY <1>9, <2>3 DEF Assign
    <3> HIDE DEF r
    <3>2. /\ Waiting' = Waiting \ {r} /\ Reading' = Reading \cup {r} /\ InThread' = InThread
          /\ reader' \in [Readers -> {"idle", "queued", "reading", "read", "answered"}]
      BY <1>0, <3>1, ReadersTell
    <3> QED
      BY <1>0, <2>1, <3>1, <3>2, StateType, PoolAssigns DEF r
  <2> QED
    BY <1>0, <2>1, <2>2, <2>3, FirstWaits
<1>10. CASE UNCHANGED vars
  <2>1. UNCHANGED <<ex, work, reader, loop>>
    BY <1>10 DEF vars
  <2>2. Waiting' = Waiting /\ InThread' = InThread /\ Reading' = Reading
    BY <2>1 DEF Waiting, InThread, Reading
  <2> QED
    BY <1>0, <2>1, <2>2, StateType, PoolKept
<1> QED
  BY <1>1, <1>2, <1>3, <1>4, <1>5, <1>6, <1>7, <1>8, <1>9, <1>10 DEF Next

\* The pool never runs more than it has threads, and its queue holds exactly
\* what waits for one, each once (to_thread, FileResponse).
THEOREM TypeCorrect == Spec => []TypeOK
<1>1. WorkInv => TypeOK
  BY DEF WorkInv
<1> QED
  BY WorkInit, WorkNext, <1>1, PTL DEF Spec

-----------------------------------------------------------------------------
(* Every execution keeps the contract.                                       *)

\* Each starts as the contract does.
LEMMA ContractInit == Init => \A e \in Executions : Contract(e)!Init
  BY DEF Init, NotStarted, Contract!Init, Phase

\* A step of one execution is none of the others.
LEMMA OthersKeep ==
  ASSUME NEW e \in Executions, Only(e), Contract(e)!Next \/ UNCHANGED Contract(e)!vars
  PROVE  \A f \in Executions : Contract(f)!Next \/ UNCHANGED Contract(f)!vars
<1> SUFFICES ASSUME NEW f \in Executions, f # e PROVE UNCHANGED Contract(f)!vars
  OBVIOUS
<1>1. ex'[f] = ex[f]
  BY DEF Only
<1>2. Phase(f)' = Phase(f)
  BY <1>1 DEF Phase
<1> QED
  BY <1>1, <1>2 DEF Contract!vars

\* A thread does what the contract says, in the same words.
LEMMA ThreadKeeps ==
  ASSUME TypeOK, NEW e \in Executions, Thread(e)
  PROVE  Contract(e)!Next
<1>0. ex[e] \in State /\ Phase(e) = ex[e].phase
  BY StateType, ThreadChanges DEF Phase
<1>1. Phase(e)' = ex'[e].phase
  BY ThreadChanges DEF Phase
<1>2. CASE LateStep(e)
  <2>1. Contract(e)!LateStep
    BY <1>0, <1>1, <1>2, LateStepChanges DEF LateStep, Contract!LateStep
  <2> QED
    BY <2>1 DEF Contract!Next, Contract!Execution
<1>3. CASE Pause(e)
  <2>1. Contract(e)!Pause
    BY <1>0, <1>1, <1>3, PauseChanges DEF Pause, Seen, Contract!Pause
  <2> QED
    BY <2>1 DEF Contract!Next, Contract!Execution
<1>4. CASE Wake(e)
  <2>1. PICK i \in Instructions : ex[e].slot = <<i>>
    BY <1>0, <1>4 DEF Wake, State
  <2>2. Head(ex[e].slot) = i /\ Tail(ex[e].slot) = << >>
    BY <2>1
  <2>3. ex'[e].phase \in Contract(e)!Leads(i)
    BY <1>4, <2>2, WakeChanges, InstructionsAssumption DEF Contract!Leads
  <2>4. Contract(e)!Take
    BY <1>0, <1>1, <1>4, <2>2, <2>3, WakeChanges DEF Wake, Contract!Take
  <2> QED
    BY <2>4 DEF Contract!Next, Contract!Execution
<1>5. CASE TimeOut(e)
  <2>1. ex[e].phase = "paused" /\ ex[e].slot = << >> /\ ex'[e].phase = "ending" /\ Seen(ex'[e]) = Seen(ex[e])
    BY <1>5, PhaseChanges DEF TimeOut
  <2>2. Contract(e)!TimeOut
    BY <1>0, <1>1, <2>1 DEF Seen, Contract!TimeOut
  <2> QED
    BY <2>2 DEF Contract!Next, Contract!Execution
<1>6. CASE Obey(e)
  <2>1. ex[e].phase = "working" /\ ex[e].stopped /\ ex'[e].phase = "ending" /\ Seen(ex'[e]) = Seen(ex[e])
    BY <1>6, PhaseChanges DEF Obey
  <2>2. Contract(e)!Obey
    BY <1>0, <1>1, <2>1 DEF Seen, Contract!Obey
  <2> QED
    BY <2>2 DEF Contract!Next, Contract!Execution
<1>7. CASE Return(e)
  <2>1. PICK t \in {"completed", "failed", "cancelled"} :
           /\ ex' = [ex EXCEPT ![e].phase = "returned", ![e].status = t]
           /\ \/ ex[e].phase = "working" /\ t \in {"completed", "failed"}
              \/ ex[e].phase = "ending" /\ t = "cancelled"
    BY <1>7 DEF Return
  <2>2. Contract(e)!Return
    BY <1>0, <1>1, <2>1, EndChanges DEF Contract!Return
  <2> QED
    BY <2>2 DEF Contract!Next, Contract!Execution
<1> QED
  BY <1>2, <1>3, <1>4, <1>5, <1>6, <1>7 DEF Thread

\* An instruction goes into an empty slot and nowhere else.
LEMMA PutKeeps ==
  ASSUME TypeOK, NEW e \in Executions, NEW i \in Instructions,
         ex[e].slot = << >>, ex' = [ex EXCEPT ![e].slot = <<i>>]
  PROVE  Only(e) /\ Contract(e)!Next
<1>1. /\ Only(e) /\ ex'[e].phase = ex[e].phase /\ ex'[e].slot = <<i>>
      /\ ex'[e].stopped = ex[e].stopped /\ ex'[e].late = ex[e].late /\ ex'[e].status = ex[e].status
  BY PutChanges
<1>2. Phase(e)' = Phase(e)
  BY <1>1 DEF Phase
<1>3. Contract(e)!Offer(i)
  BY <1>1, <1>2 DEF Contract!Offer
<1> QED
  BY <1>1, <1>3 DEF Contract!Next, Contract!Developer

\* One case for each action: what a thread, a stop or a put does is a step of
\* the contract, and the pool and the loop do nothing it could see.
LEMMA ContractNext ==
  TypeOK /\ [Next]_vars
    => \A e \in Executions : Contract(e)!Next \/ UNCHANGED Contract(e)!vars
<1> DEFINE Kept == \A e \in Executions : Contract(e)!Next \/ UNCHANGED Contract(e)!vars
<1> SUFFICES ASSUME TypeOK, [Next]_vars PROVE Kept
  OBVIOUS
<1> HIDE DEF Kept
<1>0. ASSUME UNCHANGED ex PROVE Kept
  BY <1>0 DEF Kept, Contract!vars, Phase
<1>01. ASSUME NEW e \in Executions, Only(e), Contract(e)!Next \/ UNCHANGED Contract(e)!vars PROVE Kept
  BY <1>01, OthersKeep DEF Kept
<1>1. ASSUME NEW e \in Executions, Start(e) PROVE Kept
  <2>0. ex[e].phase = "absent"
    BY <1>1 DEF Start
  <2>1. CASE ex' = [ex EXCEPT ![e].phase = "queued"]
    <3>1. Only(e) /\ ex'[e].phase = "queued" /\ Seen(ex'[e]) = Seen(ex[e])
      BY <2>1, PhaseChanges
    <3>2. UNCHANGED Contract(e)!vars
      BY <2>0, <3>1 DEF Seen, Phase, Contract!vars
    <3> QED
      BY <1>01, <3>1, <3>2
  <2>2. CASE ex' = [ex EXCEPT ![e].phase = "done", ![e].status = "failed"]
    <3>1. /\ Only(e) /\ ex'[e].phase = "done" /\ ex'[e].status = "failed"
          /\ ex'[e].slot = ex[e].slot /\ ex'[e].stopped = ex[e].stopped /\ ex'[e].late = ex[e].late
      BY <2>2, EndChanges
    <3>2. Contract(e)!Return
      BY <2>0, <3>1 DEF Phase, Contract!Return
    <3> QED
      BY <1>01, <3>1, <3>2 DEF Contract!Next, Contract!Execution
  <2> QED
    BY <1>1, <2>1, <2>2 DEF Start
<1>2. ASSUME NEW e \in Executions, Collect(e) PROVE Kept
  <2>1. /\ Only(e) /\ ex[e].phase = "returned" /\ ex'[e].phase = "done"
        /\ Seen(ex'[e]) = Seen(ex[e])
    BY <1>2, PhaseChanges DEF Collect
  <2>2. UNCHANGED Contract(e)!vars
    BY <2>1 DEF Seen, Phase, Contract!vars
  <2> QED
    BY <1>01, <2>1, <2>2
<1>3. ASSUME NEW e \in Executions, Thread(e) PROVE Kept
  BY <1>01, <1>3, ThreadChanges, ThreadKeeps
<1>4. ASSUME NEW e \in Executions, Stop(e) PROVE Kept
  <2>1. /\ Only(e) /\ ex'[e].phase = ex[e].phase /\ ex'[e].stopped = TRUE
        /\ ex'[e].slot = ex[e].slot /\ ex'[e].late = ex[e].late /\ ex'[e].status = ex[e].status
    BY <1>4, StopChanges DEF Stop
  <2>2. Contract(e)!Stop
    BY <2>1 DEF Phase, Contract!Stop
  <2> QED
    BY <1>01, <2>1, <2>2 DEF Contract!Next, Contract!Developer
<1>5. ASSUME NEW e \in Executions, NEW i \in Instructions, Resume(e, i) PROVE Kept
  BY <1>0, <1>01, <1>5, PutKeeps DEF Resume
<1>6. CASE PutCompletes
  <2>1. /\ loop.of \in Executions /\ loop.instr \in Instructions /\ ex[loop.of].slot = << >>
        /\ ex' = [ex EXCEPT ![loop.of].slot = <<loop.instr>>]
    BY <1>6, BlockedBy DEF PutCompletes
  <2> QED
    BY <1>01, <2>1, PutKeeps
<1>7. ASSUME NEW r \in Readers, Ask(r) \/ ReadFiles(r) \/ Answer(r) PROVE Kept
  BY <1>0, <1>7 DEF Ask, ReadFiles, Answer
<1>8. CASE Assign
  <2>1. CASE UNCHANGED ex
    BY <1>0, <2>1
  <2>2. CASE Head(work) \in Executions /\ ex' = [ex EXCEPT ![Head(work)].phase = "working"]
    <3>1. PICK e \in Executions : e = Head(work)
      BY <2>2
    <3>2. ex[e].phase = "queued" /\ ex' = [ex EXCEPT ![e].phase = "working"]
      BY <1>8, <2>2, <3>1, FirstWaits DEF Assign
    <3>3. Only(e) /\ ex'[e].phase = "working" /\ Seen(ex'[e]) = Seen(ex[e])
      BY <3>2, PhaseChanges
    <3>4. UNCHANGED Contract(e)!vars
      BY <3>2, <3>3 DEF Seen, Phase, Contract!vars
    <3> QED
      BY <1>01, <3>2, <3>3, <3>4
  <2> QED
    BY <1>8, <2>1, <2>2 DEF Assign
<1>9. CASE UNCHANGED vars
  BY <1>0, <1>9 DEF vars
<1> QED
  BY <1>1, <1>2, <1>3, <1>4, <1>5, <1>6, <1>7, <1>8, <1>9 DEF Next

\* However many executions share the pool and whatever blocks the loop, each of
\* them starts and steps as RunContract says: an instruction ends one pause, a
\* stop lets one more step begin, "cancelled" is returned after an end that was
\* asked for (execute_workflow, resume_execution, cancel_execution).
THEOREM ContractsKept == Spec => KeepContracts
  BY ContractInit, ContractNext, TypeCorrect, PTL DEF Spec, KeepContracts

-----------------------------------------------------------------------------
(* The resume that blocks the loop.                                          *)

\* The execution it waits for is paused, with an instruction to take, or has
\* taken it.
HeardInv ==
  Careful /\ ~LoopFree => ex[loop.of].slot = << >> \/ ex[loop.of].phase = "paused"

\* Nothing but threads, files and the pool goes on while the loop is blocked, and
\* none of them makes an execution leave a pause with an instruction in its slot.
LEMMA HeardNext == TypeOK /\ HeardInv /\ [Next]_vars => HeardInv'
<1> SUFFICES ASSUME TypeOK, HeardInv, [Next]_vars, Careful = TRUE, ~LoopFree'
             PROVE  ex'[loop'.of].slot = << >> \/ ex'[loop'.of].phase = "paused"
  BY PoolAssumption DEF HeardInv
\* The step that blocks it.
<1>1. CASE LoopFree
  <2>1. PICK e \in Executions, i \in Instructions :
          Resume(e, i) /\ ex[e].slot # << >> /\ loop' = [of |-> e, instr |-> i] /\ ex' = ex
    <3>1. loop' # loop
      BY <1>1 DEF LoopFree
    <3>2. ~PutCompletes /\ ~Assign /\ ~UNCHANGED vars
      BY <1>1, <3>1 DEF PutCompletes, Assign, vars
    <3>3. \A r \in Readers : ~Ask(r) /\ ~ReadFiles(r) /\ ~Answer(r)
      BY <3>1 DEF Ask, ReadFiles, Answer
    <3>4. \A e \in Executions : ~Start(e) /\ ~Collect(e) /\ ~Thread(e) /\ ~Stop(e)
      BY <3>1 DEF Start, Collect, Thread, Stop
    <3>5. PICK e \in Executions, i \in Instructions : Resume(e, i)
      BY <3>2, <3>3, <3>4 DEF Next
    <3>6. ex[e].slot # << >> /\ loop' = [of |-> e, instr |-> i] /\ ex' = ex
      BY <3>1, <3>5 DEF Resume
    <3> QED
      BY <3>5, <3>6
  <2>2. ex[e].phase = "paused" /\ loop'.of = e
    BY <2>1 DEF Resume
  <2> QED
    BY <2>1, <2>2
\* The steps while it is blocked.
<1>2. CASE ~LoopFree
  <2> DEFINE b == loop.of
  <2>1. b \in Executions /\ (ex[b].slot = << >> \/ ex[b].phase = "paused")
    BY <1>2, BlockedBy, PoolAssumption DEF HeardInv
  <2>2. ASSUME UNCHANGED <<ex, loop>>
        PROVE  ex'[loop'.of].slot = << >> \/ ex'[loop'.of].phase = "paused"
    BY <2>1, <2>2
  <2>3. ASSUME NEW e \in Executions, Thread(e)
        PROVE  ex'[loop'.of].slot = << >> \/ ex'[loop'.of].phase = "paused"
    <3>1. Only(e) /\ loop' = loop
      BY <2>3, ThreadChanges
    <3>2. CASE e # b
      BY <2>1, <3>1, <3>2 DEF Only
    <3>3. CASE e = b
      <4>1. CASE LateStep(e)
        BY <2>1, <3>1, <3>3, <4>1, LateStepChanges
      <4>2. CASE Pause(e)
        BY <2>1, <3>1, <3>3, <4>2, PauseChanges
      <4>3. CASE Wake(e)
        BY <2>1, <3>1, <3>3, <4>3, WakeChanges
      <4>4. CASE TimeOut(e) \/ Obey(e) \/ Return(e)
        <5>1. ex[e].slot = << >>
          BY <2>1, <3>3, <4>4 DEF TimeOut, Obey, Return
        <5>2. ex'[e].slot = ex[e].slot
          <6>1. CASE TimeOut(e) \/ Obey(e)
            <7>1. ex' = [ex EXCEPT ![e].phase = "ending"]
              BY <6>1 DEF TimeOut, Obey
            <7>2. Seen(ex'[e]) = Seen(ex[e])
              BY <2>3, <7>1, PhaseChanges
            <7> QED
              BY <7>2 DEF Seen
          <6>2. CASE Return(e)
            <7>1. PICK t \in {"completed", "failed", "cancelled"} :
                    ex' = [ex EXCEPT ![e].phase = "returned", ![e].status = t]
              BY <6>2 DEF Return
            <7> QED
              BY <2>3, <7>1, EndChanges
          <6> QED
            BY <4>4, <6>1, <6>2
        <5> QED
          BY <3>1, <3>3, <5>1, <5>2
      <4> QED
        BY <2>3, <4>1, <4>2, <4>3, <4>4 DEF Thread
    <3> QED
      BY <3>2, <3>3
  <2>4. CASE Assign
    <3>1. work # << >> /\ loop' = loop
      BY <2>4 DEF Assign
    <3>2. CASE Head(work) \in Executions /\ ex[Head(work)].phase = "queued"
      <4> DEFINE e == Head(work)
      <4>1. e \in Executions /\ ex' = [ex EXCEPT ![e].phase = "working"] /\ ex[e].phase = "queued"
        BY <2>4, <3>2 DEF Assign
      <4> HIDE DEF e
      <4>2. Only(e) /\ Seen(ex'[e]) = Seen(ex[e])
        BY <4>1, PhaseChanges
      <4>3. ex'[e].slot = ex[e].slot
        BY <4>2 DEF Seen
      <4>4. e = b => ex[b].slot = << >>
        BY <2>1, <4>1
      <4> QED
        BY <2>1, <3>1, <4>2, <4>3, <4>4 DEF Only
    <3>3. CASE Head(work) \in Readers \ Executions /\ reader[Head(work)] = "queued"
      <4>1. ex' = ex
        BY <2>4, <3>3 DEF Assign
      <4> QED
        BY <2>2, <3>1, <4>1
    <3> QED
      BY <3>1, <3>2, <3>3, FirstWaits
  <2>5. ~PutCompletes
    BY DEF PutCompletes, LoopFree
  <2>6. ASSUME NEW r \in Readers, ReadFiles(r)
        PROVE  ex'[loop'.of].slot = << >> \/ ex'[loop'.of].phase = "paused"
    BY <2>2, <2>6 DEF ReadFiles
  <2>7. /\ \A e \in Executions : ~Start(e) /\ ~Collect(e) /\ ~Stop(e) /\ \A i \in Instructions : ~Resume(e, i)
        /\ \A r \in Readers : ~Ask(r) /\ ~Answer(r)
    BY <1>2 DEF Start, Collect, Stop, Resume, Ask, Answer
  <2>8. CASE UNCHANGED vars
    BY <2>2, <2>8 DEF vars
  <2> QED
    BY <2>3, <2>4, <2>5, <2>6, <2>7, <2>8 DEF Next
<1> QED
  BY <1>1, <1>2

\* As long as nobody sends an instruction ahead of a pause that already has one, a
\* resume request that blocks the loop waits for a paused execution which has an
\* instruction to take, or can go on at once: the thread it waits for is never
\* one that needs the loop, or the pool, to go on.
THEOREM BlockedLoopIsHeard ==
  Spec => [](Careful /\ ~LoopFree => ex[loop.of].slot = << >> \/ ex[loop.of].phase = "paused")
<1>1. Init => HeardInv
  BY DEF Init, HeardInv, LoopFree
<1> QED
  BY <1>1, HeardNext, TypeCorrect, PTL DEF Spec, HeardInv

=============================================================================
