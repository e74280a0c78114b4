------------------------- MODULE ExecutorRowsProofs -------------------------
(***************************************************************************)
(* What the rows of an execution say about the course it took, for every   *)
(* set of workflows and instructions and every bound: theorems about       *)
(* Executor that follow the order of the steps.                            *)
(***************************************************************************)
EXTENDS ExecutorProofs

Ended == {"cleanup", "closing", "returned", "done"}

\* The last row is of the step at i, with this status.
LastRow(status, i) ==
  /\ results # << >>
  /\ results[Len(results)].step = i /\ results[Len(results)].status = status

\* A row is of a step.
LEMMA RowAt ==
  ASSUME NEW rows \in Rows, NEW k \in DOMAIN rows
  PROVE  rows[k].step \in Int /\ rows[k].output \in Nat
<1> DEFINE R == [step : Int, status : {"passed", "failed"}, output : Nat]
<1>1. \A r \in R : r.step \in Int /\ r.output \in Nat
  OBVIOUS
<1>2. rows \in Seq(R)
  BY DEF Rows
<1> HIDE DEF R
<1>3. rows[k] \in R
  BY <1>2
<1> QED
  BY <1>1, <1>3

\* What a row appended at this step leaves.
LEMMA Appended ==
  ASSUME TypeOK, NEW status \in {"passed", "failed"}, NEW output \in Nat,
         results' = Append(results, Row(status, output))
  PROVE  /\ results \in Rows /\ results' \in Rows /\ results' # << >>
         /\ Len(results') = Len(results) + 1 /\ Len(results) \in Nat
         /\ DOMAIN results = 1 .. Len(results) /\ DOMAIN results' = 1 .. Len(results) + 1
         /\ \A k \in DOMAIN results : results'[k] = results[k]
         /\ results'[Len(results')].step = step_idx
         /\ results'[Len(results')].status = status
         /\ results'[Len(results')].output = output
<1>1. results \in Rows /\ results' \in Rows
  BY RowType DEF TypeOK
<1> DEFINE row == Row(status, output)
<1>2. row.step = step_idx /\ row.status = status /\ row.output = output
  BY DEF Row
<1>3. results' = Append(results, row)
  OBVIOUS
<1> HIDE DEF row
<1>4. /\ Len(results) \in Nat /\ Len(results') = Len(results) + 1
      /\ DOMAIN results = 1 .. Len(results) /\ DOMAIN results' = 1 .. Len(results) + 1
      /\ \A k \in 1 .. Len(results) : results'[k] = results[k]
      /\ results'[Len(results) + 1] = row
  BY <1>1, <1>3 DEF Rows
<1>5. results' # << >>
  BY <1>4
<1> QED
  BY <1>1, <1>2, <1>4, <1>5

\* A step that passes appends one row, whatever its kind.
LEMMA PassAppends ==
  ASSUME StepPasses
  PROVE  \E output \in Nat : results' = Append(results, Row("passed", output))
<1>1. CASE Step.kind \notin {"conditional", "loop"}
  BY <1>1 DEF StepPasses
<1>2. CASE Step.kind = "conditional"
  BY <1>2 DEF StepPasses
<1>3. CASE Step.kind = "loop"
  BY <1>3, BoundsAssumption DEF StepPasses
<1> QED
  BY <1>1, <1>2, <1>3

-----------------------------------------------------------------------------
(* The look-ahead.                                                           *)

\* The step of the last row is followed by a wait, and is none itself.
ArmedByLast ==
  results # << >> /\ pc \notin Ended =>
    LET j == results[Len(results)].step
    IN  InRange(wf, j) /\ StepAt(wf, j).kind # "wait" /\ NextIsWait(wf, j) => monitoring

\* A step that is followed by a wait has the monitor running while it runs, and
\* from its row to the next one.
ArmedInv ==
  /\ pc = "step" \/ pause_kind = "paused_handoff" => (NextIsWait(wf, step_idx) => monitoring)
  /\ pause_kind = "paused_handoff" => Step.kind = "handoff"
  /\ ArmedByLast

\* The outcomes of a step, handoffs and pauses keep or renew what the look-ahead did.
LEMMA ArmedNext == TypeOK /\ ArmedInv /\ [Next]_vars => ArmedInv'
<1> SUFFICES ASSUME TypeOK, ArmedInv, [Next]_vars PROVE ArmedInv'
  OBVIOUS
<1> USE DEF program, counts, outcome, pausing, browser, signals, budget
<1>1. ASSUME UNCHANGED <<wf, results>>, monitoring => monitoring', pc \in Ended => pc' \in Ended
      PROVE  ArmedByLast'
  BY <1>1 DEF ArmedInv, ArmedByLast, InRange, NumSteps, StepAt, NextIsWait
<1>2. ASSUME NEW status \in {"passed", "failed"}, NEW output \in Nat, wf' = wf,
             results' = Append(results, Row(status, output)),
             Step.kind # "wait" /\ NextIsWait(wf, step_idx) => monitoring'
      PROVE  ArmedByLast'
  <2>1. results'[Len(results')].step = step_idx
    BY <1>2, Appended
  <2> QED
    BY <1>2, <2>1 DEF ArmedByLast, InRange, NumSteps, StepAt, NextIsWait, Step
<1>3. CASE SetUp \/ LoopExit \/ IndexFault \/ CheckCancel \/ LookaheadFault \/ TearDown \/ Unregister
  <2>1. /\ UNCHANGED <<wf, results, pause_kind, step_idx>> /\ pc' # "step"
        /\ pc \in Ended => pc' \in Ended
        /\ pc' \in Ended \/ monitoring' = monitoring
        /\ pc \notin {"paused", "woken"}
    BY <1>3 DEF SetUp, CreateDriver, SetupDriver, LoopExit, IndexFault, CheckCancel,
       LookaheadFault, TearDown, Cleanup, CloseDriver, Unregister, Leave, Ended
  <2>2. pause_kind' # "paused_handoff"
    BY <2>1 DEF TypeOK
  <2>3. ArmedByLast'
    BY <1>1, <2>1 DEF ArmedByLast
  <2> QED
    BY <2>1, <2>2, <2>3 DEF ArmedInv
<1>4. CASE CheckPause
  <2>1. /\ UNCHANGED <<wf, results, step_idx, monitoring>> /\ pc' # "step"
        /\ pc \notin Ended /\ pause_kind' # "paused_handoff"
    BY <1>4 DEF CheckPause, BeginPause, TypeOK, Ended
  <2> QED
    BY <1>1, <2>1 DEF ArmedInv
<1>5. CASE DispatchHandoff \/ DispatchStep
  <2>1. /\ UNCHANGED <<wf, results, step_idx>> /\ monitoring' = (monitoring \/ NextIsWait(wf, step_idx))
        /\ pc \notin Ended
        /\ pause_kind' = "paused_handoff" => Step.kind = "handoff"
    BY <1>5 DEF DispatchHandoff, DispatchStep, BeginPause, Lookahead, TypeOK, Ended
  <2>2. ArmedByLast'
    BY <1>1, <2>1
  <2> QED
    BY <2>1, <2>2 DEF ArmedInv, NextIsWait, NumSteps, StepAt, Step
<1>6. CASE StepPasses
  <2>1. PICK output \in Nat : results' = Append(results, Row("passed", output))
    BY <1>6, PassAppends
  <2>2. /\ wf' = wf /\ pause_kind' = pause_kind /\ pc = "step" /\ pc' = "top"
        /\ Step.kind # "wait" => monitoring' = monitoring
    BY <1>6 DEF StepPasses, MonitorAfter, EndRound
  <2>3. pause_kind' = "none"
    BY <2>2 DEF TypeOK
  <2>4. ArmedByLast'
    BY <1>2, <2>1, <2>2 DEF ArmedInv
  <2> QED
    BY <2>2, <2>3, <2>4 DEF ArmedInv
<1>7. CASE StepFailsAndPauses \/ StepFailsAndStops \/ StepFailsAndContinues
  <2>1. /\ wf' = wf /\ pc = "step" /\ pc' # "step"
        /\ results' = Append(results, Row("failed", 0))
        /\ Step.kind # "wait" => monitoring' = monitoring
        /\ pause_kind' \in {"paused_error", pause_kind}
    BY <1>7 DEF StepFailsAndPauses, StepFailsAndStops, StepFailsAndContinues, CountFailure,
       MonitorAfter, EndRound, BeginPause
  <2>2. pause_kind' # "paused_handoff"
    BY <2>1 DEF TypeOK
  <2>3. ArmedByLast'
    BY <1>2, <2>1 DEF ArmedInv
  <2> QED
    BY <2>1, <2>2, <2>3 DEF ArmedInv
<1>8. CASE Wake \/ PauseTimeout
  <2>1. /\ UNCHANGED <<wf, results, monitoring, step_idx, pause_kind>> /\ pc' = "woken" /\ pc = "paused"
    BY <1>8 DEF Wake, PauseTimeout
  <2>2. ArmedByLast'
    BY <1>1, <2>1 DEF Ended
  <2> QED
    BY <2>1, <2>2 DEF ArmedInv, NextIsWait, NumSteps, StepAt, Step
<1>9. CASE ResumeAborts
  <2>1. pc' \in Ended /\ pc' # "step" /\ pause_kind' = "none"
    BY <1>9 DEF ResumeAborts, Leave, EndPause, Ended
  <2> QED
    BY <2>1 DEF ArmedInv, ArmedByLast
<1>10. CASE ResumeProceeds
  <2>1. /\ UNCHANGED <<wf, monitoring>> /\ pc = "woken" /\ pc' = "top" /\ pause_kind' = "none"
        /\ \/ results' = results
           \/ pause_kind = "paused_handoff" /\ results' = Append(results, Row("passed", 0))
    BY <1>10 DEF ResumeProceeds, EndPause
  <2>2. ArmedByLast'
    BY <1>1, <1>2, <2>1 DEF Ended, ArmedInv
  <2> QED
    BY <2>1, <2>2 DEF ArmedInv
<1>11. CASE Developer \/ PutCompletes \/ UNCHANGED vars
  <2>1. UNCHANGED <<wf, results, monitoring, step_idx, pause_kind, pc>>
    BY <1>11 DEF Developer, Stop, RequestPause, Resume, PutCompletes, vars
  <2>2. ArmedByLast'
    BY <1>1, <2>1
  <2> QED
    BY <2>1, <2>2 DEF ArmedInv, NextIsWait, NumSteps, StepAt, Step
<1> QED
  BY <1>3, <1>4, <1>5, <1>6, <1>7, <1>8, <1>9, <1>10, <1>11
  DEF Next, Thread, LoopHead, Dispatch, Outcome, Pause, OnLoop, Terminated

\* A wait step that follows the step which triggers its download or response
\* finds the monitor running, in every workflow.
THEOREM WaitsAreArmed == Spec => []ArmedAfterTrigger
<1>1. Init => ArmedInv
  BY DEF Init, ArmedInv, ArmedByLast
<1>2. TypeOK /\ ArmedInv => ArmedAfterTrigger
  <2> SUFFICES ASSUME TypeOK, ArmedInv, pc = "step", Step.kind = "wait", TriggeredBy(step_idx)
               PROVE  monitoring
    BY DEF ArmedAfterTrigger
  <2>1. step_idx \in Int /\ InRange(wf, step_idx) /\ NumSteps(wf) \in Nat
    BY DEF TypeOK, Workflow, NumSteps
  <2>2. NextIsWait(wf, step_idx - 1)
    BY <2>1 DEF NextIsWait, InRange, Step
  <2> QED
    BY <2>2 DEF ArmedInv, ArmedByLast, TriggeredBy, Ended
<1> QED
  BY <1>1, <1>2, TypeCorrect, ArmedNext, PTL DEF Spec

-----------------------------------------------------------------------------
(* Retries.                                                                  *)

\* The failures that no later row of the same step makes good.
Unresolved(rows) ==
  {k \in DOMAIN rows : /\ rows[k].status = "failed"
                       /\ ~\E j \in DOMAIN rows : /\ j > k /\ rows[j].status = "passed"
                                                  /\ rows[j].step = rows[k].step}

\* While no pause has been requested, a retry follows its failure at once, so
\* that each failure which is un-counted is made good by that very row.
RetryInv ==
  /\ pc = "step" => Step.kind # "handoff"
  /\ pause_kind = "paused_error" => ~retrying
  /\ pauses = 0 =>
       /\ ~pause_requested /\ pause_kind # "paused_requested"
       /\ (retrying \/ pause_kind = "paused_error") /\ pc \notin Ended =>
            LastRow("failed", step_idx) /\ Step.kind # "handoff"
       /\ cancelled \/ Cardinality(Unresolved(results)) <= failed

\* There are finitely many.
LEMMA UnresolvedFinite ==
  ASSUME NEW rows \in Rows
  PROVE  IsFiniteSet(Unresolved(rows)) /\ Cardinality(Unresolved(rows)) \in Nat
<1>1. DOMAIN rows = 1 .. Len(rows) /\ Len(rows) \in Nat
  BY DEF Rows
<1>2. IsFiniteSet(1 .. Len(rows))
  BY <1>1, FS_Interval
<1>3. Unresolved(rows) \in SUBSET (1 .. Len(rows))
  BY <1>1 DEF Unresolved
<1> QED
  BY <1>2, <1>3, FS_Subset, FS_CardinalityType

\* An element more adds at most one.
LEMMA AddsAtMostOne ==
  ASSUME NEW S, IsFiniteSet(S), NEW x
  PROVE  IsFiniteSet(S \cup {x}) /\ Cardinality(S \cup {x}) <= Cardinality(S) + 1
<1> DEFINE T == S \cup {x}
<1>1. /\ IsFiniteSet(T) /\ Cardinality(S) \in Nat
      /\ Cardinality(T) = IF x \in S THEN Cardinality(S) ELSE Cardinality(S) + 1
  BY FS_AddElement, FS_CardinalityType
<1> HIDE DEF T
<1>2. IsFiniteSet(T) /\ Cardinality(T) <= Cardinality(S) + 1
  BY <1>1
<1> QED
  BY <1>2 DEF T

\* A failure adds one; a pass adds none, and makes the row before it good if that
\* is a failure of the same step.
LEMMA UnresolvedStep ==
  ASSUME TypeOK, NEW status \in {"passed", "failed"}, NEW output \in Nat,
         results' = Append(results, Row(status, output))
  PROVE  LET U == Unresolved(results)
             V == Unresolved(results')
         IN  /\ Cardinality(U) \in Nat /\ Cardinality(V) \in Nat
             /\ status = "failed" => Cardinality(V) <= Cardinality(U) + 1
             /\ status = "passed" => Cardinality(V) <= Cardinality(U)
             /\ status = "passed" /\ LastRow("failed", step_idx) => Cardinality(V) <= Cardinality(U) - 1
<1> DEFINE U == Unresolved(results)
           V == Unresolved(results')
           n == Len(results)
<1>1. /\ results \in Rows /\ results' \in Rows /\ n \in Nat /\ Len(results') = n + 1
      /\ DOMAIN results = 1 .. n /\ DOMAIN results' = 1 .. n + 1
      /\ \A k \in 1 .. n : results'[k] = results[k]
      /\ results'[n + 1].step = step_idx /\ results'[n + 1].status = status
  BY Appended
<1>2. IsFiniteSet(U) /\ Cardinality(U) \in Nat /\ Cardinality(V) \in Nat
  BY <1>1, UnresolvedFinite
<1>3. V \subseteq U \cup {n + 1}
  BY <1>1 DEF Unresolved
<1>4. status = "failed" => Cardinality(V) <= Cardinality(U) + 1
  <2>1. IsFiniteSet(U \cup {n + 1}) /\ Cardinality(U \cup {n + 1}) <= Cardinality(U) + 1
    BY <1>2, AddsAtMostOne
  <2>2. Cardinality(U \cup {n + 1}) \in Nat /\ Cardinality(V) <= Cardinality(U \cup {n + 1})
    BY <1>3, <2>1, FS_Subset, FS_CardinalityType
  <2> QED
    BY <1>2, <2>1, <2>2
<1>5. status = "passed" => Cardinality(V) <= Cardinality(U)
  <2>1. status = "passed" => V \subseteq U
    BY <1>1, <1>3 DEF Unresolved
  <2> QED
    BY <1>2, <2>1, FS_Subset
<1>6. ASSUME status = "passed", LastRow("failed", step_idx) PROVE Cardinality(V) <= Cardinality(U) - 1
  <2>1. n \in 1 .. n /\ results[n].status = "failed" /\ results[n].step = step_idx
    BY <1>1, <1>6 DEF LastRow
  <2>2. n \in U
    BY <1>1, <2>1 DEF Unresolved
  <2>3. n \notin V /\ n + 1 \notin V
    BY <1>1, <1>6, <2>1 DEF Unresolved
  <2>4. V \subseteq U \ {n}
    BY <1>3, <2>3
  <2>5. IsFiniteSet(U \ {n}) /\ Cardinality(U \ {n}) = Cardinality(U) - 1
    BY <1>2, <2>2, FS_RemoveElement
  <2> QED
    BY <2>4, <2>5, FS_Subset
<1> QED
  BY <1>2, <1>4, <1>5, <1>6

\* Only a failure adds to what is unresolved, and counts itself; a retry that passes
\* resolves the failure it un-counts.
LEMMA RetryNext == TypeOK /\ ArmedInv /\ RetryInv /\ [Next]_vars => RetryInv'
<1> SUFFICES ASSUME TypeOK, ArmedInv, RetryInv, [Next]_vars PROVE RetryInv'
  OBVIOUS
<1> USE DEF program, counts, outcome, pausing, browser, signals, budget
<1>0. failed \in Int /\ pauses \in Nat /\ MaxPauses \in Nat
  BY BoundsAssumption DEF TypeOK
\* A step that appends no row and pauses on no error.
<1>1. ASSUME UNCHANGED <<wf, step_idx, results, failed, retrying, pauses>>,
             cancelled => cancelled', pause_requested' => pause_requested,
             pause_kind' \in {pause_kind, "none", "paused_handoff"},
             pc \in Ended => pc' \in Ended, pc' = "step" => Step.kind # "handoff"
      PROVE  RetryInv'
  <2>1. Step' = Step /\ LastRow("failed", step_idx)' = LastRow("failed", step_idx)
    BY <1>1 DEF Step, StepAt, NumSteps, LastRow
  <2> QED
    BY <1>1, <2>1 DEF RetryInv
<1>2. CASE SetUp \/ LoopExit \/ IndexFault \/ CheckCancel \/ LookaheadFault \/ TearDown \/ Unregister
  <2>1. /\ UNCHANGED <<wf, step_idx, results, failed, retrying, pauses, pause_requested, pause_kind>>
        /\ cancelled => cancelled'
        /\ pc' # "step"
        /\ pc \in Ended => pc' \in Ended
    BY <1>2 DEF SetUp, CreateDriver, SetupDriver, LoopExit, IndexFault, CheckCancel,
       LookaheadFault, TearDown, Cleanup, CloseDriver, Unregister, Leave, Ended
  <2> QED
    BY <1>1, <2>1
<1>3. CASE CheckPause
  <2>1. CASE pause_requested
    <3>1. UNCHANGED pauses /\ pause_kind' = "paused_requested" /\ pc' = "paused"
      BY <1>3, <2>1 DEF CheckPause, BeginPause
    <3> QED
      BY <2>1, <3>1 DEF RetryInv
  <2>2. CASE ~pause_requested
    <3>1. /\ UNCHANGED <<wf, step_idx, results, failed, retrying, pauses, pause_requested,
                         pause_kind, cancelled>>
          /\ pc = "pausecheck" /\ pc' = "dispatch"
      BY <1>3, <2>2 DEF CheckPause
    <3> QED
      BY <1>1, <3>1 DEF Ended
  <2> QED
    BY <2>1, <2>2
<1>4. CASE DispatchHandoff \/ DispatchStep
  <2>1. /\ UNCHANGED <<wf, step_idx, results, failed, retrying, pauses, pause_requested, cancelled>>
        /\ pause_kind' \in {pause_kind, "paused_handoff"}
        /\ pc = "dispatch" /\ (pc' = "step" => Step.kind # "handoff")
    BY <1>4 DEF DispatchHandoff, DispatchStep, BeginPause
  <2> QED
    BY <1>1, <2>1 DEF Ended
<1>5. CASE StepPasses
  <2>1. PICK output \in Nat : results' = Append(results, Row("passed", output))
    BY <1>5, PassAppends
  <2>2. /\ UNCHANGED <<pauses, pause_requested, pause_kind, cancelled>>
        /\ pc = "step" /\ pc' = "top" /\ retrying' = FALSE
        /\ failed' = IF retrying THEN failed - 1 ELSE failed
    BY <1>5 DEF StepPasses, EndRound, UncountRetried
  <2>3. pause_kind' = "none"
    BY <2>2 DEF TypeOK
  <2>4. ASSUME pauses = 0, ~cancelled PROVE Cardinality(Unresolved(results')) <= failed'
    <3>1. Cardinality(Unresolved(results)) <= failed /\ (retrying => LastRow("failed", step_idx))
      BY <2>2, <2>4 DEF RetryInv, Ended
    <3> QED
      BY <1>0, <2>1, <2>2, <3>1, UnresolvedStep
  <2> QED
    BY <2>2, <2>3, <2>4 DEF RetryInv
<1>6. CASE StepFailsAndPauses \/ StepFailsAndStops \/ StepFailsAndContinues
  <2>1. /\ UNCHANGED <<wf, pauses, pause_requested, cancelled>>
        /\ pc = "step" /\ pc' # "step" /\ retrying' = FALSE /\ failed' = failed + 1
        /\ results' = Append(results, Row("failed", 0))
        /\ \/ pause_kind' = "paused_error" /\ step_idx' = step_idx
           \/ pause_kind' = pause_kind
    BY <1>6 DEF StepFailsAndPauses, StepFailsAndStops, StepFailsAndContinues, CountFailure,
       EndRound, BeginPause
  <2>2. pause_kind = "none"
    BY <2>1 DEF TypeOK
  <2>3. ASSUME pauses = 0, ~cancelled PROVE Cardinality(Unresolved(results')) <= failed'
    <3>1. Cardinality(Unresolved(results)) <= failed
      BY <2>3 DEF RetryInv
    <3> QED
      BY <1>0, <2>1, <3>1, UnresolvedStep
  <2>4. step_idx' = step_idx => LastRow("failed", step_idx)' /\ Step' = Step
    BY <2>1, Appended DEF LastRow, Step, StepAt, NumSteps
  <2>5. Step.kind # "handoff"
    BY <2>1 DEF RetryInv
  <2> QED
    BY <2>1, <2>2, <2>3, <2>4, <2>5 DEF RetryInv
<1>7. CASE Wake \/ PauseTimeout
  <2>1. /\ UNCHANGED <<wf, step_idx, results, failed, retrying, pauses, pause_requested,
                       pause_kind, cancelled>>
        /\ pc = "paused" /\ pc' = "woken"
    BY <1>7 DEF Wake, PauseTimeout
  <2> QED
    BY <1>1, <2>1 DEF Ended
<1>8. CASE ResumeAborts
  <2>1. /\ UNCHANGED <<pauses, pause_requested>> /\ cancelled' = TRUE /\ pause_kind' = "none"
        /\ pc' = "cleanup"
    BY <1>8 DEF ResumeAborts, Leave, EndPause
  <2> QED
    BY <2>1 DEF RetryInv, Ended
<1>9. CASE ResumeProceeds
  <2>1. /\ UNCHANGED <<wf, pauses, pause_requested, cancelled, failed>> /\ pause_kind' = "none"
        /\ pc = "woken" /\ pc' = "top" /\ step_idx' = ResumedIndex(instr, step_idx)
    BY <1>9 DEF ResumeProceeds, EndPause
  <2>2. CASE pause_kind = "paused_requested"
    BY <2>1, <2>2 DEF RetryInv
  <2>3. CASE pause_kind = "paused_handoff"
    <3>1. results' = Append(results, Row("passed", 0)) /\ retrying' = retrying
      BY <1>9, <2>3 DEF ResumeProceeds
    <3>2. pauses = 0 => ~retrying
      BY <2>1, <2>3 DEF RetryInv, ArmedInv, Ended
    <3>3. ASSUME pauses = 0, ~cancelled PROVE Cardinality(Unresolved(results')) <= failed'
      <4>1. Cardinality(Unresolved(results)) <= failed
        BY <3>3 DEF RetryInv
      <4> QED
        BY <1>0, <2>1, <3>1, <4>1, UnresolvedStep
    <3> QED
      BY <2>1, <3>1, <3>2, <3>3 DEF RetryInv
  <2>4. CASE pause_kind = "paused_error"
    <3>1. results' = results /\ retrying' = (instr.action = "retry")
      BY <1>9, <2>4 DEF ResumeProceeds, RetryInv, TypeOK
    <3>2. retrying' => step_idx' = step_idx
      BY <2>1, <3>1 DEF ResumedIndex
    <3>3. pauses = 0 => LastRow("failed", step_idx) /\ Step.kind # "handoff"
      BY <2>1, <2>4 DEF RetryInv, Ended
    <3>4. retrying' => LastRow("failed", step_idx)' = LastRow("failed", step_idx) /\ Step' = Step
      BY <2>1, <3>1, <3>2 DEF LastRow, Step, StepAt, NumSteps
    <3> QED
      BY <2>1, <3>1, <3>3, <3>4 DEF RetryInv
  <2> QED
    BY <2>1, <2>2, <2>3, <2>4 DEF TypeOK, PauseStates
<1>10. CASE RequestPause
  <2>1. UNCHANGED <<wf, step_idx, pc, retrying, pause_kind>> /\ pauses' = pauses + 1
    BY <1>10 DEF RequestPause
  <2> QED
    BY <1>0, <2>1 DEF RetryInv, Step, StepAt, NumSteps
<1>11. CASE Stop \/ (\E i \in Instructions : Resume(i)) \/ PutCompletes \/ UNCHANGED vars
  <2>1. UNCHANGED <<wf, step_idx, results, failed, retrying, pauses, pause_requested, pause_kind,
                    cancelled, pc>>
    BY <1>11 DEF Stop, Resume, PutCompletes, vars
  <2> QED
    BY <1>1, <2>1 DEF RetryInv
<1> QED
  BY <1>2, <1>3, <1>4, <1>5, <1>6, <1>7, <1>8, <1>9, <1>10, <1>11
  DEF Next, Thread, LoopHead, Dispatch, Outcome, Pause, Developer, OnLoop, Terminated

\* There are no rows yet.
LEMMA RowsInit == Init => ArmedInv /\ RetryInv /\ CountsInv
<1> SUFFICES ASSUME Init PROVE ArmedInv /\ RetryInv /\ CountsInv
  OBVIOUS
<1>1. Unresolved(results) = {}
  BY DEF Init, Unresolved
<1>2. Cardinality(Unresolved(results)) = 0
  BY <1>1, FS_EmptySet
<1>3. ArmedInv /\ CountsInv
  BY CountsInit DEF Init, ArmedInv, ArmedByLast
<1>4. RetryInv
  BY <1>2 DEF Init, RetryInv
<1> QED
  BY <1>3, <1>4

\* An execution in which no pause was requested is reported completed only if
\* each step that failed has passed later, whatever its retries, jumps, loops
\* and handoffs.
THEOREM RetriesHonest == Spec => []RetryUncountsItsOwn
<1>1. TypeOK /\ RetryInv /\ CountsInv => RetryUncountsItsOwn
  <2> SUFFICES ASSUME TypeOK, RetryInv, CountsInv, pauses = 0, Status = "completed", NEW k \in FailedRows
               PROVE  Resolved(k)
    BY DEF RetryUncountsItsOwn, CompletedMeansResolved
  <2>1. ~cancelled /\ failed = 0
    BY DEF Status
  <2>2. Cardinality(Unresolved(results)) = 0 /\ IsFiniteSet(Unresolved(results))
    BY <2>1, UnresolvedFinite DEF RetryInv, TypeOK
  <2>3. Unresolved(results) = {}
    BY <2>2, FS_EmptySet
  <2> QED
    BY <2>3 DEF Unresolved, Resolved, FailedRows, PassedRows
<1> QED
  BY <1>1, RowsInit, TypeCorrect, ArmedNext, CountsNext, RetryNext, PTL DEF Spec

-----------------------------------------------------------------------------
(* The order of the steps.                                                   *)

\* The workflow is fixed; pauses are remembered.
LEMMA Monotonic ==
  ASSUME TypeOK, [Next]_vars
  PROVE  wf' = wf /\ pauses' >= pauses /\ paused_indices \subseteq paused_indices'
<1> USE DEF program, counts, outcome, pausing, browser, signals, budget
<1>0. pauses \in Int
  BY BoundsAssumption DEF TypeOK
<1>1. ASSUME UNCHANGED <<wf, pauses, paused_indices>>
      PROVE  wf' = wf /\ pauses' >= pauses /\ paused_indices \subseteq paused_indices'
  BY <1>0, <1>1
<1>2. CASE SetUp \/ TearDown \/ Unregister
  <2>1. UNCHANGED <<wf, pauses, paused_indices>>
    BY <1>2 DEF SetUp, CreateDriver, SetupDriver, TearDown, Cleanup, CloseDriver, Unregister
  <2> QED
    BY <1>1, <2>1
<1>3. CASE LoopHead \/ Dispatch
  <2>1. UNCHANGED <<wf, pauses, paused_indices>>
    BY <1>3 DEF LoopHead, LoopExit, IndexFault, CheckCancel, CheckPause, Dispatch,
       LookaheadFault, DispatchHandoff, DispatchStep
  <2> QED
    BY <1>1, <2>1
<1>4. CASE StepPasses \/ StepFailsAndStops \/ StepFailsAndContinues
  <2>1. UNCHANGED <<wf, pauses, paused_indices>>
    BY <1>4 DEF StepPasses, StepFailsAndStops, StepFailsAndContinues, CountFailure
  <2> QED
    BY <1>1, <2>1
<1>5. CASE StepFailsAndPauses
  <2>1. UNCHANGED <<wf, pauses>> /\ paused_indices' = paused_indices \cup {step_idx}
    BY <1>5 DEF StepFailsAndPauses, CountFailure
  <2> QED
    BY <1>0, <2>1
<1>6. CASE Pause
  <2>1. UNCHANGED <<wf, pauses, paused_indices>>
    BY <1>6 DEF Pause, Wake, PauseTimeout, ResumeAborts, ResumeProceeds
  <2> QED
    BY <1>1, <2>1
<1>7. CASE RequestPause
  BY <1>0, <1>7 DEF RequestPause
<1>8. CASE Stop \/ (\E i \in Instructions : Resume(i)) \/ PutCompletes \/ UNCHANGED vars
  <2>1. UNCHANGED <<wf, pauses, paused_indices>>
    BY <1>8 DEF Stop, Resume, PutCompletes, vars
  <2> QED
    BY <1>1, <2>1
<1> QED
  BY <1>2, <1>3, <1>4, <1>5, <1>6, <1>7, <1>8 DEF Next, Thread, Outcome, Developer, OnLoop, Terminated

\* The instructions the thread acts on are the developer's, and its own abort.
SentInv ==
  /\ pause_queue # << >> => pause_queue[1] \in Instructions
  /\ pc = "woken" => instr \in Instructions \/ instr.action = "abort"

\* Instructions are passed on and never made, but for the abort of a time-out.
LEMMA SentNext == TypeOK /\ SentInv /\ [Next]_vars => SentInv'
<1> SUFFICES ASSUME TypeOK, SentInv, [Next]_vars PROVE SentInv'
  OBVIOUS
<1> USE DEF SentInv, program, counts, outcome, pausing, browser, signals, budget
<1>1. CASE SetUp \/ LoopHead \/ Dispatch \/ TearDown \/ Unregister
  BY <1>1 DEF SetUp, CreateDriver, SetupDriver, LoopHead, LoopExit, IndexFault, CheckCancel,
     CheckPause, Dispatch, LookaheadFault, DispatchHandoff, DispatchStep, TearDown, Cleanup,
     CloseDriver, Unregister, Leave, BeginPause
<1>2. CASE Outcome
  BY <1>2 DEF Outcome, StepPasses, StepFailsAndPauses, StepFailsAndStops,
     StepFailsAndContinues, CountFailure, EndRound, BeginPause
<1>3. CASE Wake
  <2>1. /\ pause_queue # << >> /\ instr' = pause_queue[1] /\ pause_queue' = Tail(pause_queue)
        /\ pause_queue \in Seq(Instruction) /\ Len(pause_queue) <= 1
    BY <1>3 DEF Wake, TypeOK
  <2>2. Tail(pause_queue) = << >>
    BY <2>1
  <2> QED
    BY <2>1, <2>2
<1>4. CASE PauseTimeout
  BY <1>4 DEF PauseTimeout
<1>5. CASE ResumeAborts \/ ResumeProceeds
  BY <1>5 DEF ResumeAborts, ResumeProceeds, Leave
<1>8. CASE PutCompletes
  BY <1>8 DEF PutCompletes, TypeOK
<1>6. CASE Stop \/ RequestPause \/ UNCHANGED vars
  BY <1>6 DEF Stop, RequestPause, vars
<1>7. ASSUME NEW i \in Instructions, Resume(i) PROVE SentInv'
  BY <1>7 DEF Resume
<1> QED
  BY <1>1, <1>2, <1>3, <1>4, <1>5, <1>6, <1>7, <1>8 DEF Next, Thread, Pause, Developer, OnLoop, Terminated

\* Without a frame the iteration check does nothing.
LEMMA RoundWithoutFrame ==
  ASSUME NEW i \in Int, loop_stack = << >>, EndRound(i, loop_stack)
  PROVE  pc' = "top" /\ step_idx' = i + 1 /\ loop_stack' = << >>
  BY DEF EndRound, IterationIndex, IterationStack, AtBodyEnd

\* Nothing but retry and continue leads out of a pause if no jump is sent.
LEMMA ResumedAhead ==
  ASSUME TypeOK, SentInv, NoJumpSent, ResumeProceeds
  PROVE  /\ step_idx' \in {step_idx, step_idx + 1}
         /\ step_idx' = step_idx + 1 => instr.action = "continue"
<1>1. instr \in Instruction /\ (instr \in Instructions \/ instr.action = "abort")
  BY DEF ResumeProceeds, TypeOK, SentInv
<1>2. instr.action \in {"retry", "continue", "abort", "jump"} /\ instr.action # "jump"
  BY <1>1 DEF Instruction, NoJumpSent
<1>3. step_idx' = ResumedIndex(instr, step_idx) /\ ResumedIndex(instr, step_idx) # None
  BY DEF ResumeProceeds
<1>4. CASE instr.action = "retry"
  BY <1>3, <1>4 DEF ResumedIndex, TypeOK
<1>5. CASE instr.action = "continue"
  BY <1>3, <1>5 DEF ResumedIndex
<1>6. CASE instr.action = "abort"
  BY <1>3, <1>6 DEF ResumedIndex
<1> QED
  BY <1>2, <1>4, <1>5, <1>6

\* With nothing that goes back or skips, what lies behind the index has a row,
\* and an execution that completes has left everything behind.
Straight ==
  /\ Loopless /\ NoJumpSent
  /\ \A k \in DOMAIN wf.steps : wf.steps[k].kind # "conditional"

BehindInv ==
  Straight /\ pauses = 0 =>
    /\ loop_stack = << >> /\ 0 <= step_idx
    /\ \A i \in 0 .. step_idx - 1 : i < NumSteps(wf) => \E k \in DOMAIN results : results[k].step = i
    /\ pc \in Ended /\ Status = "completed" => step_idx >= NumSteps(wf)

\* The index moves past a step only with a row for it.
LEMMA BehindNext ==
  TypeOK /\ CountsInv /\ RetryInv /\ SentInv /\ BehindInv /\ [Next]_vars => BehindInv'
<1> SUFFICES ASSUME TypeOK, CountsInv, RetryInv, SentInv, BehindInv, [Next]_vars,
                    Straight', pauses' = 0
             PROVE  /\ loop_stack' = << >> /\ 0 <= step_idx'
                    /\ \A i \in 0 .. step_idx' - 1 :
                         i < NumSteps(wf)' => \E k \in DOMAIN results' : results'[k].step = i
                    /\ pc' \in Ended /\ Status' = "completed" => step_idx' >= NumSteps(wf)'
  BY DEF BehindInv
<1> USE DEF program, counts, outcome, pausing, browser, signals, budget
<1>0. step_idx \in Int /\ failed \in Int /\ pauses \in Nat /\ NumSteps(wf) \in Nat
  BY BoundsAssumption DEF TypeOK, Workflow, NumSteps
<1>1. wf' = wf /\ pauses = 0
  BY <1>0, Monotonic
<1>2. /\ Straight /\ loop_stack = << >> /\ 0 <= step_idx
      /\ \A i \in 0 .. step_idx - 1 :
           i < NumSteps(wf) => \E k \in DOMAIN results : results[k].step = i
      /\ pc \in Ended /\ Status = "completed" => step_idx >= NumSteps(wf)
  BY <1>1 DEF BehindInv, Straight, Loopless, NoJumpSent
<1>3. NumSteps(wf)' = NumSteps(wf)
  BY <1>1 DEF NumSteps
<1> SUFFICES /\ loop_stack' = << >> /\ 0 <= step_idx'
             /\ \A i \in 0 .. step_idx' - 1 :
                  i < NumSteps(wf) => \E k \in DOMAIN results' : results'[k].step = i
             /\ pc' \in Ended /\ Status' = "completed" => step_idx' >= NumSteps(wf)
  BY <1>3
\* A step that leaves the index where it is.
<1>4. ASSUME UNCHANGED <<loop_stack, step_idx>>,
             \A k \in DOMAIN results : k \in DOMAIN results' /\ results'[k] = results[k],
             pc' \in Ended /\ Status' = "completed" => step_idx >= NumSteps(wf)
      PROVE  /\ loop_stack' = << >> /\ 0 <= step_idx'
             /\ \A i \in 0 .. step_idx' - 1 :
                  i < NumSteps(wf) => \E k \in DOMAIN results' : results'[k].step = i
             /\ pc' \in Ended /\ Status' = "completed" => step_idx' >= NumSteps(wf)
  BY <1>2, <1>4
\* A step that moves on by one from a step that has a row.
<1>5. ASSUME loop_stack' = << >>, step_idx' = step_idx + 1, pc' = "top",
             \A k \in DOMAIN results : k \in DOMAIN results' /\ results'[k] = results[k],
             \E k \in DOMAIN results' : results'[k].step = step_idx
      PROVE  /\ loop_stack' = << >> /\ 0 <= step_idx'
             /\ \A i \in 0 .. step_idx' - 1 :
                  i < NumSteps(wf) => \E k \in DOMAIN results' : results'[k].step = i
             /\ pc' \in Ended /\ Status' = "completed" => step_idx' >= NumSteps(wf)
  <2>1. \A i \in 0 .. step_idx' - 1 : i \in 0 .. step_idx - 1 \/ i = step_idx
    BY <1>0, <1>5
  <2>2. pc' \notin Ended
    BY <1>5 DEF Ended
  <2> QED
    BY <1>0, <1>2, <1>5, <2>1, <2>2
<1>6. ASSUME NEW status \in {"passed", "failed"}, NEW output \in Nat,
             results' = Append(results, Row(status, output))
      PROVE  /\ \A k \in DOMAIN results : k \in DOMAIN results' /\ results'[k] = results[k]
             /\ \E k \in DOMAIN results' : results'[k].step = step_idx
  <2>1. /\ Len(results) \in Nat /\ Len(results') = Len(results) + 1
        /\ DOMAIN results = 1 .. Len(results) /\ DOMAIN results' = 1 .. Len(results) + 1
        /\ \A k \in DOMAIN results : results'[k] = results[k]
        /\ results'[Len(results')].step = step_idx
    BY <1>6, Appended
  <2> QED
    BY <2>1
<1>7. ASSUME UNCHANGED results
      PROVE  \A k \in DOMAIN results : k \in DOMAIN results' /\ results'[k] = results[k]
  BY <1>7
<1>8. pc = "step" => Step.kind \notin {"conditional", "loop"}
  <2>1. pc = "step" => step_idx + 1 \in DOMAIN wf.steps /\ Step = wf.steps[step_idx + 1]
    BY <1>0, <1>2 DEF TypeOK, InRange, Step, StepAt, Workflow, NumSteps
  <2> QED
    BY <1>2, <2>1 DEF Straight, Loopless
<1>9. CASE SetUp
  BY <1>9, <1>4, <1>7 DEF SetUp, CreateDriver, SetupDriver, Status, Ended
<1>10. CASE LoopExit
  BY <1>10, <1>4, <1>7 DEF LoopExit
<1>11. CASE IndexFault \/ LookaheadFault
  BY <1>11, <1>4, <1>7 DEF IndexFault, LookaheadFault, Leave, Status
<1>12. CASE CheckCancel
  BY <1>12, <1>4, <1>7 DEF CheckCancel, Leave, Status, Ended
<1>13. CASE CheckPause \/ DispatchHandoff \/ DispatchStep
  BY <1>13, <1>4, <1>7 DEF CheckPause, DispatchHandoff, DispatchStep, BeginPause, Ended
<1>14. CASE StepPasses
  <2>1. PICK output \in Nat : results' = Append(results, Row("passed", output))
    BY <1>14, PassAppends
  <2>2. EndRound(step_idx, loop_stack)
    BY <1>8, <1>14 DEF StepPasses
  <2> QED
    BY <1>0, <1>2, <1>5, <1>6, <2>1, <2>2, RoundWithoutFrame
<1>15. CASE StepFailsAndPauses
  BY <1>15, <1>4, <1>6 DEF StepFailsAndPauses, CountFailure, BeginPause, Ended
<1>16. CASE StepFailsAndStops
  <2>1. failed' = failed + 1 /\ results' = Append(results, Row("failed", 0))
        /\ UNCHANGED <<loop_stack, step_idx>>
    BY <1>16 DEF StepFailsAndStops, CountFailure
  <2>2. failed' > 0
    BY <1>0, <2>1 DEF CountsInv
  <2>3. Status' # "completed"
    BY <2>2 DEF Status
  <2> QED
    BY <1>4, <1>6, <2>1, <2>3
<1>17. CASE StepFailsAndContinues
  <2>1. results' = Append(results, Row("failed", 0)) /\ EndRound(step_idx, loop_stack)
    BY <1>17 DEF StepFailsAndContinues, CountFailure
  <2> QED
    BY <1>0, <1>2, <1>5, <1>6, <2>1, RoundWithoutFrame
<1>18. CASE Wake \/ PauseTimeout
  BY <1>18, <1>4, <1>7 DEF Wake, PauseTimeout, Ended
<1>19. CASE ResumeAborts
  <2>1. /\ results' \in {results, Append(results, Row("failed", 0))}
        /\ UNCHANGED <<loop_stack, step_idx>> /\ Status' # "completed"
    BY <1>19 DEF ResumeAborts, Leave, Status
  <2> QED
    BY <1>4, <1>6, <1>7, <2>1
<1>20. CASE ResumeProceeds
  <2>1. /\ step_idx' \in {step_idx, step_idx + 1} /\ loop_stack' = << >> /\ pc' = "top"
        /\ results' \in {results, Append(results, Row("passed", 0))}
    BY <1>2, <1>20, ResumedAhead DEF ResumeProceeds, Straight
  <2>2. CASE step_idx' = step_idx
    BY <1>2, <1>4, <1>6, <1>7, <2>1, <2>2 DEF Ended
  <2>3. CASE step_idx' = step_idx + 1 /\ pause_kind = "paused_handoff"
    <3>1. results' = Append(results, Row("passed", 0))
      BY <1>20, <2>3 DEF ResumeProceeds
    <3> QED
      BY <1>5, <1>6, <2>1, <2>3, <3>1
  <2>4. CASE step_idx' = step_idx + 1 /\ pause_kind = "paused_error"
    <3>1. results' = results /\ LastRow("failed", step_idx)
      BY <1>1, <1>20, <2>4 DEF ResumeProceeds, RetryInv, Ended
    <3>2. Len(results) \in DOMAIN results
      BY <3>1 DEF LastRow, TypeOK, Rows
    <3> QED
      BY <1>5, <1>7, <2>1, <2>4, <3>1, <3>2 DEF LastRow
  <2>5. pause_kind \in {"paused_handoff", "paused_error"}
    BY <1>1, <1>20 DEF ResumeProceeds, RetryInv, TypeOK, PauseStates
  <2> QED
    BY <2>1, <2>2, <2>3, <2>4, <2>5
<1>21. CASE TearDown \/ Unregister
  BY <1>2, <1>21, <1>4, <1>7 DEF TearDown, Cleanup, CloseDriver, Unregister, Ended, Status
<1>22. CASE Developer \/ PutCompletes \/ UNCHANGED vars
  BY <1>2, <1>22, <1>4, <1>7 DEF Developer, Stop, RequestPause, Resume, PutCompletes, vars, Status
<1> QED
  BY <1>9, <1>10, <1>11, <1>12, <1>13, <1>14, <1>15, <1>16, <1>17, <1>18, <1>19, <1>20,
     <1>21, <1>22
  DEF Next, Thread, LoopHead, Dispatch, Outcome, Pause, OnLoop, Terminated

\* An execution that is reported completed, and that no conditional, loop or
\* jump has taken elsewhere, has a row for each of its steps, whatever has
\* failed and been retried or resolved on the way.
THEOREM NoStepSkipped == Spec => []EveryStepRuns
<1>1. Init => ArmedInv /\ RetryInv /\ CountsInv /\ SentInv /\ BehindInv
  <2>1. Init => ArmedInv /\ RetryInv /\ CountsInv
    BY RowsInit
  <2> QED
    BY <2>1 DEF Init, SentInv, BehindInv, Ended
<1>2. TypeOK /\ BehindInv => EveryStepRuns
  <2> SUFFICES ASSUME TypeOK, BehindInv, pc \in {"returned", "done"}, Status = "completed",
                      pauses = 0, Straight, NEW i \in 0 .. NumSteps(wf) - 1
               PROVE  \E k \in DOMAIN results : results[k].step = i
    BY DEF EveryStepRuns, Straight
  <2>1. step_idx >= NumSteps(wf) /\ step_idx \in Int /\ NumSteps(wf) \in Nat
    BY DEF BehindInv, Ended, TypeOK, Workflow, NumSteps
  <2>2. i \in 0 .. step_idx - 1 /\ i < NumSteps(wf)
    BY <2>1
  <2> QED
    BY <2>2 DEF BehindInv
<1> QED
  BY <1>1, <1>2, TypeCorrect, ArmedNext, CountsNext, RetryNext, SentNext, BehindNext, PTL DEF Spec

Failures(rows, i) == {k \in DOMAIN rows : rows[k].status = "failed" /\ rows[k].step = i}

\* With nothing that goes back, no step ahead has failed, and the one at the
\* index has failed once if it has paused and else never.
BoundedInv ==
  FrontToBack =>
    /\ loop_stack = << >> /\ 0 <= step_idx
    /\ \A i \in Int : i > step_idx => Failures(results, i) = {}
    /\ pc \notin Ended =>
         Cardinality(Failures(results, step_idx)) <= (IF step_idx \in paused_indices THEN 1 ELSE 0)
    /\ \A i \in Int : Cardinality(Failures(results, i)) <= 2

\* There are finitely many failures of a step; a row adds at most one, and only to
\* those of its own step, if it is a failure.
LEMMA FailuresFinite ==
  ASSUME NEW rows \in Rows, NEW i
  PROVE  IsFiniteSet(Failures(rows, i)) /\ Cardinality(Failures(rows, i)) \in Nat
<1>1. IsFiniteSet(1 .. Len(rows)) /\ Failures(rows, i) \subseteq 1 .. Len(rows)
  <2>1. DOMAIN rows = 1 .. Len(rows) /\ Len(rows) \in Int
    BY DEF Rows
  <2> QED
    BY <2>1, FS_Interval DEF Failures
<1> QED
  BY <1>1, FS_Subset, FS_CardinalityType

\* The second half of that.
LEMMA FailuresStep ==
  ASSUME TypeOK, NEW status \in {"passed", "failed"}, NEW output \in Nat,
         results' = Append(results, Row(status, output)), NEW i \in Int
  PROVE  /\ i # step_idx \/ status = "passed" => Failures(results', i) = Failures(results, i)
         /\ Cardinality(Failures(results', i)) <= Cardinality(Failures(results, i)) + 1
<1> DEFINE n == Len(results)
           A == Failures(results, i)
           B == Failures(results', i)
<1>1. /\ results \in Rows /\ n \in Nat /\ Len(results') = n + 1
      /\ DOMAIN results = 1 .. n /\ DOMAIN results' = 1 .. n + 1
      /\ \A k \in 1 .. n : results'[k] = results[k]
      /\ results'[n + 1].step = step_idx /\ results'[n + 1].status = status
  BY Appended
<1>2. B \subseteq A \cup {n + 1}
  BY <1>1 DEF Failures
<1>3. i # step_idx \/ status = "passed" => B = A
  BY <1>1 DEF Failures
<1>4. IsFiniteSet(A) /\ Cardinality(A) \in Nat
  BY <1>1, FailuresFinite
<1>5. IsFiniteSet(A \cup {n + 1}) /\ Cardinality(A \cup {n + 1}) <= Cardinality(A) + 1
  BY <1>4, AddsAtMostOne
<1>6. Cardinality(B) <= Cardinality(A \cup {n + 1}) /\ Cardinality(B) \in Nat
      /\ Cardinality(A \cup {n + 1}) \in Nat
  BY <1>2, <1>5, FS_Subset, FS_CardinalityType
<1> QED
  BY <1>3, <1>4, <1>5, <1>6

\* A step that fails is left behind, or pauses and is then in paused_indices.
LEMMA BoundedNext == TypeOK /\ SentInv /\ BoundedInv /\ [Next]_vars => BoundedInv'
<1> DEFINE F(i) == Cardinality(Failures(results, i))
           Allowed == IF step_idx \in paused_indices THEN 1 ELSE 0
<1> SUFFICES ASSUME TypeOK, SentInv, BoundedInv, [Next]_vars, FrontToBack'
             PROVE  /\ loop_stack' = << >> /\ 0 <= step_idx'
                    /\ \A i \in Int : i > step_idx' => Failures(results', i) = {}
                    /\ pc' \notin Ended => F(step_idx)' <= Allowed'
                    /\ \A i \in Int : F(i)' <= 2
  BY DEF BoundedInv
<1> USE DEF program, counts, outcome, pausing, browser, signals, budget
<1>0. step_idx \in Int /\ results \in Rows /\ step_idx' \in Int
  BY TypeNext DEF TypeOK
<1>1. wf' = wf
  BY Monotonic
<1>2. FrontToBack
  BY <1>1 DEF FrontToBack, Loopless, NoJumpSent, NumSteps, StepAt, ConditionalIndex
<1>3. /\ loop_stack = << >> /\ 0 <= step_idx
      /\ \A i \in Int : i > step_idx => Failures(results, i) = {}
      /\ pc \notin Ended => F(step_idx) <= Allowed
      /\ \A i \in Int : F(i) <= 2 /\ F(i) \in Nat
  BY <1>0, <1>2, FailuresFinite DEF BoundedInv
\* A step that fails at nothing, and goes back to nothing.
<1>4. ASSUME loop_stack' = << >>, step_idx' >= step_idx, pc \in Ended => pc' \in Ended,
             step_idx' = step_idx => paused_indices' = paused_indices \/ pc' \in Ended,
             \A i \in Int : Failures(results', i) = Failures(results, i)
      PROVE  /\ loop_stack' = << >> /\ 0 <= step_idx'
             /\ \A i \in Int : i > step_idx' => Failures(results', i) = {}
             /\ pc' \notin Ended => F(step_idx)' <= Allowed'
             /\ \A i \in Int : F(i)' <= 2
  <2>1. 0 <= step_idx' /\ \A i \in Int : i > step_idx' => Failures(results', i) = {}
    BY <1>0, <1>3, <1>4
  <2>2. \A i \in Int : F(i)' <= 2
    BY <1>3, <1>4
  <2>3. ASSUME pc' \notin Ended PROVE F(step_idx)' <= Allowed'
    <3>1. CASE step_idx' = step_idx
      BY <1>0, <1>3, <1>4, <2>3, <3>1
    <3>2. CASE step_idx' > step_idx
      <4>1. Failures(results', step_idx') = {}
        BY <1>0, <1>3, <1>4, <3>2
      <4>2. F(step_idx)' = 0
        BY <4>1, FS_EmptySet
      <4> QED
        BY <4>2
    <3> QED
      BY <1>0, <1>4, <3>1, <3>2
  <2> QED
    BY <1>4, <2>1, <2>2, <2>3
<1>5. ASSUME results' = results
      PROVE  \A i \in Int : Failures(results', i) = Failures(results, i)
  BY <1>5
<1>6. ASSUME NEW output \in Nat, results' = Append(results, Row("passed", output))
      PROVE  \A i \in Int : Failures(results', i) = Failures(results, i)
  BY <1>6, FailuresStep
\* A step that fails.
<1>7. ASSUME results' = Append(results, Row("failed", 0)), pc \notin Ended
      PROVE  /\ \A i \in Int : i > step_idx => Failures(results', i) = {}
             /\ Cardinality(Failures(results', step_idx)) <= Allowed + 1
             /\ \A i \in Int : F(i)' <= 2
  <2>1. \A i \in Int : i # step_idx => Failures(results', i) = Failures(results, i)
    BY <1>7, FailuresStep
  <2>2. Cardinality(Failures(results', step_idx)) <= F(step_idx) + 1
    BY <1>0, <1>7, FailuresStep
  <2>3. results' \in Rows
    BY TypeNext DEF TypeOK
  <2>4. Cardinality(Failures(results', step_idx)) \in Nat
    BY <2>3, FailuresFinite
  <2>5. Cardinality(Failures(results', step_idx)) <= Allowed + 1 /\ Allowed \in {0, 1}
    <3> DEFINE c == F(step_idx)
               d == Cardinality(Failures(results', step_idx))
    <3>1. c \in Nat /\ c <= Allowed /\ d \in Nat /\ d <= c + 1 /\ Allowed \in {0, 1}
      BY <1>0, <1>3, <1>7, <2>2, <2>4
    <3> HIDE DEF c, d, Allowed
    <3>2. d <= Allowed + 1
      BY <3>1
    <3> QED
      BY <3>1, <3>2 DEF d
  <2>6. ASSUME NEW i \in Int PROVE F(i)' <= 2
    <3>1. CASE i = step_idx
      BY <2>4, <2>5, <3>1
    <3>2. CASE i # step_idx
      BY <1>3, <2>1, <3>2
    <3> QED
      BY <3>1, <3>2
  <2> QED
    BY <1>3, <2>1, <2>5, <2>6
<1>8. CASE SetUp \/ LoopExit \/ IndexFault \/ CheckCancel \/ CheckPause \/ Dispatch \/ TearDown \/ Unregister
           \/ Wake \/ PauseTimeout \/ Developer \/ PutCompletes \/ UNCHANGED vars
  <2>1. UNCHANGED <<loop_stack, step_idx, paused_indices, results>> /\ (pc \in Ended => pc' \in Ended)
    <3>1. CASE SetUp \/ LoopExit \/ IndexFault \/ CheckCancel \/ CheckPause
      BY <3>1 DEF SetUp, CreateDriver, SetupDriver, LoopExit, IndexFault, CheckCancel, CheckPause, Ended
    <3>2. CASE Dispatch \/ TearDown \/ Unregister
      BY <3>2 DEF Dispatch, LookaheadFault, DispatchHandoff, DispatchStep, TearDown, Cleanup,
         CloseDriver, Unregister, Ended
    <3>3. CASE Wake \/ PauseTimeout \/ Developer \/ PutCompletes \/ UNCHANGED vars
      BY <3>3 DEF Wake, PauseTimeout, Developer, Stop, RequestPause, Resume, PutCompletes, vars, Ended
    <3> QED
      BY <1>8, <3>1, <3>2, <3>3
  <2> QED
    BY <1>0, <1>3, <1>4, <1>5, <2>1
<1>9. CASE StepPasses
  <2>1. PICK output \in Nat : results' = Append(results, Row("passed", output))
    BY <1>9, PassAppends
  <2>2. PICK i \in Int : i >= step_idx /\ EndRound(i, loop_stack)
    <3>1. step_idx \in 0 .. NumSteps(wf) - 1 /\ Step = StepAt(wf, step_idx) /\ Step \in WorkflowStep
      BY <1>0, <1>3, <1>9, StepType DEF StepPasses, TypeOK, InRange, Step, Workflow, NumSteps
    <3>2. Step.kind # "loop"
      BY <1>2, <3>1 DEF FrontToBack, Loopless, StepAt, NumSteps, TypeOK, Workflow
    <3>3. CASE Step.kind = "conditional"
      <4>1. PICK met \in BOOLEAN : EndRound(ConditionalIndex(Step, step_idx, met), loop_stack)
        BY <1>9, <3>3 DEF StepPasses
      <4>2. ConditionalIndex(Step, step_idx, TRUE) >= step_idx
        BY <1>2, <3>1, <3>3 DEF FrontToBack
      <4>3. ConditionalIndex(Step, step_idx, met) \in Int
        BY <1>0, <3>1, ConditionalIndexType
      <4>4. ConditionalIndex(Step, step_idx, met) >= step_idx
        <5>1. CASE met = TRUE
          BY <4>2, <5>1
        <5>2. CASE ~met
          <6>1. ConditionalIndex(Step, step_idx, met) = step_idx
            BY <5>2 DEF ConditionalIndex
          <6> QED
            BY <1>0, <6>1
        <5> QED
          BY <5>1, <5>2
      <4> QED
        BY <4>1, <4>3, <4>4
    <3>4. CASE Step.kind # "conditional"
      BY <1>0, <1>9, <3>2, <3>4 DEF StepPasses
    <3> QED
      BY <3>3, <3>4
  <2>3. step_idx' = i + 1 /\ loop_stack' = << >> /\ pc = "step"
    BY <1>3, <1>9, <2>2, RoundWithoutFrame DEF StepPasses
  <2> QED
    BY <1>0, <1>4, <1>6, <2>1, <2>2, <2>3 DEF Ended
<1>10. CASE StepFailsAndPauses
  <2>1. /\ results' = Append(results, Row("failed", 0)) /\ pc \notin Ended
        /\ UNCHANGED <<loop_stack, step_idx>>
        /\ step_idx \notin paused_indices /\ step_idx \in paused_indices'
    BY <1>10 DEF StepFailsAndPauses, CountFailure, PausesOnFailure, Ended
  <2>2. F(step_idx)' <= Allowed'
    BY <1>7, <2>1
  <2> QED
    BY <1>0, <1>3, <1>7, <2>1, <2>2
<1>11. CASE StepFailsAndStops \/ StepFailsAndContinues
  <2>1. results' = Append(results, Row("failed", 0)) /\ pc \notin Ended
    BY <1>11 DEF StepFailsAndStops, StepFailsAndContinues, CountFailure, Ended
  <2>2. /\ loop_stack' = << >>
        /\ \/ pc' \in Ended /\ step_idx' = step_idx
           \/ step_idx' = step_idx + 1
    BY <1>0, <1>3, <1>11, RoundWithoutFrame DEF StepFailsAndStops, StepFailsAndContinues, Ended
  <2>3. CASE pc' \in Ended /\ step_idx' = step_idx
    BY <1>0, <1>3, <1>7, <2>1, <2>2, <2>3
  <2>4. CASE step_idx' = step_idx + 1
    <3>1. Failures(results', step_idx') = {}
      BY <1>0, <1>7, <2>1, <2>4
    <3>2. F(step_idx)' = 0
      BY <3>1, FS_EmptySet
    <3>3. \A i \in Int : i > step_idx' => Failures(results', i) = {}
      BY <1>0, <1>7, <2>1, <2>4
    <3>4. F(step_idx)' <= Allowed'
      BY <3>2
    <3>5. \A i \in Int : F(i)' <= 2
      BY <1>7, <2>1
    <3> QED
      BY <1>0, <1>3, <2>2, <2>4, <3>3, <3>4, <3>5
  <2> QED
    BY <2>2, <2>3, <2>4
<1>12. CASE ResumeAborts
  <2>1. /\ pc \notin Ended /\ pc' \in Ended /\ UNCHANGED <<loop_stack, step_idx>>
        /\ results' \in {results, Append(results, Row("failed", 0))}
    BY <1>12 DEF ResumeAborts, Leave, Ended
  <2> QED
    BY <1>0, <1>3, <1>4, <1>5, <1>7, <2>1
<1>13. CASE ResumeProceeds
  <2>1. /\ UNCHANGED <<loop_stack, paused_indices>> /\ pc \notin Ended
        /\ results' \in {results, Append(results, Row("passed", 0))}
    BY <1>13 DEF ResumeProceeds, Ended
  <2>2. step_idx' >= step_idx
    BY <1>0, <1>2, <1>13, ResumedAhead DEF FrontToBack
  <2> QED
    BY <1>3, <1>4, <1>5, <1>6, <2>1, <2>2
<1> QED
  BY <1>8, <1>9, <1>10, <1>11, <1>12, <1>13 DEF Next, Thread, LoopHead, Outcome, Pause, OnLoop, Terminated

\* In an execution that runs front to back no step fails more than twice: a step
\* that pauses when it fails does so once.
THEOREM PausesOnce == Spec => []RetryBounded
<1>1. Init => SentInv /\ BoundedInv
  <2> SUFFICES ASSUME Init PROVE BoundedInv
    BY DEF Init, SentInv
  <2>1. \A i : Failures(results, i) = {}
    BY DEF Init, Failures
  <2>2. \A i : Cardinality(Failures(results, i)) = 0
    BY <2>1, FS_EmptySet
  <2> QED
    BY <2>1, <2>2 DEF Init, BoundedInv
<1>2. TypeOK /\ BoundedInv => RetryBounded
  <2> SUFFICES ASSUME TypeOK, BoundedInv, FrontToBack, NEW i \in {results[k].step : k \in FailedRows}
               PROVE  Cardinality(FailuresAt(i)) <= 2
    BY DEF RetryBounded
  <2>1. PICK k \in DOMAIN results : i = results[k].step
    BY DEF FailedRows
  <2>2. FailuresAt(i) = Failures(results, i)
    BY DEF FailuresAt, FailedRows, Failures
  <2>3. i \in Int
    BY <2>1, RowAt DEF TypeOK
  <2> QED
    BY <2>2, <2>3 DEF BoundedInv
<1> QED
  BY <1>1, <1>2, TypeCorrect, SentNext, BoundedNext, PTL DEF Spec

-----------------------------------------------------------------------------
(* Frames.                                                                   *)

\* The step at i lies in the body of each frame, which is that of a loop of the
\* workflow, and each frame lies in the ones below it.
NestedAt(stack, i) ==
  /\ 0 <= i
  /\ \A k \in DOMAIN stack :
       /\ stack[k].body_start - 1 \in LoopSteps
       /\ stack[k].body_end = BodyEnd(stack[k].body_start - 1)
       /\ i \in stack[k].body_start .. stack[k].body_end
  /\ \A k, l \in DOMAIN stack : k < l =>
       /\ stack[k].body_start < stack[l].body_start
       /\ stack[l].body_end < stack[k].body_end

\* Without a pause, the thread is in the body of every loop that has a frame.
NestedInv ==
  /\ pause_requested \/ pause_kind = "paused_requested" => pauses > 0
  /\ pause_kind = "paused_error" => paused_indices # {}
  /\ NeverPaused /\ WellNested /\ pc \notin Ended => NestedAt(loop_stack, step_idx)

\* What the proofs use of a stack of frames.
LEMMA FramesType ==
  ASSUME NEW stack \in Frames
  PROVE  /\ Len(stack) \in Nat /\ DOMAIN stack = 1 .. Len(stack)
         /\ \A k \in DOMAIN stack : /\ stack[k] \in LoopFrame
                                    /\ stack[k].body_start \in Int /\ stack[k].body_end \in Int
<1>1. Len(stack) \in Nat /\ DOMAIN stack = 1 .. Len(stack) /\ \A k \in 1 .. Len(stack) : stack[k] \in LoopFrame
  BY DEF Frames
<1>2. \A f \in LoopFrame : f.body_start \in Int /\ f.body_end \in Int
  BY DEF LoopFrame
<1> QED
  BY <1>1, <1>2

\* The iteration check keeps the frames around the index, if the index it is
\* given has not left their bodies, but for the loop step in front of one.
LEMMA RoundNests ==
  ASSUME NEW stack \in Frames, NEW s, s.kind # "loop", NEW j \in Int, NestedAt(stack, j),
         NEW i \in Int, -1 <= i,
         \A k \in DOMAIN stack : i \in stack[k].body_start - 1 .. stack[k].body_end
  PROVE  NestedAt(IterationStack(stack, s, i), IterationIndex(stack, s, i) + 1)
<1> DEFINE n == Len(stack)
<1>1. /\ n \in Nat /\ DOMAIN stack = 1 .. n
      /\ \A k \in 1 .. n : /\ stack[k] \in LoopFrame
                           /\ stack[k].body_start \in Int /\ stack[k].body_end \in Int
  BY FramesType
<1>2. /\ \A k \in 1 .. n : /\ stack[k].body_start - 1 \in LoopSteps
                           /\ stack[k].body_end = BodyEnd(stack[k].body_start - 1)
                           /\ j \in stack[k].body_start .. stack[k].body_end
                           /\ i \in stack[k].body_start - 1 .. stack[k].body_end
      /\ \A k, l \in 1 .. n : k < l => /\ stack[k].body_start < stack[l].body_start
                                       /\ stack[l].body_end < stack[k].body_end
  BY <1>1 DEF NestedAt
<1>3. \A l \in LoopSteps : l \in Nat
  BY DEF LoopSteps
<1> HIDE DEF n
<1>4. CASE ~AtBodyEnd(stack, s, i)
  <2>1. IterationStack(stack, s, i) = stack /\ IterationIndex(stack, s, i) = i
    BY <1>4 DEF IterationStack, IterationIndex
  <2>2. \A k \in 1 .. n : i + 1 \in stack[k].body_start .. stack[k].body_end
    <3> SUFFICES ASSUME NEW k \in 1 .. n PROVE i + 1 \in stack[k].body_start .. stack[k].body_end
      OBVIOUS
    <3>1. n \in 1 .. n /\ i # stack[n].body_end
      BY <1>1, <1>4 DEF AtBodyEnd, Innermost, n
    <3>2. i + 1 <= stack[n].body_end /\ stack[n].body_end <= stack[k].body_end
      BY <1>1, <1>2, <3>1
    <3> QED
      BY <1>1, <1>2, <3>1, <3>2
  <2> QED
    BY <1>1, <1>2, <2>1, <2>2 DEF NestedAt
<1>5. CASE AtBodyEnd(stack, s, i)
  <2>1. n \in 1 .. n /\ i = stack[n].body_end /\ Innermost(stack) = stack[n]
    BY <1>1, <1>5 DEF AtBodyEnd, Innermost, n
  <2>2. CASE MoreItems(Innermost(stack))
    <3> DEFINE T == [stack EXCEPT ![n].current_index = @ + 1]
    <3>1. IterationStack(stack, s, i) = T /\ IterationIndex(stack, s, i) = stack[n].body_start - 1
      BY <1>5, <2>1, <2>2 DEF IterationStack, IterationIndex, n
    <3>2. /\ DOMAIN T = 1 .. n
          /\ \A k \in 1 .. n : T[k].body_start = stack[k].body_start /\ T[k].body_end = stack[k].body_end
      BY <1>1 DEF LoopFrame
    <3>3. \A k \in 1 .. n : stack[n].body_start \in stack[k].body_start .. stack[k].body_end
      <4> SUFFICES ASSUME NEW k \in 1 .. n
                   PROVE  stack[n].body_start \in stack[k].body_start .. stack[k].body_end
        OBVIOUS
      <4>1. stack[n].body_start <= stack[n].body_end
        BY <1>1, <1>2, <2>1
      <4>2. stack[k].body_start <= stack[n].body_start /\ stack[n].body_end <= stack[k].body_end
        BY <1>1, <1>2, <2>1
      <4> QED
        BY <1>1, <2>1, <4>1, <4>2
    <3> HIDE DEF T
    <3>4. 0 <= stack[n].body_start /\ stack[n].body_start - 1 + 1 = stack[n].body_start
      BY <1>1, <1>2, <1>3, <2>1
    <3>5. NestedAt(T, stack[n].body_start)
      BY <1>2, <3>2, <3>3, <3>4 DEF NestedAt
    <3> QED
      BY <3>1, <3>4, <3>5
  <2>3. CASE ~MoreItems(Innermost(stack))
    <3> DEFINE T == SubSeq(stack, 1, n - 1)
    <3>1. IterationStack(stack, s, i) = T /\ IterationIndex(stack, s, i) = i
      BY <1>5, <2>1, <2>3 DEF IterationStack, IterationIndex, n
    <3>2. DOMAIN T = 1 .. n - 1 /\ \A k \in 1 .. n - 1 : T[k] = stack[k]
      BY <1>1 DEF Frames, n
    <3>3. \A k \in 1 .. n - 1 : i + 1 \in stack[k].body_start .. stack[k].body_end
      BY <1>1, <1>2, <2>1
    <3>4. 1 .. n - 1 \subseteq 1 .. n
      BY <1>1
    <3> HIDE DEF T
    <3>5. NestedAt(T, i + 1)
      BY <1>2, <3>2, <3>3, <3>4 DEF NestedAt
    <3> QED
      BY <3>1, <3>5
  <2> QED
    BY <2>2, <2>3
<1> QED
  BY <1>4, <1>5

\* A loop step opens a frame inside the others, the iteration check pops the one
\* that ends here, and everything else stays in the body it is in.
LEMMA NestedNext == TypeOK /\ ArmedInv /\ NestedInv /\ [Next]_vars => NestedInv'
<1> SUFFICES ASSUME TypeOK, ArmedInv, NestedInv, [Next]_vars PROVE NestedInv'
  OBVIOUS
<1> USE DEF program, counts, outcome, pausing, browser, signals, budget
<1>0. /\ step_idx \in Int /\ loop_stack \in Frames /\ wf \in Workflow /\ NumSteps(wf) \in Nat
      /\ pauses \in Nat /\ pauses' \in Nat
  BY TypeNext, BoundsAssumption DEF TypeOK, Workflow, NumSteps
<1>1. wf' = wf /\ pauses' >= pauses /\ paused_indices \subseteq paused_indices'
  BY Monotonic
<1>2. /\ NeverPaused' => NeverPaused
      /\ WellNested' <=> WellNested
      /\ NestedAt(loop_stack, step_idx)' <=> NestedAt(loop_stack', step_idx')
  <2>1. NeverPaused' => NeverPaused
    BY <1>0, <1>1 DEF NeverPaused
  <2>2. LoopSteps' = LoopSteps /\ NumSteps(wf)' = NumSteps(wf)
    BY <1>1 DEF LoopSteps, NumSteps, StepAt
  <2>3. WellNested' <=> WellNested
    BY <1>1, <2>2 DEF WellNested, BodyEnd, StepAt, NumSteps, ConditionalIndex
  <2>4. NestedAt(loop_stack, step_idx)' <=> NestedAt(loop_stack', step_idx')
    BY <1>1, <2>2 DEF NestedAt, BodyEnd, StepAt, NumSteps
  <2> QED
    BY <2>1, <2>3, <2>4
\* The requests and the pauses.
<1>3. /\ pause_requested' \/ pause_kind' = "paused_requested" => pauses' > 0
      /\ pause_kind' = "paused_error" => paused_indices' # {}
  <2>1. ASSUME UNCHANGED <<paused_indices, pauses, pause_requested>>,
               pause_kind' \in {pause_kind, "none", "paused_handoff"}
        PROVE  /\ pause_requested' \/ pause_kind' = "paused_requested" => pauses' > 0
               /\ pause_kind' = "paused_error" => paused_indices' # {}
    BY <2>1 DEF NestedInv
  <2>2. CASE CheckPause
    <3>1. /\ UNCHANGED <<paused_indices, pauses>>
          /\ \/ pause_requested /\ pause_requested' = FALSE /\ pause_kind' = "paused_requested"
             \/ UNCHANGED <<pause_requested, pause_kind>>
      BY <2>2 DEF CheckPause, BeginPause
    <3> QED
      BY <3>1 DEF NestedInv
  <2>3. CASE StepFailsAndPauses
    <3>1. /\ paused_indices' = paused_indices \cup {step_idx} /\ UNCHANGED <<pauses, pause_requested>>
          /\ pause_kind' = "paused_error"
      BY <2>3 DEF StepFailsAndPauses, CountFailure, BeginPause
    <3> QED
      BY <3>1 DEF NestedInv
  <2>4. CASE RequestPause
    <3>1. UNCHANGED <<paused_indices, pause_kind>> /\ pauses' = pauses + 1
      BY <2>4 DEF RequestPause
    <3> QED
      BY <1>0, <3>1 DEF NestedInv
  <2>5. CASE SetUp \/ LoopExit \/ IndexFault \/ CheckCancel \/ Dispatch \/ TearDown \/ Unregister
    <3>1. UNCHANGED <<paused_indices, pauses, pause_requested>>
      BY <2>5 DEF SetUp, CreateDriver, SetupDriver, LoopExit, IndexFault, CheckCancel, Dispatch,
         LookaheadFault, DispatchHandoff, DispatchStep, TearDown, Cleanup, CloseDriver, Unregister
    <3>2. pause_kind' \in {pause_kind, "none", "paused_handoff"}
      BY <2>5 DEF SetUp, CreateDriver, SetupDriver, LoopExit, IndexFault, CheckCancel, Dispatch,
         LookaheadFault, DispatchHandoff, DispatchStep, BeginPause, TearDown, Cleanup, CloseDriver,
         Unregister
    <3> QED
      BY <2>1, <3>1, <3>2
  <2>6. CASE StepPasses \/ StepFailsAndStops \/ StepFailsAndContinues
    <3>1. UNCHANGED <<paused_indices, pauses, pause_requested, pause_kind>>
      BY <2>6 DEF StepPasses, StepFailsAndStops, StepFailsAndContinues, CountFailure
    <3> QED
      BY <2>1, <3>1
  <2>7. CASE Pause
    <3>1. UNCHANGED <<paused_indices, pauses, pause_requested>> /\ pause_kind' \in {pause_kind, "none"}
      BY <2>7 DEF Pause, Wake, PauseTimeout, ResumeAborts, ResumeProceeds, EndPause
    <3> QED
      BY <2>1, <3>1
  <2>8. CASE Stop \/ (\E i \in Instructions : Resume(i)) \/ PutCompletes \/ UNCHANGED vars
    <3>1. UNCHANGED <<paused_indices, pauses, pause_requested, pause_kind>>
      BY <2>8 DEF Stop, Resume, PutCompletes, vars
    <3> QED
      BY <2>1, <3>1
  <2> QED
    BY <2>2, <2>3, <2>4, <2>5, <2>6, <2>7, <2>8
    DEF Next, Thread, LoopHead, Outcome, Developer, OnLoop, Terminated
\* The frames.
<1>4. ASSUME NeverPaused', WellNested', pc' \notin Ended PROVE NestedAt(loop_stack', step_idx')
  <2>0. NeverPaused /\ WellNested /\ (pc \notin Ended => NestedAt(loop_stack, step_idx))
    BY <1>2, <1>4 DEF NestedInv
  <2>1. CASE pc \notin Ended /\ UNCHANGED <<loop_stack, step_idx>>
    BY <2>0, <2>1
  <2>2. ASSUME pc = "step" PROVE
             /\ step_idx \in 0 .. NumSteps(wf) - 1 /\ Step = StepAt(wf, step_idx)
             /\ Step \in WorkflowStep /\ NestedAt(loop_stack, step_idx)
    <3>1. NestedAt(loop_stack, step_idx) /\ 0 <= step_idx
      BY <2>0, <2>2 DEF Ended, NestedAt
    <3>2. InRange(wf, step_idx) /\ Step \in WorkflowStep
      BY <2>2, StepType DEF TypeOK
    <3> QED
      BY <1>0, <3>1, <3>2 DEF InRange, Step
  \* The round after a step that was not a loop step.
  <2>3. ASSUME pc = "step", Step.kind # "loop", NEW i \in Int, EndRound(i, loop_stack), -1 <= i,
               \A k \in DOMAIN loop_stack :
                 i \in loop_stack[k].body_start - 1 .. loop_stack[k].body_end
        PROVE  NestedAt(loop_stack', step_idx')
    <3>1. NestedAt(loop_stack, step_idx)
      BY <2>2, <2>3
    <3>2. loop_stack' = IterationStack(loop_stack, Step, i) /\ step_idx' = IterationIndex(loop_stack, Step, i) + 1
      BY <2>3 DEF EndRound
    <3>3. NestedAt(IterationStack(loop_stack, Step, i), IterationIndex(loop_stack, Step, i) + 1)
      BY <1>0, <2>3, <3>1, RoundNests
    <3> QED
      BY <3>2, <3>3
  <2>4. ASSUME pc = "step", Step.kind # "loop", EndRound(step_idx, loop_stack)
        PROVE  NestedAt(loop_stack', step_idx')
    <3>1. NestedAt(loop_stack, step_idx)
      BY <2>2, <2>4
    <3>2. \A k \in DOMAIN loop_stack :
            step_idx \in loop_stack[k].body_start - 1 .. loop_stack[k].body_end
      BY <1>0, <3>1, FramesType DEF NestedAt
    <3>3. -1 <= step_idx
      BY <1>0, <3>1 DEF NestedAt
    <3> QED
      BY <1>0, <2>3, <2>4, <3>2, <3>3
  \* A loop step ends before the bodies it lies in do.
  <2>5. ASSUME pc = "step", Step.kind = "loop"
        PROVE  /\ step_idx \in LoopSteps /\ step_idx < BodyEnd(step_idx)
               /\ BodyEnd(step_idx) = step_idx + Step.loop_steps /\ Step.loop_steps \in Int
               /\ \A k \in DOMAIN loop_stack :
                    /\ loop_stack[k].body_start <= step_idx
                    /\ BodyEnd(step_idx) < loop_stack[k].body_end
    <3>1. /\ step_idx \in 0 .. NumSteps(wf) - 1 /\ Step = StepAt(wf, step_idx)
          /\ Step \in WorkflowStep /\ NestedAt(loop_stack, step_idx)
      BY <2>2, <2>5
    <3>2. step_idx \in LoopSteps /\ BodyEnd(step_idx) = step_idx + Step.loop_steps
          /\ Step.loop_steps \in Int
      BY <2>5, <3>1 DEF LoopSteps, BodyEnd, WorkflowStep
    <3>3. step_idx < BodyEnd(step_idx)
      BY <2>0, <3>2 DEF WellNested
    <3>4. ASSUME NEW k \in DOMAIN loop_stack
          PROVE  loop_stack[k].body_start <= step_idx /\ BodyEnd(step_idx) < loop_stack[k].body_end
      <4> DEFINE l == loop_stack[k].body_start - 1
      <4>1. /\ l \in LoopSteps /\ loop_stack[k].body_end = BodyEnd(l)
            /\ step_idx \in loop_stack[k].body_start .. loop_stack[k].body_end
            /\ loop_stack[k].body_start \in Int /\ loop_stack[k].body_end \in Int
        BY <1>0, <3>1, FramesType DEF NestedAt
      <4>2. l + 1 = loop_stack[k].body_start
        BY <4>1
      <4> HIDE DEF l
      <4>3. step_idx \in l + 1 .. BodyEnd(l)
        BY <4>1, <4>2
      <4>4. BodyEnd(step_idx) < BodyEnd(l)
        BY <2>0, <3>2, <4>1, <4>3 DEF WellNested
      <4> QED
        BY <1>0, <4>1, <4>4
    <3> QED
      BY <3>2, <3>3, <3>4
  \* A loop step that goes round without a frame of its own.
  <2>6. ASSUME pc = "step", Step.kind = "loop", NEW i \in step_idx .. BodyEnd(step_idx),
               EndRound(i, loop_stack)
        PROVE  NestedAt(loop_stack', step_idx')
    <3>1. step_idx' = i + 1 /\ loop_stack' = loop_stack
      BY <2>6 DEF EndRound, IterationIndex, IterationStack, AtBodyEnd
    <3>2. BodyEnd(step_idx) \in Int /\ NestedAt(loop_stack, step_idx)
      BY <1>0, <2>2, <2>5, <2>6
    <3>3. 0 <= i + 1
      BY <1>0, <2>6, <3>2 DEF NestedAt
    <3>4. ASSUME NEW k \in DOMAIN loop_stack
          PROVE  i + 1 \in loop_stack[k].body_start .. loop_stack[k].body_end
      <4>1. loop_stack[k].body_start \in Int /\ loop_stack[k].body_end \in Int
        BY <1>0, FramesType
      <4>2. loop_stack[k].body_start <= step_idx /\ BodyEnd(step_idx) < loop_stack[k].body_end
        BY <2>5, <2>6
      <4> QED
        BY <1>0, <2>6, <3>2, <4>1, <4>2
    <3> QED
      BY <3>1, <3>2, <3>3, <3>4 DEF NestedAt
  <2>7. CASE StepPasses /\ Step.kind \notin {"conditional", "loop"}
    <3>1. EndRound(step_idx, loop_stack) /\ pc = "step"
      BY <2>7 DEF StepPasses
    <3> QED
      BY <2>4, <2>7, <3>1
  <2>8. CASE StepPasses /\ Step.kind = "conditional"
    <3>1. PICK met \in BOOLEAN :
            pc = "step" /\ EndRound(ConditionalIndex(Step, step_idx, met), loop_stack)
      BY <2>8 DEF StepPasses
    <3>2. CASE ~met
      <4>1. ConditionalIndex(Step, step_idx, met) = step_idx
        BY <3>2 DEF ConditionalIndex
      <4> QED
        BY <2>4, <2>8, <3>1, <4>1
    <3>3. CASE met = TRUE
      <4> DEFINE i == ConditionalIndex(Step, step_idx, TRUE)
      <4>1. /\ step_idx \in 0 .. NumSteps(wf) - 1 /\ Step = StepAt(wf, step_idx)
            /\ Step \in WorkflowStep /\ NestedAt(loop_stack, step_idx)
        BY <2>2, <3>1
      <4>2. i \in Int
        BY <1>0, <4>1, ConditionalIndexType
      <4>3. i >= -1 /\ \A l \in LoopSteps : step_idx \in l + 1 .. BodyEnd(l) => i \in l .. BodyEnd(l)
        BY <2>0, <2>8, <4>1 DEF WellNested
      <4> HIDE DEF i
      <4>4. ASSUME NEW k \in DOMAIN loop_stack
            PROVE  i \in loop_stack[k].body_start - 1 .. loop_stack[k].body_end
        <5> DEFINE l == loop_stack[k].body_start - 1
        <5>1. /\ l \in LoopSteps /\ loop_stack[k].body_end = BodyEnd(l)
              /\ step_idx \in loop_stack[k].body_start .. loop_stack[k].body_end
              /\ loop_stack[k].body_start \in Int
          BY <1>0, <4>1, FramesType DEF NestedAt
        <5>2. l + 1 = loop_stack[k].body_start
          BY <5>1
        <5> HIDE DEF l
        <5>3. i \in l .. BodyEnd(l)
          BY <4>3, <5>1, <5>2
        <5> QED
          BY <5>1, <5>3 DEF l
      <4>5. EndRound(i, loop_stack)
        BY <3>1, <3>3 DEF i
      <4>6. -1 <= i
        BY <4>2, <4>3
      <4> QED
        BY <2>3, <2>8, <3>1, <4>2, <4>4, <4>5, <4>6
    <3> QED
      BY <3>2, <3>3
  <2>9. CASE StepPasses /\ Step.kind = "loop"
    <3>1. PICK n \in 0 .. MaxItems :
            /\ pc = "step"
            /\ EndRound(LoopStartIndex(Step, step_idx, n), LoopStartStack(loop_stack, Step, step_idx, n))
      BY <2>9 DEF StepPasses
    <3>2. CASE n = 0
      <4>1. LoopStartIndex(Step, step_idx, n) = BodyEnd(step_idx)
            /\ LoopStartStack(loop_stack, Step, step_idx, n) = loop_stack
        BY <2>5, <2>9, <3>1, <3>2 DEF LoopStartIndex, LoopStartStack
      <4>2. BodyEnd(step_idx) \in step_idx .. BodyEnd(step_idx)
        BY <1>0, <2>5, <2>9, <3>1
      <4> QED
        BY <2>6, <2>9, <3>1, <4>1, <4>2
    <3>3. CASE n # 0
      <4> DEFINE frame == [items |-> n, current_index |-> 0,
                           body_start |-> step_idx + 1, body_end |-> step_idx + Step.loop_steps]
                 m == Len(loop_stack)
                 T == Append(loop_stack, frame)
      <4>1. /\ LoopStartIndex(Step, step_idx, n) = step_idx
            /\ LoopStartStack(loop_stack, Step, step_idx, n) = T
        BY <3>3 DEF LoopStartIndex, LoopStartStack
      <4>2. step_idx' = step_idx + 1 /\ loop_stack' = T
        BY <2>9, <3>1, <4>1 DEF EndRound, IterationIndex, IterationStack, AtBodyEnd
      <4>3. /\ frame.body_start - 1 = step_idx /\ frame.body_start = step_idx + 1
            /\ frame.body_end = BodyEnd(step_idx)
            /\ BodyEnd(step_idx) \in Int /\ step_idx < BodyEnd(step_idx) /\ step_idx \in LoopSteps
        BY <1>0, <2>5, <2>9, <3>1
      <4> HIDE DEF frame
      <4>4. /\ m \in Nat /\ DOMAIN loop_stack = 1 .. m /\ DOMAIN T = 1 .. m + 1
            /\ \A k \in 1 .. m : T[k] = loop_stack[k]
            /\ T[m + 1] = frame
        BY <1>0 DEF Frames
      <4>5. \A k \in 1 .. m : /\ loop_stack[k].body_start \in Int /\ loop_stack[k].body_end \in Int
                              /\ loop_stack[k].body_start <= step_idx
                              /\ BodyEnd(step_idx) < loop_stack[k].body_end
        BY <1>0, <2>5, <2>9, <3>1, <4>4, FramesType
      <4>6. NestedAt(loop_stack, step_idx)
        BY <2>2, <3>1
      <4> HIDE DEF T, m
      <4>7. ASSUME NEW k \in 1 .. m + 1
            PROVE  /\ T[k].body_start - 1 \in LoopSteps
                   /\ T[k].body_end = BodyEnd(T[k].body_start - 1)
                   /\ step_idx + 1 \in T[k].body_start .. T[k].body_end
        <5>1. CASE k = m + 1
          BY <1>0, <4>3, <4>4, <5>1
        <5>2. CASE k \in 1 .. m
          <6>1. T[k] = loop_stack[k]
            BY <4>4, <5>2
          <6>2. /\ loop_stack[k].body_start - 1 \in LoopSteps
                /\ loop_stack[k].body_end = BodyEnd(loop_stack[k].body_start - 1)
            BY <4>4, <4>6, <5>2 DEF NestedAt
          <6>3. step_idx + 1 \in loop_stack[k].body_start .. loop_stack[k].body_end
            BY <1>0, <4>3, <4>5, <5>2
          <6> QED
            BY <6>1, <6>2, <6>3
        <5> QED
          BY <4>4, <5>1, <5>2
      <4>8. ASSUME NEW k \in 1 .. m + 1, NEW l \in 1 .. m + 1, k < l
            PROVE  T[k].body_start < T[l].body_start /\ T[l].body_end < T[k].body_end
        <5>1. k \in 1 .. m
          BY <4>4, <4>8
        <5>2. CASE l = m + 1
          BY <1>0, <4>3, <4>4, <4>5, <5>1, <5>2
        <5>3. CASE l \in 1 .. m
          BY <4>4, <4>6, <4>8, <5>1, <5>3 DEF NestedAt
        <5> QED
          BY <4>4, <5>2, <5>3
      <4>9. 0 <= step_idx + 1
        BY <1>0, <4>6 DEF NestedAt
      <4> QED
        BY <4>2, <4>4, <4>7, <4>8, <4>9 DEF NestedAt
    <3> QED
      BY <3>2, <3>3
  <2>10. CASE StepFailsAndContinues
    <3>1. pc = "step" /\ EndRound(step_idx, loop_stack)
      BY <2>10 DEF StepFailsAndContinues, CountFailure
    <3>2. Step.kind = "loop" => step_idx \in step_idx .. BodyEnd(step_idx)
      BY <1>0, <2>5, <3>1
    <3> QED
      BY <2>4, <2>6, <3>1, <3>2
  <2>11. CASE StepFailsAndPauses
    <3>1. step_idx \in paused_indices'
      BY <2>11 DEF StepFailsAndPauses
    <3> QED
      BY <1>4, <3>1 DEF NeverPaused
  <2>12. CASE ResumeProceeds
    <3>1. pc = "woken" /\ pause_kind \in PauseStates
      BY <2>12 DEF ResumeProceeds, TypeOK
    <3>2. pause_kind # "paused_requested" /\ pause_kind # "paused_error"
      BY <2>0, <1>0 DEF NestedInv, NeverPaused
    <3>3. Step.kind = "handoff" /\ InRange(wf, step_idx)
      BY <3>1, <3>2 DEF PauseStates, ArmedInv, TypeOK
    <3>4. PICK k \in DOMAIN wf.steps : Step = wf.steps[k]
      BY <1>0, <3>3 DEF Step, StepAt, InRange, Workflow, NumSteps
    <3> QED
      BY <2>0, <3>3, <3>4 DEF NeverPaused
  <2>13. CASE SetUp \/ LoopHead \/ Dispatch \/ Wake \/ PauseTimeout
    <3>1. pc \notin Ended /\ UNCHANGED <<loop_stack, step_idx>>
      BY <2>13 DEF SetUp, CreateDriver, SetupDriver, LoopHead, LoopExit, IndexFault, CheckCancel,
         CheckPause, Dispatch, LookaheadFault, DispatchHandoff, DispatchStep, Wake, PauseTimeout, Ended
    <3> QED
      BY <2>1, <3>1
  <2>14. CASE StepFailsAndStops \/ ResumeAborts \/ TearDown \/ Unregister
    BY <1>4, <2>14 DEF StepFailsAndStops, ResumeAborts, Leave, TearDown, Cleanup, CloseDriver,
       Unregister, Ended
  <2>15. CASE Developer \/ PutCompletes \/ UNCHANGED vars
    <3>1. UNCHANGED <<pc, loop_stack, step_idx>>
      BY <2>15 DEF Developer, Stop, RequestPause, Resume, PutCompletes, vars
    <3> QED
      BY <1>4, <2>1, <3>1
  <2>16. StepPasses => StepPasses /\ (Step.kind = "conditional" \/ Step.kind = "loop"
                                      \/ Step.kind \notin {"conditional", "loop"})
    OBVIOUS
  <2> QED
    BY <2>7, <2>8, <2>9, <2>10, <2>11, <2>12, <2>13, <2>14, <2>15, <2>16
    DEF Next, Thread, Outcome, Pause, OnLoop, Terminated
<1> QED
  BY <1>2, <1>3, <1>4 DEF NestedInv

\* As long as nothing has paused it, a workflow whose loop bodies nest is run
\* with the stack of frames that its text gives the next step: no frame leaks
\* and none is popped early, whatever the loops iterate over, and wherever
\* conditionals go inside a body.
THEOREM LoopsNest == Spec => []FramesNest
<1>1. Init => ArmedInv /\ NestedInv
  <2>1. Init => ArmedInv
    BY RowsInit
  <2>2. Init => NestedInv
    BY DEF Init, NestedInv, NestedAt
  <2> QED
    BY <2>1, <2>2
<1>2. TypeOK /\ NestedInv => FramesNest
  <2> SUFFICES ASSUME TypeOK, NestedInv, pc = "top", NeverPaused, WellNested
               PROVE  /\ \A k \in DOMAIN loop_stack :
                           step_idx \in loop_stack[k].body_start .. loop_stack[k].body_end
                      /\ \A k \in 1 .. Len(loop_stack) - 1 :
                           /\ loop_stack[k].body_start < loop_stack[k + 1].body_start
                           /\ loop_stack[k + 1].body_end < loop_stack[k].body_end
    BY DEF FramesNest
  <2>1. NestedAt(loop_stack, step_idx)
    BY DEF NestedInv, Ended
  <2>2. Len(loop_stack) \in Nat /\ DOMAIN loop_stack = 1 .. Len(loop_stack)
    BY FramesType DEF TypeOK
  <2>3. \A k \in 1 .. Len(loop_stack) - 1 :
          k \in DOMAIN loop_stack /\ k + 1 \in DOMAIN loop_stack /\ k < k + 1
    BY <2>2
  <2> QED
    BY <2>1, <2>3 DEF NestedAt
<1> QED
  BY <1>1, <1>2, TypeCorrect, ArmedNext, NestedNext, PTL DEF Spec

-----------------------------------------------------------------------------
(* Visits.                                                                   *)

\* The product of a place and the first j numbers has j elements.
LEMMA ItemsOfRow ==
  ASSUME NEW i, NEW j \in Nat
  PROVE  IsFiniteSet({i} \X (1 .. j)) /\ Cardinality({i} \X (1 .. j)) = j
<1> DEFINE f == [k \in 1 .. j |-> <<i, k>>]
<1>1. f \in Bijection(1 .. j, {i} \X (1 .. j))
  <2>1. f \in [1 .. j -> {i} \X (1 .. j)]
    OBVIOUS
  <2>2. \A k, l \in 1 .. j : f[k] = f[l] => k = l
    OBVIOUS
  <2>3. \A t \in {i} \X (1 .. j) : \E k \in 1 .. j : f[k] = t
    OBVIOUS
  <2> HIDE DEF f
  <2> QED
    BY <2>1, <2>2, <2>3 DEF Bijection, Injection, Surjection, IsInjective
<1>2. IsFiniteSet(1 .. j) /\ Cardinality(1 .. j) = j
  BY FS_Interval
<1> HIDE DEF f
<1> QED
  BY <1>1, <1>2, FS_Bijection DEF ExistsBijection

\* There are finitely many rows of a step, and items in them.
LEMMA RowsFinite ==
  ASSUME NEW rows \in Rows, NEW i
  PROVE  /\ IsFiniteSet(RowsOf(rows, i)) /\ Cardinality(RowsOf(rows, i)) \in Nat
         /\ IsFiniteSet(ItemsOf(rows, i)) /\ Cardinality(ItemsOf(rows, i)) \in Nat
<1> DEFINE R == RowsOf(rows, i)
           f == [k \in R |-> {k} \X (1 .. rows[k].output)]
           T == {f[k] : k \in R}
<1>1. IsFiniteSet(1 .. Len(rows)) /\ R \subseteq 1 .. Len(rows)
  <2>1. DOMAIN rows = 1 .. Len(rows) /\ Len(rows) \in Int
    BY DEF Rows
  <2> QED
    BY <2>1, FS_Interval DEF RowsOf
<1>2. IsFiniteSet(R)
  BY <1>1, FS_Subset
<1>3. f \in Surjection(R, T)
  <2>1. f \in [R -> T] /\ \A t \in T : \E k \in R : f[k] = t
    OBVIOUS
  <2> HIDE DEF f, T, R
  <2> QED
    BY <2>1 DEF Surjection
<1>4. \A t \in T : IsFiniteSet(t)
  <2>1. \A k \in R : k \in DOMAIN rows
    BY DEF RowsOf
  <2> SUFFICES ASSUME NEW k \in R PROVE IsFiniteSet(f[k])
    OBVIOUS
  <2>2. rows[k].output \in Nat
    BY <2>1, RowAt
  <2>3. IsFiniteSet({k} \X (1 .. rows[k].output))
    BY <2>2, ItemsOfRow
  <2> QED
    BY <2>3
<1>5. ItemsOf(rows, i) = UNION T
  <2>1. T = {{k} \X (1 .. rows[k].output) : k \in R}
    OBVIOUS
  <2> QED
    BY <2>1 DEF ItemsOf
<1> HIDE DEF T, f
<1>6. IsFiniteSet(T)
  BY <1>2, <1>3, FS_Surjection
<1>7. IsFiniteSet(ItemsOf(rows, i))
  BY <1>4, <1>5, <1>6, FS_UNION
<1> QED
  BY <1>2, <1>7, FS_CardinalityType

\* A row adds itself to those of its step, and its items to that step's.
LEMMA RowCounted ==
  ASSUME TypeOK, NEW status \in {"passed", "failed"}, NEW output \in Nat,
         results' = Append(results, Row(status, output)), NEW i
  PROVE  /\ Cardinality(RowsOf(results', i))
              = Cardinality(RowsOf(results, i)) + (IF i = step_idx THEN 1 ELSE 0)
         /\ Cardinality(ItemsOf(results', i))
              = Cardinality(ItemsOf(results, i)) + (IF i = step_idx THEN output ELSE 0)
<1> DEFINE n == Len(results)
           A == RowsOf(results, i)
           B == RowsOf(results', i)
           I == ItemsOf(results, i)
           J == ItemsOf(results', i)
           new == {n + 1} \X (1 .. output)
<1>1. /\ results \in Rows /\ results' \in Rows /\ n \in Nat
      /\ DOMAIN results = 1 .. n /\ DOMAIN results' = 1 .. n + 1
      /\ \A k \in 1 .. n : results'[k] = results[k]
      /\ results'[n + 1].step = step_idx /\ results'[n + 1].output = output
  BY Appended
<1>2. /\ IsFiniteSet(A) /\ Cardinality(A) \in Nat
      /\ IsFiniteSet(I) /\ Cardinality(I) \in Nat
  BY <1>1, RowsFinite
<1>3. B = IF i = step_idx THEN A \cup {n + 1} ELSE A
  BY <1>1 DEF RowsOf
<1>4. n + 1 \notin A
  BY <1>1 DEF RowsOf
<1>5. Cardinality(B) = Cardinality(A) + (IF i = step_idx THEN 1 ELSE 0)
  <2> HIDE DEF A, B
  <2>1. Cardinality(A \cup {n + 1}) = Cardinality(A) + 1
    BY <1>2, <1>4, FS_AddElement
  <2> QED
    BY <1>2, <1>3, <2>1
<1>6. \A k \in A : results'[k] = results[k]
  BY <1>1 DEF RowsOf
<1>7. I = UNION {{k} \X (1 .. results'[k].output) : k \in A}
  <2>1. {{k} \X (1 .. results[k].output) : k \in A} = {{k} \X (1 .. results'[k].output) : k \in A}
    <3> HIDE DEF A
    <3> QED
      BY <1>6
  <2> QED
    BY <2>1 DEF ItemsOf
<1>8. J = IF i = step_idx THEN I \cup new ELSE I
  <2>1. CASE i # step_idx
    BY <1>3, <1>7, <2>1 DEF ItemsOf
  <2>2. CASE i = step_idx
    <3>1. J = UNION {{k} \X (1 .. results'[k].output) : k \in A \cup {n + 1}}
      BY <1>3, <2>2 DEF ItemsOf
    <3>2. ASSUME NEW p PROVE p \in J <=> p \in I \cup new
      <4>1. p \in J <=> \E k \in A \cup {n + 1} : p \in {k} \X (1 .. results'[k].output)
        BY <3>1
      <4>2. p \in I <=> \E k \in A : p \in {k} \X (1 .. results'[k].output)
        BY <1>7
      <4>3. p \in new <=> p \in {n + 1} \X (1 .. results'[n + 1].output)
        BY <1>1
      <4> HIDE DEF A, I, J, new
      <4> QED
        BY <4>1, <4>2, <4>3
    <3>3. J = I \cup new
      <4> HIDE DEF I, J, new
      <4> QED
        BY <3>2
    <3> QED
      BY <2>2, <3>3
  <2> QED
    BY <2>1, <2>2
<1>9. I \cap new = {}
  <2>1. ASSUME NEW p \in I PROVE p[1] # n + 1
    <3>1. PICK k \in A : p \in {k} \X (1 .. results'[k].output)
      BY <1>7
    <3>2. p[1] = k
      BY <3>1
    <3> QED
      BY <1>4, <3>2
  <2>2. \A p \in new : p[1] = n + 1
    OBVIOUS
  <2> QED
    BY <2>1, <2>2
<1>10. Cardinality(J) = Cardinality(I) + (IF i = step_idx THEN output ELSE 0)
  <2>1. IsFiniteSet(new) /\ Cardinality(new) = output
    BY ItemsOfRow
  <2> HIDE DEF I, J, new
  <2>2. Cardinality(I \cup new) = Cardinality(I) + Cardinality(new) - Cardinality(I \cap new)
    BY <1>2, <2>1, FS_Union
  <2>3. Cardinality(I \cap new) = 0
    BY <1>9, FS_EmptySet
  <2> QED
    BY <1>2, <1>8, <2>1, <2>2, <2>3
<1> QED
  BY <1>5, <1>10

\* What LoopOf says, in the words of WellNested.
InBody(l, j) ==
  /\ l \in LoopSteps /\ j \in l + 1 .. BodyEnd(l)
  /\ \A k \in LoopSteps : k \in l + 1 .. j - 1 => BodyEnd(k) < j

\* A step of a body whose last round has begun is owed none once the index has
\* passed it: n is what the step at j still has to come, of the loop at l.
Owes(stack, i, l, j, n) ==
  /\ \A k \in DOMAIN stack : stack[k].body_start = l + 1 =>
       n = (stack[k].items - stack[k].current_index) - (IF j < i THEN 1 ELSE 0)
  /\ (\A k \in DOMAIN stack : stack[k].body_start # l + 1) => n = 0

\* Every body the index is in has its frame, and every frame is in a round.
Visiting(stack, i) ==
  /\ \A l \in LoopSteps : i \in l + 1 .. BodyEnd(l) =>
       \E k \in DOMAIN stack : stack[k].body_start = l + 1
  /\ \A k \in DOMAIN stack : stack[k].current_index < stack[k].items

\* The positions of loops are numbers.
LEMMA LoopStepsType ==
  ASSUME wf \in Workflow
  PROVE  \A l \in LoopSteps : l \in Nat /\ BodyEnd(l) \in Int
<1> SUFFICES ASSUME NEW l \in LoopSteps PROVE l \in Nat /\ BodyEnd(l) \in Int
  OBVIOUS
<1>1. NumSteps(wf) \in Nat /\ l \in 0 .. NumSteps(wf) - 1
  BY DEF LoopSteps, Workflow, NumSteps
<1>2. l \in Nat /\ InRange(wf, l)
  BY <1>1 DEF InRange
<1>3. StepAt(wf, l) \in WorkflowStep
  BY <1>2, StepAtType
<1> QED
  BY <1>2, <1>3 DEF BodyEnd, WorkflowStep

\* A step in a body and outside the loops within.
LEMMA LoopOfBody ==
  ASSUME wf \in Workflow, NEW l \in 0 .. NumSteps(wf) - 1, NEW j \in 0 .. NumSteps(wf) - 1,
         LoopOf(l, j)
  PROVE  InBody(l, j)
<1>0. NumSteps(wf) \in Nat
  BY DEF Workflow, NumSteps
<1>1. l \in LoopSteps /\ j \in l + 1 .. BodyEnd(l)
  BY DEF LoopOf, LoopSteps, BodyEnd
<1>2. ASSUME NEW k \in LoopSteps, k \in l + 1 .. j - 1 PROVE BodyEnd(k) < j
  <2>1. j > k + StepAt(wf, k).loop_steps
    BY <1>2 DEF LoopOf, LoopSteps
  <2>2. BodyEnd(k) \in Int /\ j \in Int
    BY <1>0, LoopStepsType
  <2> QED
    BY <2>1, <2>2 DEF BodyEnd
<1> QED
  BY <1>1, <1>2 DEF InBody

\* What the proofs use of the frames around the index.
LEMMA NestedFrames ==
  ASSUME wf \in Workflow, NEW stack \in Frames, NEW i \in Int, NestedAt(stack, i)
  PROVE  /\ Len(stack) \in Nat /\ DOMAIN stack = 1 .. Len(stack)
         /\ \A k \in 1 .. Len(stack) :
              /\ stack[k] \in LoopFrame
              /\ stack[k].items \in Nat /\ stack[k].current_index \in Nat
              /\ stack[k].body_start \in Int /\ stack[k].body_end \in Int
              /\ stack[k].body_start - 1 \in LoopSteps
              /\ stack[k].body_end = BodyEnd(stack[k].body_start - 1)
              /\ stack[k].body_start <= i /\ i <= stack[k].body_end
              /\ \A l \in LoopSteps : stack[k].body_start = l + 1 =>
                   /\ stack[k].body_start - 1 = l
                   /\ stack[k].body_end = BodyEnd(l) /\ l < i /\ i <= BodyEnd(l)
<1>1. /\ Len(stack) \in Nat /\ DOMAIN stack = 1 .. Len(stack)
      /\ \A k \in 1 .. Len(stack) : /\ stack[k] \in LoopFrame
                                    /\ stack[k].body_start \in Int /\ stack[k].body_end \in Int
  BY FramesType
<1>2. \A f \in LoopFrame : f.items \in Nat /\ f.current_index \in Nat
  BY DEF LoopFrame
<1>3. \A k \in 1 .. Len(stack) :
        /\ stack[k].body_start - 1 \in LoopSteps
        /\ stack[k].body_end = BodyEnd(stack[k].body_start - 1)
        /\ stack[k].body_start <= i /\ i <= stack[k].body_end
  BY <1>1 DEF NestedAt
<1>4. ASSUME NEW k \in 1 .. Len(stack), NEW l \in LoopSteps, stack[k].body_start = l + 1
      PROVE  /\ stack[k].body_start - 1 = l
             /\ stack[k].body_end = BodyEnd(l) /\ l < i /\ i <= BodyEnd(l)
  <2>1. l \in Nat
    BY LoopStepsType
  <2>2. stack[k].body_start - 1 = l
    BY <1>4, <2>1
  <2> QED
    BY <1>1, <1>3, <1>4, <2>1, <2>2
<1> QED
  BY <1>1, <1>2, <1>3, <1>4

\* A step of a body the index is in has a frame; so a step without one is not
\* the one at the index.
LEMMA Unframed ==
  ASSUME wf \in Workflow, NEW stack, NEW i \in Int, Visiting(stack, i), NEW l, NEW j \in Int,
         InBody(l, j), \A k \in DOMAIN stack : stack[k].body_start # l + 1
  PROVE  j # i
  BY DEF InBody, Visiting

\* A round that ends at a step without a loop of its own leaves each body's
\* steps one visit less to come: those of the step it ends at.
LEMMA RoundVisits ==
  ASSUME wf \in Workflow, WellNested, NEW stack \in Frames, NEW s, s.kind # "loop",
         NEW i \in Int, i \notin LoopSteps, NestedAt(stack, i), Visiting(stack, i)
  PROVE  LET T == IterationStack(stack, s, i)
             t == IterationIndex(stack, s, i) + 1
         IN  /\ Visiting(T, t)
             /\ \A l, n \in Int : \A j \in Int :
                  InBody(l, j) /\ Owes(stack, i, l, j, n) =>
                    Owes(T, t, l, j, n - (IF j = i THEN 1 ELSE 0))
<1> DEFINE m == Len(stack)
<1>1. /\ m \in Nat /\ DOMAIN stack = 1 .. m
      /\ \A k \in 1 .. m :
           /\ stack[k] \in LoopFrame
           /\ stack[k].items \in Nat /\ stack[k].current_index \in Nat
           /\ stack[k].body_start \in Int /\ stack[k].body_end \in Int
           /\ stack[k].body_start - 1 \in LoopSteps
           /\ stack[k].body_end = BodyEnd(stack[k].body_start - 1)
           /\ stack[k].body_start <= i /\ i <= stack[k].body_end
           /\ \A l \in LoopSteps : stack[k].body_start = l + 1 =>
                /\ stack[k].body_start - 1 = l
                /\ stack[k].body_end = BodyEnd(l) /\ l < i /\ i <= BodyEnd(l)
  BY NestedFrames
<1>2. \A k, l \in 1 .. m : k < l => /\ stack[k].body_start < stack[l].body_start
                                    /\ stack[l].body_end < stack[k].body_end
  BY <1>1 DEF NestedAt
<1>3. \A l \in LoopSteps : l \in Nat /\ BodyEnd(l) \in Int
  BY LoopStepsType
<1>4. /\ \A l \in LoopSteps : i \in l + 1 .. BodyEnd(l) =>
           \E k \in 1 .. m : stack[k].body_start = l + 1
      /\ \A k \in 1 .. m : stack[k].current_index < stack[k].items
  BY <1>1 DEF Visiting
\* The index moves on by one; bodies that have no frame are not at j.
<1>5. ASSUME NEW T, DOMAIN T \subseteq 1 .. m, \A k \in DOMAIN T : T[k] = stack[k],
             NEW l \in Int, NEW j \in Int, NEW n \in Int, InBody(l, j), Owes(stack, i, l, j, n),
             \A k \in 1 .. m : stack[k].body_start = l + 1 =>
               k \in DOMAIN T \/ (i = BodyEnd(l) /\ stack[k].items - stack[k].current_index = 1)
      PROVE  Owes(T, i + 1, l, j, n - (IF j = i THEN 1 ELSE 0))
  <2>0. (IF j < i + 1 THEN 1 ELSE 0) = (IF j < i THEN 1 ELSE 0) + (IF j = i THEN 1 ELSE 0)
    OBVIOUS
  <2>1. ASSUME NEW k \in DOMAIN T, T[k].body_start = l + 1
        PROVE  n - (IF j = i THEN 1 ELSE 0)
                 = (T[k].items - T[k].current_index) - (IF j < i + 1 THEN 1 ELSE 0)
    <3>1. k \in 1 .. m /\ T[k] = stack[k]
      BY <1>5, <2>1
    <3>2. n = (T[k].items - T[k].current_index) - (IF j < i THEN 1 ELSE 0)
      BY <1>1, <1>5, <2>1, <3>1 DEF Owes
    <3>3. T[k].items \in Int /\ T[k].current_index \in Int
      BY <1>1, <3>1
    <3> QED
      BY <2>0, <3>2, <3>3
  <2>2. ASSUME \A k \in DOMAIN T : T[k].body_start # l + 1
        PROVE  n - (IF j = i THEN 1 ELSE 0) = 0
    <3>1. CASE \A k \in 1 .. m : stack[k].body_start # l + 1
      <4>1. n = 0 /\ j # i
        BY <1>1, <1>5, <3>1, Unframed DEF Owes
      <4>2. (IF j = i THEN 1 ELSE 0) = 0
        BY <4>1
      <4>3. 0 - 0 = 0
        OBVIOUS
      <4> QED
        BY <4>1, <4>2, <4>3, Zenon
    <3>2. CASE \E k \in 1 .. m : stack[k].body_start = l + 1
      <4>1. PICK k \in 1 .. m : stack[k].body_start = l + 1
        BY <3>2
      <4>2. i = BodyEnd(l) /\ stack[k].items - stack[k].current_index = 1
        BY <1>5, <2>2, <4>1
      <4>3. n = (stack[k].items - stack[k].current_index) - (IF j < i THEN 1 ELSE 0)
        BY <1>1, <1>5, <4>1 DEF Owes
      <4>4. j <= i
        BY <1>3, <1>5, <4>2 DEF InBody
      <4> QED
        BY <4>2, <4>3, <4>4
    <3> QED
      BY <3>1, <3>2
  <2> QED
    BY <2>1, <2>2 DEF Owes
\* A body that the next step is in has begun.
<1>6. ASSUME NEW l \in LoopSteps, i + 1 \in l + 1 .. BodyEnd(l)
      PROVE  i \in l + 1 .. BodyEnd(l)
  BY <1>3, <1>6
<1> HIDE DEF m
<1>7. CASE ~AtBodyEnd(stack, s, i)
  <2>1. IterationStack(stack, s, i) = stack /\ IterationIndex(stack, s, i) = i
    BY <1>7 DEF IterationStack, IterationIndex
  <2>2. Visiting(stack, i + 1)
    BY <1>1, <1>4, <1>6 DEF Visiting
  <2>3. \A l, n \in Int : \A j \in Int :
          InBody(l, j) /\ Owes(stack, i, l, j, n) =>
            Owes(stack, i + 1, l, j, n - (IF j = i THEN 1 ELSE 0))
    BY <1>1, <1>5
  <2> QED
    BY <2>1, <2>2, <2>3
<1>8. CASE AtBodyEnd(stack, s, i)
  <2>1. m \in 1 .. m /\ i = stack[m].body_end /\ Innermost(stack) = stack[m]
    BY <1>1, <1>8 DEF AtBodyEnd, Innermost, m
  <2> DEFINE l0 == stack[m].body_start - 1
  <2>2. l0 \in LoopSteps /\ l0 \in Nat /\ i = BodyEnd(l0) /\ stack[m].body_start = l0 + 1 /\ l0 < i
    BY <1>1, <1>3, <2>1
  <2> HIDE DEF l0
  <2>3. CASE MoreItems(Innermost(stack))
    <3> DEFINE T == [stack EXCEPT ![m].current_index = @ + 1]
    <3>1. /\ IterationStack(stack, s, i) = T
          /\ IterationIndex(stack, s, i) + 1 = l0 + 1
      BY <1>8, <2>1, <2>2, <2>3 DEF IterationStack, IterationIndex, m
    <3>2. stack[m].current_index + 1 < stack[m].items
      BY <2>1, <2>3 DEF MoreItems
    <3>3. /\ DOMAIN T = 1 .. m
          /\ \A k \in 1 .. m :
               /\ T[k].body_start = stack[k].body_start /\ T[k].items = stack[k].items
               /\ k # m => T[k].current_index = stack[k].current_index
          /\ T[m].current_index = stack[m].current_index + 1
      BY <1>1, <2>1 DEF LoopFrame
    <3> HIDE DEF T
    <3>4. Visiting(T, l0 + 1)
      <4>1. ASSUME NEW l \in LoopSteps, l0 + 1 \in l + 1 .. BodyEnd(l)
            PROVE  \E k \in 1 .. m : stack[k].body_start = l + 1
        <5>1. CASE l = l0
          BY <2>1, <2>2, <5>1
        <5>2. CASE l # l0
          <6>1. l0 \in l + 1 .. BodyEnd(l)
            BY <1>3, <2>2, <4>1, <5>2
          <6>2. BodyEnd(l0) < BodyEnd(l)
            BY <2>2, <6>1 DEF WellNested
          <6>3. i \in l + 1 .. BodyEnd(l)
            BY <1>3, <2>2, <6>1, <6>2
          <6> QED
            BY <1>4, <6>3
        <5> QED
          BY <5>1, <5>2
      <4>2. \A k \in 1 .. m : T[k].current_index < T[k].items
        BY <1>1, <1>4, <3>2, <3>3
      <4> QED
        BY <3>3, <4>1, <4>2 DEF Visiting
    <3>5. ASSUME NEW l \in Int, NEW n \in Int, NEW j \in Int, InBody(l, j), Owes(stack, i, l, j, n)
          PROVE  Owes(T, l0 + 1, l, j, n - (IF j = i THEN 1 ELSE 0))
      <4>0. l \in LoopSteps /\ l + 1 <= j /\ j <= BodyEnd(l) /\ BodyEnd(l) \in Int
        BY <1>3, <3>5 DEF InBody
      <4>1. ASSUME NEW k \in 1 .. m, T[k].body_start = l + 1
            PROVE  n - (IF j = i THEN 1 ELSE 0)
                     = (T[k].items - T[k].current_index) - (IF j < l0 + 1 THEN 1 ELSE 0)
        <5>1. stack[k].body_start = l + 1
          BY <3>3, <4>1
        <5>2. n = (stack[k].items - stack[k].current_index) - (IF j < i THEN 1 ELSE 0)
          BY <1>1, <3>5, <5>1 DEF Owes
        <5>3. CASE k = m
          <6>1. l = l0 /\ j <= i /\ ~(j < l0 + 1)
            BY <2>2, <4>0, <5>1, <5>3
          <6>2. T[k].items = stack[k].items /\ T[k].current_index = stack[k].current_index + 1
            BY <3>3, <5>3
          <6> QED
            BY <1>1, <5>2, <6>1, <6>2
        <5>4. CASE k # m
          <6>1. l < l0
            BY <1>1, <1>2, <2>1, <2>2, <4>0, <5>1, <5>4
          <6>2. j <= i => j <= l0
            BY <2>2, <3>5, <4>0, <6>1 DEF InBody
          <6>3. (IF j < i THEN 1 ELSE 0) + (IF j = i THEN 1 ELSE 0) = (IF j < l0 + 1 THEN 1 ELSE 0)
            BY <2>2, <6>2
          <6>4. T[k].items = stack[k].items /\ T[k].current_index = stack[k].current_index
            BY <3>3, <5>4
          <6> QED
            BY <1>1, <5>2, <6>3, <6>4
        <5> QED
          BY <5>3, <5>4
      <4>2. ASSUME \A k \in 1 .. m : T[k].body_start # l + 1
            PROVE  n - (IF j = i THEN 1 ELSE 0) = 0
        <5>1. \A k \in 1 .. m : stack[k].body_start # l + 1
          BY <3>3, <4>2
        <5>2. n = 0 /\ j # i
          BY <1>1, <3>5, <5>1, Unframed DEF Owes
        <5>3. (IF j = i THEN 1 ELSE 0) = 0
          BY <5>2
        <5>4. 0 - 0 = 0
          OBVIOUS
        <5> QED
          BY <5>2, <5>3, <5>4, Zenon
      <4> QED
        BY <3>3, <4>1, <4>2 DEF Owes
    <3> QED
      BY <3>1, <3>4, <3>5
  <2>4. CASE ~MoreItems(Innermost(stack))
    <3> DEFINE T == SubSeq(stack, 1, m - 1)
    <3>1. IterationStack(stack, s, i) = T /\ IterationIndex(stack, s, i) = i
      BY <1>8, <2>1, <2>4 DEF IterationStack, IterationIndex, m
    <3>2. DOMAIN T = 1 .. m - 1 /\ \A k \in 1 .. m - 1 : T[k] = stack[k]
      BY <1>1 DEF Frames, m
    <3> HIDE DEF T
    <3>3. stack[m].items - stack[m].current_index = 1
      BY <1>1, <1>4, <2>1, <2>4 DEF MoreItems
    <3>4. Visiting(T, i + 1)
      <4>1. ASSUME NEW l \in LoopSteps, i + 1 \in l + 1 .. BodyEnd(l)
            PROVE  \E k \in 1 .. m - 1 : stack[k].body_start = l + 1
        <5>1. i \in l + 1 .. BodyEnd(l)
          BY <1>6, <4>1
        <5>2. PICK k \in 1 .. m : stack[k].body_start = l + 1
          BY <1>4, <5>1
        <5>3. k # m
          BY <1>1, <1>3, <2>1, <4>1, <5>2
        <5> QED
          BY <1>1, <5>2, <5>3
      <4>2. 1 .. m - 1 \subseteq 1 .. m
        BY <1>1
      <4> QED
        BY <1>4, <3>2, <4>1, <4>2 DEF Visiting
    <3>5. ASSUME NEW l \in Int, NEW n \in Int, NEW j \in Int, InBody(l, j), Owes(stack, i, l, j, n)
          PROVE  Owes(T, i + 1, l, j, n - (IF j = i THEN 1 ELSE 0))
      <4>1. DOMAIN T \subseteq 1 .. m /\ \A k \in DOMAIN T : T[k] = stack[k]
        BY <1>1, <3>2
      <4>2. ASSUME NEW k \in 1 .. m, stack[k].body_start = l + 1
            PROVE  k \in DOMAIN T
                     \/ (i = BodyEnd(l) /\ stack[k].items - stack[k].current_index = 1)
        <5>1. CASE k = m
          <6>1. l = l0
            BY <2>2, <4>2, <5>1
          <6> QED
            BY <2>2, <3>3, <5>1, <6>1
        <5>2. CASE k # m
          BY <1>1, <3>2, <5>2
        <5> QED
          BY <5>1, <5>2
      <4> QED
        BY <1>5, <3>5, <4>1, <4>2
    <3> QED
      BY <3>1, <3>4, <3>5
  <2> QED
    BY <2>3, <2>4
<1> QED
  BY <1>7, <1>8

\* A loop step adds its items to what its body's steps have to come.
LEMMA LoopVisits ==
  ASSUME wf \in Workflow, WellNested, NEW stack \in Frames, NEW i \in LoopSteps,
         NEW s, BodyEnd(i) = i + s.loop_steps,
         NestedAt(stack, i), Visiting(stack, i), NEW c \in Nat
  PROVE  LET T == LoopStartStack(stack, s, i, c)
             t == LoopStartIndex(s, i, c) + 1
         IN  /\ Visiting(T, t)
             /\ \A l, n \in Int : \A j \in Int :
                  InBody(l, j) /\ Owes(stack, i, l, j, n) =>
                    Owes(T, t, l, j, (n - (IF j = i THEN 1 ELSE 0)) + (IF l = i THEN c ELSE 0))
<1> DEFINE m == Len(stack)
<1>1. i \in Nat /\ \A l \in LoopSteps : l \in Nat /\ BodyEnd(l) \in Int
  BY LoopStepsType
<1>2. /\ m \in Nat /\ DOMAIN stack = 1 .. m
      /\ \A k \in 1 .. m :
           /\ stack[k].items \in Nat /\ stack[k].current_index \in Nat
           /\ stack[k].body_start <= i
           /\ \A l \in LoopSteps : stack[k].body_start = l + 1 => l < i /\ i <= BodyEnd(l)
  BY <1>1, NestedFrames
<1>3. /\ \A l \in LoopSteps : i \in l + 1 .. BodyEnd(l) =>
           \E k \in 1 .. m : stack[k].body_start = l + 1
      /\ \A k \in 1 .. m : stack[k].current_index < stack[k].items
  BY <1>2 DEF Visiting
<1>4. i < BodyEnd(i)
  BY DEF WellNested
<1>5. \A k \in 1 .. m : stack[k].body_start # i + 1
  BY <1>1, <1>2
<1> HIDE DEF m
\* What is owed to a step at j: nothing by a body that has no frame.
<1>6. ASSUME NEW l \in Int, NEW n \in Int, NEW j \in Int, InBody(l, j), Owes(stack, i, l, j, n)
      PROVE  /\ l \in LoopSteps /\ l + 1 <= j
             /\ (\A k \in 1 .. m : stack[k].body_start # l + 1) =>
                  n = 0 /\ n - (IF j = i THEN 1 ELSE 0) = 0
             /\ \A k \in 1 .. m : stack[k].body_start = l + 1 =>
                  n = (stack[k].items - stack[k].current_index) - (IF j < i THEN 1 ELSE 0)
  <2>1. l \in LoopSteps /\ l + 1 <= j
    BY <1>1, <1>6 DEF InBody
  <2>2. ASSUME \A k \in 1 .. m : stack[k].body_start # l + 1
        PROVE  n = 0 /\ n - (IF j = i THEN 1 ELSE 0) = 0
    <3>1. n = 0 /\ j # i
      BY <1>1, <1>2, <1>6, <2>2, Unframed DEF Owes
    <3>2. (IF j = i THEN 1 ELSE 0) = 0
      BY <3>1
    <3>3. 0 - 0 = 0
      OBVIOUS
    <3> QED
      BY <3>1, <3>2, <3>3, Zenon
  <2> QED
    BY <1>2, <1>6, <2>1, <2>2 DEF Owes
<1>7. CASE c = 0
  <2> DEFINE t == BodyEnd(i) + 1
  <2>1. LoopStartStack(stack, s, i, c) = stack /\ LoopStartIndex(s, i, c) + 1 = t
    BY <1>7 DEF LoopStartStack, LoopStartIndex
  <2>2. Visiting(stack, t)
    <3>1. ASSUME NEW l \in LoopSteps, t \in l + 1 .. BodyEnd(l) PROVE i \in l + 1 .. BodyEnd(l)
      <4>1. ~(l \in i + 1 .. BodyEnd(i))
        BY <1>1, <3>1 DEF WellNested
      <4> QED
        BY <1>1, <1>4, <3>1, <4>1
    <3> QED
      BY <1>2, <1>3, <3>1 DEF Visiting
  <2>3. ASSUME NEW l \in Int, NEW n \in Int, NEW j \in Int, InBody(l, j), Owes(stack, i, l, j, n)
        PROVE  Owes(stack, t, l, j, (n - (IF j = i THEN 1 ELSE 0)) + (IF l = i THEN c ELSE 0))
    <3>1. (n - (IF j = i THEN 1 ELSE 0)) + (IF l = i THEN c ELSE 0) = n - (IF j = i THEN 1 ELSE 0)
      BY <1>7
    <3>2. ASSUME NEW k \in 1 .. m, stack[k].body_start = l + 1
          PROVE  n - (IF j = i THEN 1 ELSE 0)
                   = (stack[k].items - stack[k].current_index) - (IF j < t THEN 1 ELSE 0)
      <4>1. l < i
        BY <1>2, <1>6, <2>3, <3>2
      <4>2. j > i => BodyEnd(i) < j
        BY <1>1, <2>3, <4>1 DEF InBody
      <4>3. (IF j < i THEN 1 ELSE 0) + (IF j = i THEN 1 ELSE 0) = (IF j < t THEN 1 ELSE 0)
        BY <1>1, <1>4, <4>2
      <4>4. n = (stack[k].items - stack[k].current_index) - (IF j < i THEN 1 ELSE 0)
        BY <1>6, <2>3, <3>2
      <4> HIDE DEF t
      <4> QED
        BY <1>2, <4>3, <4>4
    <3>3. (\A k \in 1 .. m : stack[k].body_start # l + 1) => n - (IF j = i THEN 1 ELSE 0) = 0
      BY <1>6, <2>3
    <3> HIDE DEF t
    <3> QED
      BY <1>2, <3>1, <3>2, <3>3 DEF Owes
  <2> HIDE DEF t
  <2> QED
    BY <2>1, <2>2, <2>3
<1>8. CASE c # 0
  <2> DEFINE frame == [items |-> c, current_index |-> 0,
                       body_start |-> i + 1, body_end |-> i + s.loop_steps]
             T == Append(stack, frame)
  <2>1. LoopStartStack(stack, s, i, c) = T /\ LoopStartIndex(s, i, c) + 1 = i + 1
    BY <1>8 DEF LoopStartStack, LoopStartIndex
  <2>2. frame.items = c /\ frame.current_index = 0 /\ frame.body_start = i + 1
    OBVIOUS
  <2> HIDE DEF frame
  <2>3. /\ DOMAIN T = 1 .. m + 1 /\ T[m + 1] = frame
        /\ \A k \in 1 .. m : T[k] = stack[k]
    BY DEF Frames, m
  <2> HIDE DEF T
  <2>4. Visiting(T, i + 1)
    <3>1. ASSUME NEW l \in LoopSteps, i + 1 \in l + 1 .. BodyEnd(l)
          PROVE  \E k \in 1 .. m + 1 : T[k].body_start = l + 1
      <4>1. CASE l = i
        BY <1>2, <2>2, <2>3, <4>1
      <4>2. CASE l # i
        <5>1. i \in l + 1 .. BodyEnd(l)
          BY <1>1, <3>1, <4>2
        <5>2. PICK k \in 1 .. m : stack[k].body_start = l + 1
          BY <1>3, <5>1
        <5> QED
          BY <1>2, <2>3, <5>2
      <4> QED
        BY <4>1, <4>2
    <3>2. ASSUME NEW k \in 1 .. m + 1 PROVE T[k].current_index < T[k].items
      <4>1. CASE k = m + 1
        BY <1>8, <2>2, <2>3, <4>1
      <4>2. CASE k \in 1 .. m
        BY <1>3, <2>3, <4>2
      <4> QED
        BY <1>2, <4>1, <4>2
    <3> QED
      BY <2>3, <3>1, <3>2 DEF Visiting
  <2>5. ASSUME NEW l \in Int, NEW n \in Int, NEW j \in Int, InBody(l, j), Owes(stack, i, l, j, n)
        PROVE  Owes(T, i + 1, l, j, (n - (IF j = i THEN 1 ELSE 0)) + (IF l = i THEN c ELSE 0))
    <3>1. CASE l = i
      <4>1. n - (IF j = i THEN 1 ELSE 0) = 0 /\ ~(j < i + 1)
        BY <1>1, <1>5, <1>6, <2>5, <3>1
      <4>2. (n - (IF j = i THEN 1 ELSE 0)) + (IF l = i THEN c ELSE 0) = c
        BY <3>1, <4>1
      <4>3. T[m + 1].body_start = l + 1 /\ m + 1 \in 1 .. m + 1
        BY <1>2, <2>2, <2>3, <3>1
      <4>4. ASSUME NEW k \in 1 .. m + 1, T[k].body_start = l + 1
            PROVE  c = (T[k].items - T[k].current_index) - (IF j < i + 1 THEN 1 ELSE 0)
        <5>1. k = m + 1
          BY <1>2, <1>5, <2>3, <3>1, <4>4
        <5> QED
          BY <2>2, <2>3, <4>1, <5>1
      <4> QED
        BY <2>3, <4>2, <4>3, <4>4 DEF Owes
    <3>2. CASE l # i
      <4>1. (n - (IF j = i THEN 1 ELSE 0)) + (IF l = i THEN c ELSE 0)
              = n - (IF j = i THEN 1 ELSE 0)
        BY <3>2
      <4>2. ASSUME NEW k \in 1 .. m + 1, T[k].body_start = l + 1
            PROVE  n - (IF j = i THEN 1 ELSE 0)
                     = (T[k].items - T[k].current_index) - (IF j < i + 1 THEN 1 ELSE 0)
        <5>1. k \in 1 .. m /\ T[k] = stack[k]
          BY <1>1, <1>2, <2>2, <2>3, <3>2, <4>2
        <5>2. n = (T[k].items - T[k].current_index) - (IF j < i THEN 1 ELSE 0)
          BY <1>6, <2>5, <4>2, <5>1
        <5>3. (IF j < i + 1 THEN 1 ELSE 0) = (IF j < i THEN 1 ELSE 0) + (IF j = i THEN 1 ELSE 0)
          BY <1>1
        <5>4. T[k].items \in Int /\ T[k].current_index \in Int
          BY <1>2, <5>1
        <5> QED
          BY <5>2, <5>3, <5>4
      <4>3. ASSUME \A k \in 1 .. m + 1 : T[k].body_start # l + 1
            PROVE  n - (IF j = i THEN 1 ELSE 0) = 0
        <5>1. \A k \in 1 .. m : stack[k].body_start # l + 1
          BY <1>2, <2>3, <4>3
        <5> QED
          BY <1>6, <2>5, <5>1
      <4> QED
        BY <2>3, <4>1, <4>2, <4>3 DEF Owes
    <3> QED
      BY <3>1, <3>2
  <2> QED
    BY <2>1, <2>4, <2>5
<1> QED
  BY <1>7, <1>8

\* What each step of a body still has to come makes up for the rows it lacks.
Balanced(rows, stack, i) ==
  \A l, j \in 0 .. NumSteps(wf) - 1 : LoopOf(l, j) =>
    Owes(stack, i, l, j, Cardinality(ItemsOf(rows, l)) - Cardinality(RowsOf(rows, j)))

\* Each step of a body has a row for each item of the loop.
Visited(rows) ==
  \A l, j \in 0 .. NumSteps(wf) - 1 : LoopOf(l, j) =>
    Cardinality(RowsOf(rows, j)) = Cardinality(ItemsOf(rows, l))

\* The rows and what is still to come of them agree while the thread is in its loop,
\* and nothing is to come when it completes.
VisitedInv ==
  /\ retrying => paused_indices # {}
  /\ OnlyLoops /\ failed = 0 =>
       /\ pc \notin Ended => Visiting(loop_stack, step_idx) /\ Balanced(results, loop_stack, step_idx)
       /\ pc \in Ended /\ Status = "completed" => Visited(results)

\* There are no rows and no frames yet.
LEMMA VisitedInit == Init => VisitedInv
<1> SUFFICES ASSUME Init PROVE VisitedInv
  OBVIOUS
<1>1. wf \in Workflow /\ loop_stack = << >> /\ step_idx = 0 /\ results = << >> /\ pc = "new" /\ retrying = FALSE
  BY WorkflowsAssumption DEF Init
<1>2. Visiting(loop_stack, step_idx)
  <2>1. \A l \in LoopSteps : l \in Nat /\ BodyEnd(l) \in Int
    BY <1>1, LoopStepsType
  <2> QED
    BY <1>1, <2>1 DEF Visiting
<1>3. \A i : Cardinality(ItemsOf(results, i)) = 0 /\ Cardinality(RowsOf(results, i)) = 0
  <2> SUFFICES ASSUME NEW i
               PROVE  Cardinality(ItemsOf(results, i)) = 0 /\ Cardinality(RowsOf(results, i)) = 0
    OBVIOUS
  <2>1. RowsOf(results, i) = {}
    BY <1>1 DEF RowsOf
  <2>2. ItemsOf(results, i) = {}
    BY <2>1 DEF ItemsOf
  <2> QED
    BY <2>1, <2>2, FS_EmptySet
<1>4. Balanced(results, loop_stack, step_idx)
  <2>1. \A l, j : Owes(<< >>, step_idx, l, j, 0)
    BY DEF Owes
  <2>2. 0 - 0 = 0
    OBVIOUS
  <2>3. \A l, j : Owes(loop_stack, step_idx, l, j,
                       Cardinality(ItemsOf(results, l)) - Cardinality(RowsOf(results, j)))
    <3> SUFFICES ASSUME NEW l, NEW j
                 PROVE  Owes(loop_stack, step_idx, l, j,
                             Cardinality(ItemsOf(results, l)) - Cardinality(RowsOf(results, j)))
      OBVIOUS
    <3>1. Cardinality(ItemsOf(results, l)) - Cardinality(RowsOf(results, j)) = 0
      BY <1>3, <2>2
    <3> QED
      BY <1>1, <2>1, <3>1
  <2> QED
    BY <2>3 DEF Balanced
<1> QED
  BY <1>1, <1>2, <1>4 DEF VisitedInv, Ended

\* Each round adds a row where one was to come, and each loop step that passes as
\* many to come as it has items.
LEMMA VisitedNext ==
  TypeOK /\ ArmedInv /\ NestedInv /\ CountsInv /\ VisitedInv /\ [Next]_vars => VisitedInv'
<1> SUFFICES ASSUME TypeOK, ArmedInv, NestedInv, CountsInv, VisitedInv, [Next]_vars
             PROVE  VisitedInv'
  OBVIOUS
<1> USE DEF program, counts, outcome, pausing, browser, signals, budget
<1>0. /\ step_idx \in Int /\ loop_stack \in Frames /\ wf \in Workflow /\ NumSteps(wf) \in Nat
      /\ results \in Rows /\ failed \in Int /\ 0 <= failed
      /\ pauses \in Nat /\ pauses' \in Nat
  BY TypeNext, BoundsAssumption DEF TypeOK, Workflow, NumSteps, CountsInv
<1>1. wf' = wf /\ pauses' >= pauses /\ paused_indices \subseteq paused_indices'
  BY Monotonic
<1>2. /\ OnlyLoops' => OnlyLoops
      /\ Visiting(loop_stack, step_idx)' <=> Visiting(loop_stack', step_idx')
      /\ Balanced(results, loop_stack, step_idx)' <=> Balanced(results', loop_stack', step_idx')
      /\ Visited(results)' <=> Visited(results')
  <2>1. NeverPaused' => NeverPaused
    BY <1>0, <1>1 DEF NeverPaused
  <2>2. LoopSteps' = LoopSteps /\ NumSteps(wf)' = NumSteps(wf)
    BY <1>1 DEF LoopSteps, NumSteps, StepAt
  <2>3. /\ WellNested' <=> WellNested
        /\ BodiesFit' <=> BodiesFit
    BY <1>1, <2>2 DEF WellNested, BodiesFit, BodyEnd, StepAt, NumSteps, ConditionalIndex
  <2>4. OnlyLoops' => OnlyLoops
    BY <1>1, <2>1, <2>2, <2>3 DEF OnlyLoops, StepAt, NumSteps
  <2>5. Visiting(loop_stack, step_idx)' <=> Visiting(loop_stack', step_idx')
    BY <1>1, <2>2 DEF Visiting, BodyEnd, StepAt, NumSteps
  <2>6. \A l, j : LoopOf(l, j)' <=> LoopOf(l, j)
    BY <1>1 DEF LoopOf, StepAt, NumSteps
  <2>7. Balanced(results, loop_stack, step_idx)' <=> Balanced(results', loop_stack', step_idx')
    BY <2>2, <2>6 DEF Balanced
  <2>8. Visited(results)' <=> Visited(results')
    BY <2>2, <2>6 DEF Visited
  <2> QED
    BY <2>4, <2>5, <2>7, <2>8
\* A retry is one of a step that has paused.
<1>3. retrying' => paused_indices' # {}
  <2>1. CASE ResumeProceeds
    BY <2>1 DEF ResumeProceeds, NestedInv, VisitedInv
  <2>2. CASE Outcome
    <3>1. retrying' = FALSE
      BY <2>2 DEF Outcome, StepPasses, UncountRetried, StepFailsAndPauses, StepFailsAndStops,
         StepFailsAndContinues, CountFailure
    <3> QED
      BY <3>1
  <2>3. CASE SetUp \/ LoopHead \/ Dispatch \/ Wake \/ PauseTimeout \/ ResumeAborts \/ TearDown \/ Unregister
             \/ Developer \/ PutCompletes \/ UNCHANGED vars
    <3>1. CASE SetUp \/ LoopHead \/ Dispatch
      BY <3>1 DEF VisitedInv, SetUp, CreateDriver, SetupDriver, LoopHead, LoopExit, IndexFault,
         CheckCancel, CheckPause, Dispatch, LookaheadFault, DispatchHandoff, DispatchStep
    <3>2. CASE Wake \/ PauseTimeout \/ ResumeAborts \/ TearDown \/ Unregister \/ Developer \/ PutCompletes \/ UNCHANGED vars
      BY <3>2 DEF VisitedInv, Wake, PauseTimeout, ResumeAborts, TearDown, Cleanup, CloseDriver,
         Unregister, Developer, Stop, RequestPause, Resume, PutCompletes, vars
    <3> QED
      BY <2>3, <3>1, <3>2
  <2> QED
    BY <2>1, <2>2, <2>3 DEF Next, Thread, Pause, OnLoop, Terminated
\* Of the steps that were run, none has failed.
<1>4. ASSUME OnlyLoops', failed' = 0
      PROVE  /\ OnlyLoops /\ NeverPaused /\ WellNested /\ BodiesFit
             /\ failed = 0 /\ ~CountFailure /\ ~ResumeProceeds
             /\ pc \notin Ended =>
                  /\ NestedAt(loop_stack, step_idx) /\ Visiting(loop_stack, step_idx)
                  /\ Balanced(results, loop_stack, step_idx)
             /\ pc \in Ended /\ Status = "completed" => Visited(results)
  <2>1. OnlyLoops /\ NeverPaused /\ WellNested /\ BodiesFit
    BY <1>2, <1>4 DEF OnlyLoops
  <2>2. ~CountFailure
    <3>1. CountFailure => failed' = failed + 1
      BY DEF CountFailure
    <3> QED
      BY <1>0, <1>4, <3>1
  <2>3. ~retrying
    BY <2>1 DEF VisitedInv, NeverPaused
  <2>4. failed = 0
    <3>1. CASE StepPasses
      BY <1>4, <2>3, <3>1 DEF StepPasses, UncountRetried
    <3>2. CASE ~StepPasses
      <4>1. UNCHANGED failed
        BY <2>2, <3>2 DEF Next, Thread, OnLoop, Terminated, SetUp, CreateDriver, SetupDriver, LoopHead,
           LoopExit, IndexFault, CheckCancel, CheckPause, Dispatch, LookaheadFault, DispatchHandoff,
           DispatchStep, Outcome, StepFailsAndPauses, StepFailsAndStops, StepFailsAndContinues,
           Pause, Wake, PauseTimeout, ResumeAborts, ResumeProceeds, TearDown, Cleanup, CloseDriver,
           Unregister, Developer, Stop, RequestPause, Resume, PutCompletes, vars
      <4> QED
        BY <1>4, <4>1
    <3> QED
      BY <3>1, <3>2
  <2>5. ~ResumeProceeds
    <3> SUFFICES ASSUME ResumeProceeds PROVE FALSE
      OBVIOUS
    <3>1. pc = "woken" /\ pause_kind \in PauseStates
      BY DEF ResumeProceeds, TypeOK
    <3>2. pause_kind # "paused_requested" /\ pause_kind # "paused_error"
      BY <1>0, <2>1 DEF NestedInv, NeverPaused
    <3>3. Step.kind = "handoff" /\ InRange(wf, step_idx)
      BY <3>1, <3>2 DEF PauseStates, ArmedInv, TypeOK
    <3>4. PICK k \in DOMAIN wf.steps : Step = wf.steps[k]
      BY <1>0, <3>3 DEF Step, StepAt, InRange, Workflow, NumSteps
    <3> QED
      BY <2>1, <3>3, <3>4 DEF NeverPaused
  <2> QED
    BY <2>1, <2>2, <2>4, <2>5 DEF VisitedInv, NestedInv
\* The rounds.
<1>5. ASSUME OnlyLoops', failed' = 0, pc' \notin Ended
      PROVE  Visiting(loop_stack', step_idx') /\ Balanced(results', loop_stack', step_idx')
  <2>0. OnlyLoops /\ WellNested
    BY <1>4, <1>5
  <2>1. CASE pc \notin Ended /\ UNCHANGED <<loop_stack, step_idx, results>>
    BY <1>4, <1>5, <2>1
  <2>2. ASSUME pc = "step"
        PROVE  /\ step_idx \in 0 .. NumSteps(wf) - 1 /\ Step = StepAt(wf, step_idx)
               /\ Step \in WorkflowStep /\ Step.kind # "conditional"
               /\ NestedAt(loop_stack, step_idx) /\ Visiting(loop_stack, step_idx)
               /\ Balanced(results, loop_stack, step_idx)
    <3>1. /\ NestedAt(loop_stack, step_idx) /\ Visiting(loop_stack, step_idx) /\ 0 <= step_idx
          /\ Balanced(results, loop_stack, step_idx)
      BY <1>4, <1>5, <2>2 DEF Ended, NestedAt
    <3>2. InRange(wf, step_idx) /\ Step \in WorkflowStep
      BY <2>2, StepType DEF TypeOK
    <3>3. step_idx \in 0 .. NumSteps(wf) - 1 /\ Step = StepAt(wf, step_idx)
      BY <1>0, <3>1, <3>2 DEF InRange, Step
    <3> QED
      BY <2>0, <3>1, <3>2, <3>3 DEF OnlyLoops
  \* A row, and what it leaves to come.
  <2>3. ASSUME pc = "step", NEW c \in Nat, results' = Append(results, Row("passed", c)),
               NEW T, NEW t,
               \A l, n \in Int : \A j \in Int :
                 InBody(l, j) /\ Owes(loop_stack, step_idx, l, j, n) =>
                   Owes(T, t, l, j, (n - (IF j = step_idx THEN 1 ELSE 0))
                                      + (IF l = step_idx THEN c ELSE 0))
        PROVE  Balanced(results', T, t)
    <3> SUFFICES ASSUME NEW l \in 0 .. NumSteps(wf) - 1, NEW j \in 0 .. NumSteps(wf) - 1, LoopOf(l, j)
                 PROVE  Owes(T, t, l, j, Cardinality(ItemsOf(results', l)) - Cardinality(RowsOf(results', j)))
      BY DEF Balanced
    <3> DEFINE I == Cardinality(ItemsOf(results, l))
               R == Cardinality(RowsOf(results, j))
               n == I - R
    <3>1. I \in Nat /\ R \in Nat /\ n \in Int /\ l \in Int /\ j \in Int
      BY <1>0, RowsFinite
    <3>2. InBody(l, j)
      BY <1>0, LoopOfBody
    <3>3. Owes(loop_stack, step_idx, l, j, n)
      BY <2>2, <2>3 DEF Balanced
    <3>4. Owes(T, t, l, j, (n - (IF j = step_idx THEN 1 ELSE 0)) + (IF l = step_idx THEN c ELSE 0))
      <4> HIDE DEF n
      <4> QED
        BY <2>3, <3>1, <3>2, <3>3
    <3>5. /\ Cardinality(RowsOf(results', j)) = R + (IF j = step_idx THEN 1 ELSE 0)
          /\ Cardinality(ItemsOf(results', l)) = I + (IF l = step_idx THEN c ELSE 0)
      BY <2>3, RowCounted
    <3>6. Cardinality(ItemsOf(results', l)) - Cardinality(RowsOf(results', j))
            = (n - (IF j = step_idx THEN 1 ELSE 0)) + (IF l = step_idx THEN c ELSE 0)
      <4> HIDE DEF I, R
      <4> QED
        BY <3>1, <3>5
    <3> QED
      BY <3>4, <3>6
  <2>4. CASE StepPasses /\ Step.kind # "loop"
    <3>1. /\ step_idx \in 0 .. NumSteps(wf) - 1 /\ Step = StepAt(wf, step_idx)
          /\ Step.kind # "conditional" /\ pc = "step"
          /\ NestedAt(loop_stack, step_idx) /\ Visiting(loop_stack, step_idx)
      BY <2>2, <2>4 DEF StepPasses
    <3>2. results' = Append(results, Row("passed", 0)) /\ EndRound(step_idx, loop_stack)
      BY <2>4, <3>1 DEF StepPasses
    <3> DEFINE T == IterationStack(loop_stack, Step, step_idx)
               t == IterationIndex(loop_stack, Step, step_idx) + 1
    <3>3. loop_stack' = T /\ step_idx' = t
      BY <3>2 DEF EndRound
    <3>4. step_idx \notin LoopSteps
      BY <2>4, <3>1 DEF LoopSteps
    <3>5. /\ Visiting(T, t)
          /\ \A l, n \in Int : \A j \in Int :
               InBody(l, j) /\ Owes(loop_stack, step_idx, l, j, n) =>
                 Owes(T, t, l, j, n - (IF j = step_idx THEN 1 ELSE 0))
      BY <1>0, <2>0, <2>4, <3>1, <3>4, RoundVisits
    <3> HIDE DEF T, t
    <3>6. \A l, n \in Int : \A j \in Int :
            InBody(l, j) /\ Owes(loop_stack, step_idx, l, j, n) =>
              Owes(T, t, l, j, (n - (IF j = step_idx THEN 1 ELSE 0))
                                 + (IF l = step_idx THEN 0 ELSE 0))
      <4> SUFFICES ASSUME NEW l \in Int, NEW n \in Int, NEW j \in Int, InBody(l, j),
                          Owes(loop_stack, step_idx, l, j, n)
                   PROVE  Owes(T, t, l, j, (n - (IF j = step_idx THEN 1 ELSE 0))
                                             + (IF l = step_idx THEN 0 ELSE 0))
        OBVIOUS
      <4>1. Owes(T, t, l, j, n - (IF j = step_idx THEN 1 ELSE 0))
        BY <3>5
      <4>2. (n - (IF j = step_idx THEN 1 ELSE 0)) + (IF l = step_idx THEN 0 ELSE 0)
              = n - (IF j = step_idx THEN 1 ELSE 0)
        OBVIOUS
      <4> QED
        BY <4>1, <4>2
    <3>7. Balanced(results', T, t)
      BY <2>3, <3>1, <3>2, <3>6
    <3> QED
      BY <3>3, <3>5, <3>7
  <2>5. CASE StepPasses /\ Step.kind = "loop"
    <3>1. /\ step_idx \in 0 .. NumSteps(wf) - 1 /\ Step = StepAt(wf, step_idx) /\ pc = "step"
          /\ NestedAt(loop_stack, step_idx) /\ Visiting(loop_stack, step_idx)
      BY <2>2, <2>5 DEF StepPasses
    <3>2. PICK c \in 0 .. MaxItems :
            /\ results' = Append(results, Row("passed", c))
            /\ EndRound(LoopStartIndex(Step, step_idx, c), LoopStartStack(loop_stack, Step, step_idx, c))
      BY <2>5 DEF StepPasses
    <3> DEFINE T == LoopStartStack(loop_stack, Step, step_idx, c)
               t == LoopStartIndex(Step, step_idx, c) + 1
    <3>3. c \in Nat /\ loop_stack' = T /\ step_idx' = t
      BY <2>5, <3>2, BoundsAssumption DEF EndRound, IterationIndex, IterationStack, AtBodyEnd
    <3>4. step_idx \in LoopSteps /\ BodyEnd(step_idx) = step_idx + Step.loop_steps
      BY <2>5, <3>1 DEF LoopSteps, BodyEnd
    <3>5. /\ Visiting(T, t)
          /\ \A l, n \in Int : \A j \in Int :
               InBody(l, j) /\ Owes(loop_stack, step_idx, l, j, n) =>
                 Owes(T, t, l, j, (n - (IF j = step_idx THEN 1 ELSE 0))
                                    + (IF l = step_idx THEN c ELSE 0))
      BY <1>0, <2>0, <3>1, <3>3, <3>4, LoopVisits
    <3> HIDE DEF T, t
    <3>6. Balanced(results', T, t)
      BY <2>3, <3>1, <3>2, <3>3, <3>5
    <3> QED
      BY <3>3, <3>5, <3>6
  <2>6. CASE SetUp \/ LoopHead \/ Dispatch \/ Wake \/ PauseTimeout
    <3>1. pc \notin Ended /\ UNCHANGED <<loop_stack, step_idx, results>>
      BY <2>6 DEF SetUp, CreateDriver, SetupDriver, LoopHead, LoopExit, IndexFault, CheckCancel,
         CheckPause, Dispatch, LookaheadFault, DispatchHandoff, DispatchStep, Wake, PauseTimeout, Ended
    <3> QED
      BY <2>1, <3>1
  <2>7. CASE ResumeAborts \/ TearDown \/ Unregister
    BY <1>5, <2>7 DEF ResumeAborts, Leave, TearDown, Cleanup, CloseDriver, Unregister, Ended
  <2>8. CASE Developer \/ PutCompletes \/ UNCHANGED vars
    <3>1. UNCHANGED <<pc, loop_stack, step_idx, results>>
      BY <2>8 DEF Developer, Stop, RequestPause, Resume, PutCompletes, vars
    <3> QED
      BY <1>5, <2>1, <3>1
  <2>9. ~(StepFailsAndPauses \/ StepFailsAndStops \/ StepFailsAndContinues \/ ResumeProceeds)
    BY <1>4, <1>5 DEF StepFailsAndPauses, StepFailsAndStops, StepFailsAndContinues
  <2> QED
    BY <2>4, <2>5, <2>6, <2>7, <2>8, <2>9 DEF Next, Thread, Outcome, Pause, OnLoop, Terminated
\* The end.
<1>6. ASSUME OnlyLoops', failed' = 0, pc' \in Ended, Status' = "completed"
      PROVE  Visited(results')
  <2>1. raising' = FALSE /\ cancelled' = FALSE
    <3>1. raising' \in BOOLEAN /\ cancelled' \in BOOLEAN
      BY TypeNext DEF TypeOK
    <3> QED
      BY <1>6, <3>1 DEF Status
  <2>2. CASE pc \in Ended
    <3>1. UNCHANGED <<results, raising, cancelled, failed>>
      BY <2>2 DEF Ended, Next, Thread, OnLoop, Terminated, SetUp, CreateDriver, SetupDriver, LoopHead,
         LoopExit, IndexFault, CheckCancel, CheckPause, Dispatch, LookaheadFault, DispatchHandoff,
         DispatchStep, Outcome, StepPasses, StepFailsAndPauses, StepFailsAndStops,
         StepFailsAndContinues, CountFailure,
         Pause, Wake, PauseTimeout, ResumeAborts, ResumeProceeds, TearDown, Cleanup, CloseDriver,
         Unregister, Developer, Stop, RequestPause, Resume, PutCompletes, vars
    <3>2. Status = "completed"
      BY <1>6, <3>1 DEF Status
    <3> QED
      BY <1>4, <1>6, <2>2, <3>1, <3>2
  <2>3. CASE pc \notin Ended
    <3>1. LoopExit
      <4>1. ~SetUp /\ ~TearDown /\ ~Unregister /\ ~Dispatch /\ ~IndexFault /\ ~CheckCancel /\ ~CheckPause
        BY <1>6, <2>1, <2>3 DEF Ended, SetUp, CreateDriver, SetupDriver, TearDown, Cleanup, CloseDriver,
           Unregister, Dispatch, LookaheadFault, DispatchHandoff, DispatchStep, IndexFault, CheckCancel,
           CheckPause, BeginPause, Leave
      <4>2. ~Outcome /\ ~Pause
        BY <1>4, <1>6, <2>1, <2>3 DEF Ended, Outcome, StepPasses, EndRound, StepFailsAndPauses,
           StepFailsAndStops, StepFailsAndContinues, Pause, Wake, PauseTimeout, ResumeAborts, Leave
      <4>3. ~Developer /\ ~PutCompletes /\ ~UNCHANGED vars
        BY <1>6, <2>3 DEF Developer, Stop, RequestPause, Resume, PutCompletes, vars
      <4> QED
        BY <4>1, <4>2, <4>3 DEF Next, Thread, LoopHead, OnLoop, Terminated
    <3>2. step_idx >= NumSteps(wf) /\ results' = results
      BY <3>1 DEF LoopExit
    <3>3. NestedAt(loop_stack, step_idx) /\ Balanced(results, loop_stack, step_idx)
      BY <1>4, <1>6, <2>3
    <3>4. \A k \in DOMAIN loop_stack : FALSE
      <4> SUFFICES ASSUME NEW k \in DOMAIN loop_stack PROVE FALSE
        OBVIOUS
      <4>1. /\ loop_stack[k].body_start - 1 \in LoopSteps
            /\ loop_stack[k].body_end = BodyEnd(loop_stack[k].body_start - 1)
            /\ step_idx <= loop_stack[k].body_end /\ loop_stack[k].body_end \in Int
        BY <1>0, <3>3, FramesType DEF NestedAt
      <4>2. loop_stack[k].body_end < NumSteps(wf)
        BY <1>4, <1>6, <4>1 DEF BodiesFit
      <4> QED
        BY <1>0, <3>2, <4>1, <4>2
    <3>5. ASSUME NEW l \in 0 .. NumSteps(wf) - 1, NEW j \in 0 .. NumSteps(wf) - 1, LoopOf(l, j)
          PROVE  Cardinality(RowsOf(results, j)) = Cardinality(ItemsOf(results, l))
      <4>1. Cardinality(ItemsOf(results, l)) - Cardinality(RowsOf(results, j)) = 0
        BY <3>3, <3>4, <3>5 DEF Balanced, Owes
      <4>2. Cardinality(ItemsOf(results, l)) \in Nat /\ Cardinality(RowsOf(results, j)) \in Nat
        BY <1>0, RowsFinite
      <4> QED
        BY <4>1, <4>2
    <3> QED
      BY <3>2, <3>5 DEF Visited
  <2> QED
    BY <2>2, <2>3
<1> QED
  BY <1>2, <1>3, <1>5, <1>6 DEF VisitedInv

\* Where nothing but loops moves the index, an execution that completes has run
\* every step of a loop's body once for each item.
THEOREM ItemsVisited == Spec => []EveryItemVisited
<1>1. Init => ArmedInv /\ NestedInv /\ CountsInv /\ VisitedInv
  <2>1. Init => NestedInv
    BY DEF Init, NestedInv, NestedAt
  <2> QED
    BY <2>1, RowsInit, VisitedInit
<1>2. VisitedInv => EveryItemVisited
  <2> SUFFICES ASSUME VisitedInv, pc \in {"returned", "done"}, Status = "completed", OnlyLoops,
                      NEW i \in 0 .. NumSteps(wf) - 1, NEW j \in 0 .. NumSteps(wf) - 1, LoopOf(i, j)
               PROVE  Cardinality(RowsOf(results, j)) = Cardinality(ItemsOf(results, i))
    BY DEF EveryItemVisited
  <2>1. failed = 0
    BY DEF Status
  <2> QED
    BY <2>1 DEF VisitedInv, Visited, Ended
<1> QED
  BY <1>1, <1>2, TypeCorrect, ArmedNext, NestedNext, CountsNext, VisitedNext, PTL DEF Spec

-----------------------------------------------------------------------------
(* What the tokens read.                                                     *)

\* What TokensTakeLastOutput says of one name.
Told(x) ==
  \/ Givers(x) = {} /\ outputs[x] = None
  \/ \E k \in Givers(x) : outputs[x] = Output(k) /\ \A j \in Givers(x) : j <= k

\* The position is that of a loop step; a jump to a negative index counts.
AtLoop(l) == l \in Int /\ InRange(wf, l) /\ StepAt(wf, l).kind = "loop"

\* No handoff is executed, and every frame is that of a loop step.
ToldInv ==
  /\ TokensTakeLastOutput
  /\ pc = "step" => Step.kind # "handoff"
  /\ \A k \in DOMAIN loop_stack : AtLoop(loop_stack[k].body_start - 1)

\* Wherever a loop step is counted from, its names are names of loops.
LEMMA LoopNamed ==
  ASSUME wf \in Workflow, NEW l, AtLoop(l)
  PROVE  NamesAt(l) \subseteq LoopNames
<1>1. NumSteps(wf) \in Nat
  BY DEF Workflow, NumSteps
<1> DEFINE p == IF l >= 0 THEN l ELSE NumSteps(wf) + l
<1>2. p \in 0 .. NumSteps(wf) - 1 /\ StepAt(wf, p) = StepAt(wf, l)
  BY <1>1 DEF AtLoop, InRange, StepAt
<1> HIDE DEF p
<1>3. p \in LoopSteps /\ NamesAt(p) = NamesAt(l)
  BY <1>2 DEF LoopSteps, AtLoop, NamesAt
<1> QED
  BY <1>3 DEF LoopNames

\* A loop writes its two names.
LEMMA LoopWrites ==
  ASSUME NEW values \in Memory, NEW l \in Int, NEW m \in Nat, NEW x \in Names
  PROVE  /\ x \notin NamesAt(l) => LoopOutputs(wf, values, l, m)[x] = values[x]
         /\ None \notin NamesAt(l) /\ StepAt(wf, l).loop_var # StepAt(wf, l).loop_index_var =>
              /\ x = StepAt(wf, l).loop_var => LoopOutputs(wf, values, l, m)[x] = Item(l, m)
              /\ x = StepAt(wf, l).loop_index_var => LoopOutputs(wf, values, l, m)[x] = Index(m)
<1> DEFINE a == StepAt(wf, l).loop_var
           b == StepAt(wf, l).loop_index_var
           V == With(values, a, Item(l, m))
           W == With(V, b, Index(m))
<1>1. V \in Memory /\ W \in Memory /\ LoopOutputs(wf, values, l, m) = W
  BY ValueType, WithType DEF LoopOutputs
<1>2. V[x] = IF x = a /\ a # None THEN Item(l, m) ELSE values[x]
  BY DEF With, Memory
<1>3. W[x] = IF x = b /\ b # None THEN Index(m) ELSE V[x]
  <2> HIDE DEF V
  <2> QED
    BY <1>1 DEF With, Memory
<1>4. NamesAt(l) = {a, b}
  BY DEF NamesAt
<1> HIDE DEF V, W, a, b
<1>5. x \notin NamesAt(l) => W[x] = values[x]
  BY <1>2, <1>3, <1>4
<1>6. None \notin NamesAt(l) /\ a # b => /\ x = a => W[x] = Item(l, m)
                                         /\ x = b => W[x] = Index(m)
  BY <1>2, <1>3, <1>4
<1> QED
  BY <1>1, <1>5, <1>6 DEF a, b

\* Other names than those of loops are left to the steps.
LEMMA RoundsWriteLoopNames ==
  ASSUME TypeOK, ToldInv, NEW values \in Memory, NEW i, NEW x \in Names \ LoopNames
  PROVE  RoundOutputs(values, loop_stack, i)[x] = values[x]
<1>1. CASE AtBodyEnd(loop_stack, Step, i)
  <2> DEFINE f == Innermost(loop_stack)
  <2>1. f \in LoopFrame /\ AtLoop(f.body_start - 1)
    BY <1>1 DEF AtBodyEnd, Innermost, ToldInv, TypeOK, Frames
  <2>2. x \notin NamesAt(f.body_start - 1) /\ f.body_start - 1 \in Int /\ f.current_index + 1 \in Nat
    BY <2>1, LoopNamed DEF TypeOK, LoopFrame
  <2>3. LoopOutputs(wf, values, f.body_start - 1, f.current_index + 1)[x] = values[x]
    <3> HIDE DEF f
    <3> QED
      BY <2>2, LoopWrites
  <2> QED
    BY <2>3 DEF RoundOutputs, IterationOutputs
<1>2. CASE ~AtBodyEnd(loop_stack, Step, i)
  BY <1>2 DEF RoundOutputs, IterationOutputs
<1> QED
  BY <1>1, <1>2

\* The new row gives its step's names a value if it passed.
LEMMA GiversNext ==
  ASSUME TypeOK, wf' = wf, NEW status \in {"passed", "failed"}, NEW output \in Nat,
         results' = Append(results, Row(status, output)), NEW x
  PROVE  /\ \A k \in Givers(x) : k \in Nat /\ k < Len(results) + 1
         /\ Givers(x)' = IF status = "passed" /\ Gives(Step, x)
                         THEN Givers(x) \cup {Len(results) + 1} ELSE Givers(x)
<1> DEFINE n == Len(results)
<1>1. /\ n \in Nat /\ DOMAIN results = 1 .. n /\ DOMAIN results' = 1 .. n + 1
      /\ \A k \in 1 .. n : results'[k] = results[k]
      /\ results'[n + 1].step = step_idx /\ results'[n + 1].status = status
  BY Appended
<1>2. \A i : StepAt(wf, i)' = StepAt(wf, i)
  BY DEF StepAt, NumSteps
<1> HIDE DEF n
<1>3. Givers(x) = {k \in 1 .. n : results[k].status = "passed" /\ Gives(StepAt(wf, results[k].step), x)}
  BY <1>1 DEF Givers, PassedRows
<1>4. Givers(x)' = {k \in 1 .. n + 1 : results'[k].status = "passed"
                                        /\ Gives(StepAt(wf, results'[k].step), x)}
  BY <1>1, <1>2 DEF Givers, PassedRows, Gives
<1>5. 1 .. n + 1 = (1 .. n) \cup {n + 1} /\ n + 1 \notin 1 .. n
  BY <1>1
<1>6. Givers(x)' = Givers(x) \cup {k \in {n + 1} : status = "passed" /\ Gives(Step, x)}
  BY <1>1, <1>3, <1>4, <1>5 DEF Step
<1> QED
  BY <1>1, <1>3, <1>6 DEF n

\* The latest row is the one that counts, and a failed one counts for nothing.
LEMMA ToldRow ==
  ASSUME TypeOK, wf' = wf, NEW status \in {"passed", "failed"}, NEW output \in Nat,
         results' = Append(results, Row(status, output)), NEW x, Told(x),
         outputs'[x] = IF status = "passed" /\ Gives(Step, x) THEN Output(Len(results) + 1)
                       ELSE outputs[x]
  PROVE  Told(x)'
<1> DEFINE n == Len(results)
           G == Givers(x)
<1>1. /\ \A k \in G : k \in Nat /\ k < n + 1
      /\ Givers(x)' = IF status = "passed" /\ Gives(Step, x) THEN G \cup {n + 1} ELSE G
  BY GiversNext
<1>2. Told(x)' <=> \/ Givers(x)' = {} /\ outputs'[x] = None
                   \/ \E k \in Givers(x)' : outputs'[x] = Output(k) /\ \A j \in Givers(x)' : j <= k
  BY DEF Told, Output
<1>3. \/ G = {} /\ outputs[x] = None
      \/ \E k \in G : outputs[x] = Output(k) /\ \A j \in G : j <= k
  BY DEF Told
<1>4. n \in Nat
  BY Appended
<1> HIDE DEF G, n
<1>5. CASE status = "passed" /\ Gives(Step, x)
  <2>1. Givers(x)' = G \cup {n + 1} /\ outputs'[x] = Output(n + 1)
    BY <1>1, <1>5 DEF n
  <2>2. \A j \in G \cup {n + 1} : j <= n + 1
    BY <1>1, <1>4
  <2> QED
    BY <1>2, <2>1, <2>2
<1>6. CASE ~(status = "passed" /\ Gives(Step, x))
  BY <1>1, <1>2, <1>3, <1>6
<1> QED
  BY <1>5, <1>6

\* Nothing is told as long as no row is added and no value written.
LEMMA ToldSame ==
  ASSUME UNCHANGED <<wf, results, outputs>>, NEW x, Told(x)
  PROVE  Told(x)'
  BY DEF Told, Givers, PassedRows, Gives, Output, StepAt, NumSteps

\* Frames are pushed by loop steps, and advanced or popped afterwards.
LEMMA RoundKeepsLoops ==
  ASSUME TypeOK, ToldInv, NEW i,
         loop_stack' = IterationStack(loop_stack, Step, i)
  PROVE  \A k \in DOMAIN loop_stack' : AtLoop(loop_stack'[k].body_start - 1)
<1> DEFINE n == Len(loop_stack)
           T == IterationStack(loop_stack, Step, i)
<1>1. /\ n \in Nat /\ DOMAIN loop_stack = 1 .. n
      /\ \A k \in 1 .. n : loop_stack[k] \in LoopFrame /\ AtLoop(loop_stack[k].body_start - 1)
  BY FramesType DEF TypeOK, ToldInv
<1>2. CASE ~AtBodyEnd(loop_stack, Step, i)
  BY <1>1, <1>2 DEF IterationStack
<1>3. CASE AtBodyEnd(loop_stack, Step, i) /\ MoreItems(Innermost(loop_stack))
  <2>1. T = [loop_stack EXCEPT ![n].current_index = @ + 1]
    BY <1>3 DEF IterationStack
  <2>2. DOMAIN T = 1 .. n /\ \A k \in 1 .. n : T[k].body_start = loop_stack[k].body_start
    BY <1>1, <2>1 DEF LoopFrame
  <2> HIDE DEF T
  <2> QED
    BY <1>1, <2>2 DEF T
<1>4. CASE AtBodyEnd(loop_stack, Step, i) /\ ~MoreItems(Innermost(loop_stack))
  <2>1. T = SubSeq(loop_stack, 1, n - 1)
    BY <1>4 DEF IterationStack
  <2>2. DOMAIN T = 1 .. n - 1 /\ \A k \in 1 .. n - 1 : T[k] = loop_stack[k]
    BY <1>1, <2>1 DEF TypeOK, Frames
  <2>3. 1 .. n - 1 \subseteq 1 .. n
    BY <1>1
  <2> HIDE DEF T
  <2> QED
    BY <1>1, <2>2, <2>3 DEF T
<1> QED
  BY <1>2, <1>3, <1>4

\* One case for each way a row is added.
LEMMA ToldNext == TypeOK /\ ArmedInv /\ ToldInv /\ [Next]_vars => ToldInv'
<1> SUFFICES ASSUME TypeOK, ArmedInv, ToldInv, [Next]_vars PROVE ToldInv'
  OBVIOUS
<1> USE DEF program, counts, outcome, pausing, browser, signals, budget
<1>0. /\ wf' = wf /\ wf \in Workflow /\ step_idx \in Int /\ loop_stack \in Frames
      /\ outputs \in Memory /\ results \in Rows
  BY Monotonic DEF TypeOK, Memory
<1>1. /\ \A x \in Names \ LoopNames : Told(x)
      /\ pc = "step" => Step.kind # "handoff"
      /\ \A k \in DOMAIN loop_stack : AtLoop(loop_stack[k].body_start - 1)
  BY DEF ToldInv, TokensTakeLastOutput, Told
<1>2. ASSUME \A x \in Names \ LoopNames : Told(x)',
             pc' = "step" => (Step.kind # "handoff" /\ step_idx' = step_idx),
             \A k \in DOMAIN loop_stack' : AtLoop(loop_stack'[k].body_start - 1)
      PROVE  ToldInv'
  <2>1. /\ LoopNames' = LoopNames
        /\ \A l : AtLoop(l)' <=> AtLoop(l)
    BY <1>0 DEF LoopNames, LoopSteps, NamesAt, AtLoop, InRange, StepAt, NumSteps
  <2>2. TokensTakeLastOutput'
    BY <1>2, <2>1 DEF TokensTakeLastOutput, Told
  <2>3. pc' = "step" => Step'.kind # "handoff"
    BY <1>0, <1>2 DEF Step, StepAt, NumSteps
  <2>4. (\A k \in DOMAIN loop_stack : AtLoop(loop_stack[k].body_start - 1))'
    BY <1>0, <1>2 DEF AtLoop, InRange, StepAt, NumSteps
  <2> QED
    BY <2>2, <2>3, <2>4 DEF ToldInv
<1>3. ASSUME NEW status \in {"passed", "failed"}, NEW output \in Nat,
             results' = Append(results, Row(status, output)),
             \A x \in Names \ LoopNames :
               outputs'[x] = IF status = "passed" /\ Gives(Step, x) THEN Output(Len(results) + 1)
                             ELSE outputs[x],
             pc' # "step",
             \A k \in DOMAIN loop_stack' : AtLoop(loop_stack'[k].body_start - 1)
      PROVE  ToldInv'
  <2>1. \A x \in Names \ LoopNames : Told(x)'
    BY <1>0, <1>1, <1>3, ToldRow
  <2> QED
    BY <1>2, <1>3, <2>1
<1>4. ASSUME UNCHANGED <<results, outputs, loop_stack>>,
             pc' = "step" => (Step.kind # "handoff" /\ step_idx' = step_idx)
      PROVE  ToldInv'
  <2>1. \A x \in Names \ LoopNames : Told(x)'
    BY <1>0, <1>1, <1>4, ToldSame
  <2> QED
    BY <1>1, <1>2, <1>4, <2>1
<1>5. CASE SetUp \/ LoopHead \/ Dispatch
  <2>1. UNCHANGED <<results, outputs, loop_stack>>
    BY <1>5 DEF SetUp, CreateDriver, SetupDriver, LoopHead, LoopExit, IndexFault, CheckCancel,
       CheckPause, Dispatch, LookaheadFault, DispatchHandoff, DispatchStep
  <2>2. pc' = "step" => (Step.kind # "handoff" /\ step_idx' = step_idx)
    BY <1>5 DEF SetUp, CreateDriver, SetupDriver, LoopHead, LoopExit, IndexFault, CheckCancel,
       CheckPause, Dispatch, LookaheadFault, DispatchHandoff, DispatchStep, Leave, BeginPause
  <2> QED
    BY <1>4, <2>1, <2>2
<1>6. CASE Wake \/ PauseTimeout \/ TearDown \/ Unregister
  <2>1. UNCHANGED <<results, outputs, loop_stack>> /\ pc' # "step"
    BY <1>6 DEF Wake, PauseTimeout, TearDown, Cleanup, CloseDriver, Unregister
  <2> QED
    BY <1>4, <2>1
<1>7. CASE Developer \/ PutCompletes \/ UNCHANGED vars
  <2>1. UNCHANGED <<results, outputs, loop_stack, pc, step_idx>>
    BY <1>7 DEF Developer, Stop, RequestPause, Resume, PutCompletes, vars
  <2> QED
    BY <1>1, <1>4, <2>1
<1>8. CASE StepPasses
  <2>1. pc = "step" /\ pc' = "top" /\ Len(results) + 1 \in Nat /\ Stored \in Memory
    BY <1>0, <1>8, StoringType DEF StepPasses, EndRound, Stored, Rows
  <2>2. \A x \in Names : Stored[x] = IF Gives(Step, x) THEN Output(Len(results) + 1) ELSE outputs[x]
    BY <1>1, <2>1 DEF Stored, Storing, Gives
  <2>3. CASE Step.kind # "loop"
    <3>1. PICK output \in {0, 1}, i \in Int :
            /\ results' = Append(results, Row("passed", output))
            /\ loop_stack' = IterationStack(loop_stack, Step, i)
            /\ outputs' = RoundOutputs(Stored, loop_stack, i)
      <4>1. CASE Step.kind # "conditional"
        BY <1>0, <1>8, <2>3, <4>1 DEF StepPasses, EndRound
      <4>2. CASE Step.kind = "conditional"
        <5>1. PICK met \in BOOLEAN :
                /\ results' = Append(results, Row("passed", IF met THEN 1 ELSE 0))
                /\ EndRound(ConditionalIndex(Step, step_idx, met), loop_stack)
                /\ outputs' = RoundOutputs(Stored, loop_stack, ConditionalIndex(Step, step_idx, met))
          BY <1>8, <4>2 DEF StepPasses
        <5>2. InRange(wf, step_idx)
          BY <2>1 DEF TypeOK
        <5>3. ConditionalIndex(Step, step_idx, met) \in Int
          BY <1>0, <5>2, StepType, ConditionalIndexType
        <5> QED
          BY <5>1, <5>3 DEF EndRound
      <4> QED
        BY <4>1, <4>2
    <3>2. \A x \in Names \ LoopNames : outputs'[x] = Stored[x]
      BY <2>1, <3>1, RoundsWriteLoopNames
    <3>3. \A k \in DOMAIN loop_stack' : AtLoop(loop_stack'[k].body_start - 1)
      BY <3>1, RoundKeepsLoops
    <3> QED
      BY <1>3, <2>1, <2>2, <3>1, <3>2, <3>3
  <2>4. CASE Step.kind = "loop"
    <3>1. PICK n \in 0 .. MaxItems :
            /\ results' = Append(results, Row("passed", n))
            /\ EndRound(LoopStartIndex(Step, step_idx, n),
                        LoopStartStack(loop_stack, Step, step_idx, n))
            /\ outputs' = LoopStartOutputs(wf, Stored, step_idx, n)
      BY <1>8, <2>4 DEF StepPasses
    <3>2. n \in Nat
      BY BoundsAssumption
    <3>3. AtLoop(step_idx)
      BY <1>0, <2>1, <2>4 DEF TypeOK, AtLoop, Step
    <3>4. \A x \in Names \ LoopNames : outputs'[x] = Stored[x]
      BY <1>0, <2>1, <3>1, <3>3, LoopNamed, LoopWrites DEF LoopStartOutputs
    <3>5. \A k \in DOMAIN loop_stack' : AtLoop(loop_stack'[k].body_start - 1)
      <4>1. loop_stack' = LoopStartStack(loop_stack, Step, step_idx, n)
        BY <2>4, <3>1 DEF EndRound, IterationStack, AtBodyEnd
      <4>2. CASE n = 0
        BY <1>1, <4>1, <4>2 DEF LoopStartStack
      <4>3. CASE n # 0
        <5> DEFINE f == [items |-> n, current_index |-> 0,
                         body_start |-> step_idx + 1, body_end |-> step_idx + Step.loop_steps]
        <5>1. loop_stack' = Append(loop_stack, f)
          BY <4>1, <4>3 DEF LoopStartStack
        <5>2. f.body_start - 1 = step_idx
          BY <1>0
        <5>3. /\ DOMAIN loop_stack = 1 .. Len(loop_stack) /\ Len(loop_stack) \in Nat
              /\ DOMAIN loop_stack' = 1 .. Len(loop_stack) + 1
              /\ \A k \in 1 .. Len(loop_stack) : loop_stack'[k] = loop_stack[k]
              /\ loop_stack'[Len(loop_stack) + 1] = f
          <6> HIDE DEF f
          <6> QED
            BY <1>0, <5>1 DEF Frames
        <5> HIDE DEF f
        <5> QED
          BY <1>1, <3>3, <5>2, <5>3
      <4> QED
        BY <4>2, <4>3
    <3> QED
      BY <1>3, <2>1, <2>2, <3>1, <3>2, <3>4, <3>5
  <2> QED
    BY <2>3, <2>4
<1>9. CASE StepFailsAndPauses \/ StepFailsAndStops
  <2>1. /\ results' = Append(results, Row("failed", 0)) /\ UNCHANGED <<outputs, loop_stack>>
        /\ pc' # "step"
    BY <1>9 DEF StepFailsAndPauses, StepFailsAndStops, CountFailure, BeginPause
  <2> QED
    BY <1>1, <1>3, <2>1
<1>10. CASE StepFailsAndContinues
  <2>1. /\ results' = Append(results, Row("failed", 0)) /\ pc' # "step"
        /\ loop_stack' = IterationStack(loop_stack, Step, step_idx)
        /\ outputs' = RoundOutputs(outputs, loop_stack, step_idx)
    BY <1>10 DEF StepFailsAndContinues, CountFailure, EndRound
  <2>2. \A x \in Names \ LoopNames : outputs'[x] = outputs[x]
    BY <1>0, <2>1, RoundsWriteLoopNames
  <2>3. \A k \in DOMAIN loop_stack' : AtLoop(loop_stack'[k].body_start - 1)
    BY <1>0, <2>1, RoundKeepsLoops
  <2> QED
    BY <1>3, <2>1, <2>2, <2>3
<1>11. CASE ResumeAborts
  <2>1. UNCHANGED <<outputs, loop_stack>> /\ pc' # "step"
    BY <1>11 DEF ResumeAborts, Leave
  <2>2. results' = results \/ results' = Append(results, Row("failed", 0))
    BY <1>11 DEF ResumeAborts
  <2> QED
    BY <1>1, <1>3, <1>4, <2>1, <2>2
<1>12. CASE ResumeProceeds
  <2>1. UNCHANGED <<outputs, loop_stack>> /\ pc' # "step"
    BY <1>12 DEF ResumeProceeds
  <2>2. \/ results' = results
        \/ results' = Append(results, Row("passed", 0)) /\ pause_kind = "paused_handoff"
    BY <1>12 DEF ResumeProceeds
  <2>3. pause_kind = "paused_handoff" => \A x : ~Gives(Step, x)
    BY DEF ArmedInv, Gives
  <2> QED
    BY <1>1, <1>3, <1>4, <2>1, <2>2, <2>3
<1> QED
  BY <1>5, <1>6, <1>7, <1>8, <1>9, <1>10, <1>11, <1>12
  DEF Next, Thread, OnLoop, Outcome, Pause, Terminated

\* Whatever jumps, retries, loops and pauses make of a workflow, a token reads
\* the output of the last step that passed and stored its name, unless the name
\* is a loop's.
THEOREM OutputsReachTokens == Spec => []TokensTakeLastOutput
<1>1. Init => ArmedInv /\ ToldInv
  <2>1. Init => ArmedInv
    BY RowsInit
  <2>2. Init => ToldInv
    BY DEF Init, ToldInv, TokensTakeLastOutput, Givers, PassedRows
  <2> QED
    BY <2>1, <2>2
<1>2. ToldInv => TokensTakeLastOutput
  BY DEF ToldInv
<1> QED
  BY <1>1, <1>2, TypeCorrect, ArmedNext, ToldNext, PTL DEF Spec

=============================================================================
