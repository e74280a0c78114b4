--------------------------- MODULE ExecutorProofs ---------------------------
(***************************************************************************)
(* Theorems about Executor for every set of workflows and instructions and *)
(* every bound: its types, cancellation, the session, the counts, and that *)
(* it implements RunContract.                                              *)
(***************************************************************************)
EXTENDS ExecutorProps, FiniteSetTheorems, TLAPS

-----------------------------------------------------------------------------
(* The index and loop arithmetic stays within its types, for every workflow. *)

\* workflow.steps[i] is a step of the workflow whenever i is in range,
\* negative indices included.
LEMMA StepAtType ==
  ASSUME NEW w \in Workflow, NEW i \in Int, InRange(w, i)
  PROVE  StepAt(w, i) \in WorkflowStep
  BY DEF Workflow, InRange, StepAt, NumSteps

\* The look-ahead answers yes or no.
LEMMA NextIsWaitType ==
  ASSUME NEW w \in Workflow, NEW i \in Int
  PROVE  NextIsWait(w, i) \in BOOLEAN
  BY DEF NextIsWait

\* A conditional leaves an index.
LEMMA ConditionalIndexType ==
  ASSUME NEW s \in WorkflowStep, NEW i \in Int, NEW met \in BOOLEAN
  PROVE  ConditionalIndex(s, i, met) \in Int
  BY NoneAssumption DEF ConditionalIndex, WorkflowStep

\* A loop step leaves an index and a stack of frames.
LEMMA LoopStartType ==
  ASSUME NEW s \in WorkflowStep, NEW i \in Int, NEW n \in Nat,
         NEW stack \in Seq(LoopFrame)
  PROVE  /\ LoopStartIndex(s, i, n) \in Int
         /\ LoopStartStack(stack, s, i, n) \in Seq(LoopFrame)
<1>1. LoopStartIndex(s, i, n) \in Int
  BY DEF LoopStartIndex, WorkflowStep
<1>2. LoopStartStack(stack, s, i, n) \in Seq(LoopFrame)
  <2>1. [items |-> n, current_index |-> 0, body_start |-> i + 1,
         body_end |-> i + s.loop_steps] \in LoopFrame
    BY DEF LoopFrame, WorkflowStep
  <2> QED
    BY <2>1 DEF LoopStartStack
<1> QED
  BY <1>1, <1>2

\* Advancing a frame leaves a frame.
LEMMA NextItemType ==
  ASSUME NEW frame \in LoopFrame
  PROVE  [frame EXCEPT !.current_index = frame.current_index + 1] \in LoopFrame
  BY DEF LoopFrame

\* The iteration check leaves an index and a stack of frames.
LEMMA IterationType ==
  ASSUME NEW s \in WorkflowStep, NEW i \in Int, NEW stack \in Seq(LoopFrame)
  PROVE  /\ IterationIndex(stack, s, i) \in Int
         /\ IterationStack(stack, s, i) \in Seq(LoopFrame)
<1>1. CASE ~AtBodyEnd(stack, s, i)
  BY <1>1 DEF IterationIndex, IterationStack
<1>2. CASE AtBodyEnd(stack, s, i)
  <2>1. stack # << >> /\ Len(stack) \in 1 .. Len(stack)
    BY <1>2 DEF AtBodyEnd
  <2>2. Innermost(stack) \in LoopFrame
    BY <2>1 DEF Innermost
  <2>3. IterationIndex(stack, s, i) \in Int
    BY <2>2 DEF IterationIndex, LoopFrame
  <2>4. CASE MoreItems(Innermost(stack))
    <3> DEFINE frame == Innermost(stack)
    <3>1. [frame EXCEPT !.current_index = frame.current_index + 1] \in LoopFrame
      BY <2>2, NextItemType DEF frame
    <3>2. [stack EXCEPT ![Len(stack)].current_index = @ + 1]
            = [stack EXCEPT ![Len(stack)] = [frame EXCEPT !.current_index = frame.current_index + 1]]
      BY DEF frame, Innermost
    <3>3. [stack EXCEPT ![Len(stack)].current_index = @ + 1] \in Seq(LoopFrame)
      BY <2>1, <3>1, <3>2
    <3> QED
      BY <1>2, <2>3, <2>4, <3>3 DEF IterationStack
  <2>5. CASE ~MoreItems(Innermost(stack))
    <3>1. SubSeq(stack, 1, Len(stack) - 1) \in Seq(LoopFrame)
      BY <2>1
    <3> QED
      BY <1>2, <2>3, <2>5, <3>1 DEF IterationStack
  <2> QED
    BY <2>4, <2>5
<1> QED
  BY <1>1, <1>2

-----------------------------------------------------------------------------
(* So do the values in step_outputs.                                         *)

Memory == [Names -> Values \cup {None}]

\* The writes of a step and of a loop are values.
LEMMA ValueType ==
  /\ \A row \in Nat : Output(row) \in Values
  /\ \A l \in Int, m \in Nat : Item(l, m) \in Values
  /\ \A m \in Nat : Index(m) \in Values
  BY DEF Output, Item, Index, Values

\* One write; a name that is none of Names changes nothing.
LEMMA WithType ==
  ASSUME NEW values \in Memory, NEW name, NEW v \in Values
  PROVE  With(values, name, v) \in Memory
  BY DEF With, Memory

\* What a step stores.
LEMMA StoringType ==
  ASSUME NEW values \in Memory, NEW s, NEW row \in Nat
  PROVE  Storing(values, s, row) \in Memory
  BY ValueType DEF Storing, Memory

\* A round's item and index.
LEMMA LoopOutputsType ==
  ASSUME NEW w, NEW values \in Memory, NEW l \in Int, NEW m \in Nat
  PROVE  LoopOutputs(w, values, l, m) \in Memory
  BY ValueType, WithType DEF LoopOutputs

\* The writes of a loop that begins, and of the iteration check.
LEMMA RoundOutputsType ==
  ASSUME NEW values \in Memory, NEW stack \in Frames, NEW i, NEW k \in Int, NEW n \in Nat
  PROVE  /\ RoundOutputs(values, stack, i) \in Memory
         /\ LoopStartOutputs(wf, values, k, n) \in Memory
<1>1. LoopStartOutputs(wf, values, k, n) \in Memory
  BY LoopOutputsType DEF LoopStartOutputs
<1>2. CASE AtBodyEnd(stack, Step, i)
  <2>1. Innermost(stack) \in LoopFrame
    BY <1>2 DEF AtBodyEnd, Innermost, Frames
  <2>2. Innermost(stack).body_start - 1 \in Int /\ Innermost(stack).current_index + 1 \in Nat
    BY <2>1 DEF LoopFrame
  <2> QED
    BY <1>1, <2>2, LoopOutputsType DEF RoundOutputs, IterationOutputs
<1>3. CASE ~AtBodyEnd(stack, Step, i)
  BY <1>1, <1>3 DEF RoundOutputs, IterationOutputs
<1> QED
  BY <1>2, <1>3

-----------------------------------------------------------------------------
(* Types.                                                                    *)

\* The step the thread is at is a step of the workflow.
LEMMA StepType ==
  ASSUME TypeOK, InRange(wf, step_idx)
  PROVE  Step \in WorkflowStep
  BY StepAtType DEF TypeOK, Step

\* What a result appends.
LEMMA RowType ==
  ASSUME TypeOK, NEW status \in {"passed", "failed"}, NEW output \in Nat
  PROVE  Append(results, Row(status, output)) \in Rows
  BY DEF TypeOK, Row, Rows

\* The updates of the session entry leave a session entry.
LEMMA SessionType ==
  ASSUME TypeOK
  PROVE  /\ \A state \in PauseStates : SessionPaused(state) \in Sessions
         /\ SessionRunning \in Sessions
         /\ \A i \in Int \cup {None} : SessionStep(session, i) \in Sessions
         /\ NoSession \in Sessions
         /\ [NoSession EXCEPT !.state = "running"] \in Sessions
  BY DEF TypeOK, Sessions, SessionPaused, SessionRunning, SessionStep, NoSession, PauseStates

\* The end of a round leaves an index and a stack of frames.
LEMMA EndRoundType ==
  ASSUME NEW w \in Workflow, w = wf, NEW i \in Int, NEW stack \in Frames,
         Step \in WorkflowStep, EndRound(i, stack)
  PROVE  pc' = "top" /\ step_idx' \in Int /\ loop_stack' \in Frames
  BY IterationType DEF EndRound, Frames

\* An instruction leads to an index, or to None for an abort.
LEMMA ResumedIndexType ==
  ASSUME NEW instruction \in Instruction, NEW i \in Int
  PROVE  ResumedIndex(instruction, i) \in Int \cup {None}
  BY DEF ResumedIndex, Instruction

\* Nothing has happened at the start.
LEMMA TypeInit == Init => TypeOK
<1> SUFFICES ASSUME Init PROVE TypeOK
  OBVIOUS
<1>1. wf \in Workflow /\ session \in Sessions
  BY WorkflowsAssumption DEF Init, Sessions, NoSession
<1>2. << >> \in Frames /\ << >> \in Rows /\ << >> \in Seq(Instruction) /\ Len(<< >>) = 0
  BY DEF Frames, Rows
<1>3. 0 \in 0 .. MaxResumes /\ 0 \in 0 .. MaxPauses
  BY BoundsAssumption
<1>4. paused_indices \in SUBSET Int /\ step_idx \in Int /\ passed \in Nat /\ failed \in Int
  BY DEF Init
<1>5. /\ retrying \in BOOLEAN /\ cancelled \in BOOLEAN /\ raising \in BOOLEAN
      /\ monitoring \in BOOLEAN /\ cancel_event \in BOOLEAN
      /\ pause_requested \in BOOLEAN /\ registered \in BOOLEAN
  BY Zenon DEF Init
<1>6. ((pc \in {"paused", "woken"}) <=> (pause_kind # "none")) /\ pause_kind \in {"none"} \cup PauseStates
  BY DEF Init
<1>7. /\ pc = "new" /\ driver = "none" /\ instr = None /\ late_steps \in Nat
      /\ resumes \in 0 .. MaxResumes /\ pauses \in 0 .. MaxPauses
  BY <1>3 DEF Init
<1>8. /\ loop_stack \in Frames /\ results \in Rows
      /\ pause_queue \in Seq(Instruction) /\ Len(pause_queue) <= 1
      /\ putting \in Seq(Instructions) /\ Len(putting) <= 1
  BY <1>2 DEF Init
<1>9. outputs \in [Names -> Values \cup {None}]
  BY DEF Init
<1> QED
  BY <1>1, <1>4, <1>5, <1>6, <1>7, <1>8, <1>9 DEF TypeOK

\* One case for each action.
LEMMA TypeNext == TypeOK /\ [Next]_vars => TypeOK'
<1> SUFFICES ASSUME TypeOK, [Next]_vars PROVE TypeOK'
  OBVIOUS
<1> USE DEF program, counts, outcome, pausing, browser, signals, budget
<1>1. CASE CreateDriver
  BY <1>1 DEF TypeOK, CreateDriver, InRange, NumSteps
<1>2. CASE SetupDriver
  BY <1>2, SessionType DEF TypeOK, SetupDriver, InRange, NumSteps
<1>3. CASE LoopExit
  BY <1>3 DEF TypeOK, LoopExit, Leave
<1>4. CASE IndexFault
  BY <1>4 DEF TypeOK, IndexFault, Leave
<1>5. CASE CheckCancel
  BY <1>5 DEF TypeOK, CheckCancel, Leave
<1>6. CASE CheckPause
  BY <1>6, SessionType DEF TypeOK, CheckPause, BeginPause, PauseStates
<1>7. CASE LookaheadFault
  BY <1>7 DEF TypeOK, LookaheadFault, Leave
<1>8. CASE DispatchHandoff
  BY <1>8, SessionType, NextIsWaitType DEF TypeOK, DispatchHandoff, Lookahead, BeginPause, PauseStates
<1>9. CASE DispatchStep
  BY <1>9, SessionType, NextIsWaitType DEF TypeOK, DispatchStep, Lookahead
<1>10. CASE StepPasses
  <2>1. Step \in WorkflowStep /\ step_idx \in Int /\ loop_stack \in Frames /\ wf \in Workflow
    BY <1>10, StepType DEF TypeOK, StepPasses
  <2>2. /\ monitoring' \in BOOLEAN /\ session' \in Sessions
        /\ passed' \in Nat /\ failed' \in Int /\ retrying' \in BOOLEAN
    <3>1. monitoring' \in BOOLEAN
      BY <1>10, Zenon DEF TypeOK, StepPasses, MonitorAfter
    <3>2. session' \in Sessions
      BY <1>10, SessionType DEF StepPasses
    <3>3. passed' \in Nat
      BY <1>10 DEF TypeOK, StepPasses
    <3>4. failed' \in Int
      BY <1>10 DEF TypeOK, StepPasses, UncountRetried
    <3>5. retrying' \in BOOLEAN
      BY <1>10, Zenon DEF StepPasses, UncountRetried
    <3> QED
      BY <3>1, <3>2, <3>3, <3>4, <3>5
  <2>3. results' \in Rows /\ \E i \in Int, stack \in Frames : EndRound(i, stack)
    <3>1. CASE Step.kind \notin {"conditional", "loop"}
      BY <1>10, <2>1, <3>1, RowType DEF StepPasses
    <3>2. CASE Step.kind = "conditional"
      <4> PICK met \in BOOLEAN :
            /\ results' = Append(results, Row("passed", IF met THEN 1 ELSE 0))
            /\ EndRound(ConditionalIndex(Step, step_idx, met), loop_stack)
        BY <1>10, <3>2 DEF StepPasses
      <4> QED
        BY <2>1, RowType, ConditionalIndexType
    <3>3. CASE Step.kind = "loop"
      <4>1. PICK n \in 0 .. MaxItems :
            /\ results' = Append(results, Row("passed", n))
            /\ EndRound(LoopStartIndex(Step, step_idx, n),
                        LoopStartStack(loop_stack, Step, step_idx, n))
        BY <1>10, <3>3 DEF StepPasses
      <4>2. n \in Nat
        BY BoundsAssumption
      <4> QED
        BY <2>1, <4>1, <4>2, RowType, LoopStartType DEF Frames
    <3> QED
      BY <3>1, <3>2, <3>3
  <2>4. pc' = "top" /\ step_idx' \in Int /\ loop_stack' \in Frames
    BY <2>1, <2>3, EndRoundType
  <2>5. outputs' \in Memory
    <3>1. outputs \in Memory /\ Len(results) + 1 \in Nat
      BY DEF TypeOK, Memory, Rows
    <3>2. Stored \in Memory
      BY <3>1, StoringType DEF Stored
    <3>3. /\ \A i : RoundOutputs(Stored, loop_stack, i) \in Memory
          /\ \A n \in 0 .. MaxItems : LoopStartOutputs(wf, Stored, step_idx, n) \in Memory
      BY <2>1, <3>2, RoundOutputsType, BoundsAssumption
    <3> QED
      BY <1>10, <3>3 DEF StepPasses
  <2> QED
    BY <1>10, <2>2, <2>3, <2>4, <2>5 DEF TypeOK, StepPasses, Memory
<1>11. ASSUME CountFailure
       PROVE  /\ monitoring' \in BOOLEAN /\ results' \in Rows
              /\ failed' \in Int /\ retrying' \in BOOLEAN /\ Step \in WorkflowStep
  <2>1. monitoring' \in BOOLEAN
    BY <1>11, Zenon DEF TypeOK, CountFailure, MonitorAfter
  <2>2. results' \in Rows
    BY <1>11, RowType DEF CountFailure
  <2>4. failed' \in Int
    BY <1>11 DEF TypeOK, CountFailure
  <2>5. retrying' \in BOOLEAN
    BY <1>11, Zenon DEF CountFailure
  <2>3. Step \in WorkflowStep
    BY <1>11, StepType DEF TypeOK, CountFailure
  <2> QED
    BY <2>1, <2>2, <2>3, <2>4, <2>5
<1>12. CASE StepFailsAndPauses
  <2>1. CountFailure /\ session' \in Sessions
    BY <1>12, SessionType DEF StepFailsAndPauses, BeginPause, PauseStates
  <2> QED
    BY <1>11, <1>12, <2>1 DEF TypeOK, StepFailsAndPauses, CountFailure, BeginPause, PauseStates
<1>13. CASE StepFailsAndStops
  <2>1. CountFailure /\ session' \in Sessions
    BY <1>13, SessionType DEF StepFailsAndStops
  <2> QED
    BY <1>11, <1>13, <2>1 DEF TypeOK, StepFailsAndStops, CountFailure
<1>14. CASE StepFailsAndContinues
  <2>1. CountFailure /\ session' \in Sessions
    BY <1>14, SessionType DEF StepFailsAndContinues
  <2>2. pc' = "top" /\ step_idx' \in Int /\ loop_stack' \in Frames
    BY <1>11, <1>14, <2>1, EndRoundType DEF TypeOK, StepFailsAndContinues
  <2>3. outputs' \in Memory
    BY <1>14, RoundOutputsType DEF TypeOK, StepFailsAndContinues, Memory
  <2> QED
    BY <1>11, <1>14, <2>1, <2>2, <2>3 DEF TypeOK, StepFailsAndContinues, CountFailure, Memory
<1>20. CASE Wake
  BY <1>20 DEF TypeOK, Wake
<1>21. CASE PauseTimeout
  BY <1>21 DEF TypeOK, PauseTimeout, Instruction
<1>22. CASE ResumeAborts
  BY <1>22, SessionType, RowType DEF TypeOK, ResumeAborts, EndPause, Leave
<1>23. CASE ResumeProceeds
  <2>1. session' \in Sessions /\ step_idx' \in Int
    BY <1>23, SessionType, ResumedIndexType DEF TypeOK, ResumeProceeds
  <2>2. results' \in Rows /\ passed' \in Nat
    <3>1. results \in Rows /\ passed \in Nat /\ passed + 1 \in Nat
      BY DEF TypeOK
    <3>2. Append(results, Row("passed", 0)) \in Rows
      BY RowType
    <3> QED
      BY <1>23, <3>1, <3>2, Zenon DEF ResumeProceeds
  <2>3. retrying' \in BOOLEAN
    BY <1>23, Zenon DEF TypeOK, ResumeProceeds
  <2> QED
    BY <1>23, <2>1, <2>2, <2>3 DEF TypeOK, ResumeProceeds, EndPause
<1>24. CASE Cleanup
  BY <1>24, SessionType DEF TypeOK, Cleanup
<1>25. CASE CloseDriver
  BY <1>25 DEF TypeOK, CloseDriver
<1>26. CASE Unregister
  BY <1>26 DEF TypeOK, Unregister
<1>27. CASE Stop
  BY <1>27 DEF TypeOK, Stop
<1>28. CASE RequestPause
  BY <1>28, BoundsAssumption DEF TypeOK, RequestPause
<1>29. ASSUME NEW i \in Instructions, Resume(i) PROVE TypeOK'
  <2>1. resumes' \in 0 .. MaxResumes /\ i \in Instruction
    BY <1>29, BoundsAssumption, InstructionsAssumption DEF TypeOK, Resume
  <2>2. /\ pause_queue' \in Seq(Instruction) /\ Len(pause_queue') <= 1
        /\ putting' \in Seq(Instructions) /\ Len(putting') <= 1
    <3>1. /\ pause_queue \in Seq(Instruction) /\ Len(pause_queue) <= 1
          /\ putting \in Seq(Instructions) /\ Len(putting) <= 1
      BY DEF TypeOK
    <3>2. <<i>> \in Seq(Instruction) /\ <<i>> \in Seq(Instructions) /\ Len(<<i>>) = 1
      BY <2>1
    <3>3. \/ pause_queue' = <<i>> /\ putting' = putting
          \/ pause_queue' = pause_queue /\ putting' = <<i>>
      BY <1>29 DEF Resume
    <3>4. CASE pause_queue' = <<i>> /\ putting' = putting
      BY <3>1, <3>2, <3>4
    <3>5. CASE pause_queue' = pause_queue /\ putting' = <<i>>
      BY <3>1, <3>2, <3>5
    <3> QED
      BY <3>3, <3>4, <3>5
  <2> QED
    BY <1>29, <2>1, <2>2 DEF TypeOK, Resume
<1>31. CASE PutCompletes
  <2>1. putting \in Seq(Instruction)
    BY InstructionsAssumption DEF TypeOK
  <2> QED
    BY <1>31, <2>1 DEF TypeOK, PutCompletes
<1>30. CASE UNCHANGED vars
  BY <1>30 DEF TypeOK, vars, Step, InRange
<1> QED
  BY <1>1, <1>2, <1>3, <1>4, <1>5, <1>6, <1>7, <1>8, <1>9, <1>10, <1>12, <1>13, <1>14,
     <1>20, <1>21, <1>22, <1>23, <1>24, <1>25, <1>26, <1>27, <1>28, <1>29, <1>30, <1>31
  DEF Next, Thread, SetUp, LoopHead, Dispatch, Outcome, Pause, TearDown, OnLoop, Developer,
      Terminated

\* The types of Executor, and that the thread never works on an index that
\* denotes no step, whatever conditionals, loops and resume instructions do to it.
THEOREM TypeCorrect == Spec => []TypeOK
  BY TypeInit, TypeNext, PTL DEF Spec

-----------------------------------------------------------------------------
(* Cancellation.                                                             *)

\* A late step is the one the thread had decided on when the event was set:
\* before that there is none, and after it the thread is past the point where
\* it could decide on another without passing the check.
CancelInv ==
  /\ CancelWithinOneStep
  /\ late_steps > 0 => cancel_event /\ pc \notin {"pausecheck", "dispatch"}

\* One case for each action that touches the event or begins a step.
LEMMA CancelNext == TypeOK /\ CancelInv /\ [Next]_vars => CancelInv'
<1> SUFFICES ASSUME TypeOK, CancelInv, [Next]_vars PROVE CancelInv'
  OBVIOUS
<1> USE DEF CancelInv, CancelWithinOneStep, TypeOK, program, counts, outcome, pausing,
            browser, signals, budget
<1>1. CASE SetUp
  BY <1>1 DEF SetUp, CreateDriver, SetupDriver
<1>2. CASE LoopHead
  BY <1>2 DEF LoopHead, LoopExit, IndexFault, CheckCancel, CheckPause, Leave, BeginPause
<1>3. CASE Dispatch
  BY <1>3 DEF Dispatch, LookaheadFault, DispatchHandoff, DispatchStep, Leave, BeginPause
<1>4. CASE Outcome
  BY <1>4 DEF Outcome, StepPasses, StepFailsAndPauses, StepFailsAndStops,
              StepFailsAndContinues, CountFailure, BeginPause, EndRound
<1>5. CASE Pause
  BY <1>5 DEF Pause, Wake, PauseTimeout, ResumeAborts, ResumeProceeds, Leave
<1>6. CASE TearDown \/ Unregister
  BY <1>6 DEF TearDown, Cleanup, CloseDriver, Unregister
<1>7. CASE Developer \/ PutCompletes
  BY <1>7 DEF Developer, Stop, RequestPause, Resume, PutCompletes
<1>8. CASE UNCHANGED vars
  BY <1>8 DEF vars
<1> QED
  BY <1>1, <1>2, <1>3, <1>4, <1>5, <1>6, <1>7, <1>8 DEF Next, Thread, OnLoop, Terminated

\* Stopping an execution lets at most one more browser step begin, wherever the
\* thread was and whatever pauses and resumes come after.
THEOREM Cancellation == Spec => []CancelWithinOneStep
<1>1. Init => CancelInv
  BY DEF Init, CancelInv, CancelWithinOneStep
<1>2. CancelInv => CancelWithinOneStep
  BY DEF CancelInv
<1> QED
  BY <1>1, <1>2, TypeCorrect, CancelNext, PTL DEF Spec

-----------------------------------------------------------------------------
(* The browser session.                                                      *)

\* Outside the two pcs of a pause the entry never says paused; before the
\* registration and from the cleanup on there is no entry; in between the
\* browser is open.
SessionInv ==
  /\ IdleWhilePaused
  /\ pc \in {"new", "setup", "closing", "returned", "done"} => session.state = "absent"
  /\ pc \notin {"new", "returned", "done"} => driver = "open"

\* Entries change with pc, in the same action.
LEMMA SessionNext == TypeOK /\ SessionInv /\ [Next]_vars => SessionInv'
<1> SUFFICES ASSUME TypeOK, SessionInv, [Next]_vars PROVE SessionInv'
  OBVIOUS
<1> USE DEF SessionInv, IdleWhilePaused, PauseStates, program, counts, outcome, pausing,
            browser, signals, budget, SessionPaused, SessionRunning, SessionStep, NoSession
<1>0. session \in Sessions
  BY DEF TypeOK
<1>1. CASE SetUp
  BY <1>1 DEF SetUp, CreateDriver, SetupDriver
<1>2. CASE LoopHead
  BY <1>2 DEF LoopHead, LoopExit, IndexFault, CheckCancel, CheckPause, Leave, BeginPause
<1>3. CASE Dispatch
  BY <1>0, <1>3 DEF Dispatch, LookaheadFault, DispatchHandoff, DispatchStep, Leave, BeginPause, Sessions
<1>4. CASE Outcome
  <2>1. CASE StepPasses
    BY <1>0, <2>1 DEF StepPasses, EndRound, Sessions
  <2>2. CASE StepFailsAndPauses
    BY <2>2 DEF StepFailsAndPauses, CountFailure, BeginPause
  <2>3. CASE StepFailsAndStops
    BY <1>0, <2>3 DEF StepFailsAndStops, CountFailure, Sessions
  <2>4. CASE StepFailsAndContinues
    BY <1>0, <2>4 DEF StepFailsAndContinues, CountFailure, EndRound, Sessions
  <2> QED
    BY <1>4, <2>1, <2>2, <2>3, <2>4 DEF Outcome
<1>5. CASE Pause
  BY <1>0, <1>5 DEF Pause, Wake, PauseTimeout, ResumeAborts, ResumeProceeds, Leave, Sessions
<1>6. CASE TearDown \/ Unregister
  BY <1>6 DEF TearDown, Cleanup, CloseDriver, Unregister
<1>7. CASE Developer \/ PutCompletes
  BY <1>7 DEF Developer, Stop, RequestPause, Resume, PutCompletes
<1>8. CASE UNCHANGED vars
  BY <1>8 DEF vars
<1> QED
  BY <1>1, <1>2, <1>3, <1>4, <1>5, <1>6, <1>7, <1>8 DEF Next, Thread, OnLoop, Terminated

\* What GET /browser shows is true: a session that is paused has an idle thread,
\* and one that exists has a browser.
THEOREM SessionHonest == Spec => [](IdleWhilePaused /\ SessionOnlyWhileAlive)
<1>1. Init => SessionInv
  BY DEF Init, SessionInv, IdleWhilePaused, NoSession, PauseStates
<1>2. SessionInv => IdleWhilePaused /\ SessionOnlyWhileAlive
  BY DEF SessionInv, SessionOnlyWhileAlive
<1> QED
  BY <1>1, <1>2, TypeCorrect, SessionNext, PTL DEF Spec

-----------------------------------------------------------------------------
(* The counts.                                                               *)

RowsWith(rows, status) == {k \in DOMAIN rows : rows[k].status = status}

\* Appending a row adds one to the rows of its status and to no other's.
LEMMA AppendCounts ==
  ASSUME NEW rows \in Rows, NEW row, NEW status, Append(rows, row) \in Rows
  PROVE  /\ Cardinality(RowsWith(rows, status)) \in Nat
         /\ Cardinality(RowsWith(Append(rows, row), status)) =
              Cardinality(RowsWith(rows, status)) + (IF row.status = status THEN 1 ELSE 0)
<1> DEFINE S == RowsWith(rows, status)
           n == Len(rows) + 1
           T == RowsWith(Append(rows, row), status)
<1>1. IsFiniteSet(1 .. Len(rows)) /\ S \subseteq 1 .. Len(rows)
  <2>1. DOMAIN rows = 1 .. Len(rows) /\ Len(rows) \in Int
    BY DEF Rows
  <2>2. IsFiniteSet(1 .. Len(rows))
    BY <2>1, FS_Interval
  <2>3. S \subseteq 1 .. Len(rows)
    BY <2>1 DEF RowsWith
  <2> QED
    BY <2>2, <2>3
<1>2. IsFiniteSet(S) /\ n \notin S
  BY <1>1, FS_Subset DEF Rows
<1>3. Cardinality(S) \in Nat
  BY <1>2, FS_CardinalityType
<1>4. T = IF row.status = status THEN S \cup {n} ELSE S
  <2>1. DOMAIN rows = 1 .. Len(rows) /\ DOMAIN Append(rows, row) = 1 .. n /\ Len(rows) \in Nat
    BY DEF Rows
  <2>2. /\ Append(rows, row)[n] = row
        /\ \A k \in 1 .. Len(rows) : Append(rows, row)[k] = rows[k]
    BY DEF Rows
  <2> QED
    BY <2>1, <2>2 DEF RowsWith
<1>5. Cardinality(S \cup {n}) = Cardinality(S) + 1
  BY <1>2, FS_AddElement
<1> HIDE DEF S, T, n
<1>6. Cardinality(T) = Cardinality(S) + (IF row.status = status THEN 1 ELSE 0)
  BY <1>3, <1>4, <1>5
<1> QED
  BY <1>3, <1>6 DEF S, T

\* A step that is being retried after a pause has a failure to un-count, and
\* so has the pause it was retried from.
CountsInv ==
  /\ passed = Cardinality(RowsWith(results, "passed"))
  /\ 0 <= failed /\ failed <= Cardinality(RowsWith(results, "failed"))
  /\ retrying \/ pause_kind = "paused_error" => failed > 0

\* There are no rows yet.
LEMMA CountsInit == Init => CountsInv
<1> SUFFICES ASSUME Init PROVE CountsInv
  OBVIOUS
<1>1. RowsWith(results, "passed") = {} /\ RowsWith(results, "failed") = {}
  BY DEF Init, RowsWith
<1>2. passed = 0 /\ failed = 0 /\ pause_kind = "none"
  BY DEF Init
<1>3. ~retrying
  BY Zenon DEF Init
<1> QED
  BY <1>1, <1>2, <1>3, FS_EmptySet DEF CountsInv

\* Only the outcomes of a step add rows or change the counts.
LEMMA CountsNext == TypeOK /\ CountsInv /\ [Next]_vars => CountsInv'
<1> SUFFICES ASSUME TypeOK, CountsInv, [Next]_vars PROVE CountsInv'
  OBVIOUS
<1> DEFINE P(rows) == Cardinality(RowsWith(rows, "passed"))
           F(rows) == Cardinality(RowsWith(rows, "failed"))
<1>0. results \in Rows /\ P(results) \in Nat /\ F(results) \in Nat /\ passed \in Nat /\ failed \in Int
  <2>1. Append(results, Row("failed", 0)) \in Rows /\ results \in Rows
    BY RowType DEF TypeOK
  <2> QED
    BY <2>1, AppendCounts DEF TypeOK
<1>1. ASSUME NEW output \in Nat, results' = Append(results, Row("passed", output))
      PROVE  P(results') = P(results) + 1 /\ F(results') = F(results)
  <2>1. Append(results, Row("passed", output)) \in Rows /\ Row("passed", output).status = "passed"
    BY RowType DEF Row
  <2> QED
    BY <1>0, <1>1, <2>1, AppendCounts
<1>2. ASSUME results' = Append(results, Row("failed", 0))
      PROVE  P(results') = P(results) /\ F(results') = F(results) + 1
  <2>1. Append(results, Row("failed", 0)) \in Rows /\ Row("failed", 0).status = "failed"
    BY RowType DEF Row
  <2> QED
    BY <1>0, <1>2, <2>1, AppendCounts
<1>3. /\ passed = P(results) /\ 0 <= failed /\ failed <= F(results)
      /\ (retrying \/ pause_kind = "paused_error" => failed > 0)
  BY DEF CountsInv
<1>4. SUFFICES /\ passed' = P(results') /\ 0 <= failed' /\ failed' <= F(results')
               /\ (retrying' \/ pause_kind' = "paused_error" => failed' > 0)
  BY DEF CountsInv
<1> HIDE DEF P, F
<1> USE DEF program, counts, outcome, pausing, browser, signals, budget
<1>5. CASE UNCHANGED <<program, counts, pausing>>
  BY <1>3, <1>5
<1>6. CASE StepPasses
  <2>1. /\ passed' = passed + 1 /\ retrying' = FALSE
        /\ failed' = (IF retrying THEN failed - 1 ELSE failed)
        /\ pause_kind' = pause_kind /\ pause_kind = "none"
    BY <1>6 DEF StepPasses, UncountRetried, TypeOK
  <2>2. \E output \in Nat : results' = Append(results, Row("passed", output))
    <3>1. CASE Step.kind \notin {"conditional", "loop"}
      BY <1>6, <3>1 DEF StepPasses
    <3>2. CASE Step.kind = "conditional"
      BY <1>6, <3>2 DEF StepPasses
    <3>3. CASE Step.kind = "loop"
      BY <1>6, <3>3, BoundsAssumption DEF StepPasses
    <3> QED
      BY <3>1, <3>2, <3>3
  <2>3. P(results') = P(results) + 1 /\ F(results') = F(results)
    BY <1>1, <2>2
  <2> QED
    BY <1>0, <1>3, <2>1, <2>3
<1>7. CASE CountFailure
  <2>1. passed' = passed /\ failed' = failed + 1 /\ results' = Append(results, Row("failed", 0))
    BY <1>7 DEF CountFailure
  <2> QED
    BY <1>0, <1>2, <1>3, <2>1
<1>8. CASE CheckPause \/ DispatchHandoff
  <2>1. UNCHANGED <<program, counts>> /\ (pause_kind' = "paused_error" => pause_kind = "paused_error")
    BY <1>8 DEF CheckPause, DispatchHandoff, BeginPause
  <2> QED
    BY <1>3, <2>1
<1>9. CASE ResumeAborts
  <2>1. /\ UNCHANGED <<passed, failed, retrying>> /\ pause_kind' = "none"
        /\ (results' = results \/ results' = Append(results, Row("failed", 0)))
    BY <1>9 DEF ResumeAborts, EndPause
  <2> QED
    BY <1>0, <1>2, <1>3, <2>1
<1>10. CASE ResumeProceeds
  <2>1. failed' = failed /\ pause_kind' = "none"
    BY <1>10 DEF ResumeProceeds, EndPause
  <2>2. CASE pause_kind = "paused_handoff"
    <3>1. /\ results' = Append(results, Row("passed", 0)) /\ passed' = passed + 1
          /\ retrying' = retrying
      BY <1>10, <2>2 DEF ResumeProceeds
    <3> QED
      BY <1>0, <1>1, <1>3, <2>1, <3>1
  <2>3. CASE pause_kind # "paused_handoff"
    <3>1. /\ results' = results /\ passed' = passed
          /\ (pause_kind = "paused_error" \/ retrying' = retrying)
      BY <1>10, <2>3 DEF ResumeProceeds
    <3> QED
      BY <1>0, <1>3, <2>1, <3>1
  <2> QED
    BY <2>2, <2>3
<1>11. CASE Wake \/ PauseTimeout
  BY <1>3, <1>11 DEF Wake, PauseTimeout
<1>12. CASE SetUp \/ LoopExit \/ IndexFault \/ CheckCancel \/ LookaheadFault \/ DispatchStep
            \/ TearDown \/ OnLoop \/ Developer \/ UNCHANGED vars
  <2>1. UNCHANGED <<program, counts, pausing>>
    BY <1>12 DEF SetUp, CreateDriver, SetupDriver, LoopExit, IndexFault, CheckCancel,
         LookaheadFault, DispatchStep, TearDown, Cleanup, CloseDriver, OnLoop, PutCompletes,
         Unregister, Developer, Stop, RequestPause, Resume, vars
  <2> QED
    BY <1>5, <2>1
<1> QED
  BY <1>6, <1>7, <1>8, <1>9, <1>10, <1>11, <1>12
  DEF Next, Thread, LoopHead, Dispatch, Outcome, Pause, Terminated,
      StepFailsAndPauses, StepFailsAndStops, StepFailsAndContinues

\* The counts an execution reports agree with the step rows it reports them
\* with, and a retry never un-counts a failure that was not counted.
THEOREM CountsFactual == Spec => []CountsMatchRows
<1>1. CountsInv => CountsMatchRows
  BY DEF CountsInv, CountsMatchRows, PassedRows, FailedRows, RowsWith
<1> QED
  BY <1>1, CountsInit, TypeCorrect, CountsNext, PTL DEF Spec

-----------------------------------------------------------------------------
(* Executor implements RunContract: each step of the thread and of the       *)
(* developer is a step of the contract or none.  First, the outcome.         *)

\* Cancelled and raising exclude each other, and neither is set before the
\* thread has left its loop: what "ending" returns can only be cancelled.
OutcomeInv ==
  /\ cancelled => ~raising
  /\ pc \notin {"cleanup", "closing", "returned", "done"} => ~cancelled /\ ~raising

\* Inductive on its own: the outcome is set once, by the step that leaves the loop.
LEMMA OutcomeNext == OutcomeInv /\ [Next]_vars => OutcomeInv'
<1> SUFFICES ASSUME OutcomeInv, [Next]_vars PROVE OutcomeInv'
  OBVIOUS
<1> USE DEF OutcomeInv, program, counts, outcome, pausing, browser, signals, budget
<1>1. CASE SetUp
  BY <1>1 DEF SetUp, CreateDriver, SetupDriver
<1>2. CASE LoopHead
  BY <1>2 DEF LoopHead, LoopExit, IndexFault, CheckCancel, CheckPause, Leave, BeginPause
<1>3. CASE Dispatch
  BY <1>3 DEF Dispatch, LookaheadFault, DispatchHandoff, DispatchStep, Leave, BeginPause
<1>4. CASE Outcome
  <2>1. pc = "step" /\ UNCHANGED outcome
    BY <1>4 DEF Outcome, StepPasses, StepFailsAndPauses, StepFailsAndStops,
                StepFailsAndContinues, CountFailure
  <2> QED
    BY <2>1
<1>5. CASE Pause
  BY <1>5 DEF Pause, Wake, PauseTimeout, ResumeAborts, ResumeProceeds, Leave
<1>6. CASE TearDown \/ Unregister
  BY <1>6 DEF TearDown, Cleanup, CloseDriver, Unregister
<1>7. CASE Developer \/ PutCompletes
  BY <1>7 DEF Developer, Stop, RequestPause, Resume, PutCompletes
<1>8. CASE UNCHANGED vars
  BY <1>8 DEF vars
<1> QED
  BY <1>1, <1>2, <1>3, <1>4, <1>5, <1>6, <1>7, <1>8 DEF Next, Thread, OnLoop, Terminated

-----------------------------------------------------------------------------
(* The phases.                                                               *)

\* The phase and the outcome at each pc.
PhaseFacts ==
  /\ pc \in {"new", "setup", "top", "pausecheck", "dispatch", "step"} => Phase = "working"
  /\ pc = "paused" => Phase = "paused"
  /\ pc = "woken" =>
       Phase = (IF ResumedIndex(instr, step_idx) = None THEN "ending" ELSE "working")
  /\ pc \in {"cleanup", "closing"} => Phase = (IF cancelled THEN "ending" ELSE "working")
  /\ pc \in {"returned", "done"} => Phase = "returned"
  /\ Outcomes = IF pc \in {"returned", "done"} THEN Status ELSE "none"

\* Before and after a step.
LEMMA PhaseOf == PhaseFacts /\ PhaseFacts'
  BY DEF PhaseFacts, Phase, Outcomes

\* An instruction leads where the contract says.
LEMMA Leading ==
  ASSUME NEW i \in Instruction, NEW k \in Int
  PROVE  (IF ResumedIndex(i, k) = None THEN "ending" ELSE "working") \in Contract!Leads(i)
<1>1. CASE i.action = "retry"
  BY <1>1, NoneAssumption DEF ResumedIndex, Contract!Leads
<1>2. CASE i.action = "continue"
  <2>1. k + 1 # None
    BY NoneAssumption
  <2> QED
    BY <1>2, <2>1 DEF ResumedIndex, Contract!Leads
<1>3. CASE i.action = "abort"
  BY <1>3 DEF ResumedIndex, Contract!Leads
<1>4. CASE i.action = "jump"
  BY <1>4 DEF ResumedIndex, Contract!Leads
<1> QED
  BY <1>1, <1>2, <1>3, <1>4 DEF Instruction

-----------------------------------------------------------------------------
(* The steps.                                                                *)

Still == UNCHANGED <<pause_queue, cancel_event, late_steps>>

\* A step that changes neither the phase nor what the contract sees stutters.
LEMMA Stutter ==
  ASSUME Still, Phase' = Phase, Outcomes' = Outcomes
  PROVE  UNCHANGED Contract!vars
  BY DEF Still, Contract!vars

\* An execution that has not started keeps the contract.
LEMMA ContractInit == Init => Contract!Init
  BY PhaseOf DEF PhaseFacts, Init, Contract!Init

\* The driver is created outside the contract; a fault there is a failed return.
LEMMA ContractSetUp ==
  ASSUME OutcomeInv, OutcomeInv', SetUp
  PROVE  [Contract!Next]_(Contract!vars)
<1> USE DEF program, counts, outcome, pausing, browser, signals, budget
<1>1. /\ Still /\ Phase = "working" /\ Outcomes = "none"
      /\ \/ pc' \in {"setup", "top"}
         \/ pc' = "returned" /\ raising'
  BY PhaseOf DEF PhaseFacts, SetUp, CreateDriver, SetupDriver, Still
<1>2. CASE pc' \in {"setup", "top"}
  <2>1. Phase' = "working" /\ Outcomes' = "none"
    BY <1>2, PhaseOf DEF PhaseFacts
  <2> QED
    BY <1>1, <2>1, Stutter
<1>3. CASE pc' = "returned" /\ raising'
  <2>1. Phase' = "returned" /\ Outcomes' = "failed"
    BY <1>3, PhaseOf DEF PhaseFacts, Status
  <2> QED
    BY <1>1, <2>1 DEF Still, Contract!Next, Contract!Execution, Contract!Return
<1> QED
  BY <1>1, <1>2, <1>3

\* The checks between two steps: to the clean-up, to a pause, or on.
LEMMA ContractLoopHead ==
  ASSUME OutcomeInv, LoopHead
  PROVE  [Contract!Next]_(Contract!vars)
<1> USE DEF program, counts, outcome, pausing, browser, signals, budget
<1>1. Still /\ Phase = "working" /\ Outcomes = "none" /\ Outcomes' = "none"
  BY PhaseOf DEF PhaseFacts, LoopHead, LoopExit, IndexFault, CheckCancel, CheckPause,
                 Leave, BeginPause, Still
<1>2. CASE LoopExit \/ IndexFault
  BY <1>1, <1>2, PhaseOf, Stutter DEF PhaseFacts, OutcomeInv, LoopExit, IndexFault, Leave
<1>3. CASE CheckCancel /\ ~cancel_event
  BY <1>1, <1>3, PhaseOf, Stutter DEF PhaseFacts, CheckCancel
<1>4. CASE CheckCancel /\ cancel_event
  <2>1. Phase' = "ending"
    BY <1>4, PhaseOf DEF PhaseFacts, CheckCancel, Leave
  <2> QED
    BY <1>1, <1>4, <2>1 DEF Still, Contract!Next, Contract!Execution, Contract!Obey
<1>5. CASE CheckPause
  <2>1. Phase' \in {"working", "paused"}
    BY <1>5, PhaseOf DEF PhaseFacts, CheckPause, BeginPause
  <2> QED
    BY <1>1, <2>1, Stutter DEF Still, Contract!Next, Contract!Execution, Contract!Pause
<1> QED
  BY <1>2, <1>3, <1>4, <1>5 DEF LoopHead

\* A step begun after a stop is the late one, and there was none before.
LEMMA ContractDispatch ==
  ASSUME TypeOK, CancelInv, OutcomeInv, Dispatch
  PROVE  [Contract!Next]_(Contract!vars)
<1> USE DEF program, counts, outcome, pausing, browser, signals, budget
<1>1. /\ Phase = "working" /\ Outcomes = "none" /\ Outcomes' = "none"
      /\ UNCHANGED <<pause_queue, cancel_event>>
  BY PhaseOf DEF PhaseFacts, Dispatch, LookaheadFault, DispatchHandoff, DispatchStep,
                 Leave, BeginPause
<1>2. CASE LookaheadFault
  BY <1>1, <1>2, PhaseOf, Stutter DEF PhaseFacts, OutcomeInv, LookaheadFault, Leave, Still
<1>3. CASE DispatchHandoff
  <2>1. Phase' = "paused" /\ Still
    BY <1>3, PhaseOf DEF PhaseFacts, DispatchHandoff, BeginPause, Still
  <2> QED
    BY <1>1, <2>1 DEF Still, Contract!Next, Contract!Execution, Contract!Pause
<1>4. CASE DispatchStep
  <2>1. Phase' = "working" /\ late_steps = 0
    BY <1>4, PhaseOf DEF PhaseFacts, DispatchStep, CancelInv, TypeOK
  <2>2. CASE ~cancel_event
    BY <1>1, <1>4, <2>1, <2>2, Stutter DEF DispatchStep, Still
  <2>3. CASE cancel_event
    BY <1>1, <1>4, <2>1, <2>3
    DEF DispatchStep, Contract!Next, Contract!Execution, Contract!LateStep
  <2> QED
    BY <2>2, <2>3
<1> QED
  BY <1>2, <1>3, <1>4 DEF Dispatch

\* The three ends of a failed step, and the step that passes.
LEMMA ContractOutcome ==
  ASSUME OutcomeInv, Outcome
  PROVE  [Contract!Next]_(Contract!vars)
<1> USE DEF program, counts, outcome, pausing, browser, signals, budget
<1>1. Still /\ pc = "step" /\ UNCHANGED outcome
  BY DEF Outcome, StepPasses, StepFailsAndPauses, StepFailsAndStops,
         StepFailsAndContinues, CountFailure, Still
<1>2. pc' \in {"top", "paused", "cleanup"}
  BY DEF Outcome, StepPasses, StepFailsAndPauses, StepFailsAndStops,
         StepFailsAndContinues, BeginPause, EndRound
<1>3. /\ Phase = "working" /\ Phase' \in {"working", "paused"}
      /\ Outcomes = "none" /\ Outcomes' = "none"
  BY <1>1, <1>2, PhaseOf DEF PhaseFacts, OutcomeInv
<1> QED
  BY <1>1, <1>3, Stutter DEF Still, Contract!Next, Contract!Execution, Contract!Pause

\* The instruction counts when it is taken; applying it changes no phase.
LEMMA ContractPause ==
  ASSUME TypeOK, OutcomeInv, Pause
  PROVE  [Contract!Next]_(Contract!vars)
<1> USE DEF program, counts, outcome, pausing, browser, signals, budget
<1>1. /\ pc \in {"paused", "woken"} /\ pc' \in {"woken", "cleanup", "top"}
      /\ UNCHANGED <<cancel_event, late_steps>>
  BY DEF Pause, Wake, PauseTimeout, ResumeAborts, ResumeProceeds, Leave
<1>2. Outcomes = "none" /\ Outcomes' = "none"
  BY <1>1, PhaseOf DEF PhaseFacts
<1>3. CASE Wake
  <2>1. /\ pause_queue # << >> /\ Head(pause_queue) \in Instruction
        /\ pause_queue' = Tail(pause_queue) /\ step_idx \in Int
    BY <1>3 DEF Wake, TypeOK
  <2>2. Phase = "paused" /\ Phase' \in Contract!Leads(Head(pause_queue))
    BY <1>3, <2>1, PhaseOf, Leading DEF PhaseFacts, Wake
  <2> QED
    BY <1>1, <1>2, <2>1, <2>2 DEF Contract!Next, Contract!Execution, Contract!Take
<1>4. CASE PauseTimeout
  <2>1. /\ Phase = "paused" /\ Phase' = "ending"
        /\ pause_queue = << >> /\ UNCHANGED pause_queue
    BY <1>4, PhaseOf DEF PhaseFacts, PauseTimeout, ResumedIndex
  <2> QED
    BY <1>1, <1>2, <2>1 DEF Contract!Next, Contract!Execution, Contract!TimeOut
<1>5. CASE ResumeAborts
  BY <1>1, <1>2, <1>5, PhaseOf, Stutter DEF PhaseFacts, ResumeAborts, Leave, Still
<1>6. CASE ResumeProceeds
  BY <1>1, <1>2, <1>6, PhaseOf, Stutter DEF PhaseFacts, ResumeProceeds, Still
<1> QED
  BY <1>3, <1>4, <1>5, <1>6 DEF Pause

\* The thread returns when the browser has been closed.
LEMMA ContractTearDown ==
  ASSUME TypeOK, OutcomeInv, TearDown
  PROVE  [Contract!Next]_(Contract!vars)
<1> USE DEF program, counts, outcome, pausing, browser, signals, budget
<1>1. Still /\ UNCHANGED <<outcome, failed>> /\ cancelled \in BOOLEAN /\ raising \in BOOLEAN
  BY DEF TearDown, Cleanup, CloseDriver, Still, TypeOK
<1>2. CASE Cleanup
  BY <1>1, <1>2, PhaseOf, Stutter DEF PhaseFacts, Cleanup
<1>3. CASE CloseDriver
  <2>1. /\ Phase = (IF cancelled THEN "ending" ELSE "working")
        /\ Phase' = "returned" /\ Outcomes' = Status'
    BY <1>3, PhaseOf DEF PhaseFacts, CloseDriver
  <2>2. IF cancelled THEN Status' = "cancelled" ELSE Status' \in {"completed", "failed"}
    BY <1>1 DEF Status, OutcomeInv
  <2> QED
    BY <1>1, <2>1, <2>2 DEF Still, Contract!Next, Contract!Execution, Contract!Return
<1> QED
  BY <1>2, <1>3 DEF TearDown

\* A slot of one that is not empty holds one thing.
LEMMA SlotHolds ==
  ASSUME NEW S, NEW q \in Seq(S), q # << >>, Len(q) <= 1
  PROVE  \E i \in S : q = <<i>>
<1>1. Len(q) \in Nat /\ Len(q) # 0
  OBVIOUS
<1>2. Len(q) = 1 /\ q[1] \in S
  BY <1>1
<1>3. q = <<q[1]>>
  BY <1>2
<1> QED
  BY <1>2, <1>3

\* Giving the handles back is no step of the contract; an instruction that was
\* blocked is offered when it enters the slot.
LEMMA ContractOnLoop ==
  ASSUME TypeOK, OnLoop
  PROVE  [Contract!Next]_(Contract!vars)
<1> USE DEF program, counts, outcome, pausing, browser, signals, budget
<1>1. CASE Unregister
  <2>1. Still /\ UNCHANGED <<cancelled, raising, failed>>
    BY <1>1 DEF Unregister, Still
  <2>2. Status' = Status
    BY <2>1 DEF Status
  <2> QED
    BY <1>1, <2>1, <2>2, PhaseOf, Stutter DEF PhaseFacts, Unregister
<1>2. CASE PutCompletes
  <2>1. UNCHANGED <<pc, instr, step_idx, cancelled, raising, failed, late_steps, cancel_event>>
    BY <1>2 DEF PutCompletes
  <2>2. Phase' = Phase /\ Outcomes' = Outcomes
    BY <2>1 DEF Phase, Outcomes, Status
  <2>3. PICK i \in Instructions : putting = <<i>>
    <3>1. putting \in Seq(Instructions) /\ putting # << >> /\ Len(putting) <= 1
      BY <1>2 DEF PutCompletes, LoopFree, TypeOK
    <3> QED
      BY <3>1, SlotHolds
  <2> QED
    BY <1>2, <2>1, <2>2, <2>3
    DEF PutCompletes, Contract!Next, Contract!Developer, Contract!Offer
<1> QED
  BY <1>1, <1>2 DEF OnLoop

\* What the developer does leaves the thread where it is.
LEMMA ContractDeveloper ==
  ASSUME TypeOK, Developer
  PROVE  [Contract!Next]_(Contract!vars)
<1> USE DEF program, counts, outcome, pausing, browser, signals, budget
<1>1. UNCHANGED <<pc, instr, step_idx, cancelled, raising, failed, late_steps>>
  BY DEF Developer, Stop, RequestPause, Resume
<1>2. Phase' = Phase /\ Outcomes' = Outcomes
  BY <1>1 DEF Phase, Outcomes, Status
<1>3. CASE Stop
  BY <1>1, <1>2, <1>3 DEF Stop, Contract!Next, Contract!Developer, Contract!Stop
<1>4. CASE RequestPause
  BY <1>1, <1>2, <1>4, Stutter DEF RequestPause, Still
<1>5. ASSUME NEW i \in Instructions, Resume(i) PROVE [Contract!Next]_(Contract!vars)
  <2>1. CASE pause_queue = << >>
    BY <1>1, <1>2, <1>5, <2>1 DEF Resume, Contract!Next, Contract!Developer, Contract!Offer
  <2>2. CASE pause_queue # << >>
    BY <1>1, <1>2, <1>5, <2>2, Stutter DEF Resume, Still
  <2> QED
    BY <2>1, <2>2
<1> QED
  BY <1>3, <1>4, <1>5 DEF Developer

\* Every step of the executor is a step of the contract or none.
LEMMA ContractNext ==
  TypeOK /\ CancelInv /\ OutcomeInv /\ OutcomeInv' /\ [Next]_vars
    => [Contract!Next]_(Contract!vars)
<1> SUFFICES ASSUME TypeOK, CancelInv, OutcomeInv, OutcomeInv', [Next]_vars
             PROVE  [Contract!Next]_(Contract!vars)
  OBVIOUS
<1>1. CASE UNCHANGED vars
  BY <1>1, Stutter
  DEF vars, Still, Phase, Outcomes, Status, program, counts, outcome, pausing, signals
<1> QED
  BY <1>1, ContractSetUp, ContractLoopHead, ContractDispatch, ContractOutcome,
     ContractPause, ContractTearDown, ContractOnLoop, ContractDeveloper
  DEF Next, Thread, OnLoop, Terminated

\* The executor thread keeps the contract: after a stop one late step at most, a
\* pause that only an instruction turns back into work, and cancelled as the
\* answer to exactly a stop that was obeyed, an abort or a time-out.
THEOREM ContractKept == Spec => KeepsContract
<1>1. Init => CancelInv /\ OutcomeInv
  BY DEF Init, CancelInv, CancelWithinOneStep, OutcomeInv
<1> QED
  BY <1>1, TypeInit, TypeNext, CancelNext, OutcomeNext, ContractInit, ContractNext, PTL
  DEF Spec, KeepsContract, Contract!Safety

=============================================================================
