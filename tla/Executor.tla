------------------------------ MODULE Executor ------------------------------
(***************************************************************************)
(* One execution of a workflow: the executor thread (_run_sync inside      *)
(* execute_workflow, app/services/executor.py) together with the handles   *)
(* the event loop shares with it: the cancel event (cancellation.py), the  *)
(* pause event and the one-slot resume queue (pause.py), and the browser   *)
(* session entry (browser_session.py).  The developer, who stops, pauses   *)
(* and resumes through the API, is the environment.                        *)
(*                                                                         *)
(* The handles are registered by _run_execution before the thread starts   *)
(* and dropped after it has returned; that is where this module begins and *)
(* ends.  A browser step is one action that passes or fails: its duration  *)
(* is the time spent at pc = "step".  The optional arguments of            *)
(* execute_workflow are the ones _run_execution passes, the only caller:   *)
(* execution_id, pause_queue and pause_requested are always there and      *)
(* on_step_complete never is.                                              *)
(***************************************************************************)
EXTENDS WorkflowSteps, FiniteSets

CONSTANTS
  Workflows,     \* the workflows an execution may be started with
  Instructions,  \* the instructions a developer may send
  MaxItems,      \* bound: the longest list a loop step iterates over
  MaxJumps,      \* bound: no condition is met once this many results are in
  MaxResumes,    \* bound: how many instructions the developer sends
  MaxPauses      \* bound: how many pauses the developer requests

\* ResumeInstruction; resume_execution passes any step_index through, None
\* included, whatever the action.
Instruction ==
  [action     : {"retry", "continue", "abort", "jump"},
   step_index : Int \cup {None}]

ASSUME WorkflowsAssumption    == Workflows \subseteq Workflow
ASSUME InstructionsAssumption == Instructions \subseteq Instruction
ASSUME BoundsAssumption ==
  MaxItems \in Nat /\ MaxJumps \in Nat /\ MaxResumes \in Nat /\ MaxPauses \in Nat

VARIABLES
  wf,              \* the workflow, fixed when the thread starts
  pc,              \* where the thread is
  step_idx,
  results,         \* StepResults so far
  passed,
  failed,
  cancelled,
  raising,         \* an exception is leaving the thread
  loop_stack,      \* context.loop_stack
  outputs,         \* context.step_outputs
  paused_indices,  \* _paused_step_indices
  retrying,        \* _retrying_after_pause
  monitoring,      \* monitor._monitoring
  pause_kind,      \* which of the three calls of _wait_for_resume is active
  instr,           \* the instruction that call obtained
  driver,          \* the Chrome process
  session,         \* the browser session entry
  cancel_event,
  pause_requested,
  pause_queue,     \* queue.Queue(maxsize=1)
  registered,      \* the handles can be found by execution_id
  resumes,         \* instructions sent so far
  pauses,          \* pauses requested so far
  putting,         \* the instruction whose q.put blocks the event loop, if one does
  late_steps       \* history: browser steps begun after the cancel event was set

program == <<step_idx, loop_stack, paused_indices, retrying>>
counts  == <<results, passed, failed>>
outcome == <<cancelled, raising>>
pausing == <<pause_kind, instr>>
browser == <<driver, session, monitoring>>
signals == <<cancel_event, pause_requested, pause_queue, registered>>
budget  == <<resumes, pauses, putting>>

vars == <<wf, outputs, pc, program, counts, outcome, pausing, browser, signals, budget, late_steps>>

PauseStates == {"paused_requested", "paused_handoff", "paused_error"}
NoSession   == [state |-> "absent", current_step |-> None, paused_at |-> None]

Step == StepAt(wf, step_idx)

\* A StepResult; output is what output_data tells the loop: the number of
\* items of a loop step, 1 for a condition that was met, else 0.
Row(status, output) == [step |-> step_idx, status |-> status, output |-> output]

-----------------------------------------------------------------------------
(* The browser session registry; every update of a missing entry is a no-op. *)

SessionPaused(state) ==
  IF session.state = "absent" THEN session
  ELSE [state |-> state, current_step |-> None, paused_at |-> step_idx]

\* Variant: set_running is forgotten on resume.
SessionRunning_Forgotten == session

SessionRunning ==
  IF session.state = "absent" THEN session
  ELSE [session EXCEPT !.state = "running", !.paused_at = None]

SessionStep(s, i) ==
  IF s.state = "absent" THEN s ELSE [s EXCEPT !.current_step = i]

-----------------------------------------------------------------------------
Init ==
  /\ wf \in Workflows
  /\ pc = "new"
  /\ outputs = [name \in Names |-> None]
  /\ step_idx = 0 /\ loop_stack = << >> /\ paused_indices = {} /\ retrying = FALSE
  /\ results = << >> /\ passed = 0 /\ failed = 0
  /\ cancelled = FALSE /\ raising = FALSE
  /\ pause_kind = "none" /\ instr = None
  /\ driver = "none" /\ session = NoSession /\ monitoring = FALSE
  /\ cancel_event = FALSE /\ pause_requested = FALSE
  /\ pause_queue = << >> /\ registered = TRUE
  /\ resumes = 0 /\ pauses = 0 /\ putting = << >> /\ late_steps = 0

-----------------------------------------------------------------------------
(* Before the try block: an exception here skips the finally block.          *)

CreateDriver ==
  /\ pc = "new"
  /\ \/ driver' = "open" /\ pc' = "setup" /\ raising' = FALSE
     \/ driver' = driver /\ pc' = "returned" /\ raising' = TRUE
  /\ UNCHANGED <<wf, outputs, program, counts, cancelled, pausing, session, monitoring,
                 signals, budget, late_steps>>

\* Human mode and download directory may raise; a failed registration of the
\* browser session is only logged.
SetupDriver ==
  /\ pc = "setup"
  /\ \/ /\ session' \in {NoSession, [NoSession EXCEPT !.state = "running"]}
        /\ pc' = "top" /\ raising' = FALSE
     \/ /\ session' = session
        /\ pc' = "returned" /\ raising' = TRUE
  /\ UNCHANGED <<wf, outputs, program, counts, cancelled, pausing, driver, monitoring,
                 signals, budget, late_steps>>

-----------------------------------------------------------------------------
(* The head of the loop.                                                     *)

Leave(isCancelled, isRaising) ==
  /\ pc' = "cleanup"
  /\ cancelled' = isCancelled
  /\ raising' = isRaising

LoopExit ==
  /\ pc = "top"
  /\ step_idx >= NumSteps(wf)
  /\ Leave(cancelled, raising)
  /\ UNCHANGED <<wf, outputs, program, counts, pausing, browser, signals, budget, late_steps>>

\* workflow.steps[step_idx] raises IndexError.
IndexFault ==
  /\ pc = "top"
  /\ step_idx < NumSteps(wf) /\ ~InRange(wf, step_idx)
  /\ Leave(cancelled, TRUE)
  /\ UNCHANGED <<wf, outputs, program, counts, pausing, browser, signals, budget, late_steps>>

\* Variants: an endless loop without the test on len(workflow.steps); a retry
\* that goes ahead without looking at the event.
CheckCancel_NoBound ==
  /\ pc = "top"
  /\ \/ cancel_event  /\ Leave(TRUE, raising)
     \/ ~cancel_event /\ pc' = "pausecheck" /\ UNCHANGED outcome
  /\ UNCHANGED <<wf, outputs, program, counts, pausing, browser, signals, budget, late_steps>>

CheckCancel_NotOnRetry ==
  /\ pc = "top"
  /\ InRange(wf, step_idx)
  /\ \/ cancel_event /\ ~retrying /\ Leave(TRUE, raising)
     \/ (~cancel_event \/ retrying) /\ pc' = "pausecheck" /\ UNCHANGED outcome
  /\ UNCHANGED <<wf, outputs, program, counts, pausing, browser, signals, budget, late_steps>>

CheckCancel ==
  /\ pc = "top"
  /\ InRange(wf, step_idx)
  /\ \/ cancel_event  /\ Leave(TRUE, raising)
     \/ ~cancel_event /\ pc' = "pausecheck" /\ UNCHANGED outcome
  /\ UNCHANGED <<wf, outputs, program, counts, pausing, browser, signals, budget, late_steps>>

\* set_paused, then queue.get: the entry of _wait_for_resume.
BeginPause(state) ==
  /\ pc' = "paused"
  /\ pause_kind' = state
  /\ instr' = None
  /\ session' = SessionPaused(state)

CheckPause ==
  /\ pc = "pausecheck"
  /\ \/ /\ pause_requested
        /\ pause_requested' = FALSE
        /\ BeginPause("paused_requested")
     \/ /\ ~pause_requested
        /\ pc' = "dispatch"
        /\ UNCHANGED <<pause_requested, pausing, session>>
  /\ UNCHANGED <<wf, outputs, program, counts, outcome, driver, monitoring, cancel_event,
                 pause_queue, registered, budget, late_steps>>

-----------------------------------------------------------------------------
(* Look-ahead, then a handoff or the step itself.                            *)

\* monitor.start compiles the next step's url_pattern, outside any handler
\* but the finally block.
LookaheadFault ==
  /\ pc = "dispatch"
  /\ NextIsWait(wf, step_idx)
  /\ Leave(cancelled, TRUE)
  /\ UNCHANGED <<wf, outputs, program, counts, pausing, browser, signals, budget, late_steps>>

Lookahead == monitoring' = (monitoring \/ NextIsWait(wf, step_idx))

DispatchHandoff ==
  /\ pc = "dispatch"
  /\ Step.kind = "handoff"
  /\ Lookahead
  /\ BeginPause("paused_handoff")
  /\ UNCHANGED <<wf, outputs, program, counts, outcome, driver, signals, budget, late_steps>>

DispatchStep ==
  /\ pc = "dispatch"
  /\ Step.kind # "handoff"
  /\ Lookahead
  /\ pc' = "step"
  /\ session' = SessionStep(session, step_idx)
  /\ late_steps' = IF cancel_event THEN late_steps + 1 ELSE late_steps
  /\ UNCHANGED <<wf, outputs, program, counts, outcome, pausing, driver, signals, budget>>

-----------------------------------------------------------------------------
(* The outcome of a step.                                                    *)

\* What a wait step leaves of the monitor: stopped once it has waited, as it
\* was when it failed before waiting.
MonitorAfter(passes) ==
  IF Step.kind # "wait" THEN {monitoring}
  ELSE IF passes THEN {FALSE} ELSE {FALSE, monitoring}

\* The loop iteration check and the increment that end a round of the loop.
EndRound(i, stack) ==
  /\ pc' = "top"
  /\ step_idx' = IterationIndex(stack, Step, i) + 1
  /\ loop_stack' = IterationStack(stack, Step, i)

\* Variant: output_var is stored whatever the result was.
RoundOutputs_Always(values, stack, i) ==
  IterationOutputs(wf, Storing(values, Step, Len(results) + 1), stack, Step, i)

\* What that check leaves in step_outputs.
RoundOutputs(values, stack, i) == IterationOutputs(wf, values, stack, Step, i)

\* "Capture output_var into runtime context"
Stored == Storing(outputs, Step, Len(results) + 1)

\* Variant: the flag outlives the pass it un-counted a failure for.
UncountRetried_Sticky ==
  /\ failed' = IF retrying THEN failed - 1 ELSE failed
  /\ UNCHANGED retrying

\* A successful retry un-counts the original failure.
UncountRetried ==
  /\ failed' = IF retrying THEN failed - 1 ELSE failed
  /\ retrying' = FALSE

StepPasses ==
  /\ pc = "step"
  /\ Step.kind = "wait" => monitoring
  /\ monitoring' \in MonitorAfter(TRUE)
  /\ session' = SessionStep(session, None)
  /\ passed' = passed + 1
  /\ UncountRetried
  /\ \/ /\ Step.kind \notin {"conditional", "loop"}
        /\ results' = Append(results, Row("passed", 0))
        /\ EndRound(step_idx, loop_stack)
        /\ outputs' = RoundOutputs(Stored, loop_stack, step_idx)
     \/ /\ Step.kind = "conditional"
        /\ \E met \in BOOLEAN :
             /\ met => Len(results) < MaxJumps
             /\ results' = Append(results, Row("passed", IF met THEN 1 ELSE 0))
             /\ EndRound(ConditionalIndex(Step, step_idx, met), loop_stack)
             /\ outputs' = RoundOutputs(Stored, loop_stack, ConditionalIndex(Step, step_idx, met))
     \/ /\ Step.kind = "loop"
        /\ \E n \in 0 .. MaxItems :
             /\ results' = Append(results, Row("passed", n))
             /\ EndRound(LoopStartIndex(Step, step_idx, n),
                         LoopStartStack(loop_stack, Step, step_idx, n))
             /\ outputs' = LoopStartOutputs(wf, Stored, step_idx, n)
  /\ UNCHANGED <<wf, outcome, paused_indices, pausing, driver, signals, budget, late_steps>>

\* Variant: no memory of the steps that have paused.
PausesOnFailure_Always == wf.pause_on_error

PausesOnFailure == wf.pause_on_error /\ step_idx \notin paused_indices

CountFailure ==
  /\ pc = "step"
  /\ monitoring' \in MonitorAfter(FALSE)
  /\ results' = Append(results, Row("failed", 0))
  /\ failed' = failed + 1
  /\ retrying' = FALSE
  /\ UNCHANGED <<wf, passed, outcome, driver, signals, budget, late_steps>>

StepFailsAndPauses ==
  /\ CountFailure
  /\ PausesOnFailure
  /\ paused_indices' = paused_indices \cup {step_idx}
  /\ BeginPause("paused_error")
  /\ UNCHANGED <<step_idx, loop_stack, outputs>>

StepFailsAndStops ==
  /\ CountFailure
  /\ ~PausesOnFailure /\ StopsOnFailure(wf, Step)
  /\ pc' = "cleanup"
  /\ session' = SessionStep(session, None)
  /\ UNCHANGED <<step_idx, loop_stack, outputs, paused_indices, pausing>>

StepFailsAndContinues ==
  /\ CountFailure
  /\ ~PausesOnFailure /\ ~StopsOnFailure(wf, Step)
  /\ EndRound(step_idx, loop_stack)
  /\ outputs' = RoundOutputs(outputs, loop_stack, step_idx)
  /\ session' = SessionStep(session, None)
  /\ UNCHANGED <<paused_indices, pausing>>

-----------------------------------------------------------------------------
(* A pause: queue.get, set_running, _apply_resume.                           *)

Wake ==
  /\ pc = "paused"
  /\ pause_queue # << >>
  /\ instr' = Head(pause_queue)
  /\ pause_queue' = Tail(pause_queue)
  /\ pc' = "woken"
  /\ UNCHANGED <<wf, outputs, program, counts, outcome, pause_kind, browser, cancel_event,
                 pause_requested, registered, budget, late_steps>>

\* Variant: queue.get without a timeout.
PauseTimeout_Never ==
  /\ pc = "paused"
  /\ pause_queue = << >>
  /\ UNCHANGED vars

PauseTimeout ==
  /\ pc = "paused"
  /\ pause_queue = << >>
  /\ instr' = [action |-> "abort", step_index |-> None]
  /\ pc' = "woken"
  /\ UNCHANGED <<wf, outputs, program, counts, outcome, pause_kind, browser, signals,
                 budget, late_steps>>

\* Variant: continue moves on once too often.
ResumedIndex_Twice(instruction, i) ==
  CASE instruction.action = "retry"    -> i
    [] instruction.action = "continue" -> i + 2
    [] instruction.action = "abort"    -> None
    [] instruction.action = "jump"     -> instruction.step_index

\* _apply_resume; None means abort.
ResumedIndex(instruction, i) ==
  CASE instruction.action = "retry"    -> i
    [] instruction.action = "continue" -> i + 1
    [] instruction.action = "abort"    -> None
    [] instruction.action = "jump"     -> instruction.step_index

EndPause == pause_kind' = "none" /\ instr' = None

\* The three callers break out of the loop alike; a handoff also records a
\* failed result, without counting it.
ResumeAborts ==
  /\ pc = "woken"
  /\ ResumedIndex(instr, step_idx) = None
  /\ EndPause
  /\ Leave(TRUE, raising)
  /\ session' = SessionRunning
  /\ results' = IF pause_kind = "paused_handoff"
                THEN Append(results, Row("failed", 0)) ELSE results
  /\ UNCHANGED <<wf, outputs, program, passed, failed, driver, monitoring, signals, budget, late_steps>>

ResumeProceeds ==
  /\ pc = "woken"
  /\ ResumedIndex(instr, step_idx) # None
  /\ EndPause
  /\ pc' = "top"
  /\ step_idx' = ResumedIndex(instr, step_idx)
  /\ session' = SessionRunning
  /\ \/ /\ pause_kind = "paused_requested"
        /\ UNCHANGED <<results, passed, retrying>>
     \/ /\ pause_kind = "paused_handoff"
        /\ results' = Append(results, Row("passed", 0))
        /\ passed' = passed + 1
        /\ UNCHANGED retrying
     \/ /\ pause_kind = "paused_error"
        /\ retrying' = (retrying \/ instr.action = "retry")
        /\ UNCHANGED <<results, passed>>
  /\ UNCHANGED <<wf, outputs, failed, loop_stack, paused_indices, outcome, driver, monitoring,
                 signals, budget, late_steps>>

-----------------------------------------------------------------------------
(* The finally block, and the caller's.                                      *)

\* Variant: the session entry is left for after the close.
Cleanup_KeepsSession ==
  /\ pc = "cleanup"
  /\ monitoring' = FALSE
  /\ pc' = "closing"
  /\ UNCHANGED <<wf, outputs, program, counts, outcome, pausing, driver, session, signals,
                 budget, late_steps>>

\* Cleanup steps never touch the outcome; the session goes before the browser.
Cleanup ==
  /\ pc = "cleanup"
  /\ monitoring' = FALSE
  /\ session' = NoSession
  /\ pc' = "closing"
  /\ UNCHANGED <<wf, outputs, program, counts, outcome, pausing, driver, signals, budget, late_steps>>

CloseDriver ==
  /\ pc = "closing"
  /\ driver' = "closed"
  /\ pc' = "returned"
  /\ UNCHANGED <<wf, outputs, program, counts, outcome, pausing, session, monitoring, signals,
                 budget, late_steps>>

\* Variant: the failures are looked at first.
Status_FailuresFirst ==
  IF raising \/ failed > 0 THEN "failed"
  ELSE IF cancelled THEN "cancelled" ELSE "completed"

\* ExecutionResult.status; an exception makes _run_execution build a failed
\* result of its own.
Status ==
  IF raising THEN "failed"
  ELSE IF cancelled THEN "cancelled"
  ELSE IF failed = 0 THEN "completed" ELSE "failed"

-----------------------------------------------------------------------------
(* The event loop: the API requests of the developer, and the end of the     *)
(* task of _run_execution.                                                   *)

\* q.put on a full slot blocks the whole loop: no handler runs, no task goes on.
LoopFree == putting = << >>

Stop ==
  /\ LoopFree /\ registered
  /\ cancel_event' = TRUE
  /\ UNCHANGED <<wf, outputs, pc, program, counts, outcome, pausing, browser, pause_requested,
                 pause_queue, registered, budget, late_steps>>

RequestPause ==
  /\ LoopFree /\ registered
  /\ pauses < MaxPauses
  /\ pauses' = pauses + 1
  /\ pause_requested' = TRUE
  /\ UNCHANGED <<wf, outputs, pc, program, counts, outcome, pausing, browser, cancel_event,
                 pause_queue, registered, resumes, putting, late_steps>>

\* q.put returns at once while the slot is free.
Resume(i) ==
  /\ LoopFree /\ registered
  /\ resumes < MaxResumes
  /\ resumes' = resumes + 1
  /\ \/ /\ pause_queue = << >>
        /\ pause_queue' = <<i>>
        /\ UNCHANGED putting
     \/ /\ pause_queue # << >>
        /\ putting' = <<i>>
        /\ UNCHANGED pause_queue
  /\ UNCHANGED <<wf, outputs, pc, program, counts, outcome, pausing, browser, cancel_event,
                 pause_requested, registered, pauses, late_steps>>

\* The thread has taken the instruction that was in the way.
PutCompletes ==
  /\ ~LoopFree
  /\ pause_queue = << >>
  /\ pause_queue' = putting
  /\ putting' = << >>
  /\ UNCHANGED <<wf, outputs, pc, program, counts, outcome, pausing, browser, cancel_event,
                 pause_requested, registered, resumes, pauses, late_steps>>

\* unregister and pause_unregister, in _run_execution's finally block: the await
\* of the thread has returned to the loop.
Unregister ==
  /\ LoopFree
  /\ pc = "returned"
  /\ registered' = FALSE
  /\ pc' = "done"
  /\ UNCHANGED <<wf, outputs, program, counts, outcome, pausing, browser, cancel_event,
                 pause_requested, pause_queue, budget, late_steps>>

-----------------------------------------------------------------------------
SetUp    == CreateDriver \/ SetupDriver
LoopHead == LoopExit \/ IndexFault \/ CheckCancel \/ CheckPause
Dispatch == LookaheadFault \/ DispatchHandoff \/ DispatchStep
Outcome  == StepPasses \/ StepFailsAndPauses \/ StepFailsAndStops \/ StepFailsAndContinues
Pause    == Wake \/ PauseTimeout \/ ResumeAborts \/ ResumeProceeds
TearDown == Cleanup \/ CloseDriver

Thread    == SetUp \/ LoopHead \/ Dispatch \/ Outcome \/ Pause \/ TearDown
OnLoop    == PutCompletes \/ Unregister
Developer == Stop \/ RequestPause \/ \E i \in Instructions : Resume(i)

\* The thread has gone and nobody will take the instruction in the slot: the loop
\* is blocked for good.
LoopStuck == pc = "returned" /\ ~LoopFree /\ pause_queue # << >>

\* The execution is over.
Terminated == (pc = "done" \/ LoopStuck) /\ UNCHANGED vars

Next == Thread \/ OnLoop \/ Developer \/ Terminated

\* The thread runs until it returns: every step has a timeout and every pause
\* ends within 30 minutes.  The loop goes on with what is ready whenever it is
\* not blocked.  Nothing obliges the developer to act.
Spec == Init /\ [][Next]_vars /\ WF_vars(Thread) /\ WF_vars(OnLoop)

=============================================================================
