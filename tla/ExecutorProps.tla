--------------------------- MODULE ExecutorProps ---------------------------
(***************************************************************************)
(* What the executor thread must guarantee (Executor.tla), each property   *)
(* after the behaviour of the code it is about.                            *)
(***************************************************************************)
EXTENDS Executor

Frames == Seq(LoopFrame)

Rows == Seq([step : Int, status : {"passed", "failed"}, output : Nat])

Sessions ==
  [state        : {"absent", "running"} \cup PauseStates,
   current_step : Int \cup {None},
   paused_at    : Int \cup {None}]

\* Type invariant.  The one fact in it that is more than a domain: while the
\* thread is between the head of the loop and the outcome of a step, step_idx
\* denotes a step of the workflow.
TypeOK ==
  /\ wf \in Workflow
  /\ pc \in {"new", "setup", "top", "pausecheck", "dispatch", "step", "paused",
             "woken", "cleanup", "closing", "returned", "done"}
  /\ step_idx \in Int /\ loop_stack \in Frames /\ outputs \in [Names -> Values \cup {None}]
  /\ paused_indices \in SUBSET Int /\ retrying \in BOOLEAN
  /\ results \in Rows /\ passed \in Nat /\ failed \in Int
  /\ cancelled \in BOOLEAN /\ raising \in BOOLEAN
  /\ pause_kind \in {"none"} \cup PauseStates /\ instr \in Instruction \cup {None}
  /\ driver \in {"none", "open", "closed"}
  /\ session \in Sessions /\ monitoring \in BOOLEAN
  /\ cancel_event \in BOOLEAN /\ pause_requested \in BOOLEAN /\ registered \in BOOLEAN
  /\ pause_queue \in Seq(Instruction) /\ Len(pause_queue) <= 1
  /\ putting \in Seq(Instructions) /\ Len(putting) <= 1
  /\ resumes \in 0 .. MaxResumes /\ pauses \in 0 .. MaxPauses /\ late_steps \in Nat
  /\ pc \in {"pausecheck", "dispatch", "step", "paused", "woken"} => InRange(wf, step_idx)
  /\ (pc \in {"paused", "woken"}) <=> (pause_kind # "none")
  /\ pc = "woken" => instr \in Instruction

-----------------------------------------------------------------------------
(* Safety.                                                                   *)

\* Stopping an execution takes effect at the next check between two steps:
\* whatever the thread is doing when the event is set, in whatever pause it
\* is and however it is resumed, at most the one step it has already decided
\* on still runs ("stop after the current step", app/api/executions.py).
CancelWithinOneStep == late_steps <= 1

\* The counts written to the database agree with the step rows written next
\* to them: passed is the number of passed rows, and failed, which a
\* successful retry decrements, is never negative and never more than the
\* failed rows.
PassedRows == {k \in DOMAIN results : results[k].status = "passed"}
FailedRows == {k \in DOMAIN results : results[k].status = "failed"}
CountsMatchRows ==
  /\ passed = Cardinality(PassedRows)
  /\ 0 <= failed /\ failed <= Cardinality(FailedRows)

\* While GET /browser reports a pause, the thread is not driving the page: the
\* developer's client has it alone (hot-takeover design, "The engine's Driver
\* is completely idle").
IdleWhilePaused == session.state \in PauseStates => pc \in {"paused", "woken"}

\* "An entry exists ONLY while a browser is alive and accepting CDP
\* connections" (app/services/browser_session.py).
SessionOnlyWhileAlive == session.state # "absent" => driver = "open"

\* A wait step reached directly after the step that triggers its download or
\* response, in whatever way the pauses and retries in between went, finds the
\* monitor running (the look-ahead of NetworkMonitor's docstring).  The second
\* of two consecutive wait steps is left out: the first one stops the monitor.
TriggeredBy(i) ==
  /\ results # << >>
  /\ results[Len(results)].step = i - 1
  /\ InRange(wf, i - 1) /\ StepAt(wf, i - 1).kind # "wait"

ArmedAfterTrigger ==
  pc = "step" /\ Step.kind = "wait" /\ TriggeredBy(step_idx) => monitoring

\* Nothing takes the execution back: no loop, no conditional that goes back, no
\* instruction that jumps.
Loopless   == \A k \in DOMAIN wf.steps : wf.steps[k].kind # "loop"
NoJumpSent == \A i \in Instructions : i.action # "jump"
FrontToBack ==
  /\ Loopless /\ NoJumpSent
  /\ \A i \in 0 .. NumSteps(wf) - 1 :
       StepAt(wf, i).kind = "conditional" => ConditionalIndex(StepAt(wf, i), i, TRUE) >= i

\* No infinite pause loop: in an execution that runs front to back, a step fails
\* at most twice, once before its pause and once after ("fails again -> on_error
\* applies", hot-takeover design), however instructions and requested pauses
\* overlap.
FailuresAt(i) == {k \in FailedRows : results[k].step = i}
RetryBounded ==
  FrontToBack => \A i \in {results[k].step : k \in FailedRows} : Cardinality(FailuresAt(i)) <= 2

\* An execution is reported completed only if every failed step passed later:
\* the failure a retry un-counts is its own.  It holds as long as no pause is
\* requested.
Resolved(k) ==
  \E j \in PassedRows : j > k /\ results[j].step = results[k].step
CompletedMeansResolved ==
  pc \in {"returned", "done"} /\ Status = "completed" => \A k \in FailedRows : Resolved(k)
RetryUncountsItsOwn == pauses = 0 => CompletedMeansResolved

\* "continue: mark paused step as resolved, advance to next step" (hot-takeover
\* design): when a workflow without branches is reported completed, and nobody
\* has jumped, every step of it has been run or handed over, through whatever
\* errors, retries and stale instructions.  A requested pause is the exception:
\* it is taken before a step that has not run, and continue moves past it.
EveryStepRuns ==
  /\ pc \in {"returned", "done"} /\ Status = "completed" /\ pauses = 0
  /\ Loopless /\ NoJumpSent /\ (\A k \in DOMAIN wf.steps : wf.steps[k].kind # "conditional")
  => \A i \in 0 .. NumSteps(wf) - 1 : \E k \in DOMAIN results : results[k].step = i

-----------------------------------------------------------------------------
(* Loops.                                                                    *)

\* No pause has come between two rounds: no step has failed and paused, none
\* was requested, and the workflow has no handoff.
NeverPaused ==
  /\ paused_indices = {} /\ pauses = 0
  /\ \A k \in DOMAIN wf.steps : wf.steps[k].kind # "handoff"

\* The bodies of the workflow's loops: none is empty, one that begins inside
\* another ends before it does, and no conditional leaves the body it is in.
\* (The schema does not ask for it.  Two bodies that end at the same step, or a
\* jump out of a body, leave a frame behind.)
LoopSteps   == {l \in 0 .. NumSteps(wf) - 1 : StepAt(wf, l).kind = "loop"}
BodyEnd(l)  == l + StepAt(wf, l).loop_steps
WellNested ==
  /\ \A l \in LoopSteps : l < BodyEnd(l)
  /\ \A l, m \in LoopSteps : m \in l + 1 .. BodyEnd(l) => BodyEnd(m) < BodyEnd(l)
  /\ \A c \in 0 .. NumSteps(wf) - 1 : StepAt(wf, c).kind = "conditional" =>
       LET i == ConditionalIndex(StepAt(wf, c), c, TRUE)
       IN  /\ i >= -1
           /\ \A l \in LoopSteps : c \in l + 1 .. BodyEnd(l) => i \in l .. BodyEnd(l)

\* The stack of frames follows the index: at the head of the loop the next
\* step lies in the body of every open frame, and the frames lie one inside the
\* other.  A frame that leaks, or is popped early, breaks one of the two at once.
\* (A continue out of a pause goes round without the iteration check.)
FramesNest ==
  pc = "top" /\ NeverPaused /\ WellNested =>
    /\ \A k \in DOMAIN loop_stack :
         step_idx \in loop_stack[k].body_start .. loop_stack[k].body_end
    /\ \A k \in 1 .. Len(loop_stack) - 1 :
         /\ loop_stack[k].body_start < loop_stack[k + 1].body_start
         /\ loop_stack[k + 1].body_end < loop_stack[k].body_end

\* The step at j is in the body of the loop step at i, and of no loop inside.
LoopOf(i, j) ==
  /\ StepAt(wf, i).kind = "loop"
  /\ j \in i + 1 .. i + StepAt(wf, i).loop_steps
  /\ \A k \in i + 1 .. j - 1 :
       StepAt(wf, k).kind = "loop" => j > k + StepAt(wf, k).loop_steps

\* A body that reaches past the last step is not gone round: there is no step
\* whose end would find the frame.
BodiesFit == \A l \in LoopSteps : BodyEnd(l) < NumSteps(wf)

\* Nothing but loops moves the index: no conditional, no pause, and bodies that
\* end where they should.
OnlyLoops ==
  /\ NeverPaused /\ WellNested /\ BodiesFit
  /\ \A i \in 0 .. NumSteps(wf) - 1 : StepAt(wf, i).kind # "conditional"

\* The rows of the step at i, and each item that one of them, of a loop step,
\* found to iterate over.
RowsOf(rows, i)  == {k \in DOMAIN rows : rows[k].step = i}
ItemsOf(rows, i) == UNION {{k} \X (1 .. rows[k].output) : k \in RowsOf(rows, i)}

\* A loop runs its body once per item: when an execution completes, each step
\* of a loop's body has as many rows as the loop had items, over all the times
\* it was entered ("Loop iteration check (after every step)").
EveryItemVisited ==
  pc \in {"returned", "done"} /\ Status = "completed" /\ OnlyLoops =>
    \A i, j \in 0 .. NumSteps(wf) - 1 :
      LoopOf(i, j) => Cardinality(RowsOf(results, j)) = Cardinality(ItemsOf(results, i))

-----------------------------------------------------------------------------
(* What the ${name} tokens of a step read (tests/test_new_actions.py,        *)
(* TestLoop).                                                                *)

\* The two names of a loop, and the passed rows whose step stores x.  A handoff
\* is not executed and stores nothing.
NamesAt(l)  == {StepAt(wf, l).loop_var, StepAt(wf, l).loop_index_var}
LoopNames   == UNION {NamesAt(l) : l \in LoopSteps}
Gives(s, x) == x \in s.stores /\ s.kind # "handoff"
Givers(x)   == {k \in PassedRows : Gives(StepAt(wf, results[k].step), x)}

\* A name no loop uses holds the output of the last step that passed and
\* stored it, and nothing before: a failed attempt leaves the value of an
\* earlier one, and a retry, a jump back or the next round of a loop replaces it.
TokensTakeLastOutput ==
  \A x \in Names \ LoopNames :
    \/ Givers(x) = {} /\ outputs[x] = None
    \/ \E k \in Givers(x) : outputs[x] = Output(k) /\ \A j \in Givers(x) : j <= k

\* The loop at l has its names to itself: it has two, which differ, no other
\* loop has one of them, and no step stores one.
OwnNames(l) ==
  /\ None \notin NamesAt(l) /\ StepAt(wf, l).loop_var # StepAt(wf, l).loop_index_var
  /\ \A k \in LoopSteps \ {l} : NamesAt(k) \cap NamesAt(l) = {}
  /\ \A k \in DOMAIN wf.steps : wf.steps[k].stores \cap NamesAt(l) = {}

\* Row k is the last one of the step at l; how often the step at j has run since.
Entered(rows, k, l) == k \in RowsOf(rows, l) /\ \A r \in RowsOf(rows, l) : r <= k
Since(rows, k, j)   == Cardinality({r \in RowsOf(rows, j) : r > k})

\* No loop step has failed (its body then runs once, with nothing to iterate).
LoopsPass == \A k \in FailedRows : results[k].step \notin LoopSteps

\* A step of a loop's body reads the loop's own item: in round m (0 the first)
\* after the loop was last entered, loop_var holds item m and loop_index_var
\* is m, whatever loops run inside the body and whatever failures it tolerates.
BodyReadsItsItem ==
  pc = "step" /\ OnlyLoops /\ LoopsPass =>
    \A l \in LoopSteps :
      LoopOf(l, step_idx) /\ OwnNames(l) =>
        \E k \in RowsOf(results, l) :
          /\ Entered(results, k, l)
          /\ outputs[StepAt(wf, l).loop_var] = Item(l, Since(results, k, step_idx))
          /\ outputs[StepAt(wf, l).loop_index_var] = Index(Since(results, k, step_idx))

-----------------------------------------------------------------------------
(* Refinement.                                                               *)

\* The thread in the words of the contract.  An instruction counts from the
\* moment it is taken off the queue.
Phase ==
  CASE pc = "paused"                                             -> "paused"
    [] pc = "woken" /\ ResumedIndex(instr, step_idx) = None  -> "ending"
    [] pc = "woken" /\ ResumedIndex(instr, step_idx) # None -> "working"
    [] pc \in {"cleanup", "closing"} /\ cancelled              -> "ending"
    [] pc \in {"returned", "done"}                               -> "returned"
    [] OTHER                                                       -> "working"

Outcomes == IF pc \in {"returned", "done"} THEN Status ELSE "none"

Contract == INSTANCE RunContract WITH
  phase <- Phase, slot <- pause_queue, stopped <- cancel_event,
  late <- late_steps, status <- Outcomes

\* The executor thread keeps the contract: one late step, a pause that only an
\* instruction turns back into work, and cancelled as the answer to exactly a
\* stop, an abort or a time-out.
KeepsContract == Contract!Safety

-----------------------------------------------------------------------------
(* Liveness.                                                                 *)

\* Every execution returns, whatever the developer does or fails to do, and
\* gives its handles back, unless a resume blocks the event loop with an
\* instruction that the returned thread will never take (pause.py, q.put).
EventuallyReturns == <>(pc = "done" \/ LoopStuck)

=============================================================================
