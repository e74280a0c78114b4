--------------------------- MODULE WorkflowSteps ---------------------------
(***************************************************************************)
(* The workflow an execution interprets, and the arithmetic its step loop  *)
(* does on step indices and on the stack of loop frames.                   *)
(*                                                                         *)
(* Source: app/schemas.py (WorkflowStep, WorkflowSettings, Workflow) and   *)
(* the control-flow half of the loop in app/services/executor.py.  What a  *)
(* step does in the browser is abstracted to its kind; the fields kept are *)
(* those the loop branches on.  Step indices are the 0-based Python        *)
(* indices of the source, negative ones included.                          *)
(***************************************************************************)
EXTENDS Integers, Sequences

CONSTANTS
  None,   \* Python's None where an index or a name is expected
  Names   \* the names a step may give a value: output_var, loop_var, loop_index_var

ASSUME NoneAssumption == None \notin Int /\ None \notin Names

(***************************************************************************)
(* "wait" stands for wait_for_download and wait_for_response, the two      *)
(* actions that need the network monitor; "browser" for every action       *)
(* without control flow of its own.                                        *)
(***************************************************************************)
Kinds == {"browser", "wait", "handoff", "conditional", "loop"}

Policies == {"stop", "continue", "retry"}

\* skip_steps and loop_steps are optional in the schema; the code treats a
\* missing one and 0 alike, so 0 stands for both.  stores holds output_var and,
\* for an http_request, the "_body" name derived from it.
WorkflowStep ==
  [kind           : Kinds,
   on_error       : Policies \cup {"inherit"},
   stores         : SUBSET Names,
   skip_steps     : Int,
   jump_to        : Int \cup {None},
   loop_steps     : Int,
   loop_var       : Names \cup {None},
   loop_index_var : Names \cup {None}]

Workflow ==
  [steps          : Seq(WorkflowStep),
   on_error       : Policies,
   pause_on_error : BOOLEAN]

LoopFrame ==
  [items         : Nat,     \* len(items)
   current_index : Nat,
   body_start    : Int,
   body_end      : Int]

NumSteps(w) == Len(w.steps)

\* workflow.steps[i] is defined (Python accepts -len..len-1).
InRange(w, i) == i \in -NumSteps(w) .. NumSteps(w) - 1

\* workflow.steps[i]; a negative index counts from the end.
StepAt(w, i) == w.steps[IF i >= 0 THEN i + 1 ELSE NumSteps(w) + i + 1]

\* Variant: off by one at the last step.
NextIsWait_ShortOfLast(w, i) ==
  i + 1 < NumSteps(w) - 1 /\ StepAt(w, i + 1).kind = "wait"

\* The look-ahead: the step at i + 1 is one that needs the monitor running.
NextIsWait(w, i) == i + 1 < NumSteps(w) /\ StepAt(w, i + 1).kind = "wait"

\* on_error of the step, else of the workflow; "retry" behaves as "stop".
StopsOnFailure(w, s) ==
  (IF s.on_error = "inherit" THEN w.on_error ELSE s.on_error) \in {"stop", "retry"}

-----------------------------------------------------------------------------
(***************************************************************************)
(* Where a passed or tolerated step leaves the index before the final      *)
(* increment, and what it leaves on the loop stack.                        *)
(***************************************************************************)

\* Conditional skip/jump: skip_steps wins over jump_to.
ConditionalIndex(s, i, met) ==
  CASE ~met                                 -> i
    [] met /\ s.skip_steps # 0              -> i + s.skip_steps
    [] met /\ s.skip_steps = 0 /\ s.jump_to # None -> s.jump_to - 1
    [] OTHER                                -> i

\* A loop over an empty list skips its body.
LoopStartIndex(s, i, n) == IF n = 0 THEN i + s.loop_steps ELSE i

LoopStartStack(stack, s, i, n) ==
  IF n = 0 THEN stack
  ELSE Append(stack, [items |-> n, current_index |-> 0,
                      body_start |-> i + 1, body_end |-> i + s.loop_steps])

Innermost(stack) == stack[Len(stack)]

\* The loop iteration check: only the innermost frame is looked at, and
\* never right after a loop step.
AtBodyEnd(stack, s, i) ==
  /\ stack # << >>
  /\ s.kind # "loop"
  /\ i = Innermost(stack).body_end

\* Variant: one iteration too many.
MoreItems_OffByOne(frame) == frame.current_index < frame.items

MoreItems(frame) == frame.current_index + 1 < frame.items

IterationIndex(stack, s, i) ==
  IF AtBodyEnd(stack, s, i) /\ MoreItems(Innermost(stack))
  THEN Innermost(stack).body_start - 1
  ELSE i

\* Variant: the outermost frame is popped.
IterationStack_PopsOutermost(stack, s, i) ==
  CASE ~AtBodyEnd(stack, s, i) -> stack
    [] AtBodyEnd(stack, s, i) /\ MoreItems(Innermost(stack)) ->
         [stack EXCEPT ![Len(stack)].current_index = @ + 1]
    [] OTHER -> Tail(stack)

IterationStack(stack, s, i) ==
  CASE ~AtBodyEnd(stack, s, i) -> stack
    [] AtBodyEnd(stack, s, i) /\ MoreItems(Innermost(stack)) ->
         [stack EXCEPT ![Len(stack)].current_index = @ + 1]
    [] OTHER -> SubSeq(stack, 1, Len(stack) - 1)

-----------------------------------------------------------------------------
(***************************************************************************)
(* context.step_outputs, where the ${name} tokens of a step are looked up  *)
(* before it runs.  A value is known by where it comes from: the row of    *)
(* the step that returned it, the item of a loop (the first is number 0),  *)
(* or a loop's index.                                                      *)
(***************************************************************************)
Values == [from : {"step", "item", "index"}, of : Int, number : Nat]

Output(row)  == [from |-> "step",  of |-> 0, number |-> row]
Item(l, m)   == [from |-> "item",  of |-> l, number |-> m]
Index(m)     == [from |-> "index", of |-> 0, number |-> m]

\* An unset name: no token can name the key None.
With(outputs, name, value) ==
  IF name = None THEN outputs ELSE [outputs EXCEPT ![name] = value]

\* What the step of row k stores.
Storing(outputs, s, row) ==
  [name \in Names |-> IF name \in s.stores THEN Output(row) ELSE outputs[name]]

\* Round m of the loop at l begins: its item, then its index.
LoopOutputs(w, outputs, l, m) ==
  With(With(outputs, StepAt(w, l).loop_var, Item(l, m)), StepAt(w, l).loop_index_var, Index(m))

LoopStartOutputs(w, outputs, i, n) ==
  IF n = 0 THEN outputs ELSE LoopOutputs(w, outputs, i, 0)

\* Variant: the item is taken before current_index has moved on.
IterationOutputs_Early(w, outputs, stack, s, i) ==
  IF AtBodyEnd(stack, s, i) /\ MoreItems(Innermost(stack))
  THEN LoopOutputs(w, outputs, Innermost(stack).body_start - 1, Innermost(stack).current_index)
  ELSE outputs

IterationOutputs(w, outputs, stack, s, i) ==
  IF AtBodyEnd(stack, s, i) /\ MoreItems(Innermost(stack))
  THEN LoopOutputs(w, outputs, Innermost(stack).body_start - 1, Innermost(stack).current_index + 1)
  ELSE outputs

=============================================================================
