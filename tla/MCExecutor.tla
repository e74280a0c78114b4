----------------------------- MODULE MCExecutor -----------------------------
(***************************************************************************)
(* The workflows and instructions the runs of Executor use.                *)
(***************************************************************************)
EXTENDS ExecutorProps

Plain(k) == [kind |-> k, on_error |-> "inherit", stores |-> {}, skip_steps |-> 0,
             jump_to |-> None, loop_steps |-> 0, loop_var |-> None, loop_index_var |-> None]

Click       == Plain("browser")
Tolerated   == [Click EXCEPT !.on_error = "continue"]
Await       == Plain("wait")
Handoff     == Plain("handoff")
Loop(n)     == [Plain("loop") EXCEPT !.loop_steps = n]
Each(n)     == [Loop(n) EXCEPT !.loop_var = "item", !.loop_index_var = "idx"]
Inner(n)    == [Loop(n) EXCEPT !.loop_var = "inner", !.loop_index_var = "jdx"]
Named(s)    == [s EXCEPT !.stores = {"out"}]
SkipIf(n)   == [Plain("conditional") EXCEPT !.skip_steps = n]
JumpIf(i)   == [Plain("conditional") EXCEPT !.jump_to = i]

Run(steps, policy, pauseOnError) ==
  [steps |-> steps, on_error |-> policy, pause_on_error |-> pauseOnError]

Do(action, i) == [action |-> action, step_index |-> i]

\* Takeover: every kind of pause, a wait step, a handoff; several steps that
\* store a value under the same name.
MCTakeoverWorkflows ==
  {Run(<<Named(Click), Named(Await), Named(Handoff)>>, "stop", TRUE),
   Run(<<Handoff, Named(Tolerated), JumpIf(0)>>, "retry", FALSE)}

\* Back to the start, past both ends, and a jump that names no step.
MCAnyInstruction ==
  {Do("retry", None), Do("continue", None), Do("abort", None),
   Do("jump", 0), Do("jump", None), Do("jump", -1), Do("jump", -9)}

\* Loops whose bodies end at different steps; no step outside them is jumped
\* back to.
MCLoopWorkflows ==
  {Run(<<Each(2), Tolerated, Click, Click>>, "stop", FALSE),
   Run(<<Each(3), Inner(1), Click, Click>>, "stop", FALSE),
   Run(<<Each(1), Click, Inner(1), Click>>, "continue", FALSE),
   Run(<<Each(3), JumpIf(3), Click, Click>>, "stop", FALSE)}

MCForwardWorkflows ==
  {Run(<<Click, Await, Click>>, policy, TRUE) : policy \in {"stop", "continue"}}
    \cup {Run(<<Handoff, Await, Click>>, "continue", TRUE),
          Run(<<Tolerated, SkipIf(1), Click, Await>>, "stop", TRUE),
          Run(<<Loop(2), Tolerated, Click, Click>>, "stop", TRUE)}
    \cup MCLoopWorkflows

MCForwardInstructions ==
  {Do("retry", None), Do("continue", None), Do("abort", None)}

MCTolerant == {Run(<<Click, Click>>, "continue", TRUE)}

=============================================================================
