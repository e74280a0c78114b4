----------------------------- MODULE RunContract -----------------------------
(***************************************************************************)
(* What a started execution promises to those who watch and steer it: the  *)
(* API handlers, which set its cancel event and fill its resume queue, and *)
(* _run_execution, which waits for its status.  Nothing is said of steps,  *)
(* loops or retries.  Executor implements it in full detail; EventLoop     *)
(* puts several executions that keep it on one thread pool.                *)
(***************************************************************************)
EXTENDS Naturals, Sequences

CONSTANT Instructions   \* the instructions a developer may send

VARIABLES
  phase,    \* working, paused, ending (nothing but clean-up is left), returned
  slot,     \* the resume queue
  stopped,  \* the cancel event
  late,     \* browser steps begun after the cancel event was set
  status    \* the status it returns

vars == <<phase, slot, stopped, late, status>>

Init ==
  /\ phase = "working" /\ slot = << >> /\ stopped = FALSE
  /\ late = 0 /\ status = "none"

\* At most the one step that was already decided on begins after a stop.
LateStep ==
  /\ phase = "working" /\ stopped /\ late = 0
  /\ late' = 1
  /\ UNCHANGED <<phase, slot, stopped, status>>

Pause ==
  /\ phase = "working"
  /\ phase' = "paused"
  /\ UNCHANGED <<slot, stopped, late, status>>

\* Where an instruction leads; a jump that names no step ends the execution.
Leads(i) ==
  CASE i.action = "abort"               -> {"ending"}
    [] i.action \in {"retry", "continue"} -> {"working"}
    [] i.action = "jump"                -> {"working", "ending"}

\* A pause ends with the instruction in the slot, the one way to return to work.
Take ==
  /\ phase = "paused" /\ slot # << >>
  /\ phase' \in Leads(Head(slot))
  /\ slot' = Tail(slot)
  /\ UNCHANGED <<stopped, late, status>>

TimeOut ==
  /\ phase = "paused" /\ slot = << >>
  /\ phase' = "ending"
  /\ UNCHANGED <<slot, stopped, late, status>>

\* A stop is obeyed between two steps; a paused execution does not see it.
Obey ==
  /\ phase = "working" /\ stopped
  /\ phase' = "ending"
  /\ UNCHANGED <<slot, stopped, late, status>>

\* "cancelled" is returned exactly after a stop that was obeyed, an abort or a
\* time-out; work that ends by itself completes or fails.
Return ==
  /\ \/ phase = "working" /\ status' \in {"completed", "failed"}
     \/ phase = "ending"  /\ status' = "cancelled"
  /\ phase' = "returned"
  /\ UNCHANGED <<slot, stopped, late>>

Stop ==
  /\ stopped' = TRUE
  /\ UNCHANGED <<phase, slot, late, status>>

Offer(i) ==
  /\ slot = << >>
  /\ slot' = <<i>>
  /\ UNCHANGED <<phase, stopped, late, status>>

Execution == LateStep \/ Pause \/ Take \/ TimeOut \/ Obey \/ Return
Developer == Stop \/ \E i \in Instructions : Offer(i)

Next == Execution \/ Developer

Safety == Init /\ [][Next]_vars

=============================================================================
