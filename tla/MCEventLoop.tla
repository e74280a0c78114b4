----------------------------- MODULE MCEventLoop -----------------------------
(***************************************************************************)
(* The instructions the runs of EventLoop use.                             *)
(***************************************************************************)
EXTENDS EventLoop

MCInstructions == {[action |-> "continue"], [action |-> "abort"]}

=============================================================================
