---------------------------- MODULE RunExecution ----------------------------
(***************************************************************************)
(* The life of one executions row: the background task that runs the       *)
(* workflow (_run_execution, app/api/executions.py), the stop requests and *)
(* the workflow deletion that race with it, and the loss of the process.   *)
(*                                                                         *)
(* Everything runs on one event loop; other coroutines run at every await. *)
(* An action here is the code between two awaits, with the effect of the   *)
(* statement that was awaited: a SELECT reads the row as it is then, and a *)
(* commit writes exactly the columns the session has changed (a session is *)
(* an identity map without version counter, the database reads committed   *)
(* data and the last writer of a column wins).  The executor thread, which *)
(* Executor.tla describes, is the step from "running" to "collected".      *)
(***************************************************************************)
EXTENDS Naturals, Sequences

CONSTANT Stops   \* stop requests, one handler each

Terminal == {"completed", "failed", "cancelled"}
Status   == {"pending", "running"} \cup Terminal

VARIABLES
  row,           \* the executions row; status "none" while there is none
  task,          \* _run_execution: where it is, the status it last read, its result
  cancel_event,  \* the registry's entry for the execution
  stops,         \* the stop handlers: where each is, the status it read
  webhook        \* statuses posted to the callback URL

vars == <<row, task, cancel_event, stops, webhook>>

NoRow == [status |-> "none", finished |-> FALSE, telemetry |-> FALSE]

Exists == row.status # "none"

Init ==
  /\ row = NoRow
  /\ task = [pc |-> "none", seen |-> "none", result |-> "none"]
  /\ cancel_event = "absent"
  /\ stops = [s \in Stops |-> [pc |-> "idle", seen |-> "none"]]
  /\ webhook = << >>

-----------------------------------------------------------------------------
(* Creation: run_workflow, or execute_scheduled_workflow.                    *)

Create ==
  /\ task.pc = "none"
  /\ row' = [NoRow EXCEPT !.status = "pending"]
  /\ task' = [task EXCEPT !.pc = "queued"]
  /\ UNCHANGED <<cancel_event, stops, webhook>>

-----------------------------------------------------------------------------
(* Session 1: mark as running.                                               *)

\* scalar_one raises when the row is gone.
ReadRow(from, to) ==
  /\ task.pc = from
  /\ task' = IF Exists THEN [task EXCEPT !.pc = to, !.seen = row.status]
                       ELSE [task EXCEPT !.pc = "died"]
  /\ UNCHANGED <<row, cancel_event, stops, webhook>>

LoadForStart == ReadRow("queued", "starting")

\* The status is written whatever was read.  An UPDATE that matches no row
\* raises StaleDataError.
MarkRunning ==
  /\ task.pc = "starting"
  /\ IF Exists
     THEN /\ row' = [row EXCEPT !.status = "running"]
          /\ task' = [task EXCEPT !.pc = "marked"]
     ELSE /\ task' = [task EXCEPT !.pc = "died"]
          /\ UNCHANGED row
  /\ UNCHANGED <<cancel_event, stops, webhook>>

-----------------------------------------------------------------------------
(* The browser execution.                                                    *)

\* The handles are registered once the session is closed, then the variables
\* are resolved and the thread started.
RegisterHandles ==
  /\ task.pc = "marked"
  /\ cancel_event' = "clear"
  /\ task' = [task EXCEPT !.pc = "running"]
  /\ UNCHANGED <<row, stops, webhook>>

\* Variant: no finally block.
Collect_KeepsHandles ==
  /\ task.pc = "running"
  /\ \E status \in Terminal : task' = [task EXCEPT !.pc = "collected", !.result = status]
  /\ UNCHANGED <<row, cancel_event, stops, webhook>>

\* The thread returns, or an unresolved variable keeps it from starting; the
\* finally block drops the handles.  A thread that has been stopped may still
\* complete or fail, and one that has not may be cancelled by a resume.
Collect ==
  /\ task.pc = "running"
  /\ \E status \in Terminal : task' = [task EXCEPT !.pc = "collected", !.result = status]
  /\ cancel_event' = "absent"
  /\ UNCHANGED <<row, stops, webhook>>

-----------------------------------------------------------------------------
(* Session 2: write the results, then the webhook.                           *)

LoadForResult == ReadRow("collected", "writing")

\* Variant: the status is written whatever was read.
FinalStatus_Overwrites == task.result

\* What the code keeps or writes, and later tells the webhook.
FinalStatus == IF task.seen = "cancelled" THEN "cancelled" ELSE task.result

\* Variant: a cancelled row is left alone altogether.
WriteResult_SkipsCancelled ==
  /\ task.pc = "writing"
  /\ Exists
  /\ row' = IF task.seen = "cancelled" THEN row
            ELSE [status |-> FinalStatus, finished |-> TRUE, telemetry |-> TRUE]
  /\ task' = [task EXCEPT !.pc = "written"]
  /\ UNCHANGED <<cancel_event, stops, webhook>>

\* Only a changed status is written; a row read as cancelled keeps the status
\* the database has.
WriteResult ==
  /\ task.pc = "writing"
  /\ IF Exists
     THEN /\ row' = [status    |-> IF FinalStatus = task.seen THEN row.status ELSE FinalStatus,
                     finished  |-> TRUE,
                     telemetry |-> TRUE]
          /\ task' = [task EXCEPT !.pc = "written"]
     ELSE /\ task' = [task EXCEPT !.pc = "died"]
          /\ UNCHANGED row
  /\ UNCHANGED <<cancel_event, stops, webhook>>

\* Variant: the thread's own status is posted.
Notify_OwnResult ==
  /\ task.pc = "written"
  /\ webhook' \in {webhook, Append(webhook, task.result)}
  /\ task' = [task EXCEPT !.pc = "done"]
  /\ UNCHANGED <<row, cancel_event, stops>>

\* One attempt; a missing callback URL and a failed post end the task alike.
Notify ==
  /\ task.pc = "written"
  /\ webhook' \in {webhook, Append(webhook, FinalStatus)}
  /\ task' = [task EXCEPT !.pc = "done"]
  /\ UNCHANGED <<row, cancel_event, stops>>

\* A statement of the database raises, a commit perhaps after it has taken effect,
\* or the next run of a schedule cannot be computed: the task ends, or is never
\* begun, and the row stays as it is.
TaskFails ==
  /\ task.pc \in {"queued", "starting", "marked", "collected", "writing", "written"}
  /\ task' = [task EXCEPT !.pc = "died"]
  /\ UNCHANGED <<row, cancel_event, stops, webhook>>

-----------------------------------------------------------------------------
(* stop_execution.                                                           *)

StopLoads(s) ==
  /\ stops[s].pc = "idle" /\ task.pc # "none"
  /\ stops' = [stops EXCEPT ![s] = IF Exists THEN [pc |-> "loaded", seen |-> row.status]
                                             ELSE [pc |-> "refused", seen |-> "none"]]
  /\ UNCHANGED <<row, task, cancel_event, webhook>>

\* 409, or the signal to the thread, which goes nowhere when the execution is
\* not registered.
StopSignals(s) ==
  /\ stops[s].pc = "loaded"
  /\ IF stops[s].seen \in {"pending", "running"}
     THEN /\ stops' = [stops EXCEPT ![s].pc = "signalled"]
          /\ cancel_event' = IF cancel_event = "absent" THEN "absent" ELSE "set"
     ELSE /\ stops' = [stops EXCEPT ![s].pc = "refused"]
          /\ UNCHANGED cancel_event
  /\ UNCHANGED <<row, task, webhook>>

\* The answer, or that of the commit, may be lost.
StopCommits(s) ==
  /\ stops[s].pc = "signalled"
  /\ IF Exists
     THEN /\ row' = [row EXCEPT !.status = "cancelled", !.finished = TRUE]
          /\ \E answer \in {"acked", "lost"} : stops' = [stops EXCEPT ![s].pc = answer]
     ELSE /\ stops' = [stops EXCEPT ![s].pc = "refused"]
          /\ UNCHANGED row
  /\ UNCHANGED <<task, cancel_event, webhook>>

\* The request is answered with 500.
StopFails(s) ==
  /\ stops[s].pc \in {"loaded", "signalled"}
  /\ stops' = [stops EXCEPT ![s].pc = "lost"]
  /\ UNCHANGED <<row, task, cancel_event, webhook>>

-----------------------------------------------------------------------------
(* The rest of the system.                                                   *)

\* delete_workflow: the foreign key cascades to the executions.
DeleteWorkflow ==
  /\ Exists
  /\ row' = NoRow
  /\ UNCHANGED <<task, cancel_event, stops, webhook>>

\* The process ends; the database stays.  The next one (lifespan, app/main.py)
\* reloads schedules and leaves executions as they are.
TaskOver == {"none", "done", "died", "lost"}
StopOver == {"idle", "acked", "refused", "lost"}

Crash ==
  /\ task.pc \notin TaskOver \/ \E s \in Stops : stops[s].pc \notin StopOver
  /\ task' = IF task.pc \in TaskOver THEN task ELSE [task EXCEPT !.pc = "lost"]
  /\ cancel_event' = "absent"
  /\ stops' = [s \in Stops |-> IF stops[s].pc \in StopOver THEN stops[s]
                               ELSE [stops[s] EXCEPT !.pc = "lost"]]
  /\ UNCHANGED <<row, webhook>>

-----------------------------------------------------------------------------
Task ==
  \/ LoadForStart \/ MarkRunning \/ RegisterHandles
  \/ Collect \/ LoadForResult \/ WriteResult \/ Notify

StopHandler(s) == StopLoads(s) \/ StopSignals(s) \/ StopCommits(s) \/ StopFails(s)

Next ==
  \/ Create \/ Task \/ TaskFails
  \/ \E s \in Stops : StopHandler(s)
  \/ DeleteWorkflow \/ Crash

\* The event loop resumes whatever is ready, and the thread returns
\* (EventuallyReturns of Executor).  Nobody has to create, stop or delete.
Spec ==
  /\ Init /\ [][Next]_vars
  /\ WF_vars(Task)
  /\ \A s \in Stops : WF_vars(StopSignals(s) \/ StopCommits(s))

-----------------------------------------------------------------------------
(* Properties.                                                               *)

\* Type invariant; a registered handle belongs to a task that is running.
TypeOK ==
  /\ row \in [status : {"none"} \cup Status, finished : BOOLEAN, telemetry : BOOLEAN]
  /\ task \in [pc     : {"none", "queued", "starting", "marked", "running", "collected",
                         "writing", "written", "done", "died", "lost"},
               seen   : {"none"} \cup Status,
               result : {"none"} \cup Terminal]
  /\ cancel_event \in {"absent", "clear", "set"}
  /\ stops \in [Stops -> [pc   : {"idle", "loaded", "signalled"} \cup StopOver,
                          seen : {"none"} \cup Status]]
  /\ webhook \in Seq(Terminal)
  /\ cancel_event # "absent" => task.pc = "running"

\* "Respect external cancellation": from the moment the task has read a
\* cancelled row, neither it nor any stop that is still under way makes the
\* execution anything else.
CancellationKept ==
  task.pc \in {"writing", "written", "done"} /\ task.seen = "cancelled" /\ Exists =>
    row.status = "cancelled"

\* The callback comes at most once, after the results are in the database, and
\* says what the row says, unless a stop that the task had not seen when it read
\* the row for the last time has overwritten it since.
CallbackAgrees ==
  /\ Len(webhook) <= 1
  /\ webhook # << >> /\ Exists =>
       /\ row.telemetry /\ row.finished
       /\ \/ row.status = webhook[1]
          \/ row.status = "cancelled" /\ task.seen # "cancelled"

\* An execution that was accepted comes to an end, with its telemetry, unless
\* it was deleted or its task was killed, or met a database that failed, before
\* the end.
Settles ==
  task.pc = "queued" ~>
    \/ Exists /\ row.status \in Terminal /\ row.telemetry
    \/ ~Exists
    \/ task.pc \in {"died", "lost"}

-----------------------------------------------------------------------------
(* What a comment or a test says, and the code does not do.                  *)

\* "POST /api/executions/{id}/stop should cancel a pending execution", and
\* "stop_execution may have already written cancelled to the DB while we were
\* running: preserve that status": what a stop has answered with cancelled stays
\* cancelled.
AcknowledgedStopLasts ==
  \A s \in Stops : stops[s].pc = "acked" /\ Exists => row.status = "cancelled"

=============================================================================
