------------------------- MODULE RunExecutionProofs -------------------------
(***************************************************************************)
(* Theorems about RunExecution for every set of stop requests.             *)
(***************************************************************************)
EXTENDS RunExecution, TLAPS

\* Where each fact about the end of an execution comes from: a result is known
\* once the thread has been collected; while the browser runs the row says so or
\* says cancelled; a row written by the task has its
\* telemetry and the status the task decided on, unless a stop the task did not
\* see came later; and the callback is the last thing the task does.
ResultKnown ==
  task.pc \in {"collected", "writing", "written", "done"} => task.result \in Terminal

SeenAtEnd ==
  /\ task.pc \in {"marked", "running", "collected"} /\ Exists => row.status \in {"running", "cancelled"}
  /\ task.pc \in {"writing", "written", "done"} => task.seen \in {"running", "cancelled"}

RowWritten ==
  task.pc \in {"written", "done"} /\ Exists =>
    /\ row.telemetry /\ row.finished
    /\ \/ row.status = FinalStatus
       \/ row.status = "cancelled" /\ task.seen # "cancelled"

CallbackLast == webhook # << >> => task.pc = "done" /\ webhook = <<FinalStatus>>

IndInv ==
  TypeOK /\ ResultKnown /\ SeenAtEnd /\ CancellationKept /\ RowWritten /\ CallbackLast

USE DEF Terminal, Status, TaskOver, StopOver, Exists, NoRow

\* Nothing has happened at the start.
LEMMA InitInv == Init => IndInv
<1> SUFFICES ASSUME Init PROVE IndInv
  OBVIOUS
<1>1. TypeOK
  BY DEF Init, TypeOK
<1>2. ResultKnown /\ SeenAtEnd /\ CancellationKept /\ RowWritten /\ CallbackLast
  BY DEF Init, ResultKnown, SeenAtEnd, CancellationKept, RowWritten, CallbackLast
<1> QED
  BY <1>1, <1>2 DEF IndInv

\* What an action that leaves the row, the task and the webhook alone preserves.
LEMMA EndUnchanged ==
  ASSUME IndInv, UNCHANGED <<row, task, webhook>>
  PROVE  (ResultKnown /\ SeenAtEnd /\ CancellationKept /\ RowWritten /\ CallbackLast)'
  BY DEF IndInv, ResultKnown, SeenAtEnd, CancellationKept, RowWritten, CallbackLast, FinalStatus

\* One case for each action.
LEMMA NextInv == IndInv /\ [Next]_vars => IndInv'
<1> SUFFICES ASSUME IndInv, [Next]_vars PROVE IndInv'
  OBVIOUS
<1> USE DEF IndInv
<1>1. CASE Create
  <2>1. TypeOK'
    BY <1>1 DEF Create, TypeOK
  <2> QED
    BY <1>1, <2>1 DEF Create, TypeOK, ResultKnown, SeenAtEnd, CancellationKept, RowWritten, CallbackLast
<1>2. CASE TaskFails
  <2>1. TypeOK'
    BY <1>2 DEF TaskFails, TypeOK
  <2> QED
    BY <1>2, <2>1 DEF TaskFails, TypeOK, ResultKnown, SeenAtEnd, CancellationKept, RowWritten, CallbackLast
<1>3. CASE LoadForStart
  <2>1. TypeOK'
    BY <1>3 DEF LoadForStart, ReadRow, TypeOK
  <2> QED
    BY <1>3, <2>1 DEF LoadForStart, ReadRow, TypeOK, ResultKnown, SeenAtEnd, CancellationKept, RowWritten,
                      CallbackLast
<1>4. CASE MarkRunning
  <2>1. TypeOK'
    BY <1>4 DEF MarkRunning, TypeOK
  <2> QED
    BY <1>4, <2>1 DEF MarkRunning, TypeOK, ResultKnown, SeenAtEnd, CancellationKept, RowWritten, CallbackLast
<1>5. CASE RegisterHandles
  <2>1. TypeOK'
    BY <1>5 DEF RegisterHandles, TypeOK
  <2> QED
    BY <1>5, <2>1 DEF RegisterHandles, TypeOK, ResultKnown, SeenAtEnd, CancellationKept, RowWritten, CallbackLast
<1>6. CASE Collect
  <2>1. PICK status \in Terminal : task' = [task EXCEPT !.pc = "collected", !.result = status]
    BY <1>6 DEF Collect
  <2>2. TypeOK'
    BY <1>6, <2>1 DEF Collect, TypeOK
  <2> QED
    BY <1>6, <2>1, <2>2 DEF Collect, TypeOK, ResultKnown, SeenAtEnd, CancellationKept, RowWritten, CallbackLast
<1>7. CASE LoadForResult
  <2>1. TypeOK'
    BY <1>7 DEF LoadForResult, ReadRow, TypeOK
  <2> QED
    BY <1>7, <2>1 DEF LoadForResult, ReadRow, TypeOK, ResultKnown, SeenAtEnd, CancellationKept, RowWritten,
                      CallbackLast
<1>8. CASE WriteResult
  <2>1. /\ task.pc = "writing" /\ task.result \in Terminal /\ task.seen \in {"running", "cancelled"}
        /\ UNCHANGED <<cancel_event, stops, webhook>> /\ webhook = << >>
    BY <1>8 DEF WriteResult, ResultKnown, SeenAtEnd, CallbackLast
  <2>2. CASE Exists
    <3>1. /\ row' = [status    |-> IF FinalStatus = task.seen THEN row.status ELSE FinalStatus,
                     finished  |-> TRUE, telemetry |-> TRUE]
          /\ task' = [task EXCEPT !.pc = "written"]
      BY <1>8, <2>2 DEF WriteResult
    <3>2. FinalStatus = task.seen => row.status = "cancelled" /\ task.seen = "cancelled"
      BY <2>1, <2>2 DEF FinalStatus, CancellationKept
    <3>3. row'.status = FinalStatus /\ FinalStatus \in Terminal /\ row'.finished /\ row'.telemetry
      BY <2>1, <3>1, <3>2 DEF FinalStatus
    <3>4. task'.pc = "written" /\ task'.seen = task.seen /\ task'.result = task.result
      BY <3>1 DEF TypeOK
    <3>5. TypeOK'
      BY <2>1, <3>1, <3>3 DEF TypeOK
    <3>6. (ResultKnown /\ SeenAtEnd /\ CancellationKept /\ RowWritten /\ CallbackLast)'
      BY <2>1, <3>3, <3>4 DEF ResultKnown, SeenAtEnd, CancellationKept, RowWritten, CallbackLast,
                              FinalStatus
    <3> QED
      BY <3>5, <3>6
  <2>3. CASE ~Exists
    <3>1. task' = [task EXCEPT !.pc = "died"] /\ row' = row
      BY <1>8, <2>3 DEF WriteResult
    <3>2. TypeOK'
      BY <2>1, <3>1 DEF TypeOK
    <3> QED
      BY <2>1, <3>1, <3>2 DEF TypeOK, ResultKnown, SeenAtEnd, CancellationKept, RowWritten, CallbackLast
  <2> QED
    BY <2>2, <2>3
<1>9. CASE Notify
  <2>1. /\ task.pc = "written" /\ webhook = << >> /\ FinalStatus \in Terminal
        /\ task' = [task EXCEPT !.pc = "done"]
        /\ UNCHANGED <<row, cancel_event, stops>>
    BY <1>9 DEF Notify, ResultKnown, CallbackLast, FinalStatus
  <2>2. task'.pc = "done" /\ task'.seen = task.seen /\ task'.result = task.result
    BY <2>1 DEF TypeOK
  <2>3. webhook' = << >> \/ webhook' = <<FinalStatus>>
    BY <1>9, <2>1 DEF Notify
  <2>4. webhook' \in Seq(Terminal)
    <3> HIDE DEF Terminal
    <3>1. << >> \in Seq(Terminal) /\ <<FinalStatus>> \in Seq(Terminal)
      BY <2>1
    <3> QED
      BY <2>3, <3>1
  <2>5. TypeOK'
    BY <2>1, <2>4 DEF TypeOK
  <2>6. (ResultKnown /\ SeenAtEnd /\ CancellationKept /\ RowWritten /\ CallbackLast)'
    BY <2>1, <2>2, <2>3 DEF ResultKnown, SeenAtEnd, CancellationKept, RowWritten, CallbackLast,
                            FinalStatus
  <2> QED
    BY <2>5, <2>6
<1>10. ASSUME NEW s \in Stops, StopLoads(s) PROVE IndInv'
  <2>1. TypeOK'
    BY <1>10 DEF StopLoads, TypeOK
  <2> QED
    BY <1>10, <2>1, EndUnchanged DEF StopLoads
<1>11. ASSUME NEW s \in Stops, StopSignals(s) PROVE IndInv'
  <2>1. UNCHANGED <<row, task, webhook>>
    BY <1>11 DEF StopSignals
  <2>2. stops' \in [Stops -> [pc : {"idle", "loaded", "signalled"} \cup StopOver,
                              seen : {"none"} \cup Status]]
    BY <1>11 DEF StopSignals, TypeOK
  <2>3. /\ cancel_event' \in {"absent", "clear", "set"}
        /\ cancel_event' # "absent" => cancel_event # "absent"
    BY <1>11 DEF StopSignals, TypeOK
  <2>4. TypeOK'
    BY <2>1, <2>2, <2>3 DEF TypeOK
  <2> QED
    BY <2>1, <2>4, EndUnchanged
<1>12. ASSUME NEW s \in Stops, StopCommits(s) PROVE IndInv'
  <2>1. UNCHANGED <<task, cancel_event, webhook>>
    BY <1>12 DEF StopCommits
  <2>2. stops' \in [Stops -> [pc : {"idle", "loaded", "signalled"} \cup StopOver,
                              seen : {"none"} \cup Status]]
    BY <1>12 DEF StopCommits, TypeOK
  <2>3. CASE ~Exists
    <3>1. row' = row
      BY <1>12, <2>3 DEF StopCommits
    <3>2. TypeOK'
      BY <2>1, <2>2, <3>1 DEF TypeOK
    <3> QED
      BY <2>1, <3>1, <3>2, EndUnchanged
  <2>4. CASE Exists
    <3>1. row' = [row EXCEPT !.status = "cancelled", !.finished = TRUE]
      BY <1>12, <2>4 DEF StopCommits
    <3>2. TypeOK'
      BY <2>1, <2>2, <3>1 DEF TypeOK
    <3>3. row'.status = "cancelled" /\ row'.finished /\ row'.telemetry = row.telemetry
      BY <3>1 DEF TypeOK
    <3>4. FinalStatus' = FinalStatus /\ (task.seen = "cancelled" => FinalStatus = "cancelled")
      BY <2>1 DEF FinalStatus
    <3>5. (ResultKnown /\ SeenAtEnd /\ CancellationKept /\ RowWritten /\ CallbackLast)'
      BY <2>1, <2>4, <3>3, <3>4 DEF ResultKnown, SeenAtEnd, CancellationKept, RowWritten, CallbackLast
    <3> QED
      BY <3>2, <3>5
  <2> QED
    BY <2>3, <2>4
<1>13. ASSUME NEW s \in Stops, StopFails(s) PROVE IndInv'
  <2>1. TypeOK'
    BY <1>13 DEF StopFails, TypeOK
  <2> QED
    BY <1>13, <2>1, EndUnchanged DEF StopFails
<1>14. CASE DeleteWorkflow
  <2>1. TypeOK'
    BY <1>14 DEF DeleteWorkflow, TypeOK
  <2> QED
    BY <1>14, <2>1 DEF DeleteWorkflow, TypeOK, ResultKnown, SeenAtEnd, CancellationKept, RowWritten, CallbackLast,
                       FinalStatus
<1>15. CASE Crash
  <2>1. /\ task' = task \/ (task' = [task EXCEPT !.pc = "lost"] /\ task.pc # "done")
        /\ cancel_event' = "absent" /\ UNCHANGED <<row, webhook>>
    BY <1>15 DEF Crash
  <2>2. stops' \in [Stops -> [pc : {"idle", "loaded", "signalled"} \cup StopOver,
                              seen : {"none"} \cup Status]]
    <3>1. ASSUME NEW s \in Stops
          PROVE  /\ stops[s] \in [pc : {"idle", "loaded", "signalled"} \cup StopOver,
                                  seen : {"none"} \cup Status]
                 /\ [stops[s] EXCEPT !.pc = "lost"] \in
                      [pc : {"idle", "loaded", "signalled"} \cup StopOver,
                       seen : {"none"} \cup Status]
      BY DEF TypeOK
    <3> QED
      BY <1>15, <3>1 DEF Crash
  <2>3. TypeOK'
    BY <2>1, <2>2 DEF TypeOK
  <2>4. CASE task' = task
    BY <2>1, <2>3, <2>4, EndUnchanged
  <2>5. CASE task' = [task EXCEPT !.pc = "lost"] /\ task.pc # "done"
    BY <2>1, <2>3, <2>5 DEF TypeOK, ResultKnown, SeenAtEnd, CancellationKept, RowWritten, CallbackLast
  <2> QED
    BY <2>1, <2>3, <2>4, <2>5
<1>16. CASE UNCHANGED vars
  <2>1. TypeOK'
    BY <1>16 DEF vars, TypeOK
  <2> QED
    BY <1>16, <2>1, EndUnchanged DEF vars
<1> QED
  BY <1>1, <1>2, <1>3, <1>4, <1>5, <1>6, <1>7, <1>8, <1>9, <1>10, <1>11, <1>12, <1>14, <1>15, <1>16,
     <1>13
  DEF Next, Task, StopHandler

\* Hence in every reachable state.
LEMMA Invariant == Spec => []IndInv
  BY InitInv, NextInv, PTL DEF Spec

\* The types, and that no handle outlives its task.
THEOREM TypeCorrect == Spec => []TypeOK
  BY Invariant, PTL DEF IndInv

\* A cancellation the task has seen is never undone, however many stops there
\* are and wherever the process is lost.
THEOREM CancellationHolds == Spec => []CancellationKept
  BY Invariant, PTL DEF IndInv

\* The callback is sent at most once and agrees with the database.
THEOREM CallbackHonest == Spec => []CallbackAgrees
<1>1. IndInv => CallbackAgrees
  <2> SUFFICES ASSUME IndInv PROVE CallbackAgrees
    OBVIOUS
  <2>1. webhook # << >> => webhook = <<FinalStatus>> /\ task.pc = "done"
    BY DEF IndInv, CallbackLast
  <2>2. webhook # << >> => Len(webhook) = 1 /\ webhook[1] = FinalStatus
    BY <2>1
  <2>3. webhook = << >> => Len(webhook) = 0
    OBVIOUS
  <2> QED
    BY <2>1, <2>2, <2>3 DEF IndInv, RowWritten, CallbackAgrees
<1> QED
  BY <1>1, Invariant, PTL

-----------------------------------------------------------------------------
(* The stops that come in time.                                              *)

\* No stop commits between the creation of the row and running, or between the
\* two statements that read and write the row at the end, unless the task has
\* read a cancelled row.
InTime ==
  \A s \in Stops : StopCommits(s) =>
    /\ task.pc \notin {"queued", "starting"}
    /\ task.pc = "writing" => task.seen = "cancelled"

\* A stop that has been answered is behind the first write, and in front of the
\* last one only if that will keep it.
AckedInv ==
  \A s \in Stops :
    /\ stops[s].pc # "idle" => task.pc # "none"
    /\ stops[s].pc = "acked" =>
         /\ task.pc \notin {"none", "queued", "starting"}
         /\ Exists => row.status = "cancelled" /\ (task.pc = "writing" => task.seen = "cancelled")

LEMMA AckedNext == IndInv /\ AckedInv /\ [Next]_vars /\ [InTime]_vars => AckedInv'
<1> SUFFICES ASSUME IndInv, AckedInv, [Next]_vars, [InTime]_vars,
                    NEW s \in Stops
             PROVE  /\ stops'[s].pc # "idle" => task'.pc # "none"
                    /\ stops'[s].pc = "acked" =>
                         /\ task'.pc \notin {"none", "queued", "starting"}
                         /\ Exists' => row'.status = "cancelled"
                                       /\ (task'.pc = "writing" => task'.seen = "cancelled")
  BY DEF AckedInv
<1>0. /\ TypeOK /\ SeenAtEnd
      /\ stops[s].pc # "idle" => task.pc # "none"
      /\ stops[s].pc = "acked" =>
           /\ task.pc \notin {"none", "queued", "starting"}
           /\ Exists => row.status = "cancelled" /\ (task.pc = "writing" => task.seen = "cancelled")
  BY DEF IndInv, AckedInv
<1>1. CASE Create \/ TaskFails \/ LoadForStart \/ MarkRunning \/ RegisterHandles \/ Collect
  BY <1>0, <1>1 DEF Create, TaskFails, LoadForStart, ReadRow, MarkRunning, RegisterHandles,
     Collect, TypeOK
<1>2. CASE LoadForResult \/ Notify \/ DeleteWorkflow
  <2>1. CASE LoadForResult
    <3>1. stops' = stops /\ row' = row /\ task.pc = "collected"
      BY <2>1 DEF LoadForResult, ReadRow
    <3>2. CASE Exists
      BY <1>0, <2>1, <3>1, <3>2 DEF LoadForResult, ReadRow, TypeOK
    <3>3. CASE ~Exists
      BY <1>0, <2>1, <3>1, <3>3 DEF LoadForResult, ReadRow, TypeOK
    <3> QED
      BY <3>2, <3>3
  <2>2. CASE Notify
    BY <1>0, <2>2 DEF Notify, TypeOK
  <2>3. CASE DeleteWorkflow
    BY <1>0, <2>3 DEF DeleteWorkflow, TypeOK
  <2> QED
    BY <1>2, <2>1, <2>2, <2>3
<1>3. CASE WriteResult
  BY <1>0, <1>3 DEF WriteResult, FinalStatus, TypeOK
<1>4. ASSUME NEW h \in Stops, StopLoads(h) \/ StopSignals(h) \/ StopFails(h)
      PROVE  /\ UNCHANGED <<row, task>> /\ task.pc # "none"
             /\ stops'[s].pc = "acked" => stops[s].pc = "acked"
  BY <1>0, <1>4 DEF StopLoads, StopSignals, StopFails, TypeOK, AckedInv
<1>5. ASSUME NEW h \in Stops, StopCommits(h)
      PROVE  /\ task' = task /\ task.pc # "none"
             /\ Exists => /\ row'.status = "cancelled"
                          /\ task.pc \notin {"queued", "starting"}
                          /\ task.pc = "writing" => task.seen = "cancelled"
             /\ ~Exists => row' = row /\ (stops'[s].pc = "acked" => stops[s].pc = "acked")
  <2>1. /\ task' = task /\ stops[h].pc = "signalled" /\ task.pc # "none"
    BY <1>5 DEF StopCommits, AckedInv
  <2>2. ~UNCHANGED vars
    BY <1>0, <1>5 DEF StopCommits, vars, TypeOK
  <2>3. task.pc \notin {"queued", "starting"} /\ (task.pc = "writing" => task.seen = "cancelled")
    BY <1>5, <2>2 DEF InTime
  <2>4. CASE Exists
    <3>1. row' = [row EXCEPT !.status = "cancelled", !.finished = TRUE]
      BY <1>5, <2>4 DEF StopCommits
    <3>2. row'.status = "cancelled"
      BY <1>0, <3>1 DEF TypeOK
    <3> QED
      BY <2>1, <2>3, <2>4, <3>2
  <2>5. CASE ~Exists
    <3>1. row' = row /\ stops' = [stops EXCEPT ![h].pc = "refused"]
      BY <1>5, <2>5 DEF StopCommits
    <3>2. stops'[s].pc = "acked" => stops[s].pc = "acked"
      BY <1>0, <3>1 DEF TypeOK
    <3> QED
      BY <2>1, <2>5, <3>1, <3>2
  <2> QED
    BY <2>4, <2>5
<1>6. CASE Crash
  BY <1>0, <1>6 DEF Crash, TypeOK
<1>7. CASE UNCHANGED vars
  BY <1>0, <1>7 DEF vars
<1>8. ASSUME NEW h \in Stops, StopHandler(h)
      PROVE  /\ stops'[s].pc # "idle" => task'.pc # "none"
             /\ stops'[s].pc = "acked" =>
                  /\ task'.pc \notin {"none", "queued", "starting"}
                  /\ Exists' => row'.status = "cancelled"
                                /\ (task'.pc = "writing" => task'.seen = "cancelled")
  <2>1. CASE StopLoads(h) \/ StopSignals(h) \/ StopFails(h)
    BY <1>0, <1>4, <2>1
  <2>2. CASE StopCommits(h)
    BY <1>0, <1>5, <2>2
  <2> QED
    BY <1>8, <2>1, <2>2 DEF StopHandler
<1> QED
  BY <1>1, <1>2, <1>3, <1>6, <1>7, <1>8 DEF Next, Task

\* A stop that is answered with cancelled outside the two windows of the run
\* stop_lost leaves the execution cancelled for good: nothing else undoes it.
THEOREM StopsInTimeLast == Spec /\ [][InTime]_vars => []AcknowledgedStopLasts
<1>1. Init => AckedInv
  <2> SUFFICES ASSUME Init, NEW s \in Stops PROVE stops[s].pc = "idle"
    BY DEF AckedInv
  <2> QED
    BY DEF Init
<1>2. AckedInv => AcknowledgedStopLasts
  BY DEF AckedInv, AcknowledgedStopLasts
<1> QED
  BY <1>1, <1>2, Invariant, AckedNext, PTL DEF Spec

=============================================================================
