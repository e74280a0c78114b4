------------------------------ MODULE EventLoop ------------------------------
(***************************************************************************)
(* The event loop and asyncio's default thread pool, shared by all         *)
(* executions and by the requests that read files.  _run_execution         *)
(* registers an execution and gives its thread to the pool, which may have *)
(* none free; GET /executions/{id} and the artifact endpoints wait for a   *)
(* thread of the same pool; and the resume handler calls queue.put on the  *)
(* loop itself, which blocks while the one slot of the queue is taken, and *)
(* with it every handler and every other await of the process.             *)
(*                                                                         *)
(* An execution in its thread does what RunContract says, the steps of it  *)
(* and no more.                                                            *)
(***************************************************************************)
EXTENDS Naturals, Sequences, FiniteSets

CONSTANTS
  Executions,    \* executions
  Readers,       \* requests that read files
  Threads,       \* threads in the pool
  Instructions,  \* instructions a developer may send; a jump among them names a step
  MaxPauses,     \* bound: pauses of one execution
  Careful,       \* no developer sends a second instruction ahead of a pause
  None

ASSUME PoolAssumption ==
  /\ Threads \in Nat \ {0} /\ MaxPauses \in Nat /\ Careful \in BOOLEAN
  /\ Executions \cap Readers = {} /\ None \notin Executions
ASSUME InstructionsAssumption ==
  \A i \in Instructions : i.action \in {"retry", "continue", "abort", "jump"}

VARIABLES
  ex,      \* each execution: its thread and the handles it shares with the loop
  work,    \* the pool's queue: executions and readers without a thread
  reader,  \* each reader
  loop     \* the resume request that blocks the event loop, if one does

vars == <<ex, work, reader, loop>>

Free     == [of |-> None, instr |-> None]
LoopFree == loop = Free

NotStarted == [phase |-> "absent", slot |-> << >>, stopped |-> FALSE,
               late |-> 0, status |-> "none", pauses |-> 0]

InThread   == {e \in Executions : ex[e].phase \in {"working", "paused", "ending"}}
Reading    == {r \in Readers : reader[r] = "reading"}
Registered == {e \in Executions : ex[e].phase \notin {"absent", "done"}}

Init ==
  /\ ex = [e \in Executions |-> NotStarted]
  /\ work = << >>
  /\ reader = [r \in Readers |-> "idle"]
  /\ loop = Free

-----------------------------------------------------------------------------
(* _run_execution, on the loop.                                              *)

\* A variable that cannot be resolved ends it before a thread is asked for.
Start(e) ==
  /\ LoopFree /\ ex[e].phase = "absent"
  /\ \/ /\ ex' = [ex EXCEPT ![e].phase = "queued"]
        /\ work' = Append(work, e)
     \/ /\ ex' = [ex EXCEPT ![e].phase = "done", ![e].status = "failed"]
        /\ UNCHANGED work
  /\ UNCHANGED <<reader, loop>>

\* to_thread returns, and the finally block unregisters.
Collect(e) ==
  /\ LoopFree /\ ex[e].phase = "returned"
  /\ ex' = [ex EXCEPT ![e].phase = "done"]
  /\ UNCHANGED <<work, reader, loop>>

-----------------------------------------------------------------------------
(* The pool.                                                                 *)

\* Variant: the pool grows.
Assign_Unbounded ==
  /\ work # << >>
  /\ work' = Tail(work)
  /\ IF Head(work) \in Executions
     THEN ex' = [ex EXCEPT ![Head(work)].phase = "working"] /\ UNCHANGED reader
     ELSE reader' = [reader EXCEPT ![Head(work)] = "reading"] /\ UNCHANGED ex
  /\ UNCHANGED <<loop>>

\* A free thread takes the oldest piece of work.
Assign ==
  /\ work # << >>
  /\ Cardinality(InThread) + Cardinality(Reading) < Threads
  /\ work' = Tail(work)
  /\ IF Head(work) \in Executions
     THEN ex' = [ex EXCEPT ![Head(work)].phase = "working"] /\ UNCHANGED reader
     ELSE reader' = [reader EXCEPT ![Head(work)] = "reading"] /\ UNCHANGED ex
  /\ UNCHANGED <<loop>>

-----------------------------------------------------------------------------
(* The thread of an execution.                                               *)

LateStep(e) ==
  /\ ex[e].phase = "working"
  /\ ex[e].stopped /\ ex[e].late = 0
  /\ ex' = [ex EXCEPT ![e].late = 1]

Pause(e) ==
  /\ ex[e].phase = "working"
  /\ ex[e].pauses < MaxPauses
  /\ ex' = [ex EXCEPT ![e].phase = "paused", ![e].pauses = @ + 1]

\* Variant: the instruction stays in the queue.
Wake_Peeks(e) ==
  /\ ex[e].phase = "paused" /\ ex[e].slot # << >>
  /\ ex' = [ex EXCEPT ![e].phase = IF Head(ex[e].slot).action = "abort"
                                   THEN "ending" ELSE "working"]

\* queue.get
Wake(e) ==
  /\ ex[e].phase = "paused" /\ ex[e].slot # << >>
  /\ ex' = [ex EXCEPT ![e].slot = << >>,
                      ![e].phase = IF Head(ex[e].slot).action = "abort"
                                   THEN "ending" ELSE "working"]

\* Variant: queue.get has no timeout.
TimeOut_Never(e) ==
  /\ ex[e].phase = "paused" /\ ex[e].slot = << >>
  /\ UNCHANGED ex

TimeOut(e) ==
  /\ ex[e].phase = "paused" /\ ex[e].slot = << >>
  /\ ex' = [ex EXCEPT ![e].phase = "ending"]

Obey(e) ==
  /\ ex[e].phase = "working" /\ ex[e].stopped
  /\ ex' = [ex EXCEPT ![e].phase = "ending"]

Return(e) ==
  /\ \/ /\ ex[e].phase = "working"
        /\ \E s \in {"completed", "failed"} :
             ex' = [ex EXCEPT ![e].phase = "returned", ![e].status = s]
     \/ /\ ex[e].phase = "ending"
        /\ ex' = [ex EXCEPT ![e].phase = "returned", ![e].status = "cancelled"]

Thread(e) ==
  /\ LateStep(e) \/ Pause(e) \/ Wake(e) \/ TimeOut(e) \/ Obey(e) \/ Return(e)
  /\ UNCHANGED <<work, reader, loop>>

-----------------------------------------------------------------------------
(* The requests.                                                             *)

Stop(e) ==
  /\ LoopFree /\ e \in Registered
  /\ ex' = [ex EXCEPT ![e].stopped = TRUE]
  /\ UNCHANGED <<work, reader, loop>>

\* Variant: a full slot is overwritten.
Resume_Overwrites(e, i) ==
  /\ LoopFree /\ e \in Registered
  /\ Careful => ex[e].slot = << >> \/ ex[e].phase = "paused"
  /\ ex' = [ex EXCEPT ![e].slot = <<i>>]
  /\ UNCHANGED <<work, reader, loop>>

\* queue.put returns when the slot is free, and until then nothing else does;
\* an execution that is not registered gets a 404, and nothing changes.
Resume(e, i) ==
  /\ LoopFree /\ e \in Registered
  /\ Careful => ex[e].slot = << >> \/ ex[e].phase = "paused"
  /\ \/ ex[e].slot = << >> /\ ex' = [ex EXCEPT ![e].slot = <<i>>] /\ UNCHANGED loop
     \/ ex[e].slot # << >> /\ loop' = [of |-> e, instr |-> i] /\ UNCHANGED ex
  /\ UNCHANGED <<work, reader>>

PutCompletes ==
  /\ ~LoopFree
  /\ ex[loop.of].slot = << >>
  /\ ex' = [ex EXCEPT ![loop.of].slot = <<loop.instr>>]
  /\ loop' = Free
  /\ UNCHANGED <<work, reader>>

\* A request that reads files asks for a thread, reads, and is answered.
Ask(r) ==
  /\ LoopFree /\ reader[r] = "idle"
  /\ reader' = [reader EXCEPT ![r] = "queued"]
  /\ work' = Append(work, r)
  /\ UNCHANGED <<ex, loop>>

ReadFiles(r) ==
  /\ reader[r] = "reading"
  /\ reader' = [reader EXCEPT ![r] = "read"]
  /\ UNCHANGED <<ex, work, loop>>

Answer(r) ==
  /\ LoopFree /\ reader[r] = "read"
  /\ reader' = [reader EXCEPT ![r] = "answered"]
  /\ UNCHANGED <<ex, work, loop>>

-----------------------------------------------------------------------------
Next ==
  \/ \E e \in Executions :
       \/ Start(e) \/ Collect(e) \/ Thread(e) \/ Stop(e)
       \/ \E i \in Instructions : Resume(e, i)
  \/ \E r \in Readers : Ask(r) \/ ReadFiles(r) \/ Answer(r)
  \/ Assign \/ PutCompletes

\* Threads run, pauses time out (Executor), the pool hands out its threads and
\* the loop goes on with what is ready.  Nobody has to send a request.
Spec ==
  /\ Init /\ [][Next]_vars
  /\ \A e \in Executions : WF_vars(Thread(e)) /\ WF_vars(Collect(e))
  /\ \A r \in Readers : WF_vars(ReadFiles(r)) /\ WF_vars(Answer(r))
  /\ WF_vars(Assign) /\ WF_vars(PutCompletes)

-----------------------------------------------------------------------------
(* Properties.                                                               *)

\* Type invariant; the pool never runs more than it has threads, and its queue
\* holds exactly what waits for one.
Waiting == {e \in Executions : ex[e].phase = "queued"} \cup {r \in Readers : reader[r] = "queued"}
TypeOK ==
  /\ ex \in [Executions ->
       [phase : {"absent", "queued", "working", "paused", "ending", "returned", "done"},
        slot : {<< >>} \cup {<<i>> : i \in Instructions},
        stopped : BOOLEAN, late : 0 .. 1, pauses : 0 .. MaxPauses,
        status : {"none", "completed", "failed", "cancelled"}]]
  /\ reader \in [Readers -> {"idle", "queued", "reading", "read", "answered"}]
  /\ loop \in {Free} \cup [of : Executions, instr : Instructions]
  /\ work \in Seq(Waiting) /\ Len(work) = Cardinality(Waiting)
  /\ Cardinality(InThread) + Cardinality(Reading) <= Threads

\* Each execution keeps the contract, wherever it is queued and whatever blocks
\* the loop.
Phase(e) ==
  CASE ex[e].phase \in {"absent", "queued"} -> "working"
    [] ex[e].phase = "done"                   -> "returned"
    [] OTHER                                    -> ex[e].phase

Contract(e) == INSTANCE RunContract WITH
  phase <- Phase(e), slot <- ex[e].slot, stopped <- ex[e].stopped,
  late <- ex[e].late, status <- ex[e].status

KeepContracts ==
  /\ \A e \in Executions : Contract(e)!Init
  /\ [][\A e \in Executions : Contract(e)!Next \/ UNCHANGED Contract(e)!vars]_vars

\* "Send a resume instruction to a paused execution.  Returns True if found":
\* every resume call returns.  It does, though it may have to wait for the thread,
\* as long as an execution that is not paused has no instruction waiting.
ResumesReturn == ~LoopFree ~> LoopFree

\* Whatever is started ends and gives its handles back, and whoever asks for
\* files is answered, although paused executions keep their threads.
AllServed ==
  /\ \A e \in Executions : e \in Registered ~> ex[e].phase = "done"
  /\ \A r \in Readers : reader[r] = "queued" ~> reader[r] = "answered"

=============================================================================
