----------------------------- MODULE Schedules -----------------------------
(***************************************************************************)
(* Cron schedules: rows in the database (app/api/schedules.py) and the     *)
(* jobs of APScheduler in memory (app/services/scheduler.py), which are    *)
(* loaded from the rows when the process starts (app/main.py).             *)
(*                                                                         *)
(* An action is the code between two awaits together with the effect of    *)
(* the statement that is awaited.  A session is an identity map: a handler *)
(* works on the columns it has read, and its commit writes those it has    *)
(* changed.  Names, variables and the two times a schedule shows are left  *)
(* out: no code decides by them.  What follows the insertion of an         *)
(* execution is RunExecution.                                              *)
(*                                                                         *)
(* Any statement that is awaited may raise, a commit also after it has     *)
(* taken effect: the database is not assumed to be reliable.               *)
(***************************************************************************)
EXTENDS Naturals

CONSTANTS
  Ids,            \* schedule ids; each is created at most once
  Handlers,       \* requests that can be in flight at the same time
  Crons, Zones,   \* cron expressions and time zones
  RejectedCrons,  \* those parse_cron_expression or CronTrigger refuses
  RejectedZones,  \* those CronTrigger refuses
  None            \* a column an update does not mention

ASSUME RejectedAssumption == RejectedCrons \subseteq Crons /\ RejectedZones \subseteq Zones
ASSUME NoneAssumption     == None \notin Crons \cup Zones \cup BOOLEAN

VARIABLES
  row,      \* the schedules table
  job,      \* APScheduler's jobs: the trigger of each
  handler,  \* the requests in flight, each with its session's view of the row
  fire,     \* execute_scheduled_workflow, one coroutine per job
  overlapped,  \* history: requests in flight that are, or were, not alone on their schedule
  adrift       \* history: schedules whose job need not follow the row, see below

history == <<overlapped, adrift>>
vars == <<row, job, handler, fire, history>>

Schedule == [enabled : BOOLEAN, cron : Crons, timezone : Zones]
CronTrigger == [cron : Crons, timezone : Zones]

\* UpdateScheduleRequest.
Request == [enabled : BOOLEAN \cup {None}, cron : Crons \cup {None}, timezone : Zones \cup {None}]

NotYet == [state |-> "not yet"]   \* the id is free
Gone   == [state |-> "gone"]      \* the row was deleted
NoJob  == [state |-> "no job"]
Idle   == [pc |-> "idle"]
Asleep == [pc |-> "asleep", wanted |-> FALSE]

Exists(id)  == row[id] \in Schedule
Enabled(id) == Exists(id) /\ row[id].enabled

Trigger(s) == [cron |-> s.cron, timezone |-> s.timezone]

\* CronTrigger(timezone=..., **fields) does not raise.
Accepted(cron, zone) == cron \notin RejectedCrons /\ zone \notin RejectedZones

Init ==
  /\ row = [id \in Ids |-> NotYet]
  /\ job = [id \in Ids |-> NoJob]
  /\ handler = [h \in Handlers |-> Idle]
  /\ fire = [id \in Ids |-> Asleep]
  /\ overlapped = {} /\ adrift = {}

(* What sets a schedule adrift: two requests on it at once, a request that  *)
(* ends between the commit and the job, and a start that does not load it.  *)
(* A request that is alone on the schedule and reaches the job ends it.     *)

On(h, id)    == handler[h] # Idle /\ handler[h].id = id
Others(h, id) == {g \in Handlers \ {h} : On(g, id)}

\* Request h begins to work on id.
Begin(h, id) ==
  LET others == Others(h, id)
  IN  IF others = {} THEN UNCHANGED history
      ELSE overlapped' = overlapped \cup others \cup {h} /\ adrift' = adrift \cup {id}

Proceed(h, pc, view) == handler' = [handler EXCEPT ![h] = [@ EXCEPT !.pc = pc, !.view = view]]

Answer(h) ==
  /\ handler' = [handler EXCEPT ![h] = Idle]
  /\ overlapped' = overlapped \ {h}

\* A statement that is awaited raises, or its answer is lost.
Fails(h) ==
  /\ handler[h] # Idle
  /\ adrift' = IF handler[h].pc = "commit" THEN adrift ELSE adrift \cup {handler[h].id}
  /\ Answer(h)
  /\ UNCHANGED <<row, job, fire>>

-----------------------------------------------------------------------------
(* POST /api/schedules.  An expression or zone that is refused, or a missing  *)
(* workflow, ends the request before it has changed anything.                *)

CreateCommits(h) ==
  /\ handler[h] = Idle
  /\ \E id \in Ids, s \in Schedule :
       /\ row[id] = NotYet
       /\ Accepted(s.cron, s.timezone)
       /\ row' = [row EXCEPT ![id] = s]
       /\ handler' = [handler EXCEPT ![h] = [pc |-> "refresh", op |-> "create", id |-> id, view |-> s]]
       /\ Begin(h, id)
  /\ UNCHANGED <<job, fire>>

-----------------------------------------------------------------------------
(* PUT /api/schedules/{schedule_id}                                          *)

Chosen(new, old) == IF new = None THEN old ELSE new

Changed(s, req) ==
  [enabled  |-> Chosen(req.enabled, s.enabled),
   cron     |-> Chosen(req.cron, s.cron),
   timezone |-> Chosen(req.timezone, s.timezone)]

\* Variant: the next run is computed only when both are given.
Refused_BothGiven(s, req) ==
  req.cron # None /\ req.timezone # None /\ ~Accepted(req.cron, req.timezone)

\* The next run is computed, and a bad zone found, only with a new expression.
Refused(s, req) == req.cron # None /\ ~Accepted(req.cron, Chosen(req.timezone, s.timezone))

UpdateLoads(h) ==
  /\ handler[h] = Idle
  /\ \E id \in Ids, req \in Request :
       /\ Exists(id) /\ ~Refused(row[id], req)
       /\ handler' = [handler EXCEPT ![h] =
            [pc |-> "commit", op |-> "update", id |-> id, loaded |-> row[id],
             view |-> Changed(row[id], req)]]
       /\ Begin(h, id)
  /\ UNCHANGED <<row, job, fire>>

\* The columns the request changed, as the session sees it.
Written(current, loaded, view) ==
  [c \in DOMAIN current |-> IF view[c] = loaded[c] THEN current[c] ELSE view[c]]

\* wanted is history: an execution that a fire inserts is wanted if the schedule
\* was enabled at some time since its trigger.
UpdateCommits(h) ==
  /\ handler[h].pc = "commit" /\ handler[h].op = "update"
  /\ LET id  == handler[h].id
         new == Written(row[id], handler[h].loaded, handler[h].view)
     IN  IF Exists(id)
         THEN /\ row' = [row EXCEPT ![id] = new]
              /\ fire' = [fire EXCEPT ![id].wanted = @ \/ (fire[id] # Asleep /\ new.enabled)]
              /\ Proceed(h, "refresh", handler[h].view) /\ UNCHANGED overlapped
         ELSE Answer(h) /\ UNCHANGED <<row, fire>>
  /\ UNCHANGED <<job, adrift>>

-----------------------------------------------------------------------------
(* Both end with a refresh, then the job.                                    *)

\* The row is read here; the answer is on its way until ApplyJob.
Refresh(h) ==
  /\ handler[h].pc = "refresh"
  /\ LET id == handler[h].id
     IN  IF Exists(id) THEN Proceed(h, "apply", row[id]) /\ UNCHANGED overlapped ELSE Answer(h)
  /\ UNCHANGED <<row, job, fire, adrift>>

\* add_or_replace_schedule raises when the zone is refused.
AddOrReplace(id, s) ==
  job' = IF Accepted(s.cron, s.timezone) THEN [job EXCEPT ![id] = Trigger(s)] ELSE job

\* The job has followed the row, unless that raised.
Applied(h, id, s) ==
  adrift' = IF s.enabled /\ ~Accepted(s.cron, s.timezone) THEN adrift \cup {id}
            ELSE IF h \in overlapped THEN adrift ELSE adrift \ {id}

\* Variant: an update that disables a schedule leaves its job.
ApplyJob_NeverRemoves(h) ==
  /\ handler[h].pc = "apply"
  /\ LET id == handler[h].id
         s  == handler[h].view
     IN  /\ IF s.enabled THEN AddOrReplace(id, s) ELSE UNCHANGED job
         /\ Applied(h, id, s)
  /\ Answer(h)
  /\ UNCHANGED <<row, fire>>

ApplyJob(h) ==
  /\ handler[h].pc = "apply"
  /\ LET id == handler[h].id
         s  == handler[h].view
     IN  /\ \/ s.enabled /\ AddOrReplace(id, s)
            \/ ~s.enabled /\ handler[h].op = "update" /\ job' = [job EXCEPT ![id] = NoJob]
            \/ ~s.enabled /\ handler[h].op = "create" /\ UNCHANGED job
         /\ Applied(h, id, s)
  /\ Answer(h)
  /\ UNCHANGED <<row, fire>>

-----------------------------------------------------------------------------
(* DELETE /api/schedules/{schedule_id}                                       *)

DeleteLoads(h) ==
  /\ handler[h] = Idle
  /\ \E id \in Ids :
       /\ Exists(id)
       /\ handler' = [handler EXCEPT ![h] = [pc |-> "commit", op |-> "delete", id |-> id]]
       /\ Begin(h, id)
  /\ UNCHANGED <<row, job, fire>>

\* A row that is already gone is no error.
DeleteCommits(h) ==
  /\ handler[h].pc = "commit" /\ handler[h].op = "delete"
  /\ row' = [row EXCEPT ![handler[h].id] = Gone]
  /\ handler' = [handler EXCEPT ![h].pc = "remove"]
  /\ UNCHANGED <<job, fire, history>>

DeleteRemoves(h) ==
  /\ handler[h].pc = "remove"
  /\ job' = [job EXCEPT ![handler[h].id] = NoJob]
  /\ Answer(h)
  /\ UNCHANGED <<row, fire, adrift>>

\* Deleting a workflow deletes its schedules' rows by the cascade, not their jobs.
DeleteWorkflow ==
  /\ \E id \in Ids : Exists(id) /\ row' = [row EXCEPT ![id] = Gone]
  /\ UNCHANGED <<job, handler, fire, history>>

-----------------------------------------------------------------------------
(* execute_scheduled_workflow.  APScheduler runs one instance of a job at a   *)
(* time.                                                                     *)

JobFires(id) ==
  /\ job[id] # NoJob /\ fire[id] = Asleep
  /\ fire' = [fire EXCEPT ![id] = [pc |-> "fired", wanted |-> Enabled(id)]]
  /\ UNCHANGED <<row, job, handler, history>>

\* Variant: a row that exists is enough.
FireLoads_Disabled(id) ==
  /\ fire[id].pc = "fired"
  /\ fire' = [fire EXCEPT ![id] = IF Exists(id) THEN [@ EXCEPT !.pc = "loaded"] ELSE Asleep]
  /\ UNCHANGED <<row, job, handler, history>>

FireLoads(id) ==
  /\ fire[id].pc = "fired"
  /\ fire' = [fire EXCEPT ![id] = IF Enabled(id) THEN [@ EXCEPT !.pc = "loaded"] ELSE Asleep]
  /\ UNCHANGED <<row, job, handler, history>>

\* The execution refers to the schedule's row, which may be gone by now.
FireInserts(id) ==
  /\ fire[id].pc = "loaded"
  /\ fire' = [fire EXCEPT ![id] = IF Exists(id) THEN [@ EXCEPT !.pc = "inserted"] ELSE Asleep]
  /\ UNCHANGED <<row, job, handler, history>>

\* The run is over; the workflow is gone; or a statement raises.
FireEnds(id) ==
  /\ fire[id] # Asleep
  /\ fire' = [fire EXCEPT ![id] = Asleep]
  /\ UNCHANGED <<row, job, handler, history>>

-----------------------------------------------------------------------------
(* The process dies and starts again: the rows remain, requests and jobs do   *)
(* not.                                                                      *)

ToLoad == {id \in Ids : Enabled(id)}

Restart(loaded) ==
  /\ job' = [id \in Ids |-> IF id \in loaded THEN Trigger(row[id]) ELSE NoJob]
  /\ handler' = [h \in Handlers |-> Idle]
  /\ fire' = [id \in Ids |-> Asleep]
  /\ overlapped' = {} /\ adrift' = ToLoad \ loaded
  /\ UNCHANGED row

\* lifespan adds the enabled rows in the order the database returns them, up to
\* the first that raises.
Reload ==
  \E loaded \in SUBSET ToLoad :
    LET bad == {id \in ToLoad : ~Accepted(row[id].cron, row[id].timezone)}
    IN  /\ loaded \cap bad = {}
        /\ bad = {} => loaded = ToLoad
        /\ Restart(loaded)

\* The query raises and is passed over: the application starts without a job.
StartUnread == Restart({})

-----------------------------------------------------------------------------
Create(h) == CreateCommits(h)
Update(h) == UpdateLoads(h) \/ UpdateCommits(h)
Delete(h) == DeleteLoads(h) \/ DeleteCommits(h) \/ DeleteRemoves(h)
Api(h)    == Create(h) \/ Update(h) \/ Refresh(h) \/ ApplyJob(h) \/ Delete(h) \/ Fails(h)
Fire(id)  == JobFires(id) \/ FireLoads(id) \/ FireInserts(id) \/ FireEnds(id)

Next ==
  \/ \E h \in Handlers : Api(h)
  \/ \E id \in Ids : Fire(id)
  \/ DeleteWorkflow \/ Reload \/ StartUnread

Spec == Init /\ [][Next]_vars

-----------------------------------------------------------------------------
(* Properties.                                                               *)

\* Type invariant; a trigger that is refused never becomes a job, and a stored
\* expression is never one that is refused.
TypeOK ==
  /\ row \in [Ids -> Schedule \cup {NotYet, Gone}]
  /\ job \in [Ids -> CronTrigger \cup {NoJob}]
  /\ \A id \in Ids : job[id] # NoJob => Accepted(job[id].cron, job[id].timezone)
  /\ \A id \in Ids : Exists(id) => row[id].cron \notin RejectedCrons
  /\ \A h \in Handlers : handler[h] = Idle \/ handler[h].id \in Ids
  /\ fire \in [Ids -> [pc : {"asleep", "fired", "loaded", "inserted"}, wanted : BOOLEAN]]
  /\ overlapped \subseteq Handlers /\ adrift \subseteq Ids

InFlight(id) == \E h \in Handlers : On(h, id)

\* A schedule at rest has its job exactly if it is enabled, with the stored
\* expression and zone, whatever fires, fails or restarts came before; and once
\* it is adrift (requests overlapped, one failed after its commit or met a zone
\* that is refused, or a start did not load the schedule) the next update that
\* runs alone puts it right, or a start that loads it does.
JobsMatchRows ==
  \A id \in Ids \ adrift :
    Exists(id) /\ ~InFlight(id) =>
      job[id] = IF row[id].enabled THEN Trigger(row[id]) ELSE NoJob

\* A job that outlives its schedule is harmless: an execution is inserted only if
\* the schedule was enabled at some time since the job fired, however requests
\* on the schedule, its deletion and its workflow's deletion interleave.
RunsAreWanted ==
  \A id \in Ids : fire[id].pc = "inserted" => fire[id].wanted

\* "Load existing enabled schedules from database so cron jobs survive
\* restarts" (app/main.py:35): a schedule that is enabled, and whose trigger is
\* accepted, keeps the job it has when the process starts again and can read it.
SurvivesRestart ==
  [][Reload => \A id \in Ids :
       Enabled(id) /\ job[id] = Trigger(row[id]) => job'[id] = job[id]]_vars

=============================================================================
