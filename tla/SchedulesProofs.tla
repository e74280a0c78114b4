-------------------------- MODULE SchedulesProofs --------------------------
(***************************************************************************)
(* Theorems about Schedules for every set of schedules, requests,          *)
(* expressions and zones.                                                  *)
(***************************************************************************)
EXTENDS Schedules, TLAPS

\* A schedule whose expression has been accepted: all that is ever stored.
Stored == {s \in Schedule : s.cron \notin RejectedCrons}

Creating == [pc : {"refresh", "apply"}, op : {"create"}, id : Ids, view : Stored]
Updating == [pc : {"commit", "refresh", "apply"}, op : {"update"}, id : Ids,
             loaded : Stored, view : Stored]
Deleting == [pc : {"commit", "remove"}, op : {"delete"}, id : Ids]

FirePoints == [pc : {"asleep", "fired", "loaded", "inserted"}, wanted : BOOLEAN]

Types ==
  /\ row \in [Ids -> Stored \cup {NotYet, Gone}]
  /\ job \in [Ids -> CronTrigger \cup {NoJob}]
  /\ \A id \in Ids : job[id] # NoJob => Accepted(job[id].cron, job[id].timezone)
  /\ handler \in [Handlers -> {Idle} \cup Creating \cup Updating \cup Deleting]
  /\ fire \in [Ids -> FirePoints]
  /\ overlapped \subseteq Handlers /\ adrift \subseteq Ids

Alone(h, id) == \A g \in Handlers \ {h} : ~On(g, id)

\* Nothing is known of an id that is free.
Unused(id) ==
  row[id] = NotYet => /\ job[id] = NoJob /\ fire[id] = Asleep
                      /\ \A h \in Handlers : ~On(h, id)

\* Whatever a fire has passed, it passed when the schedule was wanted.
FireInv(id) ==
  /\ fire[id].pc = "fired" /\ Enabled(id) => fire[id].wanted
  /\ fire[id].pc \in {"loaded", "inserted"} => fire[id].wanted

Matches(id) == job[id] = IF row[id].enabled THEN Trigger(row[id]) ELSE NoJob

\* What a request alone on a schedule knows: its view is the row's until it
\* commits, and again from the refresh to the job.
KnowsRow(h, id) ==
  /\ handler[h].op = "create" => job[id] = NoJob
  /\ handler[h].op = "update" /\ handler[h].pc = "commit" /\ Exists(id) =>
       handler[h].loaded = row[id]
  /\ handler[h].pc = "apply" /\ Exists(id) => handler[h].view = row[id]
  /\ handler[h].pc = "remove" => ~Exists(id)

\* A schedule that is not adrift, until a request on it has committed.
JobInv(id) ==
  Exists(id) /\ (\A h \in Handlers : On(h, id) => handler[h].pc = "commit") => Matches(id)

IndInv ==
  /\ Types
  /\ \A id \in Ids : Unused(id) /\ FireInv(id)
  /\ \A h \in overlapped : handler[h] # Idle /\ handler[h].id \in adrift
  /\ \A h \in Handlers \ overlapped, id \in Ids : On(h, id) => Alone(h, id) /\ KnowsRow(h, id)
  /\ \A id \in Ids \ adrift : JobInv(id)

-----------------------------------------------------------------------------
\* What the code tells apart by a missing row, job or request.
LEMMA Distinct ==
  /\ NotYet \notin Schedule /\ Gone \notin Schedule /\ NotYet # Gone
  /\ NoJob \notin CronTrigger
  /\ Stored \subseteq Schedule
<1>1. NotYet \notin Schedule /\ Gone \notin Schedule
  BY DEF NotYet, Gone, Schedule
<1>2. NotYet # Gone
  BY DEF NotYet, Gone
<1>3. NoJob \notin CronTrigger
  BY DEF NoJob, CronTrigger
<1> QED
  BY <1>1, <1>2, <1>3 DEF Stored

\* A request is idle or works on a schedule that is not free.
LEMMA Working ==
  ASSUME Types, NEW h \in Handlers, handler[h] # Idle
  PROVE  /\ handler[h] \in Creating \cup Updating \cup Deleting
         /\ handler[h].id \in Ids /\ handler[h].pc # "idle"
  BY DEF Types, Creating, Updating, Deleting

\* A request that is somewhere is not idle.
LEMMA NotIdle ==
  /\ Idle.pc = "idle"
  /\ \A x \in Creating \cup Updating \cup Deleting : x # Idle
  BY DEF Idle, Creating, Updating, Deleting

\* An update that is not refused leaves an expression that is accepted.
LEMMA ChangedStored ==
  ASSUME NEW s \in Stored, NEW req \in Request, ~Refused(s, req)
  PROVE  Changed(s, req) \in Stored
<1>1. /\ Chosen(req.enabled, s.enabled) \in BOOLEAN
      /\ Chosen(req.timezone, s.timezone) \in Zones
      /\ Chosen(req.cron, s.cron) \in Crons \ RejectedCrons
  BY DEF Stored, Schedule, Request, Chosen, Refused, Accepted
<1> QED
  BY <1>1 DEF Changed, Stored, Schedule

\* Column by column, a commit writes what the request has changed.
LEMMA WrittenStored ==
  ASSUME NEW current \in Stored, NEW loaded \in Stored, NEW view \in Stored
  PROVE  /\ Written(current, loaded, view) \in Stored
         /\ loaded = current => Written(current, loaded, view) = view
<1> DEFINE w == Written(current, loaded, view)
           cols == {"enabled", "cron", "timezone"}
<1>1. DOMAIN current = cols /\ DOMAIN view = cols
  BY DEF Stored, Schedule
<1>2. w = [c \in cols |-> IF view[c] = loaded[c] THEN current[c] ELSE view[c]]
  BY <1>1 DEF Written
<1>3. /\ w.enabled \in BOOLEAN /\ w.cron \in Crons \ RejectedCrons /\ w.timezone \in Zones
  BY <1>2 DEF Stored, Schedule
<1>4. w = [enabled |-> w.enabled, cron |-> w.cron, timezone |-> w.timezone]
  BY <1>2
<1>5. w \in Stored
  BY <1>3, <1>4 DEF Stored, Schedule
<1>6. loaded = current => w = view
  <2> SUFFICES ASSUME loaded = current PROVE w = view
    OBVIOUS
  <2>1. \A c \in cols : w[c] = view[c]
    BY <1>2
  <2>2. view = [c \in cols |-> view[c]]
    BY <1>1 DEF Stored, Schedule
  <2> QED
    BY <1>2, <2>1, <2>2
<1> QED
  BY <1>5, <1>6

-----------------------------------------------------------------------------
\* A step of a request h on schedule id leaves the other schedules as they were;
\* what remains to be shown concerns id.
LEMMA RequestStep ==
  ASSUME IndInv, Types', NEW h \in Handlers, NEW id \in Ids,
         \A g \in Handlers \ {h} : handler'[g] = handler[g],
         \A other \in Ids \ {id} : /\ ~On(h, other) /\ ~On(h, other)'
                                   /\ row'[other] = row[other]
                                   /\ job'[other] = job[other]
                                   /\ fire'[other] = fire[other]
                                   /\ other \in adrift' <=> other \in adrift,
         \A g \in Handlers \ {h} : IF On(g, id) THEN g \in overlapped' /\ id \in adrift'
                                   ELSE g \in overlapped' <=> g \in overlapped,
         Unused(id)', FireInv(id)',
         IF h \in overlapped' THEN On(h, id)' /\ id \in adrift'
         ELSE On(h, id)' => Alone(h, id) /\ KnowsRow(h, id)',
         id \notin adrift' => JobInv(id)'
  PROVE  IndInv'
<1>1. \A g \in Handlers \ {h}, any \in Ids : On(g, any)' <=> On(g, any)
  BY DEF On
<1>2. ASSUME NEW other \in Ids \ {id} PROVE Unused(other)' /\ FireInv(other)'
  <2>1. Unused(other) /\ FireInv(other)
    BY DEF IndInv
  <2>2. Exists(other)' = Exists(other) /\ Enabled(other)' = Enabled(other)
    BY DEF Exists, Enabled
  <2>3. \A g \in Handlers : ~On(g, other) => ~On(g, other)'
    BY <1>1
  <2> QED
    BY <2>1, <2>2, <2>3 DEF Unused, FireInv
<1>3. ASSUME NEW other \in Ids \ adrift', other # id PROVE JobInv(other)'
  <2>1. JobInv(other)
    BY <1>3 DEF IndInv
  <2>2. \A g \in Handlers : (On(g, other)' <=> On(g, other)) /\ (On(g, other) => handler'[g] = handler[g])
    BY <1>1, <1>3
  <2>3. row'[other] = row[other] /\ job'[other] = job[other]
    BY <1>3
  <2> QED
    BY <2>1, <2>2, <2>3 DEF JobInv, Matches, Exists
<1>4. ASSUME NEW g \in overlapped' PROVE handler'[g] # Idle /\ handler'[g].id \in adrift'
  <2>1. g \in Handlers /\ Types
    BY DEF Types, IndInv
  <2>2. CASE g = h
    BY <1>4, <2>2 DEF On
  <2>3. CASE g # h /\ On(g, id)
    BY <1>1, <2>1, <2>3 DEF On
  <2>4. CASE g # h /\ ~On(g, id)
    <3>1. g \in overlapped /\ handler'[g] = handler[g]
      BY <1>4, <2>1, <2>4
    <3>2. handler[g] # Idle /\ handler[g].id \in adrift
      BY <3>1 DEF IndInv
    <3>3. handler[g].id \in Ids \ {id}
      BY <2>1, <2>4, <3>2, Working DEF On
    <3> QED
      BY <3>1, <3>2, <3>3
  <2> QED
    BY <2>2, <2>3, <2>4
<1>5. ASSUME NEW g \in Handlers \ overlapped', NEW any \in Ids, On(g, any)'
      PROVE  Alone(g, any)' /\ KnowsRow(g, any)'
  <2>1. CASE g = h
    <3>1. any = id
      BY <1>5, <2>1
    <3> QED
      BY <1>1, <1>5, <2>1, <3>1 DEF Alone
  <2>2. CASE g # h
    <3>1. On(g, any) /\ handler'[g] = handler[g] /\ any # id /\ g \notin overlapped
      <4>1. On(g, any) /\ handler'[g] = handler[g]
        BY <1>1, <1>5, <2>2
      <4>2. any # id
        BY <1>5, <2>2, <4>1
      <4>3. ~On(g, id)
        BY <4>1, <4>2 DEF On
      <4> QED
        BY <1>5, <2>2, <4>1, <4>2, <4>3
    <3>2. Alone(g, any) /\ KnowsRow(g, any)
      BY <3>1 DEF IndInv
    <3>3. Alone(g, any)'
      BY <1>1, <3>1, <3>2 DEF Alone
    <3>4. row'[any] = row[any] /\ job'[any] = job[any]
      BY <3>1
    <3> QED
      BY <3>1, <3>2, <3>3, <3>4 DEF KnowsRow, Exists
  <2> QED
    BY <2>1, <2>2
<1> QED
  BY <1>2, <1>3, <1>4, <1>5 DEF IndInv

\* What Begin records.
LEMMA Begins ==
  ASSUME IndInv, NEW h \in Handlers, NEW id \in Ids, handler[h] = Idle, Begin(h, id)
  PROVE  /\ overlapped' \subseteq Handlers /\ adrift' \subseteq Ids /\ adrift \subseteq adrift'
         /\ \A other \in Ids \ {id} : other \in adrift' <=> other \in adrift
         /\ \A g \in Handlers \ {h} : IF On(g, id) THEN g \in overlapped' /\ id \in adrift'
                                      ELSE g \in overlapped' <=> g \in overlapped
         /\ IF h \in overlapped' THEN id \in adrift' ELSE Alone(h, id)
<1>1. h \notin overlapped /\ overlapped \subseteq Handlers /\ adrift \subseteq Ids
  BY DEF IndInv, Types
<1>2. CASE Others(h, id) = {}
  BY <1>1, <1>2 DEF Begin, Others, Alone, history
<1>3. CASE Others(h, id) # {}
  <2>1. overlapped' = overlapped \cup Others(h, id) \cup {h} /\ adrift' = adrift \cup {id}
    BY <1>3 DEF Begin
  <2> QED
    BY <1>1, <2>1 DEF Others
<1> QED
  BY <1>2, <1>3

\* A request that goes on, or is answered, on the schedule it began to work on.
LEMMA Continues ==
  ASSUME IndInv, Types', NEW h \in Handlers, NEW id \in Ids, On(h, id),
         \A g \in Handlers \ {h} : handler'[g] = handler[g],
         \A other \in Ids \ {id} : /\ ~On(h, other) /\ ~On(h, other)'
                                   /\ row'[other] = row[other]
                                   /\ job'[other] = job[other]
                                   /\ fire'[other] = fire[other]
                                   /\ other \in adrift' <=> other \in adrift,
         IF On(h, id)' THEN overlapped' = overlapped ELSE overlapped' = overlapped \ {h},
         h \in overlapped => adrift \subseteq adrift',
         Unused(id)', FireInv(id)',
         h \notin overlapped /\ On(h, id)' => KnowsRow(h, id)',
         id \notin adrift' => JobInv(id)'
  PROVE  IndInv'
<1>1. h \in overlapped => id \in adrift'
  BY DEF IndInv, On
<1>2. ASSUME NEW g \in Handlers \ {h}, On(g, id) PROVE g \in overlapped' /\ id \in adrift'
  <2>1. g \in overlapped
    BY <1>2 DEF IndInv, Alone
  <2>2. h \in overlapped
    BY <1>2 DEF IndInv, Alone
  <2> QED
    BY <1>1, <1>2, <2>1, <2>2
<1>3. h \notin overlapped => Alone(h, id)
  BY DEF IndInv
<1> QED
  BY <1>1, <1>2, <1>3, RequestStep

\* POST commits a row that nobody else knows, and there is no job for it.
LEMMA CreateInv ==
  ASSUME IndInv, NEW h \in Handlers, CreateCommits(h)
  PROVE  IndInv'
<1>1. PICK id \in Ids, s \in Schedule :
        /\ row[id] = NotYet /\ Accepted(s.cron, s.timezone)
        /\ row' = [row EXCEPT ![id] = s]
        /\ handler' = [handler EXCEPT ![h] = [pc |-> "refresh", op |-> "create", id |-> id, view |-> s]]
        /\ Begin(h, id) /\ handler[h] = Idle /\ job' = job /\ fire' = fire
  BY DEF CreateCommits
<1> DEFINE v == [pc |-> "refresh", op |-> "create", id |-> id, view |-> s]
<1>2. s \in Stored /\ v \in Creating /\ v.id = id /\ v.op = "create" /\ v.pc = "refresh"
  BY <1>1 DEF Accepted, Stored, Creating
<1>3. handler' = [handler EXCEPT ![h] = v]
  BY <1>1
<1> HIDE DEF v
<1>4. Types
  BY DEF IndInv
<1>5. /\ handler'[h] = v /\ \A g \in Handlers \ {h} : handler'[g] = handler[g]
      /\ row'[id] = s /\ \A other \in Ids \ {id} : row'[other] = row[other]
  BY <1>1, <1>3, <1>4 DEF Types
<1>6. Types'
  BY <1>1, <1>2, <1>3, <1>4, Begins DEF Types
<1>7. /\ \A any \in Ids : ~On(h, any)
      /\ On(h, id)' /\ \A other \in Ids \ {id} : ~On(h, other)'
  BY <1>1, <1>2, <1>5, NotIdle DEF On
<1>8. job[id] = NoJob /\ fire[id] = Asleep
  BY <1>1 DEF IndInv, Unused
<1>9. Unused(id)' /\ FireInv(id)'
  BY <1>1, <1>2, <1>5, <1>8, Distinct DEF Unused, FireInv, Asleep
<1>10. KnowsRow(h, id)' /\ JobInv(id)'
  BY <1>1, <1>2, <1>5, <1>7, <1>8 DEF KnowsRow, JobInv
<1>11. /\ \A other \in Ids \ {id} : other \in adrift' <=> other \in adrift
       /\ \A g \in Handlers \ {h} : IF On(g, id) THEN g \in overlapped' /\ id \in adrift'
                                    ELSE g \in overlapped' <=> g \in overlapped
       /\ IF h \in overlapped' THEN id \in adrift' ELSE Alone(h, id)
  BY <1>1, Begins
<1> QED
  BY <1>1, <1>5, <1>6, <1>7, <1>9, <1>10, <1>11, RequestStep

\* PUT and DELETE read a row: what they know of it is what it is.
LEMMA LoadInv ==
  ASSUME IndInv, NEW h \in Handlers, UpdateLoads(h) \/ DeleteLoads(h)
  PROVE  IndInv'
<1>1. PICK id \in Ids, v \in Updating \cup Deleting :
        /\ Exists(id) /\ v.id = id /\ v.pc = "commit" /\ v.op \in {"update", "delete"}
        /\ v.op = "update" => v.loaded = row[id]
        /\ handler[h] = Idle /\ handler' = [handler EXCEPT ![h] = v]
        /\ Begin(h, id) /\ row' = row /\ job' = job /\ fire' = fire
  <2>1. CASE UpdateLoads(h)
    <3>1. PICK id \in Ids, req \in Request :
            /\ Exists(id) /\ ~Refused(row[id], req) /\ Begin(h, id)
            /\ handler' = [handler EXCEPT ![h] =
                 [pc |-> "commit", op |-> "update", id |-> id, loaded |-> row[id],
                  view |-> Changed(row[id], req)]]
      BY <2>1 DEF UpdateLoads
    <3>2. row[id] \in Stored
      BY <3>1, Distinct DEF IndInv, Types, Exists
    <3>3. Changed(row[id], req) \in Stored
      BY <3>1, <3>2, ChangedStored
    <3> DEFINE v == [pc |-> "commit", op |-> "update", id |-> id, loaded |-> row[id],
                     view |-> Changed(row[id], req)]
    <3>4. v \in Updating /\ v.id = id /\ v.pc = "commit" /\ v.op = "update" /\ v.loaded = row[id]
      BY <3>2, <3>3 DEF Updating
    <3> QED
      BY <2>1, <3>1, <3>4 DEF UpdateLoads
  <2>2. CASE DeleteLoads(h)
    <3>1. PICK id \in Ids :
            /\ Exists(id) /\ Begin(h, id)
            /\ handler' = [handler EXCEPT ![h] = [pc |-> "commit", op |-> "delete", id |-> id]]
      BY <2>2 DEF DeleteLoads
    <3> DEFINE v == [pc |-> "commit", op |-> "delete", id |-> id]
    <3>2. v \in Deleting /\ v.id = id /\ v.pc = "commit" /\ v.op = "delete"
      BY DEF Deleting
    <3> QED
      BY <2>2, <3>1, <3>2 DEF DeleteLoads
  <2> QED
    BY <2>1, <2>2
<1>2. Types
  BY DEF IndInv
<1>3. handler'[h] = v /\ \A g \in Handlers \ {h} : handler'[g] = handler[g]
  BY <1>1, <1>2 DEF Types
<1>4. Types'
  BY <1>1, <1>2, Begins DEF Types
<1>5. /\ \A any \in Ids : ~On(h, any)
      /\ On(h, id)' /\ \A other \in Ids \ {id} : ~On(h, other)'
  BY <1>1, <1>3, NotIdle DEF On
<1>6. Unused(id)' /\ FireInv(id)'
  BY <1>1, Distinct DEF IndInv, Unused, FireInv, Exists, Enabled
<1>7. KnowsRow(h, id)'
  BY <1>1, <1>3 DEF KnowsRow
<1>8. /\ \A other \in Ids \ {id} : other \in adrift' <=> other \in adrift
      /\ \A g \in Handlers \ {h} : IF On(g, id) THEN g \in overlapped' /\ id \in adrift'
                                   ELSE g \in overlapped' <=> g \in overlapped
      /\ IF h \in overlapped' THEN id \in adrift' ELSE Alone(h, id)
      /\ adrift \subseteq adrift'
  BY <1>1, Begins
<1>9. ASSUME id \notin adrift' PROVE JobInv(id)'
  <2>1. JobInv(id) /\ ~On(h, id) /\ Alone(h, id)
    BY <1>5, <1>8, <1>9 DEF IndInv
  <2>2. Exists(id) => Matches(id)
    BY <2>1 DEF JobInv, Alone
  <2> QED
    BY <1>1, <2>2 DEF JobInv, Matches, Exists
<1> QED
  BY <1>1, <1>3, <1>4, <1>5, <1>6, <1>7, <1>8, <1>9, RequestStep

\* A request that is answered, or takes its next step, on its schedule.
LEMMA Proceeds ==
  ASSUME IndInv, NEW h \in Handlers, handler[h].pc # "idle",
         NEW v \in {Idle} \cup Creating \cup Updating \cup Deleting,
         v = Idle \/ v.id = handler[h].id,
         handler' = [handler EXCEPT ![h] = v]
  PROVE  /\ handler' \in [Handlers -> {Idle} \cup Creating \cup Updating \cup Deleting]
         /\ handler'[h] = v /\ \A g \in Handlers \ {h} : handler'[g] = handler[g]
         /\ handler[h].id \in Ids /\ On(h, handler[h].id)
         /\ handler[h] \in Creating \cup Updating \cup Deleting
         /\ row[handler[h].id] # NotYet
         /\ \A other \in Ids \ {handler[h].id} : ~On(h, other) /\ ~On(h, other)'
<1>1. Types /\ handler[h] # Idle
  BY NotIdle DEF IndInv
<1>2. /\ handler[h].id \in Ids /\ On(h, handler[h].id)
      /\ handler[h] \in Creating \cup Updating \cup Deleting
  BY <1>1, Working DEF On
<1>3. row[handler[h].id] # NotYet
  BY <1>2 DEF IndInv, Unused
<1>4. /\ handler' \in [Handlers -> {Idle} \cup Creating \cup Updating \cup Deleting]
      /\ handler'[h] = v /\ \A g \in Handlers \ {h} : handler'[g] = handler[g]
  BY <1>1 DEF Types
<1> QED
  BY <1>1, <1>2, <1>3, <1>4 DEF On

\* Proceed keeps everything but the point and the view.
LEMMA ProceedsTo ==
  ASSUME NEW h \in Handlers, NEW pc \in {"refresh", "apply"}, NEW view \in Stored,
         handler[h] \in Creating \cup Updating, Proceed(h, pc, view)
  PROVE  \E v \in Creating \cup Updating :
           /\ v.pc = pc /\ v.view = view /\ v.id = handler[h].id /\ v.op = handler[h].op
           /\ handler' = [handler EXCEPT ![h] = v]
<1> DEFINE v == [[handler[h] EXCEPT !.pc = pc] EXCEPT !.view = view]
<1>1. handler' = [handler EXCEPT ![h] = v]
  BY DEF Proceed
<1>2. CASE handler[h] \in Creating
  <2>1. v \in Creating /\ v.pc = pc /\ v.view = view /\ v.id = handler[h].id /\ v.op = handler[h].op
    BY <1>2 DEF Creating
  <2> QED
    BY <1>1, <2>1
<1>3. CASE handler[h] \in Updating
  <2>1. v \in Updating /\ v.pc = pc /\ v.view = view /\ v.id = handler[h].id /\ v.op = handler[h].op
    BY <1>3 DEF Updating
  <2> QED
    BY <1>1, <2>1
<1> QED
  BY <1>2, <1>3

\* A request under way has a schedule, which is not free.
LEMMA Known ==
  ASSUME IndInv, NEW h \in Handlers, handler[h].pc # "idle"
  PROVE  /\ handler[h] \in Creating \cup Updating \cup Deleting
         /\ \E id \in Ids : id = handler[h].id /\ row[id] # NotYet /\ On(h, id)
<1>1. Types /\ handler[h] # Idle
  BY NotIdle DEF IndInv
<1> QED
  BY <1>1, Working DEF IndInv, Unused, On

\* The commit of an update: a fire under way is wanted if the schedule is enabled
\* now.
LEMMA UpdateCommitsInv ==
  ASSUME IndInv, NEW h \in Handlers, UpdateCommits(h)
  PROVE  IndInv'
<1>1. /\ handler[h].pc = "commit" /\ handler[h].op = "update"
      /\ job' = job /\ adrift' = adrift
  BY DEF UpdateCommits
<1>2. PICK id \in Ids : id = handler[h].id /\ row[id] # NotYet /\ handler[h] \in Updating
  BY <1>1, Known DEF Creating, Deleting
<1> DEFINE new == Written(row[id], handler[h].loaded, handler[h].view)
<1>3. Types
  BY DEF IndInv
<1>4. CASE Exists(id)
  <2>1. /\ row' = [row EXCEPT ![id] = new] /\ Proceed(h, "refresh", handler[h].view)
        /\ fire' = [fire EXCEPT ![id].wanted = @ \/ (fire[id] # Asleep /\ new.enabled)]
        /\ overlapped' = overlapped
    BY <1>2, <1>4 DEF UpdateCommits
  <2>2. row[id] \in Stored /\ handler[h].loaded \in Stored /\ handler[h].view \in Stored
    BY <1>2, <1>3, <1>4, Distinct DEF Exists, Types, Updating
  <2>3. new \in Stored
    BY <2>2, WrittenStored
  <2>4. PICK v \in Creating \cup Updating :
          /\ v.pc = "refresh" /\ v.view = handler[h].view /\ v.id = id /\ v.op = "update"
          /\ handler' = [handler EXCEPT ![h] = v]
    BY <1>1, <1>2, <2>1, <2>2, ProceedsTo
  <2> HIDE DEF new
  <2>5. /\ handler' \in [Handlers -> {Idle} \cup Creating \cup Updating \cup Deleting]
        /\ handler'[h] = v /\ \A g \in Handlers \ {h} : handler'[g] = handler[g]
        /\ On(h, id) /\ \A other \in Ids \ {id} : ~On(h, other) /\ ~On(h, other)'
    BY <1>1, <1>2, <2>4, Proceeds
  <2>6. /\ row' \in [Ids -> Stored \cup {NotYet, Gone}]
        /\ row'[id] = new /\ \A other \in Ids \ {id} : row'[other] = row[other]
    BY <1>2, <1>3, <2>1, <2>3 DEF Types
  <2>7. /\ fire' \in [Ids -> FirePoints]
        /\ fire'[id].pc = fire[id].pc
        /\ fire'[id].wanted = (fire[id].wanted \/ (fire[id] # Asleep /\ new.enabled))
        /\ \A other \in Ids \ {id} : fire'[other] = fire[other]
    <3>1. fire \in [Ids -> FirePoints] /\ fire[id] \in FirePoints
      BY <1>2, <1>3 DEF Types
    <3>2. new.enabled \in BOOLEAN
      BY <2>3 DEF Stored, Schedule
    <3> DEFINE b == (fire[id].wanted \/ (fire[id] # Asleep /\ new.enabled))
               f == [fire[id] EXCEPT !.wanted = b]
    <3>3. b \in BOOLEAN
      OBVIOUS
    <3>4. fire' = [fire EXCEPT ![id] = f]
      BY <2>1, <3>1
    <3> HIDE DEF b
    <3>5. f \in FirePoints /\ f.pc = fire[id].pc /\ f.wanted = b
      BY <3>1, <3>3 DEF FirePoints
    <3> HIDE DEF f
    <3>6. /\ fire' \in [Ids -> FirePoints] /\ fire'[id] = f
          /\ \A other \in Ids \ {id} : fire'[other] = fire[other]
      BY <1>2, <3>1, <3>4, <3>5
    <3> QED
      BY <3>5, <3>6 DEF b
  <2>8. Types'
    BY <1>1, <1>3, <2>1, <2>5, <2>6, <2>7 DEF Types, Accepted
  <2>9. Unused(id)'
    BY <2>3, <2>6, Distinct DEF Unused
  <2>10. FireInv(id)'
    <3>1. FireInv(id)
      BY <1>2 DEF IndInv
    <3>2. Enabled(id)' => new.enabled
      BY <2>6 DEF Enabled
    <3>3. fire[id].pc = "fired" => fire[id] # Asleep
      BY DEF Asleep
    <3> QED
      BY <2>7, <3>1, <3>2, <3>3 DEF FireInv
  <2>11. On(h, id)'
    BY <2>4, <2>5, NotIdle DEF On
  <2>12. KnowsRow(h, id)' /\ JobInv(id)'
    <3>1. handler'[h].op = "update" /\ handler'[h].pc = "refresh"
      BY <2>4, <2>5
    <3> QED
      BY <2>11, <3>1 DEF KnowsRow, JobInv
  <2> QED
    BY <1>1, <1>2, <2>1, <2>5, <2>6, <2>7, <2>8, <2>9, <2>10, <2>11, <2>12, Continues
<1>5. CASE ~Exists(id)
  <2>1. /\ handler' = [handler EXCEPT ![h] = Idle] /\ row' = row /\ fire' = fire
        /\ overlapped' = overlapped \ {h}
    BY <1>2, <1>5 DEF UpdateCommits, Answer
  <2>2. /\ handler' \in [Handlers -> {Idle} \cup Creating \cup Updating \cup Deleting]
        /\ handler'[h] = Idle /\ \A g \in Handlers \ {h} : handler'[g] = handler[g]
        /\ On(h, id) /\ \A other \in Ids \ {id} : ~On(h, other) /\ ~On(h, other)'
    BY <1>1, <1>2, <2>1, Proceeds
  <2>3. Types'
    BY <1>1, <1>3, <2>1, <2>2 DEF Types, Accepted
  <2>4. Unused(id)' /\ FireInv(id)'
    BY <1>1, <1>2, <2>1 DEF IndInv, Unused, FireInv, Exists, Enabled
  <2>5. ~On(h, id)' /\ JobInv(id)'
    BY <1>5, <2>1, <2>2 DEF On, Exists, JobInv
  <2> QED
    BY <1>1, <1>2, <2>1, <2>2, <2>3, <2>4, <2>5, Continues
<1> QED
  BY <1>4, <1>5

\* The view is the row's again, and nothing but a commit of another request
\* could change that.
LEMMA RefreshInv ==
  ASSUME IndInv, NEW h \in Handlers, Refresh(h)
  PROVE  IndInv'
<1>1. handler[h].pc = "refresh" /\ UNCHANGED <<row, job, fire, adrift>>
  BY DEF Refresh
<1>2. PICK id \in Ids : id = handler[h].id /\ row[id] # NotYet /\ handler[h] \in Creating \cup Updating
  BY <1>1, Known DEF Deleting
<1>3. Types
  BY DEF IndInv
<1>4. PICK v \in {Idle} \cup Creating \cup Updating :
        /\ v # Idle => v.id = id /\ v.pc = "apply" /\ v.op = handler[h].op /\ v.view = row[id]
        /\ v = Idle => ~Exists(id)
        /\ overlapped' = IF v = Idle THEN overlapped \ {h} ELSE overlapped
        /\ handler' = [handler EXCEPT ![h] = v]
  <2>1. CASE Exists(id)
    <3>1. row[id] \in Stored /\ Proceed(h, "apply", row[id]) /\ overlapped' = overlapped
      BY <1>2, <1>3, <2>1, Distinct DEF Refresh, Exists, Types
    <3> QED
      BY <1>2, <3>1, ProceedsTo, NotIdle
  <2>2. CASE ~Exists(id)
    BY <1>2, <2>2 DEF Refresh, Answer
  <2> QED
    BY <2>1, <2>2
<1>5. /\ handler' \in [Handlers -> {Idle} \cup Creating \cup Updating \cup Deleting]
      /\ handler'[h] = v /\ \A g \in Handlers \ {h} : handler'[g] = handler[g]
      /\ On(h, id) /\ \A other \in Ids \ {id} : ~On(h, other) /\ ~On(h, other)'
  BY <1>1, <1>2, <1>4, Proceeds
<1>6. Types'
  BY <1>1, <1>3, <1>4, <1>5 DEF Types, Accepted
<1>7. Unused(id)' /\ FireInv(id)'
  BY <1>1, <1>2 DEF IndInv, Unused, FireInv, Exists, Enabled
<1>8. CASE v = Idle
  <2>1. ~On(h, id)' /\ JobInv(id)' /\ overlapped' = overlapped \ {h}
    BY <1>1, <1>4, <1>5, <1>8 DEF On, Exists, JobInv
  <2> QED
    BY <1>1, <1>2, <1>5, <1>6, <1>7, <2>1, Continues
<1>9. CASE v # Idle
  <2>1. On(h, id)' /\ overlapped' = overlapped
    BY <1>4, <1>5, <1>9 DEF On
  <2>2. ASSUME h \notin overlapped PROVE KnowsRow(h, id)'
    <3>1. KnowsRow(h, id)
      BY <1>5, <2>2 DEF IndInv
    <3> QED
      BY <1>1, <1>4, <1>5, <1>9, <3>1 DEF KnowsRow
  <2>3. JobInv(id)'
    BY <1>4, <1>5, <1>9, <2>1 DEF JobInv
  <2> QED
    BY <1>1, <1>2, <1>5, <1>6, <1>7, <2>1, <2>2, <2>3, Continues
<1> QED
  BY <1>8, <1>9

\* The job is made from the row's view.
LEMMA ApplyJobInv ==
  ASSUME IndInv, NEW h \in Handlers, ApplyJob(h)
  PROVE  IndInv'
<1>1. /\ handler[h].pc = "apply" /\ UNCHANGED <<row, fire>>
      /\ handler' = [handler EXCEPT ![h] = Idle] /\ overlapped' = overlapped \ {h}
  BY DEF ApplyJob, Answer
<1>2. PICK id \in Ids : id = handler[h].id /\ row[id] # NotYet /\ On(h, id)
  BY <1>1, Known
<1>3. handler[h].view \in Stored /\ handler[h].op \in {"create", "update"}
  BY <1>1, Known DEF Creating, Updating, Deleting
<1>4. Types /\ (h \in overlapped => id \in adrift)
  BY <1>2 DEF IndInv
<1>5. /\ handler' \in [Handlers -> {Idle} \cup Creating \cup Updating \cup Deleting]
      /\ handler'[h] = Idle /\ \A g \in Handlers \ {h} : handler'[g] = handler[g]
      /\ \A other \in Ids \ {id} : ~On(h, other) /\ ~On(h, other)'
  BY <1>1, <1>2, Proceeds
<1> DEFINE s == handler[h].view
           t == IF s.enabled /\ Accepted(s.cron, s.timezone) THEN Trigger(s)
                ELSE IF ~s.enabled /\ handler[h].op = "update" THEN NoJob
                ELSE job[id]
<1>6. /\ job' = [job EXCEPT ![id] = t]
      /\ t \in CronTrigger \cup {NoJob} /\ (t # NoJob => Accepted(t.cron, t.timezone))
  <2>1. job \in [Ids -> CronTrigger \cup {NoJob}] /\ (job[id] # NoJob => Accepted(job[id].cron, job[id].timezone))
    BY <1>4 DEF Types
  <2>2. Trigger(s) \in CronTrigger /\ Trigger(s).cron = s.cron /\ Trigger(s).timezone = s.timezone
    BY <1>3 DEF Trigger, CronTrigger, Stored, Schedule
  <2>3. job' = job => job' = [job EXCEPT ![id] = job[id]]
    BY <2>1
  <2> QED
    BY <1>2, <1>3, <2>1, <2>2, <2>3 DEF ApplyJob, AddOrReplace
<1>7. job'[id] = t /\ \A other \in Ids \ {id} : job'[other] = job[other]
  BY <1>4, <1>6 DEF Types
<1>8. Applied(h, id, s)
  BY <1>2 DEF ApplyJob
<1>9. /\ adrift' \subseteq Ids /\ \A other \in Ids \ {id} : other \in adrift' <=> other \in adrift
      /\ h \in overlapped => adrift \subseteq adrift'
      /\ id \notin adrift' => h \notin overlapped /\ (s.enabled => Accepted(s.cron, s.timezone))
  BY <1>2, <1>4, <1>8 DEF Applied, Types
<1>10. Types'
  BY <1>1, <1>4, <1>5, <1>6, <1>7, <1>9 DEF Types, Accepted
<1>11. Unused(id)' /\ FireInv(id)'
  BY <1>1, <1>2 DEF IndInv, Unused, FireInv, Exists, Enabled
<1>12. ~On(h, id)'
  BY <1>5 DEF On
<1>13. ASSUME id \notin adrift' PROVE JobInv(id)'
  <2> SUFFICES ASSUME Exists(id) PROVE Matches(id)'
    BY <1>1 DEF JobInv, Exists
  <2>0. h \notin overlapped /\ (s.enabled => Accepted(s.cron, s.timezone))
    BY <1>9, <1>13
  <2>1. KnowsRow(h, id) /\ (s.enabled => Accepted(s.cron, s.timezone))
    BY <1>2, <2>0 DEF IndInv
  <2>2. s = row[id] /\ (handler[h].op = "create" => job[id] = NoJob)
    BY <1>1, <2>1 DEF KnowsRow
  <2>3. s.enabled \in BOOLEAN
    BY <1>3 DEF Stored, Schedule
  <2> QED
    BY <1>1, <1>3, <1>7, <2>1, <2>2, <2>3 DEF Matches, Trigger
<1> HIDE DEF s, t
<1> QED
  BY <1>1, <1>2, <1>5, <1>7, <1>9, <1>10, <1>11, <1>12, <1>13, Continues

\* A deleted row has no job to match.
LEMMA DeleteInv ==
  ASSUME IndInv, NEW h \in Handlers, DeleteCommits(h) \/ DeleteRemoves(h)
  PROVE  IndInv'
<1>1. /\ handler[h].pc \in {"commit", "remove"} /\ UNCHANGED <<fire, adrift>>
      /\ handler[h].pc = "commit" => handler[h].op = "delete"
  BY DEF DeleteCommits, DeleteRemoves, history
<1>2. PICK id \in Ids : id = handler[h].id /\ row[id] # NotYet /\ On(h, id)
  BY <1>1, Known
<1>3. handler[h] \in Deleting
  BY <1>1, Known DEF Creating, Updating
<1>4. Types /\ Unused(id) /\ FireInv(id) /\ (h \in overlapped => id \in adrift)
  BY <1>2 DEF IndInv
<1>5. CASE DeleteCommits(h)
  <2> DEFINE v == [handler[h] EXCEPT !.pc = "remove"]
  <2>1. v \in Deleting /\ v.pc = "remove" /\ v.id = id /\ v.op = "delete"
    BY <1>2, <1>3 DEF Deleting
  <2>2. /\ handler' = [handler EXCEPT ![h] = v] /\ job' = job /\ row' = [row EXCEPT ![id] = Gone]
        /\ overlapped' = overlapped
    BY <1>2, <1>5 DEF DeleteCommits, history
  <2> HIDE DEF v
  <2>3. /\ handler' \in [Handlers -> {Idle} \cup Creating \cup Updating \cup Deleting]
        /\ handler'[h] = v /\ \A g \in Handlers \ {h} : handler'[g] = handler[g]
        /\ \A other \in Ids \ {id} : ~On(h, other) /\ ~On(h, other)'
    BY <1>1, <1>2, <2>1, <2>2, Proceeds
  <2>4. row'[id] = Gone /\ \A other \in Ids \ {id} : row'[other] = row[other]
    BY <1>4, <2>2 DEF Types
  <2>5. Types'
    BY <1>1, <1>4, <2>2, <2>3 DEF Types, Accepted
  <2>6. Unused(id)' /\ FireInv(id)' /\ ~Exists(id)'
    BY <1>1, <1>4, <2>4, Distinct DEF Unused, FireInv, Exists, Enabled
  <2>7. KnowsRow(h, id)' /\ JobInv(id)' /\ On(h, id)'
    BY <2>1, <2>3, <2>6, NotIdle DEF KnowsRow, JobInv, On
  <2> QED
    BY <1>1, <1>2, <2>2, <2>3, <2>4, <2>5, <2>6, <2>7, Continues
<1>6. CASE DeleteRemoves(h)
  <2>1. /\ handler[h].pc = "remove" /\ row' = row
        /\ handler' = [handler EXCEPT ![h] = Idle] /\ job' = [job EXCEPT ![id] = NoJob]
        /\ overlapped' = overlapped \ {h}
    BY <1>2, <1>6 DEF DeleteRemoves, Answer
  <2>2. /\ handler' \in [Handlers -> {Idle} \cup Creating \cup Updating \cup Deleting]
        /\ handler'[h] = Idle /\ \A g \in Handlers \ {h} : handler'[g] = handler[g]
        /\ \A other \in Ids \ {id} : ~On(h, other) /\ ~On(h, other)'
    BY <1>1, <1>2, <2>1, Proceeds
  <2>3. job'[id] = NoJob /\ \A other \in Ids \ {id} : job'[other] = job[other]
    BY <1>4, <2>1 DEF Types
  <2>4. Types'
    BY <1>1, <1>4, <2>1, <2>2, <2>3 DEF Types, Accepted
  <2>5. Unused(id)' /\ FireInv(id)' /\ ~On(h, id)'
    BY <1>1, <1>2, <1>4, <2>1, <2>2 DEF Unused, FireInv, Exists, Enabled, On
  <2>6. ASSUME id \notin adrift' PROVE JobInv(id)'
    <3>1. KnowsRow(h, id)
      BY <1>1, <1>2, <1>4, <2>6 DEF IndInv
    <3>2. ~Exists(id)'
      BY <2>1, <3>1 DEF KnowsRow, Exists
    <3> QED
      BY <3>2 DEF JobInv
  <2> QED
    BY <1>1, <1>2, <2>1, <2>2, <2>3, <2>4, <2>5, <2>6, Continues
<1> QED
  BY <1>5, <1>6

\* A request that fails before its commit has changed nothing; later it sets the
\* schedule adrift.
LEMMA FailsInv ==
  ASSUME IndInv, NEW h \in Handlers, Fails(h)
  PROVE  IndInv'
<1>1. /\ handler[h] # Idle /\ UNCHANGED <<row, job, fire>>
      /\ handler' = [handler EXCEPT ![h] = Idle] /\ overlapped' = overlapped \ {h}
  BY DEF Fails, Answer
<1>2. Types
  BY DEF IndInv
<1>3. handler[h].pc # "idle"
  BY <1>1, <1>2, Working
<1>4. PICK id \in Ids : id = handler[h].id /\ row[id] # NotYet /\ On(h, id)
  BY <1>3, Known
<1>5. /\ handler' \in [Handlers -> {Idle} \cup Creating \cup Updating \cup Deleting]
      /\ handler'[h] = Idle /\ \A g \in Handlers \ {h} : handler'[g] = handler[g]
      /\ \A other \in Ids \ {id} : ~On(h, other) /\ ~On(h, other)'
  BY <1>1, <1>3, <1>4, Proceeds
<1>6. adrift' = IF handler[h].pc = "commit" THEN adrift ELSE adrift \cup {id}
  BY <1>4 DEF Fails
<1>7. Types'
  BY <1>1, <1>2, <1>5, <1>6 DEF Types, Accepted
<1>8. Unused(id)' /\ FireInv(id)' /\ ~On(h, id)'
  BY <1>1, <1>4, <1>5 DEF IndInv, Unused, FireInv, Exists, Enabled, On
<1>9. ASSUME id \notin adrift' PROVE JobInv(id)'
  <2>1. handler[h].pc = "commit" /\ JobInv(id)
    BY <1>6, <1>9 DEF IndInv
  <2>2. h \notin overlapped
    BY <1>4, <1>6, <1>9 DEF IndInv
  <2>3. Alone(h, id)
    BY <1>4, <2>2 DEF IndInv
  <2>4. Exists(id) => Matches(id)
    BY <2>1, <2>3 DEF JobInv, Alone
  <2> QED
    BY <1>1, <2>4 DEF JobInv, Matches, Exists
<1> QED
  BY <1>1, <1>4, <1>5, <1>6, <1>7, <1>8, <1>9, Continues

\* The cascade leaves a job without a row.
LEMMA DeleteWorkflowInv ==
  ASSUME IndInv, DeleteWorkflow
  PROVE  IndInv'
<1>1. PICK id \in Ids : Exists(id) /\ row' = [row EXCEPT ![id] = Gone]
  BY DEF DeleteWorkflow
<1>2. UNCHANGED <<job, handler, fire, overlapped, adrift>>
  BY DEF DeleteWorkflow, history
<1>3. Types
  BY DEF IndInv
<1>4. row'[id] = Gone /\ \A other \in Ids \ {id} : row'[other] = row[other]
  BY <1>3, <1>1 DEF Types
<1>5. Types'
  BY <1>1, <1>2, <1>3 DEF Types, Accepted
<1>6. \A h \in Handlers, any \in Ids : On(h, any)' <=> On(h, any)
  BY <1>2 DEF On
<1>8. \A any \in Ids : /\ row'[any] = NotYet => row[any] = NotYet
                       /\ Exists(any)' => row'[any] = row[any] /\ Exists(any)
                       /\ Enabled(any)' => Enabled(any)
  BY <1>4, Distinct DEF Exists, Enabled
<1>9. ASSUME NEW any \in Ids PROVE Unused(any)' /\ FireInv(any)'
  BY <1>2, <1>6, <1>8 DEF IndInv, Unused, FireInv
<1>10. ASSUME NEW any \in Ids \ adrift' PROVE JobInv(any)'
  <2>1. JobInv(any)
    BY <1>2, <1>10 DEF IndInv
  <2> QED
    BY <1>2, <1>6, <1>8, <2>1 DEF JobInv, Matches
<1>11. ASSUME NEW h \in Handlers \ overlapped', NEW any \in Ids, On(h, any)'
       PROVE  Alone(h, any)' /\ KnowsRow(h, any)'
  <2>1. Alone(h, any) /\ KnowsRow(h, any)
    BY <1>2, <1>6, <1>11 DEF IndInv
  <2> QED
    BY <1>2, <1>6, <1>8, <2>1 DEF KnowsRow, Alone
<1>12. \A h \in overlapped' : handler'[h] # Idle /\ handler'[h].id \in adrift'
  BY <1>2 DEF IndInv
<1> QED
  BY <1>5, <1>9, <1>10, <1>11, <1>12 DEF IndInv

\* A fire touches neither row nor job.
LEMMA FireStepInv ==
  ASSUME IndInv, NEW id \in Ids, Fire(id)
  PROVE  IndInv'
<1>1. UNCHANGED <<row, job, handler, overlapped, adrift>>
  BY DEF Fire, JobFires, FireLoads, FireInserts, FireEnds, history
<1>2. Types /\ Unused(id) /\ FireInv(id)
  BY DEF IndInv
<1>3. PICK f \in FirePoints :
        /\ fire' = [fire EXCEPT ![id] = f]
        /\ row[id] = NotYet => f = Asleep
        /\ f.pc = "fired" /\ Enabled(id) => f.wanted
        /\ f.pc \in {"loaded", "inserted"} => f.wanted
  <2>1. fire[id] \in FirePoints /\ Enabled(id) \in BOOLEAN /\ Asleep \in FirePoints
    BY <1>2 DEF Types, FirePoints, Asleep, Enabled, Exists, Stored, Schedule
  <2>2. \A pc \in {"loaded", "inserted"} : /\ [fire[id] EXCEPT !.pc = pc] \in FirePoints
                                           /\ [fire[id] EXCEPT !.pc = pc].pc = pc
                                           /\ [fire[id] EXCEPT !.pc = pc].wanted = fire[id].wanted
    BY <2>1 DEF FirePoints
  <2>3. Asleep.pc = "asleep" /\ (row[id] = NotYet => ~Exists(id))
    BY Distinct DEF Asleep, Exists
  <2>4. CASE JobFires(id)
    <3> DEFINE f == [pc |-> "fired", wanted |-> Enabled(id)]
    <3>1. f \in FirePoints /\ f.pc = "fired" /\ f.wanted = Enabled(id)
      BY <2>1 DEF FirePoints
    <3>2. row[id] # NotYet /\ fire' = [fire EXCEPT ![id] = f]
      BY <1>2, <2>4 DEF JobFires, Unused
    <3> HIDE DEF f
    <3> QED
      BY <3>1, <3>2
  <2>5. CASE FireLoads(id)
    <3>1. CASE Enabled(id)
      BY <1>2, <2>2, <2>3, <2>5, <3>1 DEF FireLoads, FireInv, Enabled
    <3>2. CASE ~Enabled(id)
      BY <2>1, <2>3, <2>5, <3>2 DEF FireLoads
    <3> QED
      BY <3>1, <3>2
  <2>6. CASE FireInserts(id)
    <3>1. CASE Exists(id)
      BY <1>2, <2>2, <2>3, <2>6, <3>1 DEF FireInserts, FireInv
    <3>2. CASE ~Exists(id)
      BY <2>1, <2>3, <2>6, <3>2 DEF FireInserts
    <3> QED
      BY <3>1, <3>2
  <2>7. CASE FireEnds(id)
    BY <2>1, <2>3, <2>7 DEF FireEnds
  <2> QED
    BY <2>4, <2>5, <2>6, <2>7 DEF Fire
<1>4. /\ fire' \in [Ids -> FirePoints] /\ fire'[id] = f
      /\ \A other \in Ids \ {id} : fire'[other] = fire[other]
  BY <1>2, <1>3 DEF Types
<1>5. Types'
  BY <1>1, <1>2, <1>4 DEF Types, Accepted
<1>6. ASSUME NEW any \in Ids PROVE Unused(any)' /\ FireInv(any)'
  <2>1. Unused(any) /\ FireInv(any)
    BY DEF IndInv
  <2>2. (Enabled(any)' <=> Enabled(any)) /\ \A h \in Handlers : On(h, any)' <=> On(h, any)
    BY <1>1 DEF Enabled, Exists, On
  <2>3. CASE any = id
    BY <1>1, <1>3, <1>4, <2>1, <2>2, <2>3 DEF Unused, FireInv
  <2>4. CASE any # id
    BY <1>1, <1>4, <2>1, <2>2, <2>4 DEF Unused, FireInv
  <2> QED
    BY <2>3, <2>4
<1>7. \A any \in Ids \ adrift' : JobInv(any)'
  BY <1>1 DEF IndInv, JobInv, Matches, Exists, On
<1>8. \A h \in Handlers \ overlapped', any \in Ids :
        On(h, any)' => Alone(h, any)' /\ KnowsRow(h, any)'
  BY <1>1 DEF IndInv, Alone, KnowsRow, Exists, On
<1>9. \A h \in overlapped' : handler'[h] # Idle /\ handler'[h].id \in adrift'
  BY <1>1 DEF IndInv
<1> QED
  BY <1>5, <1>6, <1>7, <1>8, <1>9 DEF IndInv

\* What a start loads has its job, and what it does not load is adrift.
LEMMA RestartInv ==
  ASSUME IndInv, Reload \/ StartUnread
  PROVE  IndInv'
<1>1. PICK loaded \in SUBSET ToLoad :
        /\ \A id \in loaded : Accepted(row[id].cron, row[id].timezone)
        /\ Restart(loaded)
  BY DEF Reload, StartUnread
<1>2. /\ handler' = [h \in Handlers |-> Idle] /\ fire' = [id \in Ids |-> Asleep]
      /\ row' = row /\ overlapped' = {} /\ adrift' = ToLoad \ loaded
      /\ job' = [id \in Ids |-> IF id \in loaded THEN Trigger(row[id]) ELSE NoJob]
  BY <1>1 DEF Restart
<1>3. Types
  BY DEF IndInv
<1>4. \A h \in Handlers, id \in Ids : ~On(h, id)'
  BY <1>2 DEF On
<1>5. ASSUME NEW id \in ToLoad
      PROVE  /\ id \in Ids /\ row[id] \in Stored /\ row[id].enabled
             /\ Trigger(row[id]) \in CronTrigger /\ Trigger(row[id]) # NoJob
             /\ Trigger(row[id]).cron = row[id].cron /\ Trigger(row[id]).timezone = row[id].timezone
  <2>1. row[id] \in Stored /\ row[id].enabled
    BY <1>3, <1>5, Distinct DEF ToLoad, Enabled, Exists, Types
  <2>2. Trigger(row[id]) \in CronTrigger
    BY <2>1 DEF Trigger, CronTrigger, Stored, Schedule
  <2> QED
    BY <2>1, <2>2, Distinct DEF ToLoad, Trigger
<1>6. Types'
  <2>1. ASSUME NEW id \in Ids
        PROVE  /\ job'[id] \in CronTrigger \cup {NoJob}
               /\ job'[id] # NoJob => Accepted(job'[id].cron, job'[id].timezone)
    BY <1>1, <1>2, <1>5, <2>1
  <2>2. Asleep \in FirePoints
    BY DEF Asleep, FirePoints
  <2>3. adrift' \subseteq Ids
    BY <1>2 DEF ToLoad
  <2> QED
    BY <1>2, <1>3, <2>1, <2>2, <2>3 DEF Types, Accepted
<1>7. ASSUME NEW id \in Ids PROVE Unused(id)' /\ FireInv(id)'
  <2>1. row[id] = NotYet => id \notin ToLoad
    BY Distinct DEF ToLoad, Enabled, Exists
  <2> QED
    BY <1>1, <1>2, <1>4, <2>1 DEF Unused, FireInv, Asleep
<1>8. ASSUME NEW id \in Ids \ adrift' PROVE JobInv(id)'
  <2>1. Exists(id) => Matches(id)'
    BY <1>2, <1>8 DEF Matches, ToLoad, Enabled
  <2> QED
    BY <1>2, <2>1 DEF JobInv, Exists
<1> QED
  BY <1>2, <1>4, <1>6, <1>7, <1>8 DEF IndInv

\* There are no schedules yet.
LEMMA InitInv == Init => IndInv
<1> SUFFICES ASSUME Init PROVE IndInv
  OBVIOUS
<1>1. Types
  BY DEF Init, Types, FirePoints, Asleep
<1>2. \A id \in Ids : Unused(id) /\ FireInv(id)
  BY DEF Init, Unused, FireInv, Asleep, On
<1>3. \A id \in Ids : JobInv(id)
  BY Distinct DEF Init, JobInv, On, Exists
<1> QED
  BY <1>1, <1>2, <1>3 DEF Init, IndInv, On

\* Each action preserves the invariant.
LEMMA NextInv == IndInv /\ [Next]_vars => IndInv'
<1> SUFFICES ASSUME IndInv, [Next]_vars PROVE IndInv'
  OBVIOUS
<1>1. ASSUME NEW h \in Handlers, Api(h) PROVE IndInv'
  BY <1>1, CreateInv, LoadInv, UpdateCommitsInv, RefreshInv, ApplyJobInv, DeleteInv, FailsInv
  DEF Api, Create, Update, Delete
<1>2. CASE UNCHANGED vars
  <2>1. UNCHANGED <<row, job, handler, fire, overlapped, adrift>>
    BY <1>2 DEF vars, history
  <2>2. Types' /\ \A id \in Ids : Unused(id)' /\ FireInv(id)'
    BY <2>1 DEF IndInv, Types, Accepted, Unused, FireInv, On, Exists, Enabled
  <2>3. \A id \in Ids \ adrift' : JobInv(id)'
    BY <2>1 DEF IndInv, JobInv, Matches, Exists, On
  <2>4. \A h \in Handlers \ overlapped', id \in Ids :
          On(h, id)' => Alone(h, id)' /\ KnowsRow(h, id)'
    BY <2>1 DEF IndInv, Alone, KnowsRow, Exists, On
  <2>5. \A h \in overlapped' : handler'[h] # Idle /\ handler'[h].id \in adrift'
    BY <2>1 DEF IndInv
  <2> QED
    BY <2>2, <2>3, <2>4, <2>5 DEF IndInv
<1> QED
  BY <1>1, <1>2, FireStepInv, DeleteWorkflowInv, RestartInv DEF Next

\* The invariant of the specification.
LEMMA Invariant == Spec => []IndInv
  BY InitInv, NextInv, PTL DEF Spec

\* Whatever is stored has an expression that was accepted, and whatever is a job
\* has a trigger that was: add_or_replace_schedule's exception is never met by a
\* stored expression, only by a zone.
THEOREM TypeCorrect == Spec => []TypeOK
<1>1. IndInv => TypeOK
  <2> SUFFICES ASSUME IndInv PROVE TypeOK
    OBVIOUS
  <2>1. Types
    BY DEF IndInv
  <2>2. row \in [Ids -> Schedule \cup {NotYet, Gone}]
    BY <2>1, Distinct DEF Types
  <2>3. \A id \in Ids : Exists(id) => row[id].cron \notin RejectedCrons
    BY <2>1, Distinct DEF Types, Exists, Stored
  <2>4. \A h \in Handlers : handler[h] = Idle \/ handler[h].id \in Ids
    BY <2>1, Working
  <2> QED
    BY <2>1, <2>2, <2>3, <2>4 DEF Types, TypeOK, FirePoints
<1> QED
  BY <1>1, Invariant, PTL

\* An execution is inserted by a fire only if its schedule was enabled at some
\* time since the job fired, however many requests, deletions and restarts come
\* between.
THEOREM FiresAreWanted == Spec => []RunsAreWanted
<1>1. IndInv => RunsAreWanted
  BY DEF IndInv, FireInv, RunsAreWanted
<1> QED
  BY <1>1, Invariant, PTL

\* A schedule at rest that is not adrift has exactly the job its row asks for:
\* nothing but overlapping requests, a failure after a commit (schedules.py
\* refresh, add_or_replace_schedule) and a start that does not load it
\* (main.py lifespan) parts the two, and each until the next update that runs
\* alone.
THEOREM JobsFollowRows == Spec => []JobsMatchRows
<1>1. IndInv => JobsMatchRows
  BY DEF IndInv, JobInv, Matches, JobsMatchRows, InFlight
<1> QED
  BY <1>1, Invariant, PTL

=============================================================================
