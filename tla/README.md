# scout-engine in TLA+

scout-engine is a FastAPI service that stores browser-automation workflows and
executes them: one Chrome per execution, driven step by step from a worker
thread, started through the API or by a cron schedule, stopped, paused and
resumed by a developer, and reported to a webhook. This directory holds TLA+
models of the parts of it that have state worth arguing about, the TLC runs
that check them and the TLAPS proofs about them. Paths below are relative to
the repository; `executor.py` is `app/services/executor.py`, `executions.py` is
`app/api/executions.py`.

    tlc -workers 2 -config MCExecutor_takeover.cfg MCExecutor
    tlapm ExecutorProofs.tla

## 1. Inventory

| Part | State | Operations | Hard behaviour | What makes it right |
|---|---|---|---|---|
| Step control (`schemas.py`, `executor.py`) | step index, stack of loop frames | conditional skip and jump, loop start, loop iteration, look-ahead | index arithmetic without range checks, several loops | frames follow the index; each item visited once; an index that is out of range ends the run and nothing worse |
| Executor thread (`executor.py`) | results, counts, retry mark, set of paused steps, monitor, driver | create driver, cancel check, pause check, dispatch, three pauses, four resumes, timeout, clean-up | stop and resume at any moment, stale instructions, exceptions, time-outs | stop within one step, honest counts and status, no endless pause, browser and handles given back |
| Pause registry (`pause.py`) | one-slot queue and pause flag per execution | register, resume, request_pause, unregister | `put` blocks on a full slot, an early resume is kept | an instruction ends the pause it was meant for |
| Cancellation registry (`cancellation.py`) | event per execution | register, cancel, unregister | a stop with nobody registered | a stop that is acknowledged is seen |
| Browser session registry (`browser_session.py`) | connection data, state, current and paused step | register, update_step, set_paused, set_running, unregister, get_session | read from the event loop, written by the thread | a pause is reported only while the thread is idle, an entry only while Chrome lives |
| Execution lifecycle (`executions.py`, `models.py`, `database.py`) | the executions row | run, _run_execution (two sessions), stop, delete cascade | awaits between read and write, crash | an acknowledged stop lasts; the row ends in a final status with its telemetry |
| Webhook (`webhook.py`) | none | one post after the commit | lost post, a stop that commits afterwards | at most once, and agrees with the row |
| Network monitor (`network_monitor.py`) | running flag, events, pending requests, download event | start, stop, query, wait, two callbacks on the websocket thread | restart against callbacks | no download is missed or reported as a time-out |
| Scheduler and schedules API (`scheduler.py`, `api/schedules.py`) | schedule rows, APScheduler jobs | create, update, delete, fire, reload at start | commit and job are two steps | a job exists exactly for each enabled schedule |
| Start and shutdown (`main.py`) | none | reload schedules, register cleanup | crash of the process, one bad row | what the database promises is resumed |
| Event loop and thread pool (`executions.py`, `pause.py`, `api/artifacts.py`) | pool of threads and its queue, the loop | start, collect, the blocking `put`, reads of files | paused executions hold threads, a handler blocks the loop | every request returns, whatever is started ends |
| Fragments (`api/fragments.py`, `services/fragments.py`) | fragment rows with a version | upsert, delete, include, expand | select and commit are two steps, a fragment changes between upload and run | a row is what its upserts sent; steps land in the place of their directive |
| Variables (`services/variables.py`) | declared, environment, overrides, run-time outputs | precedence, vault references, substitution, interpolation | three passes over the same text | a token means one value, from the source with precedence |
| Workflows API (`api/workflows.py`) | workflow rows | upload, read, delete | cascade against a running task | what a deleted workflow leaves behind does nothing |
| Authentication (`auth.py`, `api/auth.py`, `keys.py`) | keys, invites | invite, register, revoke, middleware | single use, mutual revocation, open mode | an invite makes one key, nobody is served who is not entitled |
| Artifacts and cleanup (`api/artifacts.py`, `services/cleanup.py`) | directories per execution | list, download, remove by age | reads wait for the pool's threads | a reader is answered although executions are paused |
| Config, keys, migrations, deployment, examples | constants, scripts, data | none | none | not modelled |

How they meet: the API handlers and `_run_execution` are coroutines on one event
loop and share the database row; `_run_execution` runs the executor in a worker
thread with `asyncio.to_thread` and shares with it the cancel event, the pause
flag and the resume queue, which handlers reach by execution id through the two
registries; the thread writes the browser session registry, which handlers
read; Chrome's websocket thread calls the network monitor's callbacks while the
executor thread starts, stops and reads it.

## 2. Modules

| Module | Models |
|---|---|
| `WorkflowSteps` | workflows, steps, loop frames, and the index arithmetic of the step loop, as operators |
| `Executor` | one execution: the thread, the handles it shares, the developer |
| `ExecutorProps` | its properties |
| `RunContract` | what one execution promises, in five variables: the abstract specification |
| `ExecutorProofs` | theorems on its handles, counts and cancellation, and that it implements `RunContract` |
| `ExecutorRowsProofs` | theorems on what its rows say: waits, retries, steps run, loop frames |
| `MCExecutor` | workflows and instructions for TLC |
| `RunExecution` | the life of one executions row, with its properties |
| `RunExecutionProofs` | its theorems |
| `NetworkMonitor` | the executor thread and the websocket thread on one monitor |
| `NetworkMonitorProofs` | its theorems |
| `Schedules` | schedule rows, APScheduler jobs, requests, fires, restarts |
| `SchedulesProofs` | its theorems |
| `EventLoop`, `MCEventLoop` | several executions that keep `RunContract`, the thread pool, the blocking resume, the requests that read files |
| `EventLoopProofs` | its theorems, that each execution keeps the contract among them |
| `Auth` | middleware, invitations, registration, revocation, the first administrator, against keys and invites |
| `AuthProofs` | its theorems |
| `Fragments`, `MCFragments` | fragment rows, and the way of a workflow through expansion, resolution and interpolation |
| `FragmentsProofs` | theorems on the rows and on the runs |

`RunContract` is the joint between the detailed thread and the rest:
`ExecutorProps!Contract` is the refinement mapping from `Executor`, checked by
the run `takeover` and proved in `ExecutorProofs`; `EventLoop` composes several
executions of which it knows no more than the contract, and its property
`KeepContracts` instantiates the same module once per execution.

`Executor` and `RunExecution` meet in one place: what `RunExecution` calls
`Collect` (the thread returns with some final status) is the whole behaviour of
`Executor`, whose `EventuallyReturns` is the reason why `Collect` may be assumed
fair. `RunExecution` allows any final status whether or not the event was set,
because `Executor` does: a stopped thread may still complete when the stop comes
after its last check, and a thread that was not stopped may report cancelled
after an abort.

### WorkflowSteps

A step is its kind ("wait" is the two actions that need the monitor, "browser"
is every action without control flow), its `on_error`, `skip_steps`, `jump_to`
and `loop_steps`. Integers are Python integers: `StepAt` and `InRange` take
negative indices as Python lists do. `ConditionalIndex`, `LoopStartIndex`,
`LoopStartStack`, `IterationIndex` and `IterationStack` are the three blocks at
the end of the loop (`executor.py` 855-907), in that order, and `Storing`,
`LoopStartOutputs` and `IterationOutputs` what the same rounds write to
`context.step_outputs` (796-811, 892-894, 902-904). A value there is known by
where it comes from: a row, the item of a loop, an index. A step lists the names
it stores: `output_var` and the `_body` name derived from it.

### Executor

`pc` is the point the thread has reached; between two values of `pc` lies the
code up to the next place where another actor's step could be noticed (a
look at the cancel event, at the pause flag, at the queue, a change of the
session registry) or where real time passes (a step, a pause, the close).

| Action | Code |
|---|---|
| `CreateDriver`, `SetupDriver` | before the `try`: an exception here skips the `finally` block |
| `LoopExit`, `IndexFault`, `CheckCancel`, `CheckPause` | the head of the loop |
| `LookaheadFault`, `DispatchHandoff`, `DispatchStep` | look-ahead, then the step |
| `StepPasses` | the outcome, the retry mark, conditional, loop start, iteration check, increment |
| `StepFailsAndPauses`, `StepFailsAndStops`, `StepFailsAndContinues` | the three ends of the failure branch |
| `Wake`, `PauseTimeout` | `queue.get(timeout=1800)` |
| `ResumeAborts`, `ResumeProceeds` | `set_running`, `_apply_resume` and what its three callers do with the answer |
| `Cleanup`, `CloseDriver` | the `finally` block of the thread |
| `Stop`, `RequestPause`, `Resume`, `PutCompletes` | what the three handlers do to the shared handles; a `Resume` on a full slot blocks the event loop until `PutCompletes` |
| `Unregister` | the `finally` block of `_run_execution`, on the event loop like the handlers |

Abstractions: what a step does is its outcome, an item count or a truth value;
delays, screenshots, error texts and the cleanup steps'
results are left out (the cleanup steps run after the loop whatever happened,
and change none of this state). A step index that is not a number, which the
resume handler does not refuse, raises out of the loop like an index out of
range and is not listed separately. The module starts when the handles are
registered and ends when they are dropped. While `putting` holds an instruction
the event loop stands still in `queue.put` (`pause.py` 48): no handler runs, and
`Unregister` cannot. If the thread has returned by then, nobody will empty the
slot (`LoopStuck`). Of the event loop, `Executor` has only what its own execution
does to it; that others share it is `EventLoop`. `outputs` is what a token finds
when its step is resolved at the head of the round: nothing is written
between that moment and the step. `late_steps` is a history variable.

### RunExecution

An action is the code between two awaits, with the effect of the awaited
statement. A session is an identity map: what a handler wrote to its object is
not visible to others before its commit, and the commit writes the columns that
changed, so `WriteResult` writes `status` only if it differs from what the same
session read. Any statement may raise: `TaskFails` and `StopFails` end the coroutine,
and a commit may have taken effect before its answer was lost. Each `stop_execution` call is one of `Stops`. `Crash` ends the
process between any two actions and keeps the row; the next process does
nothing to it. `DeleteWorkflow` removes the row by the cascade.

### NetworkMonitor

`Executor` knows of the monitor only whether it runs; this module has the rest.
An action is one access to what the two threads share: `start` is `Activate`
(pattern and flag), `ClearEvent`, `ClearEvents`; `wait_for_download` is `Wait` and
`ReadDownloads`; `_on_response` is `CheckMonitoring`, `CheckPattern`,
`AppendEvent`, `Signal`. `answer` is what the wait returned, as a set: the ids
tell the order. Two statements share an action where no other thread
can tell: the pattern is read only after the flag, and callbacks come only after
the first registration. The driver's thread is external: it runs one callback at
a time. Left out: `_on_request` and `_pending_requests`, which supply a method
name, `wait_for_response`, which polls `query` and changes nothing (a response in
the last half second of its time-out is not looked for), the internal URL
prefixes, and the registration of the callbacks again at every start (if the
driver keeps them all, each response is recorded once per start).

### Schedules

One action per await again. An `update` is four: `UpdateLoads` reads the row and
applies the request to the session's view, `UpdateCommits` writes the columns
that differ from what was read, `Refresh` reads the row again, `ApplyJob`
changes the job by what was read. The answer to the refresh is under way while
other requests go on, which is why it is an action of its own. The database is not
assumed to be reliable: `Fails` ends a request at any await, a failed refresh
after the commit among them (`api/schedules.py` 134: the row has changed, the job
has not, and the answer is 500), and `FireEnds` a fire. A crash at any point and
the `lifespan` of the next process are `Reload`, which adds the enabled rows up to
the first that raises, or `StartUnread`, when the query itself raises: lines 52-53
of `main.py` log that, and the application runs without a job.

Two history variables say when a job need not follow its row. `adrift` has the
schedules on which requests overlapped, or whose last request ended between commit
and job or met a refused zone, or which a start did not load; an update that is
alone on the schedule (`overlapped` has the requests that are not) and reaches the
job takes the schedule out again, and so does a start that loads it. `row`
distinguishes ids that are free from ids that are gone; `last_run_at` and
`next_run_at` are left out, being shown and never read.

### RunContract

Five variables: the phase (working, paused, ending, returned), the resume slot,
whether a stop came, whether a step began after it, and the status returned.
`ending` means that only clean-up is left; it is what an obeyed stop, an abort, a
time-out and a jump that names no step have in common, and it returns "cancelled". The
mapping reads `phase` off `pc` and off what the loop has already decided
(`ExecutorProps!Phase`).

### EventLoop

A coroutine's step needs the loop (`LoopFree`); a thread's does not. `Resume`
blocks the loop when the slot is taken, because `resume` calls `queue.put` with
no time-out from an `async` handler (`pause.py` 48), and `PutCompletes` frees it.
`Assign` gives the oldest piece of work to a free thread. `Careful` restricts the
developer: an execution gets no second instruction ahead of a pause. The window
it excludes is real (between `queue.get` and `set_running` the session is still
shown as paused, so a double click sends two), and `blocked_loop` is what happens
without the restriction. Left out: the step in which the pool grows from zero,
and work of other libraries in the pool.

### Auth

An action is the code between two awaits: the middleware is `Arrive`,
`HasAnyKeys`, `LookupKey`; `register` is `RegisterSelects` (`SELECT ... FOR UPDATE`,
which waits for the row) and `RegisterCommits`. A key stands for its secret, hash
and row. `Fail` may end a request at any await, with its transaction;
`CreateAdminKey` is the command line, another process. `entitled` is a history
variable written on arrival. `last_used_at`, stamped in the background, is shown
and never read.

### Fragments

The text of a step is one token, a variable or a literal, and a value is again a
text, so that a substitution may bring in a token of another pass. `Load` is the
handler's select, `Create`, `Update` and `Delete` the commit with what the object-
relational mapper writes: the columns that differ from what was loaded, to the
row with the loaded primary key (`SameRow`). `Over` is `dict.update`, and `Merged`
goes through the includes one prefix of the steps after the other. A run is
loaded, expanded from one query, validated (a directive that is left is refused), and resolved when its task
starts; there the module ends. What a token that is left then becomes depends on
retries, jumps and loops, and is `outputs` of `Executor`. `Fire`
is the scheduled run, which is not expanded. Stored workflows are constants. `raced`
is history.

## 3. Runs

| Run | Checks | Bounds and why they suffice |
|---|---|---|
| `takeover` | `TypeOK`, `CancelWithinOneStep`, `CountsMatchRows`, `IdleWhilePaused`, `SessionOnlyWhileAlive`, `TokensTakeLastOutput`, `KeepsContract` | two workflows of three steps that have all three pauses, a wait, a tolerated failure and a conditional jump back (three results at most before the condition stops holding); two instructions, so that one may be stale when the other's pause begins; one requested pause; jumps to the start, to a negative index, to one below the range and to none; several steps store under one name |
| `straight` | `ArmedAfterTrigger`, `RetryBounded`, `RetryUncountsItsOwn`, `EveryStepRuns`, `FramesNest`, `EveryItemVisited`, `BodyReadsItsItem`, `EventuallyReturns` | workflows of three or four steps under both policies, among them a loop, a loop in a loop and a loop that ends another's body one step earlier, over lists of 0, 1 and 2 items (2 is the least number where a frame is used twice); instructions and a requested pause enough for a step to fail, pause, be retried and fail again with a stale instruction in between, and for a resume that blocks the loop with or without a thread to free it |
| `lifecycle` | `TypeOK`, `CancellationKept`, `CallbackAgrees`, `Settles` | two stop handlers, the least number where one stop can come before and one after the task's read |
| `monitor` | `TypeOK`, `SignalMeansDownload`, `NothingMissed` | three starts and three responses of two URLs: a start that leaves a callback of the previous one behind, and one more after it |
| `jobs` | `TypeOK`, `JobsMatchRows`, `RunsAreWanted` | one schedule (they share nothing but the reload), two requests in flight, each of which may fail anywhere, an expression and a zone that are refused; a schedule left out of the reload because of another's zone is in `restart` and in the theorem |
| `auth` | `TypeOK`, `OneKeyPerInvite`, `ServedMeansEntitled`, `KeysTraceToAdmins`, `AdminRemains`, `RequestsAnswered` | two requests at once, two keys (two administrators, or one and a registered key), one invitation: the least where two registrations meet, two administrators revoke each other, and a request outlives its key; a request that needs a row more fails |
| `pool` | `TypeOK`, `KeepContracts`, `ResumesReturn`, `AllServed` | one thread for two executions and a reader, so that each may wait for each other; two pauses each; `Careful` |
| `fragments` | `TypeOK`, `VersionCounts`, `NothingComesBack`, `ExpandedInPlace`, `TokensMeanTheirValues` | three requests that upsert or delete two fragments, the least where a deletion and a creation come between an upsert's select and its commit; one run at a time (runs share nothing but the table); workflows with two includes, one between steps, a name declared twice, an empty default; values that are tokens, a vault reference that exists and one that does not |
| `stale_retry`, `stop_lost`, `restart`, `blocked_loop` | one violated property each | the smallest instance that shows it |

The properties of `straight` carry their hypotheses, because without them the code
does something else, as described below. `ArmedAfterTrigger` has none.
`RetryBounded` is about workflows that run front to back (`FrontToBack`: no loop,
no conditional that goes back, no jump sent): what runs a step again may fail it
again. `RetryUncountsItsOwn` and `EveryStepRuns` need that no pause was requested,
and the second that nothing leaves the order of the steps: no loop, no
conditional, no jump sent. `FramesNest` needs that nothing has paused the
execution (`NeverPaused`) and that the bodies nest (`WellNested`: none is empty,
one that begins inside another ends before it does, no conditional leaves the
body it is in); the loops of the run nest, one has a conditional in its body.
`EveryItemVisited` needs `OnlyLoops`: besides those two, no
conditional, and bodies that lie within the workflow (`BodiesFit`). A body that
shares its end with an inner one, or reaches past the last step, is run once
however many items there are, because only the frame on top is looked at, after a
step that is the last of its body.

`TokensTakeLastOutput` is about the names that no loop uses, whatever retries, jumps
and loops run: such a name has the output of the last passed step that stores it.
`BodyReadsItsItem` is about the others: in round `m` of a loop's body its `loop_var`
has item `m` and its `loop_index_var` is `m`. It needs `OnlyLoops`, a loop whose two
names are its own (`OwnNames`), and that no loop step has failed and been tolerated
(`LoopsPass`; its body then runs once, with whatever an earlier loop left).

What the passing runs show:

- A stop takes effect after at most one more step, through any pause and any
  instruction; the counts in the database match the rows next to them; a pause is
  only ever reported while the thread waits; retries are bounded; every execution's
  thread returns, with "cancelled" exactly after a stop it obeyed, an abort or a
  time-out, and the handles are given back unless a resume that nobody will take
  blocks the event loop (what the run `blocked_loop` shows of the service as a whole).
- The loop stack cannot leak in workflows whose bodies end at different steps, and
  the steps of a body read the item and the index of their own round. A name that
  no loop uses has the output of the last passed step that stores it: neither a
  failed attempt nor one that is jumped over changes it.
- A cancellation that the background task has seen is never lost.
- A download whose callback is done is returned by the wait, time-out or not; a
  wait that the event ended returns a download, as long as the monitor was started
  once (started again, a callback that began before may set the event after the
  list was cleared, and the wait ends early with nothing).
- A schedule's job follows its row through updates, deletions and crashes. It stops
  to do so (`adrift`) when requests on the same schedule overlap, when one fails
  between its commit and the job, when its zone is refused, or when a start does
  not load it, and the job may then be one too many, too few or outdated, until the
  next update that runs alone or the next start that loads it. A job too many
  starts nothing, because the fire reads the row again.
- An invitation makes one key, whoever presents it and whatever fails half-way;
  nobody is served who was not entitled on arrival; revoking every key does not
  open the server again; an administrator remains unless two revocations overlap
  (two administrators may revoke each other: `api/auth.py` 175 refuses only one's
  own key).
- Executions that wait in the pool, paused or not, end and give their thread back,
  and the requests that read files are answered after them, which may take half an
  hour per pause.
- A fragment holds what its upserts sent and counts them, unless two of them
  overlap; then columns of both may mix and a version is lost, but nothing of a
  deleted fragment comes back. Expansion loses and doubles no step. A token has
  the value of the include, then of the override, the environment, the workflow,
  the last fragment that declares it; what is left then is the executor's.

What the violated properties show (each is a sentence of a document, a comment
or a test that the code does not keep; `PROJECT.json` quotes it):

- `stale_retry`: the mark that un-counts a retried failure survives a requested
  pause; a `continue` there leaves it to the next step that passes. The execution
  is reported completed with a failure nobody resolved.
- `stop_lost`: an acknowledged stop is lost before the task marks the row, or
  between its last read and its commit.
- `restart`: an update with a time zone alone is committed unchecked, then fails
  when the job is added; at the next start that row ends the reload, and the
  schedules after it have no job although they are enabled.
- `blocked_loop`: a second instruction ahead of a pause blocks the event loop in
  `queue.put`. If the execution returns without another pause, its clean-up needs
  the loop, and the process serves nobody any more.

More disagreements that the models contain and no run is spent on:

- Pauses. A resume is accepted while nothing is paused and ends the next pause the
  moment it begins (`pause.py` 48), while the design document (line 92) promises a
  409. A requested pause is taken before a step that has not run, and `continue`
  skips that step. A handoff, and a `continue` or `jump` out of an error pause, go
  round the loop without the iteration check (`executor.py` 779), so that a loop
  may end early or leave its frame behind.
- Loops. When an inner and an outer body end at the same step, the outer loop runs
  its body once. A conditional jump to the first step after the loop it is in
  restarts the body (the iteration check sees `jump_to - 1`, which is `body_end`).
  `skip_steps` is applied when the condition holds, while the comment in
  `schemas.py` line 75 says "steps to skip if false". A retried wait step fails at
  once, because its first attempt stopped the monitor. An invalid pattern met by
  the look-ahead ends the run.
- Ends. An exception between the launch of Chrome and the `try` leaves Chrome
  running (`executor.py` 646). A stop between the commit of running and the
  registration of the cancel event signals nobody (`executions.py` 330).
- Schedules. A refresh that fails after the commit answers 500 to an update that is
  in the database, and leaves the job as it was (`api/schedules.py` 134). A start
  whose query fails runs on without a job for any schedule (`main.py` 52).
- Fragments. The scheduler does not call `resolve_fragments` (`scheduler.py` 124),
  so a scheduled run of a workflow with directives is refused each time. An upload
  is validated as a complete workflow, so that a workflow with directives cannot be
  uploaded through the API at all; such rows have to come from elsewhere, and the
  tests call `resolve_fragments` directly. A nested include is refused. `jump_to`
  and `loop_steps` are not adjusted when a directive becomes several steps.
- Values. A value that contains a token is replaced again by a later pass: the
  value of an include by a declared variable, a declared variable's by an output.
  An include's override that is a `vault:` reference is never resolved. A
  workflow's empty default hides a fragment's that is not empty.

### Fairness

`Executor` has weak fairness on the thread as a whole: its steps have time-outs,
its pauses end after half an hour (`PauseTimeout`), and nothing it waits for is
held by another actor. `PutCompletes` and `Unregister` are the event loop's
(`OnLoop`), which has weak fairness of its own: it goes on with what is ready
whenever it is not blocked, and a `Resume` on a full slot of this execution may
block it, for good if the thread has returned. `EventuallyReturns` therefore ends in
one of two ways, unregistered or `LoopStuck`. That a resume of another execution
does not block the loop for good is an assumption here, and `EventLoop` is about when it
holds. The developer has no fairness. `EventuallyReturns` is checked on
workflows without jumps back; one that jumps back for ever does run for ever.
`RunExecution` has weak fairness on the background task and on a stop handler
once it has started, because the event loop, as long as nothing blocks it, resumes
what is ready, and every
await is of the database, of the thread or of a post with a ten-second time-out.
A statement that fails ends the coroutine (`TaskFails`, `StopFails`).
Nobody is obliged to create, stop or delete, and the process may crash at any
time.

`EventLoop` has weak fairness on each thread (the contract's steps end, a pause
included, which is what `Executor` checks), on the pool and on the coroutines
that are ready; a coroutine is ready only while the loop is free, so weak fairness
on it promises nothing while a handler blocks. `Auth` has weak fairness on the
steps of a request and strong fairness on `RegisterSelects`, which is disabled
again and again while others hold the row: PostgreSQL queues those that wait for
one. Nobody is obliged to send a request. `NetworkMonitor`, `Schedules` and
`Fragments` state safety only and assume no fairness.

## 4. Proofs

All theorems hold for every value of the constants: every workflow, every set of
instructions, every bound, any number of executions, threads, requests, keys and
fragments. All invariants the passing runs check but `BodyReadsItsItem` are theorems,
and so are `NothingMissed` and the two refinements of `RunContract`; of the
properties that runs find violated, one (`AcknowledgedStopLasts`) is a theorem under
the hypothesis its run breaks. The assumptions are the named ones, which TLC
evaluates on the instances:

| Assumption | Says |
|---|---|
| `WorkflowSteps!NoneAssumption` | `None` is no integer and no name |
| `Executor!WorkflowsAssumption`, `InstructionsAssumption`, `BoundsAssumption` | workflows and instructions are of their types, bounds are naturals |
| `NetworkMonitor!BoundsAssumption` | bounds are naturals |
| `Schedules!RejectedAssumption`, `NoneAssumption` | what is refused is an expression or a zone; `None` is neither of them and no truth value |
| `Auth!TokensAssumption` | the static token and `None` are no keys, invitations or requests |
| `EventLoop!PoolAssumption`, `InstructionsAssumption` | there is a thread, executions and readers differ, instructions are among the four actions |
| `Fragments!RequestsAssumption` | the requests are finitely many, `None` is none of them and no body or row |
| `Fragments!ContentsAssumption` | fragments and workflows are sequences of steps with declarations; environments and overrides assign texts to names; what the browser and the vault return are texts |

| Theorem | States |
|---|---|
| `ExecutorProofs!TypeCorrect` | `Spec => []TypeOK` |
| `ExecutorProofs!Cancellation` | `Spec => []CancelWithinOneStep` |
| `ExecutorProofs!SessionHonest` | `Spec => [](IdleWhilePaused /\ SessionOnlyWhileAlive)` |
| `ExecutorProofs!CountsFactual` | `Spec => []CountsMatchRows` |
| `ExecutorProofs!ContractKept` | `Spec => KeepsContract`, that is `Contract!Safety` |
| `ExecutorRowsProofs!WaitsAreArmed` | `Spec => []ArmedAfterTrigger` |
| `ExecutorRowsProofs!RetriesHonest` | `Spec => []RetryUncountsItsOwn` |
| `ExecutorRowsProofs!NoStepSkipped` | `Spec => []EveryStepRuns` |
| `ExecutorRowsProofs!PausesOnce` | `Spec => []RetryBounded` |
| `ExecutorRowsProofs!LoopsNest` | `Spec => []FramesNest` |
| `ExecutorRowsProofs!ItemsVisited` | `Spec => []EveryItemVisited` |
| `ExecutorRowsProofs!OutputsReachTokens` | `Spec => []TokensTakeLastOutput` |
| `RunExecutionProofs!TypeCorrect` | `Spec => []TypeOK` |
| `RunExecutionProofs!CancellationHolds` | `Spec => []CancellationKept` |
| `RunExecutionProofs!CallbackHonest` | `Spec => []CallbackAgrees` |
| `RunExecutionProofs!StopsInTimeLast` | `Spec /\ [][InTime]_vars => []AcknowledgedStopLasts` |
| `NetworkMonitorProofs!TypeCorrect` | `Spec => []TypeOK` |
| `NetworkMonitorProofs!DownloadsKept` | `Spec => NothingMissed`, an action property |
| `NetworkMonitorProofs!SignalsHonest` | `Spec => []SignalMeansDownload` |
| `SchedulesProofs!TypeCorrect` | `Spec => []TypeOK` |
| `SchedulesProofs!FiresAreWanted` | `Spec => []RunsAreWanted` |
| `SchedulesProofs!JobsFollowRows` | `Spec => []JobsMatchRows` |
| `EventLoopProofs!TypeCorrect` | `Spec => []TypeOK` |
| `EventLoopProofs!ContractsKept` | `Spec => KeepContracts`, that is `Contract(e)!Safety` for each execution |
| `EventLoopProofs!BlockedLoopIsHeard` | with `Careful`, always: while a resume blocks the loop, its execution is paused or its slot is empty |
| `AuthProofs!TypeCorrect` | `Spec => []TypeOK` |
| `AuthProofs!InvitesAreSingleUse` | `Spec => []OneKeyPerInvite` |
| `AuthProofs!AccessControlled` | `Spec => []ServedMeansEntitled` |
| `AuthProofs!KeysHaveAdmins` | `Spec => []KeysTraceToAdmins` |
| `AuthProofs!AnAdminRemains` | `Spec => []AdminRemains` |
| `FragmentsProofs!TypeCorrect` | `Spec => []TypeOK` |
| `FragmentsProofs!VersionsCount` | `Spec => []VersionCounts` |
| `FragmentsProofs!DeletedStaysDeleted` | `Spec => []NothingComesBack` |
| `FragmentsProofs!ExpansionsInPlace` | `Spec => []ExpandedInPlace` |
| `FragmentsProofs!TokensHaveValues` | `Spec => []TokensMeanTheirValues` |

### The executor

- Types. `TypeOK` is inductive because it says where `step_idx` denotes a step.
  The first lemmas of `ExecutorProofs` give the types of the index arithmetic.
- `Cancellation`. `CancelInv`: no late step before the event is set, and once one
  has begun the thread is in it or past a point from which only `CheckCancel`
  leads to the next. Between the check and the dispatch there is no other
  check, which is why the bound is 1 and not 0.
- `SessionHonest`. `SessionInv` ties the state of the entry to `pc`: paused exactly
  in the two states of a pause, absent outside the life of the driver. Entries
  change with `pc` in the same action, which is what the order `set_paused`,
  `queue.get`, `set_running` amounts to.
- `CountsFactual`. `CountsInv` adds that a retry mark means an uncounted decrement
  is still covered: `failed >= 1` whenever `retrying`. That is what keeps
  `failed` from becoming negative even when the mark is stale; the stale mark
  makes the count wrong (run `stale_retry`) but never impossible. `AppendCounts`
  says what one more row does to the two cardinalities.
- `ContractKept`. Each action of `Executor` is a step of `RunContract` or changes
  none of its variables under the mapping. Two invariants make the steps match:
  `OutcomeInv` (a run is not both cancelled and raising, and neither before it has
  left its loop, so that what `ending` returns can only be cancelled) and
  `CancelInv` (a step that begins after a stop is the first). `PhaseOf` computes the phase once, `Leading` says
  where an instruction leads, `Still` and `Stutter` cover what the contract does
  not see.
- `WaitsAreArmed`. `ArmedInv`: a step that is followed by a wait has the monitor
  running while it runs and, if it is the last row, until the next one. The
  second part is needed because a handoff, a pause or a retry may lie between the
  trigger and the wait; it is stated of the last row, not of `step_idx`, which
  an instruction moves.
- `RetriesHonest`. `RetryInv`: `Unresolved`, the failed rows without a later pass of
  their step, are never more than `failed`. A decrement must therefore come with a
  row that resolves one, which holds because, without requested pauses, a set mark
  means that the last row is the failure of the step at the index.
- `NoStepSkipped`. `BehindInv`: each step before the index has a row, and only an
  index at the end can be completed. `SentInv` (what the thread acts on was sent, or is
  its own abort) turns "no jump sent" into "no jump obeyed".
- `PausesOnce`. `BoundedInv`: nothing ahead of the index has failed, the step at
  the index has failed at most once if it has had its pause and not at all
  otherwise, and what is behind stays behind.
- `LoopsNest`. `NestedInv`: at every point of a round, and not only at its head, every
  frame of the stack is around the index and inside the frames below it. The
  work is in the iteration check, which looks at the top frame only: if the step
  ends the body of some frame, `WellNested` makes that frame the top one.
- `ItemsVisited`. `VisitedInv` says what is still owed: for every loop and every
  step directly in its body, the rows of the step and those to come are as many as
  the items of all the rows of the loop. What is to come (`Owes`) is read off the
  stack: the rounds left in the loop's frame, less the present one if the step is
  behind the index. An inner loop has many rows, one for each item of the outer one, so
  the items are the pairs of a row and a number up to its length; the equation is
  between the cardinalities of two sets and no sum is needed. `RoundVisits` follows
  one step that is not a loop through the iteration check, `LoopVisits` one that
  opens a frame, or is passed over because its list is empty. In the end the
  stack is empty and nothing is owed.
- `OutputsReachTokens`. `ToldInv` is the property, and that every frame on the stack
  was opened by a loop step: the iteration check writes the names of a frame's loop,
  and only so can a name that no loop uses be left alone by it.

### The lifecycle, the monitor, the schedules

- `CancellationHolds` and `CallbackHonest`. `IndInv` remembers what the task's last
  read implies: a row read as cancelled stays cancelled, because the task then
  writes no status and a stop writes only cancelled; a written row carries the
  telemetry; and after the write only a stop or a deletion changes it.
- `StopsInTimeLast`. `InTime` is a hypothesis about the steps: no stop commits
  before running is committed, nor between the task's last read and its write,
  unless that read found the row cancelled. These are the two windows of the run
  `stop_lost`, and `AckedInv` shows that there is no third: a stop once answered
  is behind the first write, and the last one comes from a read that saw it.
- `DownloadsKept`. `OrderInv`: the event a callback holds is younger than those in
  the list, so that the list is in the order of arrival without repetition.
  `HeardInv`: a callback of the present start that has appended finds its event in
  the list, and every download heard of is there; one of an earlier start is not
  required to, which is what `start` clears.
- `SignalsHonest`. `FirstInv`: in the first start nothing clears the list after a
  callback has begun, so that a set event always has its download.
- `FiresAreWanted`. `FireInv`: a fire that has loaded an enabled row was wanted at
  that moment, and one that has only fired becomes wanted as soon as its row is
  enabled; no other action withdraws it.
- `JobsFollowRows`. `JobInv` is about schedules that are not adrift: the one request
  there may be knows the row (`KnowsRow`: its loaded row until it commits, its view
  from the refresh to the job), and without one the job matches. Whatever breaks
  that knowledge (a second request, a failure after the commit, a refused zone, a
  start that leaves the schedule out) sets the schedule adrift in the same step, and
  a request that no other has overlapped knows the row again when it reaches the job.

### The pool

- `TypeCorrect`. `WorkInv`: what waits, runs and reads are finite sets told by the
  phases, and the queue holds each waiting one once; `Assign` moves one from the
  first to the second, `Append` and `Tail` are followed element by element.
- `ContractsKept`. Each action moves one execution by a step of its contract, and
  the others not at all (`Only`).
- `BlockedLoopIsHeard`. `HeardInv` is the safety half of `ResumesReturn`: while the
  loop is blocked only threads, readers' threads and the pool move, and no such step
  takes the awaited execution out of its pause with an instruction left in the
  slot. That it then does return is liveness, and the run `pool` shows it.

### Authentication

- `InvitesAreSingleUse` and `AccessControlled`. `IndInv` says of every request what
  it may still turn out to be entitled to: before the lookup, that a token found
  active now was active on arrival and an empty table was empty then; in the
  handler, that a registration is entitled unless its invitation has been spent;
  with the row locked, that the invitation is unused. It survives the actions of
  others because of `Grows`: keys, uses, revocations and expiries are never taken
  back. That one registration commits while another waits is the lock clause of
  `TypeOK`.
- `KeysHaveAdmins`. `TraceInv` carries the claim backwards: a key's invitation, the
  invitation's author and whoever is about to invite all trace to an
  administrator, revoked or not.
- `AnAdminRemains`. `LastAdmin`: without a static key and without
  overlap there is one revocation at a time,
  its caller still has an active key, and it does not revoke its own.

### Fragments and variables

- `VersionsCount`, `DeletedStaysDeleted`. `CountInv`: beside the two properties,
  `KeysInv` (a row with the primary key of a request was created by it, so that a
  deleted row's key does not come back) and `SeenInv` (an upsert that has not
  committed yet holds a version that the upserts of its row account for, unless
  the row is another).
- The three properties of runs. `RunInv` follows a run: once its fragments are
  found its steps are the expansion, once it begins each is filled with the values
  of the declared variables. What is said of a run depends on the
  environment alone, so that requests do not disturb it (`EnvOnly`).
- `FlattenSeq`, the merge of declarations and the expansion are recursive
  functions, and the theorems about them hold for sequences of any length. The
  induction they need is first-order: what is proved of each number up to `n` is
  written as a set `T` of numbers, and `Induct` (from `LeastNat`, the least element of a set of
  naturals) says that a set with 0 that is closed under successor up to `n` has
  them all; no operator is a parameter. `Folded` builds with it the sequence of partial
  results of any such recursion, `Joined` and `FlattenedInPlace` say what
  `FlattenSeq` puts where (the position of an element is the number of places up
  to its own), `MergedLast` which declaration wins.

Model-checked only:

- The liveness properties `EventuallyReturns`, `Settles`, `ResumesReturn`,
  `AllServed` and `RequestsAnswered`: they need fairness and ENABLED, which are out
  of the proof system's reach.
- `BodyReadsItsItem`, whose invariant would have to tie the value of a loop's names to
  the frame on the stack at every point of a round; the run `straight` has it for
  loops one after another and nested, with lists of up to two items.
- The four violated properties, which are false without a hypothesis. What
  `CompletedMeansResolved` becomes without requested pauses is
  `RetryUncountsItsOwn`.

## 5. Plan

In this order:

1. `BodyReadsItsItem` as a theorem.
2. The hazards without a property: the head of the loop after a handoff or a
   `continue` (`executor.py` 779), Chrome left behind by a failed set-up (646), a
   stop between the commit of running and the registration (`executions.py` 330),
   the next run computed from an overtaken row (`scheduler.py` 139).

## 6. Not modelled

- Configuration (constants read once), the schema and its migrations (run
  offline), deployment scripts, example workflows, documents and tests (read for
  what they promise), the OpenAPI surface and the HTTP framework.
- Artifacts' contents and the daily cleanup: the age limit is one day or more
  (zero disables the job, `main.py` 56) and an execution takes minutes, or half an
  hour per pause, so that a removal does not meet a live one. The requests that
  read files are in `EventLoop`.
- Upload and reads of workflows: one insert, and queries.
- `last_used_at`, `last_run_at` and `next_run_at`, which are shown and never read.
- What happens inside Chrome, the driver and the secret store: a step is its
  outcome, the vault a function.

`PROJECT.json` lists every part with its reason.
