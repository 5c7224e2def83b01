# Zuul's gate in TLA+

Zuul tests proposed changes and merges those that pass. Its heart is the
*dependent pipeline*: changes are queued in the order they will merge, each one
is tested on top of the changes ahead of it before those have merged, and when
one fails everything behind it is tested again without it. The promise is that
this speculation is invisible: "every change is tested exactly as it is going to
be merged into the repository" (`doc/source/zuul.rst`, DependentPipelineManager).

This directory holds TLA+ modules of that machinery, the TLC configurations that
check them on small instances, and proofs checked by TLAPS. All paths below are
relative to `src/`.

## Inventory

| Component | Keeps | Operations | Talks to |
|---|---|---|---|
| Change queue (`zuul/model.py`, `ChangeQueue`) | the list of items, `item_ahead`/`items_behind`, the window | enqueue, dequeue, move, is actionable, grow, shrink | called by the managers, in the scheduler thread only |
| Items, build sets, job trees (`zuul/model.py`) | builds by job name, merge state, ref, commit, unable_to_merge, failing reasons | find jobs to run, set result, skip, reset all builds | builds' results are set by Gearman's thread |
| Pipeline managers (`zuul/scheduler.py`, Base/Independent/Dependent) | queues of a pipeline, consecutive failures | add change, process queue, prepare ref, launch, cancel, report, promote, re-enqueue | source (Gerrit), merger, launcher, mutexes, reporters |
| Scheduler thread (`zuul/scheduler.py`, `Scheduler.run`) | three event queues, wake event, layout, pause/exit flags | drain management, result and trigger events, process all queues, exit, save, resume | everything |
| Layout (`Scheduler._parseConfig`, `zuul/model.py`) | jobs and metajobs, job trees, shared queues, filters | parse; find and list jobs; match a change with its votes | the managers |
| Mutex handler (`zuul/scheduler.py`) | mutex -> (item, job) | acquire, release | job search, build results |
| Launcher client (`zuul/launcher/gearman.py`) | builds by unique id, meta jobs, registered functions | launch, cancel, completion, disconnect, lost builds | Gearman; scheduler's result queue |
| Launch server and node workers (`zuul/launcher/ansiblelaunchserver.py`) | jobs, nodes, builds by node; per worker a queue of actions, flags, the running playbook | assign, revoke, stop job, pause, unpause, release, reconfigure, graceful, stop; get, run, abort, time out and report a build | Gearman, nodepool, Ansible |
| Merger client, server, merger (`zuul/merger/`) | outstanding build sets; repositories and recent commits | merge, update, complete | Gearman; git |
| Gerrit connection and source (`zuul/connection/gerrit.py`, `zuul/source/gerrit.py`) | change cache, event queue | handle event, update change, is merged, can merge, maintain the cache | Gerrit; scheduler's trigger queue |
| Triggers (`zuul/trigger/`) | Zuul trigger's handlers, timer jobs | on change merged or enqueued, timer fires | scheduler's trigger queue |
| Reporters (`zuul/reporter/`) | - | report, submit | Gerrit, mail |
| Cloner (`zuul/lib/cloner.py`, `clonemapper.py`) | a workspace | choose what to check out, map projects to places | the merger's repositories, Gerrit |
| Job times (`zuul/model.py`, `JobTimeData`) | the last run times of each job, in a file | add, estimate, load, save | build results |
| RPC, commands, web application, layout validation, swift, Ansible modules | little | I/O, parsing, rendering | - |

What makes it correct:

- *Change queue*: the list and the links, which are two different orders, stay
  consistent; the window never stops being, or becomes, a limit.
- *Managers*: a change merges only tested as merged, after what it needs, once;
  jobs start on what was prepared for them, and results count only for that;
  testing is restarted only with cause; hold jobs and the job tree are
  respected; a change in an independent pipeline has what it needs in its queue.
- *Scheduler thread*: no wake-up is lost, the queue processor terminates, every
  item leaves, an exit and a restart lose no saved event and repeat none.
- *Layout*: a job is what was last said of it; every listed job ends; shared
  queues are the components of "has a job in common with".
- *Mutex handler*: two builds with one mutex are never waited for together, and
  a mutex nobody uses is available.
- *Launcher client*: every build is answered at most once, a canceled one is
  dropped, none is lost in a table that two threads use without a lock.
- *Launch server*: what a worker reports is what happened to that build, a stop
  job finds the build while the client may ask for it, nodepool hears of every
  node whose worker ended, a stop is carried out.
- *Merger*: a commit has exactly what was asked for, whatever is reused.
- *Gerrit connection*: the cache is refreshed before the event arrives, moves
  what depends on a change to its new patchset, and has no cycles.

What is hard: Zuul has four threads that change shared state (scheduler,
Gearman, Gerrit, RPC/signals), the launch server three and two more for every
node; results are visible before their events; requests are answered after the
state they were made from is gone; steps fail in the middle and the run loop
swallows the exception; connections are lost; reports have effects that cannot
be taken back. `PROJECT.json` lists the hazards line by line, each with the
properties that cover it or why none does.

## Modules

| Module | Models |
|---|---|
| `ChangeQueueOps` | `ChangeQueue` as operators on a record `[order, ahead, behind]` and the window; the assumptions the layout validator enforces; the consistency predicate `WellLinked` |
| `ChangeQueue` | the structure on its own, its operations in any order the managers may call them |
| `Gate` | one shared queue run by a `DependentPipelineManager`: the scheduler loop, event handlers, item processing, dependencies, build sets, job trees, hold jobs, mutexes, reporting, promotion and reconfiguration, with the Gearman, merger and Gerrit threads |
| `IdealGate` | the abstract specification of the gate: tests may run on any base at any time, a change merges once, after what it needs, and only if it passed on exactly what the branch holds |
| `GearmanServer` | the Gearman server between launcher client and launch server (external: modelled from how both use it), with lost connections |
| `LauncherClient` | `zuul/launcher/gearman.py`: the scheduler thread in `launch` and `cancel`, the client thread in its handlers |
| `LaunchServer` | `LaunchServer`: its Gearman, command and reaper threads |
| `NodeWorker` | `NodeWorker`: its queue thread, Gearman thread and watchdog |
| `Launching` | the four together, from a build's launch to its answer |
| `LaunchContract` | the abstract specification of the launcher client: what the scheduler may rely on |
| `ChangeCache` | `GerritSource._getChange`, `_updateChange` and the cache, run by two threads, one query at a time |
| `IndependentPipeline` | the queues of an `IndependentPipelineManager` as operators: add, remove, process |
| `Intake` | from Gerrit's event stream through the connector, the cache and the scheduler's run loop into an independent pipeline, with exit, save and resume |
| `Layout`, `SharedQueues` | pure: jobs and metajobs, project templates and job trees, the search for jobs to run; how projects are put into shared queues |
| `Merger`, `Cloner` | pure: what a merger makes of a request with its repositories and recent commits; what a job's workspace has checked out |
| `JobTimes`, `Filters` | pure: the recorded times of a job and its file; whether a change with its votes meets a pipeline's requirements |
| `Sequential` | the change queue and the pure algorithms, with their properties |
| `MCSequential`, `MCGate`, `MCLaunching`, `MCIntake` | instances for TLC |
| `SequenceFacts`, `QueueFacts` | lemmas the proofs share: sequences, folds and recursive functions; what the operations of a change queue do, and where the walks along its links lead |
| `ChangeQueueProofs`, `GateProofs`, `PromiseProofs`, `LaunchingProofs`, `WorkerProofs`, `IntakeProofs` | theorems and their proofs |

`Gate` extends `ChangeQueueOps` and uses its operators in its handlers, so the
structure proved about and the structure the gate runs on are the same
definitions. `Gate` instantiates `IdealGate` with the trunk as its trunk and the
verdicts of the queued items as its verdicts. `Launching` extends
`LauncherClient` and `NodeWorker` (which extends `LaunchServer`), both of which
extend `GearmanServer`; a step of one program leaves the other's variables
alone, and they meet in the server's. `Launching` instantiates `LaunchContract`
with the table of builds as the pending ones and the number of answers.
`Intake` extends `ChangeCache` and `IndependentPipeline`.

### State of `Gate` and the code

| Variable | Code |
|---|---|
| `status` | what the change cache says: `is_merged`, `is_current_patchset`, whether `canMerge` holds (`"ready"`) |
| `trunk` | the branch: what Gerrit merged, in order |
| `triggers`, `results` | `trigger_event_queue`, `result_event_queue` |
| `merging` | jobs submitted to the mergers and not answered |
| `layout` | for each change the jobs that match it; which jobs are voting |
| `q`, `window` | the `ChangeQueue` |
| `item` | `item.change`; items are numbered in the order they are made |
| `bs` | `item.current_build_set`: `gen` tells build sets of an item apart, `other` is `other_changes`, `commit` the set of changes the merged commit holds, `unable` is `unable_to_merge`, `failing` whether there are `failing_reasons`, `builds` the builds' results |
| `reported` | items with `item.reported` |
| `held` | `MutexHandler.mutexes` |
| `pass` | where the scheduler thread is: asleep, draining results, draining triggers, or in a pass over a copy of the list with `nnfi` and `changed` as `processQueue` has them |
| `wake` | `wake_event` |

A build is `"absent"`, `"running"` (no result yet), `"retrying"` (finished
without a result, to be retried), or has a result.

### Actions of `Gate` and the code

| Action | Code |
|---|---|
| `WakeUp`, `EndResults`, `StartPass`, `EndPass` | the loop of `Scheduler.run` and of `processQueue` |
| `HandleResult` (`HandleBuild`, `HandleMerge`) | `_doBuildCompletedEvent`, `_doMergeCompletedEvent` and the manager's `onBuildCompleted`, `onMergeCompleted` |
| `HandleTrigger` | `process_event_queue`: `addChange`, `removeAbandonedChange`, `removeOldVersionsOfChange` |
| `DropItem`, `PrepareRef`, `LaunchItem`, `WaitItem` | the four ways through `_processOneItem`, each with `moveItem`, `cancelJobs` and (in `Settle`) `reportItem` and `dequeueItem` |
| `BuildCompleted`, `MergeCompleted` | the Gearman threads of launcher and merger client |
| `Approve`, `Withdraw`, `GoAway`, `NoticeMerge` | Gerrit events: the cache refresh and `addEvent` |
| `Promote`, `Reconfigure` | `_doPromoteEvent`, `_doReconfigureEvent` |

One call of `_processOneItem` is one step. Between items any other thread may
act, which is where the code is exposed: inside the call the scheduler reads
results and the cache once per decision. An exception in a handler ends the
iteration and sets the wake event (`Abort`), as `Scheduler.run` does; what was
assigned before the exception stays assigned.

### State of `Launching` and the code

| Variable | Code |
|---|---|
| `waiting`, `attached`, `packets`, `stops`, `functions` | the Gearman server: build jobs in its queue; jobs whose handle the client's connection knows; what is on its way to the client, in order; stop jobs in the queue; what each worker has registered |
| `launched`, `canceled`, `started` | builds asked for; with `build.canceled`; with `build.number` |
| `table`, `metaJobs`, `cache` | `Gearman.builds`, `meta_jobs`, `function_cache` |
| `scheduler`, `handler` | where the scheduler thread is inside `launch` or `cancel` (submitting, looking up, in its second of sleep), and the client thread inside `onBuildCompleted` (between the check of `canceled` and the call of the scheduler) |
| `answers` | history: what `sched.onBuildCompleted` was told, and what had really happened (`seen`) |
| `jobs`, `accepting`, `nodes`, `serving`, `ended` | `LaunchServer.jobs`, `accept_nodes`, the keys of `node_workers`, `builds`, `termination_queue` |
| `command` | where the command thread is: at its socket, draining for graceful, or stopping one worker after the other |
| `w[n]` | the worker of node n: `running` `_running`, `unpaused` the event of that name, `todo` its action queue, `queuer` and `gear` where its two threads are, `gotJob`, `runningJob`, `complete` `_job_complete_event`, `aborted` `_aborted_job`, `timedOut` `_watchdog_timeout`, `sentComplete` `_sent_complete_event`, `registered` and `pending` the functions registered and `pending_registration`, `proc` the playbook that runs, `status` and `result` |

Each action is one stretch of one thread between two points at which another
thread can be seen to act: a lock taken or waited for, a packet, a queue, an
event, a process. `Launch`, `Submit`, `Cancel`, `CancelJobInQueue` and
`CancelAgain` are the parts of `launch` and `cancel`; `OnBuildCompleted` and
`TellScheduler` the two halves of `onBuildCompleted`; `OnDisconnect` the lost
connection, with the completions the client's own thread makes of it (which it
has handled before it can notice another loss); `AssignNode` to `StopNextNode`, `PutStop` and `JoinQueue` the
server's commands; `TakeStop` to `TakeAbort` the actions a worker's queue
thread takes; `GearLoop` to `ReportJob` the life of a build on a worker, with
`AnsibleTimeout` for the watchdog.

### State of `Intake` and the code

| Variable | Code |
|---|---|
| `gerrit` | Gerrit: latest patchset, Depends-On lines and status of every change |
| `objs`, `cache` | the Change objects, and `_change_cache`, which maps number and patchset to them |
| `calls[t]`, `answer[t]` | the nested calls of `_updateChange` of a thread, each with where it stands between two queries, and what its outermost call returned |
| `events`, `hand[t]`, `triggers` | the connection's event queue, the event each thread works on, `trigger_event_queue` |
| `pc`, `wake`, `merges` | where `Scheduler.run` is, `wake_event`, merges asked for |
| `pipeline` | the queues of the pipeline, items with the object, whether live, and the stage |
| `exiting`, `boot`, `file` | `_pause` and `_exit`, how far a start has come, `queue.pickle` |
| `sent`, `handled`, `saved`, `upsets`, `exits` | ids and histories for properties and bounds |

`TakeEvent` and `Deliver` are `_handleEvent` before and after `_getChange`;
`Query` to `Updated` are `_updateChange` from one query to the next, in either
thread; `TakeTrigger` and `HandleTrigger` are `process_event_queue` around the
`_getChange` of the scheduler; `Process` is `processQueue` over all queues;
`Reconfigure` is `maintainConnectionCache`; `Exit`, `Pause`, `Die`, `Start` and
`Resume` are exit and restart.

## Properties

Queue and algorithms (`ChangeQueue`, `Sequential`):

- `TypeOK`, `LinksConsistent`, `WalksAgree`, `RateLimitKept`: types; the list
  without duplicates, `item_ahead` earlier in the list and still queued,
  `items_behind` its inverse; what `cancelJobs` reaches by `items_behind` is
  what `getDependentItems` sees by `item_ahead`; a limited window stays limited.
- `AttributesLastSaid`: each attribute of a job is what was said last of it by
  its entries or the metajobs that match it, and what was unsaid resets nothing.
- `TreesMerged`: a project's job tree has the jobs of its templates and of its
  own section and no others, each exactly where they put it if they agree, and
  in a place only once. For a job they put in different places it asks for the
  places of the last one, and allows those of the others: the manual and the
  code differ there (see Findings).
- `ListedJobsEnd`: every listed job ends, and runs only after the jobs above it
  succeeded. It does not speak of trees with a job under two parents, or below
  one that does not match the change.
- `QueuesAreComponents`: projects share a queue exactly if a chain of common
  jobs connects them; two names for a queue raise, whatever the order.
- `MergedInOrder`: a merge has its branch and the items ahead in order, however
  much of it an earlier request made and a branch moved in between.
- `WorkspaceAsAsked`: a job of a change gets the first reference there is in the
  order of the manual (`doc/source/cloner.rst:68-73`): Zuul's ref of the
  indicated branch, of master, the tip of the indicated branch, of master; and
  none only if there is none. In one case (`Contested`: Gerrit has the indicated
  branch, Zuul a ref of master only) the code takes the third before the second,
  and the property allows both (see Findings). The clone map is one to one.
- `TimesKept`: times survive a restart, estimates come from successes only.
- `VotesDecide`: a further vote only ever helps a requirement and hurts a
  rejection; at the boundary of an age it is newer or older, never both.

Gate:

- `TestedAsMerged`: at each merge, the commit the jobs ran on is exactly the
  branch and the change.
- `ImplementsIdeal`: the gate refines `IdealGate`.
- `DependenciesFirst`, `QueuedOnce`: no overtaking of a needed change; no
  change is in the queue twice.
- `LaunchedAsPrepared`: a job starts inside the window, on a commit made of the
  changes that are still ahead (they are what `ZUUL_CHANGES` tells the job),
  but for those merged since.
- `RestartsJustified`: where no report fails, a build set is replaced only when
  a change it was prepared on did not merge, and has left the queue or cannot
  pass any more.
- `TreeRespected`, `HoldRespected`, `MutexExclusive`: the job tree,
  hold-following-changes and mutexes, under moves, resets and retries.
- `NeverStuck`: when the scheduler sleeps and nothing will wake it, either the
  queue is empty or some build or merge is still out.
- `EveryItemLeaves`: every queued item leaves, under fairness.

Launching:

- `KeepsContract`: the launcher client implements `LaunchContract`: one answer
  per build at most, none once it was dropped, and only canceled builds are
  dropped, although two threads use the table without a lock.
- `NoBuildLost`: a build in the table is being submitted, queued, run by a
  worker that can still answer, or its end is under way.
- `VerdictsJustified`: what the scheduler is told is what happened: a success
  went through both playbooks undisturbed, a failure failed or timed out, a null
  result (which has the job run again) has a cause outside the job. The flags
  this rests on are set by four threads and outlive the build.
- `StartedCanBeStopped`: while the client waits for a build it has seen start,
  a stop job finds the build's worker.
- `DeadNodesReported`: nodepool has been told of a worker that ended.
- `TakenIsAnswered`: a build that a worker took leaves the table, whatever
  becomes of worker, node, server and connection, under fairness.
- `StopsAreTaken`: a stop that is put in a worker's queue is taken out of it
  (violated, see below).

Intake:

- `NeedsAcyclic`: the needs in the cache have no cycles, whatever Gerrit holds,
  however the refreshes are nested and the threads take turns. It leaves out runs
  in which a walk for cycles was overtaken (`Overtakes`): a change was given needs
  after another update had walked from what it found and before it took that for
  needs. With two threads two changes are enough for that, with one thread four,
  by a refresh nested in another (see Findings). Where both threads are at
  work and none overtakes the other, the property holds.
- `WholeWhenUsed`, `LatestNeeded`: the scheduler never gets a change that was not
  filled in, and when it has come to a new patchset and no update is under way, the
  cached changes that need it point at it. Both leave out (`NothingFailed`) the
  runs in which a query failed or a walk found a cycle, the cache was flushed while
  the connector was at work, or Zuul was restarted. After any of these the
  scheduler can get a change that is cached but not filled in: a saved event, for
  one, may come back after a restart while the connector, on a new event, has just
  cached the change (`source/gerrit.py:163-171`). While the scheduler's own update
  runs, a dependent it had to make anew (its key was dropped meanwhile) is cached
  before its needs are set.
- `HandledOnce`: no event is handled twice, and a saved one is not lost, over
  exit and restart.
- `OneVersionLive`: with all events handled, one patchset of a change is
  tested - unless an event was lost or the zuul trigger's was late: it carries
  the patchset of its time and enqueues it again.
- `QueuesCarryNeeds`: whenever Zuul sleeps, each queue of the pipeline ends in
  its one live item and holds what each of its items needs, as the cache knows it.
  Only of the live one is it all ahead: what an item that is not live needs by a
  later patchset may be queued behind it, since `_processOneItem` only looks
  whether it is there. (It takes three changes; the run has two.)
- `NeverSleepsOnWork`: the run loop does not sleep with events in its queue.

Each property has a mutant in `PROJECT.json`: a plausible bug, defined right
before the operator it would replace, that TLC finds violating the property.

## Runs

| Run | Instance | Shows |
|---|---|---|
| `sequential` | 4 items, window to 4, linear growth, exponential decrease; and for each algorithm every input of a small size | the queue's four invariants and the eight properties of algorithms; 119 thousand states |
| `gate_parallel` | 3 independent changes, window 3, one job | parallel testing: `TestedAsMerged`, `LaunchedAsPrepared`, `RestartsJustified`, and refinement of the ideal gate; 1.1 million states |
| `gate_ideal` | a change and one that needs it, 4 items, a promotion, a fault of report, submission, query or replication | refinement of the ideal gate, order, no duplicates, never stuck; 2.5 million states |
| `gate_jobs` | 2 changes, a hold job with a job below it that needs a mutex, a retry | tree, hold and mutex; 0.4 million states |
| `gate_progress` | 2 changes, any one fault, fairness | every item leaves; 0.4 million states |
| `launching` | a noop, two builds and a node; a fault, a cancel or any command of the operator at any point | the contract, no build lost, verdicts, stops, nodes, every taken build answered; 0.5 million states |
| `intake` | 2 changes, one of which needs the other, 2 Gerrit events, and a failed query, a flush of the cache or an exit and restart | the seven properties of `Intake`; 3.5 million states |
| `gate_reconfigured` | a layout that drops the failed job | finding: merged without having been tested on the item ahead |
| `gate_submit_failed` | a merge request that cannot be submitted | finding: jobs on a ref nobody made |
| `gate_non_voting` | only non-voting jobs | finding: a dropped change is submitted before what it needs |
| `gate_mutex_kept` | 3 changes, a mutex, approvals only | finding: a canceled build keeps its mutex and the gate stops |
| `launching_stopped` | graceful, under fairness | finding: a worker's queue thread ends before it takes the stop, and the launcher waits for its queue for ever |

Bounds of the gate: `Item` (items ever made), `MaxEvents` (Gerrit events),
`MaxCommands` (promotions and reconfigurations), `MaxFaults` (faults of kinds in
`Faults`); the window is bounded by the merges. Three items in a queue are the
least in which an item can be moved over a failed one while another follows it.
A failure shrinks the window to one, so the limit bites with three items in the
queue. Four items for two changes let both come back after they left, by
promotion or approval. One fault at a time reaches each error path and
everything that follows from it.

Bounds of `launching` (`Calm`): the builds are launched in order, two packets
are on their way at most, and there is one upset: a fault, a command or a
cancel, or, while only one build was launched on a worker, a fault and a cancel
together. Two builds on one worker are the least in which a flag of one reaches
the next; the second takes its node offline, and the noop never reaches a node.
With one assignment a node's worker lives once.

Bounds of `intake`: the exit is asked for where the run loop will look for it
next, with an event in its queue; something goes wrong or Zuul exits, not both;
a flush of the cache comes while the connector is at work (elsewhere the cache
is only missed). Two events make an event that comes while the first is being
handled, in the connector or the scheduler; two changes make nested updates,
refreshed dependents and cycles.

Bounds of `sequential`: jobs with up to three entries and two metajobs, trees
of up to three jobs from two templates, up to four projects with three jobs,
three items on two branches with a push or a merge in between, every
combination of what the cloner looks at, four events in a job's times, up to
one requirement, one rejection and one vote, and a further vote. The combining
of queues needs a chain of three projects for a second round; times roll over
at the third in a list of two.

Every action and every disjunct fires in some passing run. The runs set
`CHECK_DEADLOCK FALSE` because their systems may stop for good: with the bounds
on events used up, an empty queue, a stopped launcher or an input already
judged has no next step. What must not stop is stated by `NeverStuck`,
`NeverSleepsOnWork` and the temporal properties.

The passing runs leave out what the findings are about: a layout with fewer
jobs in a reconfiguration, a failed submission together with
`LaunchedAsPrepared`, layouts without voting jobs, mutexes together with resets
beyond a shrunk window, and `StopsAreTaken`. Each is the precondition of one of
the violations.

Fairness of `Gate` (`FairSpec`): the scheduler thread keeps running (a daemon
thread whose loop catches every exception); each build ends at some time with a
result and each merge is answered, since a worker that dies is reported by
Gearman's disconnect or unknown-handle callbacks (`zuul/launcher/gearman.py`,
472-478). Nothing is assumed of users: changes need not be approved. Builds
that return no result are retried without limit by the code, so
`EveryItemLeaves` counts on builds not being retried for ever: retries are
faults and bounded.

Fairness of `Launching` (`Fairness`): each thread of the two programs goes on
when it can, a stop job reaches the launch server, and a playbook ends, if need
be because its watchdog kills it. Nothing is assumed of the scheduler's wishes,
the operator, nodepool, faults, or the server handing out a job (so a build
that waits may wait for ever). `Calm` holds back a fair step only until a packet
was read; where a bound forbids a fault, the step has its ordinary outcome left.
`Intake` states no liveness: that a lost wake-up shows is `NeverSleepsOnWork`.

## Proofs

Every theorem is stated for all values of the constants that satisfy the
assumptions of the modules; TLC evaluates those in each run.

### The change queue

`QueueFacts` is about the operators on a queue, which `ChangeQueue` and `Gate`
share; `ChangeQueueProofs` has the theorems about the structure on its own
(natural window, positive floor and factors, as `layoutvalidator.py` has it;
`NoItem` not an item):

- `TypeCorrectness`, `LinksStayConsistent`, `RateLimitStays`, `WalksStayTogether`:
  `Spec => []TypeOK`, `[]LinksConsistent`, `[]RateLimitKept`, `[]WalksAgree`

The inductive invariant is `Inv == TypeOK /\ LinksConsistent /\ RateLimitKept`.
`LinksConsistent` is inductive only as a whole: that the item behind keeps an
earlier item ahead when its predecessor leaves needs that predecessor's own
`item_ahead` to be earlier (`AheadIsEarlier`), that the right items are
re-linked needs `items_behind` to be the inverse (`BehindIsInverse`), and that
the removed item is nowhere needs that it was in the list once
(`OrderIsInjective`). `EnqueueKeepsLinks`, `DequeueKeepsLinks` and
`MoveKeepsLinks` prove it operation by operation; `UnlinkProperties` is the part
dequeue and move share.

`WalksAgree` speaks of two recursive walks, and follows from `LinksConsistent`
alone. Induction as the library states it is out of the prover's reach (its
theorems take an operator), so it is stated for sets: a set of natural numbers
that is not empty has a least element (`LeastNumber`), hence a set that contains
each number whose predecessors it contains has them all (`SetInduction`). With
the position in the list for the number, `AlongAhead` and `AlongBehind` say the
same of items: a set that contains an item when it contains the one ahead, or all
those behind, contains every item. The other half of such an argument is that a
recursive function exists at all (`RecursionExists`); `FoldExists` and `FoldKeeps`
follow, and are what the proofs about `FoldLeft` cite.

### The gate

`GateProofs`, for all changes, dependencies, jobs, layouts, bounds and faults
(the changes and items finite, the dependencies acyclic; `Idle` neither a change
nor an item and job):

- `LinksAreConsistent`: `Spec => []LinksConsistent`
- `QueuedAtMostOnce`: `Spec => []QueuedOnce`

Both need the recursion of `addChange`. `AddOneAnswers` says of one call: if the
calls it makes keep the changes queued before in their places and bring none in
twice, so does it; `AddChangeAnswers` carries that through every depth, and
`AddedAgainIsDistinct` through the changes a promotion adds again. `QueueInv`, the
inductive invariant (`GateInvariance`), says besides that items are made in the
order of their numbers (`ItemsMade`), so that a new one is not queued yet, and
that a pass is `Orderly`: what it has yet to process is still queued in the order
of the list, behind the nearest item that is not failing. Without the last, an
item might be moved behind one that comes after it; that the pass runs over a
copy, from which nothing is taken when an item is dropped or reported, is why it
has to be said.

With the same assumptions and that `MutexOf` gives each job a mutex
or none:

- `MutexesExclude`: `Spec => []MutexExclusive` (by `MutexInvariance`)
- `TypesAreKept`: `Spec => []TypeOK`
- `TreesAreRespected`: `TreesClosed` implies `Spec => []TreeRespected`

`MutexExclusive` alone is not inductive. That two running builds do not share a
mutex follows from `RunningHolds`: the holder `held` names is the one running
build. Launching keeps it (`LaunchKeepsHolders`) because `acquire` takes a mutex
only when it is free, or from a build that has a result, or for its holder, whose
build is then absent. Releasing keeps it only if the build whose result is handled
no longer runs, which is `ResultsAreOld`: a queued result of the current build set
speaks of a build that does not run. And that holds only because the scheduler
handles all results before it processes the queue: while it handles triggers or
the queue, the place of such a build is not absent, so the job cannot be launched
again before the retry was handled. The other steps are sorted by what they do to
build sets: `Tamer` (nothing is launched or forgotten), `Steady` (something absent
may be launched) and `NothingStarts` (something may be forgotten), each with the
lemma that carries the invariant over. The faults of the merger and of reporting
need nothing of their own: `Settle` only cancels (`SettleIsTamer`).

`TypesAreKept` needs `GateInv` (an item that is processed has a change) and that
what is merged in a build set comes from the merge it asked for (`SetsTyped`).

`TreeRespected` is lost by whatever takes a success away from above a running
job: a retry handled late, a conflict reported late, a build dropped by a
reconfiguration. `TreeInv` therefore says three things. The trees are rooted, for
jobs that succeeded too (`TreeSet`), or a retry could launch a job below one that
is gone. No job is live before its merge was answered, and a merge is asked for
once and answered once (`Outstanding`), so that no conflict comes when jobs run.
And the retry of a build is handled before its job can succeed again. `Keeps` is
what cancels, resets, skips and verdicts do to a tree. TLC checked `TreeInv` as an
invariant of the bounds of `gate_jobs`, with a reconfiguration, before it was
proved. `TreesClosed`, that a layout gives no change a job without the jobs above
it, is needed: `filterJobs` tests each job by itself, and `_doReconfigureEvent`
drops the builds of jobs that no longer match (`scheduler.py:846-852`), which
leaves a job running whose parent's build is gone.

As long as no other configuration is installed:

- `HoldsAreRespected`: `Spec /\ [][\A new \in Layouts : ~Reconfigure(new)]_vars =>
  []HoldRespected`

A build with a job that holds following changes above or beside it is checked once,
when it is launched (`getJobsToRun`); after that only moves, resets and results
ahead of it could break the promise. `Holds` says that a build runs only where the
hold jobs of `Up` have succeeded, `Up(x, i)` being the items on the chain of
`item_ahead` of `i` in `x`. A step `Loosens` when it starts nothing and leaves what
still runs behind no other item, none of which lost a success. Everything but a
launch does: `cancelJobs` stops an item with all that is behind it before the item
is moved (`CancelLoosens`), an item that leaves had succeeded or takes the builds
behind it along (`DequeueLoosens`), and a retry or a late result concerns a job that
had not succeeded yet, which is part of `TreeInv` (`HandleResultHolds`). A launch
passes the items ahead one by one (`LaunchHolds`). The condition is necessary: a
reconfiguration enqueues all items anew, each behind the one before it in the list.
An item that was moved past a failing one, and runs, is behind it again, and
nothing stops its builds. TLC shows it in the bounds of `gate_jobs` with one
reconfiguration and jobs that do not depend on each other.

### The promises of the gate

`PromiseProofs` proves the action properties of the gate and the refinement, under
the assumptions of `GateProofs`, of a gate that is `Reliable`, and as long as no
other configuration is installed. With
`Steady == [][\A new \in Layouts : ~Reconfigure(new)]_vars`:

- `MergedAsItWasTested`: `Reliable` implies `Spec /\ Steady => TestedAsMerged`
- `NeedsMergeFirst`: `Reliable` implies `Spec /\ Steady => DependenciesFirst`
- `JobsRunOnWhatWasPrepared`: `Reliable` implies `Spec /\ Steady => LaunchedAsPrepared`
- `TheGateIsIdeal`: `Reliable` implies `Spec /\ Steady => ImplementsIdeal`

`Reliable` says that every gated change has a voting job in every layout, and that
of the faults only refused submissions, merges that do not show and builds that
have to be retried occur. Each condition is there for a reason. A gate without a
voting job lets a dropped item through (`gate_non_voting`); one that fails to send
a merge request keeps a ref it never asked for (`gate_submit_failed`); after a
reconfiguration builds go on behind other items (`gate_reconfigured`). The two
faults left, a query that raises in the middle of a report and a reporter that
fails after Gerrit merged, make an exception of the invariant: a change that is in
the branch is still in the queue, or still ready. With one of either
(`gate_ideal`) TLC finds no violation, nor with two in the same bounds; that they
do no harm is not proved.

None of the properties is near to inductive: the commit of an item was asked for
long before it merges, and between the two, items ahead fail, leave, merge or are
moved. The inductive invariant (`WholeInvariance`) is `WholeInv`, with `TypeInv`
and `TreeInv`:

- `SetsInv`, `OwnInv`: the fields of a build set go together with its requests. The
  commit has what the set lists (`other`) and nothing but that and what had merged;
  an answer on its way for the current set says the same; every build has one
  result, and is not forgotten before that is handled.
- `OrderInv`: what is in the branch and what Gerrit says is merged are the same
  (`TrunkInv`); what an item needs is queued before it, merged or gone for good
  (`NeedsOrder`, `GoneTriggers`); and in a pass all items processed so far are
  failing but for one line of items, the `Spine` (`SpineInv`), behind which the
  next is put.
- `WorthInv`: an item whose test has begun is `Sound`, or `Off`, or `Torn`. It is
  sound if it lists what it is behind, up to what has merged (`Based`), all else
  before it is failing or begins anew (`Backed`), and its commit has all that has
  merged, or its jobs have failed for good (`Telling`). It is off if this pass has
  yet to move it, and torn if it needs a change that can no longer be there.
  And an item that others are tested with is failing only if its jobs did.

The delicate steps are those between which items are neither sound nor reset. An
item that fails for a change it needs (`StaysCanceled`) stays in the queue with its
ref and its test canceled, and so do those behind it: they are torn, and stay so
(`TornStays`, `TornWithout`), until they are dropped. An item that fails by its jobs
leaves those behind it `Off`, until the pass comes to them. When a change merges,
what is behind it keeps a test that had it (`SoundStays`), and nothing else can be
sound, for all before it in the queue was its `Spine` (`MergedAsTested`).

For `TheGateIsIdeal`, `Passed` only grows by the last successful build of an item
(`BuildIsIdeal`); whatever else happens, no item that had not passed does
(`OnlyBuildsSay`), which needs a voting job, for an item with none passes with its
merge; and a merge is one of `IdealGate` (`MergeIsIdeal`). TLC checked the parts of
the invariant in the bounds of `gate_ideal` and `gate_jobs` before they were proved.

### The gate stays awake

- `TheGateStaysAwake`: `Reliable`, `TreesClosed` and `\A j \in Job : MutexOf[j] = NoMutex`
  imply `Spec /\ Steady => []NeverStuck`

Nothing starts the scheduler again but an event, so whenever it sleeps on a queue
that is not empty something must be out. The first item of the queue has it: it is
tested on top of nothing, behind no failing item, inside the window and where it
should be (`FirstStands`), so whenever a pass leaves it as it was, it has asked for
its merge, runs a job or waits for an answer. Two invariants on top of `WholeInv`
carry this.

- `OwedInv`: what an item waits for is going to come. While its merge is `PENDING`,
  the request or the answer is out; for every build to be retried, and every failed
  one with a job below it that was not skipped yet, the result is in the queue;
  and nothing above a job to be retried waits for a retry itself. The last part is
  what makes the others inductive, for a retried job is `absent` again once its
  result is handled, below jobs that could still have to be skipped or retried.
- `AwakeInv`: a result in the queue has set the wake event or is about to be
  handled; and in a pass that has changed nothing, with no wake-up since, the first
  item, if it was processed, is `Busy`. `EndPass` then hands that to the sleep.

If the jobs of the first item are not complete, one of them runs (`SomethingRuns`):
take a job that was not started with no such job above it (`TreeAssumption`: what is
above a job is a path of the tree). All above it are settled; none was canceled,
for a first item that has been processed in its place is `Calm`; none was skipped,
for a job below it would be too (`Carried`); none has failed or is to be retried, for
its result would be in the queue (`Owed`). So they have succeeded, the job may run,
and it is launched: here it matters that no job needs a mutex. A build set that is
replaced while it holds one keeps it (`gate_mutex_kept`), and then the jobs that
wait for it are never launched. A set whose merge failed has all its jobs skipped, and
leaves. The argument rests on `WholeInv`, and so on its conditions; that the gate
also stays awake through a reconfiguration, a reporter that fails or a query that
raises is only checked (`gate_ideal`).

### Work is thrown away only with cause

- `RestartsAreJustified`: `Reliable` and `"unseen" \notin Faults` imply
  `Spec /\ Steady => RestartsJustified`

A merge that does not show in the repository has the items behind it reset although
the change did merge, so `"unseen"` is excluded; submissions that are refused and
builds that give no result are not. What is behind an item that leaves without merging,
or is removed, is reset because that change is gone (`GoneExcuses`: a build set lists
every change it is behind, `Listed`). The hard case is a move: `_processOneItem` moves
an item whenever the nearest item that is not failing is not the one ahead of it, and
the code nowhere asks whether the item that was ahead is any worse for it. It is,
because of where items stand (`CauseInv`):

- an item whose test has begun, or that is on the `Spine`, is `Justified`: it is behind
  one that has `Failed` (a voting job did, and nothing of it was canceled), or it is
  `Placed`, behind all the items before it but those that are set aside.
- an item is set aside (`SetAside`) in a `Line` of items if it needs a change that is
  neither merged nor in the line, or has failed behind just those of them that come
  before it. No item of the line is itself without what it needs.
- during a pass the `Spine` is such a line among the items that were processed.

What is set aside is said without `failing`, for that flag comes and goes: an item is
marked failing for a change it needs, and is not any more once that change begins
anew behind other items. So a `Placed` item is never the one to be moved or to fail for what it needs
(`CanceledForCause`, `MovedForCause`): it would have to be off the spine, or need what
is set aside. When a job fails, the item stays `Placed` and those behind it get their
cause; when an item moves to the end of the spine, the line says that all it passes
over are set aside (`LaterOnLine`); and when a change merges, no test had set it aside,
and what is before it in the queue does not need it (`MergedKeepsCause`).

### The launcher

`LaunchingProofs`, for all builds, jobs, nodes, configurations, commands, bounds
and faults (each build has a job; `NoNode` is neither a node nor a build; the
configurations list nodes and jobs, `LaunchAssumption`):

- `ContractKept`: `Spec => KeepsContract`, that the detailed specification
  implements `LaunchContract` (by `LaunchInvariance`)
- `VerdictsAreJustified`: `Spec => []VerdictsJustified`

The initial states map to the contract's, and every step to a step of the
contract or a stutter: `Launch` to `Ask` or `Refuse`, `Cancel` to `Withdraw`,
`TellScheduler` and a failed `Submit` to `Tell`, a removal from the table
without a word to `Forget`. The hard parts are that an answer is the first
(`Outstanding`: what is in the table was not answered, and what the client
thread is about to answer is still in the table, although `CancelJobInQueue`
takes builds out of it in another thread) and that `Forget` only meets canceled
builds. The first needs `QueuedOrInHand`: a build that can still be taken out of
the server's queue was grabbed by nobody and has no end under way, through lost
connections and workers that shut down; and `Unasked` and `Submitting`, that
nobody can speak of a build before it is submitted. The second needs
`LookedFor`. Of the launch server the argument needs only `LauncherKeeps`,
proved action by action: a worker gets a build only out of the queue, and
reports only the build it has.

For the verdicts, `VerdictInv` says of each worker's record (`Sound`) that its
flags are true (`FlagsTrue`: the watchdog's flag stands for a timeout in the
worker's life, the abort flag, while a build runs, for an abort of this build),
that the status after the job playbook says how it ended and that a watchdog
that fired later killed the post playbook (`StatusTrue`), and that the result is
justified from the end of the playbooks until it is reported (`ResultTrue`); and
that whatever is on its way to the client is justified (`Truthful`). It uses
`LaunchInv` for the answers of two threads. That the abort flag is reset at the
start of each build is needed; that the watchdog's is not is why the theorem
allows a `FAILURE` after any timeout of the same worker, but no `SUCCESS`.

`WorkerProofs`, with the same assumptions:

- `NoBuildIsLost`: `Spec => []NoBuildLost`

The inductive invariant `LossInv` adds two facts to the property. A worker that
waits in `getJob` is connected (`Sane`), so that whoever grabs a build can answer
it. And an end that is under way of a build whose connection is gone is one of
the notices the client itself made of the loss (`LateNotices`), so that a second
loss, which is only noticed when those are handled, drops no last word of a
build. The steps of the launch server and its workers all satisfy `Delivers`:
whoever lets go of a build that the connection knows says so, nothing that was
under way disappears, and whoever takes a build out of the queue has it. Most
changes of a worker are `Steady` and keep its build; the ones that are not
report it (`LaunchBuild` of an unknown function, `ReportJob`) or close the
connection, upon which the server reports it (`Shutdown`). `LostPackets` shows
that a loss leaves a notice for every outstanding build of the connection.

The same module has the theorems about the workers:

- `LaunchingTypeOK`: `Spec => []TypeOK`
- `DeadNodesAreReported`: `Spec => []DeadNodesReported`
- `StartedBuildsCanBeStopped`: `Spec => []StartedCanBeStopped`

The invariant says of each worker that it is `Good`, where its two threads are
and what its queue holds: its record is `Typed`; `Owed`, nodepool is told of a
thread that ends; `OnDuty`, a worker with a build is served by its queue thread,
unless a stop is under way in it; `WillStop`, the actions that end it are in its
queue, in order; `WaitedFor`, a command that joins the queue has put its action
there. Between workers and server it says that `LaunchServer.builds` names the
worker that has a build (`Served`), that no two workers have one build
(`TakenOnce`), and that a build the client has seen start was taken
(`StartedIsTaken`). The last theorem uses `NoBuildIsLost`: a build that was
started and waited for is with a worker, since it is in no queue any more. An
earlier form of the property claimed a worker whose queue thread is alive
without exception; the step of the proof that puts a stop in the queue failed,
and the trace it leads to, a worker that has ended its queue and still has its
build to report, is what the property now allows.

### The intake

`IntakeProofs`, for all changes, needs and bounds (`NeedsAssumption`: what a
change needs are changes):

- `NoSleepOnWork`: `Spec => []NeverSleepsOnWork`
- `ChangesAreWhole`: `Spec => []WholeWhenUsed`
- `EventsAreHandledOnce`: `Spec => []HandledOnce`
- `NeedsAreCarried`: `Spec => []QueuesCarryNeeds`
- `OneVersionIsTested`: `Spec => []OneVersionLive`
- `NeedsHaveNoCycle`: `Spec => []NeedsAcyclic`
- `LatestIsNeeded`: `Spec => []LatestNeeded`

The first needs no types: `LoopInv` says that whenever the loop is asleep or
looks at results, an event in its queue means that the wake event is set or the
events are still looked at in this turn, and that the scheduler holds an event
only while it handles one.

The others rest on the types of the cache (`Typed`). `CacheOk(m)` says of the m
objects made so far that needs, keys, calls and answers refer to them, and of what
each thread holds that it is `Good`: only its last call may still be asking, and
every other one has filled its change in (`Stacked`); a key leads to the object of
this number and patchset (`Named`); and a cached object is filled in or being
asked for by one of the threads (`Filled`). Every part of `_updateChange` is a
`Moves` of one thread: it keeps `Good`, whatever the other thread asks for, and
takes nothing from what is filled in. An exception is the hard case: it drops the
keys of all changes its calls were asking for, which is just what `Filled` needs.
`AddedIsTyped` carries the types through `addChange`, to the depth at which it
gives up.

`WholeWhenUsed` holds because an event reaches the scheduler after the refresh of
its change. `WholeInv` follows the keys of the events: while no query has failed
and no walk found a cycle, the cache was not flushed and Zuul not restarted
(`NothingFailed`), the change of an event in the trigger queue or with the scheduler
is cached and whole (`Informed`, `Complete`), the zuul trigger's events included,
late or not, since their changes are dependents, which were refreshed (`Listed`,
`Known`). So the scheduler never has to ask Gerrit itself in such a run, unless the
connector's call just ended with an exception: both threads are at work together
only in the runs that are left out.

`HandledOnce` counts: with `Total(n)` the places event n is in, `CountInv` says
there is one at most, none if it was handled or not yet sent, and one ahead of the
scheduler if it was saved, in the file until it was loaded. The lemmas on `Count`
say what a queue's head, tail, append and concatenation make of it.

`QueuesCarryNeeds` is inductive with three other facts. `PipeInv`: the pipeline is
made of queues of which only the last item may be live, which `addChange`, nested
to any depth, and every removal keep (`AddedIsTyped`, `ItemRemoved`). `StrictInv`:
no change needs one of its own number, so that an item is never what it needs
itself; `_updateChange` must show that of each change it gets, which is what the
history of its walk is for (`Careful`). And `processQueue` stops only when it
changes nothing, so a pass over each queue has then left all items where they were
(`PassIsOk`, by induction over the items: `PassOk` says how far it has come;
`ProcessIsOk`, by induction over the queues). While Zuul sleeps no thread changes
an object, for a thread in an update has an event in its hand (`QuietStep`).

`OneVersionLive` speaks of the moment when no event waits; its invariant says what
the waiting ones still owe. `InLine`: while nothing was lost, the events of Gerrit
on their way (`Waiting`) stand in a line in the order of their numbers, the one in
the scheduler's hand first and the connector's queue last, however the events of the
zuul trigger fall between them (`Rising`, `Before`, `LineStep`). Of those that are
due, `Announced` says that each names a patchset there is, and that a later one of
its change has an event behind it; `Expected` says that the live items test
different keys, and that every patchset newer than a tested one is still announced
by an event that is due (`NewerDue`). So when the first of the line is handled
(`HandledAsExpected`), the change's live item of another patchset - there is one at
most - is older than the one that arrives, `removeOldVersionsOfChange` takes it out
(`OldIsGone`), and what is added is as new as its event. Any other step lets items
only leave (`Left`: what stays tests what it tested) or sends an event that
announces the patchset it makes (`SentIsAnnounced`). With nothing due, each live
item tests the latest patchset of its change, and no two test the same.

`NeedsAcyclic` needs to know what a call that still collects needs has made sure of:
that no walk from what it has got comes to its own change. `Apart` says so by a set
that holds the one, not the other, and needs nothing outside of it, so that neither
paths nor induction are needed; `WalkIsClear` gets that set from `HasCycle`. Then
`NeedsTaken`: a cycle that the new needs close would go on from one of them, and
inside its set, without the change, there would be a cycle before. `Circleless` is
inductive with `StrictInv`, since only `_updateChange` with its history puts the
change's own number on the walk (`Careful`). Every step but the assignment of new
needs is `Calm`: no change needs more than it did, and what was apart stays apart
(`ThinnedApart`). The assignment may end that for other calls, which is when it
overtakes them; if it does not, no other call has anything to be sure of yet
(`NoneOvertaken`). The proof is how the restriction was found: an earlier form, which
left out only both threads at work at once, was false, for the assignment of a nested
refresh does the same to the calls around it.

`LatestNeeded` rests on two invariants. `DatedInv`: nothing Zuul has got hold of, an
object, a key to look up or the key of a waiting event, is newer than Gerrit, so that
a patchset just uploaded is in no cache, call or event yet (`FollowedBefore`).
`LatestInv` speaks of each open change whose latest patchset's event is with the
connector (`Arriving`) or has come to the scheduler (`Arrived`), under the conditions of
`WholeInv`, by which at most one thread is at work. All calls heed it (`Heeding`): the call of a dependent has the
patchset among what it will look up, among what it found, or coming from the call it
has made. And every cached dependent is cared for (`Cared`): it follows, or a call
works on it that has yet to set its needs; before the event has arrived it may also
still be planned for by the connector's outermost call (`Planned`). Each part of
`_updateChange` keeps that (`Attends`, from `Keeps` and `Plans`), and an exception
drops what was worked on. When the connector's call returns nothing is planned any
more, so the event goes on with every dependent cared for (`FollowedMoves`,
`FollowedStill`), and once no call is left, cared for means that it follows. An
earlier form of the property left out only the connector's updates; it was too
strong, since the scheduler's may have a new object in work that has no needs yet.

### What is only model-checked

Of the gate, that the promises hold with the faults `Reliable` excludes but no finding
is about, and that it stays awake with them or through a reconfiguration. The properties of
`Sequential`: its modules declare recursive operators (job trees, queues combined
until nothing changes), with which the prover has no SMT backend. `EveryItemLeaves`,
`TakenIsAnswered` and `StopsAreTaken` are liveness, which it cannot do.

## Findings

Five runs expect a violation; `PROJECT.json` quotes the line each one
contradicts. `gate_reconfigured` (`scheduler.py:1362`): builds survive a
re-enqueue behind other items. `gate_submit_failed` (`scheduler.py:1490`): a ref
is named before the request for it is sent. `gate_non_voting` (`model.py:196`): a
dropped item with no voting jobs is a success. `gate_mutex_kept`
(`scheduler.py:1543`): canceled builds keep their mutexes. `launching_stopped`
(`ansiblelaunchserver.py:648`): `stop` ends the queue thread before its action is
in the queue, and waits for the queue.

Seen on the way, without a run of their own:

- The manual (`doc/source/cloner.rst:68-73`) and the cloner's docstring
  (`cloner.py:127-134`) try the Zuul ref of master before the tip of the
  indicated branch; the code (`cloner.py:172-207`) tries the fallback branch's
  ref, which is the indicated branch itself where Gerrit has it. `Cloner` has
  what the code does; `WorkspaceAsAsked` holds the code to the manual's order in
  every other case.
- The manual (`doc/source/zuul.rst:1004-1007`) says of a job that two templates, or a
  template and the project, specify that the last template or the project takes
  priority. `add_jobs` and `addJob` (`scheduler.py:567`, `model.py:548`) do so by
  making them one job where they put it in the same place; put in different
  places (below another job in one, on its own in the other) it stays in both, and
  runs as soon as one of them lets it. `TreesMerged` allows that, and what the
  manual says.
- `getJobs` lists a job that matches a change below one that does not, but
  `_findJobsToRun` (`model.py:154`) never comes to it: the item waits for it for
  ever. `ListedJobsEnd` leaves such trees out.
- A periodic job with `--branch` has no Zuul ref and fetches the merger's own
  head of the branch (`cloner.py:167`), which may be old.
- `lookForLostBuilds` cannot find anything: `handleStatusRes` takes the keys of
  the table for builds.
- A cycle can be missed for a while. `detect_cycle` walks from each change that
  is found (`source/gerrit.py:317`), but the needs are assigned after all were found
  (`source/gerrit.py:320`). Another update in between, the other thread's or that
  of a dependent refreshed on the way (`source/gerrit.py:342`), walks on the old
  needs and finds no cycle either. The case with one thread that TLC found: A and B
  need each other and both need C and D. In the update of A, C brings up a refresh
  of B, which has walked from A and goes on to D; D brings up a refresh of A, which
  gets B. What would now find the cycle, a refresh of B as a dependent of A, finds
  a new patchset of A that needs nothing; and then the first B takes the old A. The
  cycle stays until the event of the new patchset has B refreshed; the manual says
  that Zuul aborts "very early" (`doc/source/gating.rst:468`).
- The Zuul trigger's events carry the patchset of the moment they were made;
  one that is late brings a replaced patchset back into the pipeline.

## Abstractions

- Gate: start events and start reports, statistics, texts of reports, the
  requirement filters of a pipeline (`changeish_filters`) and the Zuul
  trigger's notifications are left out: they do not feed back into its state.
- Gate: one pipeline with one queue. `Gated` says which changes belong to its
  projects and is fixed; a reconfiguration that moves projects between queues,
  or drops them, is not modelled. A commit is the set of changes it contains; a
  merge succeeds or conflicts as it pleases. Only Zuul adds to the branch.
- Gate: `status` is both Gerrit's state and the cache of it; a vote the cache is
  late to see shows as a refused submission (the cache of its own is `Intake`).
  `needs_changes` is constant and acyclic; the order of changes in such a list
  is one fixed order.
- Gate: what happens between `launch` and a result is one step; `Launching` has
  it in full. Exceptions of `launch` become answers there. `addChange` calls
  itself at most n(n + 1) deep for n changes: a change is queued before the
  changes behind it are added, and between two such calls those for changes
  ahead follow acyclic needs.
- Launching: a build's parameters, its description and the time between updates
  are left out. A playbook ends in one of the exits the code tells apart. The
  ZMQ events are only followed as "nodepool was told of the end".
- Intake: the merger client's table of build sets is a count that goes down with
  the result; in the code the entry is deleted after the scheduler was told, so
  that an exit can wait for ever (listed as a hazard). Builds and merges are a
  step each. Needs are those of Depends-On lines. `addChange` fails when its calls
  are nested deeper than there are objects; in the code it is Python that gives
  up, and without a cycle it cannot be nested so deep.
- Layout: four kinds of attribute stand for all (set, set only if true,
  replaced, accumulated). Filters: one pattern of votes stands for the others.

## Not modelled

Timer trigger, RPC, layout validation, the commands' start-up, connection
registry, swift, command socket, web application, status page and the Ansible
modules: I/O, argument checks and rendering, whose state is none or the
operating system's. Of modelled parts: disabling a pipeline after consecutive
failures and several queues of one pipeline at work; the matching of events by
regular expressions; the recovery of a broken clone and cherry-picking apart
from merging; `project-change-merged` events; the merger worker of the launch
server; pausing by reconfiguration. Hazards known but without a property, beyond
those listed: a release of a worker that was paused on purpose can wait for its
lock for ever (`ansiblelaunchserver.py:660`); `meta_jobs` grows when a stop
could not be submitted (`gearman.py:501`); a configured window below the floor
grows on a failure (`model.py:418`); the count of failures that disables a
pipeline is compared with `>=` (`scheduler.py:1758`); `getRelatedChanges` does
not end on a cycle.

## What could come next

- The dependent manager on top of `ChangeCache`, so that needs change while a
  change is in the gate.
- Several node workers and reassigned nodes in one run of `Launching`, in
  bounds that keep it small.
- Proofs: the promises of the gate with queries and reporters
  that fail; the theorems of `IdealGate` (the branch has no duplicates and is closed
  under needs); the pure algorithms, once they are
  written with recursive functions.
