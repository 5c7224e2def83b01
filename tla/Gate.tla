-------------------------------- MODULE Gate --------------------------------
(***************************************************************************)
(* A gate: one shared change queue run by a DependentPipelineManager       *)
(* (zuul/scheduler.py, BasePipelineManager and DependentPipelineManager),  *)
(* with the scheduler's run loop that drives it, the builds and merges it  *)
(* asks Gearman for, and Gerrit.                                           *)
(*                                                                         *)
(* Five threads meet here.  The scheduler thread runs the loop: it drains  *)
(* its event queues and then processes the queue item by item.  Between    *)
(* any two of its steps the Gearman threads may finish a build or a merge  *)
(* (a build's result is visible at once, its event is handled later), the  *)
(* Gerrit thread may refresh what Zuul knows of a change and queue an      *)
(* event, and an operator may ask for a promotion or a reconfiguration.    *)
(***************************************************************************)
EXTENDS ChangeQueueOps, FiniteSets

CONSTANTS
  Change,          (* the changes; a patchset is a change of its own        *)
  Needs,           (* Needs[c]: change.needs_changes                        *)
  Gated,           (* the changes to the projects of this queue             *)
  Job,
  JobOrder,        (* the jobs in the order of the layout                   *)
  Above,           (* Above[j]: the jobs above j in the job tree            *)
  HoldJobs,        (* jobs with hold-following-changes                      *)
  Mutex,
  MutexOf,         (* job.mutex                                             *)
  NoMutex,
  Layouts,         (* the configurations a reconfiguration may install      *)
  FirstLayout,
  Idle,            (* no change: an item not yet made; nobody: a free mutex *)
  Faults,          (* the faults of the services around the gate that occur *)
  MaxFaults,       (* bound: how many of them                               *)
  MaxCommands,     (* bound: promotions and reconfigurations                *)
  MaxEvents        (* bound: Gerrit events                                  *)

(* A layout gives the jobs that match each change and says which jobs are  *)
(* voting.                                                                 *)
ASSUME LayoutAssumption ==
  /\ FirstLayout \in Layouts
  /\ Layouts \subseteq [jobs : [Change -> SUBSET Job], voting : SUBSET Job]
  /\ Gated \subseteq Change /\ IsFiniteSet(Change)

(* The dependencies between changes form a DAG (source/gerrit.py rejects   *)
(* cycles): every set of changes has one that needs none of the others.    *)
ASSUME NeedsAssumption ==
  /\ Needs \in [Change -> SUBSET Change]
  /\ \A S \in SUBSET Change : S # {} => \E c \in S : Needs[c] \cap S = {}

ASSUME ItemAssumption == IsFiniteSet(Item) /\ Item = 1 .. Cardinality(Item)

ASSUME IdleAssumption == Idle \notin Change /\ Idle \notin [item : Item, job : Job]

ASSUME JobAssumption ==
  /\ JobOrder \in Seq(Job) /\ ToSet(JobOrder) = Job
  /\ Above \in [Job -> SUBSET Job]
  /\ HoldJobs \subseteq Job
  /\ MutexOf \in [Job -> Mutex \cup {NoMutex}]
  /\ Faults \subseteq {"refused", "reporter", "unseen", "query", "submit", "retry"}
  /\ MaxFaults \in Nat /\ MaxCommands \in Nat /\ MaxEvents \in Nat

(* What is above a job is a path of the job tree: with a job come the jobs *)
(* above it, and every set of jobs has one with none of the others above.  *)
ASSUME TreeAssumption ==
  /\ \A j \in Job : \A k \in Above[j] : Above[k] \subseteq Above[j]
  /\ \A S \in SUBSET Job : S # {} => \E j \in S : Above[j] \cap S = {}

VARIABLES
  status,          (* what the change cache says of each change             *)
  trunk,           (* what Gerrit has merged, in order                      *)
  triggers,        (* trigger_event_queue                                   *)
  results,         (* result_event_queue                                    *)
  merging,         (* merge jobs submitted to the mergers                   *)
  layout,
  q,               (* the change queue                                      *)
  window,          (* its window                                            *)
  item,            (* item.change                                           *)
  bs,              (* item.current_build_set                                *)
  reported,        (* items with item.reported                              *)
  held,            (* MutexHandler.mutexes                                  *)
  pass,            (* where the scheduler thread is in its loop             *)
  wake,            (* wake_event                                            *)
  faults, commands, events (* how much of each bound is used               *)

gerrit == <<status, trunk>>
scheduled == <<q, window, item, bs, reported, held>>
bounds == <<faults, commands, events>>
vars == <<gerrit, triggers, results, merging, layout, scheduled, pass, wake, bounds>>

Statuses == {"open", "ready", "merged", "abandoned", "outdated"}
Finished == {"SUCCESS", "FAILURE", "CANCELED", "SKIPPED"}
Builds == Finished \cup {"absent", "running", "retrying"}

(* A fault of this kind, within the bound, or no fault at all.              *)
MayFault(kind) ==
  \/ kind = "none" /\ UNCHANGED faults
  \/ kind \in Faults /\ faults < MaxFaults /\ faults' = faults + 1

Jobs(c) == layout.jobs[c]
Merged == ToSet(trunk)
ChangesIn(queue) == [n \in DOMAIN queue.order |-> item[queue.order[n]]]
ChangesAhead(queue, i) ==
  LET chain == ItemsAhead(queue, i) IN [n \in DOMAIN chain |-> item[chain[n]]]

-----------------------------------------------------------------------------
(* Build sets.                                                             *)

NewBuildSet(n) ==
  [gen |-> n, merge |-> "NEW", ref |-> FALSE, other |-> <<>>, commit |-> {},
   unable |-> FALSE, failing |-> FALSE, builds |-> [j \in Job |-> "absent"]]

(* A fake SKIPPED build for each of these jobs, over any build it has.     *)
Skip(b, jobs) ==
  [b EXCEPT !.builds = [j \in Job |-> IF j \in jobs THEN "SKIPPED" ELSE @[j]]]

(* cancelJobs on these items: a build set with a ref is replaced, unless   *)
(* prime is false; else the builds it has are marked CANCELED where they   *)
(* are, finished ones too.  A canceled build sends no result any more.     *)
CancelJobs(sets, items, prime) ==
  [i \in Item |->
     IF i \notin items THEN sets[i]
     ELSE IF prime /\ sets[i].ref THEN NewBuildSet(sets[i].gen + 1)
     ELSE [sets[i] EXCEPT !.builds =
             [j \in Job |-> IF @[j] = "absent" THEN "absent" ELSE "CANCELED"]]]

AnyJobFailed(c, b) ==
  \E j \in Jobs(c) \cap layout.voting : b.builds[j] \in Finished \ {"SUCCESS"}
AllJobsComplete(c, b) == \A j \in Jobs(c) : b.builds[j] \in Finished
AllJobsSucceeded(c, b) ==
  \A j \in Jobs(c) \cap layout.voting : b.builds[j] = "SUCCESS"

-----------------------------------------------------------------------------
(* Dependencies (checkForChangesNeededBy, getFailingDependentItems).       *)

Unmerged(c) == {n \in Needs[c] : status[n] # "merged"}

(* Missing are the changes to enqueue ahead of c; c cannot go in at all    *)
(* when one of the changes it needs can never be there.                    *)
Missing(c, queued) == Unmerged(c) \ queued

Blocked(c, queued) ==
  \E n \in Unmerged(c) : \/ n \notin Gated
                         \/ status[n] = "outdated"
                         \/ n \notin queued /\ status[n] # "ready"

(* mutant: a needed change that left the queue is not missed.              *)
NeedsMetWhileReady(c, queued) == ~Blocked(c, queued)

NeedsMet(c, queued) == ~Blocked(c, queued) /\ Missing(c, queued) = {}

NeedsAFailingItem(i) ==
  \E a \in Queued(q) : item[a] \in Needs[item[i]] /\ bs[a].failing

(* The changes of this queue that need c and are ready to follow it in.    *)
FollowersOf(c) == {y \in Gated : c \in Needs[y] /\ status[y] = "ready"}

(* mutant: no check for a change that is already in the pipeline.          *)
AddChangeAgain(c, queued) == IF status[c] = "ready" THEN Append(queued, c) ELSE queued

(* What c needs is added ahead of it and what needs c behind it, each by   *)
(* addChange again, here the function nested; a change refused on the way  *)
(* leaves what was enqueued before it in the queue.                        *)
EnqueueChangesAhead(nested, c, queued) ==
  LET AddNeeded(r, n) == IF r.ok THEN nested[<<n, r.queue>>] ELSE r
  IN  IF Blocked(c, ToSet(queued)) THEN [ok |-> FALSE, queue |-> queued]
      ELSE FoldLeft(AddNeeded, [ok |-> TRUE, queue |-> queued],
                    SetToSeq(Missing(c, ToSet(queued))))

EnqueueChangesBehind(nested, c, queued) ==
  LET AddFollower(r, y) == [ok |-> TRUE, queue |-> nested[<<y, r.queue>>].queue]
  IN  FoldLeft(AddFollower, [ok |-> TRUE, queue |-> queued], SetToSeq(FollowersOf(c)))

(* addChange: whether c was accepted, and the changes queued then.         *)
AddOne(nested, c, queued) ==
  LET ahead == EnqueueChangesAhead(nested, c, queued)
  IN  IF c \in ToSet(queued) THEN [ok |-> TRUE, queue |-> queued]
      ELSE IF status[c] # "ready" \/ c \notin Gated THEN [ok |-> FALSE, queue |-> queued]
      ELSE IF ~ahead.ok \/ c \in ToSet(ahead.queue) THEN ahead
      ELSE EnqueueChangesBehind(nested, c, Append(ahead.queue, c))

(* The changes queued once c has been considered.  No nesting is deeper    *)
(* than depth: a change is queued before the changes behind it are added,  *)
(* and between two such calls those for changes ahead follow Needs.        *)
AddChange(c, queued) ==
  LET depth == Cardinality(Change) * (Cardinality(Change) + 1)
      add[d \in 0 .. depth] ==
        [call \in Change \X Seq(Change) |->
           IF d = 0 THEN [ok |-> FALSE, queue |-> call[2]]
           ELSE AddOne(add[d - 1], call[1], call[2])]
  IN  add[depth][<<c, queued>>].queue

(* The items made for the changes at the end of a list of changes, the     *)
(* first Len(queue.order) of which are queued already.  Bound: no more     *)
(* items than Item are ever made, so there must be room for them.          *)
Made == Cardinality({i \in Item : item[i] # Idle})
Room(queue, changes) == Made + Len(changes) - Len(queue.order) <= Cardinality(Item)

EnqueueAll(queue, changes) ==
  LET known == Len(queue.order)
      new == [k \in 1 .. Len(changes) - known |-> Made + k]
  IN  /\ q' = FoldLeft(EnqueueItem, queue, new)
      /\ item' = [i \in Item |-> IF i \in ToSet(new) THEN changes[known + i - Made] ELSE item[i]]

-----------------------------------------------------------------------------
(* Mutexes (MutexHandler) and the jobs to launch (findJobsToRun).          *)

(* mutant: a hold job that has yet to be launched does not hold.           *)
HeldByRunning(queue, i) ==
  \E a \in ToSet(ItemsAhead(queue, i)) : \E j \in Jobs(item[a]) \cap HoldJobs :
     bs[a].builds[j] = "running"

(* jobs with hold-following-changes on an item ahead keep this one waiting *)
HeldBack(queue, i) ==
  \E a \in ToSet(ItemsAhead(queue, i)) : \E j \in Jobs(item[a]) \cap HoldJobs :
     bs[a].builds[j] # "SUCCESS"

(* mutant: the jobs below a job start when it does.                        *)
RunnableBelowStarted(queue, i, b) ==
  IF HeldBack(queue, i) THEN {}
  ELSE {j \in Jobs(item[i]) : /\ b.builds[j] = "absent"
                              /\ \A k \in Above[j] : b.builds[k] # "absent"}

Runnable(queue, i, b) ==
  IF HeldBack(queue, i) THEN {}
  ELSE {j \in Jobs(item[i]) : /\ b.builds[j] = "absent"
                              /\ \A k \in Above[j] : b.builds[k] = "SUCCESS"}

(* mutant: the mutex keeps out only the other jobs of its own item.        *)
GrantedPerItem(m, i, wanting, sets) ==
  LET first == SelectInSeq(JobOrder, LAMBDA j : j \in wanting)
  IN  IF wanting = {} THEN {}
      ELSE IF held[m] = Idle \/ held[m].item # i THEN {JobOrder[first]}
      ELSE wanting \cap {held[m].job}

(* acquire: a free mutex goes to the first job that asks; so does one      *)
(* whose holder's build has a result; else only its holder has it.         *)
Granted(m, i, wanting, sets) ==
  LET first == SelectInSeq(JobOrder, LAMBDA j : j \in wanting)
      free == \/ held[m] = Idle
              \/ sets[held[m].item].builds[held[m].job] \in Finished
  IN  IF wanting = {} THEN {}
      ELSE IF free THEN {JobOrder[first]}
      ELSE IF held[m].item = i THEN wanting \cap {held[m].job}
      ELSE {}

(* launchJobs: take the mutexes and launch what may run.                   *)
LaunchJobs(queue, i, sets) ==
  LET runnable == Runnable(queue, i, sets[i])
      granted == [m \in Mutex |-> Granted(m, i, {j \in runnable : MutexOf[j] = m}, sets)]
      launched == {j \in runnable : MutexOf[j] # NoMutex => j \in granted[MutexOf[j]]}
  IN  [held |-> [m \in Mutex |-> IF granted[m] = {} THEN held[m]
                                 ELSE [item |-> i, job |-> CHOOSE j \in granted[m] : TRUE]],
       sets |-> [sets EXCEPT ![i].builds =
                   [j \in Job |-> IF j \in launched THEN "running" ELSE @[j]]]]

Release(i, j) ==
  held' = [m \in Mutex |-> IF m = MutexOf[j] /\ held[m] = [item |-> i, job |-> j]
                           THEN Idle ELSE held[m]]

-----------------------------------------------------------------------------
(* Reporting (reportItem), with Gerrit's answer.  A fault is one of:       *)
(* Gerrit refuses the submission, another reporter fails after Gerrit      *)
(* merged, the merge does not show in the git repository, or the query     *)
(* raises.  "failed" is MergeFailure and "raised" any other exception.     *)

ReportItem(i, b, outcome) ==
  LET c == item[i]
      success == AllJobsSucceeded(c, b)
      sends == i \notin reported /\ Jobs(c) # {}
      submits == sends /\ success /\ status[c] = "ready" /\ c \notin Merged
  IN  \E fault \in {"none", "refused", "reporter", "unseen", "query"} :
        LET reportedNow == i \in reported \/ (sends /\ fault # "reporter")
        IN  /\ MayFault(fault)
            /\ fault \in {"refused", "reporter"} => submits
            /\ trunk' = IF submits /\ fault # "refused" THEN Append(trunk, c) ELSE trunk
            /\ reported' = IF reportedNow THEN reported \cup {i} ELSE reported
            /\ LET seen == reportedNow /\ c \in ToSet(trunk')
               IN  /\ fault = "unseen" => seen
                   /\ fault = "query" => reportedNow
                   /\ status' = IF seen /\ fault # "query"
                                THEN [status EXCEPT ![c] = "merged"] ELSE status
                   /\ outcome = IF fault = "query" THEN "raised"
                                ELSE IF success /\ seen /\ fault = "none" THEN "merged" ELSE "failed"
            /\ window' = CASE outcome = "merged" -> IncreasedWindow(window)
                           [] outcome = "failed" -> DecreasedWindow(window)
                           [] outcome = "raised" -> window

NotReporting == UNCHANGED <<gerrit, reported, window, faults>>

-----------------------------------------------------------------------------
(* The scheduler thread's loop (Scheduler.run).                            *)

At(phase) == [phase |-> phase, todo |-> <<>>, nnfi |-> NoItem, changed |-> FALSE]
Sleeping == At("sleep")

(* An exception ends the iteration; the loop is woken again at once.       *)
Abort == pass' = Sleeping /\ wake' = TRUE

WakeUp ==
  /\ pass.phase = "sleep" /\ wake
  /\ wake' = FALSE
  /\ pass' = At("results")
  /\ UNCHANGED <<gerrit, triggers, results, merging, layout, scheduled, bounds>>

(* Result events have priority; trigger events follow once there is none.  *)
EndResults ==
  /\ pass.phase = "results" /\ results = <<>>
  /\ pass' = At("triggers")
  /\ UNCHANGED <<gerrit, triggers, results, merging, layout, scheduled, wake, bounds>>

(* processQueue starts over a copy of the list.                            *)
StartPass ==
  /\ \/ pass.phase = "triggers" /\ triggers = <<>>
     \/ pass.phase = "queue" /\ pass.todo = <<>> /\ pass.changed
  /\ pass' = [At("queue") EXCEPT !.todo = q.order]
  /\ UNCHANGED <<gerrit, triggers, results, merging, layout, scheduled, wake, bounds>>

EndPass ==
  /\ pass.phase = "queue" /\ pass.todo = <<>> /\ ~pass.changed
  /\ pass' = Sleeping
  /\ UNCHANGED <<gerrit, triggers, results, merging, layout, scheduled, wake, bounds>>

-----------------------------------------------------------------------------
(* Event handlers.                                                         *)

(* mutant: a result counts as long as its item is queued.                  *)
CurrentWhileQueued(e) == e.item \in Queued(q)

(* A result counts only for the build set it was asked for.                *)
Current(e) == bs[e.item].gen = e.gen

(* onBuildCompleted of the manager: a retried build is forgotten, a failed *)
(* one takes the jobs below it along, and its mutex is released.  A build  *)
(* that a reconfiguration took out of the set has no place in the job tree *)
(* any more: unless it succeeded, looking it up raises.                    *)
HandleBuild(e) ==
  LET b == bs[e.item]
      below == {k \in Jobs(item[e.item]) : e.job \in Above[k]}
      now == b.builds[e.job]
  IN  /\ e.kind = "build"
      /\ IF ~Current(e) THEN UNCHANGED <<bs, held, pass, wake>>
         ELSE IF now = "absent" /\ e.result # "SUCCESS"
         THEN Abort /\ UNCHANGED <<bs, held>>
         ELSE /\ bs' = [bs EXCEPT ![e.item] =
                          IF e.result = "retry" THEN [b EXCEPT !.builds[e.job] = "absent"]
                          ELSE IF now \in {"SUCCESS", "absent"} THEN b
                          ELSE Skip(b, below)]
              /\ Release(e.item, e.job)
              /\ UNCHANGED <<pass, wake>>

(* onMergeCompleted.  An "updated" answer makes it read the newrev that a  *)
(* Change does not have, once the state is COMPLETE.                       *)
HandleMerge(e) ==
  LET b == bs[e.item]
      done == [b EXCEPT !.merge = "COMPLETE"]
  IN  /\ e.kind = "merge"
      /\ UNCHANGED held
      /\ \/ /\ ~Current(e)
            /\ UNCHANGED <<bs, pass, wake>>
         \/ /\ Current(e) /\ e.result = "updated"
            /\ bs' = [bs EXCEPT ![e.item] = done]
            /\ Abort
         \/ /\ Current(e) /\ e.result = "merged"
            /\ bs' = [bs EXCEPT ![e.item] = [done EXCEPT !.commit = e.content]]
            /\ UNCHANGED <<pass, wake>>
         \/ /\ Current(e) /\ e.result = "conflict"
            /\ bs' = [bs EXCEPT ![e.item] =
                        Skip([done EXCEPT !.unable = TRUE], Jobs(item[e.item]))]
            /\ UNCHANGED <<pass, wake>>

HandleResult ==
  /\ pass.phase = "results" /\ results # <<>>
  /\ results' = Tail(results)
  /\ HandleBuild(Head(results)) \/ HandleMerge(Head(results))
  /\ UNCHANGED <<gerrit, triggers, merging, layout, q, window, item, reported, bounds>>

(* removeItem: an item leaves with the builds of what is tested on it.     *)
RemoveItem(i) ==
  /\ bs' = CancelJobs(bs, WithBehind(q, i), TRUE)
  /\ q' = DequeueItem(q, i)

(* process_event_queue: an approved change is added; an abandoned or       *)
(* outdated one is removed.                                                *)
HandleTrigger ==
  /\ pass.phase = "triggers" /\ triggers # <<>>
  /\ triggers' = Tail(triggers)
  /\ LET e == Head(triggers) IN
       \/ /\ e.type = "approved"
          /\ LET added == AddChange(e.change, ChangesIn(q))
             IN  EnqueueAll(q, IF Room(q, added) THEN added ELSE ChangesIn(q))
          /\ UNCHANGED bs
       \/ /\ e.type = "gone" /\ e.change \notin ToSet(ChangesIn(q))
          /\ UNCHANGED <<q, item, bs>>
       \/ \E i \in Queued(q) :
            /\ e.type = "gone" /\ item[i] = e.change
            /\ RemoveItem(i)
            /\ UNCHANGED item
  /\ UNCHANGED <<gerrit, results, merging, layout, window, reported, held,
                 pass, wake, bounds>>

-----------------------------------------------------------------------------
(* Processing one item (_processOneItem).                                  *)

Processing(i) == pass.phase = "queue" /\ pass.todo # <<>> /\ i = Head(pass.todo)

(* mutant: every item counts as changed.                                   *)
GoOnChanged(nnfi, changed) ==
  pass' = [pass EXCEPT !.todo = Tail(@), !.nnfi = nnfi, !.changed = TRUE]

GoOn(nnfi, changed) ==
  pass' = [pass EXCEPT !.todo = Tail(@), !.nnfi = nnfi, !.changed = @ \/ changed]

(* A change that can no longer merge is dequeued, its jobs marked SKIPPED  *)
(* and reported; MergeFailure is swallowed.                                *)
DropItem(i) ==
  /\ Processing(i)
  /\ ~NeedsMet(item[i], ToSet(ChangesIn(q)))
  /\ q' = DequeueItem(q, i)
  /\ LET canceled == CancelJobs(bs, WithBehind(q, i), TRUE)
         skipped == Skip(canceled[i], Jobs(item[i]))
     IN  /\ bs' = [canceled EXCEPT ![i] = skipped]
         /\ \/ /\ ReportItem(i, skipped, "raised")
               /\ Abort
            \/ /\ \E outcome \in {"merged", "failed"} : ReportItem(i, skipped, outcome)
               /\ GoOn(pass.nnfi, TRUE)
               /\ UNCHANGED wake
  /\ UNCHANGED <<triggers, results, merging, layout, item, held, commands, events>>

(* An item ahead that is not the nearest non-failing one has failed, unless *)
(* it is already merged: move behind the nearest one and start over.        *)
Misplaced(i) ==
  /\ ~NeedsAFailingItem(i)
  /\ q.ahead[i] # pass.nnfi
  /\ ~(q.ahead[i] # NoItem /\ status[item[q.ahead[i]]] = "merged")

MovedQueue(i) == IF Misplaced(i) THEN MoveItem(q, i, pass.nnfi) ELSE q

(* mutant: a moved item keeps its builds.                                  *)
ResetNothing(i) ==
  IF NeedsAFailingItem(i) THEN CancelJobs(bs, WithBehind(q, i), FALSE) ELSE bs

ResetSets(i) ==
  IF NeedsAFailingItem(i) THEN CancelJobs(bs, WithBehind(q, i), FALSE)
  ELSE IF Misplaced(i) THEN CancelJobs(bs, WithBehind(MovedQueue(i), i), TRUE)
  ELSE bs

(* mutant: the window is not consulted.                                    *)
MayPrepareAnyTime(i) == ~NeedsAFailingItem(i)

MayPrepare(i) == ~NeedsAFailingItem(i) /\ IsActionable(q, window, i)

Failing(i, b) ==
  \/ NeedsAFailingItem(i)
  \/ MayPrepare(i) /\ b.unable
  \/ AnyJobFailed(item[i], b)

(* mutant: everything later in the list is reset.                          *)
Later(queue, i) == {j \in Item : Precedes(queue, i, j)}

(* What is tested on top of i.                                             *)
Behind(queue, i) == UNION {WithBehind(queue, b) : b \in queue.behind[i]}

(* What follows the launch of jobs: an item that was at the head when the  *)
(* processing began, and has all its results, is reported and leaves; what *)
(* was behind it is canceled when it did not merge.  Any other item is the *)
(* nearest non-failing one for the next, unless it is failing.             *)
Settle(i, queue, sets) ==
  LET failing == Failing(i, sets[i])
      atHead == q.ahead[i] = NoItem /\ AllJobsComplete(item[i], sets[i])
  IN  \/ /\ atHead
         /\ ReportItem(i, sets[i], "merged")
         /\ q' = DequeueItem(queue, i)
         /\ bs' = [sets EXCEPT ![i].failing = failing]
         /\ GoOn(pass.nnfi, TRUE)
         /\ UNCHANGED wake
      \/ /\ atHead
         /\ ReportItem(i, sets[i], "failed")
         /\ q' = DequeueItem(queue, i)
         /\ bs' = [CancelJobs(sets, Behind(queue, i), TRUE) EXCEPT ![i].failing = TRUE]
         /\ GoOn(pass.nnfi, TRUE)
         /\ UNCHANGED wake
      \/ /\ atHead
         /\ ReportItem(i, sets[i], "raised")
         /\ q' = queue /\ bs' = sets
         /\ Abort
      \/ /\ ~atHead
         /\ q' = queue
         /\ bs' = [sets EXCEPT ![i].failing = failing]
         /\ GoOn(IF failing THEN pass.nnfi ELSE i, Misplaced(i))
         /\ NotReporting
         /\ UNCHANGED wake

(* prepareRef: record the changes ahead, name the ref, ask for the merge.  *)
(* A set that has its ref already asks for an update of the repository.    *)
Prepared(queue, i, b) ==
  [b EXCEPT !.ref = TRUE,
            !.other = IF @ = <<>> THEN ChangesAhead(queue, i) ELSE @]

PrepareRef(i) ==
  LET queue == MovedQueue(i)
      sets == ResetSets(i)
      b == sets[i]
  IN  /\ Processing(i)
      /\ NeedsMet(item[i], ToSet(ChangesIn(q)))
      /\ MayPrepare(i) /\ b.merge = "NEW"
      /\ \/ /\ merging' = merging \cup
                  {[item |-> i, gen |-> b.gen, kind |-> IF b.ref THEN "update" ELSE "merge",
                    content |-> ToSet(ChangesAhead(queue, i)) \cup {item[i]}]}
            /\ Settle(i, queue, [sets EXCEPT ![i] =
                                   [Prepared(queue, i, b) EXCEPT !.merge = "PENDING"]])
         \/ /\ MayFault("submit")
            /\ q' = queue
            /\ bs' = [sets EXCEPT ![i] = Prepared(queue, i, b)]
            /\ Abort
            /\ UNCHANGED <<gerrit, merging, window, reported>>
      /\ UNCHANGED <<triggers, results, layout, item, held, commands, events>>

LaunchItem(i) ==
  LET queue == MovedQueue(i)
      launch == LaunchJobs(queue, i, ResetSets(i))
  IN  /\ Processing(i)
      /\ NeedsMet(item[i], ToSet(ChangesIn(q)))
      /\ MayPrepare(i)
      /\ ResetSets(i)[i].merge = "COMPLETE" /\ ~ResetSets(i)[i].unable
      /\ held' = launch.held
      /\ Settle(i, queue, launch.sets)
      /\ UNCHANGED <<triggers, results, merging, layout, item, commands, events>>

(* Outside the window, behind a failing change it needs, waiting for its   *)
(* merge or unable to merge: nothing to start.                             *)
WaitItem(i) ==
  LET b == ResetSets(i)[i]
  IN  /\ Processing(i)
      /\ NeedsMet(item[i], ToSet(ChangesIn(q)))
      /\ ~MayPrepare(i) \/ b.merge = "PENDING" \/ b.unable
      /\ Settle(i, MovedQueue(i), ResetSets(i))
      /\ UNCHANGED <<triggers, results, merging, layout, item, held, commands, events>>

-----------------------------------------------------------------------------
(* The other threads.                                                      *)

(* mutant: a result event does not wake the scheduler.                     *)
AddResultQuietly(e) == results' = Append(results, e) /\ UNCHANGED wake

AddResult(e) == results' = Append(results, e) /\ wake' = TRUE

(* A worker finishes a build: the result shows at once, in the Gearman     *)
(* thread, and its event is queued.  No result at all means a retry.       *)
BuildCompleted(i, j, result) ==
  /\ bs[i].builds[j] = "running"
  /\ MayFault(IF result = "retry" THEN "retry" ELSE "none")
  /\ bs' = [bs EXCEPT ![i].builds[j] = IF result = "retry" THEN "retrying" ELSE result]
  /\ AddResult([kind |-> "build", item |-> i, gen |-> bs[i].gen, job |-> j,
                result |-> result])
  /\ UNCHANGED <<gerrit, triggers, merging, layout, q, window, item, reported,
                 held, pass, commands, events>>

(* A merger answers: it merged the items onto the branch as it was then,   *)
(* could not (or was lost), or only updated its repository.                *)
MergeCompleted(m, result) ==
  /\ m \in merging
  /\ result \in IF m.kind = "merge" THEN {"merged", "conflict"} ELSE {"updated"}
  /\ merging' = merging \ {m}
  /\ AddResult([kind |-> "merge", item |-> m.item, gen |-> m.gen, result |-> result,
                content |-> IF result = "merged" THEN Merged \cup m.content ELSE {}])
  /\ UNCHANGED <<gerrit, triggers, layout, scheduled, pass, bounds>>

(* Gerrit events refresh the change cache, then reach the scheduler: a     *)
(* change is approved, a vote is withdrawn, a patchset is abandoned or     *)
(* superseded, or the change-merged event of a merge comes in.             *)
GerritEvent(c, new, queued) ==
  /\ events < MaxEvents
  /\ events' = events + 1
  /\ status' = [status EXCEPT ![c] = new]
  /\ triggers' = triggers \o queued
  /\ wake' = TRUE
  /\ UNCHANGED <<trunk, results, merging, layout, scheduled, pass, faults, commands>>

Approve(c) == /\ status[c] \in {"open", "ready"}
              /\ GerritEvent(c, "ready", <<[type |-> "approved", change |-> c]>>)

Withdraw(c) == status[c] = "ready" /\ GerritEvent(c, "open", <<>>)

GoAway(c) == /\ status[c] \in {"open", "ready"} /\ c \notin Merged
             /\ \E s \in {"abandoned", "outdated"} :
                   GerritEvent(c, s, <<[type |-> "gone", change |-> c]>>)

NoticeMerge(c) == /\ c \in Merged /\ status[c] # "merged"
                  /\ GerritEvent(c, "merged", <<>>)

-----------------------------------------------------------------------------
(* Management events, handled first when the loop wakes.                   *)

Managing ==
  /\ pass.phase = "sleep" /\ commands < MaxCommands
  /\ commands' = commands + 1
  /\ pass' = At("results")
  /\ wake' = FALSE
  /\ UNCHANGED <<gerrit, triggers, results, merging, reported, faults, events>>

(* What is queued when these changes are added to the empty queue.         *)
AddedAgain(wanted) ==
  LET Add(changes, c) == AddChange(c, changes)
  IN  FoldLeft(Add, <<>>, wanted)

(* _doPromoteEvent for one change: every item is canceled and dequeued,    *)
(* then the changes are added again, the promoted one first.               *)
Promote(i) ==
  /\ Managing
  /\ i \in Queued(q)
  /\ LET added == AddedAgain(<<item[i]>> \o RemoveAt(ChangesIn(q), Position(q, i)))
     IN  Room(EmptyQueue, added) /\ EnqueueAll(EmptyQueue, added)
  /\ bs' = CancelJobs(bs, Queued(q), TRUE)
  /\ UNCHANGED <<layout, window, held>>

(* The retry of this build has yet to be handled.                          *)
Retried(i, j) ==
  \E n \in DOMAIN results :
    results[n] = [kind |-> "build", item |-> i, gen |-> bs[i].gen, job |-> j,
                  result |-> "retry"]

(* removeBuild of all builds but those of these jobs.                      *)
OnlyBuildsOf(b, jobs) ==
  [b EXCEPT !.builds = [j \in Job |-> IF j \in jobs THEN @[j] ELSE "absent"]]

(* reEnqueueItem, for an item that now has these jobs: what failed takes   *)
(* the jobs now below it along, unless it is to be retried.                *)
Redone(i, jobs) ==
  LET kept == OnlyBuildsOf(bs[i], jobs)
      failed == {j \in jobs : kept.builds[j] \in Finished \ {"SUCCESS"}}
      again == {j \in failed : Retried(i, j)}
      below == {k \in jobs : Above[k] \cap failed # {}}
  IN  IF bs[i].unable THEN Skip(kept, jobs)
      ELSE Skip(OnlyBuildsOf(kept, jobs \ again), below)

(* _doReconfigureEvent: builds of jobs that are gone are dropped, and every *)
(* item is enqueued again behind the last one.  What failed stays so.      *)
Reconfigure(new) ==
  /\ Managing
  /\ layout' = new /\ window' = InitWindow
  /\ q' = FoldLeft(EnqueueItem, EmptyQueue, q.order)
  /\ bs' = [i \in Item |-> IF i \in Queued(q) THEN Redone(i, new.jobs[item[i]]) ELSE bs[i]]
  /\ UNCHANGED <<item, held>>

-----------------------------------------------------------------------------
(* The gate.                                                               *)

Init ==
  /\ status = [c \in Change |-> "open"] /\ trunk = <<>>
  /\ triggers = <<>> /\ results = <<>> /\ merging = {}
  /\ layout = FirstLayout
  /\ q = EmptyQueue /\ window = InitWindow
  /\ item = [i \in Item |-> Idle]
  /\ bs = [i \in Item |-> NewBuildSet(0)]
  /\ reported = {}
  /\ held = [m \in Mutex |-> Idle]
  /\ pass = Sleeping /\ wake = FALSE
  /\ faults = 0 /\ commands = 0 /\ events = 0

SchedulerStep ==
  \/ WakeUp \/ HandleResult \/ EndResults \/ HandleTrigger \/ StartPass \/ EndPass
  \/ \E i \in Item : DropItem(i) \/ PrepareRef(i) \/ LaunchItem(i) \/ WaitItem(i)

Next ==
  \/ SchedulerStep
  \/ \E i \in Item, j \in Job, r \in {"SUCCESS", "FAILURE", "retry"} : BuildCompleted(i, j, r)
  \/ \E m \in merging, r \in {"merged", "conflict", "updated"} : MergeCompleted(m, r)
  \/ \E c \in Change : Approve(c) \/ Withdraw(c) \/ GoAway(c) \/ NoticeMerge(c)
  \/ \E i \in Item : Promote(i)
  \/ \E new \in Layouts : Reconfigure(new)

Spec == Init /\ [][Next]_vars

(* The scheduler thread keeps running, and every build and every merge     *)
(* that was submitted is answered (a lost one by Gearman's disconnect).    *)
Fairness ==
  /\ WF_vars(SchedulerStep)
  /\ \A i \in Item, j \in Job :
       WF_vars(\E r \in {"SUCCESS", "FAILURE"} : BuildCompleted(i, j, r))
  /\ WF_vars(\E m \in merging, r \in {"merged", "conflict", "updated"} : MergeCompleted(m, r))

FairSpec == Spec /\ Fairness

-----------------------------------------------------------------------------
(* Properties.                                                             *)

BuildSets ==
  [gen : Nat, merge : {"NEW", "PENDING", "COMPLETE"}, ref : BOOLEAN, other : Seq(Change),
   commit : SUBSET Change, unable : BOOLEAN, failing : BOOLEAN, builds : [Job -> Builds]]

(* Every variable keeps its type; among them the window, which the reports *)
(* grow and shrink, stays a natural number.                                *)
TypeOK ==
  /\ status \in [Change -> Statuses] /\ trunk \in Seq(Change)
  /\ triggers \in Seq([type : {"approved", "gone"}, change : Change])
  /\ layout \in Layouts
  /\ q \in Queues /\ window \in Nat
  /\ item \in [Item -> Change \cup {Idle}]
  /\ bs \in [Item -> BuildSets]
  /\ reported \subseteq Item
  /\ held \in [Mutex -> [item : Item, job : Job] \cup {Idle}]
  /\ pass \in [phase : {"sleep", "results", "triggers", "queue"}, todo : Seq(Item),
                nnfi : Item \cup {NoItem}, changed : BOOLEAN]
  /\ wake \in BOOLEAN
  /\ faults \in 0 .. MaxFaults /\ commands \in 0 .. MaxCommands
  /\ events \in 0 .. MaxEvents

(* The links of the queue stay consistent under everything the managers,   *)
(* promotions and reconfigurations do to it: the list has no item twice,   *)
(* item_ahead is earlier in it, and items_behind is the inverse.           *)
LinksConsistent == WellLinked(q)

(* "every change is tested exactly as it is going to be merged": when a    *)
(* change merges, the commit its jobs ran on held what the branch then     *)
(* holds and that change, nothing more and nothing less, and all voting    *)
(* jobs of its project succeeded on it.                                    *)
TestedAsMerged ==
  [][\A i \in Queued(q) :
       trunk' = Append(trunk, item[i]) =>
         /\ bs[i].commit = Merged \cup {item[i]}
         /\ AllJobsSucceeded(item[i], bs[i])]_vars

(* The gate implements the ideal one: for all the tests it runs ahead of    *)
(* time, on top of changes that have yet to merge, the branch only ever    *)
(* grows by a change that passed on exactly what the branch holds, after   *)
(* what it needs.  The verdicts are those of the items in the queue.       *)
Passed ==
  {[base |-> bs[i].commit \ {item[i]}, change |-> item[i]] :
     i \in {k \in Queued(q) : bs[k].commit # {} /\ AllJobsSucceeded(item[k], bs[k])}}

Ideal == INSTANCE IdealGate WITH passed <- Passed
ImplementsIdeal == Ideal!Spec

(* No change merges before a change it needs: neither a failure, a change  *)
(* that goes away nor a promotion lets it overtake.                        *)
DependenciesFirst ==
  [][\A c \in Change : trunk' = Append(trunk, c) => Needs[c] \subseteq Merged]_vars

(* A job starts only on a merged commit, inside the window, and the        *)
(* changes it is told of (ZUUL_CHANGES, from the links at launch time) are *)
(* those of the commit (from the links at the time of the merge request),  *)
(* up to what has merged in between.                                       *)
LaunchedAsPrepared ==
  [][\A i \in Item, j \in Job :
       bs[i].builds[j] # "running" /\ bs'[i].builds[j] = "running" =>
         /\ IsActionable(q, window, i)
         /\ bs[i].commit \cup Merged =
              Merged \cup ToSet(ChangesAhead(q', i)) \cup {item[i]}]_vars

CannotPass(k) ==
  \/ bs[k].unable
  \/ \E j \in Jobs(item[k]) \cap layout.voting : bs[k].builds[j] \in Finished \ {"SUCCESS"}

(* Work is thrown away only with cause: where no report fails, the build   *)
(* set of an item that stays queued is replaced only if some change it was *)
(* prepared on did not merge, and has left the queue or cannot pass.       *)
RestartsJustified ==
  [][\A i \in Queued(q) \cap Queued(q') :
       bs'[i].gen # bs[i].gen =>
         \E c \in ToSet(bs[i].other) \ ToSet(trunk') :
           \A k \in Queued(q') : item[k] = c => CannotPass(k)']_vars

(* The gate never sleeps on work nobody is going to wake it for: when the  *)
(* scheduler sleeps and no wake-up is pending, some build or merge of a    *)
(* queued item is still out.                                               *)
NeverStuck ==
  pass.phase = "sleep" /\ ~wake /\ q.order # <<>> =>
    \/ merging # {}
    \/ \E i \in Queued(q), j \in Job : bs[i].builds[j] = "running"

(* A change is queued at most once.                                        *)
QueuedOnce ==
  \A i, k \in Queued(q) : item[i] = item[k] => i = k

(* Two builds that reference the same mutex never wait for a result at the *)
(* same time.                                                              *)
MutexExclusive ==
  \A i, k \in Item, j, l \in Job :
    /\ bs[i].builds[j] = "running" /\ bs[k].builds[l] = "running"
    /\ MutexOf[j] # NoMutex /\ MutexOf[j] = MutexOf[l]
    => i = k /\ j = l

(* A job runs only below jobs that succeeded, whatever is retried, skipped *)
(* or canceled above it.                                                   *)
TreeRespected ==
  \A i \in Item, j \in Job :
    bs[i].builds[j] \in {"running", "retrying"} =>
      \A k \in Above[j] : bs[i].builds[k] = "SUCCESS"

(* While a build runs, the jobs with hold-following-changes on all the     *)
(* items it is tested on top of have succeeded: no reset, move or failure  *)
(* ahead leaves it running behind one that has not.                        *)
HoldRespected ==
  \A i \in Queued(q), j \in Job :
    bs[i].builds[j] = "running" =>
      \A a \in ToSet(ItemsAhead(q, i)), h \in HoldJobs :
        h \in Jobs(item[a]) => bs[a].builds[h] = "SUCCESS"

(* Every item eventually leaves the queue.                                 *)
EveryItemLeaves ==
  \A i \in Item : i \in Queued(q) ~> i \notin Queued(q)
=============================================================================
