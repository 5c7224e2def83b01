------------------------------- MODULE Intake -------------------------------
(***************************************************************************)
(* How changes come into Zuul: Gerrit's event stream, the connector thread *)
(* that refreshes the cached change and hands the event on, the scheduler  *)
(* thread that enqueues it in an independent pipeline, and an exit and a   *)
(* restart in between, which save and load the events not yet handled.     *)
(***************************************************************************)
EXTENDS ChangeCache, IndependentPipeline

CONSTANTS
  MaxEvents,       (* bound: the events Gerrit sends                        *)
  MaxUpsets,       (* bound: failed queries and reconfigurations            *)
  MaxExits         (* bound: the times Zuul is asked to exit                *)

VARIABLES
  sent,            (* how many events Gerrit has sent; their number is an id *)
  events,          (* connection.event_queue                                *)
  hand,            (* of each thread: the event it works on, or NoEvent     *)
  triggers,        (* scheduler.trigger_event_queue                         *)
  pc,              (* where the scheduler's run loop is                     *)
  wake,            (* wake_event                                            *)
  pipeline,        (* the pipeline, see IndependentPipeline                 *)
  merges,          (* merges asked for whose result is not in               *)
  exiting,         (* _pause and _exit                                      *)
  boot,            (* how far a start has come                              *)
  file,            (* queue.pickle                                          *)
  handled,         (* history: the ids of the events handled                *)
  saved,           (* history: the ids of the events saved                  *)
  upsets,          (* history: what has gone wrong                          *)
  exits

loopVars == <<pc, wake, pipeline, merges>>
exitVars == <<exiting, boot, file, exits>>
history == <<handled, saved, upsets>>
vars == <<gerrit, cacheVars, sent, events, hand, triggers, loopVars, exitVars, history>>

NoEvent == [type |-> "none", key |-> <<0, 0>>, id |-> 0]

Init ==
  /\ CacheInit
  /\ sent = 0 /\ events = <<>> /\ triggers = <<>>
  /\ hand = [t \in Thread |-> NoEvent]
  /\ pc = "asleep" /\ wake = FALSE /\ pipeline = <<>> /\ merges = 0
  /\ exiting = FALSE /\ boot = "resumed" /\ file = <<>> /\ exits = 0
  /\ handled = {} /\ saved = {} /\ upsets = {}

Up == pc # "down"
(* Bound: something goes wrong, or Zuul is asked to exit, but not both.    *)
Upset(what) ==
  exits = 0 /\ Cardinality(upsets) < MaxUpsets /\ upsets' = upsets \cup {what}

-----------------------------------------------------------------------------
(* Gerrit, and the watcher that reads its stream (GerritWatcher._read).    *)
(* An event that is sent while nobody reads is lost.                       *)
Emits(type, n) ==
  /\ sent < MaxEvents
  /\ sent' = sent + 1
  /\ LET event == [type |-> type, key |-> <<n, gerrit'.latest[n]>>, id |-> sent + 1]
     IN events' = IF Up THEN Append(events, event) ELSE events
  /\ UNCHANGED <<cacheVars, hand, triggers, loopVars, exitVars, history>>

Upload(n) ==
  /\ gerrit.status[n] = "open"
  /\ \E deps \in SUBSET (Number \ {n}) :
       gerrit' = [gerrit EXCEPT !.latest[n] = @ + 1, !.needs[n] = deps]
  /\ Emits("patchset-created", n)

Comment(n) ==
  /\ gerrit.status[n] = "open"
  /\ UNCHANGED gerrit
  /\ Emits("comment-added", n)

Close(n) ==
  /\ gerrit.status[n] = "open"
  /\ \E how \in {"merged", "abandoned"} :
       /\ how = "merged" => \A m \in gerrit.needs[n] : gerrit.status[m] = "merged"
       /\ gerrit' = [gerrit EXCEPT !.status[n] = how]
       /\ Emits(IF how = "merged" THEN "change-merged" ELSE "change-abandoned", n)

Gerrit == \E n \in Number : Upload(n) \/ Comment(n) \/ Close(n)

-----------------------------------------------------------------------------
(* The connector thread (GerritEventConnector._handleEvent).               *)
TakeEvent ==
  /\ Up /\ hand["connector"] = NoEvent /\ calls["connector"] = <<>> /\ events # <<>>
  /\ hand' = [hand EXCEPT !["connector"] = Head(events)]
  /\ events' = Tail(events)
  /\ Becomes("connector", GetChange(Own("connector"), Head(events).key, TRUE, {}))
  /\ UNCHANGED <<gerrit, sent, triggers, loopVars, exitVars, history>>

(* mutant: the event is put in the queue without a wake-up.                *)
PutSilently == wake

(* Scheduler.addEvent.                                                     *)
AfterAddEvent == TRUE

(* mutant: the event is handed on without waiting for the refresh.         *)
Taken == hand["connector"] # NoEvent

Refreshed == hand["connector"] # NoEvent /\ answer["connector"] # NoAnswer

Deliver ==
  /\ Refreshed
  /\ IF answer["connector"] = Raised
     THEN /\ upsets' = upsets \cup {"refresh"}
          /\ UNCHANGED <<triggers, wake>>
     ELSE /\ triggers' = Append(triggers, hand["connector"]) /\ wake' = AfterAddEvent
          /\ UNCHANGED upsets
  /\ hand' = [hand EXCEPT !["connector"] = NoEvent]
  /\ answer' = [answer EXCEPT !["connector"] = NoAnswer]
  /\ UNCHANGED <<gerrit, objs, cache, calls, sent, events, pc, pipeline, merges, exitVars, handled, saved>>

(* A thread gives a change needs while a call, of its own or of the other  *)
(* thread, has walked from what it found but not taken that for needs yet. *)
Overtakes(t) ==
  LET f == Top(Own(t))
  IN /\ Calling(t, "needs") /\ f.todo = {} /\ ~(f.got \subseteq objs[f.obj].needs)
     /\ \E u \in Thread : \E i \in DOMAIN calls[u] \ (IF u = t THEN {Len(calls[t])} ELSE {}) :
          calls[u][i].phase = "needs" /\ calls[u][i].got # {}

(* Both threads, while they update changes.                                *)
Updating(t) ==
  /\ Up
  /\ Update(t)
  /\ upsets' = upsets \cup (IF Overtakes(t) THEN {"overtaken"} ELSE {})
  /\ UNCHANGED <<sent, events, hand, triggers, loopVars, exitVars, handled, saved>>

Fails(t) ==
  /\ Up
  /\ QueryFails(t) /\ Upset("refresh")
  /\ UNCHANGED <<sent, events, hand, triggers, loopVars, exitVars, handled, saved>>

-----------------------------------------------------------------------------
(* The scheduler's run loop.  A result of a merge or a build is put in its *)
(* queue and handled in one step, the loop being woken for it.             *)
WakeUp ==
  /\ pc = "asleep" /\ (wake \/ merges > 0 \/ ItemsAt(pipeline, "running") # {})
  /\ pc' = "results" /\ wake' = FALSE
  /\ UNCHANGED <<gerrit, cacheVars, sent, events, hand, triggers, pipeline, merges, exitVars, history>>

BuildCompleted ==
  /\ pc = "results"
  /\ \E k \in ItemsAt(pipeline, "running") : pipeline' = [pipeline EXCEPT ![k[1]][k[2]].stage = "done"]
  /\ UNCHANGED <<gerrit, cacheVars, sent, events, hand, triggers, pc, wake, merges, exitVars, history>>

(* A merge fails, which ends the item, or succeeds; or its item is gone.   *)
MergeCompleted ==
  /\ pc = "results" /\ merges > 0
  /\ \/ \E k \in ItemsAt(pipeline, "merging"), stage \in {"merged", "done"} :
          pipeline' = [pipeline EXCEPT ![k[1]][k[2]].stage = stage]
     \/ merges > Cardinality(ItemsAt(pipeline, "merging")) /\ UNCHANGED pipeline
  /\ merges' = merges - 1
  /\ UNCHANGED <<gerrit, cacheVars, sent, events, hand, triggers, pc, wake, exitVars, history>>

EndResults ==
  /\ pc = "results"
  /\ pc' = IF exiting THEN "pause" ELSE "events"
  /\ UNCHANGED <<gerrit, cacheVars, sent, events, hand, triggers, wake, pipeline, merges, exitVars, history>>

(* process_event_queue takes an event.  Before the first layout is in      *)
(* place, there is no pipeline that would look at it.                      *)
TakeTrigger ==
  /\ pc = "events" /\ triggers # <<>> /\ hand["scheduler"] = NoEvent
  /\ triggers' = Tail(triggers)
  /\ IF boot = "loading"
     THEN UNCHANGED <<hand, cacheVars>>
     ELSE /\ hand' = [hand EXCEPT !["scheduler"] = Head(triggers)]
          /\ Becomes("scheduler", GetChange(Own("scheduler"), Head(triggers).key, FALSE, {}))
  /\ UNCHANGED <<gerrit, sent, events, loopVars, exitVars, handled, saved, upsets>>

(* The zuul trigger's events for what needs a change that was enqueued.    *)
ParentEvents(added) ==
  FoldLeft(LAMBDA es, o : es \o SetToSeq({[type |-> "parent-change-enqueued", key |-> KeyOf(d), id |-> 0] :
                                            d \in objs[o].neededBy}),
           <<>>, added)

(* ... and goes on when it has the change.  An exception ends this turn of *)
(* the loop, which is to start again at once.                              *)
HandleTrigger ==
  LET event == hand["scheduler"]
      o == answer["scheduler"]
      without == CASE o = Raised -> pipeline
                   [] event.type = "patchset-created" -> RemoveOldVersions(pipeline, objs, o)
                   [] event.type = "change-abandoned" -> RemoveAbandoned(pipeline, objs, o)
                   [] OTHER -> pipeline
      adds == o # Raised /\ event.type \in {"patchset-created", "comment-added", "parent-change-enqueued"}
      raises == o = Raised \/ (adds /\ Added(without, objs, o).failed)
  IN /\ pc = "events" /\ event # NoEvent /\ o # NoAnswer
     /\ pipeline' = IF adds THEN AddChange(without, objs, o) ELSE without
     /\ triggers' = IF adds THEN triggers \o ParentEvents(Added(without, objs, o).added) ELSE triggers
     /\ handled' = handled \cup ({event.id} \ {0})
     /\ hand' = [hand EXCEPT !["scheduler"] = NoEvent]
     /\ answer' = [answer EXCEPT !["scheduler"] = NoAnswer]
     /\ upsets' = upsets \cup (IF o = Raised THEN {"refresh"}
                               ELSE IF adds /\ event.id = 0 /\ event.key # Latest(event.key[1]) THEN {"stale"} ELSE {})
     /\ IF raises THEN pc' = "asleep" /\ wake' = TRUE
        ELSE UNCHANGED pc /\ wake' = (wake \/ triggers' # triggers)
     /\ UNCHANGED <<gerrit, objs, cache, calls, sent, events, merges, exitVars, saved>>

EndEvents ==
  /\ pc = "events" /\ triggers = <<>> /\ hand["scheduler"] = NoEvent
  /\ pc' = IF exiting THEN "pause" ELSE "process"
  /\ UNCHANGED <<gerrit, cacheVars, sent, events, hand, triggers, wake, pipeline, merges, exitVars, history>>

(* processQueue, until it changes nothing more.                            *)
Process ==
  /\ pc = "process"
  /\ LET done == ProcessQueue(pipeline, objs)
     IN /\ pipeline' = done.pipeline /\ merges' = merges + done.asked
        /\ pc' = IF done.pipeline = pipeline THEN "asleep" ELSE "process"
  /\ UNCHANGED <<gerrit, cacheVars, sent, events, hand, triggers, wake, exitVars, history>>

(* A reconfiguration: the cache loses what no item relates to.  Bound: but *)
(* for the first one, it comes while the connector is at work.             *)
Reconfigure ==
  /\ pc = "results"
  /\ cache' = Maintained({pipeline[k[1]][k[2]].obj : k \in AllItems(pipeline)})
  /\ \/ boot = "loading" /\ boot' = "configured" /\ UNCHANGED upsets
     \/ boot = "resumed" /\ calls["connector"] # <<>> /\ Upset("flush") /\ UNCHANGED boot
  /\ UNCHANGED <<gerrit, objs, calls, answer, sent, events, hand, triggers, loopVars, exiting,
                 file, exits, handled, saved>>

-----------------------------------------------------------------------------
IdsOf(es) == {e.id : e \in ToSet(es)} \ {0}

(* The end of Zuul and a new beginning.  Bound: the exit is asked for      *)
(* where the run loop looks for it next, with an event in its queue.       *)
Exit ==
  /\ Up /\ boot = "resumed" /\ ~exiting
  /\ pc \in {"asleep", "events"} /\ IdsOf(triggers) # {}
  /\ exits < MaxExits /\ upsets \subseteq {"restart"}
  /\ exiting' = TRUE /\ wake' = TRUE /\ exits' = exits + 1
  /\ UNCHANGED <<gerrit, cacheVars, sent, events, hand, triggers, pc, pipeline, merges, boot,
                 file, history>>

AreAllBuildsComplete == merges = 0 /\ ItemsAt(pipeline, "running") = {}

(* _doPauseEvent, _save_queue.                                             *)
Pause ==
  /\ pc = "pause"
  /\ IF AreAllBuildsComplete
     THEN /\ pc' = "saved" /\ triggers' = <<>>
          /\ file' = IF triggers = <<>> THEN file ELSE triggers
          /\ saved' = saved \cup IdsOf(triggers)
     ELSE pc' = "process" /\ UNCHANGED <<file, triggers, saved>>
  /\ UNCHANGED <<gerrit, cacheVars, sent, events, hand, wake, pipeline, merges, exiting, boot,
                 exits, handled, upsets>>

(* os._exit: nothing in memory survives.                                   *)
Die ==
  /\ pc = "saved"
  /\ pc' = "down" /\ wake' = FALSE /\ pipeline' = <<>> /\ merges' = 0
  /\ events' = <<>> /\ triggers' = <<>> /\ hand' = [t \in Thread |-> NoEvent]
  /\ objs' = <<>> /\ cache' = <<>> /\ calls' = [t \in Thread |-> <<>>]
  /\ answer' = [t \in Thread |-> NoAnswer]
  /\ exiting' = FALSE /\ boot' = "loading" /\ upsets' = upsets \cup {"restart"}
  /\ UNCHANGED <<gerrit, sent, file, exits, handled, saved>>

(* main: the scheduler and the connections start, then the first layout is *)
(* loaded, then the saved events.                                          *)
Start ==
  /\ pc = "down"
  /\ pc' = "asleep" /\ wake' = TRUE
  /\ UNCHANGED <<gerrit, cacheVars, sent, events, hand, triggers, pipeline, merges, exitVars, history>>

(* mutant: the file is left where it is.                                   *)
LeaveFile == file

(* _load_queue, _delete_queue.                                             *)
FileAfterResume == <<>>

Resume ==
  /\ Up /\ boot = "configured" /\ boot' = "resumed"
  /\ triggers' = triggers \o file
  /\ file' = FileAfterResume
  /\ wake' = TRUE
  /\ UNCHANGED <<gerrit, cacheVars, sent, events, hand, pc, pipeline, merges, exiting, exits, history>>

Connector == TakeEvent \/ Deliver \/ Updating("connector")
Scheduler ==
  \/ WakeUp \/ BuildCompleted \/ MergeCompleted \/ EndResults \/ TakeTrigger \/ HandleTrigger
  \/ EndEvents \/ Process \/ Pause \/ Updating("scheduler")
Main == Reconfigure \/ Die \/ Start \/ Resume

Next ==
  \/ Gerrit \/ Connector \/ Scheduler \/ Main \/ Exit
  \/ \E t \in Thread : Fails(t)

Spec == Init /\ [][Next]_vars

-----------------------------------------------------------------------------
(* Properties.                                                             *)

(* No query failed and no walk found a cycle, no cache was flushed while   *)
(* the connector was at work, and Zuul was not restarted.                  *)
NothingFailed == upsets \cap {"refresh", "flush", "restart"} = {}

(* detect_cycle, source/gerrit.py: no chain of needed changes in the cache *)
(* or in a pipeline leads back to where it began, whatever Gerrit holds,   *)
(* although a change is updated while others are only half known - unless  *)
(* needs were set between a walk and the assignment that it was made for.  *)
NeedsAcyclic ==
  "overtaken" \notin upsets =>
    \A S \in (SUBSET DOMAIN objs) \ {{}} : \E o \in S : objs[o].needs \cap S = {}

(* _handleEvent refreshes before it hands on: the scheduler never gets a   *)
(* change that has not been filled in, unless a query failed, the cache    *)
(* was flushed or Zuul was restarted.  After a restart a saved event does  *)
(* meet the change that the connector has cached but not filled in yet     *)
(* (source/gerrit.py:163-171).                                             *)
WholeWhenUsed ==
  NothingFailed /\ answer["scheduler"] > 0 => objs[answer["scheduler"]].whole

(* _updateChange refreshes the dependents: when the scheduler has come to  *)
(* a new patchset, the cached changes that depend on it have been moved to *)
(* it, but for updates under way - unless a query failed, the cache was    *)
(* flushed or Zuul was restarted.                                          *)
LatestNeeded ==
  LET event == hand["scheduler"]
  IN /\ NothingFailed /\ \A t \in Thread : calls[t] = <<>>
     /\ event.type = "patchset-created" /\ event.key = Latest(event.key[1])
     /\ gerrit.status[event.key[1]] = "open"
     => \A m \in Number :
          /\ event.key[1] \in gerrit.needs[m] /\ gerrit.status[m] = "open"
          /\ Latest(m) \in DOMAIN cache
          => \E d \in objs[cache[Latest(m)]].needs : KeyOf(d) = event.key

(* _save_queue and resume: an event is never in two places, to be handled  *)
(* twice, and one that is saved at an exit is never lost on its way to the *)
(* pipelines of the next life.                                             *)
HandledOnce ==
  LET waiting == events \o triggers \o file \o <<hand["connector"], hand["scheduler"]>>
      Copies(n) == Cardinality({i \in DOMAIN waiting : waiting[i].id = n})
  IN /\ \A n \in handled : Copies(n) = 0
     /\ \A n \in 1..sent : Copies(n) <= 1
     /\ \A n \in saved \ handled : Copies(n) = 1

(* removeOldVersionsOfChange: when all events are handled, only one        *)
(* patchset of a change is being tested - unless events were lost, or the  *)
(* zuul trigger was late with a patchset that has been replaced.           *)
OneVersionLive ==
  /\ upsets \cap {"refresh", "restart", "stale"} = {}
  /\ events \o triggers \o file = <<>> /\ hand = [t \in Thread |-> NoEvent]
  => \A k, l \in LiveItems(pipeline) :
       objs[pipeline[k[1]][k[2]].obj].num = objs[pipeline[l[1]][l[2]].obj].num => k = l

(* enqueueChangesAhead and _processOneItem: whenever Zuul sleeps, every    *)
(* queue ends in its one live item, which has all it needs ahead of it, by *)
(* the latest the cache knows; so have those ahead in the same queue, at   *)
(* whatever place, for what they need is looked up but not moved.  (Unless *)
(* a refresh broke off.)                                                   *)
QueuesCarryNeeds ==
  pc = "asleep" /\ ~wake /\ hand["connector"] = NoEvent /\ "refresh" \notin upsets =>
    \A k \in AllItems(pipeline) :
      LET q == pipeline[k[1]]
      IN /\ q[k[2]].live <=> k[2] = Len(q)
         /\ \A d \in objs[q[k[2]].obj].needs :
              objs[d].merged \/ \E i \in DOMAIN q \ {k[2]} : Equals(objs, d, q[i].obj)

(* The run loop never sleeps on work: whoever adds an event or a saved one *)
(* wakes it, and a wake-up while it is busy is not lost.  (Once it is told *)
(* to exit, events are left for the file.)                                 *)
NeverSleepsOnWork ==
  pc = "asleep" /\ ~wake /\ ~exiting => triggers = <<>> /\ hand["scheduler"] = NoEvent
=============================================================================
