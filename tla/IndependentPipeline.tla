------------------------ MODULE IndependentPipeline ------------------------
(***************************************************************************)
(* An independent pipeline (IndependentPipelineManager, with what it has   *)
(* from BasePipelineManager): a queue of its own for every change, behind  *)
(* the changes it needs, which are merged but not tested.                  *)
(*                                                                         *)
(* A pipeline is a sequence of queues, a queue a sequence of items         *)
(* [obj, live, stage]; objs are the Change objects (module ChangeCache).   *)
(* The stages of an item: "new", "merging" while a merger works on it,     *)
(* "merged", "running" while its builds run, and "done".                   *)
(***************************************************************************)
EXTENDS Integers, Sequences, FiniteSets, SequencesExt

Equals(objs, a, b) == objs[a].num = objs[b].num /\ objs[a].ps = objs[b].ps
IsUpdateOf(objs, a, b) == objs[a].num = objs[b].num /\ objs[a].ps > objs[b].ps

(* getAllItems, as places: the item's queue, and its place there.          *)
AllItems(p) == UNION {{k} \X DOMAIN p[k] : k \in DOMAIN p}
LiveItems(p) == {k \in AllItems(p) : p[k[1]][k[2]].live}
AlreadyInPipeline(p, objs, o) == \E k \in LiveItems(p) : Equals(objs, o, p[k[1]][k[2]].obj)
AlreadyInQueue(q, objs, o) == \E i \in DOMAIN q : Equals(objs, o, q[i].obj)

(* mutant: what is in the queue is not looked at again.                    *)
NoneNeeded(q, objs, o) == {}

(* checkForChangesNeededBy: the changes that should be ahead and are not.  *)
ChangesNeeded(q, objs, o) ==
  {d \in objs[o].needs : ~objs[d].merged /\ ~AlreadyInQueue(q, objs, d)}

Stage == {"new", "merging", "merged", "running", "done"}
Item(o, live) == [obj |-> o, live |-> live, stage |-> "new"]

(* What addChange has done to a queue so far: added are the changes        *)
(* enqueued, in order.                                                     *)
Outcome(objs) ==
  [queue : Seq([obj : DOMAIN objs, live : BOOLEAN, stage : Stage]), added : Seq(DOMAIN objs),
   failed : BOOLEAN]
NotAdded == [queue |-> <<>>, added |-> <<>>, failed |-> FALSE]

(* addChange in one queue, with enqueueChangesAhead, which adds what o     *)
(* needs by addChange again, here the function nested.                     *)
EnqueueOne(nested, a, objs, o, live) ==
  LET AddNeeded(x, d) == IF x.failed THEN x ELSE nested[<<x, d, FALSE>>]
      b == FoldLeft(AddNeeded, a, SetToSeq(ChangesNeeded(a.queue, objs, o)))
  IN IF b.failed \/ AlreadyInQueue(b.queue, objs, o) THEN b
     ELSE [b EXCEPT !.queue = Append(@, Item(o, live)), !.added = Append(@, o)]

(* A call nested deeper than there are changes is on its way round changes *)
(* that need each other; it recurses until Python gives up.                *)
Enqueue(a, objs, o, live) ==
  LET add[d \in 0 .. Len(objs)] ==
        [call \in Outcome(objs) \X (DOMAIN objs) \X BOOLEAN |->
           IF d = 0 THEN [call[1] EXCEPT !.failed = TRUE]
           ELSE EnqueueOne(add[d - 1], call[1], objs, call[2], call[3])]
  IN add[Len(objs)][<<a, o, live>>]

(* addChange of a live change.  The queue made for it stays even if it is  *)
(* empty because of a failure: it is not the queue that is removed again.  *)
Added(p, objs, o) ==
  IF AlreadyInPipeline(p, objs, o) THEN NotAdded ELSE Enqueue(NotAdded, objs, o, TRUE)
AddChange(p, objs, o) ==
  IF AlreadyInPipeline(p, objs, o) THEN p ELSE Append(p, Added(p, objs, o).queue)

-----------------------------------------------------------------------------
(* dequeueItem: a queue left empty is removed.                             *)
WithQueue(p, k, q) == IF q = <<>> THEN RemoveAt(p, k) ELSE [p EXCEPT ![k] = q]
RemoveItem(p, k) == WithQueue(p, k[1], RemoveAt(p[k[1]], k[2]))

(* mutant: an old patchset stays.                                          *)
KeepOldVersions(p, objs, o) == p

(* removeOldVersionsOfChange: the first one found.                         *)
RemoveOldVersions(p, objs, o) ==
  LET old == {k \in LiveItems(p) : IsUpdateOf(objs, o, p[k[1]][k[2]].obj)}
  IN IF old = {} THEN p
     ELSE RemoveItem(p, CHOOSE k \in old : \A l \in old : k[1] <= l[1])

(* removeAbandonedChange.  A change is live only once.                     *)
RemoveAbandoned(p, objs, o) ==
  LET gone == {k \in LiveItems(p) : Equals(objs, o, p[k[1]][k[2]].obj)}
  IN IF gone = {} THEN p ELSE RemoveItem(p, CHOOSE k \in gone : TRUE)

-----------------------------------------------------------------------------
(* _processOneItem.  s is [queue, left, asked]: the queue, how many items  *)
(* have left it in this pass, and how many merges have been asked for.     *)
Dequeued(s, i) == [s EXCEPT !.queue = RemoveAt(@, i), !.left = @ + 1]

(* prepareRef and launchJobs; what is not live has no jobs to run.         *)
Prepared(s, i) ==
  LET item == s.queue[i]
  IN IF item.stage = "new" THEN [s EXCEPT !.queue[i].stage = "merging", !.asked = @ + 1]
     ELSE IF item.live /\ item.stage = "merged" THEN [s EXCEPT !.queue[i].stage = "running"]
     ELSE s

ProcessOneItem(s, objs, i) ==
  LET item == s.queue[i]
      alone == ~item.live /\ i = Len(s.queue)
  IN IF ChangesNeeded(s.queue, objs, item.obj) # {} THEN Dequeued(s, i)
     ELSE IF alone \/ (item.live /\ item.stage = "done") THEN Dequeued(Prepared(s, i), i)
     ELSE Prepared(s, i)

(* A pass of processQueue over one queue, and over all of them.            *)
Pass(q, objs) ==
  FoldLeft(LAMBDA s, i : ProcessOneItem(s, objs, i - s.left),
           [queue |-> q, left |-> 0, asked |-> 0], [i \in DOMAIN q |-> i])

ProcessQueue(p, objs) ==
  LET passed == [k \in DOMAIN p |-> Pass(p[k], objs)]
  IN [pipeline |-> FoldLeft(LAMBDA kept, k : IF passed[k].queue = <<>> /\ p[k] # <<>> THEN kept
                                             ELSE Append(kept, passed[k].queue),
                            <<>>, [k \in DOMAIN p |-> k]),
      asked |-> FoldLeft(LAMBDA n, k : n + passed[k].asked, 0, [k \in DOMAIN p |-> k])]

ItemsAt(p, stage) == {k \in AllItems(p) : p[k[1]][k[2]].stage = stage}
=============================================================================
