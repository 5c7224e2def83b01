---------------------------- MODULE ChangeCache ----------------------------
(***************************************************************************)
(* The cache of changes of a Gerrit connection (zuul/connection/gerrit.py) *)
(* and its users: GerritSource._getChange and _updateChange, which the     *)
(* event connector and the scheduler run at the same time and without a    *)
(* lock.  Between any two queries to Gerrit the other thread may run.      *)
(*                                                                         *)
(* A Change object is a number, an index of objs; the cache maps keys,     *)
(* <<number, patchset>>, to objects.  The needs of a change are those of   *)
(* its Depends-On lines; dependencies of git commits take the same way,    *)
(* without the refresh of the dependents.                                  *)
(***************************************************************************)
EXTENDS Integers, Sequences, FiniteSets, SequencesExt

CONSTANTS
  Number,          (* the numbers of the changes in Gerrit                  *)
  NeedsAtFirst     (* [Number -> SUBSET Number]: the needs of the changes   *)
                   (* that are there when Zuul first comes up               *)

ASSUME NeedsAssumption == NeedsAtFirst \in [Number -> SUBSET Number]

Thread == {"connector", "scheduler"}

VARIABLES
  gerrit,          (* [latest, needs, status] of every change               *)
  objs,            (* the Change objects, in the order they were made       *)
  cache,           (* connection._change_cache                              *)
  calls,           (* of each thread: its calls of _updateChange, nested    *)
  answer           (* of each thread: what its outermost call returned      *)

cacheVars == <<objs, cache, calls, answer>>

NoAnswer == 0
Raised == -1

Latest(n) == <<n, gerrit.latest[n]>>
KeyOf(o) == <<objs[o].num, objs[o].ps>>

(* Change(None): whole says whether an update has filled it in yet.        *)
NewObject(key) ==
  [num |-> key[1], ps |-> key[2], whole |-> FALSE, current |-> TRUE, merged |-> FALSE,
   needs |-> {}, neededBy |-> {}]

CacheInit ==
  /\ gerrit = [latest |-> [n \in Number |-> 1], needs |-> NeedsAtFirst,
               status |-> [n \in Number |-> "open"]]
  /\ objs = <<>> /\ cache = <<>>
  /\ calls = [t \in Thread |-> <<>>] /\ answer = [t \in Thread |-> NoAnswer]

-----------------------------------------------------------------------------
(* What a thread holds is [objs, cache, calls, answer] with its own calls  *)
(* and answer.                                                             *)
Own(t) == [objs |-> objs, cache |-> cache, calls |-> calls[t], answer |-> answer[t]]
Becomes(t, s) ==
  /\ objs' = s.objs /\ cache' = s.cache
  /\ calls' = [calls EXCEPT ![t] = s.calls] /\ answer' = [answer EXCEPT ![t] = s.answer]

Top(s) == s.calls[Len(s.calls)]
WithTop(s, frame) == [s EXCEPT !.calls = Append(Front(@), frame)]

(* mutant: the walk is left out.                                           *)
NeverCycle(os, o, history) == FALSE

(* detect_cycle: a walk along needs_changes from o, on which the history   *)
(* grows by every change it leaves, comes to a change of the history.      *)
(* (After(x) is what it comes to from x.)                                  *)
HasCycle(os, o, history) ==
  LET closed == {C \in SUBSET DOMAIN os : \A c \in C : os[c].needs \subseteq C}
      After(x) == {d \in DOMAIN os : \A C \in closed : os[x].needs \subseteq C => d \in C}
  IN \E x \in {o} \cup After(o) : \E d \in After(x) : os[d].num \in history \cup {os[x].num}

(* An exception leaves every call, and each drops its change's key.        *)
Raise(s) ==
  LET keys == {<<s.objs[f.obj].num, s.objs[f.obj].ps>> : f \in ToSet(s.calls)}
  IN [s EXCEPT !.cache = [k \in DOMAIN @ \ keys |-> @[k]],
               !.calls = <<>>, !.answer = Raised]

(* A call returns object o to the call that made it, or to the thread.     *)
Return(s, o) ==
  IF s.calls = <<>> THEN [s EXCEPT !.answer = o]
  ELSE LET f == Top(s)
       IN CASE f.phase = "needs" ->
                 IF HasCycle(s.objs, o, f.history) THEN Raise(s)
                 ELSE WithTop(s, [f EXCEPT !.got = IF s.objs[o].merged THEN @ ELSE @ \cup {o}])
            [] f.phase = "neededBy" ->
                 WithTop(s, [f EXCEPT !.got =
                   IF s.objs[o].merged \/ ~s.objs[o].current THEN @ ELSE @ \cup {o}])

(* _getChange: a change that is not in the cache is put there, and updated *)
(* after that.                                                             *)
GetChange(s, key, refresh, history) ==
  LET hit == key \in DOMAIN s.cache
      made == IF hit THEN s.objs ELSE Append(s.objs, NewObject(key))
      o == IF hit THEN s.cache[key] ELSE Len(made)
  IN IF hit /\ ~refresh THEN Return(s, o)
     ELSE [s EXCEPT !.objs = made,
                    !.cache = [k \in DOMAIN @ \cup {key} |-> IF k = key THEN o ELSE @[k]],
                    !.calls = Append(@, [obj |-> o, history |-> history, phase |-> "query",
                                         deps |-> {}, todo |-> {}, got |-> {}])]

-----------------------------------------------------------------------------
(* _updateChange, from one query to the next.                              *)
Calling(t, phase) == calls[t] # <<>> /\ Top(Own(t)).phase = phase

(* The change itself.  A merged one is not looked into any further.        *)
Query(t) ==
  /\ Calling(t, "query")
  /\ LET s == Own(t)
         f == Top(s)
         n == s.objs[f.obj].num
         merged == gerrit.status[n] = "merged"
         filled == [s EXCEPT !.objs[f.obj].whole = TRUE, !.objs[f.obj].merged = merged,
                             !.objs[f.obj].current = (s.objs[f.obj].ps = gerrit.latest[n])]
     IN Becomes(t, IF merged THEN Return([filled EXCEPT !.calls = Front(@)], f.obj)
                   ELSE WithTop(filled, [f EXCEPT !.history = @ \cup {n}, !.phase = "depends",
                                                  !.deps = gerrit.needs[n]]))
  /\ UNCHANGED gerrit

(* _getDependsOnFromCommit.                                                *)
Depends(t) ==
  /\ Calling(t, "depends")
  /\ LET f == Top(Own(t))
     IN Becomes(t, WithTop(Own(t), [f EXCEPT !.phase = "needs",
                                             !.todo = {Latest(n) : n \in f.deps}]))
  /\ UNCHANGED gerrit

GetNeeded(t) ==
  /\ Calling(t, "needs")
  /\ \E key \in Top(Own(t)).todo :
       LET f == Top(Own(t))
           s == WithTop(Own(t), [f EXCEPT !.todo = @ \ {key}])
       IN Becomes(t, IF key[1] \in f.history THEN Raise(s)
                     ELSE GetChange(s, key, FALSE, f.history))
  /\ UNCHANGED gerrit

(* mutant: the dependents are taken as they are in the cache.              *)
RefreshNever == FALSE

RefreshDependents == TRUE

(* needs_changes is set; _getNeededByFromCommit looks for the dependents.  *)
Dependents(t) ==
  /\ Calling(t, "needs") /\ Top(Own(t)).todo = {}
  /\ LET s == Own(t)
         f == Top(s)
         n == s.objs[f.obj].num
     IN Becomes(t, WithTop([s EXCEPT !.objs[f.obj].needs = f.got],
                           [f EXCEPT !.phase = "neededBy", !.got = {},
                                     !.todo = {Latest(m) : m \in {k \in Number : n \in gerrit.needs[k]}}]))
  /\ UNCHANGED gerrit

GetDependent(t) ==
  /\ Calling(t, "neededBy")
  /\ \E key \in Top(Own(t)).todo :
       LET s == WithTop(Own(t), [Top(Own(t)) EXCEPT !.todo = @ \ {key}])
       IN Becomes(t, GetChange(s, key, RefreshDependents, {}))
  /\ UNCHANGED gerrit

Updated(t) ==
  /\ Calling(t, "neededBy") /\ Top(Own(t)).todo = {}
  /\ LET s == Own(t)
         f == Top(s)
     IN Becomes(t, Return([s EXCEPT !.objs[f.obj].neededBy = f.got, !.calls = Front(@)], f.obj))
  /\ UNCHANGED gerrit

(* Gerrit does not answer a query.                                         *)
QueryFails(t) ==
  /\ Calling(t, "query") \/ Calling(t, "depends")
       \/ (Calling(t, "needs") /\ Top(Own(t)).todo = {})
  /\ Becomes(t, Raise(Own(t)))
  /\ UNCHANGED gerrit

Update(t) ==
  Query(t) \/ Depends(t) \/ GetNeeded(t) \/ Dependents(t) \/ GetDependent(t) \/ Updated(t)

-----------------------------------------------------------------------------
(* getRelatedChanges, which never ends if changes are needed by each other *)
(* in a circle.                                                            *)
Endless(o) ==
  LET turns[walk \in (DOMAIN objs) \X (SUBSET DOMAIN objs)] ==
        \/ walk[1] \in walk[2]
        \/ \E d \in objs[walk[1]].neededBy : turns[<<d, walk[2] \cup {walk[1]}>>]
  IN turns[<<o, {}>>]
Related(o) ==
  LET related[d \in DOMAIN objs] ==
        objs[d].needs \cup objs[d].neededBy \cup UNION {related[e] : e \in objs[d].neededBy}
  IN related[o]

(* maintainConnectionCache: what the items of the pipelines do not relate  *)
(* to is dropped.                                                          *)
Maintained(used) ==
  LET relevant == used \cup UNION {Related(o) : o \in used}
  IN IF \E o \in used : Endless(o) THEN cache
     ELSE [k \in {key \in DOMAIN cache : cache[key] \in relevant} |-> cache[k]]
=============================================================================
