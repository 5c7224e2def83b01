------------------------------- MODULE Merger -------------------------------
(***************************************************************************)
(* One merger (zuul/merger/merger.py, server.py): it merges the items of a *)
(* request one after the other and names the results by the refs of the    *)
(* items.  It works on one request at a time, and keeps its repositories   *)
(* between requests: what an earlier request merged is found again.  Other *)
(* mergers take other requests, so it sees only some of them.              *)
(*                                                                         *)
(* A commit is the sequence of what is in it: items, which are numbers     *)
(* from 1 on, and Other for what came from outside.  A request has, for    *)
(* each item, [key, ref]: the key stands for a branch of a project, the    *)
(* ref for the item's build set.                                           *)
(* A merger is [tip, refs]: the tips of the branches in Gerrit, and for    *)
(* pairs of a key and a ref the commit.                                    *)
(***************************************************************************)
EXTENDS Integers, Sequences, FiniteSets, SequencesExt

Other == 0
None == <<>>
Found(refs, key, ref) == IF <<key, ref>> \in DOMAIN refs THEN refs[<<key, ref>>] ELSE None

(* mutant: a commit found is not remembered as the most recent one.        *)
FoundForgotten(recent, key, commit) == recent

(* A commit that is found counts as the most recent one of its branch.     *)
Remembered(recent, key, commit) == (key :> commit) @@ recent

(* mutant: only the item's own branch gets its ref.                        *)
SetOwnRef(refs, recent, item, broken) ==
  (<<item.key, item.ref>> :> recent[item.key]) @@ refs

(* The item's ref is set in every branch the request has dealt with so     *)
(* far; the one in broken cannot be written.                               *)
SetRefs(refs, recent, item, broken) ==
  [kr \in {<<k, item.ref>> : k \in DOMAIN recent \ broken} |-> recent[kr[1]]] @@ refs

(* _mergeItem, _mergeChange: item is merged on the most recent commit of   *)
(* its branch in this request, or on the tip of the branch, which is       *)
(* fetched for that.  s is [refs, recent, commit] of the request so far.   *)
MergeItem(s, item, tip, conflicts, broken) ==
  LET found == Found(s.refs, item.key, item.ref)
      base == IF item.key \in DOMAIN s.recent THEN s.recent[item.key] ELSE tip[item.key]
      new == (item.key :> Append(base, item.ref)) @@ s.recent
  IN IF found # None
     THEN [s EXCEPT !.recent = Remembered(@, item.key, found), !.commit = found]
     ELSE IF \E k \in DOMAIN base : {base[k], item.ref} \in conflicts
     THEN [s EXCEPT !.commit = None]
     ELSE [refs |-> SetRefs(s.refs, new, item, broken), recent |-> new,
           commit |-> IF broken \cap DOMAIN new = {} THEN new[item.key] ELSE None]

(* mergeChanges: nothing after an item that did not merge.                 *)
MergeChanges(refs, items, tip, conflicts, broken) ==
  FoldLeft(LAMBDA s, k : IF k > 1 /\ s.commit = None THEN s
                         ELSE MergeItem(s, items[k], tip, conflicts, broken),
           [refs |-> refs, recent |-> <<>>, commit |-> None],
           [k \in DOMAIN items |-> k])

-----------------------------------------------------------------------------
(* A script of what happens to the merger.  keys and parent give the items *)
(* their branches and the item ahead (0: none); [op |-> "merge"] is the    *)
(* request of an item, which names the items ahead that have not landed;   *)
(* "land" puts an item on its branch, "push" something else.               *)
RECURSIVE Chain(_, _)
Chain(parent, r) == IF r = 0 THEN <<>> ELSE Append(Chain(parent, parent[r]), r)

Asked(g, m, r) ==
  LET chain == SelectSeq(Chain(g.parent, r), LAMBDA i : i \notin m.landed)
  IN [k \in DOMAIN chain |-> [key |-> g.keys[chain[k]], ref |-> chain[k]]]

Start(g, keys) ==
  [tip |-> [k \in keys |-> <<Other>>], refs |-> <<>>, landed |-> {},
   past |-> [k \in keys |-> {<<Other>>}], answers |-> <<>>]

Moved(m, key, what) ==
  LET new == Append(m.tip[key], what)
  IN [m EXCEPT !.tip[key] = new, !.past[key] = @ \cup {new}]

Happens(g, m, e) ==
  CASE e.op = "merge" ->
         LET s == MergeChanges(m.refs, Asked(g, m, e.item), m.tip, g.conflicts, e.broken)
         IN [m EXCEPT !.refs = s.refs,
                      !.answers = Append(@, [item |-> e.item, commit |-> s.commit,
                                             items |-> Asked(g, m, e.item),
                                             broken |-> e.broken])]
    [] e.op = "land" -> [Moved(m, g.keys[e.item], e.item) EXCEPT !.landed = @ \cup {e.item}]
    [] e.op = "push" -> Moved(m, e.key, Other)

(* Reference: a commit is a state the branch was in, and on top of it the  *)
(* items of the branch that are ahead, in order, and the item itself; the  *)
(* item's ref in each branch of the request names what was merged last     *)
(* there; and a request fails only for a conflict or a ref that cannot be  *)
(* written.                                                                *)
MergedAsAsked(g, keys) ==
  LET m == FoldLeft(LAMBDA x, e : Happens(g, x, e), Start(g, keys), g.script)
      OfKey(r, key) == SelectSeq(Chain(g.parent, r), LAMBDA i : g.keys[i] = key)
  IN \A k \in DOMAIN m.answers :
       LET a == m.answers[k]
           key == g.keys[a.item]
       IN IF a.commit = None
          THEN a.broken # {} \/ g.conflicts # {}
          ELSE /\ \E t \in m.past[key] :
                    a.commit = t \o SelectSeq(OfKey(a.item, key),
                                              LAMBDA i : \A n \in DOMAIN t : t[n] # i)
               /\ \A other \in {a.items[n].key : n \in DOMAIN a.items} :
                    LET last == OfKey(a.item, other)[Len(OfKey(a.item, other))]
                    IN /\ Found(m.refs, other, a.item) # None
                       /\ Found(m.refs, other, a.item) = Found(m.refs, other, last)
=============================================================================
