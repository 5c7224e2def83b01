-------------------------- MODULE ChangeQueueOps --------------------------
(***************************************************************************)
(* The change queue of a pipeline (zuul/model.py, class ChangeQueue): the  *)
(* list of items in the order they were enqueued, the item each one is     *)
(* tested on top of (item_ahead), the inverse lists (items_behind), and    *)
(* the window that limits how many items may run jobs.                     *)
(*                                                                         *)
(* The list order and the item_ahead links are two different orders: a     *)
(* failing item keeps its place in the list while the items behind it are  *)
(* moved ahead of it in the tree of links.  The managers walk the links    *)
(* (getDependentItems, setConfiguration, cancelJobs) and the list          *)
(* (processQueue, isActionable), so the two must stay consistent.          *)
(*                                                                         *)
(* The operators work on a record, so that a handler that performs several *)
(* of them composes them.  Module ChangeQueue is the structure on its own, *)
(* used one operation at a time; module Gate uses it as its managers do.   *)
(***************************************************************************)
EXTENDS Integers, Sequences, SequencesExt

CONSTANTS
  Item,            (* the QueueItem objects                                 *)
  NoItem,          (* None in item_ahead                                    *)
  InitWindow,      (* pipeline.window; 0 disables rate limiting             *)
  WindowFloor,     (* pipeline.window_floor                                 *)
  IncreaseType,    (* "linear" or "exponential"                             *)
  IncreaseFactor,
  DecreaseType,
  DecreaseFactor

(* The ranges layoutvalidator.py enforces.                                 *)
ASSUME WindowAssumption ==
  /\ InitWindow \in Nat
  /\ WindowFloor \in Nat \ {0}
  /\ IncreaseFactor \in Nat \ {0}
  /\ DecreaseFactor \in Nat \ {0}
  /\ {IncreaseType, DecreaseType} \subseteq {"linear", "exponential"}

ASSUME NoItemAssumption == NoItem \notin Item

-----------------------------------------------------------------------------
(* The record [order, ahead, behind] and the operations on it.             *)

Queues == [order  : Seq(Item),
           ahead  : [Item -> Item \cup {NoItem}],
           behind : [Item -> SUBSET Item]]

EmptyQueue == [order  |-> <<>>,
               ahead  |-> [i \in Item |-> NoItem],
               behind |-> [i \in Item |-> {}]]

Queued(q) == {q.order[n] : n \in DOMAIN q.order}

Position(q, i) == CHOOSE n \in DOMAIN q.order : q.order[n] = i

Precedes(q, a, i) ==
  \E m, n \in DOMAIN q.order : m < n /\ q.order[m] = a /\ q.order[n] = i

(* enqueueItem: the new item goes behind the last one of the list, failing *)
(* or not.                                                                 *)
EnqueueItem(q, i) ==
  LET last == q.order[Len(q.order)]
  IN  [order  |-> Append(q.order, i),
       ahead  |-> IF q.order = <<>> THEN q.ahead ELSE [q.ahead EXCEPT ![i] = last],
       behind |-> IF q.order = <<>> THEN q.behind
                  ELSE [q.behind EXCEPT ![last] = @ \cup {i}]]

(* What dequeueItem and moveItem share: i leaves its place in the tree and *)
(* the items behind it are handed to the item ahead of it.                 *)
UnlinkedAhead(q, i) ==
  [j \in Item |-> IF j \in q.behind[i] THEN q.ahead[i] ELSE q.ahead[j]]

(* mutant: the item ahead keeps i in its items_behind.                     *)
UnlinkedBehindStale(q, i) ==
  [j \in Item |-> IF j = i THEN {}
                  ELSE IF j = q.ahead[i] THEN q.behind[j] \cup q.behind[i]
                  ELSE q.behind[j]]

UnlinkedBehind(q, i) ==
  [j \in Item |-> IF j = i THEN {}
                  ELSE IF j = q.ahead[i] THEN (q.behind[j] \ {i}) \cup q.behind[i]
                  ELSE q.behind[j]]

(* mutant: the items behind i keep pointing at it.                         *)
DequeueItemAlone(q, i) ==
  [order  |-> IF i \in Queued(q) THEN RemoveAt(q.order, Position(q, i)) ELSE q.order,
   ahead  |-> [q.ahead EXCEPT ![i] = NoItem],
   behind |-> UnlinkedBehind(q, i)]

DequeueItem(q, i) ==
  [order  |-> IF i \in Queued(q) THEN RemoveAt(q.order, Position(q, i)) ELSE q.order,
   ahead  |-> [UnlinkedAhead(q, i) EXCEPT ![i] = NoItem],
   behind |-> UnlinkedBehind(q, i)]

(* moveItem re-links i behind a; the list does not change.                 *)
MoveItem(q, i, a) ==
  IF q.ahead[i] = a THEN q
  ELSE [order  |-> q.order,
        ahead  |-> [UnlinkedAhead(q, i) EXCEPT ![i] = a],
        behind |-> [j \in Item |-> IF j = a THEN UnlinkedBehind(q, i)[j] \cup {i}
                                   ELSE UnlinkedBehind(q, i)[j]]]

(* isActionable: a window of 0 means no limit.                             *)
IsActionable(q, w, i) ==
  w = 0 \/ \E n \in DOMAIN q.order : n <= w /\ q.order[n] = i

IncreasedWindow(w) ==
  IF w = 0 THEN 0
  ELSE IF IncreaseType = "linear" THEN w + IncreaseFactor ELSE w * IncreaseFactor

(* mutants: the floor is forgotten, with either kind of decrease.          *)
DecreasedLinearly(w) == IF w = 0 THEN 0 ELSE w - DecreaseFactor
DecreasedToNothing(w) == w \div DecreaseFactor

DecreasedWindow(w) ==
  LET smaller == IF DecreaseType = "linear" THEN w - DecreaseFactor
                 ELSE w \div DecreaseFactor
  IN  IF w = 0 THEN 0 ELSE IF smaller < WindowFloor THEN WindowFloor ELSE smaller

(* The items whose item_ahead chain leads to i, i included: what a         *)
(* recursive cancelJobs(i) visits by following items_behind.               *)
WithBehind(q, i) ==
  LET tree[j \in Item] == {j} \cup UNION {tree[b] : b \in q.behind[j]}
  IN  tree[i]

(* getDependentItems: the chain of items ahead of i, nearest first.        *)
ItemsAhead(q, i) ==
  LET chain[j \in Item] ==
        IF q.ahead[j] = NoItem THEN <<>> ELSE <<q.ahead[j]>> \o chain[q.ahead[j]]
  IN  chain[i]

-----------------------------------------------------------------------------
(* No item is twice in the list.                                           *)
OrderIsInjective(q) ==
  \A m, n \in DOMAIN q.order : q.order[m] = q.order[n] => m = n

(* item_ahead always points at an item that is still queued and earlier in *)
(* the list.  The walks over item_ahead therefore end, and an item that    *)
(* left the queue keeps no link into it.                                   *)
AheadIsEarlier(q) ==
  \A i \in Item : q.ahead[i] # NoItem => Precedes(q, q.ahead[i], i)

(* items_behind is exactly the inverse of item_ahead: the recursion of     *)
(* cancelJobs over items_behind reaches every item tested on top of the    *)
(* canceled one and no other.                                              *)
BehindIsInverse(q) ==
  \A i, j \in Item : j \in q.behind[i] <=> q.ahead[j] = i

WellLinked(q) == OrderIsInjective(q) /\ AheadIsEarlier(q) /\ BehindIsInverse(q)
=============================================================================
