---------------------------- MODULE ChangeQueue ----------------------------
(***************************************************************************)
(* The change queue on its own: the operations of zuul/model.py's          *)
(* ChangeQueue in any order its callers (the pipeline managers) may use.   *)
(***************************************************************************)
EXTENDS ChangeQueueOps

VARIABLES q, window
vars == <<q, window>>

Init == q = EmptyQueue /\ window = InitWindow

(* enqueueChange makes a fresh item: it has no links yet.                  *)
Enqueue(i) ==
  /\ i \notin Queued(q)
  /\ q' = EnqueueItem(q, i)
  /\ UNCHANGED window

Dequeue(i) ==
  /\ q' = DequeueItem(q, i)
  /\ UNCHANGED window

(* The only caller moves an item behind the nearest non-failing item,      *)
(* which processQueue met earlier in the list, or to the head.             *)
Move(i, a) ==
  /\ i \in Queued(q)
  /\ a = NoItem \/ Precedes(q, a, i)
  /\ q' = MoveItem(q, i, a)
  /\ UNCHANGED window

Increase == window' = IncreasedWindow(window) /\ UNCHANGED q
Decrease == window' = DecreasedWindow(window) /\ UNCHANGED q

Next ==
  \/ \E i \in Item : Enqueue(i)
  \/ \E i \in Item : Dequeue(i)
  \/ \E i \in Item : \E a \in Item \cup {NoItem} : Move(i, a)
  \/ Increase
  \/ Decrease

Spec == Init /\ [][Next]_vars

-----------------------------------------------------------------------------
(* Properties.                                                             *)

(* The list holds items, a link is an item or nothing, and the window is   *)
(* never negative, for any factors and floor.                              *)
TypeOK == q \in Queues /\ window \in Nat

(* The list and the links stay consistent whatever operations the managers *)
(* perform: no item twice in the list, item_ahead earlier in the list and  *)
(* still queued, items_behind the inverse of item_ahead.                   *)
LinksConsistent == WellLinked(q)

(* The two walks agree: following items_behind from i reaches exactly the  *)
(* items whose chain of item_ahead leads through i.                        *)
WalksAgree ==
  \A i, j \in Queued(q) :
    (j \in WithBehind(q, i) \ {i}) <=> (i \in ToSet(ItemsAhead(q, j)))

(* Rate limiting can be neither lost nor gained: increaseWindowSize and    *)
(* decreaseWindowSize treat 0 as "unlimited", so a window that shrank to 0 *)
(* would let every queued item run at once, for ever.                      *)
RateLimitKept == (window = 0) <=> (InitWindow = 0)
=============================================================================
