------------------------- MODULE ChangeQueueProofs -------------------------
(***************************************************************************)
(* The list and the links of a change queue stay consistent under every    *)
(* operation, for any number of items, and the rate limit of the window is *)
(* kept for any parameters the layout validator lets through.              *)
(*                                                                         *)
(* The invariant is inductive as it stands, once its three parts are taken *)
(* together: that item_ahead is earlier in the list makes every link stay  *)
(* inside the queue and the chain of links acyclic, and the inverse lists  *)
(* are what tells which links an operation has to change.                  *)
(***************************************************************************)
EXTENDS ChangeQueue, QueueFacts

-----------------------------------------------------------------------------
(* The inductive invariant.                                                *)

Inv == TypeOK /\ LinksConsistent /\ RateLimitKept

(* The empty queue with its initial window satisfies the invariant.        *)
LEMMA InitInv == Init => Inv
<1> SUFFICES ASSUME Init PROVE Inv
  OBVIOUS
<1>1. EmptyQueue \in Queues
  BY DEF EmptyQueue, Queues
<1>2. WellLinked(EmptyQueue)
  BY NoItemAssumption
  DEF EmptyQueue, WellLinked, OrderIsInjective, AheadIsEarlier, BehindIsInverse
<1> QED BY <1>1, <1>2, WindowAssumption DEF Init, Inv, TypeOK, LinksConsistent, RateLimitKept

(* Every operation of the queue keeps it.                                  *)
LEMMA NextInv == Inv /\ [Next]_vars => Inv'
<1> SUFFICES ASSUME Inv, [Next]_vars PROVE Inv'
  OBVIOUS
<1> USE DEF Inv, TypeOK, LinksConsistent, RateLimitKept
<1>1. ASSUME NEW i \in Item, Enqueue(i) PROVE Inv'
  BY <1>1, EnqueueKeepsLinks DEF Enqueue
<1>2. ASSUME NEW i \in Item, Dequeue(i) PROVE Inv'
  BY <1>2, DequeueKeepsLinks DEF Dequeue
<1>3. ASSUME NEW i \in Item, NEW a \in Item \cup {NoItem}, Move(i, a) PROVE Inv'
  BY <1>3, MoveKeepsLinks DEF Move
<1>4. CASE Increase
  BY <1>4, WindowStays DEF Increase
<1>5. CASE Decrease
  BY <1>5, WindowStays DEF Decrease
<1>6. CASE UNCHANGED vars
  BY <1>6 DEF vars
<1> QED BY <1>1, <1>2, <1>3, <1>4, <1>5, <1>6 DEF Next

(* The inductive invariant holds of every behaviour of the queue.          *)
THEOREM Invariance == Spec => []Inv
<1> QED BY InitInv, NextInv, PTL DEF Spec

-----------------------------------------------------------------------------
(* The theorems.                                                           *)

(* The list holds items, the links point at items or at nothing, and the   *)
(* window never becomes negative.                                          *)
THEOREM TypeCorrectness == Spec => []TypeOK
<1> QED BY Invariance, PTL DEF Inv

(* Whatever the managers enqueue, dequeue and move, item_ahead is earlier  *)
(* in the list and still queued, items_behind is its inverse, and no item  *)
(* is twice in the list: the walks over the links end and agree with it.   *)
THEOREM LinksStayConsistent == Spec => []LinksConsistent
<1> QED BY Invariance, PTL DEF Inv

(* A window that limits the rate never turns into 0, which would lift the  *)
(* limit for good, and one that does not never starts to.                  *)
THEOREM RateLimitStays == Spec => []RateLimitKept
<1> QED BY Invariance, PTL DEF Inv

(* cancelJobs, which follows items_behind, and getDependentItems, which    *)
(* follows item_ahead, never disagree on which items are tested on top of  *)
(* which, whatever was enqueued, dequeued and moved before.                *)
THEOREM WalksStayTogether == Spec => []WalksAgree
<1>1. Inv => WalksAgree
  <2> SUFFICES ASSUME q \in Queues, WellLinked(q) PROVE WalksAgree
    BY DEF Inv, TypeOK, LinksConsistent
  <2>1. Queued(q) \subseteq Item
    BY DEF Queued, Queues
  <2> QED BY <2>1, WalksMeet DEF WalksAgree
<1> QED BY <1>1, Invariance, PTL
=============================================================================
