----------------------------- MODULE QueueFacts -----------------------------
(***************************************************************************)
(* What the operations of a change queue do to its list and its links,     *)
(* and where the walks along the links lead, for any number of items.      *)
(***************************************************************************)
EXTENDS ChangeQueueOps, SequenceFacts, SequenceTheorems

-----------------------------------------------------------------------------
(* Sequences.                                                              *)

(* What remains of a list when its n-th element is removed.                *)
LEMMA RemoveAtProperties ==
  ASSUME NEW S, NEW s \in Seq(S), NEW n \in 1 .. Len(s)
  PROVE  /\ RemoveAt(s, n) \in Seq(S)
         /\ Len(RemoveAt(s, n)) = Len(s) - 1
         /\ \A k \in 1 .. Len(s) - 1 :
              RemoveAt(s, n)[k] = IF k < n THEN s[k] ELSE s[k + 1]
<1> DEFINE a == SubSeq(s, 1, n - 1)
           b == SubSeq(s, n + 1, Len(s))
<1>1. /\ a \in Seq(S) /\ Len(a) = n - 1
      /\ \A k \in 1 .. n - 1 : a[k] = s[k]
  OBVIOUS
<1>2. /\ b \in Seq(S) /\ Len(b) = Len(s) - n
      /\ \A k \in 1 .. Len(s) - n : b[k] = s[k + n]
  OBVIOUS
<1>3. RemoveAt(s, n) = a \o b
  BY DEF RemoveAt
<1> HIDE DEF a, b
<1>4. /\ a \o b \in Seq(S) /\ Len(a \o b) = Len(a) + Len(b)
      /\ \A k \in 1 .. Len(a) + Len(b) :
           (a \o b)[k] = IF k <= Len(a) THEN a[k] ELSE b[k - Len(a)]
  BY <1>1, <1>2, ConcatProperties
<1>5. Len(s) \in Nat /\ n \in Nat
  OBVIOUS
<1>6. Len(a \o b) = Len(s) - 1
  BY <1>1, <1>2, <1>4, <1>5
<1>7. \A k \in 1 .. Len(s) - 1 : (a \o b)[k] = IF k < n THEN s[k] ELSE s[k + 1]
  <2> TAKE k \in 1 .. Len(s) - 1
  <2>1. CASE k < n
    BY <2>1, <1>1, <1>2, <1>4, <1>5
  <2>2. CASE ~(k < n)
    <3>1. k - (n - 1) \in 1 .. Len(s) - n /\ (k - (n - 1)) + n = k + 1
      BY <2>2, <1>5
    <3>2. b[k - (n - 1)] = s[k + 1]
      BY <1>2, <3>1
    <3> QED BY <2>2, <1>1, <1>2, <1>4, <1>5, <3>2
  <2> QED BY <2>1, <2>2
<1> QED BY <1>3, <1>4, <1>6, <1>7

(* Precedes orders the items of a list without duplicates strictly.        *)
LEMMA PrecedesIsStrict ==
  ASSUME NEW x \in Queues, OrderIsInjective(x)
  PROVE  /\ \A a : ~Precedes(x, a, a)
         /\ \A a, b, c : Precedes(x, a, b) /\ Precedes(x, b, c) => Precedes(x, a, c)
         /\ \A a, b : Precedes(x, a, b) => a \in Queued(x) /\ b \in Queued(x)
<1>1. DOMAIN x.order = 1 .. Len(x.order)
  BY DEF Queues
<1> QED BY <1>1 DEF Precedes, OrderIsInjective, Queued

(* An item that is not in the queue has no links, neither way.             *)
LEMMA UnqueuedHasNoLinks ==
  ASSUME NEW x \in Queues, WellLinked(x), NEW i \in Item, i \notin Queued(x)
  PROVE  x.ahead[i] = NoItem /\ x.behind[i] = {}
<1>1. x.ahead[i] = NoItem
  BY PrecedesIsStrict DEF WellLinked, AheadIsEarlier
<1>2. ASSUME NEW j \in Item, j \in x.behind[i] PROVE FALSE
  <2>1. x.ahead[j] = i
    BY <1>2 DEF WellLinked, BehindIsInverse
  <2>2. Precedes(x, i, j)
    BY <2>1, NoItemAssumption DEF WellLinked, AheadIsEarlier
  <2> QED BY <2>2, PrecedesIsStrict DEF WellLinked
<1>3. x.behind[i] \subseteq Item
  BY DEF Queues
<1> QED BY <1>1, <1>2, <1>3

-----------------------------------------------------------------------------
(* enqueueItem.                                                            *)

(* Appending an item that is not queued, behind the last one, keeps the    *)
(* links consistent.                                                       *)
LEMMA EnqueueKeepsLinks ==
  ASSUME NEW x \in Queues, WellLinked(x), NEW i \in Item, i \notin Queued(x)
  PROVE  EnqueueItem(x, i) \in Queues /\ WellLinked(EnqueueItem(x, i))
<1> DEFINE y == EnqueueItem(x, i)
           last == x.order[Len(x.order)]
<1>1. /\ x.order \in Seq(Item) /\ x.ahead \in [Item -> Item \cup {NoItem}]
      /\ x.behind \in [Item -> SUBSET Item]
  BY DEF Queues
<1>2. /\ y.order = Append(x.order, i) /\ y.order \in Seq(Item)
      /\ Len(y.order) = Len(x.order) + 1
      /\ \A n \in 1 .. Len(x.order) : y.order[n] = x.order[n]
      /\ y.order[Len(x.order) + 1] = i
  BY <1>1 DEF EnqueueItem
<1>3. x.ahead[i] = NoItem /\ x.behind[i] = {}
  BY UnqueuedHasNoLinks
<1>4. \A n \in 1 .. Len(x.order) : x.order[n] # i
  BY <1>1 DEF Queued
<1>5. OrderIsInjective(y)
  <2>1. \A m, n \in 1 .. Len(x.order) : x.order[m] = x.order[n] => m = n
    BY <1>1 DEF WellLinked, OrderIsInjective
  <2>2. DOMAIN y.order = 1 .. Len(x.order) + 1
    BY <1>2
  <2> HIDE DEF y
  <2> QED BY <1>1, <1>2, <1>4, <2>1, <2>2 DEF OrderIsInjective
<1>6. \A a, b : Precedes(x, a, b) => Precedes(y, a, b)
  <2> HIDE DEF y
  <2> QED BY <1>1, <1>2 DEF Precedes
<1>7. CASE x.order = <<>>
  <2>1. y = [order |-> Append(x.order, i), ahead |-> x.ahead, behind |-> x.behind]
    BY <1>7 DEF EnqueueItem
  <2>2. y.ahead = x.ahead /\ y.behind = x.behind
    BY <2>1
  <2>3. y \in Queues
    BY <1>1, <1>2, <2>1 DEF Queues
  <2>4. AheadIsEarlier(y) /\ BehindIsInverse(y)
    BY <1>6, <2>2 DEF WellLinked, AheadIsEarlier, BehindIsInverse
  <2> QED BY <1>5, <2>3, <2>4 DEF WellLinked
<1>8. CASE x.order # <<>>
  <2>1. last \in Item /\ last \in Queued(x) /\ last # i
    BY <1>1, <1>4, <1>8 DEF Queued
  <2>2. /\ y = [order |-> Append(x.order, i), ahead |-> [x.ahead EXCEPT ![i] = last],
                behind |-> [x.behind EXCEPT ![last] = @ \cup {i}]]
    BY <1>8 DEF EnqueueItem
  <2>3. /\ y.ahead = [x.ahead EXCEPT ![i] = last]
        /\ y.behind = [x.behind EXCEPT ![last] = @ \cup {i}]
    BY <2>2
  <2>4. y \in Queues
    BY <1>1, <1>2, <2>1, <2>2 DEF Queues
  <2>5. Precedes(y, last, i)
    <3>1. Len(x.order) \in 1 .. Len(x.order) /\ Len(x.order) < Len(x.order) + 1
      BY <1>1, <1>8
    <3> HIDE DEF y
    <3> QED BY <1>2, <3>1 DEF Precedes
  <2>6. AheadIsEarlier(y)
    BY <1>1, <1>6, <2>3, <2>5 DEF WellLinked, AheadIsEarlier
  <2>7. BehindIsInverse(y)
    BY <1>1, <1>3, <2>1, <2>3, NoItemAssumption DEF WellLinked, BehindIsInverse
  <2> QED BY <1>5, <2>4, <2>6, <2>7 DEF WellLinked
<1> QED BY <1>7, <1>8

-----------------------------------------------------------------------------
(* dequeueItem and moveItem.                                               *)

(* The list without i: the other items keep their order.                   *)
LEMMA OrderWithout ==
  ASSUME NEW x \in Queues, OrderIsInjective(x), NEW i \in Queued(x),
         NEW y, y.order = RemoveAt(x.order, Position(x, i))
  PROVE  /\ y.order \in Seq(Item)
         /\ OrderIsInjective(y)
         /\ \A a, b : Precedes(x, a, b) /\ a # i /\ b # i => Precedes(y, a, b)
<1> DEFINE s == x.order
           p == Position(x, i)
<1>1. s \in Seq(Item) /\ Len(s) \in Nat /\ DOMAIN s = 1 .. Len(s)
  BY DEF Queues
<1>2. p \in 1 .. Len(s) /\ s[p] = i
  <2>1. \E n \in DOMAIN s : s[n] = i
    BY DEF Queued
  <2> QED BY <1>1, <2>1 DEF Position
<1> HIDE DEF s, p
<1>3. /\ y.order \in Seq(Item) /\ Len(y.order) = Len(s) - 1
      /\ \A k \in 1 .. Len(s) - 1 : y.order[k] = IF k < p THEN s[k] ELSE s[k + 1]
  BY <1>1, <1>2, RemoveAtProperties DEF s, p
<1>4. DOMAIN y.order = 1 .. Len(s) - 1
  BY <1>1, <1>3
<1>5. \A m, n \in 1 .. Len(s) : s[m] = s[n] => m = n
  BY <1>1 DEF s, OrderIsInjective
<1>6. OrderIsInjective(y)
  <2> SUFFICES ASSUME NEW m \in 1 .. Len(s) - 1, NEW n \in 1 .. Len(s) - 1,
                      y.order[m] = y.order[n]
               PROVE  m = n
    BY <1>4 DEF OrderIsInjective
  <2> DEFINE f(k) == IF k < p THEN k ELSE k + 1
  <2>1. f(m) \in 1 .. Len(s) /\ f(n) \in 1 .. Len(s)
    BY <1>1, <1>2
  <2>2. s[f(m)] = s[f(n)]
    BY <1>3
  <2>3. f(m) = f(n)
    BY <1>5, <2>1, <2>2
  <2> QED BY <1>1, <1>2, <2>3
<1>7. ASSUME NEW a, NEW b, Precedes(x, a, b), a # i, b # i
      PROVE  Precedes(y, a, b)
  <2>1. PICK m \in 1 .. Len(s), n \in 1 .. Len(s) : m < n /\ s[m] = a /\ s[n] = b
    BY <1>1, <1>7 DEF Precedes, s
  <2> DEFINE g(k) == IF k < p THEN k ELSE k - 1
  <2>2. m # p /\ n # p
    BY <1>2, <1>7, <2>1
  <2>3. g(m) \in 1 .. Len(s) - 1 /\ g(n) \in 1 .. Len(s) - 1 /\ g(m) < g(n)
    BY <1>1, <1>2, <2>1, <2>2
  <2>4. y.order[g(m)] = a
    <3>1. CASE m < p
      BY <1>1, <1>2, <1>3, <2>1, <2>3, <3>1
    <3>2. CASE m > p
      <4>1. g(m) = m - 1 /\ ~(m - 1 < p) /\ (m - 1) + 1 = m
        BY <1>2, <2>1, <3>2
      <4>2. y.order[m - 1] = s[(m - 1) + 1]
        BY <1>3, <2>3, <4>1
      <4> QED BY <2>1, <4>1, <4>2
    <3> QED BY <1>2, <2>2, <3>1, <3>2
  <2>5. y.order[g(n)] = b
    <3>1. CASE n < p
      BY <1>1, <1>2, <1>3, <2>1, <2>3, <3>1
    <3>2. CASE n > p
      <4>1. g(n) = n - 1 /\ ~(n - 1 < p) /\ (n - 1) + 1 = n
        BY <1>2, <2>1, <3>2
      <4>2. y.order[n - 1] = s[(n - 1) + 1]
        BY <1>3, <2>3, <4>1
      <4> QED BY <2>1, <4>1, <4>2
    <3> QED BY <1>2, <2>2, <3>1, <3>2
  <2> HIDE DEF g
  <2> QED BY <1>4, <2>3, <2>4, <2>5 DEF Precedes
<1> QED BY <1>3, <1>6, <1>7

(* Taking i out of the tree: what was behind it is now behind what was     *)
(* ahead of it, which is still earlier, and nothing refers to i any more   *)
(* but its own item_ahead.                                                 *)
LEMMA UnlinkProperties ==
  ASSUME NEW x \in Queues, WellLinked(x), NEW i \in Item
  PROVE  /\ UnlinkedAhead(x, i) \in [Item -> Item \cup {NoItem}]
         /\ UnlinkedBehind(x, i) \in [Item -> SUBSET Item]
         /\ \A j \in Item : UnlinkedAhead(x, i)[j] # i
         /\ \A j \in Item : UnlinkedAhead(x, i)[j] # NoItem
                              => Precedes(x, UnlinkedAhead(x, i)[j], j)
         /\ \A j, k \in Item : k \in UnlinkedBehind(x, i)[j]
                                 <=> k # i /\ UnlinkedAhead(x, i)[k] = j
<1> DEFINE up == UnlinkedAhead(x, i)
           down == UnlinkedBehind(x, i)
<1>1. /\ x.ahead \in [Item -> Item \cup {NoItem}] /\ x.behind \in [Item -> SUBSET Item]
      /\ \A j, k \in Item : k \in x.behind[j] <=> x.ahead[k] = j
      /\ \A j \in Item : x.ahead[j] # NoItem => Precedes(x, x.ahead[j], j)
  BY DEF Queues, WellLinked, BehindIsInverse, AheadIsEarlier
<1>2. /\ \A a : ~Precedes(x, a, a)
      /\ \A a, b, c : Precedes(x, a, b) /\ Precedes(x, b, c) => Precedes(x, a, c)
  BY PrecedesIsStrict DEF WellLinked
<1>3. /\ \A j \in Item : up[j] = IF x.ahead[j] = i THEN x.ahead[i] ELSE x.ahead[j]
      /\ up \in [Item -> Item \cup {NoItem}]
  BY <1>1 DEF UnlinkedAhead
<1>4. \A j \in Item : x.ahead[j] # j
  BY <1>1, <1>2, NoItemAssumption
<1>5. /\ \A j \in Item : down[j] = IF j = i THEN {}
                                   ELSE IF j = x.ahead[i] THEN (x.behind[j] \ {i}) \cup x.behind[i]
                                   ELSE x.behind[j]
      /\ down \in [Item -> SUBSET Item]
  BY <1>1 DEF UnlinkedBehind
<1> HIDE DEF up, down
<1>6. \A j \in Item : up[j] # i
  BY <1>3, <1>4
<1>7. \A j \in Item : up[j] # NoItem => Precedes(x, up[j], j)
  <2> TAKE j \in Item
  <2>1. CASE x.ahead[j] = i
    BY <1>1, <1>2, <1>3, <2>1, NoItemAssumption
  <2>2. CASE x.ahead[j] # i
    BY <1>1, <1>3, <2>2
  <2> QED BY <2>1, <2>2
<1>8. \A j, k \in Item : k \in down[j] <=> k # i /\ up[k] = j
  BY <1>1, <1>3, <1>4, <1>5, <1>6
<1> QED BY <1>3, <1>5, <1>6, <1>7, <1>8 DEF up, down

(* Dequeuing keeps the links consistent, of a queued item or of any other. *)
LEMMA DequeueKeepsLinks ==
  ASSUME NEW x \in Queues, WellLinked(x), NEW i \in Item
  PROVE  DequeueItem(x, i) \in Queues /\ WellLinked(DequeueItem(x, i))
<1> DEFINE y == DequeueItem(x, i)
           up == UnlinkedAhead(x, i)
           down == UnlinkedBehind(x, i)
<1>1. /\ y = [order |-> y.order, ahead |-> [up EXCEPT ![i] = NoItem], behind |-> down]
      /\ y.order = IF i \in Queued(x) THEN RemoveAt(x.order, Position(x, i)) ELSE x.order
      /\ y.ahead = [up EXCEPT ![i] = NoItem] /\ y.behind = down
  BY DEF DequeueItem
<1>2. /\ up \in [Item -> Item \cup {NoItem}] /\ down \in [Item -> SUBSET Item]
      /\ \A j \in Item : up[j] # i
      /\ \A j \in Item : up[j] # NoItem => Precedes(x, up[j], j)
      /\ \A j, k \in Item : k \in down[j] <=> k # i /\ up[k] = j
  BY UnlinkProperties
<1> HIDE DEF y, up, down
<1>3. /\ y.order \in Seq(Item) /\ OrderIsInjective(y)
      /\ \A a, b : Precedes(x, a, b) /\ a # i /\ b # i => Precedes(y, a, b)
  <2>1. CASE i \in Queued(x)
    BY <1>1, <2>1, OrderWithout DEF WellLinked
  <2>2. CASE i \notin Queued(x)
    BY <1>1, <2>2 DEF WellLinked, OrderIsInjective, Precedes, Queues
  <2> QED BY <2>1, <2>2
<1>4. y \in Queues
  BY <1>1, <1>2, <1>3 DEF Queues
<1>5. AheadIsEarlier(y)
  BY <1>1, <1>2, <1>3 DEF AheadIsEarlier
<1>6. BehindIsInverse(y)
  BY <1>1, <1>2, NoItemAssumption DEF BehindIsInverse
<1> QED BY <1>3, <1>4, <1>5, <1>6 DEF WellLinked, y

(* Moving an item behind an earlier one, or to the head, keeps the links   *)
(* consistent.                                                             *)
LEMMA MoveKeepsLinks ==
  ASSUME NEW x \in Queues, WellLinked(x), NEW i \in Item, NEW a \in Item \cup {NoItem},
         a = NoItem \/ Precedes(x, a, i)
  PROVE  MoveItem(x, i, a) \in Queues /\ WellLinked(MoveItem(x, i, a))
<1> DEFINE y == MoveItem(x, i, a)
           up == UnlinkedAhead(x, i)
           down == UnlinkedBehind(x, i)
<1>1. CASE x.ahead[i] = a
  BY <1>1 DEF MoveItem
<1>2. CASE x.ahead[i] # a
  <2>1. /\ y = [order |-> x.order, ahead |-> [up EXCEPT ![i] = a],
                behind |-> [j \in Item |-> IF j = a THEN down[j] \cup {i} ELSE down[j]]]
        /\ y.order = x.order /\ y.ahead = [up EXCEPT ![i] = a]
        /\ y.behind = [j \in Item |-> IF j = a THEN down[j] \cup {i} ELSE down[j]]
    BY <1>2 DEF MoveItem
  <2>2. /\ up \in [Item -> Item \cup {NoItem}] /\ down \in [Item -> SUBSET Item]
        /\ \A j \in Item : up[j] # NoItem => Precedes(x, up[j], j)
        /\ \A j, k \in Item : k \in down[j] <=> k # i /\ up[k] = j
    BY UnlinkProperties
  <2>3. x.order \in Seq(Item)
    BY DEF Queues
  <2> HIDE DEF y, up, down
  <2>4. \A b, c : Precedes(x, b, c) <=> Precedes(y, b, c)
    BY <2>1 DEF Precedes
  <2>5. OrderIsInjective(y)
    BY <2>1 DEF WellLinked, OrderIsInjective
  <2>6. y \in Queues
    BY <2>1, <2>2, <2>3 DEF Queues
  <2>7. AheadIsEarlier(y)
    BY <2>1, <2>2, <2>4 DEF AheadIsEarlier
  <2>8. BehindIsInverse(y)
    BY <2>1, <2>2, NoItemAssumption DEF BehindIsInverse
  <2> QED BY <2>5, <2>6, <2>7, <2>8 DEF WellLinked, y
<1> QED BY <1>1, <1>2

-----------------------------------------------------------------------------
(* The window.                                                             *)

(* Both window operations keep a window of 0 at 0 and any other above it.  *)
LEMMA WindowStays ==
  ASSUME NEW w \in Nat
  PROVE  /\ IncreasedWindow(w) \in Nat /\ DecreasedWindow(w) \in Nat
         /\ IncreasedWindow(w) = 0 <=> w = 0
         /\ DecreasedWindow(w) = 0 <=> w = 0
<1>1. IncreasedWindow(w) \in Nat /\ (IncreasedWindow(w) = 0 <=> w = 0)
  <2>1. w * IncreaseFactor \in Nat /\ (w # 0 => w * IncreaseFactor # 0)
    BY WindowAssumption
  <2>2. w + IncreaseFactor \in Nat /\ w + IncreaseFactor # 0
    BY WindowAssumption
  <2> QED BY <2>1, <2>2 DEF IncreasedWindow
<1>2. DecreasedWindow(w) \in Nat /\ (DecreasedWindow(w) = 0 <=> w = 0)
  <2>1. w - DecreaseFactor \in Int /\ w \div DecreaseFactor \in Int
    BY WindowAssumption
  <2> QED BY <2>1, WindowAssumption DEF DecreasedWindow
<1> QED BY <1>1, <1>2


-----------------------------------------------------------------------------
(* Induction along the links.                                              *)

(* The items that are not in the list later than its n-th place.           *)
Until(x, n) == {j \in Item : \A k \in DOMAIN x.order : x.order[k] = j => k <= n}

(* What is ahead of an item has an earlier place.                          *)
LEMMA AheadIsUntil ==
  ASSUME NEW x \in Queues, WellLinked(x), NEW n \in Nat, NEW j \in Until(x, n + 1),
         x.ahead[j] # NoItem
  PROVE  x.ahead[j] \in Until(x, n)
<1>1. x.order \in Seq(Item) /\ x.ahead[j] \in Item
  BY DEF Queues, Until
<1>2. PICK m \in DOMAIN x.order, k \in DOMAIN x.order :
        m < k /\ x.order[m] = x.ahead[j] /\ x.order[k] = j
  BY DEF WellLinked, AheadIsEarlier, Precedes, Until
<1>3. k <= n + 1 /\ \A l \in DOMAIN x.order : x.order[l] = x.ahead[j] => l = m
  BY <1>2 DEF WellLinked, OrderIsInjective, Until
<1> QED BY <1>1, <1>2, <1>3 DEF Until

(* An item without a place has nothing ahead, and the last place is the    *)
(* length of the list.                                                     *)
LEMMA UntilBounds ==
  ASSUME NEW x \in Queues, WellLinked(x)
  PROVE  /\ \A j \in Until(x, 0) : x.ahead[j] = NoItem
         /\ Item \subseteq Until(x, Len(x.order))
         /\ Len(x.order) \in Nat
<1>1. x.order \in Seq(Item) /\ DOMAIN x.order = 1 .. Len(x.order)
  BY DEF Queues
<1>2. ASSUME NEW j \in Until(x, 0), x.ahead[j] # NoItem PROVE FALSE
  <2>1. PICK k \in DOMAIN x.order : x.order[k] = j
    BY <1>2 DEF WellLinked, AheadIsEarlier, Precedes, Until
  <2> QED BY <1>1, <2>1 DEF Until
<1> QED BY <1>1, <1>2 DEF Until

(* What an item has when the one ahead of it has, all items have.          *)
LEMMA AlongAhead ==
  ASSUME NEW x \in Queues, WellLinked(x), NEW G,
         \A j \in Item : x.ahead[j] = NoItem \/ x.ahead[j] \in G => j \in G
  PROVE  Item \subseteq G
<1> DEFINE S == {n \in Nat : Until(x, n) \subseteq G}
<1>1. 0 \in S
  BY UntilBounds DEF Until
<1>2. ASSUME NEW n \in Nat, n \in S PROVE n + 1 \in S
  BY <1>2, AheadIsUntil DEF Until
<1> HIDE DEF S
<1>3. Nat \subseteq S
  BY <1>1, <1>2, SetInduction
<1> QED BY <1>3, UntilBounds DEF S

(* The items that are not in the list before its last n places.            *)
From(x, n) ==
  {j \in Item : \A k \in DOMAIN x.order : x.order[k] = j => k > Len(x.order) - n}

(* What is behind an item has a later place.                               *)
LEMMA BehindIsFrom ==
  ASSUME NEW x \in Queues, WellLinked(x), NEW n \in Nat, NEW j \in From(x, n + 1)
  PROVE  x.behind[j] \subseteq From(x, n)
<1> SUFFICES ASSUME NEW b \in x.behind[j] PROVE b \in From(x, n)
  OBVIOUS
<1>1. /\ j \in Item /\ b \in Item
      /\ x.order \in Seq(Item) /\ DOMAIN x.order = 1 .. Len(x.order) /\ Len(x.order) \in Nat
  BY DEF Queues, From
<1>2. x.ahead[b] = j
  BY <1>1 DEF WellLinked, BehindIsInverse
<1>3. PICK m \in 1 .. Len(x.order), k \in 1 .. Len(x.order) :
        m < k /\ x.order[m] = j /\ x.order[k] = b
  BY <1>1, <1>2, NoItemAssumption DEF WellLinked, AheadIsEarlier, Precedes
<1>4. m > Len(x.order) - (n + 1) /\ \A l \in 1 .. Len(x.order) : x.order[l] = b => l = k
  BY <1>1, <1>3 DEF WellLinked, OrderIsInjective, From
<1> QED BY <1>1, <1>3, <1>4 DEF From

(* An item without a place has nothing behind it.                          *)
LEMMA FromBounds ==
  ASSUME NEW x \in Queues, WellLinked(x)
  PROVE  /\ \A j \in From(x, 0) : x.behind[j] = {}
         /\ Item \subseteq From(x, Len(x.order))
         /\ Len(x.order) \in Nat
<1>1. x.order \in Seq(Item) /\ DOMAIN x.order = 1 .. Len(x.order) /\ Len(x.order) \in Nat
  BY DEF Queues
<1>2. ASSUME NEW j \in From(x, 0) PROVE x.behind[j] = {}
  <2>1. j \in Item /\ j \notin Queued(x)
    BY <1>1 DEF From, Queued
  <2> QED BY <2>1, UnqueuedHasNoLinks
<1> QED BY <1>1, <1>2 DEF From

(* What an item has when all those behind it have, all items have.         *)
LEMMA AlongBehind ==
  ASSUME NEW x \in Queues, WellLinked(x), NEW G,
         \A j \in Item : x.behind[j] \subseteq G => j \in G
  PROVE  Item \subseteq G
<1> DEFINE S == {n \in Nat : From(x, n) \subseteq G}
<1>1. 0 \in S
  BY FromBounds DEF From
<1>2. ASSUME NEW n \in Nat, n \in S PROVE n + 1 \in S
  <2>1. ASSUME NEW j \in From(x, n + 1) PROVE j \in G
    <3>1. x.behind[j] \subseteq G /\ j \in Item
      BY <1>2, BehindIsFrom DEF From
    <3> QED BY <3>1
  <2> QED BY <2>1
<1> HIDE DEF S
<1>3. Nat \subseteq S
  BY <1>1, <1>2, SetInduction
<1> QED BY <1>3, FromBounds DEF S

-----------------------------------------------------------------------------
(* The walks.                                                              *)

(* What getDependentItems recurses over is defined: f gives the chains.    *)
Chains(x, f) ==
  f = [j \in Item |-> IF x.ahead[j] = NoItem THEN <<>>
                      ELSE <<x.ahead[j]>> \o f[x.ahead[j]]]

LEMMA ChainsExist ==
  ASSUME NEW x \in Queues, WellLinked(x)
  PROVE  \E f : Chains(x, f)
<1> DEFINE Longer(f) == [j \in Item |-> IF x.ahead[j] = NoItem THEN <<>>
                                        ELSE <<x.ahead[j]>> \o f[x.ahead[j]]]
           S == {n \in Nat : \E f : \A j \in Until(x, n) : f[j] = Longer(f)[j]}
<1>1. \A n \in Nat : Until(x, n) \subseteq Item
  BY DEF Until
<1>2. ASSUME NEW f, NEW D \in SUBSET Item, \A j \in D : f[j] = Longer(f)[j],
             NEW j \in Item, x.ahead[j] = NoItem \/ x.ahead[j] \in D
      PROVE  Longer(f)[j] = Longer(Longer(f))[j]
  <2>1. CASE x.ahead[j] = NoItem
    BY <2>1
  <2>2. CASE x.ahead[j] # NoItem
    <3>1. x.ahead[j] \in Item /\ f[x.ahead[j]] = Longer(f)[x.ahead[j]]
      BY <1>2, <2>2
    <3> QED BY <2>2, <3>1
  <2> QED BY <2>1, <2>2
<1>3. 0 \in S
  <2>1. \A j \in Until(x, 0) : Longer(<<>>)[j] = Longer(Longer(<<>>))[j]
    BY UntilBounds, <1>1
  <2> HIDE DEF Longer
  <2> QED BY <2>1
<1>4. ASSUME NEW n \in Nat, n \in S PROVE n + 1 \in S
  <2>1. PICK f : \A j \in Until(x, n) : f[j] = Longer(f)[j]
    BY <1>4
  <2>2. \A j \in Until(x, n + 1) : Longer(f)[j] = Longer(Longer(f))[j]
    <3> TAKE j \in Until(x, n + 1)
    <3>1. x.ahead[j] = NoItem \/ x.ahead[j] \in Until(x, n)
      BY AheadIsUntil
    <3>2. j \in Item /\ Until(x, n) \in SUBSET Item
      BY DEF Until
    <3> HIDE DEF Longer
    <3> QED BY <1>2, <2>1, <3>1, <3>2
  <2> HIDE DEF Longer
  <2> QED BY <2>2
<1>5. Nat \subseteq S
  <2> HIDE DEF S
  <2> QED BY <1>3, <1>4, SetInduction
<1>6. PICK f : \A j \in Item : f[j] = Longer(f)[j]
  <2>1. Len(x.order) \in S
    BY <1>5, UntilBounds
  <2> HIDE DEF Longer
  <2> QED BY <2>1, UntilBounds
<1>7. \A j \in Item : x.ahead[j] = NoItem \/ x.ahead[j] \in Item
  BY DEF Queues
<1>8. Longer(f) = Longer(Longer(f))
  <2>1. \A j \in Item : Longer(f)[j] = Longer(Longer(f))[j]
    <3> HIDE DEF Longer
    <3> QED BY <1>2, <1>6, <1>7
  <2>2. Longer(f) = [j \in Item |-> Longer(f)[j]]
        /\ Longer(Longer(f)) = [j \in Item |-> Longer(Longer(f))[j]]
    OBVIOUS
  <2> HIDE DEF Longer
  <2> QED BY <2>1, <2>2
<1> HIDE DEF Longer
<1>9. Chains(x, Longer(f))
  BY <1>8 DEF Chains, Longer
<1> QED BY <1>9

(* The chain of an item is what is ahead of it and the chain of that.      *)
LEMMA ItemsAheadUnfolds ==
  ASSUME NEW x \in Queues, WellLinked(x), NEW j \in Item
  PROVE  ItemsAhead(x, j) = IF x.ahead[j] = NoItem THEN <<>>
                            ELSE <<x.ahead[j]>> \o ItemsAhead(x, x.ahead[j])
<1> DEFINE c == CHOOSE f : Chains(x, f)
<1>1. Chains(x, c)
  BY ChainsExist
<1>2. \A k : ItemsAhead(x, k) = c[k]
  BY DEF ItemsAhead, Chains
<1> HIDE DEF c
<1> QED BY <1>1, <1>2 DEF Chains


(* A chain is a list of items, which are those ahead of its item.          *)
LEMMA ChainOfItems ==
  ASSUME NEW x \in Queues, WellLinked(x), NEW j \in Item
  PROVE  /\ ItemsAhead(x, j) \in Seq(Item)
         /\ x.ahead[j] = NoItem => ToSet(ItemsAhead(x, j)) = {}
         /\ x.ahead[j] # NoItem =>
              ToSet(ItemsAhead(x, j)) = {x.ahead[j]} \cup ToSet(ItemsAhead(x, x.ahead[j]))
<1> DEFINE G == {k \in Item : ItemsAhead(x, k) \in Seq(Item)}
<1>1. \A k \in Item : x.ahead[k] = NoItem \/ x.ahead[k] \in Item
  BY DEF Queues
<1>2. \A k \in Item : x.ahead[k] = NoItem => ItemsAhead(x, k) = <<>>
  BY ItemsAheadUnfolds
<1>3. \A k \in Item : x.ahead[k] # NoItem =>
        ItemsAhead(x, k) = <<x.ahead[k]>> \o ItemsAhead(x, x.ahead[k])
  BY ItemsAheadUnfolds
<1>4. \A k \in Item : x.ahead[k] = NoItem \/ x.ahead[k] \in G => k \in G
  <2> TAKE k \in Item
  <2>1. CASE x.ahead[k] = NoItem
    <3>1. ItemsAhead(x, k) = <<>> /\ <<>> \in Seq(Item)
      BY <1>2, <2>1
    <3> QED BY <3>1
  <2>2. ASSUME x.ahead[k] # NoItem, x.ahead[k] \in G PROVE k \in G
    <3>1. x.ahead[k] \in Item /\ ItemsAhead(x, x.ahead[k]) \in Seq(Item)
      BY <1>1, <2>2
    <3>2. <<x.ahead[k]>> \o ItemsAhead(x, x.ahead[k]) \in Seq(Item)
      BY <3>1
    <3> QED BY <1>3, <2>2, <3>2
  <2> HIDE DEF G
  <2> QED BY <2>1, <2>2
<1>5. Item \subseteq G
  <2> HIDE DEF G
  <2> QED BY <1>4, AlongAhead
<1>6. ASSUME NEW k \in Item, NEW s \in Seq(Item) PROVE ToSet(<<k>> \o s) = {k} \cup ToSet(s)
  <2> DEFINE t == <<k>> \o s
  <2>1. t \in Seq(Item) /\ Len(t) = Len(s) + 1 /\ t[1] = k
        /\ \A n \in 1 .. Len(s) : t[n + 1] = s[n]
    OBVIOUS
  <2>2. \A n \in 1 .. Len(t) : n = 1 \/ (n - 1 \in 1 .. Len(s) /\ t[n] = s[n - 1])
    BY <2>1
  <2>3. Len(s) \in Nat /\ DOMAIN s = 1 .. Len(s) /\ DOMAIN t = 1 .. Len(s) + 1
    BY <2>1
  <2>4. \A e \in ToSet(s) : e \in ToSet(t)
    <3> TAKE e \in ToSet(s)
    <3>1. PICK n \in 1 .. Len(s) : s[n] = e
      BY <2>3 DEF ToSet
    <3>2. n + 1 \in DOMAIN t /\ t[n + 1] = e
      BY <2>1, <2>3, <3>1
    <3> QED BY <3>2 DEF ToSet
  <2>5. k \in ToSet(t)
    BY <2>1, <2>3 DEF ToSet
  <2>6. \A e \in ToSet(t) : e = k \/ e \in ToSet(s)
    BY <2>1, <2>2, <2>3 DEF ToSet
  <2> HIDE DEF t
  <2> QED BY <2>4, <2>5, <2>6 DEF t
<1>7. x.ahead[j] = NoItem => ToSet(ItemsAhead(x, j)) = {}
  BY <1>2 DEF ToSet
<1>8. ASSUME x.ahead[j] # NoItem
      PROVE  ToSet(ItemsAhead(x, j)) = {x.ahead[j]} \cup ToSet(ItemsAhead(x, x.ahead[j]))
  <2>1. x.ahead[j] \in Item /\ ItemsAhead(x, x.ahead[j]) \in Seq(Item)
    BY <1>1, <1>5, <1>8
  <2> QED BY <1>3, <1>6, <1>8, <2>1
<1> QED BY <1>5, <1>7, <1>8


(* The same for cancelJobs: f gives the trees.                             *)
Trees(x, f) == f = [j \in Item |-> {j} \cup UNION {f[b] : b \in x.behind[j]}]

LEMMA TreesExist ==
  ASSUME NEW x \in Queues, WellLinked(x)
  PROVE  \E f : Trees(x, f)
<1> DEFINE Wider(f) == [j \in Item |-> {j} \cup UNION {f[b] : b \in x.behind[j]}]
           S == {n \in Nat : \E f : \A j \in From(x, n) : f[j] = Wider(f)[j]}
<1>1. \A j \in Item : x.behind[j] \subseteq Item
  BY DEF Queues
<1>2. ASSUME NEW f, NEW D \in SUBSET Item, \A j \in D : f[j] = Wider(f)[j],
             NEW j \in Item, x.behind[j] \subseteq D
      PROVE  Wider(f)[j] = Wider(Wider(f))[j]
  <2>1. \A b \in x.behind[j] : f[b] = Wider(f)[b]
    BY <1>2
  <2>2. {f[b] : b \in x.behind[j]} = {Wider(f)[b] : b \in x.behind[j]}
    <3> HIDE DEF Wider
    <3> QED BY <2>1
  <2>3. /\ Wider(f)[j] = {j} \cup UNION {f[b] : b \in x.behind[j]}
        /\ Wider(Wider(f))[j] = {j} \cup UNION {Wider(f)[b] : b \in x.behind[j]}
    OBVIOUS
  <2> HIDE DEF Wider
  <2> QED BY <2>2, <2>3
<1>3. 0 \in S
  <2>1. \A j \in From(x, 0) : j \in Item /\ x.behind[j] = {}
    BY FromBounds DEF From
  <2> HIDE DEF Wider
  <2>2. \A j \in From(x, 0) : Wider(<<>>)[j] = Wider(Wider(<<>>))[j]
    BY <1>2, <2>1
  <2> QED BY <2>2
<1>4. ASSUME NEW n \in Nat, n \in S PROVE n + 1 \in S
  <2>1. PICK f : \A j \in From(x, n) : f[j] = Wider(f)[j]
    BY <1>4
  <2>2. \A j \in From(x, n + 1) : Wider(f)[j] = Wider(Wider(f))[j]
    <3> TAKE j \in From(x, n + 1)
    <3>1. x.behind[j] \subseteq From(x, n)
      BY BehindIsFrom
    <3>2. j \in Item /\ From(x, n) \in SUBSET Item
      BY DEF From
    <3> HIDE DEF Wider
    <3> QED BY <1>2, <2>1, <3>1, <3>2
  <2> HIDE DEF Wider
  <2> QED BY <2>2
<1>5. Nat \subseteq S
  <2> HIDE DEF S
  <2> QED BY <1>3, <1>4, SetInduction
<1>6. PICK f : \A j \in Item : f[j] = Wider(f)[j]
  <2>1. Len(x.order) \in S
    BY <1>5, FromBounds
  <2> HIDE DEF Wider
  <2> QED BY <2>1, FromBounds
<1>7. Wider(f) = Wider(Wider(f))
  <2>1. \A j \in Item : Wider(f)[j] = Wider(Wider(f))[j]
    <3> HIDE DEF Wider
    <3> QED BY <1>1, <1>2, <1>6
  <2>2. Wider(f) = [j \in Item |-> Wider(f)[j]]
        /\ Wider(Wider(f)) = [j \in Item |-> Wider(Wider(f))[j]]
    OBVIOUS
  <2> HIDE DEF Wider
  <2> QED BY <2>1, <2>2
<1> HIDE DEF Wider
<1>8. Trees(x, Wider(f))
  BY <1>7 DEF Trees, Wider
<1> QED BY <1>8

(* The tree of an item is the item and the trees of what is behind it.     *)
LEMMA WithBehindUnfolds ==
  ASSUME NEW x \in Queues, WellLinked(x), NEW j \in Item
  PROVE  WithBehind(x, j) = {j} \cup UNION {WithBehind(x, b) : b \in x.behind[j]}
<1> DEFINE t == CHOOSE f : Trees(x, f)
<1>1. Trees(x, t)
  BY TreesExist
<1>2. \A k : WithBehind(x, k) = t[k]
  BY DEF WithBehind, Trees
<1> HIDE DEF t
<1>3. {WithBehind(x, b) : b \in x.behind[j]} = {t[b] : b \in x.behind[j]}
  BY <1>2
<1>4. t[j] = {j} \cup UNION {t[b] : b \in x.behind[j]}
  BY <1>1 DEF Trees
<1> QED BY <1>2, <1>3, <1>4


(* What is ahead of an item is earlier in the list.                        *)
LEMMA ChainIsEarlier ==
  ASSUME NEW x \in Queues, WellLinked(x), NEW j \in Item, NEW a \in ToSet(ItemsAhead(x, j))
  PROVE  a \in Item /\ Precedes(x, a, j)
<1> DEFINE G == {k \in Item : \A b \in ToSet(ItemsAhead(x, k)) : b \in Item /\ Precedes(x, b, k)}
<1>1. ASSUME NEW k \in Item, x.ahead[k] = NoItem \/ x.ahead[k] \in G PROVE k \in G
  <2> SUFFICES ASSUME NEW b \in ToSet(ItemsAhead(x, k)) PROVE b \in Item /\ Precedes(x, b, k)
    OBVIOUS
  <2>1. x.ahead[k] \in G /\ (b = x.ahead[k] \/ b \in ToSet(ItemsAhead(x, x.ahead[k])))
    BY <1>1, ChainOfItems
  <2>2. Precedes(x, x.ahead[k], k)
    BY <2>1, NoItemAssumption DEF WellLinked, AheadIsEarlier
  <2> QED BY <2>1, <2>2, PrecedesIsStrict DEF WellLinked
<1> HIDE DEF G
<1>2. Item \subseteq G
  BY <1>1, AlongAhead
<1> QED BY <1>2 DEF G

(* What is behind an item of a tree is in the tree.                        *)
LEMMA TreeIsClosed ==
  ASSUME NEW x \in Queues, WellLinked(x), NEW i \in Item, NEW k \in WithBehind(x, i),
         NEW j \in Item, x.ahead[j] = k
  PROVE  j \in WithBehind(x, i)
<1> DEFINE G == {l \in Item : k \in WithBehind(x, l) => j \in WithBehind(x, l)}
<1>1. \A l \in Item : x.behind[l] \subseteq Item
  BY DEF Queues
<1>2. ASSUME NEW l \in Item, x.behind[l] \subseteq G PROVE l \in G
  <2> SUFFICES ASSUME k \in WithBehind(x, l) PROVE j \in WithBehind(x, l)
    OBVIOUS
  <2>1. k = l \/ \E b \in x.behind[l] : k \in WithBehind(x, b)
    BY WithBehindUnfolds
  <2>2. CASE k = l
    <3>1. j \in x.behind[l] /\ j \in WithBehind(x, j)
      BY <2>2, WithBehindUnfolds DEF WellLinked, BehindIsInverse
    <3> QED BY <3>1, WithBehindUnfolds
  <2>3. ASSUME NEW b \in x.behind[l], k \in WithBehind(x, b) PROVE j \in WithBehind(x, l)
    <3>1. j \in WithBehind(x, b)
      BY <1>2, <2>3
    <3> QED BY <3>1, WithBehindUnfolds
  <2> QED BY <2>1, <2>2, <2>3
<1> HIDE DEF G
<1>3. Item \subseteq G
  BY <1>2, AlongBehind
<1> QED BY <1>3 DEF G

(* What is ahead of an item of a chain is in the chain.                    *)
LEMMA ChainIsClosed ==
  ASSUME NEW x \in Queues, WellLinked(x), NEW j \in Item, NEW b \in ToSet(ItemsAhead(x, j)),
         NEW i \in Item, x.ahead[b] = i
  PROVE  i \in ToSet(ItemsAhead(x, j))
<1> DEFINE G == {l \in Item : b \in ToSet(ItemsAhead(x, l)) => i \in ToSet(ItemsAhead(x, l))}
<1>0. b \in Item /\ i # NoItem
  BY ChainIsEarlier, NoItemAssumption
<1>1. ASSUME NEW l \in Item, x.ahead[l] = NoItem \/ x.ahead[l] \in G PROVE l \in G
  <2> SUFFICES ASSUME b \in ToSet(ItemsAhead(x, l)) PROVE i \in ToSet(ItemsAhead(x, l))
    OBVIOUS
  <2>1. x.ahead[l] # NoItem /\ x.ahead[l] \in G
    BY <1>1, ChainOfItems
  <2>2. ToSet(ItemsAhead(x, l)) = {x.ahead[l]} \cup ToSet(ItemsAhead(x, x.ahead[l]))
    BY <2>1, ChainOfItems
  <2>3. ToSet(ItemsAhead(x, b)) = {i} \cup ToSet(ItemsAhead(x, i))
    BY <1>0, ChainOfItems
  <2>4. CASE b = x.ahead[l]
    BY <2>2, <2>3, <2>4
  <2>5. CASE b \in ToSet(ItemsAhead(x, x.ahead[l]))
    BY <2>1, <2>2, <2>5
  <2> QED BY <2>2, <2>4, <2>5
<1> HIDE DEF G
<1>2. Item \subseteq G
  BY <1>1, AlongAhead
<1> QED BY <1>2 DEF G

(* The two walks agree: what cancelJobs reaches from an item, following    *)
(* items_behind, are the items that getDependentItems leads to it from.    *)
LEMMA WalksMeet ==
  ASSUME NEW x \in Queues, WellLinked(x), NEW i \in Item, NEW j
  PROVE  /\ j \in WithBehind(x, i) => j \in Item
         /\ j \in Item => (j \in WithBehind(x, i) \ {i} <=> i \in ToSet(ItemsAhead(x, j)))
<1> DEFINE B == {l \in Item : \A k \in WithBehind(x, l) :
                                k \in Item /\ (k = l \/ l \in ToSet(ItemsAhead(x, k)))}
           A == {l \in Item : \A k \in Item \cap ToSet(ItemsAhead(x, l)) : l \in WithBehind(x, k)}
<1>1. ASSUME NEW l \in Item, x.behind[l] \subseteq B PROVE l \in B
  <2> SUFFICES ASSUME NEW k \in WithBehind(x, l), k # l
               PROVE  k \in Item /\ l \in ToSet(ItemsAhead(x, k))
    OBVIOUS
  <2>1. PICK b \in x.behind[l] : k \in WithBehind(x, b)
    BY WithBehindUnfolds
  <2>2. b \in B /\ b \in Item /\ x.ahead[b] = l
    BY <1>1 DEF WellLinked, BehindIsInverse
  <2>3. k \in Item /\ (k = b \/ b \in ToSet(ItemsAhead(x, k)))
    BY <2>1, <2>2
  <2>4. CASE k = b
    BY <2>2, <2>4, ChainOfItems, NoItemAssumption
  <2>5. CASE b \in ToSet(ItemsAhead(x, k))
    BY <2>2, <2>3, <2>5, ChainIsClosed
  <2> QED BY <2>3, <2>4, <2>5
<1>2. ASSUME NEW l \in Item, x.ahead[l] = NoItem \/ x.ahead[l] \in A PROVE l \in A
  <2> SUFFICES ASSUME NEW k \in Item, k \in ToSet(ItemsAhead(x, l))
               PROVE  l \in WithBehind(x, k)
    OBVIOUS
  <2>1. x.ahead[l] \in A /\ (k = x.ahead[l] \/ k \in ToSet(ItemsAhead(x, x.ahead[l])))
    BY <1>2, ChainOfItems
  <2>2. x.ahead[l] \in WithBehind(x, k)
    BY <2>1, WithBehindUnfolds
  <2> QED BY <2>2, TreeIsClosed
<1> HIDE DEF A, B
<1>3. Item \subseteq B
  BY <1>1, AlongBehind
<1>4. Item \subseteq A
  BY <1>2, AlongAhead
<1>5. j \in Item /\ i \in ToSet(ItemsAhead(x, j)) => i # j
  BY ChainIsEarlier, PrecedesIsStrict DEF WellLinked
<1> QED BY <1>3, <1>4, <1>5 DEF A, B

-----------------------------------------------------------------------------
(* Several items enqueued one after the other.                             *)

(* What is enqueued, new or not, leaves a queue.                           *)
LEMMA EnqueueIsTyped ==
  ASSUME NEW x \in Queues, NEW i \in Item
  PROVE  EnqueueItem(x, i) \in Queues
<1>1. /\ x.order \in Seq(Item) /\ x.ahead \in [Item -> Item \cup {NoItem}]
      /\ x.behind \in [Item -> SUBSET Item] /\ Append(x.order, i) \in Seq(Item)
  BY DEF Queues
<1>2. CASE x.order = <<>>
  <2>1. EnqueueItem(x, i) = [order |-> Append(x.order, i), ahead |-> x.ahead, behind |-> x.behind]
    BY <1>2 DEF EnqueueItem
  <2> QED BY <1>1, <2>1 DEF Queues
<1>3. CASE x.order # <<>>
  <2>1. PICK last : last = x.order[Len(x.order)]
    OBVIOUS
  <2>2. last \in Item
    BY <1>1, <1>3, <2>1
  <2>3. EnqueueItem(x, i) = [order |-> Append(x.order, i), ahead |-> [x.ahead EXCEPT ![i] = last],
                             behind |-> [x.behind EXCEPT ![last] = @ \cup {i}]]
    BY <1>3, <2>1 DEF EnqueueItem
  <2> QED BY <1>1, <2>2, <2>3 DEF Queues
<1> QED BY <1>2, <1>3

(* The queues that a list of items is enqueued through, one at a time.     *)
LEMMA EnqueuedOneByOne ==
  ASSUME NEW x \in Queues, NEW new \in Seq(Item)
  PROVE  \E f : /\ f[0] = x /\ f[Len(new)] = FoldLeft(EnqueueItem, x, new)
                /\ \A k \in 1 .. Len(new) : f[k] = EnqueueItem(f[k - 1], new[k])
<1> DEFINE n == Len(new)
           T == SUBSET (1 .. n)
           Step(h) == [s \in T |-> IF s = {} THEN x ELSE EnqueueItem(h[s \ {Max(s)}], new[Max(s)])]
           g == [p \in Queues \X (1 .. n) |-> EnqueueItem(p[1], new[p[2]])]
<1>1. n \in Nat /\ DOMAIN new = 1 .. n /\ \A k \in 1 .. n : new[k] \in Item
  OBVIOUS
<1>2. \A r \in Queues, k \in 1 .. n : g[<<r, k>>] = EnqueueItem(r, new[k]) /\ g[<<r, k>>] \in Queues
  BY <1>1, EnqueueIsTyped
<1>3. \A s \in T : s # {} => s \ {Max(s)} \in T /\ Max(s) \in 1 .. n
  BY <1>1, MaxOfPart
<1>4. \E h : h = Step(h)
  <2>1. PICK h : Folds(h, n, Queues, x, g)
    <3> HIDE DEF n, g
    <3> QED BY <1>1, <1>2, FoldExists
  <2>2. /\ h = [s \in T |-> h[s]] /\ \A s \in T : h[s] \in Queues
        /\ \A s \in T : h[s] = IF s = {} THEN x ELSE g[<<h[s \ {Max(s)}], Max(s)>>]
    BY <2>1 DEF Folds
  <2>3. ASSUME NEW s \in T PROVE h[s] = Step(h)[s]
    <3> HIDE DEF g
    <3> QED BY <1>2, <1>3, <2>2
  <2>4. Step(h) = [s \in T |-> Step(h)[s]]
    OBVIOUS
  <2> HIDE DEF Step, T
  <2> QED BY <2>2, <2>3, <2>4
<1> DEFINE h == CHOOSE h : h = Step(h)
<1>5. h = Step(h)
  <2> HIDE DEF Step
  <2> QED BY <1>4
<1>6. FoldLeft(EnqueueItem, x, new) = h[1 .. n]
  BY <1>1 DEF FoldLeft, MapThenFoldSet
<1> HIDE DEF h
<1> DEFINE f == [k \in 0 .. n |-> h[1 .. k]]
<1>7. f[0] = x
  <2>1. 1 .. 0 = {} /\ {} \in T /\ 0 \in 0 .. n
    BY <1>1
  <2>2. h[{}] = x
    BY <1>5, <2>1
  <2> QED BY <2>1, <2>2
<1>8. f[n] = FoldLeft(EnqueueItem, x, new)
  BY <1>1, <1>6
<1>9. ASSUME NEW k \in 1 .. n PROVE f[k] = EnqueueItem(f[k - 1], new[k])
  <2>1. k - 1 \in Nat /\ (k - 1) + 1 = k /\ k - 1 \in 0 .. n /\ k \in 0 .. n
    BY <1>1
  <2>2. Max(1 .. k) = k /\ (1 .. k) \ {k} = 1 .. k - 1
    <3>1. Max(1 .. (k - 1) + 1) = (k - 1) + 1 /\ (1 .. (k - 1) + 1) \ {(k - 1) + 1} = 1 .. k - 1
      BY <2>1, MaxOfPrefix
    <3> QED BY <2>1, <3>1
  <2>3. 1 .. k \in T /\ 1 .. k # {}
    <3>1. 1 \in 1 .. k /\ \A m \in 1 .. k : m \in 1 .. n
      BY <1>1
    <3> QED BY <3>1
  <2>4. h[1 .. k] = EnqueueItem(h[1 .. k - 1], new[k])
    BY <1>5, <2>2, <2>3
  <2> QED BY <2>1, <2>4
<1> HIDE DEF f
<1> QED BY <1>7, <1>8, <1>9


(* y is x with the first k of the items new behind its list.               *)
Extended(x, new, k, y) ==
  /\ y \in Queues /\ Len(y.order) = Len(x.order) + k
  /\ \A m \in 1 .. Len(x.order) : y.order[m] = x.order[m]
  /\ \A m \in 1 .. k : y.order[Len(x.order) + m] = new[m]

(* Enqueuing different items that are not queued keeps the links           *)
(* consistent and puts them at the end of the list, in their order.        *)
LEMMA EnqueuedKeepLinks ==
  ASSUME NEW x \in Queues, WellLinked(x), NEW new \in Seq(Item),
         \A k \in 1 .. Len(new) : new[k] \notin Queued(x),
         \A k, m \in 1 .. Len(new) : new[k] = new[m] => k = m
  PROVE  LET y == FoldLeft(EnqueueItem, x, new)
         IN  Extended(x, new, Len(new), y) /\ WellLinked(y)
<1>1. PICK f : /\ f[0] = x /\ f[Len(new)] = FoldLeft(EnqueueItem, x, new)
               /\ \A k \in 1 .. Len(new) : f[k] = EnqueueItem(f[k - 1], new[k])
  BY EnqueuedOneByOne
<1>2. Len(new) \in Nat /\ Len(x.order) \in Nat /\ DOMAIN x.order = 1 .. Len(x.order)
  BY DEF Queues
<1> DEFINE S == {k \in Nat : k <= Len(new) => Extended(x, new, k, f[k]) /\ WellLinked(f[k])}
<1>3. 0 \in S
  BY <1>1, <1>2 DEF Extended
<1>4. ASSUME NEW k \in Nat, k \in S PROVE k + 1 \in S
  <2> SUFFICES ASSUME k + 1 <= Len(new)
               PROVE  Extended(x, new, k + 1, f[k + 1]) /\ WellLinked(f[k + 1])
    BY <1>4
  <2>1. Extended(x, new, k, f[k]) /\ WellLinked(f[k])
    BY <1>2, <1>4
  <2>2. k + 1 \in 1 .. Len(new) /\ (k + 1) - 1 = k
    BY <1>2
  <2>3. f[k + 1] = EnqueueItem(f[k], new[k + 1])
    BY <1>1, <2>2
  <2>4. PICK u : u = f[k]
    OBVIOUS
  <2>5. PICK i : i = new[k + 1]
    OBVIOUS
  <2>6. /\ u \in Queues /\ WellLinked(u) /\ Len(u.order) = Len(x.order) + k
        /\ \A m \in 1 .. Len(x.order) : u.order[m] = x.order[m]
        /\ \A m \in 1 .. k : u.order[Len(x.order) + m] = new[m]
        /\ u.order \in Seq(Item) /\ i \in Item
    BY <2>1, <2>2, <2>4, <2>5 DEF Extended, Queues
  <2>7. i \notin Queued(u)
    <3> SUFFICES ASSUME NEW m \in 1 .. Len(u.order), u.order[m] = i PROVE FALSE
      BY <2>6 DEF Queued
    <3>1. CASE m <= Len(x.order)
      <4>1. m \in 1 .. Len(x.order) /\ x.order[m] = i
        BY <1>2, <2>6, <3>1
      <4> QED BY <1>2, <2>2, <2>5, <4>1 DEF Queued
    <3>2. CASE ~(m <= Len(x.order))
      <4>1. m - Len(x.order) \in 1 .. k /\ m = Len(x.order) + (m - Len(x.order))
        BY <1>2, <2>6, <3>2
      <4>2. new[m - Len(x.order)] = i /\ m - Len(x.order) \in 1 .. Len(new)
        BY <1>2, <2>2, <2>6, <4>1
      <4>3. m - Len(x.order) = k + 1
        BY <2>2, <2>5, <4>2
      <4> QED BY <1>2, <4>1, <4>3
    <3> QED BY <3>1, <3>2
  <2>8. EnqueueItem(u, i) \in Queues /\ WellLinked(EnqueueItem(u, i))
    BY <2>6, <2>7, EnqueueKeepsLinks
  <2>9. EnqueueItem(u, i).order = Append(u.order, i)
    BY DEF EnqueueItem
  <2>10. PICK y : y = EnqueueItem(u, i)
    OBVIOUS
  <2>11. PICK s, t, l : s = u.order /\ t = y.order /\ l = Len(x.order)
    OBVIOUS
  <2>12. /\ s \in Seq(Item) /\ t = Append(s, i) /\ Len(s) = l + k /\ l \in Nat
         /\ \A m \in 1 .. l : s[m] = x.order[m]
         /\ \A m \in 1 .. k : s[l + m] = new[m]
    BY <1>2, <2>6, <2>9, <2>10, <2>11
  <2>13. Len(t) = (l + k) + 1 /\ t[(l + k) + 1] = i /\ \A m \in 1 .. l + k : t[m] = s[m]
    BY <2>6, <2>12
  <2>14. Len(t) = l + (k + 1) /\ \A m \in 1 .. l : t[m] = x.order[m]
    BY <2>12, <2>13
  <2>15. ASSUME NEW m \in 1 .. k + 1 PROVE t[l + m] = new[m]
    <3>1. CASE m \in 1 .. k
      BY <2>12, <2>13, <3>1
    <3>2. CASE m = k + 1
      <4>1. l + m = (l + k) + 1
        BY <2>12, <3>2
      <4> QED BY <2>5, <2>13, <3>2, <4>1
    <3> QED BY <3>1, <3>2
  <2> QED BY <2>3, <2>4, <2>5, <2>8, <2>10, <2>11, <2>14, <2>15 DEF Extended
<1>5. Len(new) \in S
  <2> HIDE DEF S
  <2> QED BY <1>2, <1>3, <1>4, SetInduction
<1> QED BY <1>1, <1>2, <1>5

(* The empty queue is a queue with nothing in it.                          *)
LEMMA EmptyQueueIsWellLinked ==
  EmptyQueue \in Queues /\ WellLinked(EmptyQueue) /\ Queued(EmptyQueue) = {} /\ EmptyQueue.order = <<>>
<1>1. EmptyQueue \in Queues /\ EmptyQueue.order = <<>>
  BY DEF EmptyQueue, Queues
<1>2. /\ \A i \in Item : EmptyQueue.ahead[i] = NoItem /\ EmptyQueue.behind[i] = {}
      /\ Queued(EmptyQueue) = {}
  BY DEF EmptyQueue, Queued
<1> QED
  BY <1>1, <1>2, NoItemAssumption DEF WellLinked, OrderIsInjective, AheadIsEarlier, BehindIsInverse


-----------------------------------------------------------------------------
(* What is left of a queue.                                                *)

(* Dequeuing takes one item out and keeps the order of the others.         *)
LEMMA DequeuedIsGone ==
  ASSUME NEW x \in Queues, OrderIsInjective(x), NEW i \in Item
  PROVE  LET y == DequeueItem(x, i)
         IN  /\ Queued(y) = Queued(x) \ {i}
             /\ \A a, b : Precedes(x, a, b) /\ a # i /\ b # i => Precedes(y, a, b)
<1> DEFINE y == DequeueItem(x, i)
           s == x.order
           p == Position(x, i)
<1>1. s \in Seq(Item) /\ Len(s) \in Nat /\ DOMAIN s = 1 .. Len(s)
  BY DEF Queues
<1>2. y.order = IF i \in Queued(x) THEN RemoveAt(s, p) ELSE s
  BY DEF DequeueItem
<1> HIDE DEF y
<1>3. CASE i \notin Queued(x)
  <2>1. y.order = x.order
    BY <1>2, <1>3
  <2> QED BY <1>3, <2>1 DEF y, Queued, Precedes
<1>4. CASE i \in Queued(x)
  <2>1. /\ y.order \in Seq(Item) /\ OrderIsInjective(y)
        /\ \A a, b : Precedes(x, a, b) /\ a # i /\ b # i => Precedes(y, a, b)
    BY <1>2, <1>4, OrderWithout
  <2>2. p \in 1 .. Len(s) /\ s[p] = i
    <3>1. \E n \in DOMAIN s : s[n] = i
      BY <1>4 DEF Queued
    <3> QED BY <1>1, <3>1 DEF Position
  <2> HIDE DEF p
  <2>3. /\ Len(y.order) = Len(s) - 1
        /\ \A k \in 1 .. Len(s) - 1 : y.order[k] = IF k < p THEN s[k] ELSE s[k + 1]
    <3> HIDE DEF s
    <3> QED BY <1>1, <1>2, <1>4, <2>2, RemoveAtProperties
  <2>4. DOMAIN y.order = 1 .. Len(s) - 1
    BY <2>1, <2>3
  <2>5. \A m, n \in 1 .. Len(s) : s[m] = s[n] => m = n
    BY <1>1 DEF OrderIsInjective
  <2>6. ASSUME NEW a \in Queued(x), a # i PROVE a \in Queued(y)
    <3>1. PICK m \in 1 .. Len(s) : s[m] = a /\ m # p
      BY <1>1, <2>2, <2>6 DEF Queued
    <3>2. CASE m < p
      <4>1. m \in 1 .. Len(s) - 1 /\ y.order[m] = a
        BY <1>1, <2>2, <2>3, <3>1, <3>2
      <4> QED BY <2>4, <4>1 DEF Queued
    <3>3. CASE m > p
      <4>1. m - 1 \in 1 .. Len(s) - 1 /\ ~(m - 1 < p) /\ (m - 1) + 1 = m
        BY <1>1, <2>2, <3>1, <3>3
      <4>2. y.order[m - 1] = a
        BY <2>3, <3>1, <4>1
      <4> QED BY <2>4, <4>1, <4>2 DEF Queued
    <3> QED BY <1>1, <2>2, <3>1, <3>2, <3>3
  <2>7. ASSUME NEW k \in 1 .. Len(s) - 1 PROVE y.order[k] \in Queued(x) \ {i}
    <3>1. CASE k < p
      BY <1>1, <2>2, <2>3, <2>5, <3>1 DEF Queued
    <3>2. CASE ~(k < p)
      <4>1. k + 1 \in 1 .. Len(s) /\ k + 1 # p
        BY <1>1, <2>2, <3>2
      <4>2. y.order[k] = s[k + 1]
        BY <2>3, <3>2
      <4> QED BY <1>1, <2>2, <2>5, <4>1, <4>2 DEF Queued
    <3> QED BY <3>1, <3>2
  <2>8. Queued(y) = Queued(x) \ {i}
    <3>1. Queued(y) \subseteq Queued(x) \ {i}
      BY <2>4, <2>7 DEF Queued
    <3> QED BY <2>6, <3>1
  <2> QED BY <2>1, <2>8 DEF y
<1> QED BY <1>3, <1>4

-----------------------------------------------------------------------------
(* The items that an item is tested on top of.                             *)

(* Those getDependentItems leads to.                                       *)
Up(x, i) == ToSet(ItemsAhead(x, i))

(* They are the item ahead and those it is tested on top of.               *)
LEMMA UpUnfolds ==
  ASSUME NEW x \in Queues, WellLinked(x), NEW j \in Item
  PROVE  /\ x.ahead[j] = NoItem => Up(x, j) = {}
         /\ x.ahead[j] # NoItem => /\ x.ahead[j] \in Item
                                   /\ Up(x, j) = {x.ahead[j]} \cup Up(x, x.ahead[j])
<1>1. x.ahead[j] \in Item \cup {NoItem}
  BY DEF Queues
<1> QED BY <1>1, ChainOfItems DEF Up

(* They are queued, earlier in the list.                                   *)
LEMMA UpIsEarlier ==
  ASSUME NEW x \in Queues, WellLinked(x), NEW j \in Item, NEW a \in Up(x, j)
  PROVE  /\ a \in Item /\ a \in Queued(x) /\ j \in Queued(x) /\ a # j
         /\ Precedes(x, a, j) /\ ~Precedes(x, j, a)
<1>1. a \in Item /\ Precedes(x, a, j)
  BY ChainIsEarlier DEF Up
<1> QED BY <1>1, PrecedesIsStrict DEF WellLinked

(* What they are tested on top of is among them.                           *)
LEMMA UpIsTransitive ==
  ASSUME NEW x \in Queues, WellLinked(x), NEW j \in Item, NEW b \in Up(x, j)
  PROVE  Up(x, b) \subseteq Up(x, j)
<1> DEFINE G == {k \in Item : b \in Up(x, k) => Up(x, b) \subseteq Up(x, k)}
<1>1. ASSUME NEW k \in Item, x.ahead[k] = NoItem \/ x.ahead[k] \in G PROVE k \in G
  BY <1>1, UpUnfolds
<1> HIDE DEF G
<1>2. Item \subseteq G
  BY <1>1, AlongAhead
<1> QED BY <1>2 DEF G

(* The items tested on top of i, i included, are those cancelJobs visits.  *)
LEMMA BehindIsAbove ==
  ASSUME NEW x \in Queues, WellLinked(x), NEW i \in Item
  PROVE  /\ WithBehind(x, i) \subseteq Item
         /\ \A j \in Item : j \in WithBehind(x, i) <=> j = i \/ i \in Up(x, j)
<1>1. i \in WithBehind(x, i)
  BY WithBehindUnfolds
<1>2. \A j \in WithBehind(x, i) : j \in Item
  BY WalksMeet
<1>3. \A j \in Item : j \in WithBehind(x, i) \ {i} <=> i \in Up(x, j)
  BY WalksMeet DEF Up
<1>4. i \notin Up(x, i)
  BY UpIsEarlier
<1> QED BY <1>1, <1>2, <1>3, <1>4

(* Two different items of the list come one before the other.              *)
LEMMA PrecedesIsTotal ==
  ASSUME NEW x \in Queues, NEW a \in Queued(x), NEW b \in Queued(x), a # b
  PROVE  Precedes(x, a, b) \/ Precedes(x, b, a)
<1>1. x.order \in Seq(Item) /\ DOMAIN x.order = 1 .. Len(x.order) /\ Len(x.order) \in Nat
  BY DEF Queues
<1>2. PICK m \in 1 .. Len(x.order), n \in 1 .. Len(x.order) : x.order[m] = a /\ x.order[n] = b
  BY <1>1 DEF Queued
<1>3. m < n \/ n < m
  BY <1>1, <1>2
<1> QED BY <1>1, <1>2, <1>3 DEF Precedes

(* When r left its place and what was behind it was handed to the item     *)
(* ahead of it, the others lose r and nothing else.                        *)
LEMMA UpWithout ==
  ASSUME NEW x \in Queues, WellLinked(x), NEW y \in Queues, WellLinked(y), NEW r \in Item,
         \A i \in Item \ {r} : y.ahead[i] = UnlinkedAhead(x, r)[i]
  PROVE  \A i \in Item \ {r} : Up(y, i) = Up(x, i) \ {r}
<1>1. \A i \in Item \ {r} : y.ahead[i] = IF x.ahead[i] = r THEN x.ahead[r] ELSE x.ahead[i]
  BY DEF UnlinkedAhead, WellLinked, BehindIsInverse
<1>2. ASSUME NEW i \in Item
      PROVE  /\ x.ahead[i] \in Item \cup {NoItem} /\ x.ahead[i] # i
             /\ y.ahead[i] \in Item \cup {NoItem}
             /\ x.ahead[i] # NoItem => i \notin Up(x, x.ahead[i])
  <2>1. x.ahead[i] \in Item \cup {NoItem} /\ y.ahead[i] \in Item \cup {NoItem}
    BY DEF Queues
  <2>2. x.ahead[i] # NoItem => Precedes(x, x.ahead[i], i)
    BY DEF WellLinked, AheadIsEarlier
  <2>3. \A a : ~Precedes(x, a, a)
    BY PrecedesIsStrict DEF WellLinked
  <2>4. x.ahead[i] # i
    BY <2>2, <2>3, NoItemAssumption
  <2>5. ASSUME x.ahead[i] # NoItem, i \in Up(x, x.ahead[i]) PROVE FALSE
    BY <2>1, <2>2, <2>5, UpIsEarlier
  <2> QED BY <2>1, <2>4, <2>5
<1> DEFINE Eq(k) == Up(y, k) = Up(x, k) \ {r}
           G == {k \in Item : /\ k # r => Eq(k)
                              /\ k = r => x.ahead[r] = NoItem \/ Eq(x.ahead[r])}
<1>3. ASSUME NEW k \in Item, x.ahead[k] = NoItem \/ x.ahead[k] \in G PROVE k \in G
  <2>1. CASE k = r
    BY <1>2, <1>3, <2>1
  <2>2. CASE k # r
    <3>1. r \notin Up(x, r)
      BY UpIsEarlier
    <3>2. CASE x.ahead[k] = NoItem
      <4>1. y.ahead[k] = NoItem
        BY <1>1, <2>2, <3>2, NoItemAssumption
      <4> QED BY <2>2, <3>2, <4>1, UpUnfolds
    <3>3. CASE x.ahead[k] = r
      <4>1. y.ahead[k] = x.ahead[r] /\ Up(x, k) = {r} \cup Up(x, r)
        BY <1>1, <2>2, <3>3, UpUnfolds, NoItemAssumption
      <4>2. CASE x.ahead[r] = NoItem
        BY <2>2, <4>1, <4>2, UpUnfolds
      <4>3. CASE x.ahead[r] # NoItem
        <5>1. Eq(x.ahead[r])
          BY <1>3, <3>3, <4>3, NoItemAssumption
        <5>2. Up(x, r) = {x.ahead[r]} \cup Up(x, x.ahead[r])
          BY <4>3, UpUnfolds
        <5>3. Up(y, k) = {x.ahead[r]} \cup Up(y, x.ahead[r])
          BY <4>1, <4>3, UpUnfolds
        <5> QED BY <1>2, <2>2, <3>1, <4>1, <5>1, <5>2, <5>3
      <4> QED BY <4>2, <4>3
    <3>4. CASE x.ahead[k] # NoItem /\ x.ahead[k] # r
      <4>1. y.ahead[k] = x.ahead[k] /\ Eq(x.ahead[k])
        BY <1>1, <1>3, <2>2, <3>4
      <4>2. /\ Up(x, k) = {x.ahead[k]} \cup Up(x, x.ahead[k])
            /\ Up(y, k) = {x.ahead[k]} \cup Up(y, x.ahead[k])
        BY <3>4, <4>1, UpUnfolds
      <4> QED BY <2>2, <3>4, <4>1, <4>2
    <3> QED BY <3>2, <3>3, <3>4
  <2> QED BY <2>1, <2>2
<1> HIDE DEF G
<1>4. Item \subseteq G
  BY <1>3, AlongAhead
<1> QED BY <1>4 DEF G

(* So it is when r leaves the queue, and the list loses nothing else, ...  *)
LEMMA DequeuedUp ==
  ASSUME NEW x \in Queues, WellLinked(x), NEW r \in Item
  PROVE  LET y == DequeueItem(x, r)
         IN  /\ y \in Queues /\ WellLinked(y) /\ Queued(y) = Queued(x) \ {r}
             /\ \A i \in Item \ {r} : Up(y, i) = Up(x, i) \ {r}
             /\ \A a, b : Precedes(y, a, b) <=> Precedes(x, a, b) /\ a # r /\ b # r
<1>1. PICK y : y = DequeueItem(x, r)
  OBVIOUS
<1>2. /\ y \in Queues /\ WellLinked(y) /\ Queued(y) = Queued(x) \ {r}
      /\ \A a, b : Precedes(x, a, b) /\ a # r /\ b # r => Precedes(y, a, b)
  BY <1>1, DequeueKeepsLinks, DequeuedIsGone DEF WellLinked
<1>3. \A i \in Item \ {r} : y.ahead[i] = UnlinkedAhead(x, r)[i]
  BY <1>1 DEF DequeueItem, UnlinkedAhead
<1>4. \A i \in Item \ {r} : Up(y, i) = Up(x, i) \ {r}
  BY <1>2, <1>3, UpWithout
<1>5. ASSUME NEW a, NEW b, Precedes(y, a, b)
      PROVE  Precedes(x, a, b) /\ a # r /\ b # r
  <2>1. a \in Queued(y) /\ b \in Queued(y) /\ a # b
    BY <1>2, <1>5, PrecedesIsStrict DEF WellLinked
  <2>2. Precedes(x, a, b) \/ Precedes(x, b, a)
    BY <1>2, <2>1, PrecedesIsTotal
  <2>3. ~Precedes(y, b, a)
    BY <1>2, <1>5, PrecedesIsStrict DEF WellLinked
  <2> QED BY <1>2, <2>1, <2>2, <2>3
<1> QED BY <1>1, <1>2, <1>4, <1>5

(* ... and when it is moved behind an earlier item or to the head, nothing *)
(* being behind it then.                                                   *)
LEMMA MovedUp ==
  ASSUME NEW x \in Queues, WellLinked(x), NEW r \in Item, NEW a \in Item \cup {NoItem},
         a = NoItem \/ Precedes(x, a, r), x.ahead[r] # a
  PROVE  LET y == MoveItem(x, r, a)
         IN  /\ y \in Queues /\ WellLinked(y) /\ Queued(y) = Queued(x)
             /\ \A i \in Item \ {r} : Up(y, i) = Up(x, i) \ {r}
             /\ Up(y, r) = IF a = NoItem THEN {} ELSE {a} \cup Up(x, a)
             /\ \A b, c : Precedes(y, b, c) <=> Precedes(x, b, c)
             /\ y.ahead[r] = a
<1>1. PICK y : y = MoveItem(x, r, a)
  OBVIOUS
<1>2. y \in Queues /\ WellLinked(y)
  BY <1>1, MoveKeepsLinks
<1>3. y.order = x.order /\ y.ahead = [UnlinkedAhead(x, r) EXCEPT ![r] = a]
  BY <1>1 DEF MoveItem
<1>4. y.ahead[r] = a /\ \A i \in Item \ {r} : y.ahead[i] = UnlinkedAhead(x, r)[i]
  BY <1>3 DEF UnlinkedAhead
<1>5. \A i \in Item \ {r} : Up(y, i) = Up(x, i) \ {r}
  BY <1>2, <1>4, UpWithout
<1>6. Queued(y) = Queued(x) /\ \A b, c : Precedes(y, b, c) <=> Precedes(x, b, c)
  BY <1>3 DEF Queued, Precedes
<1>7. Up(y, r) = IF a = NoItem THEN {} ELSE {a} \cup Up(x, a)
  <2>1. CASE a = NoItem
    BY <1>2, <1>4, <2>1, UpUnfolds
  <2>2. CASE a # NoItem
    <3>1. a \in Item /\ a # r /\ r \notin Up(x, a)
      <4>1. a \in Item /\ Precedes(x, a, r)
        BY <2>2
      <4>2. a # r /\ ~Precedes(x, r, a)
        BY <4>1, PrecedesIsStrict DEF WellLinked
      <4> QED BY <4>1, <4>2, UpIsEarlier
    <3>2. Up(y, r) = {a} \cup Up(y, a)
      BY <1>2, <1>4, <2>2, UpUnfolds
    <3> QED BY <1>5, <2>2, <3>1, <3>2
  <2> QED BY <2>1, <2>2
<1> QED BY <1>1, <1>2, <1>4, <1>5, <1>6, <1>7

(* What was queued keeps its links when more is enqueued.                  *)
LEMMA EnqueuedUp ==
  ASSUME NEW x \in Queues, WellLinked(x), NEW new \in Seq(Item),
         \A k \in 1 .. Len(new) : new[k] \notin Queued(x),
         \A k, m \in 1 .. Len(new) : new[k] = new[m] => k = m
  PROVE  LET y == FoldLeft(EnqueueItem, x, new)
         IN  \A i \in Queued(x) : Up(y, i) = Up(x, i)
<1>1. PICK f : /\ f[0] = x /\ f[Len(new)] = FoldLeft(EnqueueItem, x, new)
               /\ \A k \in 1 .. Len(new) : f[k] = EnqueueItem(f[k - 1], new[k])
  BY EnqueuedOneByOne
<1>2. Len(new) \in Nat
  OBVIOUS
<1> DEFINE S == {k \in Nat : k <= Len(new) =>
                   f[k] \in Queues /\ \A i \in Queued(x) : f[k].ahead[i] = x.ahead[i]}
<1>3. 0 \in S
  BY <1>1
<1>4. ASSUME NEW k \in Nat, k \in S PROVE k + 1 \in S
  <2> SUFFICES ASSUME k + 1 <= Len(new)
               PROVE  /\ f[k + 1] \in Queues
                      /\ \A i \in Queued(x) : f[k + 1].ahead[i] = x.ahead[i]
    BY <1>4
  <2>1. PICK u : u = f[k]
    OBVIOUS
  <2>2. PICK n : n = new[k + 1]
    OBVIOUS
  <2>3. k + 1 \in 1 .. Len(new) /\ (k + 1) - 1 = k
    BY <1>2
  <2>4. f[k + 1] = EnqueueItem(u, n) /\ n \in Item /\ n \notin Queued(x)
    BY <1>1, <2>1, <2>2, <2>3
  <2>5. u \in Queues /\ \A i \in Queued(x) : u.ahead[i] = x.ahead[i]
    BY <1>2, <1>4, <2>1
  <2>6. PICK l : l = u.order[Len(u.order)]
    OBVIOUS
  <2>7. EnqueueItem(u, n).ahead = IF u.order = <<>> THEN u.ahead ELSE [u.ahead EXCEPT ![n] = l]
    BY <2>6 DEF EnqueueItem
  <2>8. u.ahead \in [Item -> Item \cup {NoItem}] /\ \A i \in Queued(x) : i \in Item
    BY <2>5 DEF Queues, Queued
  <2>9. EnqueueItem(u, n) \in Queues
    BY <2>4, <2>5, EnqueueIsTyped
  <2> QED BY <2>4, <2>5, <2>7, <2>8, <2>9
<1>5. Len(new) \in S
  <2> HIDE DEF S
  <2> QED BY <1>2, <1>3, <1>4, SetInduction
<1>6. PICK y : y = f[Len(new)]
  OBVIOUS
<1>7. y \in Queues /\ \A i \in Queued(x) : y.ahead[i] = x.ahead[i]
  BY <1>2, <1>5, <1>6
<1>8. WellLinked(y)
  BY <1>1, <1>6, EnqueuedKeepLinks
<1> DEFINE G == {k \in Item : k \in Queued(x) => Up(y, k) = Up(x, k)}
<1>9. ASSUME NEW k \in Item, x.ahead[k] = NoItem \/ x.ahead[k] \in G PROVE k \in G
  <2>1. x.ahead[k] # NoItem => x.ahead[k] \in Queued(x)
    BY PrecedesIsStrict DEF WellLinked, AheadIsEarlier
  <2> SUFFICES ASSUME k \in Queued(x) PROVE Up(y, k) = Up(x, k)
    OBVIOUS
  <2>2. y.ahead[k] = x.ahead[k]
    BY <1>7
  <2>3. CASE x.ahead[k] = NoItem
    BY <1>7, <1>8, <2>2, <2>3, UpUnfolds
  <2>4. CASE x.ahead[k] # NoItem
    <3>1. Up(y, x.ahead[k]) = Up(x, x.ahead[k])
      BY <1>9, <2>1, <2>4
    <3>2. Up(x, k) = {x.ahead[k]} \cup Up(x, x.ahead[k])
      BY <2>4, UpUnfolds
    <3>3. Up(y, k) = {y.ahead[k]} \cup Up(y, y.ahead[k])
      BY <1>7, <1>8, <2>2, <2>4, UpUnfolds
    <3> QED BY <2>2, <3>1, <3>2, <3>3
  <2> QED BY <2>3, <2>4
<1> HIDE DEF G
<1>10. Item \subseteq G
  BY <1>9, AlongAhead
<1>11. \A i \in Queued(x) : i \in Item
  BY DEF Queues, Queued
<1> QED BY <1>1, <1>6, <1>10, <1>11 DEF G
=============================================================================
