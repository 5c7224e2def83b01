----------------------------- MODULE GateProofs -----------------------------
(***************************************************************************)
(* The gate: its queue's links stay consistent and no change is in it      *)
(* twice, two builds with one mutex are never waited for together, every   *)
(* variable keeps its type, jobs run only below jobs that succeeded, and   *)
(* behind the jobs with hold-following-changes of what is ahead, whatever  *)
(* the changes, dependencies, jobs, mutexes, layouts, bounds and faults    *)
(* are.                                                                    *)
(*                                                                         *)
(* The invariant of the queue says three things together: the list and the *)
(* links agree, the items in it were made for one change each, and the     *)
(* items the pass over the queue has yet to process are still queued in    *)
(* the order of the list, behind the nearest non-failing item, so that a   *)
(* move keeps every item behind the one it is linked to.                   *)
(***************************************************************************)
EXTENDS Gate, QueueFacts

-----------------------------------------------------------------------------
(* addChange: for every nesting, the changes queued before stay where they *)
(* are, none comes in twice, and each comes in behind what it needs.       *)

(* What addChange returns.                                                 *)
Results == [ok : BOOLEAN, queue : Seq(Change)]

(* No change twice.                                                        *)
Distinct(s) == \A m, n \in 1 .. Len(s) : s[m] = s[n] => m = n

(* t is s and what was added at its end.                                   *)
Continues(s, t) == Len(s) <= Len(t) /\ \A m \in 1 .. Len(s) : t[m] = s[m]

(* What was added was ready, behind what it needs of what has yet to merge. *)
Follows(s, t) ==
  \A n \in Len(s) + 1 .. Len(t) :
    /\ t[n] \in Gated /\ status[t[n]] = "ready"
    /\ \A c \in Unmerged(t[n]) : \E m \in 1 .. n - 1 : t[m] = c

(* What addChange may answer when the changes s are queued.                *)
Answers(s) ==
  {r \in Results : /\ Continues(s, r.queue) /\ Follows(s, r.queue)
                   /\ Distinct(s) => Distinct(r.queue)}

(* What it says when it is asked for c: a change it accepts is queued.     *)
Accepts(c, r) == r.ok => c \in ToSet(r.queue)

(* A nested addChange that answers so to every call.                       *)
Answering(nested) ==
  \A c \in Change, s \in Seq(Change) :
    nested[<<c, s>>] \in Answers(s) /\ Accepts(c, nested[<<c, s>>])

(* Nothing is done: an answer.                                             *)
LEMMA NothingAnswers ==
  ASSUME NEW s \in Seq(Change), NEW ok \in BOOLEAN
  PROVE  [ok |-> ok, queue |-> s] \in Answers(s)
<1>1. Len(s) \in Nat /\ ~(\E n \in Len(s) + 1 .. Len(s) : TRUE)
  OBVIOUS
<1> QED BY <1>1 DEF Answers, Results, Continues, Follows

(* What is queued stays queued.                                            *)
LEMMA QueuedStays ==
  ASSUME NEW s \in Seq(Change), NEW t \in Seq(Change), Continues(s, t), NEW c \in ToSet(s)
  PROVE  c \in ToSet(t)
<1>1. PICK m \in 1 .. Len(s) : s[m] = c
  BY DEF ToSet
<1>2. m \in 1 .. Len(t) /\ t[m] = c
  BY <1>1 DEF Continues
<1> QED BY <1>2 DEF ToSet

(* An answer to what an earlier answer left.                               *)
LEMMA AnswersCompose ==
  ASSUME NEW s \in Seq(Change), NEW r \in Answers(s), NEW t \in Answers(r.queue),
         NEW ok \in BOOLEAN
  PROVE  t \in Answers(s) /\ [ok |-> ok, queue |-> t.queue] \in Answers(s)
<1>1. /\ r.queue \in Seq(Change) /\ t \in Results /\ t.queue \in Seq(Change)
      /\ Len(s) \in Nat /\ Len(r.queue) \in Nat /\ Len(t.queue) \in Nat
  BY DEF Answers, Results
<1>2. Continues(s, t.queue)
  BY <1>1 DEF Answers, Continues
<1>3. Distinct(s) => Distinct(t.queue)
  BY DEF Answers
<1>4. Follows(s, t.queue)
  <2>1. Follows(s, r.queue) /\ Follows(r.queue, t.queue) /\ Continues(r.queue, t.queue)
    BY DEF Answers
  <2>2. PICK u \in Seq(Change), v \in Seq(Change) : u = r.queue /\ v = t.queue
    BY <1>1
  <2>3. PICK k \in Nat, l \in Nat, n \in Nat : k = Len(s) /\ l = Len(u) /\ n = Len(v)
    BY <2>2
  <2> SUFFICES ASSUME NEW x \in k + 1 .. n
               PROVE  /\ v[x] \in Gated /\ status[v[x]] = "ready"
                      /\ \A c \in Unmerged(v[x]) : \E m \in 1 .. x - 1 : v[m] = c
    BY <2>2, <2>3 DEF Follows
  <2>4. CASE x \in l + 1 .. n
    BY <2>1, <2>2, <2>3, <2>4 DEF Follows
  <2>5. CASE ~(x \in l + 1 .. n)
    <3>1. x \in k + 1 .. l /\ l <= n /\ \A m \in 1 .. l : v[m] = u[m]
      BY <2>1, <2>2, <2>3, <2>5 DEF Continues
    <3>2. x \in 1 .. l /\ \A m \in 1 .. x - 1 : m \in 1 .. l
      BY <3>1
    <3>3. /\ u[x] \in Gated /\ status[u[x]] = "ready"
          /\ \A c \in Unmerged(u[x]) : \E m \in 1 .. x - 1 : u[m] = c
      BY <2>1, <2>2, <2>3, <3>1 DEF Follows
    <3> QED BY <3>1, <3>2, <3>3
  <2> QED BY <2>4, <2>5
<1> QED BY <1>1, <1>2, <1>3, <1>4 DEF Answers, Results

(* A change that is not queued and may go in is enqueued.                  *)
LEMMA AppendAnswers ==
  ASSUME NEW s \in Seq(Change), NEW c \in Change, c \notin ToSet(s),
         c \in Gated, status[c] = "ready", Unmerged(c) \subseteq ToSet(s)
  PROVE  [ok |-> TRUE, queue |-> Append(s, c)] \in Answers(s)
<1>1. PICK t : t = Append(s, c)
  OBVIOUS
<1>2. /\ t \in Seq(Change) /\ Len(t) = Len(s) + 1 /\ t[Len(s) + 1] = c
      /\ \A m \in 1 .. Len(s) : t[m] = s[m]
  BY <1>1
<1>3. \A m \in 1 .. Len(s) : s[m] # c
  BY DEF ToSet
<1>4. Distinct(s) => Distinct(t)
  BY <1>2, <1>3 DEF Distinct
<1>5. Continues(s, t)
  BY <1>2 DEF Continues
<1>6. Follows(s, t)
  <2>1. PICK k \in Nat : k = Len(s)
    OBVIOUS
  <2>2. ASSUME NEW n \in Unmerged(c) PROVE \E m \in 1 .. (k + 1) - 1 : t[m] = n
    <3>1. PICK m \in 1 .. k : s[m] = n
      BY <2>1 DEF ToSet
    <3>2. m \in 1 .. (k + 1) - 1 /\ t[m] = n
      BY <1>2, <2>1, <3>1
    <3> QED BY <3>2
  <2>3. \A n \in k + 1 .. Len(t) : n = k + 1
    BY <1>2, <2>1
  <2>4. t[k + 1] = c
    BY <1>2, <2>1
  <2> QED BY <2>1, <2>2, <2>3, <2>4 DEF Follows
<1> QED BY <1>1, <1>2, <1>4, <1>5, <1>6 DEF Answers, Results

(* The sets of changes that addChange goes through are finite.             *)
LEMMA ChangesInOrder ==
  ASSUME NEW S, S \subseteq Change
  PROVE  SetToSeq(S) \in Seq(Change)
<1>1. IsFiniteSet(S)
  BY LayoutAssumption, FS_Subset
<1>2. PICK s : s = SetToSeq(S)
  OBVIOUS
<1>3. s \in Seq(ToSet(s)) /\ ToSet(s) \subseteq Change
  BY <1>1, <1>2, FiniteSetInOrder
<1>4. Len(s) \in Nat /\ \A m \in 1 .. Len(s) : s[m] \in Change
  BY <1>3
<1>5. s = [m \in 1 .. Len(s) |-> s[m]]
  BY <1>3
<1> QED BY <1>2, <1>4, <1>5

(* enqueueChangesAhead answers when the calls it makes do, and when it     *)
(* succeeds all that c needs is queued.                                    *)
LEMMA AheadAnswers ==
  ASSUME NEW nested, Answering(nested), NEW c \in Change, NEW queued \in Seq(Change)
  PROVE  LET ahead == EnqueueChangesAhead(nested, c, queued)
         IN  /\ ahead \in Answers(queued)
             /\ ahead.ok => Unmerged(c) \subseteq ToSet(ahead.queue)
<1>1. CASE Blocked(c, ToSet(queued))
  <2>1. EnqueueChangesAhead(nested, c, queued) = [ok |-> FALSE, queue |-> queued]
    BY <1>1 DEF EnqueueChangesAhead
  <2>2. PICK no \in BOOLEAN : no = FALSE
    OBVIOUS
  <2>3. PICK r : r = [ok |-> no, queue |-> queued]
    OBVIOUS
  <2>4. r \in Answers(queued) /\ ~r.ok
    BY <2>2, <2>3, NothingAnswers
  <2> QED BY <2>1, <2>2, <2>3, <2>4
<1>2. CASE ~Blocked(c, ToSet(queued))
  <2> DEFINE needed == SetToSeq(Missing(c, ToSet(queued)))
             n == Len(needed)
             base == [ok |-> TRUE, queue |-> queued]
             R == Answers(queued)
             Op(r, k) == IF r.ok THEN nested[<<needed[k], r.queue>>] ELSE r
             Step(h) == [s \in SUBSET (1 .. n) |->
                           IF s = {} THEN base ELSE Op(h[s \ {Max(s)}], Max(s))]
             g == [p \in R \X (1 .. n) |-> Op(p[1], p[2])]
  <2>1. needed \in Seq(Change) /\ ToSet(needed) = Missing(c, ToSet(queued))
    <3>1. Missing(c, ToSet(queued)) \subseteq Change
      BY NeedsAssumption DEF Missing, Unmerged
    <3>2. IsFiniteSet(Missing(c, ToSet(queued)))
      BY <3>1, LayoutAssumption, FS_Subset
    <3> DEFINE S == Missing(c, ToSet(queued))
    <3> HIDE DEF S
    <3>3. SetToSeq(S) \in Seq(Change)
      BY <3>1, ChangesInOrder DEF S
    <3>4. ToSet(SetToSeq(S)) \subseteq S /\ S \subseteq ToSet(SetToSeq(S))
      BY <3>2, FiniteSetInOrder, AllInOrder DEF S
    <3> QED BY <3>3, <3>4 DEF S
  <2>2. /\ n \in Nat /\ DOMAIN needed = 1 .. n /\ \A k \in 1 .. n : needed[k] \in Change
        /\ \A x \in Missing(c, ToSet(queued)) : \E k \in 1 .. n : needed[k] = x
    <3>1. n \in Nat /\ DOMAIN needed = 1 .. n /\ \A k \in 1 .. n : needed[k] \in Change
      BY <2>1
    <3> QED BY <2>1, <3>1 DEF ToSet
  <2>3. base \in R
    BY NothingAnswers
  <2>4. ASSUME NEW r \in R, NEW k \in 1 .. n
        PROVE  /\ Op(r, k) \in R
               /\ Op(r, k).ok => r.ok /\ needed[k] \in ToSet(Op(r, k).queue)
               /\ \A x \in ToSet(r.queue) : x \in ToSet(Op(r, k).queue)
    <3>1. r.queue \in Seq(Change)
      BY DEF Answers, Results
    <3>2. CASE r.ok
      <4>1. PICK t : t = nested[<<needed[k], r.queue>>]
        OBVIOUS
      <4>2. t \in Answers(r.queue) /\ Accepts(needed[k], t)
        BY <2>2, <3>1, <4>1 DEF Answering
      <4>3. t \in R
        BY <4>2, AnswersCompose
      <4>4. t.queue \in Seq(Change) /\ Continues(r.queue, t.queue)
        BY <4>2 DEF Answers, Results
      <4>5. \A x \in ToSet(r.queue) : x \in ToSet(t.queue)
        BY <3>1, <4>4, QueuedStays
      <4>6. Op(r, k) = t
        BY <3>2, <4>1
      <4>7. t.ok => needed[k] \in ToSet(t.queue)
        BY <4>2 DEF Accepts
      <4> HIDE DEF Op, R, needed
      <4> QED BY <3>2, <4>3, <4>5, <4>6, <4>7
    <3>3. CASE ~r.ok
      <4>1. Op(r, k) = r
        BY <3>3
      <4> HIDE DEF Op, R, needed
      <4> QED BY <3>3, <4>1
    <3> QED BY <3>2, <3>3
  <2>5. EnqueueChangesAhead(nested, c, queued) = (CHOOSE h : h = Step(h))[1 .. n]
    BY <1>2, <2>2 DEF EnqueueChangesAhead, FoldLeft, MapThenFoldSet
  <2>6. \A r \in R, k \in 1 .. n : g[<<r, k>>] = Op(r, k)
    OBVIOUS
  <2>7. base.ok /\ base.queue = queued
    OBVIOUS
  <2> HIDE DEF needed, base, R, Op, g
  <2>8. \A s \in SUBSET (1 .. n) : s # {} => s \ {Max(s)} \in SUBSET (1 .. n) /\ Max(s) \in 1 .. n
    BY <2>2, MaxOfPart
  <2>9. \E h : h = Step(h)
    <3>1. PICK h : Folds(h, n, R, base, g)
      <4> HIDE DEF n
      <4> QED BY <2>2, <2>3, <2>4, <2>6, FoldExists
    <3>2. /\ h \in [SUBSET (1 .. n) -> R]
          /\ \A s \in SUBSET (1 .. n) :
               h[s] = IF s = {} THEN base ELSE g[<<h[s \ {Max(s)}], Max(s)>>]
      BY <3>1 DEF Folds
    <3>3. \A s \in SUBSET (1 .. n) : h[s] = Step(h)[s]
      BY <2>6, <2>8, <3>2
    <3> QED BY <3>2, <3>3
  <2> DEFINE h == CHOOSE h : h = Step(h)
  <2>10. h = Step(h)
    <3> HIDE DEF Step
    <3> QED BY <2>9
  <2> HIDE DEF h
  <2> DEFINE K == {s \in SUBSET (1 .. n) :
                     /\ h[s] \in R
                     /\ \A x \in ToSet(queued) : x \in ToSet(h[s].queue)
                     /\ h[s].ok => \A k \in s : needed[k] \in ToSet(h[s].queue)}
             F == [s \in SUBSET (1 .. n) |-> s]
  <2>11. {} \in K
    <3>1. h[{}] = base
      BY <2>10
    <3> QED BY <2>3, <2>7, <3>1
  <2>12. ASSUME NEW s \in SUBSET (1 .. n), s # {}, s \ {Max(s)} \in K PROVE s \in K
    <3>1. PICK k \in 1 .. n : k = Max(s)
      BY <2>8, <2>12
    <3>2. PICK t \in SUBSET (1 .. n) : t = s \ {k} /\ t \in K
      BY <2>8, <2>12, <3>1
    <3>3. PICK r \in R : r = h[t]
      BY <3>2
    <3>4. h[s] = Op(r, k)
      BY <2>10, <2>12, <3>1, <3>2, <3>3
    <3>5. /\ Op(r, k) \in R
          /\ Op(r, k).ok => r.ok /\ needed[k] \in ToSet(Op(r, k).queue)
          /\ \A x \in ToSet(r.queue) : x \in ToSet(Op(r, k).queue)
      BY <2>4
    <3>6. \A x \in ToSet(queued) : x \in ToSet(h[s].queue)
      BY <3>2, <3>3, <3>4, <3>5
    <3>7. ASSUME h[s].ok, NEW m \in s PROVE needed[m] \in ToSet(h[s].queue)
      <4>1. CASE m = k
        BY <3>4, <3>5, <3>7, <4>1
      <4>2. CASE m # k
        <5>1. needed[m] \in ToSet(r.queue)
          BY <3>2, <3>3, <3>4, <3>5, <3>7, <4>2
        <5> QED BY <3>4, <3>5, <5>1
      <4> QED BY <4>1, <4>2
    <3> QED BY <3>4, <3>5, <3>6, <3>7
  <2>13. 1 .. n \in K
    <3>1. F[{}] \in K /\ F[1 .. n] = 1 .. n
      BY <2>11
    <3>2. \A s \in SUBSET (1 .. n) : s # {} => (F[s \ {Max(s)}] \in K => F[s] \in K)
      BY <2>8, <2>12
    <3> HIDE DEF n, F, K
    <3>3. F[1 .. n] \in K
      BY <2>2, <3>1, <3>2, FoldKeeps
    <3> QED BY <3>1, <3>3
  <2>14. PICK r : r = h[1 .. n]
    OBVIOUS
  <2>15. /\ r \in R /\ \A x \in ToSet(queued) : x \in ToSet(r.queue)
         /\ r.ok => \A k \in 1 .. n : needed[k] \in ToSet(r.queue)
    BY <2>13, <2>14
  <2>16. ASSUME r.ok, NEW x \in Unmerged(c) PROVE x \in ToSet(r.queue)
    <3>1. CASE x \in ToSet(queued)
      BY <2>15, <3>1
    <3>2. CASE x \notin ToSet(queued)
      <4>1. x \in Missing(c, ToSet(queued))
        BY <2>16, <3>2 DEF Missing
      <4>2. PICK k \in 1 .. n : needed[k] = x
        BY <2>2, <4>1
      <4> QED BY <2>15, <2>16, <4>2
    <3> QED BY <3>1, <3>2
  <2>17. EnqueueChangesAhead(nested, c, queued) = r
    BY <2>5, <2>14 DEF h
  <2> QED BY <2>15, <2>16, <2>17 DEF R
<1> QED BY <1>1, <1>2

(* So does enqueueChangesBehind.                                           *)
LEMMA BehindAnswers ==
  ASSUME NEW nested, Answering(nested), NEW c \in Change, NEW queued \in Seq(Change)
  PROVE  EnqueueChangesBehind(nested, c, queued) \in Answers(queued)
<1> DEFINE followers == SetToSeq(FollowersOf(c))
           n == Len(followers)
           base == [ok |-> TRUE, queue |-> queued]
           R == Answers(queued)
           Op(r, k) == [ok |-> TRUE, queue |-> nested[<<followers[k], r.queue>>].queue]
           Step(h) == [s \in SUBSET (1 .. n) |->
                         IF s = {} THEN base ELSE Op(h[s \ {Max(s)}], Max(s))]
           g == [p \in R \X (1 .. n) |-> Op(p[1], p[2])]
<1>1. followers \in Seq(Change)
  <2>1. FollowersOf(c) \subseteq Change
    BY LayoutAssumption DEF FollowersOf
  <2> QED BY <2>1, ChangesInOrder
<1>2. n \in Nat /\ DOMAIN followers = 1 .. n /\ \A k \in 1 .. n : followers[k] \in Change
  BY <1>1
<1>3. base \in R
  BY NothingAnswers
<1>4. ASSUME NEW r \in R, NEW k \in 1 .. n PROVE Op(r, k) \in R
  <2>1. r.queue \in Seq(Change)
    BY DEF Answers, Results
  <2>2. nested[<<followers[k], r.queue>>] \in Answers(r.queue)
    BY <1>2, <2>1 DEF Answering
  <2> QED BY <2>2, AnswersCompose
<1>5. EnqueueChangesBehind(nested, c, queued) = (CHOOSE h : h = Step(h))[1 .. n]
  BY <1>2 DEF EnqueueChangesBehind, FoldLeft, MapThenFoldSet
<1>6. \A r \in R, k \in 1 .. n : g[<<r, k>>] = Op(r, k)
  OBVIOUS
<1> HIDE DEF followers, base, R, Op, g
<1>7. \A s \in SUBSET (1 .. n) : s # {} => s \ {Max(s)} \in SUBSET (1 .. n) /\ Max(s) \in 1 .. n
  BY <1>2, MaxOfPart
<1>8. \E h : h = Step(h)
  <2>1. PICK h : Folds(h, n, R, base, g)
    <3> HIDE DEF n
    <3> QED BY <1>2, <1>3, <1>4, <1>6, FoldExists
  <2>2. /\ h \in [SUBSET (1 .. n) -> R]
        /\ \A s \in SUBSET (1 .. n) :
             h[s] = IF s = {} THEN base ELSE g[<<h[s \ {Max(s)}], Max(s)>>]
    BY <2>1 DEF Folds
  <2>3. \A s \in SUBSET (1 .. n) : h[s] = Step(h)[s]
    BY <1>6, <1>7, <2>2
  <2> QED BY <2>2, <2>3
<1> DEFINE h == CHOOSE h : h = Step(h)
<1>9. h = Step(h)
  <2> HIDE DEF Step
  <2> QED BY <1>8
<1> HIDE DEF h
<1>10. h[{}] \in R
  BY <1>2, <1>3, <1>9
<1>11. ASSUME NEW s \in SUBSET (1 .. n), s # {}, h[s \ {Max(s)}] \in R PROVE h[s] \in R
  BY <1>4, <1>7, <1>9, <1>11
<1>12. h[1 .. n] \in R
  <2> HIDE DEF n
  <2> QED BY <1>2, <1>10, <1>11, FoldKeeps
<1> QED BY <1>5, <1>12 DEF h, R

(* addChange answers, when the calls it makes do, ...                      *)
LEMMA AddOneAnswers ==
  ASSUME NEW nested, Answering(nested), NEW c \in Change, NEW queued \in Seq(Change)
  PROVE  AddOne(nested, c, queued) \in Answers(queued) /\ Accepts(c, AddOne(nested, c, queued))
<1> DEFINE ahead == EnqueueChangesAhead(nested, c, queued)
           behind == EnqueueChangesBehind(nested, c, Append(ahead.queue, c))
<1>1. /\ ahead \in Answers(queued) /\ ahead.queue \in Seq(Change)
      /\ ahead.ok => Unmerged(c) \subseteq ToSet(ahead.queue)
  <2>1. ahead \in Answers(queued) /\ (ahead.ok => Unmerged(c) \subseteq ToSet(ahead.queue))
    BY AheadAnswers
  <2> QED BY <2>1 DEF Answers, Results
<1>2. \/ c \in ToSet(queued) /\ AddOne(nested, c, queued) = [ok |-> TRUE, queue |-> queued]
      \/ AddOne(nested, c, queued) = [ok |-> FALSE, queue |-> queued]
      \/ (~ahead.ok \/ c \in ToSet(ahead.queue)) /\ AddOne(nested, c, queued) = ahead
      \/ /\ c \notin ToSet(ahead.queue) /\ ahead.ok /\ c \in Gated /\ status[c] = "ready"
         /\ AddOne(nested, c, queued) = behind
  BY DEF AddOne
<1> HIDE DEF ahead
<1>3. CASE \/ c \in ToSet(queued) /\ AddOne(nested, c, queued) = [ok |-> TRUE, queue |-> queued]
           \/ AddOne(nested, c, queued) = [ok |-> FALSE, queue |-> queued]
           \/ (~ahead.ok \/ c \in ToSet(ahead.queue)) /\ AddOne(nested, c, queued) = ahead
  <2>1. PICK r : r = AddOne(nested, c, queued)
    OBVIOUS
  <2>2. PICK yes \in BOOLEAN, no \in BOOLEAN : yes = TRUE /\ no = FALSE
    OBVIOUS
  <2>3. CASE c \in ToSet(queued) /\ r = [ok |-> TRUE, queue |-> queued]
    <3>1. r = [ok |-> yes, queue |-> queued]
      BY <2>2, <2>3
    <3>2. r \in Answers(queued) /\ r.queue = queued
      BY <3>1, NothingAnswers
    <3> QED BY <2>1, <2>3, <3>2 DEF Accepts
  <2>4. CASE r = [ok |-> FALSE, queue |-> queued]
    <3>1. r = [ok |-> no, queue |-> queued]
      BY <2>2, <2>4
    <3>2. r \in Answers(queued) /\ ~r.ok
      BY <2>2, <3>1, NothingAnswers
    <3> QED BY <2>1, <3>2 DEF Accepts
  <2>5. CASE (~ahead.ok \/ c \in ToSet(ahead.queue)) /\ r = ahead
    BY <1>1, <2>1, <2>5 DEF Accepts
  <2> QED BY <1>3, <2>1, <2>3, <2>4, <2>5
<1>4. CASE /\ c \notin ToSet(ahead.queue) /\ ahead.ok /\ c \in Gated /\ status[c] = "ready"
           /\ AddOne(nested, c, queued) = behind
  <2>1. PICK r : r = [ok |-> TRUE, queue |-> Append(ahead.queue, c)]
    OBVIOUS
  <2>2. r \in Answers(ahead.queue)
    BY <1>1, <1>4, <2>1, AppendAnswers
  <2>3. r \in Answers(queued)
    BY <1>1, <2>2, AnswersCompose
  <2>4. r.queue \in Seq(Change) /\ r.queue = Append(ahead.queue, c)
    BY <2>1, <2>3 DEF Answers, Results
  <2>5. behind \in Answers(r.queue)
    BY <2>4, BehindAnswers
  <2>6. c \in ToSet(r.queue)
    <3>1. Append(ahead.queue, c)[Len(ahead.queue) + 1] = c
      BY <1>1
    <3>2. Len(ahead.queue) + 1 \in DOMAIN Append(ahead.queue, c)
      BY <1>1
    <3> QED BY <2>4, <3>1, <3>2 DEF ToSet
  <2> HIDE DEF behind
  <2>7. behind \in Answers(queued)
    BY <2>3, <2>5, AnswersCompose
  <2>8. c \in ToSet(behind.queue)
    <3>1. behind.queue \in Seq(Change) /\ Continues(r.queue, behind.queue)
      BY <2>5 DEF Answers, Results
    <3> QED BY <2>4, <2>6, <3>1, QueuedStays
  <2> QED BY <1>4, <2>7, <2>8 DEF Accepts
<1> QED BY <1>2, <1>3, <1>4

(* ... and therefore to every depth.                                       *)
LEMMA AddChangeAnswers ==
  ASSUME NEW c \in Change, NEW queued \in Seq(Change)
  PROVE  /\ AddChange(c, queued) \in Seq(Change)
         /\ Continues(queued, AddChange(c, queued))
         /\ Follows(queued, AddChange(c, queued))
         /\ Distinct(queued) => Distinct(AddChange(c, queued))
<1> DEFINE depth == Cardinality(Change) * (Cardinality(Change) + 1)
           Calls == Change \X Seq(Change)
           Level(d, nested) ==
             [call \in Calls |-> IF d = 0 THEN [ok |-> FALSE, queue |-> call[2]]
                                 ELSE AddOne(nested, call[1], call[2])]
           Step(h) == [d \in 0 .. depth |-> Level(d, h[d - 1])]
           R == {h \in [Calls -> Results] : Answering(h)}
           g == [p \in R \X (1 .. depth) |-> Level(p[2], p[1])]
<1>1. depth \in Nat
  <2>1. Cardinality(Change) \in Nat
    BY LayoutAssumption, FS_CardinalityType
  <2>2. \A k \in Nat : k * (k + 1) \in Nat
    OBVIOUS
  <2> QED BY <2>1, <2>2
<1>2. Level(0, <<>>) \in R /\ \A h : Level(0, h) = Level(0, <<>>)
  <2>1. \A s \in Seq(Change) : [ok |-> FALSE, queue |-> s] \in Answers(s)
    BY NothingAnswers
  <2> QED BY <2>1 DEF Answering, Answers, Accepts
<1>3. ASSUME NEW h \in R, NEW d, d # 0 PROVE Level(d, h) \in R
  <2>1. \A x \in Change, s \in Seq(Change) :
          AddOne(h, x, s) \in Answers(s) /\ Accepts(x, AddOne(h, x, s))
    BY AddOneAnswers
  <2> QED BY <1>3, <2>1 DEF Answering, Answers
<1>4. AddChange(c, queued) = (CHOOSE h : h = Step(h))[depth][<<c, queued>>].queue
  BY DEF AddChange
<1>5. \A h \in R, d \in 1 .. depth : g[<<h, d>>] = Level(d, h) /\ g[<<h, d>>] \in R
  <2> HIDE DEF Level, R, depth
  <2> QED BY <1>1, <1>3
<1> HIDE DEF depth, Level, R, g
<1>6. \E h : h = Step(h)
  <2>0. PICK h : Recursion(h, depth, R, Level(0, <<>>), g)
    BY <1>1, <1>2, <1>5, RecursionExists
  <2>1. /\ h \in [0 .. depth -> R] /\ h[0] = Level(0, <<>>)
        /\ \A d \in 1 .. depth : h[d] = g[<<h[d - 1], d>>]
    BY <2>0 DEF Recursion
  <2>2. ASSUME NEW d \in 0 .. depth PROVE h[d] = Level(d, h[d - 1])
    <3>1. CASE d = 0
      BY <1>2, <2>1, <3>1
    <3>2. CASE d \in 1 .. depth
      <4>1. d - 1 \in 0 .. depth
        BY <1>1, <3>2
      <4> QED BY <1>5, <2>1, <3>2, <4>1
    <3> QED BY <1>1, <3>1, <3>2
  <2> QED BY <2>1, <2>2
<1> DEFINE h == CHOOSE h : h = Step(h)
<1>7. h = Step(h)
  <2> HIDE DEF Step
  <2> QED BY <1>6
<1> HIDE DEF h
<1> DEFINE S == {d \in Nat : d <= depth => h[d] \in R}
<1>8. 0 \in S
  BY <1>1, <1>2, <1>7
<1>9. ASSUME NEW d \in Nat, d \in S PROVE d + 1 \in S
  <2> SUFFICES ASSUME d + 1 <= depth PROVE h[d + 1] \in R
    BY <1>9
  <2>1. h[d] \in R /\ d + 1 \in 0 .. depth /\ d + 1 # 0 /\ (d + 1) - 1 = d
    BY <1>1, <1>9
  <2> QED BY <1>3, <1>7, <2>1
<1>10. depth \in S
  <2> HIDE DEF S
  <2> QED BY <1>1, <1>8, <1>9, SetInduction
<1>11. h[depth] \in R
  BY <1>1, <1>10
<1>12. h[depth][<<c, queued>>] \in Answers(queued)
  BY <1>11 DEF R, Answering
<1> QED BY <1>4, <1>12 DEF h, Answers, Results

(* A promotion adds different changes, each behind what it needs.          *)
LEMMA AddedAgainIsDistinct ==
  ASSUME NEW wanted \in Seq(Change)
  PROVE  /\ AddedAgain(wanted) \in Seq(Change) /\ Distinct(AddedAgain(wanted))
         /\ Follows(<<>>, AddedAgain(wanted))
<1> DEFINE n == Len(wanted)
           R == {s \in Seq(Change) : Distinct(s) /\ Follows(<<>>, s)}
           Step(h) == [s \in SUBSET (1 .. n) |->
                         IF s = {} THEN <<>> ELSE AddChange(wanted[Max(s)], h[s \ {Max(s)}])]
           g == [p \in R \X (1 .. n) |-> AddChange(wanted[p[2]], p[1])]
<1>1. n \in Nat /\ DOMAIN wanted = 1 .. n /\ \A k \in 1 .. n : wanted[k] \in Change
  OBVIOUS
<1>2. <<>> \in R
  <2>1. Distinct(<<>>)
    BY DEF Distinct
  <2>2. Follows(<<>>, <<>>)
    BY DEF Follows
  <2> QED BY <2>1, <2>2
<1>3. ASSUME NEW r \in R, NEW k \in 1 .. n PROVE AddChange(wanted[k], r) \in R
  <2>1. PICK t : t = AddChange(wanted[k], r)
    OBVIOUS
  <2>2. t \in Seq(Change) /\ Continues(r, t) /\ Follows(r, t) /\ Distinct(t)
    BY <1>1, <2>1, AddChangeAnswers
  <2>3. PICK none : none = <<>>
    OBVIOUS
  <2>4. PICK a : a = [ok |-> TRUE, queue |-> r]
    OBVIOUS
  <2>5. PICK b : b = [ok |-> TRUE, queue |-> t]
    OBVIOUS
  <2>6. none \in Seq(Change) /\ a \in Answers(none)
    <3>1. Continues(none, r)
      BY <2>3 DEF Continues
    <3> QED BY <2>3, <2>4, <3>1 DEF Answers, Results
  <2>7. b \in Answers(a.queue)
    BY <2>2, <2>4, <2>5 DEF Answers, Results
  <2>8. PICK ok \in BOOLEAN : ok = TRUE
    OBVIOUS
  <2>9. b \in Answers(none)
    BY <2>6, <2>7, <2>8, AnswersCompose
  <2>10. Follows(<<>>, t)
    BY <2>3, <2>5, <2>9 DEF Answers
  <2> QED BY <2>1, <2>2, <2>10
<1>4. AddedAgain(wanted) = (CHOOSE h : h = Step(h))[1 .. n]
  BY <1>1 DEF AddedAgain, FoldLeft, MapThenFoldSet
<1>5. \A r \in R, k \in 1 .. n : g[<<r, k>>] = AddChange(wanted[k], r)
  OBVIOUS
<1>6. \A s \in SUBSET (1 .. n) : s # {} => s \ {Max(s)} \in SUBSET (1 .. n) /\ Max(s) \in 1 .. n
  BY <1>1, MaxOfPart
<1> HIDE DEF R, g
<1>7. \E h : h = Step(h)
  <2>1. PICK h : Folds(h, n, R, <<>>, g)
    <3> HIDE DEF n
    <3> QED BY <1>1, <1>2, <1>3, <1>5, FoldExists
  <2>2. /\ h \in [SUBSET (1 .. n) -> R]
        /\ \A s \in SUBSET (1 .. n) :
             h[s] = IF s = {} THEN <<>> ELSE g[<<h[s \ {Max(s)}], Max(s)>>]
    BY <2>1 DEF Folds
  <2>3. \A s \in SUBSET (1 .. n) : h[s] = Step(h)[s]
    BY <1>5, <1>6, <2>2
  <2> QED BY <2>2, <2>3
<1> DEFINE h == CHOOSE h : h = Step(h)
<1>8. h = Step(h)
  <2> HIDE DEF Step
  <2> QED BY <1>7
<1> HIDE DEF h
<1>9. h[{}] \in R
  BY <1>1, <1>2, <1>8
<1>10. ASSUME NEW s \in SUBSET (1 .. n), s # {}, h[s \ {Max(s)}] \in R PROVE h[s] \in R
  BY <1>3, <1>6, <1>8, <1>10
<1>11. h[1 .. n] \in R
  <2> HIDE DEF n
  <2> QED BY <1>1, <1>9, <1>10, FoldKeeps
<1> QED BY <1>4, <1>11 DEF h, R

-----------------------------------------------------------------------------
(* The queue of the gate and the pass over it.                             *)

(* Items are made in their order, and nothing but a change is queued.      *)
ItemsMade ==
  /\ item \in [Item -> Change \cup {Idle}]
  /\ Made \in Nat /\ \A i \in Item : item[i] # Idle <=> i <= Made

(* What a pass has yet to process is queued, in the order of the list, and *)
(* the nearest item that is not failing comes before all of it.            *)
Orderly(x, todo, nnfi) ==
  /\ \A m \in 1 .. Len(todo) : todo[m] \in Queued(x)
  /\ \A m, n \in 1 .. Len(todo) : m < n => Precedes(x, todo[m], todo[n])
  /\ nnfi # NoItem => \A m \in 1 .. Len(todo) : Precedes(x, nnfi, todo[m])

(* Where the loop may be.                                                  *)
Passes == [phase : {"sleep", "results", "triggers", "queue"}, todo : Seq(Item),
           nnfi : Item \cup {NoItem}, changed : BOOLEAN]

(* Between two passes nothing is left to process.                          *)
PassInv ==
  /\ pass \in Passes /\ Orderly(q, pass.todo, pass.nnfi)
  /\ pass.phase # "queue" => pass.todo = <<>>

(* The invariant of the queue.                                             *)
QueueInv ==
  /\ q \in Queues /\ WellLinked(q)
  /\ ItemsMade /\ \A i \in Queued(q) : item[i] # Idle
  /\ QueuedOnce
  /\ PassInv

(* The changes in a queue of items that were made, no two with one change. *)
LEMMA ChangesInQueue ==
  ASSUME QueueInv
  PROVE  /\ ChangesIn(q) \in Seq(Change) /\ Len(ChangesIn(q)) = Len(q.order)
         /\ \A n \in 1 .. Len(q.order) : ChangesIn(q)[n] = item[q.order[n]]
         /\ Distinct(ChangesIn(q))
         /\ Len(q.order) \in Nat /\ DOMAIN q.order = 1 .. Len(q.order)
         /\ \A n \in 1 .. Len(q.order) : q.order[n] \in Item
<1>1. q.order \in Seq(Item) /\ Len(q.order) \in Nat /\ DOMAIN q.order = 1 .. Len(q.order)
  BY DEF QueueInv, Queues
<1>2. \A n \in 1 .. Len(q.order) : q.order[n] \in Item /\ item[q.order[n]] \in Change
  BY <1>1 DEF QueueInv, ItemsMade, Queued
<1>3. PICK s : s = ChangesIn(q)
  OBVIOUS
<1>4. s = [n \in 1 .. Len(q.order) |-> item[q.order[n]]]
  BY <1>1, <1>3 DEF ChangesIn
<1>5. s \in Seq(Change) /\ Len(s) = Len(q.order)
  BY <1>1, <1>2, <1>4
<1>6. \A m, n \in 1 .. Len(q.order) : item[q.order[m]] = item[q.order[n]] => m = n
  BY <1>1 DEF QueueInv, WellLinked, OrderIsInjective, QueuedOnce, Queued
<1>7. Distinct(s)
  BY <1>4, <1>5, <1>6 DEF Distinct
<1> QED BY <1>1, <1>2, <1>3, <1>4, <1>5, <1>7

(* Enqueuing changes after those that are queued makes an item for each.   *)
LEMMA EnqueueAllKeepsItems ==
  ASSUME ItemsMade, NEW x \in Queues, WellLinked(x), \A i \in Queued(x) : item[i] # Idle,
         NEW changes \in Seq(Change), Distinct(changes), Len(x.order) <= Len(changes),
         \A n \in 1 .. Len(x.order) : changes[n] = item[x.order[n]],
         Room(x, changes), EnqueueAll(x, changes)
  PROVE  /\ q' \in Queues /\ WellLinked(q)' /\ ItemsMade'
         /\ \A i \in Queued(q)' : item'[i] # Idle
         /\ QueuedOnce'
         /\ \A i \in Item : item[i] # Idle => item'[i] = item[i]
         /\ Len(q'.order) = Len(changes) /\ DOMAIN q'.order = 1 .. Len(changes)
         /\ \A n \in 1 .. Len(x.order) : q'.order[n] = x.order[n]
         /\ \A n \in 1 .. Len(changes) :
              /\ item'[q'.order[n]] = changes[n]
              /\ n > Len(x.order) => item[q'.order[n]] = Idle
         /\ \A i \in Queued(x) : Up(q', i) = Up(x, i)
<1>1. /\ x.order \in Seq(Item) /\ Cardinality(Item) \in Nat /\ Made \in Nat
      /\ Len(x.order) \in Nat /\ Len(changes) \in Nat
  BY ItemAssumption, FS_CardinalityType DEF Queues, ItemsMade
<1>2. PICK made \in Nat, known \in Nat, len \in Nat, card \in Nat :
        made = Made /\ known = Len(x.order) /\ len = Len(changes) - known /\ card = Cardinality(Item)
  <2>1. Len(changes) - Len(x.order) \in Nat
    BY <1>1
  <2> QED BY <1>1, <2>1
<1>3. /\ Len(changes) = known + len /\ made + len <= card
      /\ Item = 1 .. card
      /\ DOMAIN x.order = 1 .. known
      /\ \A i \in Item : item[i] \in Change \cup {Idle} /\ (item[i] # Idle <=> i <= made)
  <2>1. Made + Len(changes) - Len(x.order) <= Cardinality(Item)
    BY DEF Room
  <2>2. Len(changes) = known + len /\ made + len <= card
    <3>1. PICK all \in Nat : all = Len(changes)
      BY <1>1
    <3>2. len = all - known /\ made + all - known <= card
      BY <1>2, <2>1, <3>1
    <3> QED BY <3>1, <3>2
  <2>3. Item = 1 .. card /\ DOMAIN x.order = 1 .. known
    BY <1>1, <1>2, ItemAssumption
  <2>4. \A i \in Item : item[i] \in Change \cup {Idle} /\ (item[i] # Idle <=> i <= made)
    <3>1. \A i \in Item : item[i] \in Change \cup {Idle}
      BY DEF ItemsMade
    <3>2. \A i \in Item : item[i] # Idle <=> i <= Made
      BY DEF ItemsMade
    <3> QED BY <1>1, <1>2, <2>3, <3>1, <3>2
  <2> QED BY <2>2, <2>3, <2>4
<1> DEFINE new == [k \in 1 .. len |-> made + k]
<1>4. /\ new \in Seq(Item) /\ Len(new) = len
      /\ \A k \in 1 .. len : new[k] = made + k
  <2>1. \A k \in 1 .. len : made + k \in Item
    BY <1>3
  <2> QED BY <2>1
<1>5. /\ q' = FoldLeft(EnqueueItem, x, new)
      /\ item' = [i \in Item |-> IF i \in ToSet(new) THEN changes[known + i - made] ELSE item[i]]
  BY <1>2 DEF EnqueueAll
<1>6. ToSet(new) = made + 1 .. made + len
  <2>1. \A k \in 1 .. len : new[k] \in made + 1 .. made + len
    BY <1>4
  <2>2. ASSUME NEW i \in made + 1 .. made + len PROVE i \in ToSet(new)
    <3>1. i - made \in 1 .. len /\ new[i - made] = i
      BY <1>4
    <3> QED BY <1>4, <3>1 DEF ToSet
  <2> QED BY <1>4, <2>1, <2>2 DEF ToSet
<1> HIDE DEF new
<1>7. ASSUME NEW i \in ToSet(new)
      PROVE  /\ i \in Item /\ i \in Int /\ known + (i - made) \in 1 .. known + len
             /\ item'[i] = changes[known + (i - made)]
             /\ item'[i] \in Change /\ item'[i] # Idle
  <2>1. i \in Item /\ i \in Int /\ known + (i - made) \in 1 .. known + len
    BY <1>3, <1>6
  <2>2. known + (i - made) = known + i - made
    BY <2>1
  <2>3. item'[i] = changes[known + (i - made)]
    BY <1>5, <2>1, <2>2
  <2>4. changes[known + (i - made)] \in Change
    BY <1>3, <2>1
  <2> QED BY <2>1, <2>3, <2>4, IdleAssumption
<1>8. \A i \in Item : i \notin ToSet(new) => item'[i] = item[i]
  BY <1>5
<1>9. \A i \in Item : i <= made => i \notin ToSet(new)
  BY <1>3, <1>6
<1>10. /\ item' \in [Item -> Change \cup {Idle}]
       /\ \A i \in Item : item'[i] # Idle <=> i <= made + len
  <2>1. ASSUME NEW i \in Item
        PROVE  item'[i] \in Change \cup {Idle} /\ (item'[i] # Idle <=> i <= made + len)
    <3>1. CASE i \in ToSet(new)
      BY <1>6, <1>7, <3>1
    <3>2. CASE i \notin ToSet(new)
      <4>1. item'[i] = item[i] /\ ~(i \in made + 1 .. made + len) /\ i \in Nat
        BY <1>3, <1>6, <1>8, <3>2
      <4>2. item[i] \in Change \cup {Idle} /\ (item[i] # Idle <=> i <= made)
        BY <1>3
      <4> QED BY <4>1, <4>2
    <3> QED BY <3>1, <3>2
  <2> QED BY <1>5, <2>1
<1>11. ItemsMade'
  <2>1. made + len \in Nat /\ {i \in Item : item'[i] # Idle} = 1 .. made + len
    BY <1>3, <1>10
  <2>2. Cardinality(1 .. made + len) = made + len
    <3>1. PICK m \in Nat : m = made + len
      BY <2>1
    <3>2. Cardinality(1 .. m) = m
      BY FS_Interval
    <3> QED BY <3>1, <3>2
  <2>3. Made' = made + len
    BY <2>1, <2>2 DEF Made
  <2> QED BY <1>10, <2>1, <2>3 DEF ItemsMade
<1>12. \A k \in 1 .. Len(new) : new[k] \notin Queued(x)
  <2>1. \A i \in Queued(x) : i \in Item
    BY <1>1 DEF Queued
  <2>2. \A i \in Queued(x) : i <= made
    BY <1>3, <2>1
  <2>3. \A k \in 1 .. len : ~(made + k <= made)
    OBVIOUS
  <2> QED BY <1>4, <2>2, <2>3
<1>13. \A k, m \in 1 .. Len(new) : new[k] = new[m] => k = m
  BY <1>4
<1>14. PICK y : y = q'
  OBVIOUS
<1>15. Extended(x, new, Len(new), y) /\ WellLinked(y)
  BY <1>4, <1>5, <1>12, <1>13, <1>14, EnqueuedKeepLinks
<1>16. /\ y \in Queues /\ Len(y.order) = known + len /\ DOMAIN y.order = 1 .. known + len
       /\ \A m \in 1 .. known : y.order[m] = x.order[m]
       /\ \A m \in 1 .. len : y.order[known + m] = new[m]
  <2>1. /\ y \in Queues /\ Len(y.order) = known + len
        /\ \A m \in 1 .. known : y.order[m] = x.order[m]
        /\ \A m \in 1 .. len : y.order[known + m] = new[m]
    BY <1>2, <1>4, <1>15 DEF Extended
  <2>2. y.order \in Seq(Item)
    BY <2>1 DEF Queues
  <2> QED BY <2>1, <2>2
<1>17. ASSUME NEW n \in 1 .. known + len PROVE item'[y.order[n]] = changes[n]
  <2>1. CASE n \in 1 .. known
    <3>1. y.order[n] = x.order[n] /\ changes[n] = item[x.order[n]]
      BY <1>2, <1>16, <2>1
    <3>2. x.order[n] \in Item /\ x.order[n] <= made
      BY <1>1, <1>3, <2>1 DEF Queued
    <3> QED BY <1>8, <1>9, <3>1, <3>2
  <2>2. CASE ~(n \in 1 .. known)
    <3>1. PICK m \in 1 .. len : n = known + m
      <4>1. n - known \in 1 .. len /\ n = known + (n - known)
        BY <2>2
      <4> QED BY <4>1
    <3>2. y.order[n] = made + m /\ made + m \in ToSet(new)
      <4>1. new[m] = made + m /\ y.order[known + m] = new[m]
        BY <1>4, <1>16
      <4>2. made + m \in made + 1 .. made + len
        OBVIOUS
      <4> QED BY <1>6, <3>1, <4>1, <4>2
    <3>3. item'[made + m] = changes[known + ((made + m) - made)] /\ known + ((made + m) - made) = n
      BY <1>7, <3>1, <3>2
    <3> QED BY <3>2, <3>3
  <2> QED BY <2>1, <2>2
<1>18. \A i \in Queued(y) : item'[i] # Idle
  BY <1>3, <1>16, <1>17, IdleAssumption DEF Queued
<1>19. \A i, k \in Queued(y) : item'[i] = item'[k] => i = k
  BY <1>3, <1>16, <1>17 DEF Queued, Distinct
<1>20. \A i \in Item : item[i] # Idle => item'[i] = item[i]
  BY <1>3, <1>8, <1>9
<1>21. ASSUME NEW n \in 1 .. known + len, n > known PROVE item[y.order[n]] = Idle
  <2>1. n - known \in 1 .. len /\ n = known + (n - known)
    BY <1>21
  <2>2. y.order[n] = made + (n - known)
    BY <1>4, <1>16, <2>1
  <2>3. made + (n - known) \in Item /\ ~(made + (n - known) <= made)
    <3>1. made + (n - known) \in Item
      BY <1>3, <2>1
    <3> QED BY <2>1, <3>1
  <2> QED BY <1>3, <2>2, <2>3
<1>22. \A i \in Queued(x) : Up(y, i) = Up(x, i)
  BY <1>4, <1>5, <1>12, <1>13, <1>14, EnqueuedUp
<1>23. /\ Len(y.order) = Len(changes) /\ DOMAIN y.order = 1 .. Len(changes)
       /\ \A n \in 1 .. Len(x.order) : y.order[n] = x.order[n]
       /\ \A n \in 1 .. Len(changes) :
            /\ item'[y.order[n]] = changes[n]
            /\ n > Len(x.order) => item[y.order[n]] = Idle
  BY <1>2, <1>3, <1>16, <1>17, <1>21
<1>24. q' \in Queues /\ WellLinked(q)' /\ QueuedOnce' /\ \A i \in Queued(q)' : item'[i] # Idle
  BY <1>14, <1>15, <1>16, <1>18, <1>19 DEF QueuedOnce
<1> QED BY <1>11, <1>14, <1>20, <1>22, <1>23, <1>24

(* The same items are queued, and the pass goes on in order.               *)
LEMMA SameQueue ==
  ASSUME QueueInv, q' = q, item' = item, PassInv'
  PROVE  QueueInv'
BY DEF QueueInv, ItemsMade, Made, QueuedOnce

(* Nothing is left to process, so there is nothing out of order.           *)
LEMMA NothingToDo ==
  ASSUME \/ pass' = pass /\ pass \in Passes /\ pass.todo = <<>>
         \/ \E phase \in {"sleep", "results", "triggers"} : pass' = At(phase)
         \/ pass' = Sleeping
  PROVE  PassInv'
<1>1. CASE pass' = pass /\ pass \in Passes /\ pass.todo = <<>>
  BY <1>1 DEF PassInv, Orderly
<1>2. ASSUME NEW phase \in {"sleep", "results", "triggers"}, pass' = At(phase)
      PROVE  PassInv'
  <2>1. pass' \in Passes /\ pass'.todo = <<>>
    BY <1>2 DEF At, Passes
  <2> QED BY <2>1 DEF PassInv, Orderly
<1> QED BY <1>1, <1>2 DEF Sleeping

(* The item that is processed, and what a pass has yet to process then.    *)
LEMMA ItemProcessed ==
  ASSUME QueueInv, NEW i, Processing(i)
  PROVE  /\ i \in Item /\ i \in Queued(q)
         /\ Tail(pass.todo) \in Seq(Item)
         /\ Orderly(q, Tail(pass.todo), pass.nnfi) /\ Orderly(q, Tail(pass.todo), i)
         /\ \A m \in 1 .. Len(Tail(pass.todo)) : Tail(pass.todo)[m] # i
         /\ pass.nnfi \in Item \cup {NoItem} /\ pass.nnfi # i
         /\ pass.nnfi = NoItem \/ Precedes(q, pass.nnfi, i)
<1>1. PICK s \in Seq(Item) : s = pass.todo
  BY DEF QueueInv, PassInv, Passes
<1>2. PICK t : t = Tail(s)
  OBVIOUS
<1>3. /\ s # <<>> /\ i = s[1] /\ Len(s) \in Nat /\ Len(s) > 0
      /\ t \in Seq(Item) /\ Len(t) = Len(s) - 1
      /\ \A m \in 1 .. Len(t) : t[m] = s[m + 1] /\ m + 1 \in 1 .. Len(s)
  BY <1>1, <1>2 DEF Processing
<1>4. 1 \in 1 .. Len(s) /\ i \in Item
  BY <1>3
<1>5. Orderly(q, s, pass.nnfi) /\ pass.nnfi \in Item \cup {NoItem}
  BY <1>1 DEF QueueInv, PassInv, Passes
<1>6. i \in Queued(q) /\ (pass.nnfi = NoItem \/ Precedes(q, pass.nnfi, i))
  BY <1>3, <1>4, <1>5 DEF Orderly
<1>7. \A m \in 1 .. Len(t) : Precedes(q, i, t[m])
  BY <1>3, <1>4, <1>5 DEF Orderly
<1>8. \A a : ~Precedes(q, a, a)
  BY PrecedesIsStrict DEF QueueInv, WellLinked
<1>9. /\ \A m \in 1 .. Len(t) : t[m] \in Queued(q)
      /\ pass.nnfi # NoItem => \A m \in 1 .. Len(t) : Precedes(q, pass.nnfi, t[m])
  BY <1>3, <1>5 DEF Orderly
<1>10. \A m, n \in 1 .. Len(t) : m < n => Precedes(q, t[m], t[n])
  <2> TAKE m, n \in 1 .. Len(t)
  <2>1. m + 1 \in 1 .. Len(s) /\ n + 1 \in 1 .. Len(s) /\ (m < n => m + 1 < n + 1)
    BY <1>3
  <2> QED BY <1>3, <1>5, <2>1 DEF Orderly
<1>11. Orderly(q, t, pass.nnfi) /\ Orderly(q, t, i)
  BY <1>7, <1>9, <1>10 DEF Orderly
<1>12. pass.nnfi # i
  BY <1>4, <1>6, <1>8, NoItemAssumption
<1>13. \A m \in 1 .. Len(t) : t[m] # i
  BY <1>7, <1>8
<1> QED BY <1>1, <1>2, <1>3, <1>4, <1>5, <1>6, <1>11, <1>12, <1>13

(* The pass goes on to the next item.                                      *)
LEMMA GoesOn ==
  ASSUME QueueInv, NEW i, Processing(i), NEW n \in Item \cup {NoItem}, NEW changed \in BOOLEAN,
         GoOn(n, changed), Orderly(q', Tail(pass.todo), n)
  PROVE  PassInv'
<1>1. /\ pass = [phase |-> pass.phase, todo |-> pass.todo, nnfi |-> pass.nnfi, changed |-> pass.changed]
      /\ pass.phase = "queue" /\ pass.changed \in BOOLEAN
  BY DEF QueueInv, PassInv, Passes, Processing
<1>2. pass' = [phase |-> "queue", todo |-> Tail(pass.todo), nnfi |-> n,
               changed |-> pass.changed \/ changed]
  BY <1>1 DEF GoOn
<1>3. Tail(pass.todo) \in Seq(Item)
  BY ItemProcessed
<1>4. /\ pass'.phase = "queue" /\ pass'.todo = Tail(pass.todo) /\ pass'.nnfi = n
      /\ pass'.changed \in BOOLEAN
  BY <1>1, <1>2
<1>5. pass' \in Passes
  BY <1>2, <1>3, <1>4 DEF Passes
<1> QED BY <1>4, <1>5 DEF PassInv

(* The list without an item that is not to be processed any more.          *)
LEMMA OrderlyWithout ==
  ASSUME NEW x \in Queues, WellLinked(x), NEW i \in Item, NEW todo, NEW n,
         Orderly(x, todo, n), n # i, \A m \in 1 .. Len(todo) : todo[m] # i
  PROVE  Orderly(DequeueItem(x, i), todo, n)
<1>1. PICK y : y = DequeueItem(x, i)
  OBVIOUS
<1>2. /\ Queued(y) = Queued(x) \ {i}
      /\ \A a, b : Precedes(x, a, b) /\ a # i /\ b # i => Precedes(y, a, b)
  BY <1>1, DequeuedIsGone DEF WellLinked
<1> QED BY <1>1, <1>2 DEF Orderly

(* The ways in which the processing of an item ends keep the queue, when   *)
(* the item may have been moved before.                                    *)
LEMMA ProcessedKeepsQueue ==
  ASSUME QueueInv, NEW i, Processing(i), item' = item,
         NEW x \in Queues, WellLinked(x), x.order = q.order,
         \/ q' = DequeueItem(x, i) /\ (GoOn(pass.nnfi, TRUE) \/ pass' = Sleeping)
         \/ q' = x /\ pass' = Sleeping
         \/ \E n \in {i, pass.nnfi}, changed \in BOOLEAN : q' = x /\ GoOn(n, changed)
  PROVE  QueueInv'
<1> DEFINE todo == Tail(pass.todo)
<1>1. /\ i \in Item /\ i \in Queued(q) /\ todo \in Seq(Item)
      /\ Orderly(q, todo, pass.nnfi) /\ Orderly(q, todo, i)
      /\ \A m \in 1 .. Len(todo) : todo[m] # i
      /\ pass.nnfi \in Item \cup {NoItem} /\ pass.nnfi # i
  BY ItemProcessed
<1>2. Queued(x) = Queued(q) /\ \A t, n : Orderly(q, t, n) => Orderly(x, t, n)
  BY DEF Queued, Orderly, Precedes
<1> HIDE DEF todo
<1>3. CASE q' = DequeueItem(x, i) /\ (GoOn(pass.nnfi, TRUE) \/ pass' = Sleeping)
  <2>1. q' \in Queues /\ WellLinked(q') /\ Queued(q') = Queued(q) \ {i}
    <3>1. PICK y : y = DequeueItem(x, i)
      OBVIOUS
    <3>2. y \in Queues /\ WellLinked(y)
      BY <1>1, <3>1, DequeueKeepsLinks
    <3>3. Queued(y) = Queued(x) \ {i}
      BY <1>1, <3>1, DequeuedIsGone DEF WellLinked
    <3> QED BY <1>2, <1>3, <3>1, <3>2, <3>3
  <2>2. Orderly(q', todo, pass.nnfi)
    BY <1>1, <1>2, <1>3, OrderlyWithout
  <2>3. PassInv'
    <3>1. CASE GoOn(pass.nnfi, TRUE)
      BY <1>1, <2>2, <3>1, GoesOn DEF todo
    <3>2. CASE pass' = Sleeping
      BY <3>2, NothingToDo
    <3> QED BY <1>3, <3>1, <3>2
  <2>4. QueuedOnce'
    BY <2>1 DEF QueueInv, QueuedOnce
  <2> QED BY <2>1, <2>3, <2>4 DEF QueueInv, ItemsMade, Made
<1>4. ASSUME q' = x, PassInv' PROVE QueueInv'
  <2>1. Queued(q') = Queued(q)
    BY <1>2, <1>4
  <2> QED BY <1>4, <2>1 DEF QueueInv, ItemsMade, Made, QueuedOnce
<1>5. CASE q' = x /\ pass' = Sleeping
  BY <1>4, <1>5, NothingToDo
<1>6. ASSUME NEW n \in {i, pass.nnfi}, NEW changed \in BOOLEAN, q' = x, GoOn(n, changed)
      PROVE  QueueInv'
  <2>1. Orderly(q', todo, n) /\ n \in Item \cup {NoItem}
    BY <1>1, <1>2, <1>6
  <2>2. PassInv'
    BY <1>6, <2>1, GoesOn DEF todo
  <2> QED BY <1>4, <1>6, <2>2
<1> QED BY <1>3, <1>5, <1>6

-----------------------------------------------------------------------------
(* The steps of the gate, and its queue.                                   *)

(* A misplaced item is moved behind an earlier one.                        *)
LEMMA MovedIsWellLinked ==
  ASSUME QueueInv, NEW i, Processing(i)
  PROVE  /\ MovedQueue(i) \in Queues /\ WellLinked(MovedQueue(i))
         /\ MovedQueue(i).order = q.order
<1>1. /\ i \in Item /\ pass.nnfi \in Item \cup {NoItem}
      /\ pass.nnfi = NoItem \/ Precedes(q, pass.nnfi, i)
      /\ q \in Queues /\ WellLinked(q)
  BY ItemProcessed DEF QueueInv
<1>2. PICK x : x = MoveItem(q, i, pass.nnfi)
  OBVIOUS
<1>3. x \in Queues /\ WellLinked(x)
  BY <1>1, <1>2, MoveKeepsLinks
<1>4. x.order = q.order
  BY <1>2 DEF MoveItem
<1> QED BY <1>1, <1>2, <1>3, <1>4 DEF MovedQueue

(* What follows the launch of jobs.                                        *)
LEMMA SettleKeepsQueue ==
  ASSUME QueueInv, NEW i, Processing(i), item' = item, NEW sets,
         Settle(i, MovedQueue(i), sets)
  PROVE  QueueInv'
<1>1. PICK x : x = MovedQueue(i)
  OBVIOUS
<1>2. x \in Queues /\ WellLinked(x) /\ x.order = q.order
  BY <1>1, MovedIsWellLinked
<1>3. \/ q' = DequeueItem(x, i) /\ GoOn(pass.nnfi, TRUE)
      \/ q' = x /\ pass' = Sleeping
      \/ \E n \in {i, pass.nnfi}, changed \in BOOLEAN : q' = x /\ GoOn(n, changed)
  <2>1. \/ q' = DequeueItem(x, i) /\ GoOn(pass.nnfi, TRUE)
        \/ q' = x /\ pass' = Sleeping
        \/ q' = x /\ GoOn(IF Failing(i, sets[i]) THEN pass.nnfi ELSE i, Misplaced(i))
    BY <1>1 DEF Settle, Abort
  <2>2. Misplaced(i) \in BOOLEAN
    BY DEF Misplaced
  <2> QED BY <2>1, <2>2
<1> QED BY <1>2, <1>3, ProcessedKeepsQueue

(* The scheduler's work on one item.                                       *)
LEMMA ProcessingKeepsQueue ==
  ASSUME QueueInv, NEW i \in Item, DropItem(i) \/ PrepareRef(i) \/ LaunchItem(i) \/ WaitItem(i)
  PROVE  QueueInv'
<1>1. item' = item /\ Processing(i) /\ q \in Queues /\ WellLinked(q)
  BY DEF QueueInv, DropItem, PrepareRef, LaunchItem, WaitItem
<1>2. CASE DropItem(i)
  <2>1. q' = DequeueItem(q, i) /\ (GoOn(pass.nnfi, TRUE) \/ pass' = Sleeping)
    BY <1>2 DEF DropItem, Abort
  <2> QED BY <1>1, <2>1, ProcessedKeepsQueue
<1>3. ASSUME NEW sets, Settle(i, MovedQueue(i), sets) PROVE QueueInv'
  BY <1>1, <1>3, SettleKeepsQueue
<1>4. CASE PrepareRef(i)
  <2>1. CASE q' = MovedQueue(i) /\ pass' = Sleeping
    <3>1. PICK x : x = MovedQueue(i)
      OBVIOUS
    <3>2. x \in Queues /\ WellLinked(x) /\ x.order = q.order
      BY <1>1, <3>1, MovedIsWellLinked
    <3> QED BY <1>1, <2>1, <3>1, <3>2, ProcessedKeepsQueue
  <2> DEFINE b == ResetSets(i)[i]
             sets == [ResetSets(i) EXCEPT ![i] =
                        [Prepared(MovedQueue(i), i, b) EXCEPT !.merge = "PENDING"]]
  <2>2. Settle(i, MovedQueue(i), sets) \/ (q' = MovedQueue(i) /\ pass' = Sleeping)
    BY <1>4 DEF PrepareRef, Abort
  <2> QED BY <1>3, <2>1, <2>2
<1>5. CASE LaunchItem(i)
  BY <1>3, <1>5 DEF LaunchItem
<1>6. CASE WaitItem(i)
  BY <1>3, <1>6 DEF WaitItem
<1> QED BY <1>2, <1>4, <1>5, <1>6

(* The scheduler's loop and its result handlers.                           *)
LEMMA LoopKeepsQueue ==
  ASSUME QueueInv, WakeUp \/ EndResults \/ StartPass \/ EndPass \/ HandleResult
  PROVE  QueueInv'
<1>1. q' = q /\ item' = item
  BY DEF WakeUp, EndResults, StartPass, EndPass, HandleResult, scheduled
<1>2. CASE StartPass
  <2>1. PICK s : s = q.order
    OBVIOUS
  <2>2. s \in Seq(Item) /\ Orderly(q, s, NoItem)
    <3>1. s \in Seq(Item) /\ DOMAIN s = 1 .. Len(s)
      BY <2>1 DEF QueueInv, Queues
    <3> QED BY <2>1, <3>1 DEF Orderly, Queued, Precedes
  <2>3. pass' = [At("queue") EXCEPT !.todo = s]
    BY <1>2, <2>1 DEF StartPass
  <2>4. /\ pass' = [pass' EXCEPT !.todo = s]
        /\ pass'.phase = "queue" /\ pass'.todo = s /\ pass'.nnfi = NoItem /\ pass' \in Passes
    BY <2>2, <2>3 DEF At, Passes
  <2>5. PassInv'
    BY <1>1, <2>2, <2>4 DEF PassInv
  <2> QED BY <1>1, <2>5, SameQueue
<1>3. CASE ~StartPass
  <2>1. PassInv'
    <3>1. CASE WakeUp \/ EndResults \/ EndPass
      BY <3>1, NothingToDo DEF WakeUp, EndResults, EndPass, Sleeping
    <3>2. CASE HandleResult
      <4>1. pass \in Passes /\ pass.todo = <<>>
        BY <3>2 DEF QueueInv, PassInv, HandleResult
      <4>2. pass' = pass \/ pass' = Sleeping
        BY <3>2 DEF HandleResult, HandleBuild, HandleMerge, Abort
      <4> QED BY <4>1, <4>2, NothingToDo
    <3> QED BY <1>3, <3>1, <3>2
  <2> QED BY <1>1, <2>1, SameQueue
<1> QED BY <1>2, <1>3

(* A trigger adds changes, does nothing or removes an item.                *)
LEMMA TriggerEnqueues ==
  ASSUME QueueInv, HandleTrigger, triggers \in Seq([type : {"approved", "gone"}, change : Change])
  PROVE  \/ \E all \in Seq(Change) :
              /\ Head(triggers).change \in Change
              /\ all \in {AddChange(Head(triggers).change, ChangesIn(q)), ChangesIn(q)}
              /\ Distinct(all) /\ Len(q.order) <= Len(all)
              /\ \A n \in 1 .. Len(q.order) : all[n] = item[q.order[n]]
              /\ Room(q, all) /\ EnqueueAll(q, all) /\ bs' = bs
         \/ q' = q /\ item' = item /\ bs' = bs
         \/ \E i \in Queued(q) :
              /\ Head(triggers).type = "gone" /\ item[i] = Head(triggers).change
              /\ RemoveItem(i) /\ item' = item
<1> DEFINE e == Head(triggers)
           added == AddChange(e.change, ChangesIn(q))
           changes == IF Room(q, added) THEN added ELSE ChangesIn(q)
<1>1. e.change \in Change
  <2>1. PICK T : T = [type : {"approved", "gone"}, change : Change]
    OBVIOUS
  <2>2. triggers \in Seq(T) /\ triggers # <<>>
    BY <2>1 DEF HandleTrigger
  <2>3. Head(triggers) \in T
    BY <2>2
  <2> QED BY <2>1, <2>3
<1>2. \/ EnqueueAll(q, changes) /\ bs' = bs
      \/ q' = q /\ item' = item /\ bs' = bs
      \/ \E i \in Queued(q) :
           e.type = "gone" /\ item[i] = e.change /\ RemoveItem(i) /\ item' = item
  BY DEF HandleTrigger
<1>3. CASE EnqueueAll(q, changes) /\ bs' = bs
  <2>1. /\ ChangesIn(q) \in Seq(Change) /\ Len(ChangesIn(q)) = Len(q.order)
        /\ \A n \in 1 .. Len(q.order) : ChangesIn(q)[n] = item[q.order[n]]
        /\ Distinct(ChangesIn(q)) /\ Len(q.order) \in Nat
    BY ChangesInQueue
  <2>2. PICK known : known = ChangesIn(q)
    OBVIOUS
  <2>3. /\ AddChange(e.change, known) \in Seq(Change)
        /\ Continues(known, AddChange(e.change, known))
        /\ Distinct(AddChange(e.change, known))
    BY <1>1, <2>1, <2>2, AddChangeAnswers
  <2>4. PICK all : all = changes
    OBVIOUS
  <2>5. /\ all \in Seq(Change) /\ Distinct(all) /\ Continues(known, all) /\ Room(q, all)
        /\ all \in {AddChange(e.change, ChangesIn(q)), ChangesIn(q)}
    <3>1. Room(q, ChangesIn(q))
      <4>1. Made \in Nat /\ Made <= Cardinality(Item)
        <5>1. {i \in Item : item[i] # Idle} \subseteq Item
          OBVIOUS
        <5> QED BY <5>1, ItemAssumption, FS_Subset, FS_CardinalityType DEF Made
      <4>2. Cardinality(Item) \in Nat
        BY ItemAssumption, FS_CardinalityType
      <4> HIDE DEF Made
      <4> QED BY <2>1, <4>1, <4>2 DEF Room
    <3>2. Continues(known, known)
      BY <2>1, <2>2 DEF Continues
    <3> QED BY <2>1, <2>2, <2>3, <2>4, <3>1, <3>2
  <2>6. Len(q.order) <= Len(all) /\ \A n \in 1 .. Len(q.order) : all[n] = item[q.order[n]]
    BY <2>1, <2>2, <2>5 DEF Continues
  <2>7. EnqueueAll(q, all)
    BY <1>3, <2>4
  <2> HIDE DEF added, changes
  <2> QED BY <1>1, <1>3, <2>5, <2>6, <2>7
<1>4. CASE ~EnqueueAll(q, changes)
  <2> HIDE DEF added, changes
  <2> QED BY <1>2, <1>4
<1> QED BY <1>2, <1>3, <1>4

(* So it keeps the queue.                                                  *)
LEMMA TriggerKeepsQueue ==
  ASSUME QueueInv, HandleTrigger, triggers \in Seq([type : {"approved", "gone"}, change : Change])
  PROVE  QueueInv'
<1>1. /\ pass' = pass /\ pass \in Passes /\ pass.todo = <<>>
      /\ q \in Queues /\ WellLinked(q)
  BY DEF HandleTrigger, QueueInv, PassInv
<1>2. PassInv'
  BY <1>1, NothingToDo
<1>3. ASSUME NEW all \in Seq(Change), Distinct(all), Len(q.order) <= Len(all),
             \A n \in 1 .. Len(q.order) : all[n] = item[q.order[n]],
             Room(q, all), EnqueueAll(q, all)
      PROVE  QueueInv'
  <2>1. ItemsMade /\ \A i \in Queued(q) : item[i] # Idle
    BY DEF QueueInv
  <2>2. /\ q' \in Queues /\ WellLinked(q)' /\ ItemsMade'
        /\ \A i \in Queued(q)' : item'[i] # Idle
        /\ QueuedOnce'
    BY <1>1, <1>3, <2>1, EnqueueAllKeepsItems
  <2> QED BY <1>2, <2>2 DEF QueueInv
<1>4. CASE q' = q /\ item' = item
  BY <1>2, <1>4, SameQueue
<1>5. ASSUME NEW i \in Queued(q), q' = DequeueItem(q, i), item' = item
      PROVE  QueueInv'
  <2>1. i \in Item
    BY <1>1 DEF Queued, Queues
  <2>2. q' \in Queues /\ WellLinked(q')
    BY <1>1, <1>5, <2>1, DequeueKeepsLinks
  <2>3. Queued(q') = Queued(q) \ {i}
    BY <1>1, <1>5, <2>1, DequeuedIsGone DEF WellLinked
  <2>4. QueuedOnce'
    BY <1>5, <2>3 DEF QueueInv, QueuedOnce
  <2> QED BY <1>2, <1>5, <2>2, <2>3, <2>4 DEF QueueInv, ItemsMade, Made
<1> QED BY <1>3, <1>4, <1>5, TriggerEnqueues DEF RemoveItem

(* A promotion adds changes to the empty queue.                            *)
LEMMA PromoteEnqueues ==
  ASSUME QueueInv, NEW i \in Item, Promote(i)
  PROVE  \E wanted \in Seq(Change), added \in Seq(Change) :
           /\ added = AddedAgain(wanted) /\ Distinct(added)
           /\ Room(EmptyQueue, added) /\ EnqueueAll(EmptyQueue, added)
<1>1. PICK n : n = Position(q, i)
  OBVIOUS
<1>2. PICK s : s = ChangesIn(q)
  OBVIOUS
<1>3. /\ s \in Seq(Change) /\ Len(s) = Len(q.order) /\ Len(q.order) \in Nat
      /\ DOMAIN q.order = 1 .. Len(q.order)
  BY <1>2, ChangesInQueue
<1>4. n \in 1 .. Len(s) /\ item[i] \in Change
  <2>1. \E m \in DOMAIN q.order : q.order[m] = i
    BY DEF Promote, Queued
  <2>2. n \in DOMAIN q.order
    BY <1>1, <2>1 DEF Position
  <2> QED BY <1>3, <2>2 DEF Promote, QueueInv, ItemsMade
<1>5. RemoveAt(s, n) \in Seq(Change)
  BY <1>3, <1>4, RemoveAtProperties
<1>6. PICK wanted : wanted = <<item[i]>> \o RemoveAt(s, n)
  OBVIOUS
<1>7. wanted \in Seq(Change)
  <2>1. <<item[i]>> \in Seq(Change)
    BY <1>4
  <2> QED BY <1>5, <1>6, <2>1
<1>8. PICK added : added = AddedAgain(wanted)
  OBVIOUS
<1>9. added \in Seq(Change) /\ Distinct(added)
  BY <1>7, <1>8, AddedAgainIsDistinct
<1>10. Room(EmptyQueue, added) /\ EnqueueAll(EmptyQueue, added)
  BY <1>1, <1>2, <1>6, <1>8 DEF Promote
<1> QED BY <1>7, <1>8, <1>9, <1>10

(* An operator's commands begin anew with the results.                     *)
LEMMA PromoteKeepsQueue ==
  ASSUME QueueInv, NEW i \in Item, Promote(i)
  PROVE  QueueInv'
<1>1. PassInv'
  BY NothingToDo DEF Promote, Managing
<1>2. PICK x : x = EmptyQueue
  OBVIOUS
<1>3. x \in Queues /\ WellLinked(x) /\ Queued(x) = {} /\ x.order = <<>>
  BY <1>2, EmptyQueueIsWellLinked
<1>4. PICK added \in Seq(Change) : Distinct(added) /\ Room(x, added) /\ EnqueueAll(x, added)
  BY <1>2, PromoteEnqueues
<1>5. Len(x.order) <= Len(added) /\ \A m \in 1 .. Len(x.order) : added[m] = item[x.order[m]]
  BY <1>3
<1>6. /\ q' \in Queues /\ WellLinked(q)' /\ ItemsMade'
      /\ \A k \in Queued(q)' : item'[k] # Idle
      /\ QueuedOnce'
  <2>1. ItemsMade /\ \A k \in Queued(x) : item[k] # Idle
    BY <1>3 DEF QueueInv
  <2> QED BY <1>3, <1>4, <1>5, <2>1, EnqueueAllKeepsItems
<1> QED BY <1>1, <1>6 DEF QueueInv

(* A reconfiguration enqueues the same items again.                        *)
LEMMA ReconfigureKeepsQueue ==
  ASSUME QueueInv, NEW new \in Layouts, Reconfigure(new)
  PROVE  QueueInv'
<1>1. PassInv'
  BY NothingToDo DEF Reconfigure, Managing
<1>2. PICK s : s = q.order
  OBVIOUS
<1>3. /\ s \in Seq(Item) /\ Len(s) \in Nat /\ DOMAIN s = 1 .. Len(s)
      /\ \A k, m \in 1 .. Len(s) : s[k] = s[m] => k = m
  BY <1>2 DEF QueueInv, WellLinked, OrderIsInjective, Queues
<1>4. PICK x : x = EmptyQueue
  OBVIOUS
<1>5. x \in Queues /\ WellLinked(x) /\ Queued(x) = {} /\ x.order = <<>>
  BY <1>4, EmptyQueueIsWellLinked
<1>6. PICK y : y = FoldLeft(EnqueueItem, x, s)
  OBVIOUS
<1>7. Extended(x, s, Len(s), y) /\ WellLinked(y)
  <2>1. \A k \in 1 .. Len(s) : s[k] \notin Queued(x)
    BY <1>5
  <2> QED BY <1>3, <1>5, <1>6, <2>1, EnqueuedKeepLinks
<1>8. y \in Queues /\ Len(y.order) = Len(s) /\ \A m \in 1 .. Len(s) : y.order[m] = s[m]
  <2>1. /\ y \in Queues /\ Len(y.order) = 0 + Len(s)
        /\ \A m \in 1 .. Len(s) : y.order[0 + m] = s[m]
    BY <1>5, <1>7 DEF Extended
  <2> QED BY <1>3, <2>1
<1>9. Queued(y) = Queued(q)
  <2>1. DOMAIN y.order = 1 .. Len(s)
    BY <1>8 DEF Queues
  <2> QED BY <1>2, <1>3, <1>8, <2>1 DEF Queued
<1>10. q' = y /\ item' = item
  BY <1>2, <1>4, <1>6 DEF Reconfigure
<1> QED BY <1>1, <1>7, <1>8, <1>9, <1>10 DEF QueueInv, ItemsMade, Made, QueuedOnce

(* What is queued for the scheduler is an event about a change.            *)
Triggers == [type : {"approved", "gone"}, change : Change]
(* The same with the events that reach it.                                 *)
GateInv == QueueInv /\ triggers \in Seq(Triggers)

(* Only Gerrit's events add to the trigger queue.                          *)
LEMMA TriggersKeepType ==
  ASSUME triggers \in Seq(Triggers), [Next]_vars
  PROVE  triggers' \in Seq(Triggers)
<1>1. CASE HandleTrigger
  <2>1. triggers # <<>> /\ triggers' = Tail(triggers)
    BY <1>1 DEF HandleTrigger
  <2> QED BY <2>1
<1>2. ASSUME NEW c \in Change, Approve(c) \/ Withdraw(c) \/ GoAway(c) \/ NoticeMerge(c)
      PROVE  triggers' \in Seq(Triggers)
  <2>1. triggers' = triggers \o <<>> \/ \E x \in Triggers : triggers' = triggers \o <<x>>
    BY <1>2 DEF Approve, Withdraw, GoAway, NoticeMerge, GerritEvent, Triggers
  <2>2. PICK T : T = Triggers
    OBVIOUS
  <2>3. ASSUME NEW x \in T PROVE triggers \o <<x>> \in Seq(T)
    BY <2>2
  <2>4. triggers \o <<>> \in Seq(T)
    BY <2>2
  <2> QED BY <2>1, <2>2, <2>3, <2>4
<1>3. CASE triggers' = triggers
  BY <1>3
<1> QED BY <1>1, <1>2, <1>3
        DEF Next, SchedulerStep, vars, WakeUp, HandleResult, EndResults, StartPass, EndPass,
            DropItem, PrepareRef, LaunchItem, WaitItem, BuildCompleted, MergeCompleted,
            Promote, Reconfigure, Managing

(* At the start nothing is queued and no item was made.                    *)
LEMMA InitGateInv == Init => GateInv
<1> SUFFICES ASSUME Init PROVE GateInv
  OBVIOUS
<1>1. PICK x : x = EmptyQueue
  OBVIOUS
<1>2. x \in Queues /\ WellLinked(x) /\ Queued(x) = {} /\ x.order = <<>>
  BY <1>1, EmptyQueueIsWellLinked
<1>3. q = x /\ item = [i \in Item |-> Idle] /\ pass = At("sleep") /\ triggers = <<>>
  BY <1>1 DEF Init, Sleeping
<1>4. ItemsMade
  <2>1. {i \in Item : item[i] # Idle} = {}
    BY <1>3
  <2>2. Made = 0
    BY <2>1, FS_EmptySet DEF Made
  <2>3. \A i \in Item : i \in Nat /\ i > 0
    BY ItemAssumption, FS_CardinalityType
  <2> QED BY <1>3, <2>2, <2>3 DEF ItemsMade
<1>5. PassInv
  <2>1. pass \in Passes /\ pass.todo = <<>>
    BY <1>3 DEF At, Passes
  <2> QED BY <2>1 DEF PassInv, Orderly
<1> QED BY <1>2, <1>3, <1>4, <1>5 DEF GateInv, QueueInv, QueuedOnce

(* The other threads leave the queue and the pass over it alone.           *)
LEMMA NextGateInv == GateInv /\ [Next]_vars => GateInv'
<1> SUFFICES ASSUME GateInv, [Next]_vars PROVE QueueInv'
  BY TriggersKeepType DEF GateInv
<1>0. QueueInv /\ triggers \in Seq([type : {"approved", "gone"}, change : Change])
  BY DEF GateInv, Triggers
<1>1. CASE WakeUp \/ EndResults \/ StartPass \/ EndPass \/ HandleResult
  BY <1>0, <1>1, LoopKeepsQueue
<1>2. CASE HandleTrigger
  BY <1>0, <1>2, TriggerKeepsQueue
<1>3. ASSUME NEW i \in Item, DropItem(i) \/ PrepareRef(i) \/ LaunchItem(i) \/ WaitItem(i)
      PROVE  QueueInv'
  BY <1>0, <1>3, ProcessingKeepsQueue
<1>4. ASSUME NEW i \in Item, Promote(i) PROVE QueueInv'
  BY <1>0, <1>4, PromoteKeepsQueue
<1>5. ASSUME NEW new \in Layouts, Reconfigure(new) PROVE QueueInv'
  BY <1>0, <1>5, ReconfigureKeepsQueue
<1>6. CASE q' = q /\ item' = item /\ pass' = pass
  <2>1. PassInv'
    BY <1>0, <1>6 DEF QueueInv, PassInv
  <2> QED BY <1>0, <1>6, <2>1, SameQueue
<1>7. \/ \E i \in Item, j \in Job, r \in {"SUCCESS", "FAILURE", "retry"} : BuildCompleted(i, j, r)
      \/ \E m \in merging, r \in {"merged", "conflict", "updated"} : MergeCompleted(m, r)
      \/ \E c \in Change : Approve(c) \/ Withdraw(c) \/ GoAway(c) \/ NoticeMerge(c)
      \/ UNCHANGED vars
      => q' = q /\ item' = item /\ pass' = pass
  BY DEF BuildCompleted, MergeCompleted, Approve, Withdraw, GoAway, NoticeMerge, GerritEvent,
         vars, scheduled
<1> QED BY <1>1, <1>2, <1>3, <1>4, <1>5, <1>6, <1>7 DEF Next, SchedulerStep

(* The queue is well linked, its changes are distinct, and a pass works    *)
(* through items that are queued, in the order of the list, with the       *)
(* nearest item that is not failing ahead of all that is left.             *)
THEOREM GateInvariance == Spec => []GateInv
BY InitGateInv, NextGateInv, PTL DEF Spec

(* The links of the queue stay consistent, whatever is added, removed,     *)
(* moved, promoted or enqueued again.                                      *)
THEOREM LinksAreConsistent == Spec => []LinksConsistent
<1>1. GateInv => LinksConsistent
  BY DEF GateInv, QueueInv, LinksConsistent
<1> QED BY <1>1, GateInvariance, PTL

(* A change is queued at most once, though addChange calls itself for the  *)
(* changes ahead and behind and a promotion adds every change again.       *)
THEOREM QueuedAtMostOnce == Spec => []QueuedOnce
<1>1. GateInv => QueuedOnce
  BY DEF GateInv, QueueInv
<1> QED BY <1>1, GateInvariance, PTL

-----------------------------------------------------------------------------
(* Mutexes: the inductive invariant.                                       *)

(* A build set, as far as its number and its builds go.                    *)
IsBuildSet(b) ==
  /\ b = [gen |-> b.gen, merge |-> b.merge, ref |-> b.ref, other |-> b.other,
          commit |-> b.commit, unable |-> b.unable, failing |-> b.failing,
          builds |-> b.builds]
  /\ b.gen \in Nat
  /\ b.builds \in [Job -> Builds]

(* Those of all items.                                                     *)
AreBuildSets(sets) ==
  sets = [i \in Item |-> sets[i]] /\ \A i \in Item : IsBuildSet(sets[i])

(* The build a queued result speaks of no longer runs, and its place in    *)
(* the current build set is not free for another one while the scheduler   *)
(* handles triggers or the queue: a job is not launched again before the   *)
(* result of its last build was handled.                                   *)
ResultsAreOld ==
  /\ results \in Seq(ToSet(results))
  /\ \A e \in ToSet(results) :
       /\ e.item \in Item
       /\ e.kind = "build" =>
            /\ e.job \in Job /\ e.gen \in Nat /\ e.gen <= bs[e.item].gen
            /\ e.gen = bs[e.item].gen =>
                 /\ bs[e.item].builds[e.job] # "running"
                 /\ pass.phase \in {"triggers", "queue"} =>
                      bs[e.item].builds[e.job] # "absent"

(* A build that runs with a mutex holds it.                                *)
RunningHolds(sets, owners) ==
  \A i \in Item, j \in Job :
    sets[i].builds[j] = "running" /\ MutexOf[j] # NoMutex =>
      owners[MutexOf[j]] = [item |-> i, job |-> j]

(* What is needed of the types.                                            *)
Shape ==
  /\ AreBuildSets(bs)
  /\ held = [m \in Mutex |-> held[m]]
  /\ \A m \in merging : m.item \in Item

(* Who runs holds, and a held mutex is not released by an old result.      *)
MutexInv == Shape /\ ResultsAreOld /\ RunningHolds(bs, held)

-----------------------------------------------------------------------------
(* What handlers do to build sets.                                         *)

(* c comes after b, and nothing was launched: it is the same build set and *)
(* nothing new runs or was forgotten, or a newer one in which nothing runs.*)
TamerSet(b, c) ==
  \/ /\ c.gen = b.gen
     /\ \A j \in Job : /\ c.builds[j] = "running" => b.builds[j] = "running"
                       /\ c.builds[j] = "absent" => b.builds[j] = "absent"
  \/ c.gen > b.gen /\ \A j \in Job : c.builds[j] # "running"

(* So for every item.                                                      *)
Tamer(old, new) == \A i \in Item : TamerSet(old[i], new[i])

(* The same, but what was absent may have been launched.                   *)
Steady(old, new) ==
  \A i \in Item :
    \/ /\ new[i].gen = old[i].gen
       /\ \A j \in Job :
            /\ new[i].builds[j] = "running" => old[i].builds[j] \in {"running", "absent"}
            /\ new[i].builds[j] = "absent" => old[i].builds[j] = "absent"
    \/ new[i].gen > old[i].gen

(* Nothing happens.                                                        *)
LEMMA TamerIsReflexive == ASSUME NEW sets PROVE Tamer(sets, sets)
BY DEF Tamer, TamerSet

(* Being tamer is being steady, launching nothing.                         *)
LEMMA TamerIsSteady ==
  ASSUME NEW old, NEW new, Tamer(old, new)
  PROVE  Steady(old, new)
BY DEF Tamer, TamerSet, Steady

(* The two relations compose, as the steps of one handler do.              *)
LEMMA TamerIsTransitive ==
  ASSUME NEW a, NEW b, NEW c, AreBuildSets(a), AreBuildSets(b), AreBuildSets(c),
         Tamer(a, b), Tamer(b, c)
  PROVE  Tamer(a, c)
<1> SUFFICES ASSUME NEW i \in Item PROVE TamerSet(a[i], c[i])
  BY DEF Tamer
<1>1. a[i].gen \in Nat /\ b[i].gen \in Nat /\ c[i].gen \in Nat
  BY DEF AreBuildSets, IsBuildSet
<1> QED BY <1>1 DEF Tamer, TamerSet

(* So do launches.                                                         *)
LEMMA SteadyIsTransitive ==
  ASSUME NEW a, NEW b, NEW c, AreBuildSets(a), AreBuildSets(b), AreBuildSets(c),
         Steady(a, b), Steady(b, c)
  PROVE  Steady(a, c)
<1>1. \A i \in Item : a[i].gen \in Nat /\ b[i].gen \in Nat /\ c[i].gen \in Nat
  BY DEF AreBuildSets, IsBuildSet
<1> QED BY <1>1 DEF Steady

(* Nothing is launched, though a build may be forgotten.                   *)
NothingStarts(old, new) ==
  \A i \in Item :
    \/ /\ new[i].gen = old[i].gen
       /\ \A j \in Job : new[i].builds[j] = "running" => old[i].builds[j] = "running"
    \/ new[i].gen > old[i].gen /\ \A j \in Job : new[i].builds[j] # "running"

(* What is tamer starts nothing.                                           *)
LEMMA TamerStartsNothing ==
  ASSUME NEW old, NEW new, Tamer(old, new)
  PROVE  NothingStarts(old, new)
BY DEF Tamer, TamerSet, NothingStarts

(* Who holds the mutexes of running builds stays true when nothing starts. *)
LEMMA NothingStartsKeepsHolders ==
  ASSUME NEW old, NEW new, NEW owners, NothingStarts(old, new), RunningHolds(old, owners)
  PROVE  RunningHolds(new, owners)
BY DEF NothingStarts, RunningHolds

(* A build set with other builds.                                          *)
LEMMA WithBuilds ==
  ASSUME NEW b, IsBuildSet(b), NEW builds \in [Job -> Builds]
  PROVE  LET c == [b EXCEPT !.builds = builds]
         IN  IsBuildSet(c) /\ c.gen = b.gen /\ c.builds = builds
<1> DEFINE c == [b EXCEPT !.builds = builds]
<1>1. c = [gen |-> b.gen, merge |-> b.merge, ref |-> b.ref, other |-> b.other,
           commit |-> b.commit, unable |-> b.unable, failing |-> b.failing,
           builds |-> builds]
  BY DEF IsBuildSet
<1> HIDE DEF c
<1>2. c.gen = b.gen /\ c.builds = builds
  BY <1>1
<1>3. IsBuildSet(c)
  BY <1>1, <1>2 DEF IsBuildSet
<1> QED BY <1>2, <1>3 DEF c

(* A SKIPPED build is finished: it does not run and is not absent.         *)
LEMMA SkipIsTamer ==
  ASSUME NEW b, IsBuildSet(b), NEW jobs
  PROVE  /\ IsBuildSet(Skip(b, jobs)) /\ TamerSet(b, Skip(b, jobs))
         /\ Skip(b, jobs).gen = b.gen
<1> DEFINE c == Skip(b, jobs)
           skipped == [j \in Job |-> IF j \in jobs THEN "SKIPPED" ELSE b.builds[j]]
<1>1. skipped \in [Job -> Builds]
  BY DEF IsBuildSet, Builds, Finished
<1>2. c = [b EXCEPT !.builds = skipped]
  BY DEF Skip
<1>3. \A j \in Job : skipped[j] = "SKIPPED" \/ skipped[j] = b.builds[j]
  OBVIOUS
<1> HIDE DEF c, skipped
<1>4. IsBuildSet(c) /\ c.gen = b.gen /\ c.builds = skipped
  BY <1>1, <1>2, WithBuilds
<1> QED BY <1>3, <1>4 DEF TamerSet, c

(* Dropping builds starts none.                                            *)
LEMMA OnlyBuildsOfStartsNothing ==
  ASSUME NEW b, IsBuildSet(b), NEW jobs
  PROVE  LET c == OnlyBuildsOf(b, jobs)
         IN  /\ IsBuildSet(c) /\ c.gen = b.gen
             /\ \A j \in Job : c.builds[j] = "running" => b.builds[j] = "running"
<1> DEFINE c == OnlyBuildsOf(b, jobs)
           builds == [j \in Job |-> IF j \in jobs THEN b.builds[j] ELSE "absent"]
<1>1. builds \in [Job -> Builds] /\ \A j \in Job : builds[j] \in {"absent", b.builds[j]}
  BY DEF IsBuildSet, Builds
<1>2. c = [b EXCEPT !.builds = builds]
  BY DEF OnlyBuildsOf
<1> HIDE DEF c, builds
<1>3. IsBuildSet(c) /\ c.gen = b.gen /\ c.builds = builds
  BY <1>1, <1>2, WithBuilds
<1> QED BY <1>1, <1>3 DEF c

(* One build set is replaced by a tamer one.                               *)
LEMMA ReplacedIsTamer ==
  ASSUME NEW sets, AreBuildSets(sets), NEW i \in Item, NEW b, IsBuildSet(b),
         TamerSet(sets[i], b)
  PROVE  /\ AreBuildSets([sets EXCEPT ![i] = b])
         /\ Tamer(sets, [sets EXCEPT ![i] = b])
<1> DEFINE new == [sets EXCEPT ![i] = b]
<1>1. new = [k \in Item |-> IF k = i THEN b ELSE sets[k]]
  BY DEF AreBuildSets
<1> QED BY <1>1 DEF AreBuildSets, Tamer, TamerSet

(* cancelJobs leaves nothing running where it reaches.                     *)
LEMMA CancelIsTamer ==
  ASSUME NEW sets, AreBuildSets(sets), NEW items, NEW prime
  PROVE  /\ AreBuildSets(CancelJobs(sets, items, prime))
         /\ Tamer(sets, CancelJobs(sets, items, prime))
<1> DEFINE new == CancelJobs(sets, items, prime)
           canceled(i) == [j \in Job |-> IF sets[i].builds[j] = "absent" THEN "absent" ELSE "CANCELED"]
<1>1. \A i \in Item : \/ new[i] = sets[i]
                       \/ new[i] = NewBuildSet(sets[i].gen + 1)
                       \/ new[i] = [sets[i] EXCEPT !.builds = canceled(i)]
  BY DEF CancelJobs
<1>2. new = [i \in Item |-> new[i]]
  BY DEF CancelJobs
<1> HIDE DEF new
<1> SUFFICES ASSUME NEW i \in Item
             PROVE  IsBuildSet(new[i]) /\ TamerSet(sets[i], new[i])
  BY <1>2 DEF AreBuildSets, Tamer, new
<1>3. IsBuildSet(sets[i])
  BY DEF AreBuildSets
<1>4. CASE new[i] = sets[i]
  BY <1>3, <1>4 DEF TamerSet
<1>5. CASE new[i] = NewBuildSet(sets[i].gen + 1)
  BY <1>3, <1>5 DEF NewBuildSet, IsBuildSet, TamerSet, Builds
<1>6. CASE new[i] = [sets[i] EXCEPT !.builds = canceled(i)]
  <2>1. canceled(i) \in [Job -> Builds]
    BY DEF Builds, Finished
  <2>2. \A j \in Job : IF sets[i].builds[j] = "absent" THEN canceled(i)[j] = "absent"
                       ELSE canceled(i)[j] = "CANCELED"
    OBVIOUS
  <2> HIDE DEF canceled
  <2>3. IsBuildSet(new[i]) /\ new[i].gen = sets[i].gen /\ new[i].builds = canceled(i)
    BY <1>3, <1>6, <2>1, WithBuilds
  <2> QED BY <2>2, <2>3 DEF TamerSet
<1> QED BY <1>1, <1>4, <1>5, <1>6

(* c differs from b in neither its number nor its builds.                  *)
SameBuilds(b, c) == IsBuildSet(c) /\ c.gen = b.gen /\ c.builds = b.builds

(* Build sets whose builds are the same.                                   *)
LEMMA SameBuildsIsTamer ==
  ASSUME NEW b, NEW c, SameBuilds(b, c)
  PROVE  TamerSet(b, c)
BY DEF SameBuilds, TamerSet

(* What merging, preparing and judging an item write in its build set.     *)
LEMMA FieldsKeepBuilds ==
  ASSUME NEW b, IsBuildSet(b), NEW x, NEW y
  PROVE  /\ SameBuilds(b, [b EXCEPT !.merge = x])
         /\ SameBuilds(b, [b EXCEPT !.commit = x])
         /\ SameBuilds(b, [b EXCEPT !.unable = x])
         /\ SameBuilds(b, [b EXCEPT !.failing = x])
         /\ SameBuilds(b, [b EXCEPT !.ref = x, !.other = y])
<1> DEFINE Set(merge, ref, other, commit, unable, failing) ==
             [gen |-> b.gen, merge |-> merge, ref |-> ref, other |-> other,
              commit |-> commit, unable |-> unable, failing |-> failing,
              builds |-> b.builds]
<1>1. ASSUME NEW merge, NEW ref, NEW other, NEW commit, NEW unable, NEW failing
      PROVE  SameBuilds(b, Set(merge, ref, other, commit, unable, failing))
  BY DEF SameBuilds, IsBuildSet
<1>2. b = Set(b.merge, b.ref, b.other, b.commit, b.unable, b.failing)
  BY DEF IsBuildSet
<1>3. [b EXCEPT !.merge = x] = Set(x, b.ref, b.other, b.commit, b.unable, b.failing)
  BY <1>2
<1>4. [b EXCEPT !.commit = x] = Set(b.merge, b.ref, b.other, x, b.unable, b.failing)
  BY <1>2
<1>5. [b EXCEPT !.unable = x] = Set(b.merge, b.ref, b.other, b.commit, x, b.failing)
  BY <1>2
<1>6. [b EXCEPT !.failing = x] = Set(b.merge, b.ref, b.other, b.commit, b.unable, x)
  BY <1>2
<1>7. [b EXCEPT !.ref = x, !.other = y] =
        Set(b.merge, x, y, b.commit, b.unable, b.failing)
  <2>1. [b EXCEPT !.ref = x] = Set(b.merge, x, b.other, b.commit, b.unable, b.failing)
    BY <1>2
  <2>2. [b EXCEPT !.ref = x, !.other = y] = [[b EXCEPT !.ref = x] EXCEPT !.other = y]
    OBVIOUS
  <2>3. [Set(b.merge, x, b.other, b.commit, b.unable, b.failing) EXCEPT !.other = y] =
          Set(b.merge, x, y, b.commit, b.unable, b.failing)
    OBVIOUS
  <2> HIDE DEF Set
  <2> QED BY <2>1, <2>2, <2>3
<1> HIDE DEF Set
<1> QED BY <1>1, <1>3, <1>4, <1>5, <1>6, <1>7

(* Marking an item failing.                                                *)
LEMMA FailingIsTamer ==
  ASSUME NEW sets, AreBuildSets(sets), NEW i \in Item, NEW f
  PROVE  /\ AreBuildSets([sets EXCEPT ![i].failing = f])
         /\ Tamer(sets, [sets EXCEPT ![i].failing = f])
<1> DEFINE c == [sets[i] EXCEPT !.failing = f]
<1>1. SameBuilds(sets[i], c)
  BY FieldsKeepBuilds DEF AreBuildSets
<1>2. [sets EXCEPT ![i].failing = f] = [sets EXCEPT ![i] = c]
  OBVIOUS
<1> HIDE DEF c
<1> QED BY <1>1, <1>2, SameBuildsIsTamer, ReplacedIsTamer DEF SameBuilds

(* The results already queued stay old while the scheduler thread handles  *)
(* the queue, whatever it launches, and elsewhere while nothing is         *)
(* launched or forgotten.                                                  *)
LEMMA ResultsStayOld ==
  ASSUME Shape, ResultsAreOld, AreBuildSets(bs'), results' = results, Steady(bs, bs'),
         \/ pass.phase = "queue"
         \/ Tamer(bs, bs') /\ (pass'.phase \in {"triggers", "queue"} =>
                                  pass.phase \in {"triggers", "queue"})
  PROVE  ResultsAreOld'
<1> SUFFICES ASSUME NEW e \in ToSet(results), e.kind = "build"
             PROVE  /\ e.gen <= bs'[e.item].gen
                    /\ e.gen = bs'[e.item].gen =>
                         /\ bs'[e.item].builds[e.job] # "running"
                         /\ pass'.phase \in {"triggers", "queue"} =>
                              bs'[e.item].builds[e.job] # "absent"
  BY DEF ResultsAreOld
<1>1. e.item \in Item /\ e.job \in Job /\ e.gen \in Nat /\ e.gen <= bs[e.item].gen
  BY DEF ResultsAreOld
<1>2. bs[e.item].gen \in Nat /\ bs'[e.item].gen \in Nat
  BY <1>1 DEF Shape, AreBuildSets, IsBuildSet
<1>3. e.gen <= bs'[e.item].gen /\ (e.gen = bs'[e.item].gen => e.gen = bs[e.item].gen)
  BY <1>1, <1>2 DEF Steady
<1>4. ASSUME e.gen = bs'[e.item].gen
      PROVE  /\ bs'[e.item].builds[e.job] # "running"
             /\ pass'.phase \in {"triggers", "queue"} => bs'[e.item].builds[e.job] # "absent"
  <2>1. e.gen = bs[e.item].gen /\ bs'[e.item].gen = bs[e.item].gen
    BY <1>3, <1>4
  <2>2. bs[e.item].builds[e.job] # "running"
    BY <2>1 DEF ResultsAreOld
  <2>3. pass.phase \in {"triggers", "queue"} => bs[e.item].builds[e.job] # "absent"
    BY <2>1 DEF ResultsAreOld
  <2>4. /\ bs'[e.item].builds[e.job] = "running" => bs[e.item].builds[e.job] = "absent"
        /\ bs'[e.item].builds[e.job] = "absent" => bs[e.item].builds[e.job] = "absent"
    BY <1>1, <1>2, <2>1, <2>2 DEF Steady
  <2>5. CASE pass.phase = "queue"
    BY <2>3, <2>4, <2>5
  <2>6. CASE Tamer(bs, bs') /\ (pass'.phase \in {"triggers", "queue"} =>
                                  pass.phase \in {"triggers", "queue"})
    <3>1. bs'[e.item].builds[e.job] # "running"
      BY <1>1, <1>2, <2>1, <2>2, <2>6 DEF Tamer, TamerSet
    <3> QED BY <2>3, <2>4, <2>6, <3>1
  <2> QED BY <2>5, <2>6
<1> QED BY <1>3, <1>4

(* They also stay old while none is queued and nothing starts, outside the *)
(* phases in which jobs are launched.                                      *)
LEMMA ResultsStayOldOutside ==
  ASSUME Shape, ResultsAreOld, AreBuildSets(bs'), NothingStarts(bs, bs'),
         results' \in Seq(ToSet(results')), ToSet(results') \subseteq ToSet(results),
         pass'.phase \notin {"triggers", "queue"}
  PROVE  ResultsAreOld'
<1> SUFFICES ASSUME NEW e \in ToSet(results), e.kind = "build"
             PROVE  /\ e.gen <= bs'[e.item].gen
                    /\ e.gen = bs'[e.item].gen => bs'[e.item].builds[e.job] # "running"
  BY DEF ResultsAreOld
<1>1. e.item \in Item /\ e.job \in Job /\ e.gen \in Nat /\ e.gen <= bs[e.item].gen
  BY DEF ResultsAreOld
<1>2. bs[e.item].gen \in Nat /\ bs'[e.item].gen \in Nat
  BY <1>1 DEF Shape, AreBuildSets, IsBuildSet
<1>3. e.gen = bs[e.item].gen => bs[e.item].builds[e.job] # "running"
  BY DEF ResultsAreOld
<1> QED BY <1>1, <1>2, <1>3 DEF NothingStarts

-----------------------------------------------------------------------------
(* What the parts of _processOneItem do to build sets.                     *)

(* Resetting an item and what is tested on it only cancels.                *)
LEMMA ResetIsTamer ==
  ASSUME AreBuildSets(bs), NEW i \in Item
  PROVE  AreBuildSets(ResetSets(i)) /\ Tamer(bs, ResetSets(i))
<1>1. CASE NeedsAFailingItem(i)
  BY <1>1, CancelIsTamer DEF ResetSets
<1>2. CASE ~NeedsAFailingItem(i) /\ Misplaced(i)
  BY <1>2, CancelIsTamer DEF ResetSets
<1>3. CASE ~NeedsAFailingItem(i) /\ ~Misplaced(i)
  BY <1>3, TamerIsReflexive DEF ResetSets
<1> QED BY <1>1, <1>2, <1>3

(* Reporting an item, or going on to the next one, only cancels.           *)
LEMMA SettleIsTamer ==
  ASSUME NEW i \in Item, NEW queue, NEW sets, AreBuildSets(sets), Settle(i, queue, sets)
  PROVE  AreBuildSets(bs') /\ Tamer(sets, bs')
<1>1. ASSUME NEW f, bs' = [sets EXCEPT ![i].failing = f]
      PROVE  AreBuildSets(bs') /\ Tamer(sets, bs')
  BY <1>1, FailingIsTamer
<1>2. CASE bs' = [CancelJobs(sets, Behind(queue, i), TRUE) EXCEPT ![i].failing = TRUE]
  <2> DEFINE canceled == CancelJobs(sets, Behind(queue, i), TRUE)
  <2>1. AreBuildSets(canceled) /\ Tamer(sets, canceled)
    BY CancelIsTamer
  <2> HIDE DEF canceled
  <2>2. AreBuildSets(bs') /\ Tamer(canceled, bs')
    BY <1>2, <2>1, FailingIsTamer DEF canceled
  <2> QED BY <2>1, <2>2, TamerIsTransitive
<1>3. CASE bs' = sets
  BY <1>3, TamerIsReflexive
<1> QED BY <1>1, <1>2, <1>3 DEF Settle

-----------------------------------------------------------------------------
(* Launching jobs.                                                         *)

(* A mutex goes to at most one job, and only a free one, or one whose      *)
(* holder has a result, changes hands.                                     *)
LEMMA GrantedOnce ==
  ASSUME NEW m \in Mutex, NEW i \in Item, NEW wanting, NEW sets,
         NEW j \in Granted(m, i, wanting, sets)
  PROVE  /\ \A k \in Granted(m, i, wanting, sets) : k = j
         /\ \/ held[m] = Idle
            \/ sets[held[m].item].builds[held[m].job] \in Finished
            \/ held[m].item = i /\ j = held[m].job /\ j \in wanting
BY DEF Granted

(* Launching takes the mutexes of what it launches from nobody whose build *)
(* runs.                                                                   *)
LEMMA LaunchKeepsHolders ==
  ASSUME NEW i \in Item, NEW queue, NEW sets, AreBuildSets(sets), RunningHolds(sets, held),
         held = [m \in Mutex |-> held[m]]
  PROVE  LET launch == LaunchJobs(queue, i, sets)
         IN  /\ AreBuildSets(launch.sets)
             /\ Steady(sets, launch.sets)
             /\ RunningHolds(launch.sets, launch.held)
             /\ launch.held = [m \in Mutex |-> launch.held[m]]
<1> DEFINE runnable == Runnable(queue, i, sets[i])
           wanting(m) == {j \in runnable : MutexOf[j] = m}
           granted == [m \in Mutex |-> Granted(m, i, wanting(m), sets)]
           launched == {j \in runnable : MutexOf[j] # NoMutex => j \in granted[MutexOf[j]]}
           builds == [j \in Job |-> IF j \in launched THEN "running" ELSE sets[i].builds[j]]
           owners == [m \in Mutex |-> IF granted[m] = {} THEN held[m]
                                      ELSE [item |-> i, job |-> CHOOSE j \in granted[m] : TRUE]]
           b == [sets[i] EXCEPT !.builds = builds]
           new == [sets EXCEPT ![i] = b]
<1>1. LaunchJobs(queue, i, sets).held = owners /\ LaunchJobs(queue, i, sets).sets = new
  BY DEF LaunchJobs
<1>2. \A j \in runnable : j \in Job => sets[i].builds[j] = "absent"
  BY DEF Runnable
<1> SUFFICES /\ AreBuildSets(new) /\ Steady(sets, new) /\ RunningHolds(new, owners)
             /\ owners = [m \in Mutex |-> owners[m]]
  BY <1>1
<1> HIDE DEF runnable
<1>3. IsBuildSet(sets[i])
  BY DEF AreBuildSets
<1>4. b.gen = sets[i].gen /\ b.builds = builds /\ IsBuildSet(b)
  <2>1. builds \in [Job -> Builds]
    BY <1>3 DEF IsBuildSet, Builds
  <2> HIDE DEF builds
  <2> QED BY <1>3, <2>1, WithBuilds
<1>5. new = [k \in Item |-> IF k = i THEN b ELSE sets[k]]
  BY DEF AreBuildSets
<1>6. \A j \in Job : builds[j] = IF j \in launched THEN "running" ELSE sets[i].builds[j]
  OBVIOUS
<1>7. \A j \in launched \cap Job : sets[i].builds[j] = "absent"
  BY <1>2
<1> HIDE DEF new, b, builds
<1>8. AreBuildSets(new)
  BY <1>4, <1>5 DEF AreBuildSets
<1>9. Steady(sets, new)
  BY <1>4, <1>5, <1>6, <1>7 DEF Steady
<1>10. RunningHolds(new, owners)
  <2> SUFFICES ASSUME NEW k \in Item, NEW l \in Job, new[k].builds[l] = "running",
                      MutexOf[l] # NoMutex
               PROVE  owners[MutexOf[l]] = [item |-> k, job |-> l]
    BY DEF RunningHolds
  <2> DEFINE m == MutexOf[l]
  <2>1. m \in Mutex
    BY JobAssumption
  <2>2. CASE k = i /\ l \in launched
    <3>1. l \in Granted(m, i, wanting(m), sets)
      BY <2>1, <2>2
    <3>2. \A j \in granted[m] : j = l
      BY <2>1, <3>1, GrantedOnce
    <3> QED BY <2>1, <2>2, <3>1, <3>2
  <2>3. CASE ~(k = i /\ l \in launched)
    <3>1. sets[k].builds[l] = "running"
      BY <1>4, <1>5, <1>6, <2>3
    <3>2. held[m] = [item |-> k, job |-> l]
      BY <3>1 DEF RunningHolds
    <3>3. granted[m] = {}
      <4> SUFFICES ASSUME NEW j \in Granted(m, i, wanting(m), sets) PROVE FALSE
        BY <2>1
      <4>1. CASE held[m] = Idle
        BY <3>2, <4>1, IdleAssumption
      <4>2. CASE sets[held[m].item].builds[held[m].job] \in Finished
        BY <3>1, <3>2, <4>2 DEF Finished
      <4>3. CASE held[m].item = i /\ j = held[m].job /\ j \in wanting(m)
        BY <1>2, <3>1, <3>2, <4>3
      <4> QED BY <2>1, <4>1, <4>2, <4>3, GrantedOnce
    <3> QED BY <2>1, <3>2, <3>3
  <2> QED BY <2>2, <2>3
<1> QED BY <1>8, <1>9, <1>10

-----------------------------------------------------------------------------
(* The steps of the scheduler thread.                                      *)

(* A step that launches nothing, handles no result and does not begin to   *)
(* handle triggers.                                                        *)
LEMMA TamerStepKeepsInv ==
  ASSUME MutexInv, AreBuildSets(bs'), Tamer(bs, bs'), held' = held, results' = results,
         \A m \in merging' : m.item \in Item,
         \/ pass.phase = "queue"
         \/ pass'.phase \in {"triggers", "queue"} => pass.phase \in {"triggers", "queue"}
  PROVE  MutexInv'
<1>1. Shape /\ ResultsAreOld /\ RunningHolds(bs, held)
  BY DEF MutexInv
<1>2. Shape'
  BY <1>1 DEF Shape
<1>3. ResultsAreOld'
  BY <1>1, TamerIsSteady, ResultsStayOld
<1>4. RunningHolds(bs', held')
  BY <1>1, TamerStartsNothing, NothingStartsKeepsHolders
<1> QED BY <1>2, <1>3, <1>4 DEF MutexInv

(* The loop itself: results are all handled before triggers are.           *)
LEMMA LoopKeepsInv ==
  ASSUME MutexInv, WakeUp \/ EndResults \/ StartPass \/ EndPass
  PROVE  MutexInv'
<1>1. /\ bs' = bs /\ held' = held /\ merging' = merging /\ results' = results
      /\ \A m \in merging' : m.item \in Item
  BY DEF WakeUp, EndResults, StartPass, EndPass, scheduled, MutexInv, Shape
<1>2. AreBuildSets(bs') /\ Tamer(bs, bs')
  BY <1>1, TamerIsReflexive DEF MutexInv, Shape
<1>3. CASE WakeUp
  <2>1. pass'.phase = "results"
    BY <1>3 DEF WakeUp, At, Sleeping
  <2> QED BY <1>1, <1>2, <2>1, TamerStepKeepsInv
<1>4. CASE EndResults
  <2>1. results' = <<>>
    BY <1>1, <1>4 DEF EndResults
  <2>2. ResultsAreOld'
    <3>1. ToSet(results') = {} /\ results' \in Seq({})
      BY <2>1 DEF ToSet
    <3> QED BY <3>1 DEF ResultsAreOld
  <2> QED BY <1>1, <2>2 DEF MutexInv, Shape
<1>5. CASE StartPass
  <2>1. pass.phase \in {"triggers", "queue"}
    BY <1>5 DEF StartPass
  <2> QED BY <1>1, <1>2, <2>1, TamerStepKeepsInv
<1>6. CASE EndPass
  <2>1. pass.phase = "queue"
    BY <1>6 DEF EndPass
  <2> QED BY <1>1, <1>2, <2>1, TamerStepKeepsInv
<1> QED BY <1>3, <1>4, <1>5, <1>6

(* onBuildCompleted: it releases the mutex of a build that no longer runs. *)
LEMMA HandleBuildKeepsInv ==
  ASSUME MutexInv, pass.phase = "results", results # <<>>, results' = Tail(results),
         merging' = merging, HandleBuild(Head(results))
  PROVE  MutexInv'
<1> DEFINE e == Head(results)
<1>1. /\ results' \in Seq(ToSet(results')) /\ ToSet(results') \subseteq ToSet(results)
      /\ e \in ToSet(results)
  BY TakenFromTheFront DEF MutexInv, ResultsAreOld
<1>2. /\ AreBuildSets(bs) /\ held = [m \in Mutex |-> held[m]]
      /\ \A m \in merging' : m.item \in Item
      /\ RunningHolds(bs, held)
  BY DEF MutexInv, Shape
<1>3. e.kind = "build"
  BY DEF HandleBuild
<1>4. /\ e.item \in Item /\ e.job \in Job
      /\ e.gen = bs[e.item].gen => bs[e.item].builds[e.job] # "running"
  BY <1>1, <1>3 DEF MutexInv, ResultsAreOld
<1>5. pass'.phase \notin {"triggers", "queue"}
  BY DEF HandleBuild, Abort, Sleeping, At
<1>6. IsBuildSet(bs[e.item])
  BY <1>2, <1>4 DEF AreBuildSets
<1>7. CASE bs' = bs /\ held' = held
  <2>1. NothingStarts(bs, bs')
    BY <1>7, TamerIsReflexive, TamerStartsNothing
  <2>2. ResultsAreOld'
    BY <1>1, <1>2, <1>5, <1>7, <2>1, ResultsStayOldOutside DEF MutexInv
  <2> QED BY <1>2, <1>7, <2>2 DEF MutexInv, Shape
<1>8. CASE /\ Current(e)
           /\ \/ bs' = [bs EXCEPT ![e.item].builds[e.job] = "absent"]
              \/ bs' = bs
              \/ \E jobs : bs' = [bs EXCEPT ![e.item] = Skip(bs[e.item], jobs)]
           /\ Release(e.item, e.job)
  <2>1. AreBuildSets(bs') /\ NothingStarts(bs, bs')
    <3>1. CASE bs' = [bs EXCEPT ![e.item].builds[e.job] = "absent"]
      <4> DEFINE builds == [bs[e.item].builds EXCEPT ![e.job] = "absent"]
                 c == [bs[e.item] EXCEPT !.builds = builds]
      <4>1. builds \in [Job -> Builds] /\ \A j \in Job : builds[j] \in {"absent", bs[e.item].builds[j]}
        BY <1>4, <1>6 DEF IsBuildSet, Builds
      <4>2. bs' = [bs EXCEPT ![e.item] = c]
        BY <3>1
      <4> HIDE DEF builds
      <4>3. IsBuildSet(c) /\ c.gen = bs[e.item].gen /\ c.builds = builds
        BY <1>6, <4>1, WithBuilds
      <4> HIDE DEF c
      <4>4. bs' = [i \in Item |-> IF i = e.item THEN c ELSE bs[i]]
        BY <1>2, <1>4, <4>2 DEF AreBuildSets
      <4> QED BY <1>2, <4>1, <4>3, <4>4 DEF AreBuildSets, NothingStarts
    <3>2. CASE bs' = bs
      BY <1>2, <3>2, TamerIsReflexive, TamerStartsNothing
    <3>3. ASSUME NEW jobs, bs' = [bs EXCEPT ![e.item] = Skip(bs[e.item], jobs)]
          PROVE  AreBuildSets(bs') /\ NothingStarts(bs, bs')
      BY <1>2, <1>4, <1>6, <3>3, SkipIsTamer, ReplacedIsTamer, TamerStartsNothing
    <3> QED BY <1>8, <3>1, <3>2, <3>3
  <2>2. ResultsAreOld'
    BY <1>1, <1>2, <1>5, <2>1, ResultsStayOldOutside DEF MutexInv
  <2>3. held' = [m \in Mutex |-> held'[m]]
    BY <1>8 DEF Release
  <2>4. RunningHolds(bs', held')
    <3> SUFFICES ASSUME NEW k \in Item, NEW l \in Job, bs'[k].builds[l] = "running",
                        MutexOf[l] # NoMutex
                 PROVE  held'[MutexOf[l]] = [item |-> k, job |-> l]
      BY DEF RunningHolds
    <3>1. bs[k].builds[l] = "running"
      BY <2>1 DEF NothingStarts
    <3>2. held[MutexOf[l]] = [item |-> k, job |-> l]
      BY <1>2, <3>1 DEF RunningHolds
    <3>3. ~(k = e.item /\ l = e.job)
      BY <1>4, <1>8, <3>1 DEF Current
    <3>4. MutexOf[l] \in Mutex
      BY JobAssumption
    <3> QED BY <1>8, <3>2, <3>3, <3>4 DEF Release
  <2> QED BY <1>2, <2>1, <2>2, <2>3, <2>4 DEF MutexInv, Shape
<1>9. \/ bs' = bs /\ held' = held
      \/ /\ Current(e)
         /\ \/ bs' = [bs EXCEPT ![e.item].builds[e.job] = "absent"]
            \/ bs' = bs
            \/ \E jobs : bs' = [bs EXCEPT ![e.item] = Skip(bs[e.item], jobs)]
         /\ Release(e.item, e.job)
  <2>1. CASE ~Current(e)
    BY <2>1 DEF HandleBuild
  <2>2. CASE Current(e) /\ bs[e.item].builds[e.job] = "absent" /\ e.result # "SUCCESS"
    BY <2>2 DEF HandleBuild
  <2>3. CASE Current(e) /\ ~(bs[e.item].builds[e.job] = "absent" /\ e.result # "SUCCESS")
    <3> DEFINE now == bs[e.item].builds[e.job]
               below == {k \in Jobs(item[e.item]) : e.job \in Above[k]}
    <3>1. /\ bs' = [bs EXCEPT ![e.item] =
                     IF e.result = "retry" THEN [bs[e.item] EXCEPT !.builds[e.job] = "absent"]
                     ELSE IF now \in {"SUCCESS", "absent"} THEN bs[e.item]
                     ELSE Skip(bs[e.item], below)]
          /\ Release(e.item, e.job)
      BY <2>3 DEF HandleBuild
    <3>2. [bs EXCEPT ![e.item] = bs[e.item]] = bs
      BY <1>2, <1>4 DEF AreBuildSets
    <3> QED BY <2>3, <3>1, <3>2
  <2> QED BY <2>1, <2>2, <2>3
<1> QED BY <1>7, <1>8, <1>9

(* onMergeCompleted starts nothing.                                        *)
LEMMA HandleMergeKeepsInv ==
  ASSUME MutexInv, pass.phase = "results", results # <<>>, results' = Tail(results),
         merging' = merging, HandleMerge(Head(results))
  PROVE  MutexInv'
<1> DEFINE e == Head(results)
           b == bs[e.item]
           done == [b EXCEPT !.merge = "COMPLETE"]
<1>1. /\ results' \in Seq(ToSet(results')) /\ ToSet(results') \subseteq ToSet(results)
      /\ e \in ToSet(results)
  BY TakenFromTheFront DEF MutexInv, ResultsAreOld
<1>2. /\ AreBuildSets(bs) /\ held = [m \in Mutex |-> held[m]]
      /\ \A m \in merging' : m.item \in Item
      /\ RunningHolds(bs, held) /\ held' = held
  BY DEF MutexInv, Shape, HandleMerge
<1>3. e.item \in Item /\ IsBuildSet(b)
  BY <1>1, <1>2 DEF MutexInv, ResultsAreOld, AreBuildSets
<1>4. pass'.phase \notin {"triggers", "queue"}
  BY DEF HandleMerge, Abort, Sleeping, At
<1>5. SameBuilds(b, done)
  BY <1>3, FieldsKeepBuilds
<1> HIDE DEF done
<1>6. AreBuildSets(bs') /\ Tamer(bs, bs')
  <2>1. CASE bs' = bs
    BY <1>2, <2>1, TamerIsReflexive
  <2>2. ASSUME NEW c, SameBuilds(done, c), NEW d, d = c \/ \E jobs : d = Skip(c, jobs),
               bs' = [bs EXCEPT ![e.item] = d]
        PROVE  AreBuildSets(bs') /\ Tamer(bs, bs')
    <3>1. SameBuilds(b, c)
      BY <1>5, <2>2 DEF SameBuilds
    <3>2. IsBuildSet(d) /\ TamerSet(c, d)
      BY <2>2, <3>1, SkipIsTamer DEF SameBuilds, TamerSet
    <3>3. TamerSet(b, d)
      BY <3>1, <3>2 DEF SameBuilds, TamerSet
    <3> QED BY <1>2, <1>3, <2>2, <3>2, <3>3, ReplacedIsTamer
  <2>3. /\ SameBuilds(done, done)
        /\ SameBuilds(done, [done EXCEPT !.commit = e.content])
        /\ SameBuilds(done, [done EXCEPT !.unable = TRUE])
    BY <1>5, FieldsKeepBuilds DEF SameBuilds
  <2>4. CASE bs' = [bs EXCEPT ![e.item] = done]
    BY <2>2, <2>3, <2>4
  <2>5. CASE bs' = [bs EXCEPT ![e.item] = [done EXCEPT !.commit = e.content]]
    BY <2>2, <2>3, <2>5
  <2>6. CASE bs' = [bs EXCEPT ![e.item] = Skip([done EXCEPT !.unable = TRUE],
                                               Jobs(item[e.item]))]
    BY <2>2, <2>3, <2>6
  <2> QED BY <2>1, <2>4, <2>5, <2>6 DEF HandleMerge, done
<1>7. ResultsAreOld'
  BY <1>1, <1>2, <1>4, <1>6, TamerStartsNothing, ResultsStayOldOutside DEF MutexInv
<1>8. RunningHolds(bs', held')
  BY <1>2, <1>6, TamerStartsNothing, NothingStartsKeepsHolders
<1> QED BY <1>2, <1>6, <1>7, <1>8 DEF MutexInv, Shape

(* process_event_queue: a removed item and what is tested on it are        *)
(* canceled.                                                               *)
LEMMA HandleTriggerKeepsInv ==
  ASSUME MutexInv, HandleTrigger
  PROVE  MutexInv'
<1>1. /\ held' = held /\ merging' = merging /\ results' = results /\ pass' = pass
      /\ \A m \in merging' : m.item \in Item
  BY DEF HandleTrigger, MutexInv, Shape
<1>2. bs' = bs \/ \E items : bs' = CancelJobs(bs, items, TRUE)
  BY DEF HandleTrigger, RemoveItem
<1>3. AreBuildSets(bs') /\ Tamer(bs, bs')
  BY <1>2, CancelIsTamer, TamerIsReflexive DEF MutexInv, Shape
<1> QED BY <1>1, <1>3, TamerStepKeepsInv

(* Dropping an item cancels and skips.                                     *)
LEMMA DropItemKeepsInv ==
  ASSUME MutexInv, NEW i \in Item, DropItem(i)
  PROVE  MutexInv'
<1> DEFINE canceled == CancelJobs(bs, WithBehind(q, i), TRUE)
           skipped == Skip(canceled[i], Jobs(item[i]))
<1>1. /\ held' = held /\ merging' = merging /\ results' = results
      /\ \A m \in merging' : m.item \in Item
      /\ bs' = [canceled EXCEPT ![i] = skipped]
      /\ pass.phase = "queue"
  BY DEF DropItem, Processing, MutexInv, Shape
<1>2. AreBuildSets(bs)
  BY DEF MutexInv, Shape
<1>3. AreBuildSets(canceled) /\ Tamer(bs, canceled)
  BY <1>2, CancelIsTamer
<1> HIDE DEF canceled
<1>4. IsBuildSet(skipped) /\ TamerSet(canceled[i], skipped)
  BY <1>3, SkipIsTamer DEF AreBuildSets
<1> HIDE DEF skipped
<1>5. AreBuildSets(bs') /\ Tamer(canceled, bs')
  BY <1>1, <1>3, <1>4, ReplacedIsTamer
<1>6. Tamer(bs, bs')
  BY <1>2, <1>3, <1>5, TamerIsTransitive
<1> QED BY <1>1, <1>5, <1>6, TamerStepKeepsInv

(* Preparing an item resets it, names its ref and asks for a merge.        *)
LEMMA PrepareRefKeepsInv ==
  ASSUME MutexInv, NEW i \in Item, PrepareRef(i)
  PROVE  MutexInv'
<1> DEFINE queue == MovedQueue(i)
           sets == ResetSets(i)
           b == sets[i]
           ready == Prepared(queue, i, b)
           asked == [ready EXCEPT !.merge = "PENDING"]
<1>1. held' = held /\ results' = results /\ pass.phase = "queue"
  BY DEF PrepareRef, Processing
<1>2. \A m \in merging' : m.item \in Item
  BY DEF PrepareRef, MutexInv, Shape
<1>3. AreBuildSets(bs) /\ AreBuildSets(sets) /\ Tamer(bs, sets)
  BY ResetIsTamer DEF MutexInv, Shape
<1> HIDE DEF sets
<1>4. IsBuildSet(b)
  BY <1>3 DEF AreBuildSets
<1>5. SameBuilds(b, ready)
  BY <1>4, FieldsKeepBuilds DEF Prepared
<1> HIDE DEF ready
<1>6. SameBuilds(b, asked)
  BY <1>5, FieldsKeepBuilds DEF SameBuilds
<1> HIDE DEF asked
<1>7. \/ Settle(i, queue, [sets EXCEPT ![i] = asked])
      \/ bs' = [sets EXCEPT ![i] = ready]
  BY DEF PrepareRef, sets, ready, asked
<1> HIDE DEF queue, b
<1>8. AreBuildSets(bs') /\ Tamer(sets, bs')
  <2>1. CASE Settle(i, queue, [sets EXCEPT ![i] = asked])
    <3> DEFINE new == [sets EXCEPT ![i] = asked]
    <3>1. AreBuildSets(new) /\ Tamer(sets, new)
      BY <1>3, <1>6, SameBuildsIsTamer, ReplacedIsTamer DEF b, SameBuilds
    <3> HIDE DEF new
    <3>2. AreBuildSets(bs') /\ Tamer(new, bs')
      BY <2>1, <3>1, SettleIsTamer DEF new
    <3> QED BY <1>3, <3>1, <3>2, TamerIsTransitive
  <2>2. CASE bs' = [sets EXCEPT ![i] = ready]
    BY <1>3, <1>5, <2>2, SameBuildsIsTamer, ReplacedIsTamer DEF b, SameBuilds
  <2> QED BY <1>7, <2>1, <2>2
<1>9. Tamer(bs, bs')
  BY <1>3, <1>8, TamerIsTransitive
<1> QED BY <1>1, <1>2, <1>8, <1>9, TamerStepKeepsInv

(* Launching is the one step that starts builds, and takes mutexes.        *)
LEMMA LaunchItemKeepsInv ==
  ASSUME MutexInv, NEW i \in Item, LaunchItem(i)
  PROVE  MutexInv'
<1> DEFINE queue == MovedQueue(i)
           sets == ResetSets(i)
           launch == LaunchJobs(queue, i, sets)
<1>1. /\ results' = results /\ merging' = merging /\ pass.phase = "queue"
      /\ held' = launch.held /\ Settle(i, queue, launch.sets)
  BY DEF LaunchItem, Processing
<1>2. AreBuildSets(bs) /\ AreBuildSets(sets) /\ Tamer(bs, sets)
  BY ResetIsTamer DEF MutexInv, Shape
<1> HIDE DEF sets
<1>3. RunningHolds(sets, held)
  BY <1>2, TamerStartsNothing, NothingStartsKeepsHolders DEF MutexInv
<1>4. /\ AreBuildSets(launch.sets) /\ Steady(sets, launch.sets)
      /\ RunningHolds(launch.sets, launch.held)
      /\ launch.held = [m \in Mutex |-> launch.held[m]]
  BY <1>2, <1>3, LaunchKeepsHolders DEF MutexInv, Shape
<1> HIDE DEF queue, launch
<1>5. AreBuildSets(bs') /\ Tamer(launch.sets, bs')
  BY <1>1, <1>4, SettleIsTamer
<1>6. RunningHolds(bs', held')
  BY <1>1, <1>4, <1>5, TamerStartsNothing, NothingStartsKeepsHolders
<1>7. Steady(bs, bs')
  <2>1. Steady(bs, sets) /\ Steady(launch.sets, bs')
    BY <1>2, <1>5, TamerIsSteady
  <2>2. Steady(bs, launch.sets)
    BY <1>2, <1>4, <2>1, SteadyIsTransitive
  <2> QED BY <1>2, <1>4, <1>5, <2>1, <2>2, SteadyIsTransitive
<1>8. ResultsAreOld'
  BY <1>1, <1>5, <1>7, ResultsStayOld DEF MutexInv
<1> QED BY <1>1, <1>4, <1>5, <1>6, <1>8 DEF MutexInv, Shape

(* An item with nothing to start is reset and settled.                     *)
LEMMA WaitItemKeepsInv ==
  ASSUME MutexInv, NEW i \in Item, WaitItem(i)
  PROVE  MutexInv'
<1>1. /\ results' = results /\ merging' = merging /\ pass.phase = "queue" /\ held' = held
      /\ \A m \in merging' : m.item \in Item
      /\ Settle(i, MovedQueue(i), ResetSets(i))
  BY DEF WaitItem, Processing, MutexInv, Shape
<1>2. AreBuildSets(bs) /\ AreBuildSets(ResetSets(i)) /\ Tamer(bs, ResetSets(i))
  BY ResetIsTamer DEF MutexInv, Shape
<1>3. AreBuildSets(bs') /\ Tamer(ResetSets(i), bs')
  BY <1>1, <1>2, SettleIsTamer
<1>4. Tamer(bs, bs')
  BY <1>2, <1>3, TamerIsTransitive
<1> QED BY <1>1, <1>3, <1>4, TamerStepKeepsInv

-----------------------------------------------------------------------------
(* The steps of the other threads.                                         *)

(* A build that completes no longer runs; its result speaks of it.         *)
LEMMA BuildCompletedKeepsInv ==
  ASSUME MutexInv, NEW i \in Item, NEW j \in Job, NEW r \in {"SUCCESS", "FAILURE", "retry"},
         BuildCompleted(i, j, r)
  PROVE  MutexInv'
<1> DEFINE e == [kind |-> "build", item |-> i, gen |-> bs[i].gen, job |-> j, result |-> r]
           builds == [bs[i].builds EXCEPT ![j] = IF r = "retry" THEN "retrying" ELSE r]
           c == [bs[i] EXCEPT !.builds = builds]
<1>1. /\ held' = held /\ merging' = merging /\ pass' = pass
      /\ results' = Append(results, e)
      /\ bs[i].builds[j] = "running"
      /\ bs' = [bs EXCEPT ![i] = c]
  BY DEF BuildCompleted, AddResult
<1>2. AreBuildSets(bs) /\ IsBuildSet(bs[i])
  BY DEF MutexInv, Shape, AreBuildSets
<1>3. /\ builds \in [Job -> Builds]
      /\ builds[j] \notin {"running", "absent"}
      /\ \A k \in Job : k # j => builds[k] = bs[i].builds[k]
  BY <1>2 DEF IsBuildSet, Builds, Finished
<1> HIDE DEF builds
<1>4. IsBuildSet(c) /\ c.gen = bs[i].gen /\ c.builds = builds
  BY <1>2, <1>3, WithBuilds
<1> HIDE DEF c
<1>5. TamerSet(bs[i], c)
  BY <1>3, <1>4 DEF TamerSet
<1>6. AreBuildSets(bs') /\ Tamer(bs, bs')
  BY <1>1, <1>2, <1>4, <1>5, ReplacedIsTamer
<1>7. bs'[i] = c /\ c.gen \in Nat
  BY <1>1, <1>2, <1>4 DEF AreBuildSets, IsBuildSet
<1>8. /\ results' \in Seq(ToSet(results'))
      /\ ToSet(results') \subseteq ToSet(results) \cup {e}
  BY <1>1, AddedAtTheEnd DEF MutexInv, ResultsAreOld
<1>9. ResultsAreOld'
  <2> SUFFICES ASSUME NEW x \in ToSet(results')
               PROVE  /\ x.item \in Item
                      /\ x.kind = "build" =>
                           /\ x.job \in Job /\ x.gen \in Nat /\ x.gen <= bs'[x.item].gen
                           /\ x.gen = bs'[x.item].gen =>
                                /\ bs'[x.item].builds[x.job] # "running"
                                /\ pass'.phase \in {"triggers", "queue"} =>
                                     bs'[x.item].builds[x.job] # "absent"
    BY <1>8 DEF ResultsAreOld
  <2>1. CASE x = e
    BY <1>3, <1>4, <1>7, <2>1
  <2>2. CASE x \in ToSet(results)
    <3>1. /\ x.item \in Item
          /\ x.kind = "build" =>
               /\ x.job \in Job /\ x.gen \in Nat /\ x.gen <= bs[x.item].gen
               /\ x.gen = bs[x.item].gen =>
                    /\ bs[x.item].builds[x.job] # "running"
                    /\ pass.phase \in {"triggers", "queue"} =>
                         bs[x.item].builds[x.job] # "absent"
      BY <2>2 DEF MutexInv, ResultsAreOld
    <3>2. /\ bs[x.item].gen \in Nat /\ bs'[x.item].gen \in Nat
          /\ TamerSet(bs[x.item], bs'[x.item])
      BY <1>2, <1>6, <3>1 DEF AreBuildSets, IsBuildSet, Tamer
    <3> QED BY <1>1, <3>1, <3>2 DEF TamerSet
  <2> QED BY <1>8, <2>1, <2>2
<1>10. RunningHolds(bs', held')
  BY <1>1, <1>6, TamerStartsNothing, NothingStartsKeepsHolders DEF MutexInv
<1> QED BY <1>1, <1>6, <1>9, <1>10 DEF MutexInv, Shape

(* A merge result is no build result.                                      *)
LEMMA MergeCompletedKeepsInv ==
  ASSUME MutexInv, NEW m \in merging, NEW r, MergeCompleted(m, r)
  PROVE  MutexInv'
<1> DEFINE e == [kind |-> "merge", item |-> m.item, gen |-> m.gen, result |-> r,
                 content |-> IF r = "merged" THEN Merged \cup m.content ELSE {}]
<1>1. /\ held' = held /\ bs' = bs /\ pass' = pass /\ merging' \subseteq merging
      /\ results' = Append(results, e)
  BY DEF MergeCompleted, AddResult, scheduled
<1>2. e.kind = "merge" /\ e.item \in Item
  BY DEF MutexInv, Shape
<1>3. /\ results' \in Seq(ToSet(results'))
      /\ ToSet(results') \subseteq ToSet(results) \cup {e}
  BY <1>1, AddedAtTheEnd DEF MutexInv, ResultsAreOld
<1> HIDE DEF e
<1>4. ResultsAreOld'
  BY <1>1, <1>2, <1>3 DEF MutexInv, ResultsAreOld
<1> QED BY <1>1, <1>4 DEF MutexInv, Shape

(* Gerrit's events reach the gate only as triggers.                        *)
LEMMA GerritKeepsInv ==
  ASSUME MutexInv, NEW c, Approve(c) \/ Withdraw(c) \/ GoAway(c) \/ NoticeMerge(c)
  PROVE  MutexInv'
<1>1. /\ held' = held /\ bs' = bs /\ pass' = pass /\ merging' = merging
      /\ results' = results
  BY DEF Approve, Withdraw, GoAway, NoticeMerge, GerritEvent, scheduled
<1> QED BY <1>1 DEF MutexInv, Shape, ResultsAreOld

-----------------------------------------------------------------------------
(* Management events: the pass starts again with the results.              *)

(* A step between two passes that starts nothing.                          *)
LEMMA ManagingKeepsInv ==
  ASSUME MutexInv, Managing, AreBuildSets(bs'), NothingStarts(bs, bs'), held' = held
  PROVE  MutexInv'
<1>1. merging' = merging /\ results' = results /\ pass'.phase = "results"
  BY DEF Managing, At, Sleeping
<1>2. ResultsAreOld'
  BY <1>1, ResultsStayOldOutside DEF MutexInv, ResultsAreOld
<1>3. RunningHolds(bs', held')
  BY NothingStartsKeepsHolders DEF MutexInv
<1> QED BY <1>1, <1>2, <1>3 DEF MutexInv, Shape

(* A promotion cancels.                                                    *)
LEMMA PromoteKeepsInv ==
  ASSUME MutexInv, NEW i \in Item, Promote(i)
  PROVE  MutexInv'
<1>1. Managing /\ held' = held /\ bs' = CancelJobs(bs, Queued(q), TRUE)
  BY DEF Promote
<1>2. AreBuildSets(bs') /\ Tamer(bs, bs')
  BY <1>1, CancelIsTamer DEF MutexInv, Shape
<1> QED BY <1>1, <1>2, TamerStartsNothing, ManagingKeepsInv

(* A reconfiguration drops builds and skips jobs.                          *)
LEMMA ReconfigureKeepsInv ==
  ASSUME MutexInv, NEW new \in Layouts, Reconfigure(new)
  PROVE  MutexInv'
<1>1. Managing /\ held' = held
  BY DEF Reconfigure
<1>2. ASSUME NEW i \in Item
      PROVE  /\ IsBuildSet(bs'[i]) /\ bs'[i].gen = bs[i].gen
             /\ \A j \in Job : bs'[i].builds[j] = "running" => bs[i].builds[j] = "running"
  <2> DEFINE jobs == new.jobs[item[i]]
             kept == OnlyBuildsOf(bs[i], jobs)
             b == bs'[i]
  <2>1. IsBuildSet(bs[i])
    BY DEF MutexInv, Shape, AreBuildSets
  <2>2. /\ IsBuildSet(kept) /\ kept.gen = bs[i].gen
        /\ \A j \in Job : kept.builds[j] = "running" => bs[i].builds[j] = "running"
    BY <2>1, OnlyBuildsOfStartsNothing
  <2>3. bs'[i] = bs[i] \/ bs'[i] = Redone(i, jobs)
    BY DEF Reconfigure
  <2>4. PICK below, some : Redone(i, jobs) = Skip(kept, jobs)
                           \/ Redone(i, jobs) = Skip(OnlyBuildsOf(kept, some), below)
    BY DEF Redone
  <2> HIDE DEF kept, jobs
  <2>5. CASE b = bs[i]
    BY <2>1, <2>5
  <2>6. CASE b = Skip(kept, jobs)
    <3>1. IsBuildSet(b) /\ TamerSet(kept, b) /\ b.gen = kept.gen
      BY <2>2, <2>6, SkipIsTamer
    <3> QED BY <2>2, <3>1 DEF TamerSet
  <2>7. CASE b = Skip(OnlyBuildsOf(kept, some), below)
    <3> DEFINE c == OnlyBuildsOf(kept, some)
    <3>1. /\ IsBuildSet(c) /\ c.gen = kept.gen
          /\ \A j \in Job : c.builds[j] = "running" => kept.builds[j] = "running"
      BY <2>2, OnlyBuildsOfStartsNothing
    <3> HIDE DEF c
    <3>2. IsBuildSet(b) /\ TamerSet(c, b) /\ b.gen = c.gen
      BY <2>7, <3>1, SkipIsTamer DEF c
    <3> QED BY <2>2, <3>1, <3>2 DEF TamerSet
  <2> QED BY <2>3, <2>4, <2>5, <2>6, <2>7
<1>3. bs' = [i \in Item |-> bs'[i]]
  BY DEF Reconfigure
<1>4. AreBuildSets(bs') /\ NothingStarts(bs, bs')
  BY <1>2, <1>3 DEF AreBuildSets, NothingStarts
<1> QED BY <1>1, <1>4, ManagingKeepsInv

-----------------------------------------------------------------------------
(* Mutexes: the theorems.                                                  *)

(* At the start nothing runs and no result is queued.                      *)
LEMMA InitMutexInv == Init => MutexInv
<1> SUFFICES ASSUME Init PROVE MutexInv
  OBVIOUS
<1>1. /\ bs = [i \in Item |-> NewBuildSet(0)] /\ held = [m \in Mutex |-> Idle]
      /\ merging = {} /\ results = <<>>
  BY DEF Init
<1>2. IsBuildSet(NewBuildSet(0)) /\ \A j \in Job : NewBuildSet(0).builds[j] = "absent"
  BY DEF NewBuildSet, IsBuildSet, Builds
<1>3. AreBuildSets(bs) /\ \A i \in Item, j \in Job : bs[i].builds[j] = "absent"
  BY <1>1, <1>2 DEF AreBuildSets
<1>4. ToSet(results) = {} /\ results \in Seq({})
  BY <1>1 DEF ToSet
<1> QED BY <1>1, <1>3, <1>4 DEF MutexInv, Shape, ResultsAreOld, RunningHolds

(* Every step of the gate keeps it.                                        *)
LEMMA NextMutexInv == MutexInv /\ [Next]_vars => MutexInv'
<1> SUFFICES ASSUME MutexInv, [Next]_vars PROVE MutexInv'
  OBVIOUS
<1>1. CASE WakeUp \/ EndResults \/ StartPass \/ EndPass
  BY <1>1, LoopKeepsInv
<1>2. CASE HandleResult
  BY <1>2, HandleBuildKeepsInv, HandleMergeKeepsInv DEF HandleResult
<1>3. CASE HandleTrigger
  BY <1>3, HandleTriggerKeepsInv
<1>4. ASSUME NEW i \in Item, DropItem(i) \/ PrepareRef(i) \/ LaunchItem(i) \/ WaitItem(i)
      PROVE  MutexInv'
  BY <1>4, DropItemKeepsInv, PrepareRefKeepsInv, LaunchItemKeepsInv, WaitItemKeepsInv
<1>5. ASSUME NEW i \in Item, NEW j \in Job, NEW r \in {"SUCCESS", "FAILURE", "retry"},
             BuildCompleted(i, j, r)
      PROVE  MutexInv'
  BY <1>5, BuildCompletedKeepsInv
<1>6. ASSUME NEW m \in merging, NEW r \in {"merged", "conflict", "updated"},
             MergeCompleted(m, r)
      PROVE  MutexInv'
  BY <1>6, MergeCompletedKeepsInv
<1>7. ASSUME NEW c \in Change, Approve(c) \/ Withdraw(c) \/ GoAway(c) \/ NoticeMerge(c)
      PROVE  MutexInv'
  BY <1>7, GerritKeepsInv
<1>8. ASSUME NEW i \in Item, Promote(i) PROVE MutexInv'
  BY <1>8, PromoteKeepsInv
<1>9. ASSUME NEW new \in Layouts, Reconfigure(new) PROVE MutexInv'
  BY <1>9, ReconfigureKeepsInv
<1>10. CASE UNCHANGED vars
  BY <1>10 DEF vars, scheduled, MutexInv, Shape, ResultsAreOld
<1> QED
  BY <1>1, <1>2, <1>3, <1>4, <1>5, <1>6, <1>7, <1>8, <1>9, <1>10 DEF Next, SchedulerStep

(* The holder of a mutex is the one build that runs with it, and a job is  *)
(* not launched again while the result of an earlier build is queued.      *)
THEOREM MutexInvariance == Spec => []MutexInv
BY InitMutexInv, NextMutexInv, PTL DEF Spec

(* Two builds that reference the same mutex never wait for a result at the *)
(* same time, through retries, resets, promotions and reconfigurations.    *)
THEOREM MutexesExclude == Spec => []MutexExclusive
<1>1. MutexInv => MutexExclusive
  <2> SUFFICES ASSUME MutexInv,
                      NEW i \in Item, NEW k \in Item, NEW j \in Job, NEW l \in Job,
                      bs[i].builds[j] = "running", bs[k].builds[l] = "running",
                      MutexOf[j] # NoMutex, MutexOf[j] = MutexOf[l]
               PROVE  i = k /\ j = l
    BY DEF MutexExclusive
  <2>1. [item |-> i, job |-> j] = [item |-> k, job |-> l]
    BY DEF MutexInv, RunningHolds
  <2> QED BY <2>1
<1> QED BY <1>1, MutexInvariance, PTL
-----------------------------------------------------------------------------
(* Types.                                                                  *)

(* What Gerrit, the loop and the bounds write.                             *)
ServicesTyped ==
  /\ status \in [Change -> Statuses] /\ trunk \in Seq(Change)
  /\ layout \in Layouts /\ window \in Nat
  /\ reported \subseteq Item /\ wake \in BOOLEAN
  /\ faults \in 0 .. MaxFaults /\ commands \in 0 .. MaxCommands
  /\ events \in 0 .. MaxEvents

(* What is merged in a build set comes from the merge it asked for.        *)
SetsTyped ==
  /\ bs \in [Item -> BuildSets]
  /\ \A m \in merging : m.content \subseteq Change
  /\ \A e \in ToSet(results) : e.kind = "merge" => e.content \subseteq Change

(* Only builds hold mutexes.                                               *)
HeldTyped == held \in [Mutex -> [item : Item, job : Job] \cup {Idle}]

(* A fault within the bound.                                               *)
LEMMA FaultsBounded ==
  ASSUME NEW kind, MayFault(kind), faults \in 0 .. MaxFaults
  PROVE  faults' \in 0 .. MaxFaults
<1>1. MaxFaults \in Nat
  BY JobAssumption
<1> QED BY <1>1 DEF MayFault

(* A report writes the status of a change, the branch and the window.      *)
LEMMA ReportKeepsTypes ==
  ASSUME ServicesTyped, NEW i \in Item, item[i] \in Change, NEW b,
         NEW outcome \in {"merged", "failed", "raised"}, ReportItem(i, b, outcome)
  PROVE  /\ status' \in [Change -> Statuses] /\ trunk' \in Seq(Change)
         /\ window' \in Nat /\ reported' \subseteq Item /\ faults' \in 0 .. MaxFaults
<1>1. \E fault : MayFault(fault)
  BY DEF ReportItem
<1>2. faults' \in 0 .. MaxFaults
  BY <1>1, FaultsBounded DEF ServicesTyped
<1>3. trunk' \in Seq(Change)
  <2>1. trunk' = trunk \/ trunk' = Append(trunk, item[i])
    BY DEF ReportItem
  <2> QED BY <2>1 DEF ServicesTyped
<1>4. status' \in [Change -> Statuses]
  <2>1. status' = status \/ status' = [status EXCEPT ![item[i]] = "merged"]
    BY DEF ReportItem
  <2> QED BY <2>1 DEF ServicesTyped, Statuses
<1>5. reported' \subseteq Item
  BY DEF ReportItem, ServicesTyped
<1>6. window' \in Nat
  <2>1. window' \in {window, IncreasedWindow(window), DecreasedWindow(window)}
    BY DEF ReportItem
  <2> QED BY <2>1, WindowStays DEF ServicesTyped
<1> QED BY <1>2, <1>3, <1>4, <1>5, <1>6

(* So does what ends the processing of an item.                            *)
LEMMA SettleKeepsTypes ==
  ASSUME ServicesTyped, NEW i \in Item, item[i] \in Change, NEW queue, NEW sets,
         Settle(i, queue, sets)
  PROVE  /\ status' \in [Change -> Statuses] /\ trunk' \in Seq(Change)
         /\ window' \in Nat /\ reported' \subseteq Item /\ faults' \in 0 .. MaxFaults
         /\ wake' \in BOOLEAN
<1>1. wake' \in BOOLEAN
  BY DEF Settle, Abort, ServicesTyped
<1>2. \/ \E outcome \in {"merged", "failed", "raised"} : ReportItem(i, sets[i], outcome)
      \/ NotReporting
  BY DEF Settle
<1> QED BY <1>1, <1>2, ReportKeepsTypes DEF NotReporting, gerrit, ServicesTyped

(* Only changes are queued, so an item that is processed has one.          *)
LEMMA ProcessedHasChange ==
  ASSUME QueueInv, NEW i, Processing(i)
  PROVE  i \in Item /\ item[i] \in Change
<1>1. i \in Item /\ i \in Queued(q)
  BY ItemProcessed
<1> QED BY <1>1 DEF QueueInv, ItemsMade

(* Every step keeps the services' part.                                    *)
LEMMA NextServicesTyped ==
  ASSUME QueueInv, ServicesTyped, [Next]_vars
  PROVE  ServicesTyped'
<1>1. CASE WakeUp \/ EndResults \/ StartPass \/ EndPass \/ HandleResult \/ HandleTrigger
  <2>1. /\ status' = status /\ trunk' = trunk /\ layout' = layout /\ window' = window
        /\ reported' = reported /\ faults' = faults /\ commands' = commands /\ events' = events
    BY <1>1 DEF WakeUp, EndResults, StartPass, EndPass, HandleResult, HandleTrigger,
                gerrit, scheduled, bounds
  <2>2. wake' = wake \/ wake' = FALSE \/ wake' = TRUE
    BY <1>1 DEF WakeUp, EndResults, StartPass, EndPass, HandleResult, HandleTrigger,
                HandleBuild, HandleMerge, Abort
  <2> QED BY <2>1, <2>2 DEF ServicesTyped
<1>2. ASSUME NEW i \in Item, DropItem(i) \/ PrepareRef(i) \/ LaunchItem(i) \/ WaitItem(i)
      PROVE  ServicesTyped'
  <2>1. /\ layout' = layout /\ commands' = commands /\ events' = events
        /\ Processing(i)
    BY <1>2 DEF DropItem, PrepareRef, LaunchItem, WaitItem
  <2>2. item[i] \in Change
    BY <2>1, ProcessedHasChange
  <2> SUFFICES /\ status' \in [Change -> Statuses] /\ trunk' \in Seq(Change)
               /\ window' \in Nat /\ reported' \subseteq Item
               /\ faults' \in 0 .. MaxFaults /\ wake' \in BOOLEAN
    BY <2>1 DEF ServicesTyped
  <2>3. CASE DropItem(i)
    <3>1. wake' \in BOOLEAN
      BY <2>3 DEF DropItem, Abort, ServicesTyped
    <3>2. \E b, outcome : /\ outcome \in {"merged", "failed", "raised"}
                          /\ ReportItem(i, b, outcome)
      BY <2>3 DEF DropItem
    <3> QED BY <2>2, <3>1, <3>2, ReportKeepsTypes
  <2>4. CASE \E queue, sets : Settle(i, queue, sets)
    BY <2>2, <2>4, SettleKeepsTypes
  <2>5. CASE PrepareRef(i)
    <3> DEFINE b == ResetSets(i)[i]
               sets == [ResetSets(i) EXCEPT ![i] =
                          [Prepared(MovedQueue(i), i, b) EXCEPT !.merge = "PENDING"]]
    <3>1. \/ Settle(i, MovedQueue(i), sets)
          \/ /\ MayFault("submit") /\ wake' = TRUE
             /\ status' = status /\ trunk' = trunk /\ window' = window /\ reported' = reported
      BY <2>5 DEF PrepareRef, Abort, gerrit
    <3>2. CASE MayFault("submit") /\ wake' = TRUE
      BY <2>4, <3>1, <3>2, FaultsBounded DEF ServicesTyped
    <3> QED BY <2>4, <3>1, <3>2
  <2> QED BY <1>2, <2>3, <2>4, <2>5 DEF LaunchItem, WaitItem
<1>3. ASSUME NEW i \in Item, NEW j \in Job, NEW r \in {"SUCCESS", "FAILURE", "retry"},
             BuildCompleted(i, j, r)
      PROVE  ServicesTyped'
  <2>1. faults' \in 0 .. MaxFaults
    BY <1>3, FaultsBounded DEF BuildCompleted, ServicesTyped
  <2> QED BY <1>3, <2>1 DEF BuildCompleted, AddResult, ServicesTyped, gerrit
<1>4. ASSUME NEW m \in merging, NEW r, MergeCompleted(m, r) PROVE ServicesTyped'
  BY <1>4 DEF MergeCompleted, AddResult, ServicesTyped, gerrit, scheduled, bounds
<1>5. ASSUME NEW c \in Change, Approve(c) \/ Withdraw(c) \/ GoAway(c) \/ NoticeMerge(c)
      PROVE  ServicesTyped'
  <2>1. PICK new \in Statuses : \E queued : GerritEvent(c, new, queued)
    BY <1>5 DEF Approve, Withdraw, GoAway, NoticeMerge, Statuses
  <2>2. events' \in 0 .. MaxEvents
    BY <2>1, JobAssumption DEF GerritEvent, ServicesTyped
  <2> QED BY <2>1, <2>2 DEF GerritEvent, ServicesTyped, scheduled
<1>6. ASSUME Managing, layout' \in Layouts, window' \in Nat PROVE ServicesTyped'
  <2>1. commands' \in 0 .. MaxCommands
    BY <1>6, JobAssumption DEF Managing, ServicesTyped
  <2> QED BY <1>6, <2>1 DEF Managing, ServicesTyped, gerrit
<1>7. ASSUME NEW i \in Item, Promote(i) PROVE ServicesTyped'
  BY <1>6, <1>7 DEF Promote, ServicesTyped
<1>8. ASSUME NEW new \in Layouts, Reconfigure(new) PROVE ServicesTyped'
  BY <1>6, <1>8, WindowAssumption DEF Reconfigure
<1>9. CASE UNCHANGED vars
  BY <1>9 DEF vars, gerrit, scheduled, bounds, ServicesTyped
<1> QED BY <1>1, <1>2, <1>3, <1>4, <1>5, <1>7, <1>8, <1>9 DEF Next, SchedulerStep

-----------------------------------------------------------------------------
(* Build sets with all their fields.                                       *)

(* Each field may be written with a value of its type.                     *)
LEMMA FieldsKeepTypes ==
  ASSUME NEW b \in BuildSets
  PROVE  /\ IsBuildSet(b)
         /\ \A builds \in [Job -> Builds] : [b EXCEPT !.builds = builds] \in BuildSets
         /\ \A merge \in {"NEW", "PENDING", "COMPLETE"} : [b EXCEPT !.merge = merge] \in BuildSets
         /\ \A commit \in SUBSET Change : [b EXCEPT !.commit = commit] \in BuildSets
         /\ \A f \in BOOLEAN : /\ [b EXCEPT !.unable = f] \in BuildSets
                               /\ [b EXCEPT !.failing = f] \in BuildSets
         /\ \A ref \in BOOLEAN, other \in Seq(Change) :
              [b EXCEPT !.ref = ref, !.other = other] \in BuildSets
<1> DEFINE Set(merge, ref, other, commit, unable, failing, builds) ==
             [gen |-> b.gen, merge |-> merge, ref |-> ref, other |-> other,
              commit |-> commit, unable |-> unable, failing |-> failing,
              builds |-> builds]
<1>1. /\ b = Set(b.merge, b.ref, b.other, b.commit, b.unable, b.failing, b.builds)
      /\ b.gen \in Nat /\ b.merge \in {"NEW", "PENDING", "COMPLETE"} /\ b.ref \in BOOLEAN
      /\ b.other \in Seq(Change) /\ b.commit \in SUBSET Change /\ b.unable \in BOOLEAN
      /\ b.failing \in BOOLEAN /\ b.builds \in [Job -> Builds]
  BY DEF BuildSets
<1>2. \A merge \in {"NEW", "PENDING", "COMPLETE"}, ref \in BOOLEAN, other \in Seq(Change),
         commit \in SUBSET Change, unable \in BOOLEAN, failing \in BOOLEAN,
         builds \in [Job -> Builds] :
        Set(merge, ref, other, commit, unable, failing, builds) \in BuildSets
  BY <1>1 DEF BuildSets
<1>3. IsBuildSet(b)
  BY <1>1 DEF IsBuildSet
<1>4. ASSUME NEW x \in [Job -> Builds] PROVE [b EXCEPT !.builds = x] \in BuildSets
  <2>1. [b EXCEPT !.builds = x] = Set(b.merge, b.ref, b.other, b.commit, b.unable, b.failing, x)
    BY <1>1
  <2> HIDE DEF Set
  <2> QED BY <1>1, <1>2, <2>1
<1>5. ASSUME NEW x \in {"NEW", "PENDING", "COMPLETE"} PROVE [b EXCEPT !.merge = x] \in BuildSets
  <2>1. [b EXCEPT !.merge = x] = Set(x, b.ref, b.other, b.commit, b.unable, b.failing, b.builds)
    BY <1>1
  <2> HIDE DEF Set
  <2> QED BY <1>1, <1>2, <2>1
<1>6. ASSUME NEW x \in SUBSET Change PROVE [b EXCEPT !.commit = x] \in BuildSets
  <2>1. [b EXCEPT !.commit = x] = Set(b.merge, b.ref, b.other, x, b.unable, b.failing, b.builds)
    BY <1>1
  <2> HIDE DEF Set
  <2> QED BY <1>1, <1>2, <2>1
<1>7. ASSUME NEW x \in BOOLEAN PROVE [b EXCEPT !.unable = x] \in BuildSets
  <2>1. [b EXCEPT !.unable = x] = Set(b.merge, b.ref, b.other, b.commit, x, b.failing, b.builds)
    BY <1>1
  <2> HIDE DEF Set
  <2> QED BY <1>1, <1>2, <2>1
<1>8. ASSUME NEW x \in BOOLEAN PROVE [b EXCEPT !.failing = x] \in BuildSets
  <2>1. [b EXCEPT !.failing = x] = Set(b.merge, b.ref, b.other, b.commit, b.unable, x, b.builds)
    BY <1>1
  <2> HIDE DEF Set
  <2> QED BY <1>1, <1>2, <2>1
<1>9. ASSUME NEW x \in BOOLEAN, NEW y \in Seq(Change)
      PROVE  [b EXCEPT !.ref = x, !.other = y] \in BuildSets
  <2>1. [b EXCEPT !.ref = x] = Set(b.merge, x, b.other, b.commit, b.unable, b.failing, b.builds)
    BY <1>1
  <2>2. [b EXCEPT !.ref = x, !.other = y] = [[b EXCEPT !.ref = x] EXCEPT !.other = y]
    OBVIOUS
  <2>3. [Set(b.merge, x, b.other, b.commit, b.unable, b.failing, b.builds) EXCEPT !.other = y] =
          Set(b.merge, x, y, b.commit, b.unable, b.failing, b.builds)
    OBVIOUS
  <2> HIDE DEF Set
  <2>4. [b EXCEPT !.ref = x, !.other = y] = Set(b.merge, x, y, b.commit, b.unable, b.failing, b.builds)
    BY <2>1, <2>2, <2>3
  <2>5. Set(b.merge, x, y, b.commit, b.unable, b.failing, b.builds) \in BuildSets
    BY <1>1, <1>2
  <2> QED BY <2>4, <2>5
<1> QED BY <1>3, <1>4, <1>5, <1>6, <1>7, <1>8, <1>9

(* Skipping jobs, dropping builds and starting anew.                       *)
LEMMA BuildsKeepTypes ==
  ASSUME NEW b \in BuildSets, NEW jobs
  PROVE  /\ Skip(b, jobs) \in BuildSets /\ OnlyBuildsOf(b, jobs) \in BuildSets
         /\ NewBuildSet(b.gen + 1) \in BuildSets
<1>1. b.builds \in [Job -> Builds] /\ b.gen \in Nat
  BY DEF BuildSets
<1>2. /\ [j \in Job |-> IF j \in jobs THEN "SKIPPED" ELSE b.builds[j]] \in [Job -> Builds]
      /\ [j \in Job |-> IF j \in jobs THEN b.builds[j] ELSE "absent"] \in [Job -> Builds]
  BY <1>1 DEF Builds, Finished
<1>3. Skip(b, jobs) \in BuildSets /\ OnlyBuildsOf(b, jobs) \in BuildSets
  BY <1>2, FieldsKeepTypes DEF Skip, OnlyBuildsOf
<1>4. ASSUME NEW n \in Nat PROVE NewBuildSet(n) \in BuildSets
  <2>1. <<>> \in Seq(Change) /\ {} \in SUBSET Change
    OBVIOUS
  <2>2. [j \in Job |-> "absent"] \in [Job -> Builds]
    BY DEF Builds
  <2> QED BY <2>1, <2>2 DEF NewBuildSet, BuildSets
<1> QED BY <1>1, <1>3, <1>4

(* cancelJobs keeps every build set one.                                   *)
LEMMA CancelKeepsTypes ==
  ASSUME NEW sets \in [Item -> BuildSets], NEW items, NEW prime
  PROVE  CancelJobs(sets, items, prime) \in [Item -> BuildSets]
<1> SUFFICES ASSUME NEW i \in Item PROVE CancelJobs(sets, items, prime)[i] \in BuildSets
  BY DEF CancelJobs
<1>0. PICK b \in BuildSets : b = sets[i]
  OBVIOUS
<1>1. PICK canceled \in [Job -> Builds] :
        canceled = [j \in Job |-> IF b.builds[j] = "absent" THEN "absent" ELSE "CANCELED"]
  BY DEF Builds, Finished
<1>2. CancelJobs(sets, items, prime)[i] \in
        {b, NewBuildSet(b.gen + 1), [b EXCEPT !.builds = canceled]}
  BY <1>0, <1>1 DEF CancelJobs
<1>3. NewBuildSet(b.gen + 1) \in BuildSets /\ [b EXCEPT !.builds = canceled] \in BuildSets
  BY FieldsKeepTypes, BuildsKeepTypes
<1> QED BY <1>2, <1>3

(* So does judging one of them.                                            *)
LEMMA FailingKeepsTypes ==
  ASSUME NEW sets \in [Item -> BuildSets], NEW i \in Item, NEW f \in BOOLEAN
  PROVE  [sets EXCEPT ![i].failing = f] \in [Item -> BuildSets]
<1>1. [sets[i] EXCEPT !.failing = f] \in BuildSets
  BY FieldsKeepTypes
<1> QED BY <1>1

(* What resets an item, and what ends its processing.                      *)
LEMMA ProcessingKeepsSets ==
  ASSUME bs \in [Item -> BuildSets], NEW i \in Item
  PROVE  /\ ResetSets(i) \in [Item -> BuildSets]
         /\ \A queue : \A sets \in [Item -> BuildSets] :
              Settle(i, queue, sets) => bs' \in [Item -> BuildSets]
<1>1. ResetSets(i) \in [Item -> BuildSets]
  BY CancelKeepsTypes DEF ResetSets
<1>2. ASSUME NEW queue, NEW sets \in [Item -> BuildSets], Settle(i, queue, sets)
      PROVE  bs' \in [Item -> BuildSets]
  <2>1. PICK f \in BOOLEAN : f = Failing(i, sets[i])
    BY DEF Failing
  <2>2. PICK canceled \in [Item -> BuildSets] : canceled = CancelJobs(sets, Behind(queue, i), TRUE)
    BY CancelKeepsTypes
  <2>3. \/ bs' = [sets EXCEPT ![i].failing = f]
        \/ bs' = [canceled EXCEPT ![i].failing = TRUE]
        \/ bs' = sets
    BY <1>2, <2>1, <2>2 DEF Settle
  <2>4. /\ [sets EXCEPT ![i].failing = f] \in [Item -> BuildSets]
        /\ [canceled EXCEPT ![i].failing = TRUE] \in [Item -> BuildSets]
    BY FailingKeepsTypes
  <2> QED BY <2>3, <2>4
<1> QED BY <1>1, <1>2

(* What is ahead of a queued item are changes.                             *)
LEMMA ChangesAheadTyped ==
  ASSUME QueueInv, NEW i, Processing(i)
  PROVE  ChangesAhead(MovedQueue(i), i) \in Seq(Change)
<1>1. PICK x : x = MovedQueue(i)
  OBVIOUS
<1>2. x \in Queues /\ WellLinked(x) /\ x.order = q.order /\ i \in Item
  BY <1>1, MovedIsWellLinked, ItemProcessed
<1>3. PICK s \in Seq(Item) : s = ItemsAhead(x, i)
  BY <1>2, ChainOfItems
<1>4. Len(s) \in Nat /\ DOMAIN s = 1 .. Len(s)
  OBVIOUS
<1>5. ASSUME NEW n \in 1 .. Len(s) PROVE item[s[n]] \in Change
  <2>1. s[n] \in ToSet(s)
    BY <1>4 DEF ToSet
  <2>2. s[n] \in Item /\ Precedes(x, s[n], i)
    BY <1>2, <1>3, <2>1, ChainIsEarlier
  <2>3. s[n] \in Queued(q)
    BY <1>2, <2>2 DEF Precedes, Queued
  <2> QED BY <2>2, <2>3 DEF QueueInv, ItemsMade
<1>6. [n \in 1 .. Len(s) |-> item[s[n]]] \in Seq(Change)
  BY <1>4, <1>5
<1> QED BY <1>1, <1>3, <1>4, <1>6 DEF ChangesAhead

(* A merge or a build that was answered.                                   *)
LEMMA HandleResultKeepsSets ==
  ASSUME MutexInv, SetsTyped, HandleResult
  PROVE  SetsTyped'
<1>1. PICK e : e = Head(results)
  OBVIOUS
<1>2. /\ ToSet(results') \subseteq ToSet(results) /\ e \in ToSet(results)
      /\ merging' = merging
  BY <1>1, TakenFromTheFront DEF HandleResult, MutexInv, ResultsAreOld
<1>3. e.item \in Item /\ (e.kind = "build" => e.job \in Job)
  BY <1>2 DEF MutexInv, ResultsAreOld
<1>4. PICK b \in BuildSets : b = bs[e.item]
  BY <1>3 DEF SetsTyped
<1>5. bs' = bs \/ \E new \in BuildSets : bs' = [bs EXCEPT ![e.item] = new]
  <2>1. CASE HandleBuild(e)
    <3>1. b.builds \in [Job -> Builds]
      BY DEF BuildSets
    <3>2. PICK builds \in [Job -> Builds] : builds = [b.builds EXCEPT ![e.job] = "absent"]
      BY <3>1 DEF Builds
    <3>3. [b EXCEPT !.builds = builds] \in BuildSets
      BY FieldsKeepTypes
    <3>4. \A jobs : Skip(b, jobs) \in BuildSets
      BY BuildsKeepTypes
    <3>5. [b EXCEPT !.builds[e.job] = "absent"] = [b EXCEPT !.builds = builds]
      BY <3>2
    <3>6. \/ bs' = bs
          \/ bs' = [bs EXCEPT ![e.item] = [b EXCEPT !.builds[e.job] = "absent"]]
          \/ bs' = [bs EXCEPT ![e.item] = b]
          \/ \E jobs : bs' = [bs EXCEPT ![e.item] = Skip(b, jobs)]
      BY <1>4, <2>1 DEF HandleBuild
    <3> QED BY <3>3, <3>4, <3>5, <3>6
  <2>2. CASE HandleMerge(e)
    <3>1. PICK done \in BuildSets : done = [b EXCEPT !.merge = "COMPLETE"]
      BY FieldsKeepTypes
    <3>2. PICK unable \in BuildSets : unable = [done EXCEPT !.unable = TRUE]
      BY FieldsKeepTypes
    <3>3. \A jobs : Skip(unable, jobs) \in BuildSets
      BY BuildsKeepTypes
    <3>4. [done EXCEPT !.commit = e.content] \in BuildSets
      <4>1. e.content \in SUBSET Change
        BY <1>2, <2>2 DEF HandleMerge, SetsTyped
      <4> QED BY <4>1, FieldsKeepTypes
    <3>5. \/ bs' = bs
          \/ bs' = [bs EXCEPT ![e.item] = done]
          \/ bs' = [bs EXCEPT ![e.item] = [done EXCEPT !.commit = e.content]]
          \/ \E jobs : bs' = [bs EXCEPT ![e.item] = Skip(unable, jobs)]
      BY <1>4, <2>2, <3>1, <3>2 DEF HandleMerge
    <3> QED BY <3>3, <3>4, <3>5
  <2> QED BY <1>1, <2>1, <2>2 DEF HandleResult
<1>6. bs' \in [Item -> BuildSets]
  BY <1>3, <1>5 DEF SetsTyped
<1> QED BY <1>2, <1>6 DEF SetsTyped

(* launchJobs starts builds and hands mutexes to jobs of the item.         *)
LEMMA LaunchKeepsTypes ==
  ASSUME NEW i \in Item, NEW queue, NEW sets \in [Item -> BuildSets], HeldTyped,
         layout \in Layouts, item[i] \in Change
  PROVE  /\ LaunchJobs(queue, i, sets).sets \in [Item -> BuildSets]
         /\ LaunchJobs(queue, i, sets).held \in [Mutex -> [item : Item, job : Job] \cup {Idle}]
<1> DEFINE runnable == Runnable(queue, i, sets[i])
           granted == [m \in Mutex |-> Granted(m, i, {j \in runnable : MutexOf[j] = m}, sets)]
           launched == {j \in runnable : MutexOf[j] # NoMutex => j \in granted[MutexOf[j]]}
           builds == [j \in Job |-> IF j \in launched THEN "running" ELSE sets[i].builds[j]]
           owners == [m \in Mutex |-> IF granted[m] = {} THEN held[m]
                                      ELSE [item |-> i, job |-> CHOOSE j \in granted[m] : TRUE]]
<1>0. runnable \subseteq Job
  <2>1. Jobs(item[i]) \subseteq Job
    BY LayoutAssumption DEF Jobs
  <2> QED BY <2>1 DEF Runnable
<1>1. /\ LaunchJobs(queue, i, sets).held = owners
      /\ LaunchJobs(queue, i, sets).sets = [sets EXCEPT ![i].builds = builds]
  BY DEF LaunchJobs
<1>2. PICK b \in BuildSets : b = sets[i]
  OBVIOUS
<1>3. builds \in [Job -> Builds]
  <2>1. b.builds \in [Job -> Builds]
    BY DEF BuildSets
  <2> HIDE DEF launched
  <2> QED BY <1>2, <2>1 DEF Builds
<1>4. [sets EXCEPT ![i].builds = builds] \in [Item -> BuildSets]
  <2> HIDE DEF builds
  <2>1. [b EXCEPT !.builds = builds] \in BuildSets
    BY <1>3, FieldsKeepTypes
  <2> QED BY <1>2, <2>1
<1>5. ASSUME NEW m \in Mutex PROVE granted[m] \subseteq Job
  <2> DEFINE wanting == {j \in runnable : MutexOf[j] = m}
             first == SelectInSeq(JobOrder, LAMBDA j : j \in wanting)
  <2>1. granted[m] = Granted(m, i, wanting, sets) /\ wanting \subseteq Job
    <3> HIDE DEF runnable
    <3> QED BY <1>0
  <2>2. wanting # {} => JobOrder[first] \in wanting
    <3> SUFFICES ASSUME wanting # {} PROVE JobOrder[first] \in wanting
      OBVIOUS
    <3>1. PICK W : W = wanting
      OBVIOUS
    <3>2. DOMAIN JobOrder = 1 .. Len(JobOrder) /\ Len(JobOrder) \in Nat
      BY JobAssumption
    <3>3. \E n \in 1 .. Len(JobOrder) : JobOrder[n] \in W
      BY <2>1, <3>1, <3>2, JobAssumption DEF ToSet
    <3> DEFINE I == {n \in 1 .. Len(JobOrder) : JobOrder[n] \in W}
    <3>4. I \in SUBSET (1 .. Len(JobOrder)) /\ I # {}
      BY <3>3
    <3>5. first = Min(I)
      BY <3>1, <3>4 DEF SelectInSeq
    <3>6. Min(I) \in I
      <4>1. I \in SUBSET Nat
        BY <3>2, <3>4
      <4>2. PICK n \in I : \A k \in I : n <= k
        BY <3>4, <4>1, LeastNumber
      <4> HIDE DEF I
      <4> QED BY <4>1, <4>2 DEF Min
    <3> QED BY <3>1, <3>5, <3>6
  <2> HIDE DEF wanting, first
  <2>3. Granted(m, i, wanting, sets) \subseteq wanting \cup {JobOrder[first]} /\ (wanting = {} => Granted(m, i, wanting, sets) = {})
    BY DEF Granted, first
  <2> QED BY <2>1, <2>2, <2>3
<1>6. owners \in [Mutex -> [item : Item, job : Job] \cup {Idle}]
  <2> HIDE DEF granted
  <2> SUFFICES ASSUME NEW m \in Mutex PROVE owners[m] \in [item : Item, job : Job] \cup {Idle}
    OBVIOUS
  <2>1. CASE granted[m] = {}
    BY <2>1 DEF HeldTyped
  <2>2. CASE granted[m] # {}
    <3>1. PICK j \in granted[m] : owners[m] = [item |-> i, job |-> j]
      BY <2>2
    <3> QED BY <1>5, <3>1
  <2> QED BY <2>1, <2>2
<1> QED BY <1>1, <1>4, <1>6

(* A reconfiguration drops builds and skips jobs.                          *)
LEMMA RedoneIsTyped ==
  ASSUME bs \in [Item -> BuildSets], NEW i \in Item, NEW jobs
  PROVE  Redone(i, jobs) \in BuildSets
<1>1. PICK kept \in BuildSets : kept = OnlyBuildsOf(bs[i], jobs)
  BY BuildsKeepTypes
<1>2. PICK below, some : Redone(i, jobs) = Skip(kept, jobs)
                         \/ Redone(i, jobs) = Skip(OnlyBuildsOf(kept, some), below)
  BY <1>1 DEF Redone
<1>3. PICK again \in BuildSets : again = OnlyBuildsOf(kept, some)
  BY BuildsKeepTypes
<1> QED BY <1>2, <1>3, BuildsKeepTypes

(* Preparing an item records the changes ahead of it.                      *)
LEMMA PrepareKeepsSets ==
  ASSUME QueueInv, SetsTyped, NEW i \in Item, PrepareRef(i)
  PROVE  SetsTyped'
<1>1. PICK x : x = MovedQueue(i)
  OBVIOUS
<1>2. Processing(i) /\ results' = results
  BY DEF PrepareRef
<1>3. PICK ahead \in Seq(Change) : ahead = ChangesAhead(x, i)
  BY <1>1, <1>2, ChangesAheadTyped
<1>4. PICK sets \in [Item -> BuildSets] : sets = ResetSets(i)
  BY ProcessingKeepsSets DEF SetsTyped
<1>5. PICK b \in BuildSets : b = sets[i]
  OBVIOUS
<1>6. PICK other \in Seq(Change) : other = IF b.other = <<>> THEN ahead ELSE b.other
  BY DEF BuildSets
<1>7. Prepared(x, i, b) = [b EXCEPT !.ref = TRUE, !.other = other]
  BY <1>3, <1>6 DEF Prepared
<1>8. PICK ready \in BuildSets : ready = Prepared(x, i, b)
  BY <1>7, FieldsKeepTypes
<1>9. PICK asked \in BuildSets : asked = [ready EXCEPT !.merge = "PENDING"]
  BY FieldsKeepTypes
<1>10. /\ \/ Settle(i, x, [sets EXCEPT ![i] = asked])
          \/ bs' = [sets EXCEPT ![i] = ready]
       /\ \A m \in merging' : m \in merging \/ m.content = ToSet(ahead) \cup {item[i]}
  BY <1>1, <1>3, <1>4, <1>5, <1>8, <1>9 DEF PrepareRef
<1>11. bs' \in [Item -> BuildSets]
  <2>1. [sets EXCEPT ![i] = asked] \in [Item -> BuildSets] /\ [sets EXCEPT ![i] = ready] \in [Item -> BuildSets]
    OBVIOUS
  <2> QED BY <1>10, <2>1, ProcessingKeepsSets DEF SetsTyped
<1>12. ToSet(ahead) \cup {item[i]} \subseteq Change
  <2>1. item[i] \in Change
    BY <1>2, ProcessedHasChange
  <2>2. DOMAIN ahead = 1 .. Len(ahead)
    OBVIOUS
  <2> QED BY <2>1, <2>2 DEF ToSet
<1>13. \A m \in merging' : m.content \subseteq Change
  BY <1>10, <1>12 DEF SetsTyped
<1> QED BY <1>2, <1>11, <1>13 DEF SetsTyped

(* Every step keeps the types of build sets and of who holds a mutex.      *)
LEMMA NextSetsTyped ==
  ASSUME QueueInv, MutexInv, ServicesTyped, SetsTyped, HeldTyped, [Next]_vars
  PROVE  SetsTyped' /\ HeldTyped'
<1>0. ASSUME bs' \in [Item -> BuildSets], merging' \subseteq merging, results' = results
      PROVE  SetsTyped'
  BY <1>0 DEF SetsTyped
<1>1. CASE WakeUp \/ EndResults \/ StartPass \/ EndPass \/ UNCHANGED vars
  <2>1. bs' = bs /\ merging' = merging /\ results' = results /\ held' = held
    BY <1>1 DEF WakeUp, EndResults, StartPass, EndPass, vars, scheduled
  <2> QED BY <1>0, <2>1 DEF SetsTyped, HeldTyped
<1>2. CASE HandleResult
  <2>1. HeldTyped'
    BY <1>2 DEF HandleResult, HandleBuild, HandleMerge, Release, HeldTyped
  <2> QED BY <1>2, <2>1, HandleResultKeepsSets
<1>3. CASE HandleTrigger
  <2>1. merging' = merging /\ results' = results /\ held' = held
    BY <1>3 DEF HandleTrigger
  <2>2. bs' = bs \/ \E items : bs' = CancelJobs(bs, items, TRUE)
    BY <1>3 DEF HandleTrigger, RemoveItem
  <2>3. bs' \in [Item -> BuildSets]
    BY <2>2, CancelKeepsTypes DEF SetsTyped
  <2> QED BY <1>0, <2>1, <2>3 DEF HeldTyped
<1>4. ASSUME NEW i \in Item, DropItem(i) PROVE SetsTyped' /\ HeldTyped'
  <2>1. merging' = merging /\ results' = results /\ held' = held
    BY <1>4 DEF DropItem
  <2>2. PICK canceled \in [Item -> BuildSets] : canceled = CancelJobs(bs, WithBehind(q, i), TRUE)
    BY CancelKeepsTypes DEF SetsTyped
  <2>3. PICK skipped \in BuildSets : skipped = Skip(canceled[i], Jobs(item[i]))
    BY BuildsKeepTypes
  <2>4. bs' = [canceled EXCEPT ![i] = skipped]
    BY <1>4, <2>2, <2>3 DEF DropItem
  <2>5. bs' \in [Item -> BuildSets]
    BY <2>4
  <2> QED BY <1>0, <2>1, <2>5 DEF HeldTyped
<1>5. ASSUME NEW i \in Item, PrepareRef(i) PROVE SetsTyped' /\ HeldTyped'
  <2>1. held' = held
    BY <1>5 DEF PrepareRef
  <2> QED BY <1>5, <2>1, PrepareKeepsSets DEF HeldTyped
<1>6. ASSUME NEW i \in Item, LaunchItem(i) PROVE SetsTyped' /\ HeldTyped'
  <2>1. PICK sets \in [Item -> BuildSets] : sets = ResetSets(i)
    BY ProcessingKeepsSets DEF SetsTyped
  <2>2. PICK queue : queue = MovedQueue(i)
    OBVIOUS
  <2>3. PICK launch : launch = LaunchJobs(queue, i, sets)
    OBVIOUS
  <2>4. /\ launch.sets \in [Item -> BuildSets]
        /\ launch.held \in [Mutex -> [item : Item, job : Job] \cup {Idle}]
    <3>1. item[i] \in Change /\ layout \in Layouts
      BY <1>6, ProcessedHasChange DEF LaunchItem, ServicesTyped
    <3> QED BY <2>3, <3>1, LaunchKeepsTypes
  <2>5. /\ merging' = merging /\ results' = results
        /\ held' = launch.held /\ Settle(i, queue, launch.sets)
    BY <1>6, <2>1, <2>2, <2>3 DEF LaunchItem
  <2>6. bs' \in [Item -> BuildSets]
    BY <2>4, <2>5, ProcessingKeepsSets DEF SetsTyped
  <2> QED BY <1>0, <2>4, <2>5, <2>6 DEF HeldTyped
<1>7. ASSUME NEW i \in Item, WaitItem(i) PROVE SetsTyped' /\ HeldTyped'
  <2>1. /\ merging' = merging /\ results' = results /\ held' = held
        /\ Settle(i, MovedQueue(i), ResetSets(i))
    BY <1>7 DEF WaitItem
  <2>2. bs' \in [Item -> BuildSets]
    BY <2>1, ProcessingKeepsSets DEF SetsTyped
  <2> QED BY <1>0, <2>1, <2>2 DEF HeldTyped
<1>8. ASSUME NEW i \in Item, NEW j \in Job, NEW r \in {"SUCCESS", "FAILURE", "retry"},
             BuildCompleted(i, j, r)
      PROVE  SetsTyped' /\ HeldTyped'
  <2>1. PICK b \in BuildSets : b = bs[i]
    BY DEF SetsTyped
  <2>2. b.builds \in [Job -> Builds]
    BY DEF BuildSets
  <2>3. PICK builds \in [Job -> Builds] :
          builds = [b.builds EXCEPT ![j] = IF r = "retry" THEN "retrying" ELSE r]
    BY <2>2 DEF Builds, Finished
  <2>4. [b EXCEPT !.builds = builds] \in BuildSets
    BY FieldsKeepTypes
  <2>5. bs' = [bs EXCEPT ![i] = [b EXCEPT !.builds = builds]]
    BY <1>8, <2>1, <2>3 DEF BuildCompleted
  <2>6. bs' \in [Item -> BuildSets]
    BY <2>4, <2>5 DEF SetsTyped
  <2>7. PICK e : e.kind = "build" /\ results' = Append(results, e)
    BY <1>8 DEF BuildCompleted, AddResult
  <2>8. ToSet(results') \subseteq ToSet(results) \cup {e}
    BY <2>7, AddedAtTheEnd DEF MutexInv, ResultsAreOld
  <2> QED BY <1>8, <2>6, <2>7, <2>8 DEF BuildCompleted, SetsTyped, HeldTyped
<1>9. ASSUME NEW m \in merging, NEW r, MergeCompleted(m, r) PROVE SetsTyped' /\ HeldTyped'
  <2>1. PICK e : /\ e.content = IF r = "merged" THEN Merged \cup m.content ELSE {}
                 /\ results' = Append(results, e)
    BY <1>9 DEF MergeCompleted, AddResult
  <2>2. Merged \subseteq Change
    <3>1. DOMAIN trunk = 1 .. Len(trunk)
      BY DEF ServicesTyped
    <3> QED BY <3>1 DEF Merged, ToSet, ServicesTyped
  <2>3. e.content \subseteq Change
    BY <2>1, <2>2 DEF SetsTyped
  <2>4. ToSet(results') \subseteq ToSet(results) \cup {e}
    BY <2>1, AddedAtTheEnd DEF MutexInv, ResultsAreOld
  <2>5. merging' \subseteq merging /\ bs' = bs /\ held' = held
    BY <1>9 DEF MergeCompleted, scheduled
  <2> QED BY <2>3, <2>4, <2>5 DEF SetsTyped, HeldTyped
<1>10. ASSUME NEW c \in Change, Approve(c) \/ Withdraw(c) \/ GoAway(c) \/ NoticeMerge(c)
       PROVE  SetsTyped' /\ HeldTyped'
  <2>1. bs' = bs /\ merging' = merging /\ results' = results /\ held' = held
    BY <1>10 DEF Approve, Withdraw, GoAway, NoticeMerge, GerritEvent, scheduled
  <2> QED BY <1>0, <2>1 DEF SetsTyped, HeldTyped
<1>11. ASSUME NEW i \in Item, Promote(i) PROVE SetsTyped' /\ HeldTyped'
  <2>1. /\ merging' = merging /\ results' = results /\ held' = held
        /\ bs' = CancelJobs(bs, Queued(q), TRUE)
    BY <1>11 DEF Promote, Managing
  <2> QED BY <1>0, <2>1, CancelKeepsTypes DEF SetsTyped, HeldTyped
<1>12. ASSUME NEW new \in Layouts, Reconfigure(new) PROVE SetsTyped' /\ HeldTyped'
  <2>1. /\ merging' = merging /\ results' = results /\ held' = held
        /\ bs' = [i \in Item |-> IF i \in Queued(q) THEN Redone(i, new.jobs[item[i]]) ELSE bs[i]]
    BY <1>12 DEF Reconfigure, Managing
  <2>2. bs' \in [Item -> BuildSets]
    BY <2>1, RedoneIsTyped DEF SetsTyped
  <2> QED BY <1>0, <2>1, <2>2 DEF HeldTyped
<1> QED BY <1>1, <1>2, <1>3, <1>4, <1>5, <1>6, <1>7, <1>8, <1>9, <1>10, <1>11, <1>12
        DEF Next, SchedulerStep

(* Every variable keeps its type.                                          *)
TypeInv == GateInv /\ MutexInv /\ ServicesTyped /\ SetsTyped /\ HeldTyped

(* The types of the state Zuul starts in.                                  *)
LEMMA InitTypeInv == Init => TypeInv
<1> SUFFICES ASSUME Init PROVE ServicesTyped /\ SetsTyped /\ HeldTyped
  BY InitGateInv, InitMutexInv DEF TypeInv
<1>1. ServicesTyped
  <2>1. trunk \in Seq(Change)
    BY DEF Init
  <2>2. faults \in 0 .. MaxFaults /\ commands \in 0 .. MaxCommands /\ events \in 0 .. MaxEvents
    BY JobAssumption DEF Init
  <2>3. status \in [Change -> Statuses] /\ wake \in BOOLEAN /\ reported = {}
    BY DEF Init, Statuses
  <2>4. layout \in Layouts /\ window \in Nat
    BY LayoutAssumption, WindowAssumption DEF Init
  <2> QED BY <2>1, <2>2, <2>3, <2>4 DEF ServicesTyped
<1>2. SetsTyped
  <2>1. NewBuildSet(0) \in BuildSets
    <3>1. <<>> \in Seq(Change) /\ {} \in SUBSET Change /\ [j \in Job |-> "absent"] \in [Job -> Builds]
      BY DEF Builds
    <3> QED BY <3>1 DEF NewBuildSet, BuildSets
  <2>2. ToSet(results) = {} /\ merging = {}
    BY DEF Init, ToSet
  <2> QED BY <2>1, <2>2 DEF Init, SetsTyped
<1>3. HeldTyped
  BY DEF Init, HeldTyped
<1> QED BY <1>1, <1>2, <1>3

(* The invariant of all of it.                                             *)
THEOREM TypeInvariance == Spec => []TypeInv
<1>1. TypeInv /\ [Next]_vars => TypeInv'
  BY NextGateInv, NextMutexInv, NextServicesTyped, NextSetsTyped DEF TypeInv, GateInv
<1> QED BY <1>1, InitTypeInv, PTL DEF Spec

(* Every variable of the gate keeps its type.                              *)
THEOREM TypesAreKept == Spec => []TypeOK
<1>1. TypeInv => TypeOK
  <2> SUFFICES ASSUME TypeInv PROVE TypeOK
    OBVIOUS
  <2>1. /\ triggers \in Seq([type : {"approved", "gone"}, change : Change])
        /\ q \in Queues /\ item \in [Item -> Change \cup {Idle}]
        /\ pass \in [phase : {"sleep", "results", "triggers", "queue"}, todo : Seq(Item),
                     nnfi : Item \cup {NoItem}, changed : BOOLEAN]
    BY DEF TypeInv, GateInv, Triggers, QueueInv, ItemsMade, PassInv, Passes
  <2> QED BY <2>1 DEF TypeInv, ServicesTyped, SetsTyped, HeldTyped, TypeOK
<1> QED BY <1>1, TypeInvariance, PTL

-----------------------------------------------------------------------------
(* The job tree.                                                           *)

(* A job that runs, is to be retried or succeeded.                         *)
Live == {"running", "retrying", "SUCCESS"}

(* The jobs above a live one succeeded, and no job is launched before the  *)
(* merge was answered.                                                     *)
TreeSet(b) ==
  /\ \A j \in Job : b.builds[j] \in Live => \A k \in Above[j] : b.builds[k] = "SUCCESS"
  /\ b.merge # "COMPLETE" => \A j \in Job : b.builds[j] \notin Live

(* What was asked for a build set, which waits for the answer when it is   *)
(* the current one.                                                        *)
SameAsked(m, n) == m.item = n.item /\ m.gen = n.gen

(* m was asked for a build set of its item, the current one or an earlier. *)
AskedFor(sets, m) ==
  /\ m.item \in Item /\ m.gen \in Nat /\ m.gen <= sets[m.item].gen
  /\ m.gen = sets[m.item].gen => sets[m.item].merge = "PENDING"

(* No two answers to one merge.                                            *)
OneEach(answers) ==
  \A x, y \in DOMAIN answers :
    /\ answers[x].kind = "merge" /\ answers[y].kind = "merge"
    /\ SameAsked(answers[x], answers[y])
    => x = y

(* Every merge is asked for once and answered once, and the retry of a     *)
(* build is handled before the job can succeed again.                      *)
Outstanding(sets, asked, answers) ==
  /\ \A m \in asked : AskedFor(sets, m)
  /\ \A e \in ToSet(answers) : e.kind = "merge" => AskedFor(sets, e)
  /\ \A m, n \in asked : SameAsked(m, n) => m = n
  /\ \A m \in asked, e \in ToSet(answers) : e.kind = "merge" => ~SameAsked(m, e)
  /\ OneEach(answers)
  /\ \A e \in ToSet(answers) :
       e.kind = "build" /\ e.result = "retry" /\ e.gen = sets[e.item].gen =>
         sets[e.item].builds[e.job] # "SUCCESS"

(* The tree of every item.                                                 *)
TreesRooted(sets) == \A i \in Item : TreeSet(sets[i])

(* The invariant of the job trees.                                         *)
TreeInv == TreesRooted(bs) /\ Outstanding(bs, merging, results)

(* c comes after b: a newer build set, or one with the same merge in which *)
(* no other job succeeded; its tree is as well rooted.                     *)
Keeps(b, c) ==
  /\ \/ c.gen > b.gen
     \/ /\ c.gen = b.gen /\ c.merge = b.merge
        /\ \A j \in Job : c.builds[j] = "SUCCESS" => b.builds[j] = "SUCCESS"
  /\ TreeSet(b) => TreeSet(c)

(* So for every item.                                                      *)
AllKeep(old, new) == \A i \in Item : Keeps(old[i], new[i])

(* Nothing happens to the trees.                                           *)
LEMMA KeepsIsReflexive ==
  ASSUME NEW sets
  PROVE  AllKeep(sets, sets)
BY DEF AllKeep, Keeps

(* The steps of one handler compose.                                       *)
LEMMA KeepsIsTransitive ==
  ASSUME NEW a, NEW b, NEW c, AreBuildSets(a), AreBuildSets(b), AreBuildSets(c),
         AllKeep(a, b), AllKeep(b, c)
  PROVE  AllKeep(a, c)
<1> SUFFICES ASSUME NEW i \in Item PROVE Keeps(a[i], c[i])
  BY DEF AllKeep
<1>1. a[i].gen \in Nat /\ b[i].gen \in Nat /\ c[i].gen \in Nat
  BY DEF AreBuildSets, IsBuildSet
<1> QED BY <1>1 DEF AllKeep, Keeps

(* What writes another field leaves the tree as it is.                     *)
SameTree(b, c) == c.gen = b.gen /\ c.merge = b.merge /\ c.builds = b.builds

(* Such a write keeps it.                                                  *)
LEMMA SameTreeKeeps ==
  ASSUME NEW b, NEW c, SameTree(b, c)
  PROVE  Keeps(b, c)
BY DEF SameTree, Keeps, TreeSet

(* The fields that are written on the way to a launch.                     *)
LEMMA FieldsOfSets ==
  ASSUME NEW b, IsBuildSet(b), NEW x, NEW y
  PROVE  /\ SameTree(b, [b EXCEPT !.commit = x])
         /\ SameTree(b, [b EXCEPT !.unable = x])
         /\ SameTree(b, [b EXCEPT !.failing = x])
         /\ SameTree(b, [b EXCEPT !.ref = x, !.other = y])
         /\ [b EXCEPT !.builds = x].merge = b.merge
         /\ [b EXCEPT !.merge = x].merge = x
<1> DEFINE Set(merge, ref, other, commit, unable, failing, builds) ==
             [gen |-> b.gen, merge |-> merge, ref |-> ref, other |-> other,
              commit |-> commit, unable |-> unable, failing |-> failing,
              builds |-> builds]
<1>1. b = Set(b.merge, b.ref, b.other, b.commit, b.unable, b.failing, b.builds)
  BY DEF IsBuildSet
<1>2. SameTree(b, [b EXCEPT !.commit = x])
  <2>1. [b EXCEPT !.commit = x] = Set(b.merge, b.ref, b.other, x, b.unable, b.failing, b.builds)
    BY <1>1
  <2> QED BY <2>1 DEF SameTree
<1>3. SameTree(b, [b EXCEPT !.unable = x])
  <2>1. [b EXCEPT !.unable = x] = Set(b.merge, b.ref, b.other, b.commit, x, b.failing, b.builds)
    BY <1>1
  <2> QED BY <2>1 DEF SameTree
<1>4. SameTree(b, [b EXCEPT !.failing = x])
  <2>1. [b EXCEPT !.failing = x] = Set(b.merge, b.ref, b.other, b.commit, b.unable, x, b.builds)
    BY <1>1
  <2> QED BY <2>1 DEF SameTree
<1>5. SameTree(b, [b EXCEPT !.ref = x, !.other = y])
  <2>1. [b EXCEPT !.ref = x] = Set(b.merge, x, b.other, b.commit, b.unable, b.failing, b.builds)
    BY <1>1
  <2>2. [b EXCEPT !.ref = x, !.other = y] = [[b EXCEPT !.ref = x] EXCEPT !.other = y]
    OBVIOUS
  <2>3. [Set(b.merge, x, b.other, b.commit, b.unable, b.failing, b.builds) EXCEPT !.other = y] =
          Set(b.merge, x, y, b.commit, b.unable, b.failing, b.builds)
    OBVIOUS
  <2>4. SameTree(b, Set(b.merge, x, y, b.commit, b.unable, b.failing, b.builds))
    BY DEF SameTree
  <2> HIDE DEF Set
  <2> QED BY <2>1, <2>2, <2>3, <2>4
<1>6. [b EXCEPT !.builds = x].merge = b.merge /\ [b EXCEPT !.merge = x].merge = x
  BY <1>1
<1> QED BY <1>2, <1>3, <1>4, <1>5, <1>6

(* cancelJobs, and the verdict on an item.                                 *)
LEMMA CancelKeepsTrees ==
  ASSUME NEW sets, AreBuildSets(sets), NEW items, NEW prime
  PROVE  AllKeep(sets, CancelJobs(sets, items, prime))
<1> DEFINE new == CancelJobs(sets, items, prime)
           canceled(i) == [j \in Job |-> IF sets[i].builds[j] = "absent" THEN "absent" ELSE "CANCELED"]
<1>1. \A i \in Item : \/ new[i] = sets[i]
                      \/ new[i] = NewBuildSet(sets[i].gen + 1)
                      \/ new[i] = [sets[i] EXCEPT !.builds = canceled(i)]
  BY DEF CancelJobs
<1> HIDE DEF new
<1> SUFFICES ASSUME NEW i \in Item PROVE Keeps(sets[i], new[i])
  BY DEF AllKeep, new
<1>2. IsBuildSet(sets[i])
  BY DEF AreBuildSets
<1>3. CASE new[i] = sets[i]
  BY <1>3 DEF Keeps
<1>4. CASE new[i] = NewBuildSet(sets[i].gen + 1)
  <2>1. /\ new[i].gen = sets[i].gen + 1 /\ sets[i].gen \in Nat
        /\ \A j \in Job : new[i].builds[j] = "absent"
    BY <1>2, <1>4 DEF NewBuildSet, IsBuildSet
  <2> QED BY <2>1 DEF Keeps, TreeSet, Live
<1>5. CASE new[i] = [sets[i] EXCEPT !.builds = canceled(i)]
  <2>1. canceled(i) \in [Job -> Builds] /\ \A j \in Job : canceled(i)[j] \in {"absent", "CANCELED"}
    BY DEF Builds, Finished
  <2> HIDE DEF canceled
  <2>2. /\ new[i].gen = sets[i].gen /\ new[i].builds = canceled(i)
        /\ new[i].merge = sets[i].merge
    <3>1. [sets[i] EXCEPT !.builds = canceled(i)].merge = sets[i].merge
      BY <1>2, FieldsOfSets
    <3> QED BY <1>2, <1>5, <2>1, <3>1, WithBuilds
  <2> QED BY <2>1, <2>2 DEF Keeps, TreeSet, Live
<1> QED BY <1>1, <1>3, <1>4, <1>5

(* Marking an item failing.                                                *)
LEMMA FailingKeepsTrees ==
  ASSUME NEW sets, AreBuildSets(sets), NEW i \in Item, NEW f
  PROVE  AllKeep(sets, [sets EXCEPT ![i].failing = f])
<1>1. PICK c : c = [sets[i] EXCEPT !.failing = f]
  OBVIOUS
<1>2. Keeps(sets[i], c)
  BY <1>1, FieldsOfSets, SameTreeKeeps DEF AreBuildSets
<1>3. [sets EXCEPT ![i].failing = f] = [k \in Item |-> IF k = i THEN c ELSE sets[k]]
  BY <1>1 DEF AreBuildSets
<1> QED BY <1>2, <1>3 DEF AllKeep, Keeps

(* What processing an item resets.                                         *)
LEMMA ResetKeepsTrees ==
  ASSUME AreBuildSets(bs), NEW i \in Item
  PROVE  AllKeep(bs, ResetSets(i))
BY CancelKeepsTrees, KeepsIsReflexive DEF ResetSets

(* What follows the launch of jobs.                                        *)
LEMMA SettleKeepsTrees ==
  ASSUME NEW i \in Item, NEW queue, NEW sets, AreBuildSets(sets), Settle(i, queue, sets)
  PROVE  AllKeep(sets, bs')
<1>1. PICK canceled : canceled = CancelJobs(sets, Behind(queue, i), TRUE)
  OBVIOUS
<1>2. AreBuildSets(canceled) /\ AllKeep(sets, canceled)
  BY <1>1, CancelIsTamer, CancelKeepsTrees
<1>3. \/ \E f : bs' = [sets EXCEPT ![i].failing = f]
      \/ bs' = [canceled EXCEPT ![i].failing = TRUE]
      \/ bs' = sets
  BY <1>1 DEF Settle
<1>4. CASE bs' = [canceled EXCEPT ![i].failing = TRUE]
  <2>1. AreBuildSets(bs') /\ AllKeep(canceled, bs')
    BY <1>2, <1>4, FailingIsTamer, FailingKeepsTrees
  <2> QED BY <1>2, <2>1, KeepsIsTransitive
<1> QED BY <1>3, <1>4, FailingKeepsTrees, KeepsIsReflexive

(* What keeps the trees leaves what is outstanding as it is.               *)
LEMMA OutstandingStays ==
  ASSUME NEW old, NEW new, AreBuildSets(old), AreBuildSets(new), AllKeep(old, new),
         NEW asked, NEW answers, Outstanding(old, asked, answers),
         \A e \in ToSet(answers) : e.kind = "build" =>
           e.item \in Item /\ e.job \in Job /\ e.gen \in Nat /\ e.gen <= old[e.item].gen
  PROVE  Outstanding(new, asked, answers)
<1>1. \A i \in Item : old[i].gen \in Nat /\ new[i].gen \in Nat
  BY DEF AreBuildSets, IsBuildSet
<1>2. ASSUME NEW m, AskedFor(old, m) PROVE AskedFor(new, m)
  BY <1>1, <1>2 DEF AskedFor, AllKeep, Keeps
<1>3. ASSUME NEW e \in ToSet(answers), e.kind = "build", e.result = "retry",
             e.gen = new[e.item].gen
      PROVE  new[e.item].builds[e.job] # "SUCCESS"
  <2>1. /\ e.item \in Item /\ e.job \in Job /\ e.gen \in Nat /\ e.gen <= old[e.item].gen
        /\ Keeps(old[e.item], new[e.item])
    BY <1>3 DEF AllKeep
  <2>2. old[e.item].gen = e.gen
    BY <1>1, <1>3, <2>1 DEF Keeps
  <2>3. old[e.item].builds[e.job] # "SUCCESS"
    BY <1>3, <2>2 DEF Outstanding
  <2> QED BY <1>1, <1>3, <2>1, <2>2, <2>3 DEF Keeps
<1> QED BY <1>2, <1>3 DEF Outstanding

-----------------------------------------------------------------------------
(* Answers are handled in the order they come.                             *)

(* The first answer is taken: it is the only one to what was asked.        *)
LEMMA FirstAnswered ==
  ASSUME NEW s, s \in Seq(ToSet(s)), s # <<>>, OneEach(s)
  PROVE  /\ OneEach(Tail(s))
         /\ \A e \in ToSet(Tail(s)) : e.kind = "merge" /\ Head(s).kind = "merge" =>
                                        ~SameAsked(Head(s), e)
<1>1. PICK R : R = ToSet(s)
  OBVIOUS
<1>2. s \in Seq(R)
  BY <1>1
<1>3. PICK t : t = Tail(s)
  OBVIOUS
<1>4. /\ Len(s) \in Nat /\ DOMAIN s = 1 .. Len(s) /\ Len(s) > 0 /\ Head(s) = s[1]
      /\ DOMAIN t = 1 .. Len(s) - 1
      /\ \A n \in 1 .. Len(s) - 1 : t[n] = s[n + 1] /\ n + 1 \in 1 .. Len(s)
  BY <1>2, <1>3
<1>5. OneEach(t)
  <2> SUFFICES ASSUME NEW x \in 1 .. Len(s) - 1, NEW y \in 1 .. Len(s) - 1,
                      t[x].kind = "merge", t[y].kind = "merge", SameAsked(t[x], t[y])
               PROVE  x = y
    BY <1>4 DEF OneEach
  <2>1. x + 1 = y + 1
    BY <1>4 DEF OneEach
  <2> QED BY <1>4, <2>1
<1>6. ASSUME NEW e \in ToSet(t), e.kind = "merge", Head(s).kind = "merge"
      PROVE  ~SameAsked(Head(s), e)
  <2>1. PICK n \in 1 .. Len(s) - 1 : e = s[n + 1] /\ n + 1 \in 1 .. Len(s)
    BY <1>4 DEF ToSet
  <2>2. 1 \in 1 .. Len(s) /\ n + 1 # 1
    BY <1>4
  <2> QED BY <1>4, <1>6, <2>1, <2>2 DEF OneEach
<1> QED BY <1>3, <1>5, <1>6

(* One more answer to what no other answer is to.                          *)
LEMMA OneMoreAnswer ==
  ASSUME NEW s, s \in Seq(ToSet(s)), OneEach(s), NEW e,
         \A f \in ToSet(s) : f.kind = "merge" /\ e.kind = "merge" =>
                               ~SameAsked(f, e) /\ ~SameAsked(e, f)
  PROVE  OneEach(Append(s, e))
<1>1. PICK R : R = ToSet(s)
  OBVIOUS
<1>2. s \in Seq(R)
  BY <1>1
<1>3. PICK t : t = Append(s, e)
  OBVIOUS
<1>4. /\ Len(s) \in Nat /\ DOMAIN s = 1 .. Len(s)
      /\ \A n \in DOMAIN t : n \in 1 .. Len(s) \/ n = Len(s) + 1
      /\ \A n \in 1 .. Len(s) : t[n] = s[n]
      /\ t[Len(s) + 1] = e
  BY <1>2, <1>3
<1>5. \A n \in 1 .. Len(s) : t[n] \in ToSet(s)
  BY <1>4 DEF ToSet
<1>6. OneEach(t)
  <2> SUFFICES ASSUME NEW x \in DOMAIN t, NEW y \in DOMAIN t, t[x].kind = "merge",
                      t[y].kind = "merge", SameAsked(t[x], t[y])
               PROVE  x = y
    BY DEF OneEach
  <2>1. CASE x \in 1 .. Len(s) /\ y \in 1 .. Len(s)
    BY <1>4, <2>1 DEF OneEach
  <2>2. CASE ~(x \in 1 .. Len(s) /\ y \in 1 .. Len(s))
    BY <1>4, <1>5, <2>2
  <2> QED BY <2>1, <2>2
<1> QED BY <1>3, <1>6

(* A step that keeps the trees and takes nothing from or into the queues.  *)
LEMMA TreesStay ==
  ASSUME MutexInv, TreeInv, AreBuildSets(bs'), AllKeep(bs, bs'), merging' = merging,
         results' = results
  PROVE  TreeInv'
<1>1. TreesRooted(bs')
  BY DEF TreeInv, TreesRooted, AllKeep, Keeps
<1>2. Outstanding(bs', merging, results)
  BY OutstandingStays DEF MutexInv, Shape, ResultsAreOld, TreeInv
<1> QED BY <1>1, <1>2 DEF TreeInv

(* One build set is replaced.                                              *)
LEMMA ReplacedKeeps ==
  ASSUME NEW sets, AreBuildSets(sets), NEW i \in Item, NEW c, Keeps(sets[i], c)
  PROVE  AllKeep(sets, [sets EXCEPT ![i] = c])
<1>1. [sets EXCEPT ![i] = c] = [k \in Item |-> IF k = i THEN c ELSE sets[k]]
  BY DEF AreBuildSets
<1> QED BY <1>1 DEF AllKeep, Keeps

(* Skipping jobs of which none is live, and no live one is below them.     *)
LEMMA SkipKeepsTree ==
  ASSUME NEW b, IsBuildSet(b), NEW jobs,
         \A j \in Job \cap jobs : b.builds[j] # "SUCCESS"
  PROVE  Keeps(b, Skip(b, jobs))
<1>1. PICK skipped : skipped = [j \in Job |-> IF j \in jobs THEN "SKIPPED" ELSE b.builds[j]]
  OBVIOUS
<1>2. skipped \in [Job -> Builds]
  BY <1>1 DEF IsBuildSet, Builds, Finished
<1>3. Skip(b, jobs) = [b EXCEPT !.builds = skipped]
  BY <1>1 DEF Skip
<1>4. PICK c : c = Skip(b, jobs)
  OBVIOUS
<1>5. c.gen = b.gen /\ c.builds = skipped /\ c.merge = b.merge
  <2>1. [b EXCEPT !.builds = skipped].merge = b.merge
    BY FieldsOfSets
  <2> QED BY <1>2, <1>3, <1>4, <2>1, WithBuilds
<1>6. \A j \in Job : skipped[j] = IF j \in jobs THEN "SKIPPED" ELSE b.builds[j]
  BY <1>1
<1>7. TreeSet(b) => TreeSet(c)
  BY <1>5, <1>6, JobAssumption DEF TreeSet, Live
<1> QED BY <1>4, <1>5, <1>6, <1>7 DEF Keeps

(* onBuildCompleted: the jobs below one that did not succeed were not live.*)
LEMMA HandleBuildKeepsTrees ==
  ASSUME MutexInv, TreeInv, NEW e \in ToSet(results), HandleBuild(e)
  PROVE  AllKeep(bs, bs')
<1>1. /\ e.item \in Item /\ e.job \in Job
      /\ e.gen = bs[e.item].gen => bs[e.item].builds[e.job] # "running"
  BY DEF HandleBuild, MutexInv, ResultsAreOld
<1>2. PICK b : b = bs[e.item]
  OBVIOUS
<1>3. AreBuildSets(bs) /\ IsBuildSet(b) /\ TreeSet(b)
  BY <1>1, <1>2 DEF MutexInv, Shape, AreBuildSets, TreeInv, TreesRooted
<1>4. CASE ~Current(e) \/ (b.builds[e.job] = "absent" /\ e.result # "SUCCESS")
  BY <1>2, <1>4, KeepsIsReflexive DEF HandleBuild
<1>5. CASE Current(e) /\ ~(b.builds[e.job] = "absent" /\ e.result # "SUCCESS")
  <2> DEFINE below == {k \in Jobs(item[e.item]) : e.job \in Above[k]}
  <2>1. bs' = [bs EXCEPT ![e.item] =
                 IF e.result = "retry" THEN [b EXCEPT !.builds[e.job] = "absent"]
                 ELSE IF b.builds[e.job] \in {"SUCCESS", "absent"} THEN b
                 ELSE Skip(b, below)]
    BY <1>2, <1>5 DEF HandleBuild
  <2>2. CASE e.result = "retry"
    <3>1. b.builds[e.job] # "SUCCESS"
      BY <1>2, <1>5, <2>2 DEF HandleBuild, Current, TreeInv, Outstanding
    <3>2. PICK builds : builds = [b.builds EXCEPT ![e.job] = "absent"]
      OBVIOUS
    <3>3. builds \in [Job -> Builds]
      BY <1>1, <1>3, <3>2 DEF IsBuildSet, Builds
    <3>4. PICK c : c = [b EXCEPT !.builds = builds]
      OBVIOUS
    <3>5. c.gen = b.gen /\ c.builds = builds /\ c.merge = b.merge
      BY <1>3, <3>3, <3>4, WithBuilds, FieldsOfSets
    <3>6. \A j \in Job : builds[j] = IF j = e.job THEN "absent" ELSE b.builds[j]
      BY <1>3, <3>2 DEF IsBuildSet
    <3>7. Keeps(b, c)
      BY <1>1, <1>3, <3>1, <3>5, <3>6, JobAssumption DEF Keeps, TreeSet, Live
    <3>8. bs' = [bs EXCEPT ![e.item] = c]
      BY <2>1, <2>2, <3>2, <3>4
    <3> QED BY <1>1, <1>2, <1>3, <3>7, <3>8, ReplacedKeeps
  <2>3. CASE e.result # "retry" /\ b.builds[e.job] \in {"SUCCESS", "absent"}
    <3>1. bs' = [bs EXCEPT ![e.item] = b]
      BY <2>1, <2>3
    <3>2. Keeps(b, b)
      BY DEF Keeps
    <3> QED BY <1>1, <1>2, <1>3, <3>1, <3>2, ReplacedKeeps
  <2>4. CASE e.result # "retry" /\ b.builds[e.job] \notin {"SUCCESS", "absent"}
    <3>1. bs' = [bs EXCEPT ![e.item] = Skip(b, below)]
      BY <2>1, <2>4
    <3>2. \A j \in Job \cap below : b.builds[j] # "SUCCESS"
      BY <1>3, <2>4 DEF TreeSet, Live
    <3> HIDE DEF below
    <3>3. Keeps(b, Skip(b, below))
      BY <1>3, <3>2, SkipKeepsTree
    <3> QED BY <1>1, <1>2, <1>3, <3>1, <3>3, ReplacedKeeps
  <2> QED BY <2>2, <2>3, <2>4
<1> QED BY <1>4, <1>5

(* The answer to a merge: nothing was launched before it.                  *)
LEMMA HandleMergeKeepsTrees ==
  ASSUME MutexInv, TreeInv, NEW e \in ToSet(results), HandleMerge(e),
         NEW asked, NEW answers, Outstanding(bs, asked, answers),
         \A m \in asked : ~SameAsked(m, e),
         \A f \in ToSet(answers) : f.kind = "merge" => ~SameAsked(f, e),
         \A f \in ToSet(answers) : f.kind = "build" => f.item \in Item /\ f.job \in Job
  PROVE  TreesRooted(bs') /\ Outstanding(bs', asked, answers)
<1>1. e.kind = "merge" /\ e.item \in Item /\ AskedFor(bs, e)
  BY DEF HandleMerge, TreeInv, Outstanding, AskedFor
<1>2. PICK b : b = bs[e.item]
  OBVIOUS
<1>3. AreBuildSets(bs) /\ IsBuildSet(b) /\ TreeSet(b)
  BY <1>1, <1>2 DEF MutexInv, Shape, AreBuildSets, TreeInv, TreesRooted
<1>4. CASE bs' = bs
  BY <1>4 DEF TreeInv
<1>5. CASE Current(e) /\ bs' # bs
  <2>1. b.merge = "PENDING" /\ e.gen = b.gen /\ \A j \in Job : b.builds[j] \notin Live
    BY <1>1, <1>2, <1>3, <1>5 DEF Current, AskedFor, TreeSet
  <2>2. PICK done : done = [b EXCEPT !.merge = "COMPLETE"]
    OBVIOUS
  <2>3. IsBuildSet(done) /\ done.gen = b.gen /\ done.builds = b.builds
    BY <1>3, <2>2, FieldsKeepBuilds DEF SameBuilds
  <2>4. PICK unable : unable = [done EXCEPT !.unable = TRUE]
    OBVIOUS
  <2>5. IsBuildSet(unable) /\ unable.gen = b.gen /\ unable.builds = b.builds
    BY <2>3, <2>4, FieldsKeepBuilds DEF SameBuilds
  <2>6. done.merge = "COMPLETE"
    BY <1>3, <2>2, FieldsOfSets
  <2>7. unable.merge = "COMPLETE"
    BY <2>3, <2>4, <2>6, FieldsOfSets DEF SameTree
  <2>8. PICK c : /\ bs' = [bs EXCEPT ![e.item] = c]
                 /\ c \in {done, [done EXCEPT !.commit = e.content]} \/ \E jobs : c = Skip(unable, jobs)
    BY <1>2, <1>5, <2>2, <2>4 DEF HandleMerge
  <2>9. /\ c.gen = b.gen /\ c.merge = "COMPLETE" /\ \A j \in Job : c.builds[j] \notin Live
    <3>1. CASE c = done
      BY <2>1, <2>3, <2>6, <3>1
    <3>2. CASE c = [done EXCEPT !.commit = e.content]
      BY <2>1, <2>3, <2>6, <3>2, FieldsOfSets DEF SameTree
    <3>3. ASSUME NEW jobs, c = Skip(unable, jobs)
          PROVE  /\ c.gen = b.gen /\ c.merge = "COMPLETE" /\ \A j \in Job : c.builds[j] \notin Live
      <4>1. PICK skipped : skipped = [j \in Job |-> IF j \in jobs THEN "SKIPPED" ELSE unable.builds[j]]
        OBVIOUS
      <4>2. skipped \in [Job -> Builds] /\ \A j \in Job : skipped[j] \notin Live
        BY <2>1, <2>5, <4>1 DEF IsBuildSet, Builds, Finished, Live
      <4>3. c = [unable EXCEPT !.builds = skipped]
        BY <3>3, <4>1 DEF Skip
      <4>4. c.merge = "COMPLETE"
        BY <2>5, <2>7, <4>3, FieldsOfSets
      <4>5. c.gen = b.gen /\ c.builds = skipped
        BY <2>5, <4>2, <4>3, WithBuilds
      <4> QED BY <4>2, <4>4, <4>5
    <3> QED BY <2>8, <3>1, <3>2, <3>3
  <2>10. \A i \in Item : bs'[i] = IF i = e.item THEN c ELSE bs[i]
    BY <1>3, <2>8 DEF AreBuildSets
  <2>11. TreesRooted(bs')
    BY <2>9, <2>10 DEF TreeInv, TreesRooted, TreeSet
  <2>12. ASSUME NEW m, AskedFor(bs, m), ~SameAsked(m, e) PROVE AskedFor(bs', m)
    <3>1. CASE m.item = e.item
      BY <1>2, <2>1, <2>9, <2>10, <2>12, <3>1 DEF AskedFor, SameAsked
    <3>2. CASE m.item # e.item
      BY <2>10, <2>12, <3>2 DEF AskedFor
    <3> QED BY <3>1, <3>2
  <2>13. ASSUME NEW f \in ToSet(answers), f.kind = "build", f.result = "retry",
                f.gen = bs'[f.item].gen
         PROVE  bs'[f.item].builds[f.job] # "SUCCESS"
    <3>1. CASE f.item = e.item
      BY <2>9, <2>10, <2>13, <3>1 DEF Live
    <3>2. CASE f.item # e.item
      BY <2>10, <2>13, <3>2 DEF Outstanding
    <3> QED BY <3>1, <3>2
  <2>14. Outstanding(bs', asked, answers)
    BY <2>12, <2>13 DEF Outstanding
  <2> QED BY <2>11, <2>14
<1> QED BY <1>4, <1>5 DEF HandleMerge

(* The first answer is handled.                                            *)
LEMMA HandleResultKeepsTrees ==
  ASSUME MutexInv, MutexInv', TreeInv, HandleResult
  PROVE  TreeInv'
<1>1. PICK e : e = Head(results)
  OBVIOUS
<1>2. PICK t : t = Tail(results)
  OBVIOUS
<1>3. /\ results # <<>> /\ results' = t /\ merging' = merging
      /\ HandleBuild(e) \/ HandleMerge(e)
  BY <1>1, <1>2 DEF HandleResult
<1>4. /\ ToSet(t) \subseteq ToSet(results) /\ e \in ToSet(results)
      /\ results \in Seq(ToSet(results)) /\ OneEach(results)
  BY <1>1, <1>2, <1>3, TakenFromTheFront DEF MutexInv, ResultsAreOld, TreeInv, Outstanding
<1>5. /\ OneEach(t)
      /\ \A f \in ToSet(t) : f.kind = "merge" /\ e.kind = "merge" => ~SameAsked(e, f)
  BY <1>1, <1>2, <1>3, <1>4, FirstAnswered
<1>6. Outstanding(bs, merging, t)
  BY <1>4, <1>5 DEF TreeInv, Outstanding
<1>7. \A f \in ToSet(t) : f.kind = "build" =>
         f.item \in Item /\ f.job \in Job /\ f.gen \in Nat /\ f.gen <= bs[f.item].gen
  BY <1>4 DEF MutexInv, ResultsAreOld
<1>8. AreBuildSets(bs) /\ AreBuildSets(bs')
  BY DEF MutexInv, Shape
<1>9. CASE HandleBuild(e)
  <2>1. AllKeep(bs, bs')
    BY <1>4, <1>9, HandleBuildKeepsTrees
  <2>2. TreesRooted(bs')
    BY <2>1 DEF TreeInv, TreesRooted, AllKeep, Keeps
  <2>3. Outstanding(bs', merging, t)
    BY <1>6, <1>7, <1>8, <2>1, OutstandingStays
  <2> QED BY <1>3, <2>2, <2>3 DEF TreeInv
<1>10. CASE HandleMerge(e)
  <2>1. e.kind = "merge"
    BY <1>10 DEF HandleMerge
  <2>2. /\ \A m \in merging : ~SameAsked(m, e)
        /\ \A f \in ToSet(t) : f.kind = "merge" => ~SameAsked(f, e)
    BY <1>4, <1>5, <2>1 DEF TreeInv, Outstanding, SameAsked
  <2>3. TreesRooted(bs') /\ Outstanding(bs', merging, t)
    BY <1>4, <1>6, <1>7, <1>10, <2>2, HandleMergeKeepsTrees
  <2> QED BY <1>3, <2>3 DEF TreeInv
<1> QED BY <1>3, <1>9, <1>10

(* No canceled build is a success.                                         *)
LEMMA CanceledIsNoSuccess ==
  ASSUME NEW sets, AreBuildSets(sets), NEW items, NEW i \in Item \cap items
  PROVE  LET b == CancelJobs(sets, items, TRUE)[i]
         IN  IsBuildSet(b) /\ \A j \in Job : b.builds[j] # "SUCCESS"
<1> DEFINE canceled == [j \in Job |-> IF sets[i].builds[j] = "absent" THEN "absent" ELSE "CANCELED"]
<1>1. PICK b : b = CancelJobs(sets, items, TRUE)[i]
  OBVIOUS
<1>2. IsBuildSet(sets[i]) /\ IsBuildSet(b)
  BY <1>1, CancelIsTamer DEF AreBuildSets
<1>3. b = NewBuildSet(sets[i].gen + 1) \/ b = [sets[i] EXCEPT !.builds = canceled]
  BY <1>1 DEF CancelJobs
<1>4. canceled \in [Job -> Builds] /\ \A j \in Job : canceled[j] # "SUCCESS"
  BY DEF Builds, Finished
<1> HIDE DEF canceled
<1>5. CASE b = NewBuildSet(sets[i].gen + 1)
  <2>1. \A j \in Job : b.builds[j] = "absent"
    BY <1>5 DEF NewBuildSet
  <2> QED BY <1>1, <1>2, <2>1
<1>6. CASE b = [sets[i] EXCEPT !.builds = canceled]
  BY <1>1, <1>2, <1>4, <1>6, WithBuilds
<1> QED BY <1>3, <1>5, <1>6

(* The steps of the scheduler that start nothing.                          *)
LEMMA QuietStepsKeepTrees ==
  ASSUME QueueInv, MutexInv, MutexInv', TreeInv,
         \/ WakeUp \/ EndResults \/ StartPass \/ EndPass \/ HandleTrigger
         \/ \E i \in Item : DropItem(i) \/ WaitItem(i)
         \/ \E i \in Item : Promote(i)
         \/ \E c \in Change : Approve(c) \/ Withdraw(c) \/ GoAway(c) \/ NoticeMerge(c)
         \/ UNCHANGED vars
  PROVE  TreeInv'
<1>1. AreBuildSets(bs) /\ AreBuildSets(bs')
  BY DEF MutexInv, Shape
<1>2. merging' = merging /\ results' = results
  BY DEF WakeUp, EndResults, StartPass, EndPass, HandleTrigger, DropItem, WaitItem, Promote,
         Managing, Approve, Withdraw, GoAway, NoticeMerge, GerritEvent, vars
<1> SUFFICES AllKeep(bs, bs')
  BY <1>1, <1>2, TreesStay
<1>3. CASE bs' = bs \/ \E items : bs' = CancelJobs(bs, items, TRUE)
  BY <1>1, <1>3, KeepsIsReflexive, CancelKeepsTrees
<1>4. ASSUME NEW i \in Item, DropItem(i) PROVE AllKeep(bs, bs')
  <2>1. PICK canceled : canceled = CancelJobs(bs, WithBehind(q, i), TRUE)
    OBVIOUS
  <2>2. AreBuildSets(canceled) /\ AllKeep(bs, canceled)
    BY <1>1, <2>1, CancelIsTamer, CancelKeepsTrees
  <2>3. PICK b : b = canceled[i]
    OBVIOUS
  <2>4. bs' = [canceled EXCEPT ![i] = Skip(b, Jobs(item[i]))]
    BY <1>4, <2>1, <2>3 DEF DropItem
  <2>5. IsBuildSet(b) /\ \A j \in Job : b.builds[j] # "SUCCESS"
    <3>1. PICK items : items = WithBehind(q, i)
      OBVIOUS
    <3>2. i \in items
      BY <3>1, WithBehindUnfolds DEF QueueInv
    <3>3. b = CancelJobs(bs, items, TRUE)[i]
      BY <2>1, <2>3, <3>1
    <3> QED BY <1>1, <3>2, <3>3, CanceledIsNoSuccess
  <2>6. Keeps(b, Skip(b, Jobs(item[i])))
    BY <2>5, SkipKeepsTree
  <2>7. AllKeep(canceled, bs')
    BY <2>2, <2>3, <2>4, <2>6, ReplacedKeeps
  <2> QED BY <1>1, <2>2, <2>7, KeepsIsTransitive
<1>5. ASSUME NEW i \in Item, WaitItem(i) PROVE AllKeep(bs, bs')
  <2>1. PICK sets : sets = ResetSets(i)
    OBVIOUS
  <2>2. AreBuildSets(sets) /\ AllKeep(bs, sets)
    BY <1>1, <2>1, ResetIsTamer, ResetKeepsTrees
  <2>3. AllKeep(sets, bs')
    BY <1>5, <2>1, <2>2, SettleKeepsTrees DEF WaitItem
  <2> QED BY <1>1, <2>2, <2>3, KeepsIsTransitive
<1> QED BY <1>3, <1>4, <1>5
        DEF WakeUp, EndResults, StartPass, EndPass, HandleTrigger, RemoveItem, Promote,
            Approve, Withdraw, GoAway, NoticeMerge, GerritEvent, vars, scheduled

-----------------------------------------------------------------------------
(* The steps that ask and launch, and those of the other threads.          *)

(* One more merge is asked for, of a build set that asked for none.        *)
LEMMA AskedOnce ==
  ASSUME NEW sets, AreBuildSets(sets), TreesRooted(sets), NEW asked, NEW answers,
         Outstanding(sets, asked, answers),
         \A e \in ToSet(answers) : e.kind = "build" => e.item \in Item /\ e.job \in Job,
         NEW i \in Item, sets[i].merge = "NEW",
         NEW c, c.gen = sets[i].gen, c.builds = sets[i].builds, c.merge = "PENDING",
         NEW m, m.item = i, m.gen = sets[i].gen
  PROVE  LET new == [sets EXCEPT ![i] = c]
         IN  TreesRooted(new) /\ Outstanding(new, asked \cup {m}, answers)
<1>1. PICK new : new = [sets EXCEPT ![i] = c]
  OBVIOUS
<1>2. /\ \A k \in Item : new[k] = IF k = i THEN c ELSE sets[k]
      /\ sets[i].gen \in Nat
  BY <1>1 DEF AreBuildSets, IsBuildSet
<1>3. TreesRooted(new)
  BY <1>2 DEF TreesRooted, TreeSet
<1>4. ASSUME NEW n, AskedFor(sets, n)
      PROVE  AskedFor(new, n) /\ ~SameAsked(n, m) /\ ~SameAsked(m, n)
  BY <1>2, <1>4 DEF AskedFor, SameAsked
<1>5. AskedFor(new, m)
  BY <1>2 DEF AskedFor
<1>6. ASSUME NEW e \in ToSet(answers), e.kind = "build", e.result = "retry",
             e.gen = new[e.item].gen
      PROVE  new[e.item].builds[e.job] # "SUCCESS"
  <2>1. e.item \in Item /\ e.gen = sets[e.item].gen
    BY <1>2, <1>6
  <2>2. sets[e.item].builds[e.job] # "SUCCESS"
    BY <1>6, <2>1 DEF Outstanding
  <2> QED BY <1>2, <2>1, <2>2
<1>7. \A n \in asked \cup {m} : AskedFor(new, n)
  BY <1>4, <1>5 DEF Outstanding
<1>8. \A e \in ToSet(answers) : e.kind = "merge" => AskedFor(new, e)
  BY <1>4 DEF Outstanding
<1>9. \A n, l \in asked \cup {m} : SameAsked(n, l) => n = l
  BY <1>4 DEF Outstanding
<1>10. \A n \in asked \cup {m}, e \in ToSet(answers) : e.kind = "merge" => ~SameAsked(n, e)
  BY <1>4 DEF Outstanding
<1>11. Outstanding(new, asked \cup {m}, answers)
  BY <1>6, <1>7, <1>8, <1>9, <1>10 DEF Outstanding
<1> QED BY <1>1, <1>3, <1>11

(* prepareRef: a merge is asked for, or only the ref was named.            *)
LEMMA PrepareRefKeepsTrees ==
  ASSUME MutexInv, MutexInv', TreeInv, NEW i \in Item, PrepareRef(i)
  PROVE  TreeInv'
<1>1. AreBuildSets(bs) /\ AreBuildSets(bs')
  BY DEF MutexInv, Shape
<1>2. PICK sets : sets = ResetSets(i)
  OBVIOUS
<1>3. PICK queue : queue = MovedQueue(i)
  OBVIOUS
<1>4. PICK b : b = sets[i]
  OBVIOUS
<1>5. PICK ready : ready = Prepared(queue, i, b)
  OBVIOUS
<1>6. PICK pending : pending = [ready EXCEPT !.merge = "PENDING"]
  OBVIOUS
<1>7. AreBuildSets(sets) /\ AllKeep(bs, sets)
  BY <1>1, <1>2, ResetIsTamer, ResetKeepsTrees
<1>8. b.merge = "NEW" /\ results' = results
  BY <1>2, <1>4 DEF PrepareRef
<1>9. \A e \in ToSet(results) : e.kind = "build" =>
         e.item \in Item /\ e.job \in Job /\ e.gen \in Nat /\ e.gen <= bs[e.item].gen
  BY DEF MutexInv, ResultsAreOld
<1>10. Outstanding(sets, merging, results)
  BY <1>1, <1>7, <1>9, OutstandingStays DEF TreeInv
<1>11. TreesRooted(sets)
  BY <1>7 DEF TreeInv, TreesRooted, AllKeep, Keeps
<1>12. IsBuildSet(b)
  BY <1>4, <1>7 DEF AreBuildSets
<1>13. SameTree(b, ready) /\ IsBuildSet(ready)
  BY <1>5, <1>12, FieldsOfSets, FieldsKeepBuilds DEF Prepared, SameBuilds
<1>14. pending.gen = b.gen /\ pending.builds = b.builds /\ pending.merge = "PENDING"
       /\ IsBuildSet(pending)
  <2>1. SameBuilds(ready, pending)
    BY <1>6, <1>13, FieldsKeepBuilds
  <2>2. pending.merge = "PENDING"
    BY <1>6, <1>13, FieldsOfSets
  <2> QED BY <1>13, <2>1, <2>2 DEF SameTree, SameBuilds
<1>15. \/ \E m : /\ m.item = i /\ m.gen = b.gen /\ merging' = merging \cup {m}
                 /\ Settle(i, queue, [sets EXCEPT ![i] = pending])
       \/ bs' = [sets EXCEPT ![i] = ready] /\ merging' = merging
  BY <1>2, <1>3, <1>4, <1>5, <1>6 DEF PrepareRef
<1>16. ASSUME NEW m, m.item = i, m.gen = b.gen, merging' = merging \cup {m},
              Settle(i, queue, [sets EXCEPT ![i] = pending])
       PROVE  TreeInv'
  <2>1. PICK new : new = [sets EXCEPT ![i] = pending]
    OBVIOUS
  <2>2. TreesRooted(new) /\ Outstanding(new, merging \cup {m}, results)
    BY <1>4, <1>7, <1>8, <1>9, <1>10, <1>11, <1>14, <1>16, <2>1, AskedOnce
  <2>3. AreBuildSets(new) /\ \A k \in Item : new[k].gen = sets[k].gen
    BY <1>4, <1>7, <1>14, <2>1 DEF AreBuildSets
  <2>4. AllKeep(new, bs')
    BY <1>16, <2>1, <2>3, SettleKeepsTrees
  <2>5. \A e \in ToSet(results) : e.kind = "build" =>
           e.item \in Item /\ e.job \in Job /\ e.gen \in Nat /\ e.gen <= new[e.item].gen
    <3>1. \A k \in Item : bs[k].gen \in Nat /\ sets[k].gen \in Nat /\ bs[k].gen <= sets[k].gen
      BY <1>1, <1>7 DEF AllKeep, Keeps, AreBuildSets, IsBuildSet
    <3> QED BY <1>9, <2>3, <3>1
  <2>6. Outstanding(bs', merging', results')
    BY <1>1, <1>8, <1>16, <2>2, <2>3, <2>4, <2>5, OutstandingStays
  <2>7. TreesRooted(bs')
    BY <2>2, <2>4 DEF TreesRooted, AllKeep, Keeps
  <2> QED BY <2>6, <2>7 DEF TreeInv
<1>17. CASE bs' = [sets EXCEPT ![i] = ready] /\ merging' = merging
  <2>1. AllKeep(sets, bs')
    BY <1>4, <1>7, <1>13, <1>17, SameTreeKeeps, ReplacedKeeps
  <2>2. AllKeep(bs, bs')
    BY <1>1, <1>7, <2>1, KeepsIsTransitive
  <2> QED BY <1>1, <1>8, <1>17, <2>2, TreesStay
<1> QED BY <1>15, <1>16, <1>17

(* A job is launched once all jobs above it succeeded.                     *)
LEMMA LaunchKeepsTrees ==
  ASSUME NEW sets, AreBuildSets(sets), NEW queue, NEW i \in Item, sets[i].merge = "COMPLETE"
  PROVE  LET launch == LaunchJobs(queue, i, sets)
         IN  AreBuildSets(launch.sets) /\ AllKeep(sets, launch.sets)
<1>1. PICK b : b = sets[i]
  OBVIOUS
<1>2. PICK launched : /\ LaunchJobs(queue, i, sets).sets =
                           [sets EXCEPT ![i].builds =
                              [j \in Job |-> IF j \in launched THEN "running" ELSE @[j]]]
                      /\ launched \subseteq Runnable(queue, i, sets[i])
  BY DEF LaunchJobs
<1>3. PICK builds : builds = [j \in Job |-> IF j \in launched THEN "running" ELSE b.builds[j]]
  OBVIOUS
<1>4. PICK c : c = [b EXCEPT !.builds = builds]
  OBVIOUS
<1>5. LaunchJobs(queue, i, sets).sets = [sets EXCEPT ![i] = c]
  BY <1>1, <1>2, <1>3, <1>4
<1>6. IsBuildSet(b)
  BY <1>1 DEF AreBuildSets
<1>7. /\ builds \in [Job -> Builds]
      /\ \A j \in Job : builds[j] = IF j \in launched THEN "running" ELSE b.builds[j]
  BY <1>3, <1>6 DEF IsBuildSet, Builds
<1>8. IsBuildSet(c) /\ c.gen = b.gen /\ c.builds = builds /\ c.merge = b.merge
  BY <1>4, <1>6, <1>7, WithBuilds, FieldsOfSets
<1>9. \A j \in launched : b.builds[j] = "absent" /\ \A k \in Above[j] : b.builds[k] = "SUCCESS"
  BY <1>1, <1>2 DEF Runnable
<1>10. Keeps(b, c)
  <2>1. TreeSet(b) => TreeSet(c)
    <3> SUFFICES ASSUME TreeSet(b), NEW j \in Job, c.builds[j] \in Live, NEW k \in Above[j]
                 PROVE  c.builds[k] = "SUCCESS"
      BY <1>1, <1>8 DEF TreeSet
    <3>1. k \in Job /\ b.builds[k] = "SUCCESS"
      BY <1>7, <1>8, <1>9, JobAssumption DEF TreeSet
    <3> QED BY <1>7, <1>8, <1>9, <3>1
  <2>2. \A j \in Job : c.builds[j] = "SUCCESS" => b.builds[j] = "SUCCESS"
    BY <1>7, <1>8
  <2> QED BY <1>8, <2>1, <2>2 DEF Keeps
<1>11. AllKeep(sets, [sets EXCEPT ![i] = c])
  BY <1>1, <1>10, ReplacedKeeps
<1>12. AreBuildSets([sets EXCEPT ![i] = c])
  BY <1>8 DEF AreBuildSets
<1> QED BY <1>5, <1>11, <1>12

(* Launching, between a reset and a verdict.                               *)
LEMMA LaunchItemKeepsTrees ==
  ASSUME MutexInv, MutexInv', TreeInv, NEW i \in Item, LaunchItem(i)
  PROVE  TreeInv'
<1>1. AreBuildSets(bs) /\ AreBuildSets(bs')
  BY DEF MutexInv, Shape
<1>2. PICK sets : sets = ResetSets(i)
  OBVIOUS
<1>3. AreBuildSets(sets) /\ AllKeep(bs, sets) /\ sets[i].merge = "COMPLETE"
  BY <1>1, <1>2, ResetIsTamer, ResetKeepsTrees DEF LaunchItem
<1>4. PICK launched : launched = LaunchJobs(MovedQueue(i), i, sets).sets
  OBVIOUS
<1>5. AreBuildSets(launched) /\ AllKeep(sets, launched)
  BY <1>3, <1>4, LaunchKeepsTrees
<1>6. /\ Settle(i, MovedQueue(i), launched) /\ merging' = merging /\ results' = results
  BY <1>2, <1>4 DEF LaunchItem
<1>7. AllKeep(launched, bs')
  BY <1>5, <1>6, SettleKeepsTrees
<1>8. AllKeep(bs, launched)
  BY <1>1, <1>3, <1>5, KeepsIsTransitive
<1>9. AllKeep(bs, bs')
  BY <1>1, <1>5, <1>7, <1>8, KeepsIsTransitive
<1> QED BY <1>1, <1>6, <1>9, TreesStay

(* A build that ran is done: no job below it is live, and no retry of it   *)
(* is queued but the one that comes now.                                   *)
LEMMA BuildCompletedKeepsTrees ==
  ASSUME MutexInv, MutexInv', TreeInv, NEW i \in Item, NEW j \in Job,
         NEW r \in {"SUCCESS", "FAILURE", "retry"}, BuildCompleted(i, j, r)
  PROVE  TreeInv'
<1>1. AreBuildSets(bs) /\ AreBuildSets(bs')
  BY DEF MutexInv, Shape
<1>2. PICK b : b = bs[i]
  OBVIOUS
<1>3. PICK v : v = IF r = "retry" THEN "retrying" ELSE r
  OBVIOUS
<1>4. PICK e : e = [kind |-> "build", item |-> i, gen |-> bs[i].gen, job |-> j, result |-> r]
  OBVIOUS
<1>5. PICK builds : builds = [b.builds EXCEPT ![j] = v]
  OBVIOUS
<1>6. PICK c : c = [b EXCEPT !.builds = builds]
  OBVIOUS
<1>7. /\ b.builds[j] = "running" /\ merging' = merging
      /\ results' = Append(results, e) /\ bs' = [bs EXCEPT ![i] = c]
  BY <1>2, <1>3, <1>4, <1>5, <1>6 DEF BuildCompleted, AddResult
<1>8. IsBuildSet(b) /\ TreeSet(b)
  BY <1>1, <1>2 DEF AreBuildSets, TreeInv, TreesRooted
<1>9. /\ builds \in [Job -> Builds]
      /\ \A k \in Job : builds[k] = IF k = j THEN v ELSE b.builds[k]
      /\ v \in {"SUCCESS", "FAILURE", "retrying"} /\ (r = "retry" => v # "SUCCESS")
  BY <1>3, <1>5, <1>8 DEF IsBuildSet, Builds, Finished
<1>10. c.gen = b.gen /\ c.builds = builds /\ c.merge = b.merge
  BY <1>6, <1>8, <1>9, WithBuilds, FieldsOfSets
<1>11. TreeSet(c)
  BY <1>7, <1>8, <1>9, <1>10, JobAssumption DEF TreeSet, Live
<1>12. \A k \in Item : bs'[k] = IF k = i THEN c ELSE bs[k]
  BY <1>1, <1>7 DEF AreBuildSets
<1>13. TreesRooted(bs')
  BY <1>11, <1>12 DEF TreeInv, TreesRooted
<1>14. \A m : AskedFor(bs, m) => AskedFor(bs', m)
  BY <1>2, <1>10, <1>12 DEF AskedFor
<1>15. /\ e.kind = "build" /\ e.item = i /\ e.gen = b.gen /\ e.job = j /\ e.result = r
       /\ results \in Seq(ToSet(results))
  BY <1>2, <1>4 DEF MutexInv, ResultsAreOld
<1>16. ToSet(results') \subseteq ToSet(results) \cup {e}
  BY <1>7, <1>15, AddedAtTheEnd
<1>17. OneEach(results')
  BY <1>7, <1>15, OneMoreAnswer DEF TreeInv, Outstanding
<1>18. ASSUME NEW f \in ToSet(results'), f.kind = "build", f.result = "retry",
              f.gen = bs'[f.item].gen
       PROVE  bs'[f.item].builds[f.job] # "SUCCESS"
  <2>1. CASE f = e
    BY <1>9, <1>10, <1>12, <1>15, <1>18, <2>1
  <2>2. CASE f # e
    <3>1. f \in ToSet(results) /\ f.item \in Item /\ f.job \in Job
      BY <1>16, <1>18, <2>2 DEF MutexInv, ResultsAreOld
    <3>2. f.gen = bs[f.item].gen
      BY <1>2, <1>10, <1>12, <1>18, <3>1
    <3>3. bs[f.item].builds[f.job] # "SUCCESS" /\ bs[f.item].builds[f.job] # "running"
      BY <1>18, <3>1, <3>2 DEF TreeInv, Outstanding, MutexInv, ResultsAreOld
    <3> QED BY <1>2, <1>7, <1>9, <1>10, <1>12, <3>1, <3>3
  <2> QED BY <2>1, <2>2
<1>19. /\ \A m \in merging' : AskedFor(bs', m)
       /\ \A m, n \in merging' : SameAsked(m, n) => m = n
  BY <1>7, <1>14 DEF TreeInv, Outstanding
<1>20. /\ \A f \in ToSet(results') : f.kind = "merge" => AskedFor(bs', f)
       /\ \A m \in merging', f \in ToSet(results') : f.kind = "merge" => ~SameAsked(m, f)
  BY <1>7, <1>14, <1>15, <1>16 DEF TreeInv, Outstanding
<1>21. Outstanding(bs', merging', results')
  BY <1>17, <1>18, <1>19, <1>20 DEF Outstanding
<1> QED BY <1>13, <1>21 DEF TreeInv

(* A merge is no longer asked for once its answer is queued.               *)
LEMMA MergeCompletedKeepsTrees ==
  ASSUME MutexInv, TreeInv, NEW m \in merging, NEW r, MergeCompleted(m, r)
  PROVE  TreeInv'
<1>1. PICK e : /\ e.kind = "merge" /\ e.item = m.item /\ e.gen = m.gen
               /\ results' = Append(results, e)
  BY DEF MergeCompleted, AddResult
<1>2. bs' = bs /\ merging' = merging \ {m}
  BY DEF MergeCompleted, scheduled
<1>3. results \in Seq(ToSet(results))
  BY DEF MutexInv, ResultsAreOld
<1>4. ToSet(results') \subseteq ToSet(results) \cup {e}
  BY <1>1, <1>3, AddedAtTheEnd
<1>5. \A f \in ToSet(results) : f.kind = "merge" => ~SameAsked(f, e) /\ ~SameAsked(e, f)
  BY <1>1 DEF TreeInv, Outstanding, SameAsked
<1>6. OneEach(results')
  BY <1>1, <1>3, <1>5, OneMoreAnswer DEF TreeInv, Outstanding
<1>7. AskedFor(bs, e)
  BY <1>1 DEF TreeInv, Outstanding, AskedFor
<1>8. \A n \in merging' : ~SameAsked(n, e)
  BY <1>1, <1>2 DEF TreeInv, Outstanding, SameAsked
<1>9. \A f \in ToSet(results') : f.kind = "merge" => AskedFor(bs, f)
  BY <1>4, <1>7 DEF TreeInv, Outstanding
<1>10. \A n \in merging', f \in ToSet(results') : f.kind = "merge" => ~SameAsked(n, f)
  BY <1>2, <1>4, <1>8 DEF TreeInv, Outstanding
<1>11. \A f \in ToSet(results') : f.kind = "build" => f \in ToSet(results)
  BY <1>1, <1>4
<1>12. Outstanding(bs, merging', results')
  BY <1>2, <1>6, <1>9, <1>10, <1>11 DEF TreeInv, Outstanding
<1> QED BY <1>2, <1>12 DEF TreeInv

(* removeBuild forgets builds.                                             *)
LEMMA OnlyBuildsOfForgets ==
  ASSUME NEW b, IsBuildSet(b), NEW jobs
  PROVE  LET c == OnlyBuildsOf(b, jobs)
         IN  /\ IsBuildSet(c) /\ c.gen = b.gen /\ c.merge = b.merge
             /\ \A j \in Job : c.builds[j] = IF j \in jobs THEN b.builds[j] ELSE "absent"
<1>1. PICK builds : builds = [j \in Job |-> IF j \in jobs THEN b.builds[j] ELSE "absent"]
  OBVIOUS
<1>2. PICK c : c = [b EXCEPT !.builds = builds]
  OBVIOUS
<1>3. OnlyBuildsOf(b, jobs) = c
  BY <1>1, <1>2 DEF OnlyBuildsOf
<1>4. /\ builds \in [Job -> Builds]
      /\ \A j \in Job : builds[j] = IF j \in jobs THEN b.builds[j] ELSE "absent"
  BY <1>1 DEF IsBuildSet, Builds
<1>5. IsBuildSet(c) /\ c.gen = b.gen /\ c.builds = builds /\ c.merge = b.merge
  BY <1>2, <1>4, WithBuilds, FieldsOfSets
<1> QED BY <1>3, <1>4, <1>5

(* What skipping writes.                                                   *)
LEMMA SkipWrites ==
  ASSUME NEW b, IsBuildSet(b), NEW jobs
  PROVE  LET c == Skip(b, jobs)
         IN  /\ c.gen = b.gen /\ c.merge = b.merge
             /\ \A j \in Job : c.builds[j] = IF j \in jobs THEN "SKIPPED" ELSE b.builds[j]
<1>1. PICK builds : builds = [j \in Job |-> IF j \in jobs THEN "SKIPPED" ELSE b.builds[j]]
  OBVIOUS
<1>2. PICK c : c = [b EXCEPT !.builds = builds]
  OBVIOUS
<1>3. Skip(b, jobs) = c
  BY <1>1, <1>2 DEF Skip
<1>4. /\ builds \in [Job -> Builds]
      /\ \A j \in Job : builds[j] = IF j \in jobs THEN "SKIPPED" ELSE b.builds[j]
  BY <1>1 DEF IsBuildSet, Builds, Finished
<1>5. c.gen = b.gen /\ c.builds = builds /\ c.merge = b.merge
  BY <1>2, <1>4, WithBuilds, FieldsOfSets
<1> QED BY <1>3, <1>4, <1>5

(* The jobs of a layout, which gives no change a job without the jobs      *)
(* above it.                                                               *)
TreesClosed ==
  \A l \in Layouts, c \in Change : \A j \in l.jobs[c] : Above[j] \subseteq l.jobs[c]

(* reEnqueueItem: what stays of the tree is rooted in what stays.          *)
LEMMA RedoneKeepsTree ==
  ASSUME AreBuildSets(bs), NEW i \in Item, NEW jobs, jobs \subseteq Job,
         \A j \in jobs : Above[j] \subseteq jobs
  PROVE  Keeps(bs[i], Redone(i, jobs))
<1>1. PICK b : b = bs[i]
  OBVIOUS
<1>2. PICK kept : kept = OnlyBuildsOf(b, jobs)
  OBVIOUS
<1>3. PICK failed : failed = {j \in jobs : kept.builds[j] \in Finished \ {"SUCCESS"}}
  OBVIOUS
<1>4. PICK again : again = {j \in failed : Retried(i, j)}
  OBVIOUS
<1>5. PICK below : below = {k \in jobs : Above[k] \cap failed # {}}
  OBVIOUS
<1>6. PICK some : some = OnlyBuildsOf(kept, jobs \ again)
  OBVIOUS
<1>7. PICK c : c = Redone(i, jobs)
  OBVIOUS
<1>8. c = Skip(kept, jobs) \/ c = Skip(some, below)
  BY <1>1, <1>2, <1>3, <1>4, <1>5, <1>6, <1>7 DEF Redone
<1>9. IsBuildSet(b)
  BY <1>1 DEF AreBuildSets
<1>10. /\ IsBuildSet(kept) /\ kept.gen = b.gen /\ kept.merge = b.merge
       /\ \A j \in Job : kept.builds[j] = IF j \in jobs THEN b.builds[j] ELSE "absent"
  BY <1>2, <1>9, OnlyBuildsOfForgets
<1>11. /\ IsBuildSet(some) /\ some.gen = b.gen /\ some.merge = b.merge
       /\ \A j \in Job : some.builds[j] = IF j \in jobs \ again THEN kept.builds[j] ELSE "absent"
  BY <1>6, <1>10, OnlyBuildsOfForgets
<1>12. CASE c = Skip(kept, jobs)
  <2>1. /\ c.gen = b.gen /\ c.merge = b.merge
        /\ \A j \in Job : c.builds[j] = IF j \in jobs THEN "SKIPPED" ELSE kept.builds[j]
    BY <1>10, <1>12, SkipWrites
  <2>2. \A j \in Job : c.builds[j] \notin Live
    BY <1>10, <2>1 DEF Live
  <2> QED BY <1>1, <1>7, <2>1, <2>2 DEF Keeps, TreeSet, Live
<1>13. CASE c = Skip(some, below)
  <2>1. /\ c.gen = b.gen /\ c.merge = b.merge
        /\ \A j \in Job : c.builds[j] = IF j \in below THEN "SKIPPED" ELSE some.builds[j]
    BY <1>11, <1>13, SkipWrites
  <2>2. \A j \in Job : c.builds[j] \in Live => j \in jobs /\ b.builds[j] = c.builds[j]
    BY <1>10, <1>11, <2>1 DEF Live
  <2>3. ASSUME TreeSet(b), NEW k \in jobs, b.builds[k] = "SUCCESS"
        PROVE  c.builds[k] = "SUCCESS"
    <3>1. k \in Job /\ kept.builds[k] = "SUCCESS" /\ k \notin again
      BY <1>3, <1>4, <1>10, <2>3 DEF Finished
    <3>2. ASSUME NEW l \in Above[k] PROVE l \notin failed
      <4>1. l \in jobs /\ b.builds[l] = "SUCCESS"
        BY <2>3, <3>1 DEF TreeSet, Live
      <4> QED BY <1>3, <1>10, <4>1
    <3>3. k \notin below
      BY <1>5, <3>2
    <3> QED BY <1>11, <2>1, <2>3, <3>1, <3>3
  <2>4. ASSUME TreeSet(b) PROVE TreeSet(c)
    <3>1. ASSUME NEW j \in Job, c.builds[j] \in Live, NEW k \in Above[j]
          PROVE  c.builds[k] = "SUCCESS"
      <4>1. j \in jobs /\ b.builds[j] \in Live
        BY <2>2, <3>1
      <4>2. k \in jobs /\ b.builds[k] = "SUCCESS"
        BY <2>4, <4>1 DEF TreeSet
      <4> QED BY <2>3, <2>4, <4>2
    <3>2. c.merge # "COMPLETE" => \A j \in Job : c.builds[j] \notin Live
      BY <2>1, <2>2, <2>4 DEF TreeSet
    <3> QED BY <3>1, <3>2 DEF TreeSet
  <2> QED BY <1>1, <1>7, <2>1, <2>2, <2>4 DEF Keeps, Live
<1> QED BY <1>8, <1>12, <1>13

(* _doReconfigureEvent, for all items of the queue.                        *)
LEMMA ReconfigureKeepsTrees ==
  ASSUME TreesClosed, QueueInv, MutexInv, MutexInv', TreeInv, NEW new \in Layouts, Reconfigure(new)
  PROVE  TreeInv'
<1>1. AreBuildSets(bs) /\ AreBuildSets(bs')
  BY DEF MutexInv, Shape
<1>2. merging' = merging /\ results' = results
  BY DEF Reconfigure, Managing
<1>3. ASSUME NEW i \in Item PROVE Keeps(bs[i], bs'[i])
  <2>1. CASE i \notin Queued(q)
    BY <2>1 DEF Reconfigure, Keeps
  <2>2. CASE i \in Queued(q)
    <3>1. item[i] \in Change
      BY <2>2 DEF QueueInv, ItemsMade
    <3>2. new.jobs \in [Change -> SUBSET Job]
      BY LayoutAssumption
    <3>3. PICK jobs : jobs = new.jobs[item[i]]
      OBVIOUS
    <3>4. jobs \subseteq Job /\ \A j \in jobs : Above[j] \subseteq jobs
      BY <3>1, <3>2, <3>3 DEF TreesClosed
    <3>5. bs'[i] = Redone(i, jobs)
      BY <2>2, <3>3 DEF Reconfigure
    <3> QED BY <1>1, <3>4, <3>5, RedoneKeepsTree
  <2> QED BY <2>1, <2>2
<1>4. AllKeep(bs, bs')
  BY <1>3 DEF AllKeep
<1> QED BY <1>1, <1>2, <1>4, TreesStay

-----------------------------------------------------------------------------
(* The invariant, and the theorem.                                         *)

(* At the start no job is live and nothing is asked for.                   *)
LEMMA InitTreeInv == Init => TreeInv
<1> SUFFICES ASSUME Init PROVE TreeInv
  OBVIOUS
<1>1. /\ bs = [i \in Item |-> NewBuildSet(0)] /\ merging = {} /\ results = <<>>
  BY DEF Init
<1>2. \A j \in Job : NewBuildSet(0).builds[j] = "absent"
  BY DEF NewBuildSet
<1>3. TreesRooted(bs)
  BY <1>1, <1>2 DEF TreesRooted, TreeSet, Live
<1>4. ToSet(results) = {} /\ OneEach(results)
  BY <1>1 DEF ToSet, OneEach
<1>5. Outstanding(bs, merging, results)
  BY <1>1, <1>4 DEF Outstanding
<1> QED BY <1>3, <1>5 DEF TreeInv

(* Every step keeps the trees rooted, unless a reconfiguration leaves a    *)
(* job without those above it.                                             *)
LEMMA NextTreeInv ==
  ASSUME QueueInv, MutexInv, MutexInv', TreeInv, [Next]_vars,
         TreesClosed \/ \A new \in Layouts : ~Reconfigure(new)
  PROVE  TreeInv'
<1>1. CASE \/ WakeUp \/ EndResults \/ StartPass \/ EndPass \/ HandleTrigger
           \/ \E i \in Item : DropItem(i) \/ WaitItem(i)
           \/ \E i \in Item : Promote(i)
           \/ \E c \in Change : Approve(c) \/ Withdraw(c) \/ GoAway(c) \/ NoticeMerge(c)
           \/ UNCHANGED vars
  BY <1>1, QuietStepsKeepTrees
<1>2. CASE HandleResult
  BY <1>2, HandleResultKeepsTrees
<1>3. ASSUME NEW i \in Item, PrepareRef(i) PROVE TreeInv'
  BY <1>3, PrepareRefKeepsTrees
<1>4. ASSUME NEW i \in Item, LaunchItem(i) PROVE TreeInv'
  BY <1>4, LaunchItemKeepsTrees
<1>5. ASSUME NEW i \in Item, NEW j \in Job, NEW r \in {"SUCCESS", "FAILURE", "retry"},
             BuildCompleted(i, j, r)
      PROVE  TreeInv'
  BY <1>5, BuildCompletedKeepsTrees
<1>6. ASSUME NEW m \in merging, NEW r \in {"merged", "conflict", "updated"}, MergeCompleted(m, r)
      PROVE  TreeInv'
  BY <1>6, MergeCompletedKeepsTrees
<1>7. ASSUME NEW new \in Layouts, Reconfigure(new) PROVE TreeInv'
  BY <1>7, ReconfigureKeepsTrees
<1> QED BY <1>1, <1>2, <1>3, <1>4, <1>5, <1>6, <1>7 DEF Next, SchedulerStep

(* A job runs only below jobs that succeeded, whatever is retried, skipped *)
(* or canceled above it, in every configuration whose layouts give no      *)
(* change a job without the jobs above it: a reconfiguration drops the     *)
(* builds of the jobs that are gone.                                       *)
THEOREM TreesAreRespected == ASSUME TreesClosed PROVE Spec => []TreeRespected
<1>1. Init => TreeInv
  BY InitTreeInv
<1>2. GateInv /\ MutexInv /\ MutexInv' /\ TreeInv /\ [Next]_vars => TreeInv'
  BY NextTreeInv DEF GateInv
<1>3. TreeInv => TreeRespected
  BY DEF TreeInv, TreesRooted, TreeSet, TreeRespected, Live
<1> QED BY <1>1, <1>2, <1>3, GateInvariance, MutexInvariance, PTL DEF Spec

-----------------------------------------------------------------------------
(* What is written to a build set.                                         *)

(* The request to the mergers and its answer are those of b.               *)
SameRequest(b, c) ==
  /\ c.gen = b.gen /\ c.merge = b.merge /\ c.ref = b.ref /\ c.other = b.other
  /\ c.commit = b.commit /\ c.unable = b.unable

(* A record of build set fields.                                           *)
LEMMA SetOfFields ==
  ASSUME NEW b \in BuildSets
  PROVE  b = [gen |-> b.gen, merge |-> b.merge, ref |-> b.ref, other |-> b.other,
              commit |-> b.commit, unable |-> b.unable, failing |-> b.failing,
              builds |-> b.builds]
BY DEF BuildSets

(* A write to one field, or to the two that prepareRef sets, leaves the    *)
(* others.                                                                 *)
LEMMA BuildsWritten ==
  ASSUME NEW b \in BuildSets, NEW v
  PROVE  LET c == [b EXCEPT !.builds = v]
         IN  SameRequest(b, c) /\ c.failing = b.failing /\ c.builds = v
<1>1. [b EXCEPT !.builds = v] =
        [gen |-> b.gen, merge |-> b.merge, ref |-> b.ref, other |-> b.other,
         commit |-> b.commit, unable |-> b.unable, failing |-> b.failing, builds |-> v]
  BY SetOfFields
<1> QED BY <1>1 DEF SameRequest

LEMMA VerdictWritten ==
  ASSUME NEW b \in BuildSets, NEW v
  PROVE  LET c == [b EXCEPT !.failing = v]
         IN  SameRequest(b, c) /\ c.builds = b.builds /\ c.failing = v
<1>1. [b EXCEPT !.failing = v] =
        [gen |-> b.gen, merge |-> b.merge, ref |-> b.ref, other |-> b.other,
         commit |-> b.commit, unable |-> b.unable, failing |-> v, builds |-> b.builds]
  BY SetOfFields
<1> QED BY <1>1 DEF SameRequest

(* All but the state of the merge is that of b.                            *)
SameButMerge(b, c) ==
  /\ c.gen = b.gen /\ c.ref = b.ref /\ c.other = b.other
  /\ c.failing = b.failing /\ c.builds = b.builds

LEMMA MergeWritten ==
  ASSUME NEW b \in BuildSets, NEW v
  PROVE  LET c == [b EXCEPT !.merge = v]
         IN  SameButMerge(b, c) /\ c.merge = v /\ c.commit = b.commit /\ c.unable = b.unable
<1>1. [b EXCEPT !.merge = v] =
        [gen |-> b.gen, merge |-> v, ref |-> b.ref, other |-> b.other,
         commit |-> b.commit, unable |-> b.unable, failing |-> b.failing, builds |-> b.builds]
  BY SetOfFields
<1> QED BY <1>1 DEF SameButMerge

LEMMA CommitWritten ==
  ASSUME NEW b \in BuildSets, NEW v
  PROVE  LET c == [b EXCEPT !.commit = v]
         IN  SameButMerge(b, c) /\ c.merge = b.merge /\ c.commit = v /\ c.unable = b.unable
<1>1. [b EXCEPT !.commit = v] =
        [gen |-> b.gen, merge |-> b.merge, ref |-> b.ref, other |-> b.other,
         commit |-> v, unable |-> b.unable, failing |-> b.failing, builds |-> b.builds]
  BY SetOfFields
<1> QED BY <1>1 DEF SameButMerge

LEMMA UnableWritten ==
  ASSUME NEW b \in BuildSets, NEW v
  PROVE  LET c == [b EXCEPT !.unable = v]
         IN  SameButMerge(b, c) /\ c.merge = b.merge /\ c.commit = b.commit /\ c.unable = v
<1>1. [b EXCEPT !.unable = v] =
        [gen |-> b.gen, merge |-> b.merge, ref |-> b.ref, other |-> b.other,
         commit |-> b.commit, unable |-> v, failing |-> b.failing, builds |-> b.builds]
  BY SetOfFields
<1> QED BY <1>1 DEF SameButMerge

LEMMA RefWritten ==
  ASSUME NEW b \in BuildSets, NEW ref, NEW other
  PROVE  LET c == [b EXCEPT !.ref = ref, !.other = other]
         IN  /\ c.gen = b.gen /\ c.merge = b.merge /\ c.ref = ref /\ c.other = other
             /\ c.commit = b.commit /\ c.unable = b.unable
             /\ c.failing = b.failing /\ c.builds = b.builds
<1> DEFINE Set(r, o) ==
             [gen |-> b.gen, merge |-> b.merge, ref |-> r, other |-> o,
              commit |-> b.commit, unable |-> b.unable, failing |-> b.failing,
              builds |-> b.builds]
<1>1. [b EXCEPT !.ref = ref] = Set(ref, b.other)
  BY SetOfFields
<1>2. [b EXCEPT !.ref = ref, !.other = other] = [[b EXCEPT !.ref = ref] EXCEPT !.other = other]
  OBVIOUS
<1>3. [Set(ref, b.other) EXCEPT !.other = other] = Set(ref, other)
  OBVIOUS
<1>4. PICK c : c = Set(ref, other)
  OBVIOUS
<1>5. [b EXCEPT !.ref = ref, !.other = other] = c
  <2> HIDE DEF Set
  <2> QED BY <1>1, <1>2, <1>3, <1>4
<1> QED BY <1>4, <1>5

(* The build set a canceled item begins anew with.                         *)
LEMMA NewSetWritten ==
  ASSUME NEW n
  PROVE  LET c == NewBuildSet(n)
         IN  /\ c.gen = n /\ c.merge = "NEW" /\ c.ref = FALSE /\ c.other = <<>> /\ c.commit = {}
             /\ c.unable = FALSE /\ c.failing = FALSE
             /\ \A j \in Job : c.builds[j] = "absent"
BY DEF NewBuildSet

(* c is b with the builds it has canceled.                                 *)
Cancels(b, c) ==
  /\ SameRequest(b, c) /\ c.failing = b.failing
  /\ \A j \in Job : c.builds[j] = IF b.builds[j] = "absent" THEN "absent" ELSE "CANCELED"

(* What cancelJobs writes.                                                 *)
LEMMA CancelWritten ==
  ASSUME NEW sets \in [Item -> BuildSets], NEW items, NEW prime \in BOOLEAN, NEW i \in Item
  PROVE  LET c == CancelJobs(sets, items, prime)[i]
         IN  /\ i \notin items => c = sets[i]
             /\ i \in items /\ prime /\ sets[i].ref => c = NewBuildSet(sets[i].gen + 1)
             /\ i \in items /\ ~(prime /\ sets[i].ref) => Cancels(sets[i], c)
<1>1. PICK builds : builds = [j \in Job |-> IF sets[i].builds[j] = "absent" THEN "absent" ELSE "CANCELED"]
  OBVIOUS
<1>2. PICK c : c = [sets[i] EXCEPT !.builds = builds]
  OBVIOUS
<1> sets[i] \in BuildSets
  OBVIOUS
<1>3. CancelJobs(sets, items, prime)[i] =
        IF i \notin items THEN sets[i]
        ELSE IF prime /\ sets[i].ref THEN NewBuildSet(sets[i].gen + 1) ELSE c
  BY <1>1, <1>2 DEF CancelJobs
<1>4. SameRequest(sets[i], c) /\ c.failing = sets[i].failing /\ c.builds = builds
  BY <1>2, BuildsWritten
<1>5. Cancels(sets[i], c)
  BY <1>1, <1>4 DEF Cancels
<1> QED BY <1>3, <1>5

(* c is b with fake SKIPPED builds of these jobs.                          *)
Skips(b, c, jobs) ==
  /\ SameRequest(b, c) /\ c.failing = b.failing
  /\ \A j \in Job : c.builds[j] = IF j \in jobs THEN "SKIPPED" ELSE b.builds[j]

LEMMA SkipWritten ==
  ASSUME NEW b \in BuildSets, NEW jobs
  PROVE  Skips(b, Skip(b, jobs), jobs)
<1>1. PICK builds : builds = [j \in Job |-> IF j \in jobs THEN "SKIPPED" ELSE b.builds[j]]
  OBVIOUS
<1>2. PICK c : c = [b EXCEPT !.builds = builds]
  OBVIOUS
<1>3. Skip(b, jobs) = c
  BY <1>1, <1>2 DEF Skip
<1>4. SameRequest(b, c) /\ c.failing = b.failing /\ c.builds = builds
  BY <1>2, BuildsWritten
<1> QED BY <1>1, <1>3, <1>4 DEF Skips

(* Only the verdict on item i is written.                                  *)
Judges(sets, new, i, f) ==
  /\ \A k \in Item : k # i => new[k] = sets[k]
  /\ SameRequest(sets[i], new[i]) /\ new[i].builds = sets[i].builds /\ new[i].failing = f

LEMMA FailingWritten ==
  ASSUME NEW sets \in [Item -> BuildSets], NEW i \in Item, NEW f
  PROVE  Judges(sets, [sets EXCEPT ![i].failing = f], i, f)
<1> sets[i] \in BuildSets
  OBVIOUS
<1>1. PICK c : c = [sets[i] EXCEPT !.failing = f]
  OBVIOUS
<1>2. [sets EXCEPT ![i].failing = f] = [sets EXCEPT ![i] = c]
  BY <1>1
<1>3. SameRequest(sets[i], c) /\ c.builds = sets[i].builds /\ c.failing = f
  BY <1>1, VerdictWritten
<1>4. PICK new : new = [sets EXCEPT ![i] = c]
  OBVIOUS
<1>5. new[i] = c /\ \A k \in Item : k # i => new[k] = sets[k]
  BY <1>4
<1> QED BY <1>2, <1>3, <1>4, <1>5 DEF Judges

(* Jobs of item i are launched that may run.                               *)
Launches(queue, sets, new, i) ==
  /\ \A k \in Item : k # i => new[k] = sets[k]
  /\ SameRequest(sets[i], new[i]) /\ new[i].failing = sets[i].failing
  /\ \A j \in Job : \/ new[i].builds[j] = sets[i].builds[j]
                    \/ /\ j \in Runnable(queue, i, sets[i])
                       /\ sets[i].builds[j] = "absent" /\ new[i].builds[j] = "running"

LEMMA LaunchWritten ==
  ASSUME NEW sets \in [Item -> BuildSets], NEW i \in Item, NEW queue
  PROVE  Launches(queue, sets, LaunchJobs(queue, i, sets).sets, i)
<1> DEFINE runnable == Runnable(queue, i, sets[i])
           granted == [m \in Mutex |-> Granted(m, i, {j \in runnable : MutexOf[j] = m}, sets)]
           launched == {j \in runnable : MutexOf[j] # NoMutex => j \in granted[MutexOf[j]]}
<1>1. PICK builds : builds = [j \in Job |-> IF j \in launched THEN "running" ELSE sets[i].builds[j]]
  OBVIOUS
<1>2. PICK c : c = [sets[i] EXCEPT !.builds = builds]
  OBVIOUS
<1>3. LaunchJobs(queue, i, sets).sets = [sets EXCEPT ![i] = c]
  BY <1>1, <1>2 DEF LaunchJobs
<1> sets[i] \in BuildSets
  OBVIOUS
<1>4. SameRequest(sets[i], c) /\ c.failing = sets[i].failing /\ c.builds = builds
  BY <1>2, BuildsWritten
<1>5. \A j \in runnable : sets[i].builds[j] = "absent"
  BY DEF Runnable
<1>6. launched \subseteq runnable
  OBVIOUS
<1>7. \A j \in Job : \/ builds[j] = sets[i].builds[j]
                     \/ j \in runnable /\ sets[i].builds[j] = "absent" /\ builds[j] = "running"
  <2> HIDE DEF launched, runnable
  <2> QED BY <1>1, <1>5, <1>6
<1>8. PICK new : new = [sets EXCEPT ![i] = c]
  OBVIOUS
<1>9. new[i] = c /\ \A k \in Item : k # i => new[k] = sets[k]
  BY <1>8
<1> QED BY <1>3, <1>4, <1>7, <1>8, <1>9 DEF Launches

(* The merge of item i is asked for.                                       *)
Prepares(queue, sets, new, i) ==
  /\ \A k \in Item : k # i => new[k] = sets[k]
  /\ LET b == sets[i]
         c == new[i]
     IN  /\ c.gen = b.gen /\ c.merge = "PENDING" /\ c.ref = TRUE
         /\ c.other = (IF b.other = <<>> THEN ChangesAhead(queue, i) ELSE b.other)
         /\ c.commit = b.commit /\ c.unable = b.unable
         /\ c.failing = b.failing /\ c.builds = b.builds

LEMMA PrepareWritten ==
  ASSUME NEW sets \in [Item -> BuildSets], NEW i \in Item, NEW queue,
         ChangesAhead(queue, i) \in Seq(Change)
  PROVE  LET new == [sets EXCEPT ![i] = [Prepared(queue, i, sets[i]) EXCEPT !.merge = "PENDING"]]
         IN  new \in [Item -> BuildSets] /\ Prepares(queue, sets, new, i)
<1>1. PICK b \in BuildSets : b = sets[i]
  OBVIOUS
<1>2. PICK other \in Seq(Change) : other = IF b.other = <<>> THEN ChangesAhead(queue, i) ELSE b.other
  BY DEF BuildSets
<1>3. PICK p : p = [b EXCEPT !.ref = TRUE, !.other = other]
  OBVIOUS
<1>4. p = Prepared(queue, i, b)
  BY <1>2, <1>3 DEF Prepared
<1>5. /\ p.gen = b.gen /\ p.merge = b.merge /\ p.ref = TRUE /\ p.other = other
      /\ p.commit = b.commit /\ p.unable = b.unable
      /\ p.failing = b.failing /\ p.builds = b.builds
  BY <1>2, <1>3, RefWritten
<1>6. p \in BuildSets
  BY <1>3, FieldsKeepTypes
<1>7. PICK c : c = [p EXCEPT !.merge = "PENDING"]
  OBVIOUS
<1>8. /\ c.gen = p.gen /\ c.merge = "PENDING" /\ c.ref = p.ref /\ c.other = p.other
      /\ c.commit = p.commit /\ c.unable = p.unable
      /\ c.failing = p.failing /\ c.builds = p.builds
  BY <1>6, <1>7, MergeWritten DEF SameButMerge
<1>9. c \in BuildSets
  BY <1>6, <1>7, FieldsKeepTypes
<1>10. PICK new : new = [sets EXCEPT ![i] = c]
  OBVIOUS
<1>11. new[i] = c /\ new \in [Item -> BuildSets] /\ \A k \in Item : k # i => new[k] = sets[k]
  BY <1>9, <1>10
<1>12. Prepares(queue, sets, new, i)
  BY <1>1, <1>2, <1>5, <1>8, <1>11 DEF Prepares
<1> QED BY <1>1, <1>4, <1>7, <1>10, <1>11, <1>12

-----------------------------------------------------------------------------
(* Jobs with hold-following-changes.                                       *)

(* The hold jobs of what i is tested on top of have succeeded.             *)
Cleared(x, i, sets) ==
  \A a \in Up(x, i), h \in HoldJobs : h \in Jobs(item[a]) => sets[a].builds[h] = "SUCCESS"

(* A build runs only for an item that was made, and while that item is     *)
(* queued only when those jobs have.                                       *)
Holds(x, sets) ==
  \A i \in Item, j \in Job :
    sets[i].builds[j] = "running" =>
      item[i] # Idle /\ (i \in Queued(x) => Cleared(x, i, sets))

(* The jobs of a that succeeded still have.                                *)
StaySuccessful(old, new, a) ==
  \A h \in Job : old[a].builds[h] = "SUCCESS" => new[a].builds[h] = "SUCCESS"

(* From x and old to y and new nothing starts, and what still runs is      *)
(* behind no other item, none of which lost a success.                     *)
Loosens(x, y, old, new) ==
  \A i \in Item, j \in Job :
    new[i].builds[j] = "running" =>
      /\ old[i].builds[j] = "running"
      /\ i \in Queued(y) =>
           /\ i \in Queued(x)
           /\ \A a \in Up(y, i) : a \in Up(x, i) /\ StaySuccessful(old, new, a)

(* That keeps the jobs held back.                                          *)
LEMMA LooseHolds ==
  ASSUME NEW x, NEW y, NEW old, NEW new, Holds(x, old), Loosens(x, y, old, new)
  PROVE  Holds(y, new)
<1> SUFFICES ASSUME NEW i \in Item, NEW j \in Job, new[i].builds[j] = "running"
             PROVE  item[i] # Idle /\ (i \in Queued(y) => Cleared(y, i, new))
  BY DEF Holds
<1>1. old[i].builds[j] = "running" /\ item[i] # Idle
  BY DEF Holds, Loosens
<1>2. ASSUME i \in Queued(y) PROVE Cleared(y, i, new)
  <2>1. Cleared(x, i, old)
    BY <1>1, <1>2 DEF Holds, Loosens
  <2>2. ASSUME NEW a \in Up(y, i), NEW h \in HoldJobs, h \in Jobs(item[a])
        PROVE  new[a].builds[h] = "SUCCESS"
    <3>1. a \in Up(x, i) /\ StaySuccessful(old, new, a)
      BY <1>2 DEF Loosens
    <3>2. h \in Job /\ old[a].builds[h] = "SUCCESS"
      BY <2>1, <2>2, <3>1, JobAssumption DEF Cleared
    <3> QED BY <3>1, <3>2 DEF StaySuccessful
  <2> QED BY <2>2 DEF Cleared
<1> QED BY <1>1, <1>2

(* What is tested on top of one of C is in C.                              *)
ClosedBehind(x, C) == \A i \in Item : \A a \in Up(x, i) : a \in C => i \in C

(* So are an item and what is tested on top of it, with or without it.     *)
LEMMA BehindIsClosed ==
  ASSUME NEW x \in Queues, WellLinked(x), NEW r \in Item
  PROVE  /\ ClosedBehind(x, WithBehind(x, r)) /\ ClosedBehind(x, Behind(x, r))
         /\ \A i \in Item : i \in Behind(x, r) <=> r \in Up(x, i)
         /\ r \in WithBehind(x, r)
<1>1. \A i \in Item : i \in WithBehind(x, r) <=> i = r \/ r \in Up(x, i)
  BY BehindIsAbove
<1>2. \A i \in Item : \A a \in Up(x, i) : a \in Item /\ Up(x, a) \subseteq Up(x, i)
  BY UpIsEarlier, UpIsTransitive
<1>3. ClosedBehind(x, WithBehind(x, r))
  BY <1>1, <1>2 DEF ClosedBehind
<1>4. WithBehind(x, r) = {r} \cup Behind(x, r)
  BY WithBehindUnfolds DEF Behind
<1>5. r \notin Behind(x, r)
  <2> SUFFICES ASSUME NEW b \in x.behind[r], r \in WithBehind(x, b) PROVE FALSE
    BY DEF Behind
  <2>1. b \in Item
    BY DEF Queues
  <2>2. x.ahead[b] = r
    BY <2>1 DEF WellLinked, BehindIsInverse
  <2>3. r \in Up(x, b)
    BY <2>1, <2>2, UpUnfolds, NoItemAssumption
  <2>4. b # r /\ b \notin Up(x, r)
    BY <2>1, <2>3, UpIsEarlier
  <2>5. r = b \/ b \in Up(x, r)
    BY <2>1, BehindIsAbove
  <2> QED BY <2>4, <2>5
<1>6. \A i \in Item : r \in Up(x, i) => i # r
  BY UpIsEarlier
<1>7. \A i \in Item : i \in Behind(x, r) <=> r \in Up(x, i)
  BY <1>1, <1>4, <1>5, <1>6
<1>8. ClosedBehind(x, Behind(x, r))
  BY <1>2, <1>7 DEF ClosedBehind
<1> QED BY <1>3, <1>4, <1>7, <1>8

(* What cancelJobs reaches does not run any more.                          *)
LEMMA CanceledStops ==
  ASSUME NEW sets \in [Item -> BuildSets], NEW items, NEW prime \in BOOLEAN, NEW i \in Item,
         NEW j \in Job
  PROVE  LET new == CancelJobs(sets, items, prime)
         IN  /\ i \notin items => new[i] = sets[i]
             /\ i \in items => new[i].builds[j] # "running"
<1>1. PICK c : c = CancelJobs(sets, items, prime)[i]
  OBVIOUS
<1>2. CASE i \in items /\ prime /\ sets[i].ref
  <2>1. PICK n : n = sets[i].gen + 1
    OBVIOUS
  <2>2. c = NewBuildSet(n)
    BY <1>1, <1>2, <2>1, CancelWritten
  <2>3. c.builds[j] # "running"
    BY <2>2, NewSetWritten
  <2> QED BY <1>1, <1>2, <2>3
<1>3. CASE i \in items /\ ~(prime /\ sets[i].ref)
  <2>1. Cancels(sets[i], c)
    BY <1>1, <1>3, CancelWritten
  <2>2. c.builds[j] # "running"
    BY <2>1 DEF Cancels
  <2> QED BY <1>1, <1>3, <2>2
<1>4. CASE i \notin items
  BY <1>4, CancelWritten
<1> QED BY <1>2, <1>3, <1>4

(* Canceling an item with all that is tested on top of it.                 *)
LEMMA CancelLoosens ==
  ASSUME NEW x, NEW y, NEW C, NEW sets \in [Item -> BuildSets], NEW prime \in BOOLEAN,
         ClosedBehind(y, C), Queued(y) \subseteq Queued(x),
         \A i \in Item : Up(y, i) \subseteq Item /\ (i \notin C => Up(y, i) \subseteq Up(x, i))
  PROVE  Loosens(x, y, sets, CancelJobs(sets, C, prime))
<1>1. PICK new : new = CancelJobs(sets, C, prime)
  OBVIOUS
<1>2. \A i \in Item, j \in Job :
        (i \notin C => new[i] = sets[i]) /\ (i \in C => new[i].builds[j] # "running")
  BY <1>1, CanceledStops
<1> SUFFICES ASSUME NEW i \in Item, NEW j \in Job, new[i].builds[j] = "running"
             PROVE  /\ sets[i].builds[j] = "running"
                    /\ i \in Queued(y) =>
                         /\ i \in Queued(x)
                         /\ \A a \in Up(y, i) : a \in Up(x, i) /\ StaySuccessful(sets, new, a)
  BY <1>1 DEF Loosens
<1>3. i \notin C /\ new[i] = sets[i]
  BY <1>2
<1>4. ASSUME NEW a \in Up(y, i) PROVE a \in Up(x, i) /\ StaySuccessful(sets, new, a)
  <2>1. a \in Item /\ a \notin C /\ a \in Up(x, i)
    BY <1>3 DEF ClosedBehind
  <2> QED BY <1>2, <2>1 DEF StaySuccessful
<1> QED BY <1>3, <1>4

(* When r leaves, whatever is written to its build set.                    *)
LEMMA DequeueLoosens ==
  ASSUME NEW x \in Queues, WellLinked(x), NEW r \in Item, NEW old, NEW new,
         \A i \in Item \ {r} : new[i] = old[i],
         \A j \in Job : new[r].builds[j] = "running" => old[r].builds[j] = "running"
  PROVE  Loosens(x, DequeueItem(x, r), old, new)
<1>1. PICK y : y = DequeueItem(x, r)
  OBVIOUS
<1>2. /\ y \in Queues /\ WellLinked(y) /\ Queued(y) = Queued(x) \ {r}
      /\ \A i \in Item \ {r} : Up(y, i) = Up(x, i) \ {r}
  BY <1>1, DequeuedUp
<1>3. \A i \in Item : Up(x, i) \subseteq Item
  BY UpIsEarlier
<1> QED BY <1>1, <1>2, <1>3 DEF Loosens, StaySuccessful

(* When it stays and is judged.                                            *)
LEMMA JudgedLoosens ==
  ASSUME NEW x \in Queues, WellLinked(x), NEW old, NEW new, NEW i \in Item, NEW f,
         Judges(old, new, i, f)
  PROVE  Loosens(x, x, old, new)
<1>1. \A k \in Item : new[k].builds = old[k].builds
  BY DEF Judges
<1>2. \A k \in Item : Up(x, k) \subseteq Item
  BY UpIsEarlier
<1> QED BY <1>1, <1>2 DEF Loosens, StaySuccessful

(* Resetting an item, moved or not.                                        *)
LEMMA ResetHolds ==
  ASSUME QueueInv, bs \in [Item -> BuildSets], Holds(q, bs), NEW i, Processing(i)
  PROVE  /\ Holds(MovedQueue(i), ResetSets(i))
         /\ ~NeedsAFailingItem(i) =>
              \A a \in Up(MovedQueue(i), i) : ResetSets(i)[a] = bs[a]
<1>1. /\ i \in Item /\ q \in Queues /\ WellLinked(q)
      /\ pass.nnfi \in Item \cup {NoItem}
      /\ pass.nnfi = NoItem \/ Precedes(q, pass.nnfi, i)
  BY ItemProcessed DEF QueueInv
<1>2. CASE NeedsAFailingItem(i)
  <2>1. MovedQueue(i) = q /\ ResetSets(i) = CancelJobs(bs, WithBehind(q, i), FALSE)
    BY <1>2 DEF MovedQueue, Misplaced, ResetSets
  <2>2. PICK C : C = WithBehind(q, i)
    OBVIOUS
  <2>3. ClosedBehind(q, C)
    BY <1>1, <2>2, BehindIsClosed
  <2>4. \A k \in Item : Up(q, k) \subseteq Item
    BY <1>1, UpIsEarlier
  <2>5. Loosens(q, q, bs, CancelJobs(bs, C, FALSE))
    BY <2>3, <2>4, CancelLoosens
  <2> QED BY <1>2, <2>1, <2>2, <2>5, LooseHolds
<1>3. CASE Misplaced(i)
  <2>1. ~NeedsAFailingItem(i) /\ q.ahead[i] # pass.nnfi
    BY <1>3 DEF Misplaced
  <2>2. PICK y : y = MoveItem(q, i, pass.nnfi)
    OBVIOUS
  <2>3. MovedQueue(i) = y /\ ResetSets(i) = CancelJobs(bs, WithBehind(y, i), TRUE)
    BY <1>3, <2>1, <2>2 DEF MovedQueue, ResetSets
  <2>4. /\ y \in Queues /\ WellLinked(y) /\ Queued(y) = Queued(q)
        /\ \A k \in Item \ {i} : Up(y, k) = Up(q, k) \ {i}
    BY <1>1, <2>1, <2>2, MovedUp
  <2>5. PICK C : C = WithBehind(y, i)
    OBVIOUS
  <2>6. ClosedBehind(y, C) /\ i \in C
    BY <1>1, <2>4, <2>5, BehindIsClosed
  <2>7. \A k \in Item : Up(y, k) \subseteq Item
    BY <2>4, UpIsEarlier
  <2>8. \A k \in Item : Up(y, k) \subseteq Item /\ (k \notin C => Up(y, k) \subseteq Up(q, k))
    BY <2>4, <2>6, <2>7
  <2>9. Loosens(q, y, bs, CancelJobs(bs, C, TRUE))
    BY <2>4, <2>6, <2>8, CancelLoosens
  <2>10. Holds(y, CancelJobs(bs, C, TRUE))
    BY <2>9, LooseHolds
  <2>11. ASSUME NEW a \in Up(y, i) PROVE CancelJobs(bs, C, TRUE)[a] = bs[a]
    <3>1. a \in Item /\ ~(i \in Up(y, a)) /\ a # i
      <4>1. a \in Item /\ a # i /\ Precedes(y, a, i) /\ ~Precedes(y, i, a)
        BY <1>1, <2>4, UpIsEarlier
      <4>2. i \notin Up(y, a)
        BY <2>4, <4>1, UpIsEarlier
      <4> QED BY <4>1, <4>2
    <3>2. a \notin C
      BY <1>1, <2>4, <2>5, <3>1, BehindIsAbove
    <3> QED BY <3>1, <3>2 DEF CancelJobs
  <2> QED BY <2>3, <2>5, <2>10, <2>11
<1>4. CASE ~NeedsAFailingItem(i) /\ ~Misplaced(i)
  BY <1>4 DEF MovedQueue, ResetSets
<1> QED BY <1>2, <1>3, <1>4

(* A job is launched only when the hold jobs ahead of it have succeeded.   *)
LEMMA LaunchHolds ==
  ASSUME NEW x \in Queues, WellLinked(x), NEW sets \in [Item -> BuildSets], NEW i \in Item,
         item[i] # Idle, Holds(x, sets), \A a \in Up(x, i) : sets[a] = bs[a]
  PROVE  Holds(x, LaunchJobs(x, i, sets).sets)
<1>1. PICK new : new = LaunchJobs(x, i, sets).sets
  OBVIOUS
<1>2. Launches(x, sets, new, i)
  BY <1>1, LaunchWritten
<1>3. \A a \in Item : StaySuccessful(sets, new, a)
  BY <1>2 DEF Launches, StaySuccessful
<1>4. \A k \in Item : Up(x, k) \subseteq Item
  BY UpIsEarlier
<1>5. ASSUME NEW k \in Item, Cleared(x, k, sets) PROVE Cleared(x, k, new)
  <2>1. HoldJobs \subseteq Job
    BY JobAssumption
  <2> QED BY <1>3, <1>4, <1>5, <2>1 DEF Cleared, StaySuccessful
<1>6. ASSUME NEW j \in Runnable(x, i, sets[i]) PROVE Cleared(x, i, sets)
  <2>1. ~HeldBack(x, i)
    BY <1>6 DEF Runnable
  <2> QED BY <2>1 DEF HeldBack, Cleared, Up
<1>7. ASSUME NEW k \in Item, NEW j \in Job, new[k].builds[j] = "running"
      PROVE  sets[k].builds[j] = "running" \/ (k = i /\ Cleared(x, i, sets))
  BY <1>2, <1>6, <1>7 DEF Launches
<1>8. Holds(x, new)
  BY <1>5, <1>7 DEF Holds
<1> QED BY <1>1, <1>8

(* What follows the launch of jobs.                                        *)
LEMMA SettleHolds ==
  ASSUME NEW x \in Queues, WellLinked(x), NEW sets \in [Item -> BuildSets], NEW i \in Item,
         Holds(x, sets), Settle(i, x, sets)
  PROVE  Holds(q', bs')
<1>1. PICK y : y = DequeueItem(x, i)
  OBVIOUS
<1>2. PICK f : f = Failing(i, sets[i])
  OBVIOUS
<1>3. PICK canceled : canceled = CancelJobs(sets, Behind(x, i), TRUE)
  OBVIOUS
<1>4. canceled \in [Item -> BuildSets]
  BY <1>3, CancelKeepsTypes
<1>5. \/ q' = y /\ bs' = [sets EXCEPT ![i].failing = f]
      \/ q' = y /\ bs' = [canceled EXCEPT ![i].failing = TRUE]
      \/ q' = x /\ bs' = sets
      \/ q' = x /\ bs' = [sets EXCEPT ![i].failing = f]
  BY <1>1, <1>2, <1>3 DEF Settle
<1>6. Holds(x, canceled)
  <2>1. PICK C : C = Behind(x, i)
    OBVIOUS
  <2>2. ClosedBehind(x, C)
    BY <2>1, BehindIsClosed
  <2>3. \A k \in Item : Up(x, k) \subseteq Item
    BY UpIsEarlier
  <2>4. Loosens(x, x, sets, CancelJobs(sets, C, TRUE))
    BY <2>2, <2>3, CancelLoosens
  <2> QED BY <1>3, <2>1, <2>4, LooseHolds
<1>7. ASSUME NEW old \in [Item -> BuildSets], Holds(x, old), NEW v, NEW new,
             new = [old EXCEPT ![i].failing = v]
      PROVE  Holds(x, new) /\ Holds(y, new)
  <2>1. Judges(old, new, i, v)
    BY <1>7, FailingWritten
  <2>2. Holds(x, new)
    <3>1. Loosens(x, x, old, new)
      BY <2>1, JudgedLoosens
    <3> QED BY <1>7, <3>1, LooseHolds
  <2>3. Loosens(x, y, new, new)
    BY <1>1, DequeueLoosens
  <2> QED BY <2>2, <2>3, LooseHolds
<1> QED BY <1>4, <1>5, <1>6, <1>7

(* The processing of an item.                                              *)
LEMMA ProcessingHolds ==
  ASSUME QueueInv, bs \in [Item -> BuildSets], HeldTyped, layout \in Layouts,
         Holds(q, bs), NEW i \in Item,
         DropItem(i) \/ PrepareRef(i) \/ LaunchItem(i) \/ WaitItem(i)
  PROVE  Holds(q', bs')
<1>1. Processing(i) /\ q \in Queues /\ WellLinked(q) /\ item[i] # Idle
  BY ItemProcessed DEF QueueInv, DropItem, PrepareRef, LaunchItem, WaitItem
<1>2. PICK x : x = MovedQueue(i)
  OBVIOUS
<1>3. x \in Queues /\ WellLinked(x)
  BY <1>1, <1>2, MovedIsWellLinked
<1>4. PICK sets \in [Item -> BuildSets] : sets = ResetSets(i)
  BY ProcessingKeepsSets
<1>5. Holds(x, sets) /\ (~NeedsAFailingItem(i) => \A a \in Up(x, i) : sets[a] = bs[a])
  BY <1>1, <1>2, <1>4, ResetHolds
<1>6. CASE DropItem(i)
  <2>1. PICK canceled \in [Item -> BuildSets] : canceled = CancelJobs(bs, WithBehind(q, i), TRUE)
    BY CancelKeepsTypes
  <2>2. PICK C : C = WithBehind(q, i)
    OBVIOUS
  <2>3. ClosedBehind(q, C)
    BY <1>1, <2>2, BehindIsClosed
  <2>4. \A k \in Item : Up(q, k) \subseteq Item
    BY <1>1, UpIsEarlier
  <2>5. Loosens(q, q, bs, CancelJobs(bs, C, TRUE))
    BY <2>3, <2>4, CancelLoosens
  <2>6. Holds(q, canceled)
    BY <2>1, <2>2, <2>5, LooseHolds
  <2>7. PICK b : b = Skip(canceled[i], Jobs(item[i]))
    OBVIOUS
  <2>8. q' = DequeueItem(q, i) /\ bs' = [canceled EXCEPT ![i] = b]
    BY <1>6, <2>1, <2>7 DEF DropItem
  <2>9. \A j \in Job : b.builds[j] = "running" => canceled[i].builds[j] = "running"
    BY <2>7, SkipWritten DEF Skips
  <2>10. \A k \in Item \ {i} : [canceled EXCEPT ![i] = b][k] = canceled[k]
    OBVIOUS
  <2>11. [canceled EXCEPT ![i] = b][i] = b
    OBVIOUS
  <2>12. PICK new : new = [canceled EXCEPT ![i] = b]
    OBVIOUS
  <2>13. /\ \A k \in Item \ {i} : new[k] = canceled[k]
         /\ \A j \in Job : new[i].builds[j] = "running" => canceled[i].builds[j] = "running"
    BY <2>9, <2>10, <2>11, <2>12
  <2>14. Loosens(q, DequeueItem(q, i), canceled, new)
    BY <1>1, <2>13, DequeueLoosens
  <2> QED BY <2>6, <2>8, <2>12, <2>14, LooseHolds
<1>7. CASE PrepareRef(i)
  <2>1. PICK new : new = [sets EXCEPT ![i] = [Prepared(x, i, sets[i]) EXCEPT !.merge = "PENDING"]]
    OBVIOUS
  <2>2. PICK b : b = Prepared(x, i, sets[i])
    OBVIOUS
  <2>3. ChangesAhead(x, i) \in Seq(Change)
    BY <1>1, <1>2, ChangesAheadTyped
  <2>4. new \in [Item -> BuildSets] /\ Prepares(x, sets, new, i)
    BY <2>1, <2>3, PrepareWritten
  <2>5. b.builds = sets[i].builds
    <3>1. PICK other : other = IF sets[i].other = <<>> THEN ChangesAhead(x, i) ELSE sets[i].other
      OBVIOUS
    <3>2. b = [sets[i] EXCEPT !.ref = TRUE, !.other = other]
      BY <2>2, <3>1 DEF Prepared
    <3> QED BY <3>2, RefWritten
  <2>6. ASSUME NEW s, \A k \in Item : s[k].builds = sets[k].builds PROVE Holds(x, s)
    <3>1. \A k \in Item : Up(x, k) \subseteq Item
      BY <1>3, UpIsEarlier
    <3>2. Loosens(x, x, sets, s)
      BY <2>6, <3>1 DEF Loosens, StaySuccessful
    <3> QED BY <1>5, <3>2, LooseHolds
  <2>7. CASE Settle(i, x, new)
    <3>1. Holds(x, new)
      BY <2>4, <2>6 DEF Prepares
    <3> QED BY <1>3, <2>4, <2>7, <3>1, SettleHolds
  <2>8. CASE q' = x /\ bs' = [sets EXCEPT ![i] = b]
    <3>1. PICK s : s = [sets EXCEPT ![i] = b]
      OBVIOUS
    <3>2. \A k \in Item : s[k].builds = sets[k].builds
      BY <2>5, <3>1
    <3> QED BY <2>6, <2>8, <3>1, <3>2
  <2> QED BY <1>2, <1>4, <1>7, <2>1, <2>2, <2>7, <2>8 DEF PrepareRef
<1>8. CASE LaunchItem(i)
  <2>1. PICK new : new = LaunchJobs(x, i, sets).sets
    OBVIOUS
  <2>2. Settle(i, x, new) /\ ~NeedsAFailingItem(i)
    BY <1>2, <1>4, <1>8, <2>1 DEF LaunchItem, MayPrepare
  <2>3. Holds(x, new)
    BY <1>1, <1>3, <1>5, <2>1, <2>2, LaunchHolds
  <2>4. new \in [Item -> BuildSets]
    <3>1. item[i] \in Change
      BY <1>1 DEF QueueInv, ItemsMade
    <3> QED BY <2>1, <3>1, LaunchKeepsTypes
  <2> QED BY <1>3, <2>2, <2>3, <2>4, SettleHolds
<1>9. CASE WaitItem(i)
  <2>1. Settle(i, x, sets)
    BY <1>2, <1>4, <1>9 DEF WaitItem
  <2> QED BY <1>3, <1>5, <2>1, SettleHolds
<1> QED BY <1>6, <1>7, <1>8, <1>9

(* One build set is written and no job that succeeded in it is touched.    *)
LEMMA WrittenLoosens ==
  ASSUME NEW x \in Queues, WellLinked(x), NEW sets \in [Item -> BuildSets], NEW i \in Item,
         NEW b, \A j \in Job : /\ b.builds[j] = "running" => sets[i].builds[j] = "running"
                               /\ sets[i].builds[j] = "SUCCESS" => b.builds[j] = "SUCCESS"
  PROVE  Loosens(x, x, sets, [sets EXCEPT ![i] = b])
<1>1. PICK new : new = [sets EXCEPT ![i] = b]
  OBVIOUS
<1>2. new[i] = b /\ \A k \in Item : k # i => new[k] = sets[k]
  BY <1>1
<1>3. \A k \in Item, j \in Job :
        /\ new[k].builds[j] = "running" => sets[k].builds[j] = "running"
        /\ sets[k].builds[j] = "SUCCESS" => new[k].builds[j] = "SUCCESS"
  BY <1>2
<1>4. \A k \in Item : Up(x, k) \subseteq Item
  BY UpIsEarlier
<1>5. Loosens(x, x, sets, new)
  BY <1>3, <1>4 DEF Loosens, StaySuccessful
<1> QED BY <1>1, <1>5

(* A result takes no success away: the jobs below one that failed have not *)
(* succeeded, and a retry comes before the job succeeds again.             *)
LEMMA HandleResultHolds ==
  ASSUME QueueInv, MutexInv, TreeInv, bs \in [Item -> BuildSets], Holds(q, bs), HandleResult
  PROVE  Holds(q', bs')
<1>1. PICK e : e = Head(results)
  OBVIOUS
<1>2. e \in ToSet(results)
  <2>1. results \in Seq(ToSet(results)) /\ results # <<>>
    BY DEF MutexInv, ResultsAreOld, HandleResult
  <2> QED BY <1>1, <2>1 DEF ToSet
<1>3. PICK i \in Item : i = e.item
  BY <1>2 DEF MutexInv, ResultsAreOld
<1>4. PICK b \in BuildSets : b = bs[i]
  OBVIOUS
<1>5. TreeSet(b) /\ Outstanding(bs, merging, results)
  BY <1>3, <1>4 DEF TreeInv, TreesRooted
<1>6. q' = q /\ q \in Queues /\ WellLinked(q)
  BY DEF HandleResult, QueueInv
<1>7. ASSUME NEW c, bs' = [bs EXCEPT ![i] = c],
             \A j \in Job : /\ c.builds[j] = "running" => b.builds[j] = "running"
                            /\ b.builds[j] = "SUCCESS" => c.builds[j] = "SUCCESS"
      PROVE  Holds(q', bs')
  <2>1. Loosens(q, q, bs, [bs EXCEPT ![i] = c])
    BY <1>4, <1>6, <1>7, WrittenLoosens
  <2> QED BY <1>6, <1>7, <2>1, LooseHolds
<1>8. CASE HandleBuild(e)
  <2> DEFINE below == {k \in Jobs(item[i]) : e.job \in Above[k]}
             now == b.builds[e.job]
  <2>1. CASE bs' = bs
    BY <1>6, <2>1
  <2>2. CASE bs' # bs
    <3>1. /\ e.kind = "build" /\ e.gen = b.gen
          /\ bs' = [bs EXCEPT ![i] = IF e.result = "retry" THEN [b EXCEPT !.builds[e.job] = "absent"]
                                     ELSE IF now \in {"SUCCESS", "absent"} THEN b
                                     ELSE Skip(b, below)]
      BY <1>3, <1>4, <1>8, <2>2 DEF HandleBuild, Current
    <3>2. e.job \in Job
      BY <1>2, <3>1 DEF MutexInv, ResultsAreOld
    <3>3. CASE e.result = "retry"
      <4>1. now # "SUCCESS"
        BY <1>2, <1>3, <1>4, <1>5, <3>1, <3>3 DEF Outstanding
      <4>2. PICK builds : builds = [b.builds EXCEPT ![e.job] = "absent"]
        OBVIOUS
      <4>3. PICK c : c = [b EXCEPT !.builds = builds]
        OBVIOUS
      <4>4. c = [b EXCEPT !.builds[e.job] = "absent"]
        BY <4>2, <4>3
      <4>5. c.builds = builds
        BY <4>3, BuildsWritten
      <4>6. b.builds \in [Job -> Builds]
        BY DEF BuildSets
      <4>7. \A j \in Job : builds[j] = IF j = e.job THEN "absent" ELSE b.builds[j]
        BY <4>2, <4>6
      <4>8. bs' = [bs EXCEPT ![i] = c]
        BY <3>1, <3>3, <4>4
      <4>9. \A j \in Job : /\ c.builds[j] = "running" => b.builds[j] = "running"
                           /\ b.builds[j] = "SUCCESS" => c.builds[j] = "SUCCESS"
        BY <4>1, <4>5, <4>7
      <4> QED BY <1>7, <4>8, <4>9
    <3>4. CASE e.result # "retry" /\ now \in {"SUCCESS", "absent"}
      <4>1. bs' = [bs EXCEPT ![i] = b]
        BY <3>1, <3>4
      <4> QED BY <1>7, <4>1
    <3>5. CASE e.result # "retry" /\ now \notin {"SUCCESS", "absent"}
      <4>1. PICK c : c = Skip(b, below)
        OBVIOUS
      <4>2. \A j \in Job : c.builds[j] = IF j \in below THEN "SKIPPED" ELSE b.builds[j]
        BY <4>1, SkipWritten DEF Skips
      <4>3. \A j \in Job : j \in below => b.builds[j] # "SUCCESS"
        <5> SUFFICES ASSUME NEW j \in Job, e.job \in Above[j], b.builds[j] = "SUCCESS"
                     PROVE  FALSE
          OBVIOUS
        <5>1. b.builds[e.job] = "SUCCESS"
          BY <1>5, <3>2 DEF TreeSet, Live
        <5> QED BY <3>5, <5>1
      <4>4. bs' = [bs EXCEPT ![i] = c]
        BY <3>1, <3>5, <4>1
      <4>5. \A j \in Job : /\ c.builds[j] = "running" => b.builds[j] = "running"
                           /\ b.builds[j] = "SUCCESS" => c.builds[j] = "SUCCESS"
        <5> HIDE DEF below
        <5> QED BY <4>2, <4>3
      <4> QED BY <1>7, <4>4, <4>5
    <3> QED BY <3>3, <3>4, <3>5
  <2> QED BY <2>1, <2>2
<1>9. CASE HandleMerge(e)
  <2>1. CASE bs' = bs
    BY <1>6, <2>1
  <2>2. CASE bs' # bs
    <3>1. PICK done : done = [b EXCEPT !.merge = "COMPLETE"]
      OBVIOUS
    <3>2. done \in BuildSets /\ done.builds = b.builds
      <4>1. done \in BuildSets
        BY <3>1, FieldsKeepTypes
      <4> QED BY <3>1, <4>1, MergeWritten DEF SameButMerge
    <3>3. /\ e.kind = "merge" /\ e.gen = b.gen
          /\ \/ bs' = [bs EXCEPT ![i] = done]
             \/ bs' = [bs EXCEPT ![i] = [done EXCEPT !.commit = e.content]]
             \/ bs' = [bs EXCEPT ![i] = Skip([done EXCEPT !.unable = TRUE], Jobs(item[i]))]
      BY <1>3, <1>4, <1>9, <2>2, <3>1 DEF HandleMerge, Current
    <3>4. \A j \in Job : b.builds[j] # "SUCCESS"
      <4>1. AskedFor(bs, e)
        BY <1>2, <1>5, <3>3 DEF Outstanding
      <4>2. b.merge = "PENDING"
        BY <1>3, <1>4, <3>3, <4>1 DEF AskedFor
      <4> QED BY <1>5, <4>2 DEF TreeSet, Live
    <3>5. CASE bs' = [bs EXCEPT ![i] = done]
      BY <1>7, <3>2, <3>5
    <3>6. CASE bs' = [bs EXCEPT ![i] = [done EXCEPT !.commit = e.content]]
      <4>1. PICK c : c = [done EXCEPT !.commit = e.content]
        OBVIOUS
      <4>2. c.builds = done.builds
        BY <3>2, <4>1, CommitWritten DEF SameButMerge
      <4> QED BY <1>7, <3>2, <3>6, <4>1, <4>2
    <3>7. CASE bs' = [bs EXCEPT ![i] = Skip([done EXCEPT !.unable = TRUE], Jobs(item[i]))]
      <4>1. PICK d : d = [done EXCEPT !.unable = TRUE]
        OBVIOUS
      <4>2. d \in BuildSets /\ d.builds = done.builds
        <5>1. d \in BuildSets
          BY <3>2, <4>1, FieldsKeepTypes
        <5> QED BY <3>2, <4>1, <5>1, UnableWritten DEF SameButMerge
      <4>3. PICK c : c = Skip(d, Jobs(item[i]))
        OBVIOUS
      <4>4. \A j \in Job : c.builds[j] = "running" => d.builds[j] = "running"
        BY <4>2, <4>3, SkipWritten DEF Skips
      <4>5. bs' = [bs EXCEPT ![i] = c]
        BY <3>7, <4>1, <4>3
      <4> QED BY <1>7, <3>2, <3>4, <4>2, <4>4, <4>5
    <3> QED BY <3>3, <3>5, <3>6, <3>7
  <2> QED BY <2>1, <2>2
<1> QED BY <1>1, <1>8, <1>9 DEF HandleResult

(* A worker's result takes no success away either.                         *)
LEMMA BuildCompletedHolds ==
  ASSUME QueueInv, bs \in [Item -> BuildSets], Holds(q, bs), NEW i \in Item, NEW j \in Job,
         NEW r \in {"SUCCESS", "FAILURE", "retry"}, BuildCompleted(i, j, r)
  PROVE  Holds(q', bs')
<1>1. PICK b \in BuildSets : b = bs[i]
  OBVIOUS
<1>2. PICK v : v = IF r = "retry" THEN "retrying" ELSE r
  OBVIOUS
<1>3. PICK builds : builds = [b.builds EXCEPT ![j] = v]
  OBVIOUS
<1>4. PICK c : c = [b EXCEPT !.builds = builds]
  OBVIOUS
<1>5. c.builds = builds /\ b.builds \in [Job -> Builds]
  BY <1>4, BuildsWritten DEF BuildSets
<1>6. v # "running" /\ b.builds[j] = "running" /\ q' = q
  BY <1>1, <1>2 DEF BuildCompleted
<1>7. bs' = [bs EXCEPT ![i] = c]
  BY <1>1, <1>2, <1>3, <1>4 DEF BuildCompleted
<1>8. \A k \in Job : /\ c.builds[k] = "running" => b.builds[k] = "running"
                     /\ b.builds[k] = "SUCCESS" => c.builds[k] = "SUCCESS"
  BY <1>3, <1>5, <1>6
<1>9. q \in Queues /\ WellLinked(q)
  BY DEF QueueInv
<1>10. Loosens(q, q, bs, [bs EXCEPT ![i] = c])
  BY <1>1, <1>8, <1>9, WrittenLoosens
<1> QED BY <1>6, <1>7, <1>10, LooseHolds

(* New items have no builds and leave what is ahead of the others alone.   *)
LEMMA EnqueueHolds ==
  ASSUME QueueInv, NEW x \in Queues, WellLinked(x), \A i \in Queued(x) : item[i] # Idle,
         NEW all \in Seq(Change), Distinct(all), Len(x.order) <= Len(all),
         \A n \in 1 .. Len(x.order) : all[n] = item[x.order[n]],
         Room(x, all), EnqueueAll(x, all),
         NEW sets, Holds(x, sets), layout' = layout, bs' = sets
  PROVE  Holds(q, bs)'
<1>1. /\ q' \in Queues /\ WellLinked(q)'
      /\ \A i \in Item : item[i] # Idle => item'[i] = item[i]
      /\ Len(q'.order) = Len(all) /\ DOMAIN q'.order = 1 .. Len(all)
      /\ \A n \in 1 .. Len(x.order) : q'.order[n] = x.order[n]
      /\ \A n \in 1 .. Len(all) : n > Len(x.order) => item[q'.order[n]] = Idle
      /\ \A i \in Queued(x) : Up(q', i) = Up(x, i)
  BY EnqueueAllKeepsItems DEF QueueInv
<1>2. /\ x.order \in Seq(Item) /\ Len(x.order) \in Nat /\ DOMAIN x.order = 1 .. Len(x.order)
      /\ Len(all) \in Nat
  BY DEF Queues
<1>3. ASSUME NEW i \in Queued(q'), item[i] # Idle PROVE i \in Queued(x)
  <2>1. PICK n \in 1 .. Len(all) : q'.order[n] = i
    BY <1>1 DEF Queued
  <2>2. n \in 1 .. Len(x.order)
    BY <1>1, <1>2, <1>3, <2>1
  <2> QED BY <1>1, <1>2, <2>1, <2>2 DEF Queued
<1>4. ASSUME NEW i \in Item, NEW a \in Up(x, i) PROVE a \in Item /\ item[a] # Idle
  BY UpIsEarlier
<1>5. ASSUME NEW i \in Item, NEW j \in Job, sets[i].builds[j] = "running"
      PROVE  item'[i] # Idle /\ (i \in Queued(q') => Cleared(q, i, bs)')
  <2>1. item[i] # Idle /\ (i \in Queued(x) => Cleared(x, i, sets))
    BY <1>5 DEF Holds
  <2>2. ASSUME i \in Queued(q') PROVE Cleared(q, i, bs)'
    <3>1. i \in Queued(x) /\ Cleared(x, i, sets) /\ Up(q', i) = Up(x, i)
      BY <1>1, <1>3, <2>1, <2>2
    <3>2. ASSUME NEW a \in Up(q', i), NEW h \in HoldJobs, h \in layout'.jobs[item'[a]]
          PROVE  bs'[a].builds[h] = "SUCCESS"
      <4>1. a \in Up(x, i) /\ item'[a] = item[a]
        BY <1>1, <1>4, <3>1
      <4> QED BY <3>1, <3>2, <4>1 DEF Cleared, Jobs
    <3> QED BY <3>2 DEF Cleared, Jobs
  <2> QED BY <1>1, <2>1, <2>2
<1> QED BY <1>5 DEF Holds

(* An approved change is added, or an item is removed.                     *)
LEMMA TriggerHolds ==
  ASSUME GateInv, bs \in [Item -> BuildSets], Holds(q, bs), HandleTrigger
  PROVE  Holds(q, bs)'
<1>1. QueueInv /\ layout' = layout /\ q \in Queues /\ WellLinked(q)
  BY DEF GateInv, QueueInv, HandleTrigger
<1>2. CASE \E all \in Seq(Change) :
             /\ Distinct(all) /\ Len(q.order) <= Len(all)
             /\ \A n \in 1 .. Len(q.order) : all[n] = item[q.order[n]]
             /\ Room(q, all) /\ EnqueueAll(q, all) /\ bs' = bs
  <2>1. \A i \in Queued(q) : item[i] # Idle
    BY <1>1 DEF QueueInv
  <2> QED BY <1>1, <1>2, <2>1, EnqueueHolds
<1>3. CASE q' = q /\ item' = item /\ bs' = bs
  BY <1>1, <1>3 DEF Holds, Cleared, Jobs
<1>4. ASSUME NEW i \in Queued(q), RemoveItem(i), item' = item
      PROVE  Holds(q, bs)'
  <2>1. i \in Item
    BY <1>1 DEF Queued, Queues
  <2>2. PICK C : C = WithBehind(q, i)
    OBVIOUS
  <2>3. PICK new : new = CancelJobs(bs, C, TRUE)
    OBVIOUS
  <2>4. ClosedBehind(q, C)
    BY <1>1, <2>1, <2>2, BehindIsClosed
  <2>5. \A k \in Item : Up(q, k) \subseteq Item
    BY <1>1, UpIsEarlier
  <2>6. Loosens(q, q, bs, CancelJobs(bs, C, TRUE))
    BY <2>4, <2>5, CancelLoosens
  <2>7. Holds(q, new)
    BY <2>3, <2>6, LooseHolds
  <2>8. Loosens(q, DequeueItem(q, i), new, new)
    BY <1>1, <2>1, DequeueLoosens
  <2>9. Holds(DequeueItem(q, i), new)
    BY <2>7, <2>8, LooseHolds
  <2>10. q' = DequeueItem(q, i) /\ bs' = new
    BY <1>4, <2>2, <2>3 DEF RemoveItem
  <2>11. Holds(q', bs')
    BY <2>9, <2>10
  <2> QED BY <1>1, <1>4, <2>11 DEF Holds, Cleared, Jobs
<1>5. triggers \in Seq([type : {"approved", "gone"}, change : Change])
  BY DEF GateInv, Triggers
<1> QED BY <1>1, <1>2, <1>3, <1>4, <1>5, TriggerEnqueues

(* A promotion queues new items only.                                      *)
LEMMA PromoteHolds ==
  ASSUME QueueInv, bs \in [Item -> BuildSets], Holds(q, bs), NEW i \in Item, Promote(i)
  PROVE  Holds(q, bs)'
<1>1. PICK x : x = EmptyQueue
  OBVIOUS
<1>2. x \in Queues /\ WellLinked(x) /\ Queued(x) = {} /\ x.order = <<>>
  BY <1>1, EmptyQueueIsWellLinked
<1>3. PICK added \in Seq(Change) : Distinct(added) /\ Room(x, added) /\ EnqueueAll(x, added)
  BY <1>1, PromoteEnqueues
<1>4. Len(x.order) <= Len(added) /\ \A m \in 1 .. Len(x.order) : added[m] = item[x.order[m]]
  BY <1>2
<1>5. PICK new : new = CancelJobs(bs, Queued(q), TRUE)
  OBVIOUS
<1>6. bs' = new /\ layout' = layout
  BY <1>5 DEF Promote
<1>7. \A k \in Item, j \in Job : new[k].builds[j] = "running" => bs[k].builds[j] = "running"
  <2>1. PICK items : items = Queued(q)
    OBVIOUS
  <2>2. PICK prime \in BOOLEAN : prime = TRUE
    OBVIOUS
  <2>3. new = CancelJobs(bs, items, prime)
    BY <1>5, <2>1, <2>2
  <2>4. \A k \in Item, j \in Job :
          (k \notin items => new[k] = bs[k]) /\ (k \in items => new[k].builds[j] # "running")
    BY <2>3, CanceledStops
  <2> QED BY <2>4
<1>8. Holds(x, new)
  BY <1>2, <1>7 DEF Holds
<1>9. \A k \in Queued(x) : item[k] # Idle
  BY <1>2
<1> QED BY <1>2, <1>3, <1>4, <1>6, <1>8, <1>9, EnqueueHolds

(* The invariant: at the start nothing runs, and every step that installs  *)
(* no other configuration keeps it.                                        *)
LEMMA InitHolds == Init => Holds(q, bs)
<1> SUFFICES ASSUME Init, NEW i \in Item, NEW j \in Job PROVE bs[i].builds[j] # "running"
  BY DEF Holds
<1>1. PICK n : n = 0
  OBVIOUS
<1>2. bs[i] = NewBuildSet(n)
  BY <1>1 DEF Init
<1> QED BY <1>2, NewSetWritten

LEMMA NextHolds ==
  ASSUME TypeInv, TreeInv, Holds(q, bs), [Next]_vars,
         \A new \in Layouts : ~Reconfigure(new)
  PROVE  Holds(q, bs)'
<1>1. /\ GateInv /\ QueueInv /\ MutexInv /\ HeldTyped /\ layout \in Layouts
      /\ bs \in [Item -> BuildSets]
  BY DEF TypeInv, GateInv, ServicesTyped, SetsTyped
<1>2. ASSUME Holds(q', bs'), item' = item, layout' = layout PROVE Holds(q, bs)'
  BY <1>2 DEF Holds, Cleared, Jobs
<1>3. CASE \/ WakeUp \/ EndResults \/ StartPass \/ EndPass
           \/ \E m \in merging, r \in {"merged", "conflict", "updated"} : MergeCompleted(m, r)
           \/ \E c \in Change : Approve(c) \/ Withdraw(c) \/ GoAway(c) \/ NoticeMerge(c)
           \/ UNCHANGED vars
  <2>1. q' = q /\ bs' = bs /\ item' = item /\ layout' = layout
    BY <1>3 DEF WakeUp, EndResults, StartPass, EndPass, MergeCompleted, Approve, Withdraw,
                GoAway, NoticeMerge, GerritEvent, vars, scheduled
  <2> QED BY <1>2, <2>1
<1>4. CASE HandleResult
  BY <1>1, <1>2, <1>4, HandleResultHolds DEF HandleResult
<1>5. CASE HandleTrigger
  BY <1>1, <1>5, TriggerHolds
<1>6. ASSUME NEW i \in Item, DropItem(i) \/ PrepareRef(i) \/ LaunchItem(i) \/ WaitItem(i)
      PROVE  Holds(q, bs)'
  <2>1. Holds(q', bs')
    BY <1>1, <1>6, ProcessingHolds
  <2>2. item' = item /\ layout' = layout
    BY <1>6 DEF DropItem, PrepareRef, LaunchItem, WaitItem
  <2> QED BY <1>2, <2>1, <2>2
<1>7. ASSUME NEW i \in Item, NEW j \in Job, NEW r \in {"SUCCESS", "FAILURE", "retry"},
             BuildCompleted(i, j, r)
      PROVE  Holds(q, bs)'
  <2>1. Holds(q', bs')
    BY <1>1, <1>7, BuildCompletedHolds
  <2> QED BY <1>2, <1>7, <2>1 DEF BuildCompleted
<1>8. ASSUME NEW i \in Item, Promote(i) PROVE Holds(q, bs)'
  BY <1>1, <1>8, PromoteHolds
<1> QED BY <1>3, <1>4, <1>5, <1>6, <1>7, <1>8 DEF Next, SchedulerStep

(* While a build runs, the jobs with hold-following-changes on all the     *)
(* items it is tested on top of have succeeded, whatever is moved, reset,  *)
(* retried, promoted or reported ahead of it, as long as no other          *)
(* configuration is installed: a reconfiguration enqueues every item       *)
(* behind the last one without stopping its builds, and may give a change  *)
(* other jobs.                                                             *)
THEOREM HoldsAreRespected ==
  Spec /\ [][\A new \in Layouts : ~Reconfigure(new)]_vars => []HoldRespected
<1>1. Init => Holds(q, bs)
  BY InitHolds
<1>2. Init => TreeInv
  BY InitTreeInv
<1>3. /\ TypeInv /\ TypeInv' /\ TreeInv /\ [Next]_vars
      /\ [\A new \in Layouts : ~Reconfigure(new)]_vars
      => TreeInv'
  <2> SUFFICES ASSUME TypeInv, TypeInv', TreeInv, [Next]_vars,
                      [\A new \in Layouts : ~Reconfigure(new)]_vars
               PROVE  TreeInv'
    OBVIOUS
  <2>1. QueueInv /\ MutexInv /\ MutexInv'
    BY DEF TypeInv, GateInv
  <2>2. CASE \A new \in Layouts : ~Reconfigure(new)
    BY <2>1, <2>2, NextTreeInv
  <2>3. CASE UNCHANGED vars
    BY <2>3 DEF vars, scheduled, TreeInv, TreesRooted, TreeSet, Outstanding, AskedFor, OneEach
  <2> QED BY <2>2, <2>3
<1>4. /\ TypeInv /\ TreeInv /\ Holds(q, bs) /\ [Next]_vars
      /\ [\A new \in Layouts : ~Reconfigure(new)]_vars
      => Holds(q, bs)'
  <2> SUFFICES ASSUME TypeInv, TreeInv, Holds(q, bs), [Next]_vars,
                      [\A new \in Layouts : ~Reconfigure(new)]_vars
               PROVE  Holds(q, bs)'
    OBVIOUS
  <2>1. CASE \A new \in Layouts : ~Reconfigure(new)
    BY <2>1, NextHolds
  <2>2. CASE UNCHANGED vars
    BY <2>2 DEF vars, scheduled, Holds, Cleared, Jobs
  <2> QED BY <2>1, <2>2
<1>5. TypeInv /\ Holds(q, bs) => HoldRespected
  <2> SUFFICES ASSUME TypeInv, Holds(q, bs) PROVE HoldRespected
    OBVIOUS
  <2>1. \A i \in Queued(q) : i \in Item
    BY DEF TypeInv, GateInv, QueueInv, Queues, Queued
  <2> QED BY <2>1 DEF Holds, Cleared, Up, HoldRespected
<1> QED BY <1>1, <1>2, <1>3, <1>4, <1>5, TypeInvariance, PTL DEF Spec

=============================================================================
