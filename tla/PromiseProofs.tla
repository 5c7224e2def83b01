---------------------------- MODULE PromiseProofs ----------------------------
(***************************************************************************)
(* What the gate promises: every change is tested exactly as it is going   *)
(* to be merged, after all the changes it needs, and its jobs run on the   *)
(* changes they are told of; and so the gate implements the ideal one,     *)
(* which tests one change at a time.  It never sleeps on work that nobody  *)
(* is going to wake it for.                                                *)
(*                                                                         *)
(* This is proved of a gate that can count on its services (Reliable) and  *)
(* whose configuration stays as it is: what else they do breaks it, as the *)
(* runs gate_submit_failed, gate_non_voting and gate_reconfigured show.    *)
(*                                                                         *)
(* The steps are summed up first by what they do to the queue and to build *)
(* sets.  The invariant then has four parts: the fields of a build set go  *)
(* together, with what was asked and answered for it (SetsInv, OwnInv);    *)
(* the queue is in the order of the needs, and a pass over it leaves the   *)
(* nearest items that are not failing in one line (OrderInv); and every    *)
(* test that has begun is of the branch as it is going to be, or is not    *)
(* going to be kept (WorthInv).  Two more say that what an item waits for  *)
(* is going to come (OwedInv), and that the first item has something out   *)
(* whenever the scheduler is done with it (AwakeInv).  The last says why   *)
(* an item is where it is (CauseInv): in its place, or behind one that has *)
(* failed; so no test begins anew without cause.                           *)
(***************************************************************************)
EXTENDS GateProofs

-----------------------------------------------------------------------------
(* A gate whose services fail in no other way than Gerrit refusing a       *)
(* submission or the merge not showing in the repository, and a worker     *)
(* answering without a result, and in which each change has a voting job.  *)
Reliable ==
  /\ Faults \subseteq {"refused", "unseen", "retry"}
  /\ \A l \in Layouts, c \in Gated : l.jobs[c] \cap l.voting # {}

(* Nothing is reported to Gerrit but failures, or the change of i merges.  *)
Unreported == trunk' = trunk /\ status' = status
Merges(i) == trunk' = Append(trunk, item[i]) /\ status' = [status EXCEPT ![item[i]] = "merged"]

(* A report then says so, and does not raise: it is of a success unless    *)
(* the merge does not show.                                                *)
LEMMA ReliableReport ==
  ASSUME Reliable, NEW i \in Item, item[i] \in Change \ Merged, trunk \in Seq(Change),
         NEW b, NEW outcome \in {"merged", "failed", "raised"}, ReportItem(i, b, outcome)
  PROVE  /\ outcome # "raised"
         /\ \/ Unreported /\ outcome = "failed"
            \/ /\ Merges(i) /\ AllJobsSucceeded(item[i], b)
               /\ outcome = "merged" \/ "unseen" \in Faults
<1> DEFINE success == AllJobsSucceeded(item[i], b)
           sends == i \notin reported /\ Jobs(item[i]) # {}
           submits == sends /\ success /\ status[item[i]] = "ready" /\ item[i] \notin Merged
<1>1. PICK fault \in {"none", "refused", "reporter", "unseen", "query"} :
        /\ MayFault(fault)
        /\ fault \in {"refused", "reporter"} => submits
        /\ trunk' = IF submits /\ fault # "refused" THEN Append(trunk, item[i]) ELSE trunk
        /\ LET reportedNow == i \in reported \/ (sends /\ fault # "reporter")
               seen == reportedNow /\ item[i] \in ToSet(trunk')
           IN  /\ status' = IF seen /\ fault # "query"
                            THEN [status EXCEPT ![item[i]] = "merged"] ELSE status
               /\ outcome = IF fault = "query" THEN "raised"
                            ELSE IF success /\ seen /\ fault = "none" THEN "merged" ELSE "failed"
  BY DEF ReportItem
<1>2. fault \notin {"reporter", "query"}
  BY <1>1 DEF MayFault, Reliable
<1>3. CASE submits /\ fault # "refused"
  <2>1. item[i] \in ToSet(trunk')
    <3>1. trunk' = Append(trunk, item[i])
      BY <1>1, <1>3
    <3>2. /\ Len(trunk) + 1 \in DOMAIN trunk'
          /\ trunk'[Len(trunk) + 1] = item[i]
      BY <3>1
    <3> QED BY <3>2 DEF ToSet
  <2> QED BY <1>1, <1>2, <1>3, <2>1 DEF Merges, MayFault
<1>4. CASE ~(submits /\ fault # "refused")
  <2>1. trunk' = trunk /\ item[i] \notin ToSet(trunk')
    BY <1>1, <1>4 DEF Merged
  <2> QED BY <1>1, <1>2, <2>1 DEF Unreported
<1> QED BY <1>3, <1>4

-----------------------------------------------------------------------------
(* The pass over the queue.                                                *)

(* What is yet to be processed, and what the next item has to be behind:   *)
(* the nearest item that is not failing and what that one is behind.       *)
Todo == ToSet(pass.todo)
Spine == IF pass.nnfi = NoItem THEN {} ELSE {pass.nnfi} \cup Up(q, pass.nnfi)

(* What was processed already comes first, and is failing but for the      *)
(* spine.                                                                  *)
SpineInv ==
  pass.phase = "queue" =>
    /\ \A b \in Spine : b \in Queued(q) /\ b \notin Todo /\ ~bs[b].failing
    /\ \A b \in Queued(q) \ Todo : b \in Spine \/ bs[b].failing
    /\ \A b \in Queued(q) \ Todo, t \in Todo : Precedes(q, b, t)

(* The processing goes on from r with n as the nearest non-failing item.   *)
StepsOn(r, n) ==
  /\ pass.phase = "queue" /\ pass'.phase = "queue"
  /\ r \in Todo /\ Todo' = Todo \ {r} /\ pass'.nnfi = n

(* _processOneItem hands on what the loop goes on with.                    *)
LEMMA GoneOn ==
  ASSUME QueueInv, NEW r, Processing(r), NEW n, NEW changed, GoOn(n, changed)
  PROVE  StepsOn(r, n)
<1>1. /\ pass \in Passes /\ pass.phase = "queue" /\ pass.todo # <<>> /\ r = Head(pass.todo)
      /\ Orderly(q, pass.todo, pass.nnfi)
  BY DEF QueueInv, PassInv, Processing
<1>2. PICK todo \in Seq(Item) : todo = pass.todo
  BY <1>1 DEF Passes
<1>3. /\ pass'.phase = pass.phase /\ pass'.todo = Tail(todo) /\ pass'.nnfi = n
  BY <1>1, <1>2 DEF GoOn, Passes
<1>4. \A m \in 1 .. Len(Tail(todo)) : Tail(todo)[m] # r
  BY <1>2, ItemProcessed
<1>5. /\ Len(todo) \in Nat \ {0} /\ DOMAIN todo = 1 .. Len(todo) /\ r = todo[1]
      /\ DOMAIN Tail(todo) = 1 .. Len(todo) - 1 /\ Len(Tail(todo)) = Len(todo) - 1
      /\ \A m \in 1 .. Len(todo) - 1 : Tail(todo)[m] = todo[m + 1]
  BY <1>1, <1>2
<1>6. ToSet(Tail(todo)) = ToSet(todo) \ {r} /\ r \in ToSet(todo)
  <2>1. r \in ToSet(todo)
    BY <1>5 DEF ToSet
  <2>2. ASSUME NEW k \in ToSet(Tail(todo)) PROVE k \in ToSet(todo) /\ k # r
    BY <1>4, <1>5 DEF ToSet
  <2>3. ASSUME NEW k \in ToSet(todo), k # r PROVE k \in ToSet(Tail(todo))
    <3>1. PICK m \in 1 .. Len(todo) : todo[m] = k
      BY <1>5, <2>3 DEF ToSet
    <3>2. m - 1 \in 1 .. Len(todo) - 1 /\ Tail(todo)[m - 1] = k
      BY <1>5, <2>3, <3>1
    <3> QED BY <1>5, <3>2 DEF ToSet
  <2> QED BY <2>1, <2>2, <2>3
<1> QED BY <1>1, <1>2, <1>3, <1>6 DEF StepsOn, Todo

(* Where the item that is processed stands.                                *)
LEMMA WhereItStands ==
  ASSUME QueueInv, SpineInv, NEW r, Processing(r)
  PROVE  /\ r \in Item /\ r \in Queued(q) /\ r \in Todo /\ r \notin Spine
         /\ Todo \subseteq Queued(q) /\ Queued(q) \subseteq Item
         /\ \A t \in Todo \ {r} : Precedes(q, r, t)
         /\ \A b \in Queued(q) \ Todo : Precedes(q, b, r)
         /\ \A b \in Queued(q) : Precedes(q, b, r) => b \notin Todo
         /\ \A a \in Up(q, r) : a \in Queued(q) \ Todo
         /\ \A i \in Item : r \in Up(q, i) => i \in Todo /\ i # r
<1>1. /\ pass \in Passes /\ pass.phase = "queue" /\ pass.todo # <<>> /\ r = Head(pass.todo)
      /\ Orderly(q, pass.todo, pass.nnfi) /\ q \in Queues /\ WellLinked(q)
  BY DEF QueueInv, PassInv, Processing
<1>2. PICK todo \in Seq(Item) : todo = pass.todo
  BY <1>1 DEF Passes
<1>3. /\ Len(todo) \in Nat \ {0} /\ DOMAIN todo = 1 .. Len(todo) /\ r = todo[1]
  BY <1>1, <1>2
<1>4. \A m \in 1 .. Len(todo) : todo[m] \in Queued(q)
  BY <1>1, <1>2 DEF Orderly
<1>5. \A m, n \in 1 .. Len(todo) : m < n => Precedes(q, todo[m], todo[n])
  BY <1>1, <1>2 DEF Orderly
<1>6. r \in Todo /\ Todo \subseteq Queued(q)
  BY <1>2, <1>3, <1>4 DEF Todo, ToSet
<1>7. ASSUME NEW t \in Todo, t # r PROVE Precedes(q, r, t)
  <2>1. PICK m \in 1 .. Len(todo) : todo[m] = t
    BY <1>2, <1>3 DEF Todo, ToSet
  <2>2. 1 < m /\ 1 \in 1 .. Len(todo)
    BY <1>3, <1>7, <2>1
  <2> QED BY <1>3, <1>5, <2>1, <2>2
<1>8. /\ \A b \in Queued(q) \ Todo : Precedes(q, b, r)
      /\ r \notin Spine
  BY <1>1, <1>6 DEF SpineInv
<1>9. /\ \A a : ~Precedes(q, a, a)
      /\ \A a, b, c : Precedes(q, a, b) /\ Precedes(q, b, c) => Precedes(q, a, c)
  BY <1>1, PrecedesIsStrict DEF WellLinked
<1>10. \A b \in Queued(q) : Precedes(q, b, r) => b \notin Todo
  BY <1>7, <1>9
<1>11. Queued(q) \subseteq Item
  BY <1>1 DEF Queues, Queued
<1>12. \A a \in Up(q, r) : a \in Queued(q) \ Todo
  BY <1>1, <1>6, <1>10, <1>11, UpIsEarlier
<1>13. ASSUME NEW i \in Item, r \in Up(q, i) PROVE i \in Todo /\ i # r
  <2>1. i \in Queued(q) /\ Precedes(q, r, i) /\ i # r
    BY <1>1, <1>13, UpIsEarlier
  <2>2. CASE i \notin Todo
    BY <1>8, <1>9, <2>1, <2>2
  <2> QED BY <2>1, <2>2
<1> QED BY <1>6, <1>7, <1>8, <1>10, <1>11, <1>12, <1>13

-----------------------------------------------------------------------------
(* What the processing of an item comes to, in a reliable gate.            *)

(* No job of this build set was started, and its merge did not fail.       *)
Unstarted(b) == ~b.unable /\ \A j \in Job : b.builds[j] = "absent"

(* c is a new build set.                                                   *)
Anew(c) ==
  c.merge = "NEW" /\ ~c.ref /\ c.other = <<>> /\ ~c.failing /\ Unstarted(c)

(* cancelJobs resets a build set that has its ref, and cancels one that    *)
(* has not, or any when it is told not to prime.                           *)
Resets(b, c) == IF b.ref THEN c.gen = b.gen + 1 /\ Anew(c) ELSE Cancels(b, c)

(* cancelJobs does so to the build sets of the items it is given.          *)
LEMMA CancelResets ==
  ASSUME NEW sets \in [Item -> BuildSets], NEW items, NEW i \in Item
  PROVE  LET c == CancelJobs(sets, items, TRUE)[i]
             d == CancelJobs(sets, items, FALSE)[i]
         IN  /\ i \notin items => c = sets[i] /\ d = sets[i]
             /\ i \in items => Resets(sets[i], c) /\ Cancels(sets[i], d)
<1>1. PICK yes \in BOOLEAN : yes = TRUE
  OBVIOUS
<1>2. PICK no \in BOOLEAN : no = FALSE
  OBVIOUS
<1>3. PICK c : c = CancelJobs(sets, items, yes)[i]
  OBVIOUS
<1>4. PICK d : d = CancelJobs(sets, items, no)[i]
  OBVIOUS
<1>5. /\ i \notin items => c = sets[i]
      /\ i \in items /\ sets[i].ref => c = NewBuildSet(sets[i].gen + 1)
      /\ i \in items /\ ~sets[i].ref => Cancels(sets[i], c)
  BY <1>1, <1>3, CancelWritten
<1>6. /\ i \notin items => d = sets[i]
      /\ i \in items => Cancels(sets[i], d)
  BY <1>2, <1>4, CancelWritten
<1>7. ASSUME i \in items, sets[i].ref PROVE Resets(sets[i], c)
  <2>1. PICK n : n = sets[i].gen + 1
    OBVIOUS
  <2>2. c = NewBuildSet(n)
    BY <1>5, <1>7, <2>1
  <2>3. /\ c.gen = n /\ c.merge = "NEW" /\ c.ref = FALSE /\ c.other = <<>>
        /\ c.unable = FALSE /\ c.failing = FALSE /\ \A j \in Job : c.builds[j] = "absent"
    BY <2>2 DEF NewBuildSet
  <2>4. Anew(c)
    BY <2>3 DEF Anew, Unstarted
  <2> QED BY <1>7, <2>1, <2>3, <2>4 DEF Resets
<1>8. i \in items => Resets(sets[i], c)
  BY <1>5, <1>7 DEF Resets
<1> QED BY <1>1, <1>2, <1>3, <1>4, <1>5, <1>6, <1>8

(* An item settles: it stays and is judged, or leaves; what was behind it  *)
(* is then reset, unless it merged.                                        *)
Stays(r, x, s) ==
  /\ ~(q.ahead[r] = NoItem /\ AllJobsComplete(item[r], s[r]))
  /\ q' = x /\ Judges(s, bs', r, Failing(r, s[r])) /\ Unreported
  /\ StepsOn(r, IF Failing(r, s[r]) THEN pass.nnfi ELSE r)

ResetsBehind(r, x, s) ==
  \A i \in Item \ {r} : IF r \in Up(x, i) THEN Resets(s[i], bs'[i]) ELSE bs'[i] = s[i]

Leaves(r, x, s) ==
  /\ q.ahead[r] = NoItem /\ AllJobsComplete(item[r], s[r])
  /\ q' = DequeueItem(x, r) /\ StepsOn(r, pass.nnfi)
  /\ bs'[r].builds = s[r].builds /\ bs'[r].gen = s[r].gen
  /\ \/ /\ Merges(r) /\ AllJobsSucceeded(item[r], s[r])
        /\ \/ \A i \in Item \ {r} : bs'[i] = s[i]
           \/ ResetsBehind(r, x, s) /\ "unseen" \in Faults
     \/ Unreported /\ ResetsBehind(r, x, s)

(* The last part of _processOneItem comes to one of the two.               *)
LEMMA SettleOutcomes ==
  ASSUME Reliable, QueueInv, NEW r, Processing(r), item[r] \notin Merged,
         trunk \in Seq(Change), NEW x \in Queues, WellLinked(x),
         NEW s \in [Item -> BuildSets], Settle(r, x, s)
  PROVE  Stays(r, x, s) \/ Leaves(r, x, s)
<1>1. r \in Item /\ item[r] \in Change \ Merged
  BY ProcessedHasChange
<1>2. PICK f : f = Failing(r, s[r])
  OBVIOUS
<1>3. PICK C : C = Behind(x, r)
  OBVIOUS
<1>4. PICK canceled : canceled = CancelJobs(s, C, TRUE)
  OBVIOUS
<1>5. canceled \in [Item -> BuildSets]
  BY <1>4, CancelKeepsTypes
<1>6. \A i \in Item : IF r \in Up(x, i) THEN Resets(s[i], canceled[i]) ELSE canceled[i] = s[i]
  <2>1. \A i \in Item : i \in C <=> r \in Up(x, i)
    BY <1>1, <1>3, BehindIsClosed
  <2> QED BY <1>4, <2>1, CancelResets
<1> DEFINE atHead == q.ahead[r] = NoItem /\ AllJobsComplete(item[r], s[r])
<1>7. CASE /\ atHead /\ ReportItem(r, s[r], "merged") /\ q' = DequeueItem(x, r)
           /\ bs' = [s EXCEPT ![r].failing = f] /\ GoOn(pass.nnfi, TRUE)
  <2>1. StepsOn(r, pass.nnfi)
    BY <1>7, GoneOn
  <2>2. Merges(r) /\ AllJobsSucceeded(item[r], s[r])
    BY <1>1, <1>7, ReliableReport
  <2>3. \A i \in Item \ {r} : bs'[i] = s[i]
    BY <1>7
  <2>4. bs'[r].builds = s[r].builds /\ bs'[r].gen = s[r].gen
    BY <1>1, <1>7, FailingWritten DEF Judges, SameRequest
  <2> QED BY <1>7, <2>1, <2>2, <2>3, <2>4 DEF Leaves
<1>8. CASE /\ atHead /\ ReportItem(r, s[r], "failed") /\ q' = DequeueItem(x, r)
           /\ bs' = [canceled EXCEPT ![r].failing = TRUE] /\ GoOn(pass.nnfi, TRUE)
  <2>1. StepsOn(r, pass.nnfi)
    BY <1>8, GoneOn
  <2>2. \/ Unreported
        \/ Merges(r) /\ AllJobsSucceeded(item[r], s[r]) /\ "unseen" \in Faults
    BY <1>1, <1>8, ReliableReport
  <2>3. \A i \in Item \ {r} : bs'[i] = canceled[i]
    BY <1>5, <1>8
  <2>4. ResetsBehind(r, x, s)
    BY <1>6, <2>3 DEF ResetsBehind
  <2>5. bs'[r].builds = s[r].builds /\ bs'[r].gen = s[r].gen
    <3>1. PICK yes \in BOOLEAN : yes = TRUE
      OBVIOUS
    <3>2. canceled[r] = s[r]
      <4>1. r \notin Up(x, r)
        <5>1. ~Precedes(x, r, r)
          BY PrecedesIsStrict DEF WellLinked
        <5> QED BY <1>1, <5>1, UpIsEarlier
      <4> QED BY <1>1, <1>6, <4>1
    <3>3. bs' = [canceled EXCEPT ![r].failing = yes]
      BY <1>8, <3>1
    <3>4. Judges(canceled, bs', r, yes)
      BY <1>1, <1>5, <3>3, FailingWritten
    <3> QED BY <3>2, <3>4 DEF Judges, SameRequest
  <2> QED BY <1>8, <2>1, <2>2, <2>4, <2>5 DEF Leaves
<1>9. CASE atHead /\ ReportItem(r, s[r], "raised")
  BY <1>1, <1>9, ReliableReport
<1>10. CASE /\ ~atHead /\ q' = x /\ bs' = [s EXCEPT ![r].failing = f]
            /\ GoOn(IF f THEN pass.nnfi ELSE r, Misplaced(r)) /\ NotReporting
  <2>1. PICK n : n = IF f THEN pass.nnfi ELSE r
    OBVIOUS
  <2>2. StepsOn(r, n)
    BY <1>10, <2>1, GoneOn
  <2>3. Judges(s, bs', r, f)
    BY <1>1, <1>10, FailingWritten
  <2>4. Unreported
    BY <1>10 DEF NotReporting, Unreported, gerrit
  <2> QED BY <1>2, <1>10, <2>1, <2>2, <2>3, <2>4 DEF Stays
<1> QED BY <1>2, <1>3, <1>4, <1>7, <1>8, <1>9, <1>10 DEF Settle

(* The changes of the queue are gated and not merged, and what the cache   *)
(* says is merged is what is in the branch.                                *)
TrunkInv ==
  /\ \A c \in Change : status[c] = "merged" <=> c \in Merged
  /\ \A i \in Queued(q) : item[i] \in Gated \ Merged

(* What i is tested with.                                                  *)
Content(i) == ToSet(bs[i].other) \cup {item[i]}

(* The fields of a build set go together: no merge is asked for before the *)
(* ref is named, no job starts before the merge is answered, and the       *)
(* commit has what the build set lists, on top of what had merged.         *)
SetOk(i) ==
  /\ ~bs[i].ref => bs[i].merge = "NEW" /\ bs[i].other = <<>>
  /\ bs[i].ref => bs[i].merge # "NEW" /\ i \in Queued(q)
  /\ bs[i].merge # "COMPLETE" => Unstarted(bs[i])
  /\ bs[i].merge = "COMPLETE" /\ ~bs[i].unable =>
       Content(i) \subseteq bs[i].commit /\ bs[i].commit \subseteq Merged \cup Content(i)

(* An item not yet made, or in the queue.                                  *)
Open(i) == item[i] = Idle \/ i \in Queued(q)
SetsInv == \A i \in Item : Open(i) => SetOk(i)

(* The same request, and what has begun is canceled.                       *)
Halts(b, c) ==
  /\ SameRequest(b, c)
  /\ \A j \in Job : c.builds[j] = IF b.builds[j] = "absent" THEN "absent" ELSE "CANCELED"

(* The merge of r on top of what is ahead of it is asked for.              *)
Asks(r) ==
  /\ bs'[r].merge = "PENDING" /\ bs'[r].ref /\ ~bs'[r].failing /\ Unstarted(bs'[r])
  /\ bs'[r].other = ChangesAhead(q', r)
  /\ merging' = merging \cup {[item |-> r, gen |-> bs'[r].gen, kind |-> "merge",
                               content |-> ToSet(ChangesAhead(q', r)) \cup {item[r]}]}

(* It fails because a change it needs does: so does what is behind it.     *)
StaysCanceled(r) ==
  /\ NeedsAFailingItem(r) /\ NeedsMet(item[r], ToSet(ChangesIn(q)))
  /\ q' = q /\ Unreported /\ merging' = merging
  /\ \A i \in Item :
       /\ i = r \/ r \in Up(q, i) => Halts(bs[i], bs'[i])
       /\ i # r /\ r \in Up(q, i) => bs'[i].failing = bs[i].failing
       /\ i # r /\ r \notin Up(q, i) => bs'[i] = bs[i]
  /\ bs'[r].failing
  /\ StepsOn(r, pass.nnfi)

(* It is moved behind the nearest non-failing item and begins anew.        *)
StaysMoved(r) ==
  /\ ~NeedsAFailingItem(r) /\ NeedsMet(item[r], ToSet(ChangesIn(q)))
  /\ q.ahead[r] # pass.nnfi /\ q' = MoveItem(q, r, pass.nnfi)
  /\ Unreported
  /\ \A i \in Item \ {r} : bs'[i] = bs[i]
  /\ IF bs[r].ref THEN bs'[r].gen > bs[r].gen ELSE bs'[r].gen = bs[r].gen
  /\ Asks(r) \/ (merging' = merging /\ Anew(bs'[r]))
  /\ StepsOn(r, r)

(* It is where it should be: it waits, its jobs start, or its merge is     *)
(* asked for.                                                              *)
StaysAligned(r) ==
  /\ ~NeedsAFailingItem(r) /\ NeedsMet(item[r], ToSet(ChangesIn(q)))
  /\ q.ahead[r] = pass.nnfi /\ q' = q /\ Unreported
  /\ \A i \in Item \ {r} : bs'[i] = bs[i]
  /\ \/ /\ merging' = merging /\ SameRequest(bs[r], bs'[r])
        /\ \A j \in Job :
             \/ bs'[r].builds[j] = bs[r].builds[j]
             \/ /\ bs[r].builds[j] = "absent" /\ bs'[r].builds[j] = "running"
                /\ bs[r].merge = "COMPLETE" /\ ~bs[r].unable /\ IsActionable(q, window, r)
        /\ bs'[r].failing => bs[r].unable \/ AnyJobFailed(item[r], bs[r])
        /\ AnyJobFailed(item[r], bs[r]) => bs'[r].failing
     \/ ~bs[r].ref /\ bs'[r].gen = bs[r].gen /\ Asks(r)
  /\ StepsOn(r, IF bs'[r].failing THEN pass.nnfi ELSE r)

(* None of its jobs starts.                                                *)
StartsNothing(r) == TamerSet(bs[r], bs'[r])

(* It leaves without its change merging.                                   *)
LeavesFailed(r) ==
  /\ q' = DequeueItem(q, r) /\ Unreported /\ merging' = merging
  /\ ResetsBehind(r, q, bs) /\ StartsNothing(r)
  /\ StepsOn(r, pass.nnfi)

(* Its change merges: it was at the head, and all its voting jobs have     *)
(* succeeded.                                                              *)
LeavesMerged(r) ==
  /\ ~NeedsAFailingItem(r) /\ NeedsMet(item[r], ToSet(ChangesIn(q)))
  /\ q.ahead[r] = NoItem /\ pass.nnfi = NoItem /\ q' = DequeueItem(q, r)
  /\ Merges(r) /\ AllJobsSucceeded(item[r], bs[r]) /\ merging' = merging
  /\ \/ \A i \in Item \ {r} : bs'[i] = bs[i]
     \/ ResetsBehind(r, q, bs) /\ "unseen" \in Faults
  /\ StartsNothing(r)
  /\ StepsOn(r, pass.nnfi)

(* What a reliable gate may count on when it processes an item.            *)
Steadily ==
  /\ Reliable /\ TypeInv /\ TreeInv /\ SpineInv /\ TrunkInv /\ SetsInv

(* A build set with nothing started neither is complete nor has failed,    *)
(* and one whose jobs were canceled has not succeeded.                     *)
LEMMA UnstartedIsOpen ==
  ASSUME Reliable, layout \in Layouts, NEW c \in Gated, NEW b
  PROVE  /\ (\A j \in Job : b.builds[j] = "absent") => ~AllJobsComplete(c, b) /\ ~AnyJobFailed(c, b)
         /\ (\A j \in Job : b.builds[j] # "SUCCESS") => ~AllJobsSucceeded(c, b)
         /\ (\A j \in Jobs(c) : b.builds[j] # "SUCCESS") => ~AllJobsSucceeded(c, b)
<1>1. PICK j \in Jobs(c) : j \in layout.voting
  BY DEF Reliable, Jobs
<1>2. Jobs(c) \subseteq Job
  BY LayoutAssumption DEF Jobs
<1>3. j \in Job
  BY <1>2
<1> QED BY <1>1, <1>2, <1>3 DEF AllJobsComplete, AnyJobFailed, AllJobsSucceeded, Finished

(* Canceling first makes no difference to what a reset does.               *)
LEMMA CancelThenReset ==
  ASSUME NEW b, NEW c, NEW d, Cancels(b, c), Resets(c, d)
  PROVE  Resets(b, d)
BY DEF Resets, Cancels, SameRequest

(* The item that is processed, and what is known of it.                    *)
LEMMA SteadyFacts ==
  ASSUME Steadily, NEW r, Processing(r)
  PROVE  /\ Reliable /\ QueueInv /\ q \in Queues /\ WellLinked(q) /\ trunk \in Seq(Change)
         /\ layout \in Layouts /\ bs \in [Item -> BuildSets]
         /\ r \in Item /\ r \in Queued(q)
         /\ item[r] \in Change \ Merged /\ item[r] \in Gated
         /\ SetOk(r) /\ bs[r] \in BuildSets
<1>1. r \in Item /\ r \in Queued(q) /\ item[r] \in Change
  <2>1. QueueInv
    BY DEF Steadily, TypeInv, GateInv
  <2> QED BY <2>1, ItemProcessed, ProcessedHasChange
<1>2. SetOk(r)
  BY <1>1 DEF Steadily, SetsInv, Open
<1>3. bs \in [Item -> BuildSets]
  BY DEF Steadily, TypeInv, SetsTyped
<1> QED BY <1>1, <1>2, <1>3 DEF Steadily, TypeInv, GateInv, QueueInv, ServicesTyped, TrunkInv

(* An item that cannot merge any more.                                     *)
LEMMA DropOutcome ==
  ASSUME Steadily, NEW r \in Item, DropItem(r)
  PROVE  LeavesFailed(r)
<1>1. Processing(r)
  BY DEF DropItem
<1>2. /\ Reliable /\ QueueInv /\ q \in Queues /\ WellLinked(q) /\ trunk \in Seq(Change)
      /\ layout \in Layouts /\ bs \in [Item -> BuildSets]
      /\ item[r] \in Change \ Merged /\ item[r] \in Gated
  BY <1>1, SteadyFacts
<1>3. PICK C : C = WithBehind(q, r)
  OBVIOUS
<1>4. PICK canceled \in [Item -> BuildSets] : canceled = CancelJobs(bs, C, TRUE)
  BY <1>2, CancelKeepsTypes
<1>5. PICK b : b = Skip(canceled[r], Jobs(item[r]))
  OBVIOUS
<1>6. /\ q' = DequeueItem(q, r) /\ bs' = [canceled EXCEPT ![r] = b] /\ merging' = merging
      /\ \/ ReportItem(r, b, "raised")
         \/ \E outcome \in {"merged", "failed"} : ReportItem(r, b, outcome) /\ GoOn(pass.nnfi, TRUE)
  BY <1>3, <1>4, <1>5 DEF DropItem
<1>7. ~AllJobsSucceeded(item[r], b)
  <2>1. PICK c \in BuildSets : c = canceled[r]
    BY <1>4
  <2>2. \A j \in Job : b.builds[j] = IF j \in Jobs(item[r]) THEN "SKIPPED" ELSE c.builds[j]
    BY <1>5, <2>1, SkipWritten DEF Skips
  <2>3. Jobs(item[r]) \subseteq Job
    BY <1>2, LayoutAssumption DEF Jobs
  <2>4. \A j \in Jobs(item[r]) : b.builds[j] # "SUCCESS"
    BY <2>2, <2>3
  <2> QED BY <1>2, <2>4, UnstartedIsOpen
<1>8. ASSUME NEW outcome \in {"merged", "failed", "raised"}, ReportItem(r, b, outcome)
      PROVE  Unreported /\ outcome # "raised"
  BY <1>2, <1>7, <1>8, ReliableReport
<1>9. Unreported /\ StepsOn(r, pass.nnfi)
  <2>1. ~ReportItem(r, b, "raised")
    BY <1>8
  <2>2. PICK outcome \in {"merged", "failed"} : ReportItem(r, b, outcome) /\ GoOn(pass.nnfi, TRUE)
    BY <1>6, <2>1
  <2>3. StepsOn(r, pass.nnfi)
    BY <1>1, <1>2, <2>2, GoneOn
  <2> QED BY <1>8, <2>2, <2>3
<1>10. ResetsBehind(r, q, bs)
  <2>1. \A i \in Item : i \in C <=> i = r \/ r \in Up(q, i)
    BY <1>2, <1>3, BehindIsAbove
  <2>2. \A i \in Item : /\ i \notin C => canceled[i] = bs[i]
                        /\ i \in C => Resets(bs[i], canceled[i])
    BY <1>2, <1>4, CancelResets
  <2>3. \A i \in Item \ {r} : bs'[i] = canceled[i]
    BY <1>6
  <2> QED BY <2>1, <2>2, <2>3 DEF ResetsBehind
<1>11. StartsNothing(r)
  <2>1. PICK c \in BuildSets : c = canceled[r]
    BY <1>4
  <2>2. /\ b.gen = c.gen
        /\ \A j \in Job : b.builds[j] = IF j \in Jobs(item[r]) THEN "SKIPPED" ELSE c.builds[j]
    BY <1>5, <2>1, SkipWritten DEF Skips, SameRequest
  <2>3. c = bs[r] \/ Resets(bs[r], c)
    BY <1>2, <1>4, <2>1, CancelResets
  <2>4. bs[r].gen \in Nat
    BY <1>2 DEF BuildSets
  <2>5. bs'[r] = b
    BY <1>4, <1>6
  <2>6. CASE c = bs[r]
    BY <2>2, <2>5, <2>6 DEF StartsNothing, TamerSet
  <2>7. CASE bs[r].ref /\ Resets(bs[r], c)
    BY <2>2, <2>4, <2>5, <2>7 DEF StartsNothing, TamerSet, Resets, Anew, Unstarted
  <2>8. CASE ~bs[r].ref /\ Resets(bs[r], c)
    BY <2>2, <2>4, <2>5, <2>8 DEF StartsNothing, TamerSet, Resets, Cancels, SameRequest
  <2> QED BY <2>3, <2>6, <2>7, <2>8
<1> QED BY <1>6, <1>9, <1>10, <1>11 DEF LeavesFailed

(* An item that needs a failing one.                                       *)
LEMMA CanceledOutcome ==
  ASSUME Steadily, NEW r \in Item, NeedsAFailingItem(r),
         PrepareRef(r) \/ LaunchItem(r) \/ WaitItem(r)
  PROVE  StaysCanceled(r) \/ LeavesFailed(r)
<1>1. WaitItem(r)
  BY DEF PrepareRef, LaunchItem, MayPrepare
<1>2. Processing(r) /\ merging' = merging /\ NeedsMet(item[r], ToSet(ChangesIn(q)))
  BY <1>1 DEF WaitItem
<1>3. /\ Reliable /\ QueueInv /\ q \in Queues /\ WellLinked(q) /\ trunk \in Seq(Change)
      /\ layout \in Layouts /\ bs \in [Item -> BuildSets]
      /\ item[r] \in Change \ Merged /\ item[r] \in Gated
  BY <1>2, SteadyFacts
<1>4. PICK C : C = WithBehind(q, r)
  OBVIOUS
<1>5. PICK s \in [Item -> BuildSets] : s = CancelJobs(bs, C, FALSE)
  BY <1>3, CancelKeepsTypes
<1>6. MovedQueue(r) = q /\ ResetSets(r) = s
  BY <1>4, <1>5 DEF MovedQueue, Misplaced, ResetSets
<1>7. Settle(r, q, s)
  BY <1>1, <1>6 DEF WaitItem
<1>8. Stays(r, q, s) \/ Leaves(r, q, s)
  BY <1>2, <1>3, <1>7, SettleOutcomes
<1>9. \A i \in Item : IF i = r \/ r \in Up(q, i) THEN Cancels(bs[i], s[i]) ELSE s[i] = bs[i]
  <2>1. \A i \in Item : i \in C <=> i = r \/ r \in Up(q, i)
    BY <1>3, <1>4, BehindIsAbove
  <2>2. \A i \in Item : /\ i \notin C => s[i] = bs[i]
                        /\ i \in C => Cancels(bs[i], s[i])
    BY <1>3, <1>5, CancelResets
  <2> QED BY <2>1, <2>2
<1>10. CASE Stays(r, q, s)
  <2>1. PICK f : f = Failing(r, s[r])
    OBVIOUS
  <2>2. f /\ StepsOn(r, pass.nnfi)
    BY <1>10, <2>1 DEF Stays, Failing
  <2>3. /\ \A i \in Item : i # r => bs'[i] = s[i]
        /\ SameRequest(s[r], bs'[r]) /\ bs'[r].builds = s[r].builds /\ bs'[r].failing = f
    BY <1>10, <2>1 DEF Stays, Judges
  <2>4. ASSUME NEW i \in Item, i = r \/ r \in Up(q, i) PROVE Halts(bs[i], bs'[i])
    <3>1. Cancels(bs[i], s[i])
      BY <1>9, <2>4
    <3>2. SameRequest(s[i], bs'[i]) /\ bs'[i].builds = s[i].builds
      BY <2>3 DEF SameRequest
    <3> QED BY <3>1, <3>2 DEF Halts, Cancels, SameRequest
  <2>5. ASSUME NEW i \in Item, i # r, r \in Up(q, i) PROVE bs'[i].failing = bs[i].failing
    BY <1>9, <2>3, <2>5 DEF Cancels
  <2>6. ASSUME NEW i \in Item, i # r, r \notin Up(q, i) PROVE bs'[i] = bs[i]
    BY <1>9, <2>3, <2>6
  <2>7. q' = q /\ Unreported
    BY <1>10 DEF Stays
  <2>8. bs'[r].failing
    BY <2>2, <2>3
  <2> QED BY <1>2, <2>2, <2>4, <2>5, <2>6, <2>7, <2>8 DEF StaysCanceled
<1>11. CASE Leaves(r, q, s)
  <2>1. \A j \in Job : s[r].builds[j] # "SUCCESS"
    BY <1>9 DEF Cancels
  <2>2. ~AllJobsSucceeded(item[r], s[r])
    BY <1>3, <2>1, UnstartedIsOpen
  <2>3. /\ Unreported /\ ResetsBehind(r, q, s) /\ q' = DequeueItem(q, r)
        /\ StepsOn(r, pass.nnfi)
    BY <1>11, <2>2 DEF Leaves
  <2>4. ASSUME NEW i \in Item \ {r}, r \in Up(q, i) PROVE Resets(bs[i], bs'[i])
    <3>1. Cancels(bs[i], s[i]) /\ Resets(s[i], bs'[i])
      BY <1>9, <2>3, <2>4 DEF ResetsBehind
    <3> QED BY <3>1, CancelThenReset
  <2>5. ASSUME NEW i \in Item \ {r}, r \notin Up(q, i) PROVE bs'[i] = bs[i]
    BY <1>9, <2>3, <2>5 DEF ResetsBehind
  <2>6. StartsNothing(r)
    <3>1. bs'[r].builds = s[r].builds /\ bs'[r].gen = s[r].gen
      BY <1>11 DEF Leaves
    <3>2. Cancels(bs[r], s[r])
      BY <1>9
    <3> QED BY <3>1, <3>2 DEF StartsNothing, TamerSet, Cancels, SameRequest
  <2> QED BY <1>2, <2>3, <2>4, <2>5, <2>6 DEF LeavesFailed, ResetsBehind
<1> QED BY <1>8, <1>10, <1>11

(* The set of r to which prepareRef and the merge request are written.     *)
LEMMA PreparedSet ==
  ASSUME QueueInv, NEW r, Processing(r), NEW s \in [Item -> BuildSets], NEW x,
         x = MovedQueue(r), ~s[r].ref, s[r].merge = "NEW", s[r].other = <<>>, Unstarted(s[r])
  PROVE  LET new == [s EXCEPT ![r] = [Prepared(x, r, s[r]) EXCEPT !.merge = "PENDING"]]
         IN  /\ new \in [Item -> BuildSets]
             /\ \A i \in Item : i # r => new[i] = s[i]
             /\ new[r].gen = s[r].gen /\ new[r].merge = "PENDING" /\ new[r].ref
             /\ new[r].other = ChangesAhead(x, r) /\ Unstarted(new[r])
<1>1. r \in Item
  BY ItemProcessed
<1>2. ChangesAhead(x, r) \in Seq(Change)
  BY ChangesAheadTyped
<1>3. PICK new : new = [s EXCEPT ![r] = [Prepared(x, r, s[r]) EXCEPT !.merge = "PENDING"]]
  OBVIOUS
<1>4. new \in [Item -> BuildSets] /\ Prepares(x, s, new, r)
  BY <1>1, <1>2, <1>3, PrepareWritten
<1>5. /\ \A i \in Item : i # r => new[i] = s[i]
      /\ new[r].gen = s[r].gen /\ new[r].merge = "PENDING" /\ new[r].ref
      /\ new[r].other = ChangesAhead(x, r) /\ Unstarted(new[r])
  BY <1>4 DEF Prepares, Unstarted
<1> QED BY <1>3, <1>4, <1>5

(* What PrepareRef does in a reliable gate.                                *)
LEMMA PrepareSettles ==
  ASSUME Reliable, NEW r \in Item, PrepareRef(r), ~ResetSets(r)[r].ref
  PROVE  LET x == MovedQueue(r)
             s == ResetSets(r)
         IN  /\ Settle(r, x, [s EXCEPT ![r] = [Prepared(x, r, s[r]) EXCEPT !.merge = "PENDING"]])
             /\ merging' = merging \cup
                  {[item |-> r, gen |-> s[r].gen, kind |-> "merge",
                    content |-> ToSet(ChangesAhead(x, r)) \cup {item[r]}]}
<1>1. ~MayFault("submit")
  BY DEF MayFault, Reliable
<1> QED BY <1>1 DEF PrepareRef

(* An item that is not where it should be: its build set is new, or was    *)
(* never begun.                                                            *)
LEMMA MovedOutcome ==
  ASSUME Steadily, NEW r \in Item, Misplaced(r),
         PrepareRef(r) \/ LaunchItem(r) \/ WaitItem(r)
  PROVE  StaysMoved(r)
<1>1. /\ Processing(r) /\ ~NeedsAFailingItem(r) /\ q.ahead[r] # pass.nnfi
      /\ NeedsMet(item[r], ToSet(ChangesIn(q)))
  BY DEF PrepareRef, LaunchItem, WaitItem, Misplaced
<1>2. /\ Reliable /\ QueueInv /\ q \in Queues /\ WellLinked(q) /\ trunk \in Seq(Change)
      /\ layout \in Layouts /\ bs \in [Item -> BuildSets]
      /\ item[r] \in Change \ Merged /\ item[r] \in Gated
      /\ SetOk(r) /\ bs[r] \in BuildSets
  BY <1>1, SteadyFacts
<1>3. /\ pass.nnfi \in Item \cup {NoItem}
      /\ pass.nnfi = NoItem \/ Precedes(q, pass.nnfi, r)
  BY <1>1, <1>2, ItemProcessed
<1>4. PICK x \in Queues : x = MoveItem(q, r, pass.nnfi)
  BY <1>1, <1>2, <1>3, MovedUp
<1>5. /\ WellLinked(x) /\ \A i \in Item \ {r} : r \notin Up(x, i)
  <2>1. WellLinked(x) /\ \A i \in Item \ {r} : Up(x, i) = Up(q, i) \ {r}
    BY <1>1, <1>2, <1>3, <1>4, MovedUp
  <2> QED BY <2>1
<1>6. PICK C : C = WithBehind(x, r)
  OBVIOUS
<1>7. \A i \in Item : i \in C <=> i = r
  <2>1. \A i \in Item : i \in C <=> i = r \/ r \in Up(x, i)
    BY <1>4, <1>5, <1>6, BehindIsAbove
  <2> QED BY <1>5, <2>1
<1>8. PICK s \in [Item -> BuildSets] : s = CancelJobs(bs, C, TRUE)
  BY <1>2, CancelKeepsTypes
<1>9. MovedQueue(r) = x /\ ResetSets(r) = s
  BY <1>1, <1>4, <1>6, <1>8 DEF MovedQueue, Misplaced, ResetSets
<1>10. (\A i \in Item \ {r} : s[i] = bs[i]) /\ Resets(bs[r], s[r])
  BY <1>2, <1>7, <1>8, CancelResets
<1>11. /\ s[r].merge = "NEW" /\ ~s[r].ref /\ s[r].other = <<>> /\ Unstarted(s[r])
       /\ IF bs[r].ref THEN s[r].gen > bs[r].gen ELSE s[r].gen = bs[r].gen
  <2>1. bs[r].gen \in Nat
    BY <1>2 DEF BuildSets
  <2>2. CASE bs[r].ref
    BY <1>10, <2>1, <2>2 DEF Resets, Anew
  <2>3. CASE ~bs[r].ref
    <3>1. bs[r].merge = "NEW" /\ bs[r].other = <<>> /\ Unstarted(bs[r])
      BY <1>2, <2>3 DEF SetOk
    <3>2. Cancels(bs[r], s[r])
      BY <1>10, <2>3 DEF Resets
    <3> QED BY <2>3, <3>1, <3>2 DEF Cancels, SameRequest, Unstarted
  <2> QED BY <2>2, <2>3
<1>12. ASSUME NEW new \in [Item -> BuildSets], Settle(r, x, new), Unstarted(new[r]),
              \A i \in Item \ {r} : new[i] = s[i]
       PROVE  /\ q' = x /\ Unreported /\ StepsOn(r, r)
              /\ \A i \in Item \ {r} : bs'[i] = bs[i]
              /\ SameRequest(new[r], bs'[r]) /\ bs'[r].builds = new[r].builds /\ ~bs'[r].failing
  <2>1. ~AllJobsComplete(item[r], new[r]) /\ ~AnyJobFailed(item[r], new[r])
    BY <1>2, <1>12, UnstartedIsOpen DEF Unstarted
  <2>2. PICK f : f = Failing(r, new[r])
    OBVIOUS
  <2>3. ~f
    BY <1>1, <1>12, <2>1, <2>2 DEF Failing, Unstarted
  <2>4. Stays(r, x, new)
    <3>1. Stays(r, x, new) \/ Leaves(r, x, new)
      BY <1>1, <1>2, <1>4, <1>5, <1>12, SettleOutcomes
    <3> QED BY <2>1, <3>1 DEF Leaves
  <2>5. q' = x /\ Unreported /\ StepsOn(r, r) /\ Judges(new, bs', r, f)
    BY <2>2, <2>3, <2>4 DEF Stays
  <2> QED BY <1>10, <1>12, <2>3, <2>5 DEF Judges
<1>13. CASE PrepareRef(r)
  <2>1. PICK new : new = [s EXCEPT ![r] = [Prepared(x, r, s[r]) EXCEPT !.merge = "PENDING"]]
    OBVIOUS
  <2>2. /\ new \in [Item -> BuildSets] /\ \A i \in Item : i # r => new[i] = s[i]
        /\ new[r].gen = s[r].gen /\ new[r].merge = "PENDING" /\ new[r].ref
        /\ new[r].other = ChangesAhead(x, r) /\ Unstarted(new[r])
    BY <1>1, <1>2, <1>9, <1>11, <2>1, PreparedSet
  <2>3. /\ Settle(r, x, new)
        /\ merging' = merging \cup
             {[item |-> r, gen |-> s[r].gen, kind |-> "merge",
               content |-> ToSet(ChangesAhead(x, r)) \cup {item[r]}]}
    BY <1>2, <1>9, <1>11, <1>13, <2>1, PrepareSettles
  <2>4. /\ q' = x /\ Unreported /\ StepsOn(r, r)
        /\ \A i \in Item \ {r} : bs'[i] = bs[i]
        /\ SameRequest(new[r], bs'[r]) /\ bs'[r].builds = new[r].builds /\ ~bs'[r].failing
    BY <1>12, <2>2, <2>3
  <2>5. Asks(r) /\ bs'[r].gen = s[r].gen
    BY <2>2, <2>3, <2>4 DEF Asks, SameRequest, Unstarted
  <2> QED BY <1>1, <1>4, <1>11, <2>4, <2>5 DEF StaysMoved
<1>14. CASE LaunchItem(r)
  BY <1>9, <1>11, <1>14 DEF LaunchItem
<1>15. CASE WaitItem(r)
  <2>1. Settle(r, x, s) /\ merging' = merging
    BY <1>9, <1>15 DEF WaitItem
  <2>2. /\ q' = x /\ Unreported /\ StepsOn(r, r)
        /\ \A i \in Item \ {r} : bs'[i] = bs[i]
        /\ SameRequest(s[r], bs'[r]) /\ bs'[r].builds = s[r].builds /\ ~bs'[r].failing
    BY <1>11, <1>12, <2>1
  <2>3. Anew(bs'[r]) /\ bs'[r].gen = s[r].gen
    BY <1>11, <2>2 DEF Anew, SameRequest, Unstarted
  <2> QED BY <1>1, <1>4, <1>11, <2>1, <2>2, <2>3 DEF StaysMoved
<1> QED BY <1>13, <1>14, <1>15

(* An item that is where it should be.                                     *)
LEMMA AlignedOutcome ==
  ASSUME Steadily, NEW r \in Item, ~NeedsAFailingItem(r), ~Misplaced(r),
         PrepareRef(r) \/ LaunchItem(r) \/ WaitItem(r)
  PROVE  StaysAligned(r) \/ LeavesFailed(r) \/ LeavesMerged(r)
<1>1. Processing(r) /\ NeedsMet(item[r], ToSet(ChangesIn(q)))
  BY DEF PrepareRef, LaunchItem, WaitItem
<1>2. /\ Reliable /\ QueueInv /\ q \in Queues /\ WellLinked(q) /\ trunk \in Seq(Change)
      /\ layout \in Layouts /\ bs \in [Item -> BuildSets]
      /\ item[r] \in Change \ Merged /\ item[r] \in Gated
      /\ SetOk(r) /\ bs[r] \in BuildSets
  BY <1>1, SteadyFacts
<1>3. q.ahead[r] = pass.nnfi
  <2> SUFFICES ASSUME q.ahead[r] # NoItem, status[item[q.ahead[r]]] = "merged" PROVE FALSE
    BY DEF Misplaced
  <2>1. PICK a \in Item : a = q.ahead[r]
    BY <1>2 DEF Queues
  <2>2. a \in Up(q, r)
    BY <1>2, <2>1, UpUnfolds
  <2>3. a \in Queued(q)
    BY <1>2, <2>2, UpIsEarlier
  <2>4. item[a] \in Change /\ item[a] \notin Merged
    BY <2>1, <2>3 DEF Steadily, TrunkInv, TypeInv, GateInv, QueueInv, ItemsMade
  <2> QED BY <2>1, <2>4 DEF Steadily, TrunkInv
<1>4. MovedQueue(r) = q /\ ResetSets(r) = bs
  BY DEF MovedQueue, ResetSets
<1>5. ASSUME NEW new \in [Item -> BuildSets], Settle(r, q, new), merging' = merging,
             \A i \in Item \ {r} : new[i] = bs[i],
             \A j \in Job : new[r].builds[j] = "SUCCESS" => bs[r].builds[j] = "SUCCESS",
             SameRequest(bs[r], new[r]),
             \A j \in Job : \/ new[r].builds[j] = bs[r].builds[j]
                            \/ j \in Jobs(item[r]) /\ new[r].builds[j] = "running"
      PROVE  Stays(r, q, new) \/ LeavesFailed(r) \/ LeavesMerged(r)
  <2>1. Stays(r, q, new) \/ Leaves(r, q, new)
    BY <1>1, <1>2, <1>5, SettleOutcomes
  <2>2. CASE Leaves(r, q, new)
    <3>1. ASSUME ResetsBehind(r, q, new) PROVE ResetsBehind(r, q, bs)
      BY <1>5, <3>1 DEF ResetsBehind
    <3>2. ASSUME AllJobsSucceeded(item[r], new[r]) PROVE AllJobsSucceeded(item[r], bs[r])
      <4>1. Jobs(item[r]) \subseteq Job
        BY <1>2, LayoutAssumption DEF Jobs
      <4> QED BY <1>5, <3>2, <4>1 DEF AllJobsSucceeded
    <3>3. q.ahead[r] = NoItem /\ q' = DequeueItem(q, r) /\ StepsOn(r, pass.nnfi)
      BY <2>2 DEF Leaves
    <3>6. StartsNothing(r)
      <4>1. /\ bs'[r].builds = new[r].builds /\ bs'[r].gen = new[r].gen
            /\ AllJobsComplete(item[r], new[r])
        BY <2>2 DEF Leaves
      <4>2. \A j \in Jobs(item[r]) : new[r].builds[j] # "running"
        BY <4>1 DEF AllJobsComplete, Finished
      <4> QED BY <1>5, <4>1, <4>2 DEF StartsNothing, TamerSet, SameRequest
    <3>4. CASE Unreported /\ ResetsBehind(r, q, new)
      BY <1>5, <3>1, <3>3, <3>4, <3>6 DEF LeavesFailed
    <3>5. CASE /\ Merges(r) /\ AllJobsSucceeded(item[r], new[r])
               /\ \/ \A i \in Item \ {r} : bs'[i] = new[i]
                  \/ ResetsBehind(r, q, new) /\ "unseen" \in Faults
      <4>1. \/ \A i \in Item \ {r} : bs'[i] = bs[i]
            \/ ResetsBehind(r, q, bs) /\ "unseen" \in Faults
        BY <1>5, <3>1, <3>5
      <4> QED BY <1>1, <1>3, <1>5, <3>2, <3>3, <3>5, <3>6, <4>1 DEF LeavesMerged
    <3> QED BY <2>2, <3>4, <3>5 DEF Leaves
  <2> QED BY <2>1, <2>2
<1>6. ASSUME NEW new \in [Item -> BuildSets], Stays(r, q, new),
             \A i \in Item \ {r} : new[i] = bs[i]
      PROVE  /\ q' = q /\ Unreported /\ \A i \in Item \ {r} : bs'[i] = bs[i]
             /\ SameRequest(new[r], bs'[r]) /\ bs'[r].builds = new[r].builds
             /\ bs'[r].failing => new[r].unable \/ AnyJobFailed(item[r], new[r])
             /\ AnyJobFailed(item[r], new[r]) => bs'[r].failing
             /\ StepsOn(r, IF bs'[r].failing THEN pass.nnfi ELSE r)
  <2>1. PICK f : f = Failing(r, new[r])
    OBVIOUS
  <2>2. (f => new[r].unable \/ AnyJobFailed(item[r], new[r])) /\ (AnyJobFailed(item[r], new[r]) => f)
    BY <2>1 DEF Failing
  <2>3. /\ q' = q /\ Unreported /\ Judges(new, bs', r, f)
        /\ StepsOn(r, IF f THEN pass.nnfi ELSE r)
    BY <1>6, <2>1 DEF Stays
  <2>4. bs'[r].failing = f
    BY <2>3 DEF Judges
  <2>5. StepsOn(r, IF bs'[r].failing THEN pass.nnfi ELSE r)
    BY <2>3, <2>4
  <2>6. /\ \A i \in Item \ {r} : bs'[i] = bs[i]
        /\ SameRequest(new[r], bs'[r]) /\ bs'[r].builds = new[r].builds
    BY <1>6, <2>3 DEF Judges
  <2>7. /\ bs'[r].failing => new[r].unable \/ AnyJobFailed(item[r], new[r])
        /\ AnyJobFailed(item[r], new[r]) => bs'[r].failing
    BY <2>2, <2>4
  <2> QED BY <2>3, <2>5, <2>6, <2>7
<1>7. CASE WaitItem(r)
  <2>1. Settle(r, q, bs) /\ merging' = merging
    BY <1>4, <1>7 DEF WaitItem
  <2>2. CASE Stays(r, q, bs)
    <3>1. /\ q' = q /\ Unreported /\ \A i \in Item \ {r} : bs'[i] = bs[i]
          /\ SameRequest(bs[r], bs'[r]) /\ bs'[r].builds = bs[r].builds
          /\ bs'[r].failing => bs[r].unable \/ AnyJobFailed(item[r], bs[r])
          /\ AnyJobFailed(item[r], bs[r]) => bs'[r].failing
          /\ StepsOn(r, IF bs'[r].failing THEN pass.nnfi ELSE r)
      BY <1>2, <1>6, <2>2
    <3> QED BY <1>1, <1>3, <2>1, <3>1 DEF StaysAligned
  <2>3. SameRequest(bs[r], bs[r])
    BY DEF SameRequest
  <2> QED BY <1>2, <1>5, <2>1, <2>2, <2>3
<1>8. CASE LaunchItem(r)
  <2>1. PICK new : new = LaunchJobs(q, r, bs).sets
    OBVIOUS
  <2>2. /\ Settle(r, q, new) /\ merging' = merging
        /\ bs[r].merge = "COMPLETE" /\ ~bs[r].unable /\ IsActionable(q, window, r)
    BY <1>4, <1>8, <2>1 DEF LaunchItem, MayPrepare
  <2>3. Launches(q, bs, new, r) /\ new \in [Item -> BuildSets]
    BY <1>2, <2>1, LaunchWritten, LaunchKeepsTypes DEF Steadily, TypeInv
  <2>4. /\ \A i \in Item \ {r} : new[i] = bs[i]
        /\ SameRequest(bs[r], new[r])
        /\ \A j \in Job : \/ new[r].builds[j] = bs[r].builds[j]
                          \/ bs[r].builds[j] = "absent" /\ new[r].builds[j] = "running"
    BY <2>3 DEF Launches
  <2>5. AnyJobFailed(item[r], new[r]) <=> AnyJobFailed(item[r], bs[r])
    <3>1. Jobs(item[r]) \subseteq Job
      BY <1>2, LayoutAssumption DEF Jobs
    <3>2. \A j \in Jobs(item[r]) \cap layout.voting :
            new[r].builds[j] \in Finished \ {"SUCCESS"} <=> bs[r].builds[j] \in Finished \ {"SUCCESS"}
      BY <2>4, <3>1 DEF Finished
    <3> QED BY <3>2 DEF AnyJobFailed
  <2>6. new[r].unable = bs[r].unable
    BY <2>4 DEF SameRequest
  <2>7. CASE Stays(r, q, new)
    <3>1. /\ q' = q /\ Unreported /\ \A i \in Item \ {r} : bs'[i] = bs[i]
          /\ SameRequest(new[r], bs'[r]) /\ bs'[r].builds = new[r].builds
          /\ bs'[r].failing => new[r].unable \/ AnyJobFailed(item[r], new[r])
          /\ AnyJobFailed(item[r], new[r]) => bs'[r].failing
          /\ StepsOn(r, IF bs'[r].failing THEN pass.nnfi ELSE r)
      BY <1>6, <2>3, <2>4, <2>7
    <3>2. SameRequest(bs[r], bs'[r])
      BY <2>4, <3>1 DEF SameRequest
    <3>3. \A j \in Job :
             \/ bs'[r].builds[j] = bs[r].builds[j]
             \/ /\ bs[r].builds[j] = "absent" /\ bs'[r].builds[j] = "running"
                /\ bs[r].merge = "COMPLETE" /\ ~bs[r].unable /\ IsActionable(q, window, r)
      BY <2>2, <2>4, <3>1
    <3>4. /\ bs'[r].failing => bs[r].unable \/ AnyJobFailed(item[r], bs[r])
          /\ AnyJobFailed(item[r], bs[r]) => bs'[r].failing
      BY <2>5, <2>6, <3>1
    <3> QED BY <1>1, <1>3, <2>2, <3>1, <3>2, <3>3, <3>4 DEF StaysAligned
  <2>8. \A j \in Job : new[r].builds[j] = "SUCCESS" => bs[r].builds[j] = "SUCCESS"
    BY <2>4
  <2>9. \A j \in Job : \/ new[r].builds[j] = bs[r].builds[j]
                       \/ j \in Jobs(item[r]) /\ new[r].builds[j] = "running"
    BY <2>3 DEF Launches, Runnable
  <2> QED BY <1>5, <2>2, <2>3, <2>4, <2>7, <2>8, <2>9
<1>9. CASE PrepareRef(r)
  <2>1. ~bs[r].ref /\ bs[r].merge = "NEW" /\ bs[r].other = <<>> /\ Unstarted(bs[r])
    BY <1>2, <1>4, <1>9 DEF PrepareRef, SetOk
  <2>2. PICK new : new = [bs EXCEPT ![r] = [Prepared(q, r, bs[r]) EXCEPT !.merge = "PENDING"]]
    OBVIOUS
  <2>3. /\ new \in [Item -> BuildSets] /\ \A i \in Item : i # r => new[i] = bs[i]
        /\ new[r].gen = bs[r].gen /\ new[r].merge = "PENDING" /\ new[r].ref
        /\ new[r].other = ChangesAhead(q, r) /\ Unstarted(new[r])
    BY <1>1, <1>2, <1>4, <2>1, <2>2, PreparedSet
  <2>4. /\ Settle(r, q, new)
        /\ merging' = merging \cup
             {[item |-> r, gen |-> bs[r].gen, kind |-> "merge",
               content |-> ToSet(ChangesAhead(q, r)) \cup {item[r]}]}
    BY <1>2, <1>4, <1>9, <2>1, <2>2, PrepareSettles
  <2>5. ~AllJobsComplete(item[r], new[r]) /\ ~AnyJobFailed(item[r], new[r])
    BY <1>2, <2>3, UnstartedIsOpen DEF Unstarted
  <2>6. Stays(r, q, new)
    <3>1. Stays(r, q, new) \/ Leaves(r, q, new)
      BY <1>1, <1>2, <2>3, <2>4, SettleOutcomes
    <3> QED BY <2>5, <3>1 DEF Leaves
  <2>7. /\ q' = q /\ Unreported /\ \A i \in Item \ {r} : bs'[i] = bs[i]
        /\ SameRequest(new[r], bs'[r]) /\ bs'[r].builds = new[r].builds
        /\ bs'[r].failing => new[r].unable \/ AnyJobFailed(item[r], new[r])
        /\ StepsOn(r, IF bs'[r].failing THEN pass.nnfi ELSE r)
    BY <1>6, <2>3, <2>6
  <2>8. ~bs'[r].failing
    BY <2>3, <2>5, <2>7 DEF Unstarted
  <2>9. Asks(r) /\ bs'[r].gen = bs[r].gen
    BY <2>3, <2>4, <2>7, <2>8 DEF Asks, SameRequest, Unstarted
  <2> QED BY <1>1, <1>3, <2>1, <2>7, <2>9 DEF StaysAligned
<1> QED BY <1>7, <1>8, <1>9

(* So the processing of an item comes to one of five things.               *)
LEMMA ProcessingOutcomes ==
  ASSUME Steadily, NEW r \in Item,
         DropItem(r) \/ PrepareRef(r) \/ LaunchItem(r) \/ WaitItem(r)
  PROVE  \/ StaysCanceled(r) \/ StaysMoved(r) \/ StaysAligned(r)
         \/ LeavesFailed(r) \/ LeavesMerged(r)
BY DropOutcome, CanceledOutcome, MovedOutcome, AlignedOutcome

-----------------------------------------------------------------------------
(* What the other steps come to.                                           *)

(* Changes are added to a queue: every one of them is new, ready, and      *)
(* behind all it needs that is not merged.                                 *)
Adds(x) ==
  /\ \A i \in Item : item[i] # Idle => item'[i] = item[i]
  /\ Queued(x) \subseteq Queued(q')
  /\ \A i \in Queued(x) : Up(q', i) = Up(x, i)
  /\ \A i \in Queued(q') \ Queued(x) :
       /\ item[i] = Idle /\ item'[i] \in Gated /\ status[item'[i]] = "ready"
       /\ \A c \in Unmerged(item'[i]) :
            \E b \in Queued(q') : item'[b] = c /\ Precedes(q', b, i)
  /\ \A a, b \in Queued(x) : Precedes(x, a, b) => Precedes(q', a, b)
  /\ \A b \in Queued(x) : \A a : Precedes(q', a, b) => Precedes(x, a, b)
  /\ \A a \in Queued(x), b \in Queued(q') \ Queued(x) : Precedes(q', a, b)

(* enqueueChange of every change that addChange found.                     *)
LEMMA EnqueuedAdds ==
  ASSUME ItemsMade, NEW x \in Queues, WellLinked(x), \A i \in Queued(x) : item[i] # Idle,
         NEW changes \in Seq(Change), Distinct(changes), Len(x.order) <= Len(changes),
         \A n \in 1 .. Len(x.order) : changes[n] = item[x.order[n]],
         Room(x, changes), EnqueueAll(x, changes),
         NEW s, s = [n \in DOMAIN x.order |-> item[x.order[n]]], Follows(s, changes)
  PROVE  Adds(x)
<1>1. /\ q' \in Queues /\ WellLinked(q')
      /\ \A i \in Item : item[i] # Idle => item'[i] = item[i]
      /\ Len(q'.order) = Len(changes) /\ DOMAIN q'.order = 1 .. Len(changes)
      /\ \A n \in 1 .. Len(x.order) : q'.order[n] = x.order[n]
      /\ \A n \in 1 .. Len(changes) :
           /\ item'[q'.order[n]] = changes[n]
           /\ n > Len(x.order) => item[q'.order[n]] = Idle
      /\ \A i \in Queued(x) : Up(q', i) = Up(x, i)
  BY EnqueueAllKeepsItems
<1>2. PICK y : y = q'
  OBVIOUS
<1>3. PICK m \in Nat : m = Len(x.order)
  BY DEF Queues
<1>4. PICK n \in Nat : n = Len(changes)
  OBVIOUS
<1>5. /\ DOMAIN x.order = 1 .. m /\ DOMAIN y.order = 1 .. n /\ m <= n
      /\ \A k \in 1 .. m : y.order[k] = x.order[k]
      /\ OrderIsInjective(y)
  BY <1>1, <1>2, <1>3, <1>4 DEF Queues, WellLinked
<1>6. Queued(x) = {y.order[k] : k \in 1 .. m}
  BY <1>5 DEF Queued
<1>7. ASSUME NEW k \in 1 .. n, y.order[k] \in Queued(x) PROVE k \in 1 .. m
  <2>1. PICK l \in 1 .. m : y.order[l] = y.order[k]
    BY <1>6, <1>7
  <2>2. l \in 1 .. n
    BY <1>5
  <2>3. l = k
    BY <1>5, <2>1, <2>2 DEF OrderIsInjective
  <2> QED BY <2>1, <2>3
<1>8. Queued(x) \subseteq Queued(y)
  BY <1>5 DEF Queued
<1>9. s \in Seq(ToSet(s)) /\ Len(s) = m
  <2>1. s \in Seq({item[x.order[k]] : k \in 1 .. m})
    BY <1>3, <1>5
  <2>2. s \in Seq(ToSet(s))
    BY <2>1, SeqOfItsOwn
  <2>3. DOMAIN s = 1 .. m
    BY <1>5
  <2>4. Len(s) = m
    BY <1>3, <2>1, <2>3
  <2> QED BY <2>2, <2>4
<1>10. ASSUME NEW i \in Queued(y) \ Queued(x)
       PROVE  /\ item[i] = Idle /\ item'[i] \in Gated /\ status[item'[i]] = "ready"
              /\ \A c \in Unmerged(item'[i]) :
                   \E b \in Queued(y) : item'[b] = c /\ Precedes(y, b, i)
  <2>1. PICK k \in 1 .. n : y.order[k] = i
    BY <1>5 DEF Queued
  <2>2. k > m
    <3>1. k \notin 1 .. m
      BY <1>6, <2>1
    <3> QED BY <3>1
  <2>3. item[i] = Idle /\ item'[i] = changes[k]
    BY <1>1, <1>2, <1>3, <1>4, <2>1, <2>2
  <2>4. k \in Len(s) + 1 .. Len(changes)
    BY <1>4, <1>9, <2>2
  <2>5. /\ changes[k] \in Gated /\ status[changes[k]] = "ready"
        /\ \A c \in Unmerged(changes[k]) : \E l \in 1 .. k - 1 : changes[l] = c
    BY <2>4 DEF Follows
  <2>6. ASSUME NEW c \in Unmerged(item'[i])
        PROVE  \E b \in Queued(y) : item'[b] = c /\ Precedes(y, b, i)
    <3>1. PICK l \in 1 .. k - 1 : changes[l] = c
      BY <2>3, <2>5, <2>6
    <3>2. l \in 1 .. n /\ l < k
      OBVIOUS
    <3>3. PICK b : b = y.order[l]
      OBVIOUS
    <3>4. b \in Queued(y) /\ item'[b] = c
      BY <1>1, <1>2, <1>4, <1>5, <3>1, <3>2, <3>3 DEF Queued
    <3>5. Precedes(y, b, i)
      BY <1>5, <2>1, <3>2, <3>3 DEF Precedes
    <3> QED BY <3>4, <3>5
  <2> QED BY <2>3, <2>5, <2>6
<1>11. ASSUME NEW a \in Queued(x), NEW b \in Queued(x), Precedes(x, a, b)
       PROVE  Precedes(y, a, b)
  BY <1>5, <1>11 DEF Precedes
<1>12. ASSUME NEW b \in Queued(x), NEW a, Precedes(y, a, b) PROVE Precedes(x, a, b)
  <2>1. PICK k, l \in 1 .. n : k < l /\ y.order[k] = a /\ y.order[l] = b
    BY <1>5, <1>12 DEF Precedes
  <2>2. l \in 1 .. m
    BY <1>7, <2>1
  <2>3. k \in 1 .. m
    BY <2>1, <2>2
  <2> QED BY <1>5, <2>1, <2>2, <2>3 DEF Precedes
<1>13. ASSUME NEW a \in Queued(x), NEW b \in Queued(y) \ Queued(x) PROVE Precedes(y, a, b)
  <2>1. PICK k \in 1 .. m : y.order[k] = a
    BY <1>6
  <2>2. PICK l \in 1 .. n : y.order[l] = b
    BY <1>5 DEF Queued
  <2>3. k \in 1 .. n /\ k < l
    <3>1. l \notin 1 .. m
      BY <1>6, <2>2
    <3> QED BY <1>5, <3>1
  <2> QED BY <1>5, <2>1, <2>2, <2>3 DEF Precedes
<1> QED BY <1>1, <1>2, <1>8, <1>10, <1>11, <1>12, <1>13 DEF Adds

(* An item is removed, and what was behind it is reset.                    *)
Removes(r) ==
  /\ r \in Queued(q) /\ q' = DequeueItem(q, r) /\ item' = item
  /\ \A i \in Item : IF i = r \/ r \in Up(q, i) THEN Resets(bs[i], bs'[i]) ELSE bs'[i] = bs[i]
  /\ Head(triggers).type = "gone" /\ item[r] = Head(triggers).change

(* Every item is removed and reset, and new ones are made.                 *)
Restarts ==
  /\ Adds(EmptyQueue)
  /\ \A i \in Item : IF i \in Queued(q) THEN Resets(bs[i], bs'[i]) ELSE bs'[i] = bs[i]

(* The changes in the queue are as they were added.                        *)
LEMMA NothingFollows ==
  ASSUME NEW s
  PROVE  Follows(s, s)
BY DEF Follows

(* What the handling of an event from Gerrit comes to.                     *)
LEMMA TriggerOutcomes ==
  ASSUME GateInv, bs \in [Item -> BuildSets], HandleTrigger
  PROVE  \/ Adds(q) /\ bs' = bs
         \/ q' = q /\ item' = item /\ bs' = bs
         \/ \E r \in Item : Removes(r)
<1>1. /\ QueueInv /\ q \in Queues /\ WellLinked(q) /\ ItemsMade
      /\ \A i \in Queued(q) : item[i] # Idle
      /\ triggers \in Seq([type : {"approved", "gone"}, change : Change])
  BY DEF GateInv, QueueInv, Triggers
<1>2. PICK s : s = ChangesIn(q)
  OBVIOUS
<1>3. s \in Seq(Change) /\ s = [n \in DOMAIN q.order |-> item[q.order[n]]]
  BY <1>1, <1>2, ChangesInQueue DEF ChangesIn
<1>4. ASSUME NEW all \in Seq(Change), Head(triggers).change \in Change,
             all \in {AddChange(Head(triggers).change, ChangesIn(q)), ChangesIn(q)},
             Distinct(all), Len(q.order) <= Len(all),
             \A n \in 1 .. Len(q.order) : all[n] = item[q.order[n]],
             Room(q, all), EnqueueAll(q, all)
      PROVE  Adds(q)
  <2>1. Follows(s, all)
    <3>1. PICK c \in Change : c = Head(triggers).change
      BY <1>4
    <3>2. Follows(s, AddChange(c, s)) /\ Follows(s, s)
      BY <1>3, AddChangeAnswers, NothingFollows
    <3> QED BY <1>2, <1>4, <3>1, <3>2
  <2> QED BY <1>1, <1>3, <1>4, <2>1, EnqueuedAdds
<1>5. ASSUME NEW r \in Queued(q), Head(triggers).type = "gone",
             item[r] = Head(triggers).change, RemoveItem(r), item' = item
      PROVE  r \in Item /\ Removes(r)
  <2>1. r \in Item
    BY <1>1 DEF Queued, Queues
  <2>2. PICK C : C = WithBehind(q, r)
    OBVIOUS
  <2>3. q' = DequeueItem(q, r) /\ bs' = CancelJobs(bs, C, TRUE)
    BY <1>5, <2>2 DEF RemoveItem
  <2>4. \A i \in Item : i \in C <=> i = r \/ r \in Up(q, i)
    BY <1>1, <2>1, <2>2, BehindIsAbove
  <2>5. \A i \in Item : /\ i \notin C => bs'[i] = bs[i]
                        /\ i \in C => Resets(bs[i], bs'[i])
    BY <2>3, CancelResets
  <2> QED BY <1>5, <2>1, <2>3, <2>4, <2>5 DEF Removes
<1> QED BY <1>1, <1>4, <1>5, TriggerEnqueues

(* A promotion takes every item out and makes new ones.                    *)
LEMMA PromoteOutcome ==
  ASSUME QueueInv, bs \in [Item -> BuildSets], NEW i \in Item, Promote(i)
  PROVE  Restarts
<1>1. PICK x : x = EmptyQueue
  OBVIOUS
<1>2. x \in Queues /\ WellLinked(x) /\ Queued(x) = {} /\ x.order = <<>>
  BY <1>1, EmptyQueueIsWellLinked
<1>3. PICK wanted \in Seq(Change) :
        \E added \in Seq(Change) :
          /\ added = AddedAgain(wanted) /\ Distinct(added)
          /\ Room(x, added) /\ EnqueueAll(x, added)
  BY <1>1, PromoteEnqueues
<1>4. PICK added \in Seq(Change) :
        /\ added = AddedAgain(wanted) /\ Distinct(added)
        /\ Room(x, added) /\ EnqueueAll(x, added)
  BY <1>3
<1>5. PICK none : none = <<>>
  OBVIOUS
<1>6. Follows(none, added)
  BY <1>3, <1>4, <1>5, AddedAgainIsDistinct
<1>7. none = [n \in DOMAIN x.order |-> item[x.order[n]]]
  BY <1>2, <1>5
<1>8. /\ Len(x.order) <= Len(added) /\ \A n \in 1 .. Len(x.order) : added[n] = item[x.order[n]]
      /\ \A k \in Queued(x) : item[k] # Idle
  BY <1>2
<1>9. Adds(x)
  BY <1>2, <1>4, <1>6, <1>7, <1>8, EnqueuedAdds DEF QueueInv
<1>10. \A k \in Item : IF k \in Queued(q) THEN Resets(bs[k], bs'[k]) ELSE bs'[k] = bs[k]
  <2>1. PICK C : C = Queued(q)
    OBVIOUS
  <2>2. bs' = CancelJobs(bs, C, TRUE)
    BY <2>1 DEF Promote
  <2>3. \A k \in Item : /\ k \notin C => bs'[k] = bs[k]
                        /\ k \in C => Resets(bs[k], bs'[k])
    BY <2>2, CancelResets
  <2> QED BY <2>1, <2>3
<1> QED BY <1>1, <1>9, <1>10 DEF Restarts

-----------------------------------------------------------------------------
(* What has been asked for and answered, and is not handled yet.           *)

(* Every build sends one result.                                           *)
SameBuild(e, f) == e.item = f.item /\ e.gen = f.gen /\ e.job = f.job
OneVerdict(answers) ==
  \A x, y \in DOMAIN answers :
    /\ answers[x].kind = "build" /\ answers[y].kind = "build"
    /\ SameBuild(answers[x], answers[y])
    => x = y

(* After the first result there is no other of that build.                 *)
LEMMA FirstVerdict ==
  ASSUME NEW s, s \in Seq(ToSet(s)), s # <<>>, OneVerdict(s)
  PROVE  /\ OneVerdict(Tail(s))
         /\ \A e \in ToSet(Tail(s)) : e.kind = "build" /\ Head(s).kind = "build" =>
                                        ~SameBuild(Head(s), e)
<1>1. PICK R : R = ToSet(s)
  OBVIOUS
<1>2. s \in Seq(R)
  BY <1>1
<1>3. PICK t : t = Tail(s)
  OBVIOUS
<1>4. /\ Len(s) \in Nat /\ DOMAIN s = 1 .. Len(s) /\ Len(s) > 0 /\ Head(s) = s[1]
      /\ DOMAIN t = 1 .. Len(s) - 1
      /\ \A n \in 1 .. Len(s) - 1 : t[n] = s[n + 1] /\ n + 1 \in 1 .. Len(s)
  BY <1>2, <1>3
<1>5. OneVerdict(t)
  <2> SUFFICES ASSUME NEW x \in 1 .. Len(s) - 1, NEW y \in 1 .. Len(s) - 1,
                      t[x].kind = "build", t[y].kind = "build", SameBuild(t[x], t[y])
               PROVE  x = y
    BY <1>4 DEF OneVerdict
  <2>1. x + 1 = y + 1
    BY <1>4 DEF OneVerdict
  <2> QED BY <1>4, <2>1
<1>6. ASSUME NEW e \in ToSet(t), e.kind = "build", Head(s).kind = "build"
      PROVE  ~SameBuild(Head(s), e)
  <2>1. PICK n \in 1 .. Len(s) - 1 : e = s[n + 1] /\ n + 1 \in 1 .. Len(s)
    BY <1>4 DEF ToSet
  <2>2. 1 \in 1 .. Len(s) /\ n + 1 # 1
    BY <1>4
  <2> QED BY <1>4, <1>6, <2>1, <2>2 DEF OneVerdict
<1> QED BY <1>3, <1>5, <1>6

(* A result of a build that has none yet may be added.                     *)
LEMMA OneMoreVerdict ==
  ASSUME NEW s, s \in Seq(ToSet(s)), OneVerdict(s), NEW e,
         \A f \in ToSet(s) : f.kind = "build" /\ e.kind = "build" =>
                               ~SameBuild(f, e) /\ ~SameBuild(e, f)
  PROVE  OneVerdict(Append(s, e))
<1>1. PICK R : R = ToSet(s)
  OBVIOUS
<1>2. s \in Seq(R)
  BY <1>1
<1>3. PICK t : t = Append(s, e)
  OBVIOUS
<1>4. /\ Len(s) \in Nat /\ DOMAIN s = 1 .. Len(s)
      /\ \A n \in DOMAIN t : n \in 1 .. Len(s) \/ n = Len(s) + 1
      /\ \A n \in 1 .. Len(s) : t[n] = s[n]
      /\ t[Len(s) + 1] = e
  BY <1>2, <1>3
<1>5. \A n \in 1 .. Len(s) : t[n] \in ToSet(s)
  BY <1>4 DEF ToSet
<1>6. OneVerdict(t)
  <2> SUFFICES ASSUME NEW x \in DOMAIN t, NEW y \in DOMAIN t, t[x].kind = "build",
                      t[y].kind = "build", SameBuild(t[x], t[y])
               PROVE  x = y
    BY DEF OneVerdict
  <2>1. CASE x \in 1 .. Len(s) /\ y \in 1 .. Len(s)
    BY <1>4, <2>1 DEF OneVerdict
  <2>2. CASE ~(x \in 1 .. Len(s) /\ y \in 1 .. Len(s))
    BY <1>4, <1>5, <2>2
  <2> QED BY <2>1, <2>2
<1> QED BY <1>3, <1>6

(* A merge asked for is the one of the build set, its commit the branch as *)
(* it was then and what the build set lists; a build that was answered for *)
(* is not forgotten before the answer is handled.                          *)
MergesInv ==
  /\ \A m \in merging :
       /\ m.kind = "merge"
       /\ Open(m.item) /\ m.gen = bs[m.item].gen => m.content = Content(m.item)
  /\ \A e \in ToSet(results) :
       e.kind = "merge" =>
         /\ e.result \in {"merged", "conflict"}
         /\ Open(e.item) /\ e.gen = bs[e.item].gen /\ e.result = "merged" =>
              Content(e.item) \subseteq e.content /\ e.content \subseteq Merged \cup Content(e.item)
VerdictsInv ==
  /\ \A e \in ToSet(results) :
       e.kind = "build" /\ e.gen = bs[e.item].gen =>
         bs[e.item].builds[e.job] \notin {"absent", "running"}
  /\ OneVerdict(results)

(* The result of a build: a retry makes the scheduler forget it, a failure *)
(* has the jobs below skipped.                                             *)
HearsBuild(e) ==
  /\ e.kind = "build" /\ e.gen = bs[e.item].gen /\ e.job \in Job
  /\ \A i \in Item : i # e.item => bs'[i] = bs[i]
  /\ SameRequest(bs[e.item], bs'[e.item]) /\ bs'[e.item].failing = bs[e.item].failing
  /\ \/ /\ e.result = "retry"
        /\ \A j \in Job : bs'[e.item].builds[j] = IF j = e.job THEN "absent"
                                                  ELSE bs[e.item].builds[j]
     \/ /\ e.result # "retry" /\ bs[e.item].builds[e.job] # "SUCCESS"
        /\ \A j \in Job : bs'[e.item].builds[j] = IF j \in Jobs(item[e.item]) /\ e.job \in Above[j]
                                                  THEN "SKIPPED" ELSE bs[e.item].builds[j]

(* The answer to a merge.                                                  *)
HearsMerge(e) ==
  LET b == bs[e.item]
      c == bs'[e.item]
  IN  /\ e.kind = "merge" /\ e.gen = b.gen
      /\ \A i \in Item : i # e.item => bs'[i] = bs[i]
      /\ c.gen = b.gen /\ c.ref = b.ref /\ c.other = b.other /\ c.failing = b.failing
      /\ b.merge = "PENDING" /\ c.merge = "COMPLETE"
      /\ \/ /\ e.result = "merged" /\ c.commit = e.content /\ c.unable = b.unable
            /\ \A j \in Job : c.builds[j] = b.builds[j]
         \/ /\ e.result = "conflict" /\ c.unable
            /\ \A j \in Job : c.builds[j] = IF j \in Jobs(item[e.item]) THEN "SKIPPED"
                                            ELSE b.builds[j]

(* The result of a build that changes nothing: of one that was replaced,   *)
(* forgotten, or that had succeeded.                                       *)
SaysNothing(e) ==
  /\ bs' = bs
  /\ e.gen = bs[e.item].gen =>
       \/ bs[e.item].builds[e.job] = "absent"
       \/ bs[e.item].builds[e.job] = "SUCCESS" /\ e.result # "retry"

(* What onBuildCompleted comes to.                                         *)
LEMMA BuildOutcome ==
  ASSUME bs \in [Item -> BuildSets], NEW e, e.item \in Item, e.job \in Job, HandleBuild(e)
  PROVE  SaysNothing(e) \/ HearsBuild(e)
<1>1. PICK i \in Item : i = e.item
  OBVIOUS
<1>2. PICK b \in BuildSets : b = bs[i]
  OBVIOUS
<1>3. PICK below : below = {k \in Jobs(item[i]) : e.job \in Above[k]}
  OBVIOUS
<1>4. CASE \/ e.gen # b.gen
           \/ b.builds[e.job] = "absent" /\ e.result # "SUCCESS"
  BY <1>1, <1>2, <1>4 DEF HandleBuild, Current, SaysNothing
<1>5. CASE /\ e.gen = b.gen
           /\ ~(b.builds[e.job] = "absent" /\ e.result # "SUCCESS")
  <2>1. /\ e.kind = "build" /\ e.gen = b.gen
        /\ bs' = [bs EXCEPT ![i] = IF e.result = "retry" THEN [b EXCEPT !.builds[e.job] = "absent"]
                                   ELSE IF b.builds[e.job] \in {"SUCCESS", "absent"} THEN b
                                   ELSE Skip(b, below)]
    BY <1>1, <1>2, <1>3, <1>5 DEF HandleBuild, Current
  <2>2. \A k \in Item : k # i => bs'[k] = bs[k]
    BY <2>1
  <2>3. CASE e.result = "retry"
    <3>1. PICK builds : builds = [b.builds EXCEPT ![e.job] = "absent"]
      OBVIOUS
    <3>2. PICK c : c = [b EXCEPT !.builds = builds]
      OBVIOUS
    <3>3. c = [b EXCEPT !.builds[e.job] = "absent"]
      BY <3>1, <3>2
    <3>4. SameRequest(b, c) /\ c.failing = b.failing /\ c.builds = builds
      BY <3>2, BuildsWritten
    <3>5. b.builds \in [Job -> Builds]
      BY DEF BuildSets
    <3>6. bs'[i] = c
      BY <2>1, <2>3, <3>3
    <3>7. \A j \in Job : c.builds[j] = IF j = e.job THEN "absent" ELSE b.builds[j]
      BY <3>1, <3>4, <3>5
    <3>8. /\ \A k \in Item : k # e.item => bs'[k] = bs[k]
          /\ bs[e.item] = b /\ bs'[e.item] = c
      BY <1>1, <1>2, <2>2, <3>6
    <3> QED BY <2>1, <2>3, <3>4, <3>7, <3>8 DEF HearsBuild
  <2>4. CASE e.result # "retry" /\ b.builds[e.job] \in {"SUCCESS", "absent"}
    <3>1. bs' = [bs EXCEPT ![i] = b]
      BY <2>1, <2>4
    <3>2. bs' = bs
      BY <1>2, <3>1
    <3> QED BY <1>1, <1>2, <2>4, <3>2 DEF SaysNothing
  <2>5. CASE e.result # "retry" /\ b.builds[e.job] \notin {"SUCCESS", "absent"}
    <3>1. PICK c : c = Skip(b, below)
      OBVIOUS
    <3>2. Skips(b, c, below)
      BY <3>1, SkipWritten
    <3>3. bs'[i] = c
      BY <2>1, <2>5, <3>1
    <3>4. \A j \in Job : c.builds[j] = IF j \in Jobs(item[i]) /\ e.job \in Above[j]
                                      THEN "SKIPPED" ELSE b.builds[j]
      BY <1>3, <2>5, <3>2 DEF Skips
    <3>5. SameRequest(b, c) /\ c.failing = b.failing
      BY <3>2 DEF Skips
    <3> QED BY <1>1, <1>2, <2>1, <2>2, <2>5, <3>3, <3>4, <3>5 DEF HearsBuild
  <2> QED BY <2>3, <2>4, <2>5
<1> QED BY <1>4, <1>5

(* What onMergeCompleted comes to.                                         *)
LEMMA MergeOutcome ==
  ASSUME bs \in [Item -> BuildSets], NEW e, e.item \in Item, HandleMerge(e),
         AskedFor(bs, e), e.result \in {"merged", "conflict"}
  PROVE  (bs' = bs /\ e.gen # bs[e.item].gen) \/ HearsMerge(e)
<1>1. PICK i \in Item : i = e.item
  OBVIOUS
<1>2. PICK b \in BuildSets : b = bs[i]
  OBVIOUS
<1>3. CASE e.gen # b.gen
  BY <1>1, <1>2, <1>3 DEF HandleMerge, Current
<1>4. CASE e.gen = b.gen
  <2>1. PICK done : done = [b EXCEPT !.merge = "COMPLETE"]
    OBVIOUS
  <2>2. done \in BuildSets
    BY <2>1, FieldsKeepTypes
  <2>3. /\ e.kind = "merge" /\ e.gen = b.gen
        /\ \/ e.result = "merged" /\ bs' = [bs EXCEPT ![i] = [done EXCEPT !.commit = e.content]]
           \/ /\ e.result = "conflict"
              /\ bs' = [bs EXCEPT ![i] = Skip([done EXCEPT !.unable = TRUE], Jobs(item[i]))]
    BY <1>1, <1>2, <1>4, <2>1 DEF HandleMerge, Current
  <2>4. b.merge = "PENDING"
    BY <1>1, <1>2, <2>3 DEF AskedFor
  <2>5. /\ SameButMerge(b, done) /\ done.merge = "COMPLETE"
        /\ done.commit = b.commit /\ done.unable = b.unable
    BY <2>1, MergeWritten
  <2>6. ASSUME NEW c, bs'[i] = c, c.merge = "COMPLETE",
               c.gen = b.gen, c.ref = b.ref, c.other = b.other, c.failing = b.failing,
               \A k \in Item : k # i => bs'[k] = bs[k],
               \/ /\ e.result = "merged" /\ c.commit = e.content /\ c.unable = b.unable
                  /\ \A j \in Job : c.builds[j] = b.builds[j]
               \/ /\ e.result = "conflict" /\ c.unable
                  /\ \A j \in Job : c.builds[j] = IF j \in Jobs(item[i]) THEN "SKIPPED"
                                                  ELSE b.builds[j]
        PROVE  HearsMerge(e)
    BY <1>1, <1>2, <2>3, <2>4, <2>6 DEF HearsMerge
  <2>7. CASE e.result = "merged"
    <3>1. PICK c : c = [done EXCEPT !.commit = e.content]
      OBVIOUS
    <3>2. SameButMerge(done, c) /\ c.merge = done.merge /\ c.commit = e.content /\ c.unable = done.unable
      BY <2>2, <3>1, CommitWritten
    <3>3. bs' = [bs EXCEPT ![i] = c]
      BY <2>3, <2>7, <3>1
    <3>4. bs'[i] = c /\ \A k \in Item : k # i => bs'[k] = bs[k]
      BY <3>3
    <3>5. /\ c.gen = b.gen /\ c.ref = b.ref /\ c.other = b.other /\ c.failing = b.failing
          /\ c.builds = b.builds /\ c.merge = "COMPLETE" /\ c.unable = b.unable
      BY <2>5, <3>2 DEF SameButMerge
    <3> QED BY <2>6, <2>7, <3>2, <3>4, <3>5
  <2>8. CASE e.result = "conflict"
    <3>1. PICK yes \in BOOLEAN : yes = TRUE
      OBVIOUS
    <3>2. PICK d : d = [done EXCEPT !.unable = yes]
      OBVIOUS
    <3>3. SameButMerge(done, d) /\ d.merge = done.merge /\ d.unable = yes
      BY <2>2, <3>2, UnableWritten
    <3>4. d \in BuildSets
      BY <2>2, <3>2, FieldsKeepTypes
    <3>5. PICK jobs : jobs = Jobs(item[i])
      OBVIOUS
    <3>6. PICK c : c = Skip(d, jobs)
      OBVIOUS
    <3>7. Skips(d, c, jobs)
      BY <3>4, <3>6, SkipWritten
    <3>8. bs' = [bs EXCEPT ![i] = c]
      BY <2>3, <2>8, <3>1, <3>2, <3>5, <3>6
    <3>9. bs'[i] = c /\ \A k \in Item : k # i => bs'[k] = bs[k]
      BY <3>8
    <3>10. /\ c.gen = b.gen /\ c.ref = b.ref /\ c.other = b.other /\ c.failing = b.failing
           /\ c.merge = "COMPLETE" /\ c.unable
           /\ \A j \in Job : c.builds[j] = IF j \in Jobs(item[i]) THEN "SKIPPED" ELSE b.builds[j]
      BY <2>5, <3>1, <3>3, <3>5, <3>7 DEF SameButMerge, Skips, SameRequest
    <3> QED BY <2>6, <2>8, <3>9, <3>10
  <2> QED BY <2>3, <2>7, <2>8
<1> QED BY <1>3, <1>4

(* So a result in a reliable gate.                                         *)
LEMMA ResultOutcomes ==
  ASSUME TypeInv, TreeInv, MergesInv, HandleResult
  PROVE  /\ results \in Seq(ToSet(results)) /\ results # <<>>
         /\ Head(results) \in ToSet(results) /\ Head(results).item \in Item
         /\ \/ Head(results).kind = "build" /\ SaysNothing(Head(results))
            \/ Head(results).kind = "merge" /\ bs' = bs /\ Head(results).gen # bs[Head(results).item].gen
            \/ HearsBuild(Head(results))
            \/ HearsMerge(Head(results))
         /\ bs' = bs \/ HearsBuild(Head(results)) \/ HearsMerge(Head(results))
<1>1. results \in Seq(ToSet(results)) /\ results # <<>>
  BY DEF TypeInv, MutexInv, ResultsAreOld, HandleResult
<1>2. PICK e : e = Head(results)
  OBVIOUS
<1>3. e \in ToSet(results)
  BY <1>1, <1>2 DEF ToSet
<1>4. e.item \in Item /\ (e.kind = "build" => e.job \in Job) /\ bs \in [Item -> BuildSets]
  BY <1>3 DEF TypeInv, MutexInv, ResultsAreOld, SetsTyped
<1>5. CASE HandleBuild(e)
  <2>1. e.kind = "build"
    BY <1>5 DEF HandleBuild
  <2>2. SaysNothing(e) \/ HearsBuild(e)
    BY <1>4, <1>5, <2>1, BuildOutcome
  <2> QED BY <1>1, <1>2, <1>3, <1>4, <2>1, <2>2 DEF SaysNothing
<1>6. CASE HandleMerge(e)
  <2>1. e.kind = "merge"
    BY <1>6 DEF HandleMerge
  <2>2. AskedFor(bs, e) /\ e.result \in {"merged", "conflict"}
    BY <1>3, <2>1 DEF TreeInv, Outstanding, MergesInv
  <2>3. (bs' = bs /\ e.gen # bs[e.item].gen) \/ HearsMerge(e)
    BY <1>4, <1>6, <2>2, MergeOutcome
  <2> QED BY <1>1, <1>2, <1>3, <1>4, <2>1, <2>3
<1> QED BY <1>2, <1>5, <1>6 DEF HandleResult

-----------------------------------------------------------------------------
(* The build sets, and what is asked and answered, stay right.             *)
OwnInv == MergesInv /\ VerdictsInv

(* What the processing of an item leaves alone.                            *)
LEMMA ProcessingLeaves ==
  ASSUME NEW i \in Item, DropItem(i) \/ PrepareRef(i) \/ LaunchItem(i) \/ WaitItem(i)
  PROVE  item' = item /\ results' = results /\ layout' = layout /\ triggers' = triggers
BY DEF DropItem, PrepareRef, LaunchItem, WaitItem

(* An item stays what it is: in the queue, or not.                         *)
StaysOpen(i) ==
  Open(i)' => Open(i) /\ (i \in Queued(q) => i \in Queued(q') /\ item'[i] = item[i])

(* A build that was started stays so, in the same build set.               *)
SteadySet(b, c) ==
  \/ /\ c.gen = b.gen
     /\ \A j \in Job : /\ c.builds[j] = "running" => b.builds[j] \in {"running", "absent"}
                       /\ c.builds[j] = "absent" => b.builds[j] = "absent"
  \/ c.gen > b.gen

(* The merge that is out for i is the one that was out for it.             *)
Pends(i) ==
  Open(i)' /\ bs'[i].merge = "PENDING" =>
    /\ Open(i) /\ item'[i] = item[i]
    /\ bs'[i].gen = bs[i].gen /\ bs'[i].other = bs[i].other

(* A build set stays right while its request does.                         *)
LEMMA SetStays ==
  ASSUME NEW i, SetOk(i), SameRequest(bs[i], bs'[i]), Merged \subseteq Merged',
         bs[i].ref => i \in Queued(q') /\ item'[i] = item[i],
         bs[i].merge # "COMPLETE" =>
           \A j \in Job : bs[i].builds[j] = "absent" => bs'[i].builds[j] = "absent"
  PROVE  SetOk(i)'
<1>1. CASE ~bs[i].ref
  BY <1>1 DEF SetOk, SameRequest, Unstarted
<1>2. CASE bs[i].ref
  <2>1. Content(i)' = Content(i)
    BY <1>2 DEF Content, SameRequest
  <2> QED BY <1>2, <2>1 DEF SetOk, SameRequest, Unstarted
<1> QED BY <1>1, <1>2

(* A new one is right.                                                     *)
LEMMA NewSetOk ==
  ASSUME NEW i, Anew(bs'[i])
  PROVE  SetOk(i)'
BY DEF Anew, SetOk, Unstarted

(* And so is one whose merge was just asked for.                           *)
LEMMA AskedSetOk ==
  ASSUME NEW r, Asks(r), r \in Queued(q')
  PROVE  SetOk(r)'
BY DEF Asks, SetOk, Unstarted

(* An item whose set is left alone, canceled or reset.                     *)
Spared(b, c) == c = b \/ Resets(b, c) \/ Halts(b, c)

(* Neither a cancelation nor a reset takes that away.                      *)
LEMMA SparedOwns ==
  ASSUME NEW i \in Item, SetsInv, bs[i] \in BuildSets, StaysOpen(i),
         Spared(bs[i], bs'[i]), Merged \subseteq Merged'
  PROVE  (Open(i)' => SetOk(i)') /\ Pends(i) /\ SteadySet(bs[i], bs'[i])
<1>1. bs[i].gen \in Nat
  BY DEF BuildSets
<1>2. CASE bs[i].ref /\ Resets(bs[i], bs'[i])
  <2>1. Anew(bs'[i]) /\ bs'[i].gen > bs[i].gen
    BY <1>1, <1>2 DEF Resets
  <2>2. SetOk(i)'
    BY <2>1, NewSetOk
  <2> QED BY <2>1, <2>2 DEF Pends, SteadySet, Anew
<1>3. CASE ~(bs[i].ref /\ Resets(bs[i], bs'[i]))
  <2>1. SameRequest(bs[i], bs'[i])
    BY <1>3 DEF Spared, SameRequest, Resets, Cancels, Halts
  <2>2. \A j \in Job : /\ bs[i].builds[j] = "absent" <=> bs'[i].builds[j] = "absent"
                       /\ bs'[i].builds[j] = "running" => bs[i].builds[j] = "running"
    BY <1>3 DEF Spared, Resets, Cancels, Halts
  <2>3. ASSUME Open(i)' PROVE SetOk(i)' /\ Pends(i)
    <3>1. SetOk(i) /\ (i \in Queued(q) => i \in Queued(q') /\ item'[i] = item[i])
      BY <2>3 DEF StaysOpen, SetsInv
    <3>2. SetOk(i)'
      <4>1. bs[i].ref => i \in Queued(q') /\ item'[i] = item[i]
        BY <3>1 DEF SetOk
      <4> QED BY <2>1, <2>2, <3>1, <4>1, SetStays
    <3>3. Pends(i)
      BY <2>1, <2>3, <3>1 DEF Pends, StaysOpen, SetOk, SameRequest
    <3> QED BY <3>2, <3>3
  <2>4. SteadySet(bs[i], bs'[i])
    BY <2>1, <2>2 DEF SteadySet, SameRequest
  <2> QED BY <2>3, <2>4 DEF Pends
<1> QED BY <1>2, <1>3

(* No more merges are out, and the answers are some of those there were.   *)
LEMMA MergesStay ==
  ASSUME TypeInv, MergesInv, TreeInv', \A i \in Item : Pends(i),
         Merged \subseteq Merged', merging' \subseteq merging,
         \A e \in ToSet(results') : e.kind = "merge" => e \in ToSet(results)
  PROVE  MergesInv'
<1>1. ASSUME NEW i \in Item, Open(i)', bs'[i].merge = "PENDING"
      PROVE  Open(i) /\ bs'[i].gen = bs[i].gen /\ Content(i)' = Content(i)
  BY <1>1 DEF Pends, Content
<1>2. ASSUME NEW m \in merging'
      PROVE  /\ m.kind = "merge"
             /\ (Open(m.item) /\ m.gen = bs[m.item].gen)' => m.content = Content(m.item)'
  <2>1. m \in merging /\ AskedFor(bs', m)
    BY DEF TreeInv, Outstanding
  <2>2. PICK i \in Item : i = m.item
    BY <2>1 DEF AskedFor
  <2>3. m.gen = bs'[i].gen => bs'[i].merge = "PENDING"
    BY <2>1, <2>2 DEF AskedFor
  <2>4. m.kind = "merge" /\ (Open(i) /\ m.gen = bs[i].gen => m.content = Content(i))
    BY <2>1, <2>2 DEF MergesInv
  <2>5. Open(i)' /\ m.gen = bs'[i].gen => m.content = Content(i)'
    BY <1>1, <2>3, <2>4
  <2> QED BY <2>2, <2>4, <2>5
<1>3. ASSUME NEW e \in ToSet(results'), e.kind = "merge"
      PROVE  /\ e.result \in {"merged", "conflict"}
             /\ (Open(e.item) /\ e.gen = bs[e.item].gen)' /\ e.result = "merged" =>
                  /\ Content(e.item)' \subseteq e.content
                  /\ e.content \subseteq Merged' \cup Content(e.item)'
  <2>1. e \in ToSet(results) /\ AskedFor(bs', e)
    BY <1>3 DEF TreeInv, Outstanding
  <2>2. PICK i \in Item : i = e.item
    BY <2>1 DEF AskedFor
  <2>3. e.gen = bs'[i].gen => bs'[i].merge = "PENDING"
    BY <2>1, <2>2 DEF AskedFor
  <2>4. /\ e.result \in {"merged", "conflict"}
        /\ Open(i) /\ e.gen = bs[i].gen /\ e.result = "merged" =>
              Content(i) \subseteq e.content /\ e.content \subseteq Merged \cup Content(i)
    BY <1>3, <2>1, <2>2 DEF MergesInv
  <2>5. Open(i)' /\ e.gen = bs'[i].gen /\ e.result = "merged" =>
          Content(i)' \subseteq e.content /\ e.content \subseteq Merged' \cup Content(i)'
    BY <1>1, <2>3, <2>4
  <2> QED BY <2>2, <2>4, <2>5
<1>4. /\ \A m \in merging' : m.kind = "merge"
      /\ \A m \in merging' : (Open(m.item) /\ m.gen = bs[m.item].gen)' => m.content = Content(m.item)'
  BY <1>2
<1> QED BY <1>3, <1>4 DEF MergesInv

(* The merge of r is asked for: it is the only one of this build set.      *)
LEMMA MergesAsked ==
  ASSUME TypeInv, MergesInv, TreeInv', NEW r \in Item, Asks(r), item' = item,
         \A i \in Item \ {r} : Pends(i), Merged \subseteq Merged', results' = results
  PROVE  MergesInv'
<1>1. PICK asked : asked = [item |-> r, gen |-> bs'[r].gen, kind |-> "merge",
                            content |-> ToSet(ChangesAhead(q', r)) \cup {item[r]}]
  OBVIOUS
<1>2. /\ asked.item = r /\ asked.gen = bs'[r].gen /\ asked.kind = "merge"
      /\ asked.content = Content(r)' /\ merging' = merging \cup {asked}
  BY <1>1 DEF Asks, Content
<1>3. ASSUME NEW i \in Item, i # r, Open(i)', bs'[i].merge = "PENDING"
      PROVE  Open(i) /\ bs'[i].gen = bs[i].gen /\ Content(i)' = Content(i)
  BY <1>3 DEF Pends, Content
<1>4. ASSUME NEW m \in merging'
      PROVE  /\ m.kind = "merge"
             /\ (Open(m.item) /\ m.gen = bs[m.item].gen)' => m.content = Content(m.item)'
  <2>1. AskedFor(bs', m) /\ (SameAsked(m, asked) => m = asked)
    BY <1>2 DEF TreeInv, Outstanding
  <2>2. PICK i \in Item : i = m.item
    BY <2>1 DEF AskedFor
  <2>3. CASE i = r /\ m.gen = bs'[r].gen
    BY <1>2, <2>1, <2>2, <2>3 DEF SameAsked
  <2>4. CASE ~(i = r /\ m.gen = bs'[r].gen)
    <3>1. m \in merging
      BY <1>2, <2>2, <2>4
    <3>2. m.gen = bs'[i].gen => bs'[i].merge = "PENDING" /\ i # r
      BY <2>1, <2>2, <2>4 DEF AskedFor
    <3>3. m.kind = "merge" /\ (Open(i) /\ m.gen = bs[i].gen => m.content = Content(i))
      BY <2>2, <3>1 DEF MergesInv
    <3>4. Open(i)' /\ m.gen = bs'[i].gen => m.content = Content(i)'
      BY <1>3, <3>2, <3>3
    <3> QED BY <2>2, <3>3, <3>4
  <2> QED BY <2>3, <2>4
<1>5. ASSUME NEW e \in ToSet(results'), e.kind = "merge"
      PROVE  /\ e.result \in {"merged", "conflict"}
             /\ (Open(e.item) /\ e.gen = bs[e.item].gen)' /\ e.result = "merged" =>
                  /\ Content(e.item)' \subseteq e.content
                  /\ e.content \subseteq Merged' \cup Content(e.item)'
  <2>1. e \in ToSet(results) /\ AskedFor(bs', e) /\ ~SameAsked(asked, e)
    BY <1>2, <1>5 DEF TreeInv, Outstanding
  <2>2. PICK i \in Item : i = e.item
    BY <2>1 DEF AskedFor
  <2>3. e.gen = bs'[i].gen => bs'[i].merge = "PENDING" /\ i # r
    BY <1>2, <2>1, <2>2 DEF AskedFor, SameAsked
  <2>4. /\ e.result \in {"merged", "conflict"}
        /\ Open(i) /\ e.gen = bs[i].gen /\ e.result = "merged" =>
              Content(i) \subseteq e.content /\ e.content \subseteq Merged \cup Content(i)
    BY <1>5, <2>1, <2>2 DEF MergesInv
  <2>5. Open(i)' /\ e.gen = bs'[i].gen /\ e.result = "merged" =>
          Content(i)' \subseteq e.content /\ e.content \subseteq Merged' \cup Content(i)'
    BY <1>3, <2>3, <2>4
  <2> QED BY <2>2, <2>4, <2>5
<1>6. /\ \A m \in merging' : m.kind = "merge"
      /\ \A m \in merging' : (Open(m.item) /\ m.gen = bs[m.item].gen)' => m.content = Content(m.item)'
  BY <1>4
<1> QED BY <1>5, <1>6 DEF MergesInv

(* No build is forgotten.                                                  *)
LEMMA VerdictsStay ==
  ASSUME MutexInv, AreBuildSets(bs'), VerdictsInv, results' = results,
         \A i \in Item : SteadySet(bs[i], bs'[i])
  PROVE  VerdictsInv'
<1>1. ASSUME NEW e \in ToSet(results), e.kind = "build", e.gen = bs'[e.item].gen
      PROVE  bs'[e.item].builds[e.job] \notin {"absent", "running"}
  <2>1. e.item \in Item /\ e.job \in Job /\ e.gen \in Nat /\ e.gen <= bs[e.item].gen
    BY <1>1 DEF MutexInv, ResultsAreOld
  <2>2. bs[e.item].gen \in Nat /\ bs'[e.item].gen \in Nat
    BY <2>1 DEF MutexInv, Shape, AreBuildSets, IsBuildSet
  <2>3. ~(bs'[e.item].gen > bs[e.item].gen)
    BY <1>1, <2>1, <2>2
  <2>4. e.gen = bs[e.item].gen
    BY <1>1, <2>1, <2>3 DEF SteadySet
  <2>5. bs[e.item].builds[e.job] \notin {"absent", "running"}
    BY <1>1, <2>4 DEF VerdictsInv
  <2> QED BY <2>1, <2>3, <2>5 DEF SteadySet
<1> QED BY <1>1 DEF VerdictsInv

(* Items that leave the queue never come back to it.                       *)
LEMMA StillOpen ==
  ASSUME QueueInv, item' = item, Queued(q') \subseteq Queued(q)
  PROVE  \A i \in Item : StaysOpen(i)
BY DEF StaysOpen, Open, QueueInv

(* A report takes nothing out of the branch.                               *)
LEMMA MergedGrows ==
  ASSUME trunk \in Seq(Change), NEW r, Unreported \/ Merges(r), item[r] \in Change
  PROVE  Merged \subseteq Merged'
<1>1. CASE Unreported
  BY <1>1 DEF Unreported, Merged
<1>2. CASE Merges(r)
  <2>1. PICK c \in Change : c = item[r]
    OBVIOUS
  <2>2. trunk' = Append(trunk, c) /\ trunk \in Seq(ToSet(trunk))
    BY <1>2, <2>1, SeqOfItsOwn DEF Merges
  <2>3. ToSet(trunk) \subseteq ToSet(Append(trunk, c))
    BY <2>2, AddedToTheRest
  <2> QED BY <2>2, <2>3 DEF Merged
<1> QED BY <1>1, <1>2

(* Where every item keeps its own and no merge is asked for.               *)
LEMMA AllOwn ==
  ASSUME TypeInv, TypeInv', TreeInv', OwnInv, Merged \subseteq Merged',
         merging' = merging, results' = results,
         \A i \in Item : (Open(i)' => SetOk(i)') /\ Pends(i) /\ SteadySet(bs[i], bs'[i])
  PROVE  SetsInv' /\ OwnInv'
<1>1. SetsInv'
  BY DEF SetsInv
<1>2. MergesInv'
  BY MergesStay DEF OwnInv
<1>3. AreBuildSets(bs')
  BY DEF TypeInv, MutexInv, Shape
<1>4. VerdictsInv'
  BY <1>3, VerdictsStay DEF OwnInv, TypeInv
<1> QED BY <1>1, <1>2, <1>4 DEF OwnInv

(* Where the merge of r is asked for.                                      *)
LEMMA AllOwnAsked ==
  ASSUME TypeInv, TypeInv', TreeInv', OwnInv, Merged \subseteq Merged',
         item' = item, results' = results, NEW r \in Item, Asks(r), r \in Queued(q'),
         SteadySet(bs[r], bs'[r]),
         \A i \in Item \ {r} : (Open(i)' => SetOk(i)') /\ Pends(i) /\ SteadySet(bs[i], bs'[i])
  PROVE  SetsInv' /\ OwnInv'
<1>1. SetsInv'
  BY AskedSetOk DEF SetsInv
<1>2. MergesInv'
  BY MergesAsked DEF OwnInv
<1>3. AreBuildSets(bs')
  BY DEF TypeInv, MutexInv, Shape
<1>4. VerdictsInv'
  BY <1>3, VerdictsStay DEF OwnInv, TypeInv
<1> QED BY <1>1, <1>2, <1>4 DEF OwnInv

(* The processing of an item keeps the build sets right.                   *)
LEMMA ProcessingOwns ==
  ASSUME Steadily, OwnInv, TypeInv', TreeInv', NEW r \in Item,
         DropItem(r) \/ PrepareRef(r) \/ LaunchItem(r) \/ WaitItem(r)
  PROVE  SetsInv' /\ OwnInv'
<1>1. Processing(r)
  BY DEF DropItem, PrepareRef, LaunchItem, WaitItem
<1>2. /\ TypeInv /\ QueueInv /\ q \in Queues /\ WellLinked(q) /\ trunk \in Seq(Change)
      /\ bs \in [Item -> BuildSets] /\ SetsInv
      /\ item[r] \in Change /\ r \in Queued(q) /\ SetOk(r)
  BY <1>1, SteadyFacts DEF Steadily
<1>3. item' = item /\ results' = results
  BY ProcessingLeaves
<1>4. ASSUME Merged \subseteq Merged', NEW i \in Item, StaysOpen(i), Spared(bs[i], bs'[i])
      PROVE  (Open(i)' => SetOk(i)') /\ Pends(i) /\ SteadySet(bs[i], bs'[i])
  BY <1>2, <1>4, SparedOwns
<1>5. /\ pass.nnfi \in Item \cup {NoItem}
      /\ pass.nnfi = NoItem \/ Precedes(q, pass.nnfi, r)
  BY <1>1, <1>2, ItemProcessed
<1>6. bs[r].gen \in Nat
  BY <1>2 DEF BuildSets
<1>7. ~bs[r].ref => Unstarted(bs[r])
  BY <1>2 DEF SetOk
<1>8. CASE StaysCanceled(r)
  <2>1. q' = q /\ merging' = merging /\ Unreported
    BY <1>8 DEF StaysCanceled
  <2>2. Merged \subseteq Merged'
    BY <1>2, <2>1, MergedGrows
  <2>3. \A i \in Item : StaysOpen(i)
    BY <1>2, <1>3, <2>1, StillOpen
  <2>4. \A i \in Item : Spared(bs[i], bs'[i])
    BY <1>8 DEF StaysCanceled, Spared
  <2> QED BY <1>2, <1>3, <1>4, <2>1, <2>2, <2>3, <2>4, AllOwn
<1>9. CASE StaysMoved(r)
  <2>1. /\ Unreported /\ q' = MoveItem(q, r, pass.nnfi) /\ q.ahead[r] # pass.nnfi
        /\ \A i \in Item \ {r} : bs'[i] = bs[i]
        /\ bs'[r].gen > bs[r].gen \/ (bs'[r].gen = bs[r].gen /\ ~bs[r].ref)
        /\ Asks(r) \/ (merging' = merging /\ Anew(bs'[r]))
    BY <1>9 DEF StaysMoved
  <2>2. Merged \subseteq Merged'
    BY <1>2, <2>1, MergedGrows
  <2>3. Queued(q') = Queued(q)
    BY <1>2, <1>5, <2>1, MovedUp
  <2>4. \A i \in Item : StaysOpen(i)
    BY <1>2, <1>3, <2>3, StillOpen
  <2>5. \A i \in Item \ {r} : (Open(i)' => SetOk(i)') /\ Pends(i) /\ SteadySet(bs[i], bs'[i])
    BY <1>4, <2>1, <2>2, <2>4 DEF Spared
  <2>6. Unstarted(bs'[r])
    BY <2>1 DEF Asks, Anew
  <2>7. SteadySet(bs[r], bs'[r])
    BY <1>7, <2>1, <2>6 DEF SteadySet, Unstarted
  <2>8. CASE Asks(r)
    BY <1>2, <1>3, <2>2, <2>3, <2>5, <2>7, <2>8, AllOwnAsked
  <2>9. CASE merging' = merging /\ Anew(bs'[r])
    <3>1. SetOk(r)' /\ Pends(r)
      BY <2>9, NewSetOk DEF Pends, Anew
    <3> QED BY <1>2, <1>3, <2>2, <2>5, <2>7, <2>9, <3>1, AllOwn
  <2> QED BY <2>1, <2>8, <2>9
<1>10. CASE StaysAligned(r)
  <2>1. /\ Unreported /\ q' = q /\ \A i \in Item \ {r} : bs'[i] = bs[i]
    BY <1>10 DEF StaysAligned
  <2>2. Merged \subseteq Merged'
    BY <1>2, <2>1, MergedGrows
  <2>3. \A i \in Item : StaysOpen(i)
    BY <1>2, <1>3, <2>1, StillOpen
  <2>4. \A i \in Item \ {r} : (Open(i)' => SetOk(i)') /\ Pends(i) /\ SteadySet(bs[i], bs'[i])
    BY <1>4, <2>1, <2>2, <2>3 DEF Spared
  <2>5. CASE ~bs[r].ref /\ bs'[r].gen = bs[r].gen /\ Asks(r)
    <3>1. SteadySet(bs[r], bs'[r])
      BY <1>7, <2>5 DEF SteadySet, Unstarted, Asks
    <3> QED BY <1>2, <1>3, <2>1, <2>2, <2>4, <2>5, <3>1, AllOwnAsked
  <2>6. CASE /\ merging' = merging /\ SameRequest(bs[r], bs'[r])
             /\ \A j \in Job :
                  \/ bs'[r].builds[j] = bs[r].builds[j]
                  \/ /\ bs[r].builds[j] = "absent" /\ bs'[r].builds[j] = "running"
                     /\ bs[r].merge = "COMPLETE" /\ ~bs[r].unable /\ IsActionable(q, window, r)
    <3>1. SteadySet(bs[r], bs'[r])
      BY <2>6 DEF SteadySet, SameRequest
    <3>2. SetOk(r)'
      <4>1. bs[r].merge # "COMPLETE" =>
              \A j \in Job : bs[r].builds[j] = "absent" => bs'[r].builds[j] = "absent"
        BY <2>6
      <4> QED BY <1>2, <1>3, <2>1, <2>2, <2>6, <4>1, SetStays
    <3>3. Pends(r)
      BY <1>2, <1>3, <2>6 DEF Pends, SameRequest, Open
    <3> QED BY <1>2, <1>3, <2>2, <2>4, <2>6, <3>1, <3>2, <3>3, AllOwn
  <2> QED BY <1>10, <2>5, <2>6 DEF StaysAligned
<1>11. CASE LeavesFailed(r) \/ LeavesMerged(r)
  <2>1. /\ Unreported \/ Merges(r)
        /\ q' = DequeueItem(q, r) /\ merging' = merging /\ StartsNothing(r)
        /\ (\A i \in Item \ {r} : bs'[i] = bs[i]) \/ ResetsBehind(r, q, bs)
    BY <1>11 DEF LeavesFailed, LeavesMerged
  <2>2. Merged \subseteq Merged'
    BY <1>2, <2>1, MergedGrows
  <2>3. Queued(q') = Queued(q) \ {r}
    BY <1>2, <2>1, DequeuedUp
  <2>4. \A i \in Item : StaysOpen(i)
    BY <1>2, <1>3, <2>3, StillOpen
  <2>5. \A i \in Item \ {r} : Spared(bs[i], bs'[i])
    BY <2>1 DEF ResetsBehind, Spared
  <2>6. ~Open(r)'
    BY <1>2, <1>3, <2>3 DEF Open, QueueInv
  <2>7. SteadySet(bs[r], bs'[r])
    BY <2>1 DEF StartsNothing, TamerSet, SteadySet
  <2>8. (Open(r)' => SetOk(r)') /\ Pends(r)
    BY <2>6 DEF Pends
  <2> QED BY <1>2, <1>3, <1>4, <2>1, <2>2, <2>4, <2>5, <2>7, <2>8, AllOwn
<1> QED BY <1>8, <1>9, <1>10, <1>11, ProcessingOutcomes

(* The steps that change no more than the queue and reset build sets.      *)
LEMMA SparingOwns ==
  ASSUME TypeInv, TypeInv', TreeInv', SetsInv, OwnInv, trunk' = trunk,
         merging' = merging, results' = results,
         \A i \in Item : StaysOpen(i) /\ Spared(bs[i], bs'[i])
  PROVE  SetsInv' /\ OwnInv'
<1>1. Merged \subseteq Merged' /\ bs \in [Item -> BuildSets]
  BY DEF Merged, TypeInv, SetsTyped
<1>2. \A i \in Item : (Open(i)' => SetOk(i)') /\ Pends(i) /\ SteadySet(bs[i], bs'[i])
  BY <1>1, SparedOwns
<1> QED BY <1>1, <1>2, AllOwn

(* So do the steps that write none.                                        *)
LEMMA QuietOwns ==
  ASSUME TypeInv, TypeInv', TreeInv', SetsInv, OwnInv,
         \/ WakeUp \/ EndResults \/ StartPass \/ EndPass
         \/ \E c \in Change : Approve(c) \/ Withdraw(c) \/ GoAway(c) \/ NoticeMerge(c)
         \/ UNCHANGED vars
  PROVE  SetsInv' /\ OwnInv'
<1>1. /\ q' = q /\ bs' = bs /\ item' = item /\ trunk' = trunk
      /\ merging' = merging /\ results' = results
  BY DEF WakeUp, EndResults, StartPass, EndPass, Approve, Withdraw, GoAway, NoticeMerge,
         GerritEvent, vars, scheduled, gerrit
<1>2. \A i \in Item : StaysOpen(i) /\ Spared(bs[i], bs'[i])
  BY <1>1, StillOpen DEF Spared, TypeInv, GateInv
<1> QED BY <1>1, <1>2, SparingOwns

(* So does the handling of an event from Gerrit.                           *)
LEMMA TriggerOwns ==
  ASSUME TypeInv, TypeInv', TreeInv', SetsInv, OwnInv, HandleTrigger
  PROVE  SetsInv' /\ OwnInv'
<1>1. trunk' = trunk /\ merging' = merging /\ results' = results
  BY DEF HandleTrigger, gerrit
<1>2. /\ GateInv /\ QueueInv /\ q \in Queues /\ WellLinked(q) /\ bs \in [Item -> BuildSets]
  BY DEF TypeInv, GateInv, QueueInv, SetsTyped
<1>3. CASE Adds(q) /\ bs' = bs
  <2>1. ASSUME NEW i \in Item PROVE StaysOpen(i)
    <3>1. i \in Queued(q) => i \in Queued(q') /\ item'[i] = item[i]
      BY <1>2, <1>3 DEF Adds, QueueInv
    <3>2. Open(i)' => Open(i)
      BY <1>3 DEF Adds, Open
    <3> QED BY <3>1, <3>2 DEF StaysOpen
  <2> QED BY <1>1, <1>3, <2>1, SparingOwns DEF Spared
<1>4. CASE q' = q /\ item' = item /\ bs' = bs
  <2>1. \A i \in Item : StaysOpen(i) /\ Spared(bs[i], bs'[i])
    BY <1>2, <1>4, StillOpen DEF Spared
  <2> QED BY <1>1, <2>1, SparingOwns
<1>5. ASSUME NEW r \in Item, Removes(r) PROVE SetsInv' /\ OwnInv'
  <2>1. q' = DequeueItem(q, r) /\ item' = item
    BY <1>5 DEF Removes
  <2>2. Queued(q') = Queued(q) \ {r}
    BY <1>2, <2>1, DequeuedUp
  <2>3. \A i \in Item : StaysOpen(i) /\ Spared(bs[i], bs'[i])
    BY <1>2, <1>5, <2>1, <2>2, StillOpen DEF Spared, Removes
  <2> QED BY <1>1, <2>3, SparingOwns
<1> QED BY <1>2, <1>3, <1>4, <1>5, TriggerOutcomes

(* So does a promotion: what was asked is for build sets that are gone.    *)
LEMMA PromoteOwns ==
  ASSUME TypeInv, TypeInv', TreeInv', SetsInv, OwnInv, NEW i \in Item, Promote(i)
  PROVE  SetsInv' /\ OwnInv'
<1>1. trunk' = trunk /\ merging' = merging /\ results' = results
  BY DEF Promote, Managing, gerrit
<1>2. QueueInv /\ bs \in [Item -> BuildSets]
  BY DEF TypeInv, GateInv, SetsTyped
<1>3. Restarts
  BY <1>2, PromoteOutcome
<1>4. PICK x : x = EmptyQueue
  OBVIOUS
<1>5. Adds(x) /\ Queued(x) = {}
  BY <1>3, <1>4, EmptyQueueIsWellLinked DEF Restarts
<1>6. ASSUME NEW k \in Item PROVE StaysOpen(k) /\ Spared(bs[k], bs'[k])
  <2>1. Spared(bs[k], bs'[k])
    BY <1>3 DEF Restarts, Spared
  <2>2. item[k] # Idle => k \notin Queued(q') /\ item'[k] # Idle
    BY <1>5 DEF Adds
  <2>3. StaysOpen(k)
    BY <1>2, <2>2 DEF StaysOpen, Open, QueueInv
  <2> QED BY <2>1, <2>3
<1> QED BY <1>1, <1>6, SparingOwns

(* A result is handled.                                                    *)
LEMMA BuildHeard ==
  ASSUME TypeInv, TypeInv', TreeInv, TreeInv', SetsInv, OwnInv, NEW e, e \in ToSet(results),
         HearsBuild(e), NEW t, results' = t, OneVerdict(t), ToSet(t) \subseteq ToSet(results),
         \A f \in ToSet(t) : f.kind = "build" => ~SameBuild(e, f),
         q' = q, item' = item, trunk' = trunk, merging' = merging
  PROVE  SetsInv' /\ OwnInv'
<1>1. PICK i \in Item : i = e.item
  BY DEF TypeInv, MutexInv, ResultsAreOld
<1>2. /\ e.kind = "build" /\ e.gen = bs[i].gen /\ e.job \in Job
      /\ \A k \in Item : k # i => bs'[k] = bs[k]
      /\ SameRequest(bs[i], bs'[i])
      /\ \A j \in Job : \/ bs'[i].builds[j] = bs[i].builds[j]
                        \/ e.result # "retry" /\ bs'[i].builds[j] = "SKIPPED"
                        \/ j = e.job /\ bs'[i].builds[j] = "absent"
  BY <1>1 DEF HearsBuild
<1>3. Merged \subseteq Merged' /\ bs[i].builds[e.job] # "absent"
  BY <1>1, <1>2 DEF Merged, OwnInv, VerdictsInv
<1>4. \A k \in Item : SameRequest(bs[k], bs'[k])
  BY <1>2 DEF SameRequest
<1>5. ASSUME NEW k \in Item, Open(k)' PROVE SetOk(k)'
  <2>1. SetOk(k) /\ (bs[k].ref => k \in Queued(q') /\ item'[k] = item[k])
    BY <1>5 DEF SetsInv, Open, SetOk
  <2>2. bs[k].merge # "COMPLETE" =>
          \A j \in Job : bs[k].builds[j] = "absent" => bs'[k].builds[j] = "absent"
    <3>1. CASE k # i
      BY <1>2, <3>1
    <3>2. CASE k = i
      BY <1>2, <1>3, <2>1, <3>2 DEF SetOk, Unstarted
    <3> QED BY <3>1, <3>2
  <2> QED BY <1>3, <1>4, <2>1, <2>2, SetStays
<1>6. \A k \in Item : Pends(k)
  BY <1>4 DEF Pends, Open, SameRequest
<1>7. \A f \in ToSet(results') : f.kind = "merge" => f \in ToSet(results)
  OBVIOUS
<1>8. MergesInv'
  BY <1>3, <1>6, <1>7, MergesStay DEF OwnInv
<1>9. ASSUME NEW f \in ToSet(results'), f.kind = "build", f.gen = bs'[f.item].gen
      PROVE  bs'[f.item].builds[f.job] \notin {"absent", "running"}
  <2>1. f \in ToSet(results) /\ f.item \in Item /\ f.job \in Job
    BY <1>9 DEF TypeInv, MutexInv, ResultsAreOld
  <2>2. f.gen = bs[f.item].gen
    BY <1>4, <1>9, <2>1 DEF SameRequest
  <2>3. bs[f.item].builds[f.job] \notin {"absent", "running"}
    BY <1>9, <2>1, <2>2 DEF OwnInv, VerdictsInv
  <2>4. CASE f.item # i
    BY <1>2, <2>1, <2>3, <2>4
  <2>5. CASE f.item = i
    <3>1. f.job # e.job
      BY <1>1, <1>2, <1>9, <2>2, <2>5 DEF SameBuild
    <3> QED BY <1>2, <2>1, <2>3, <2>5, <3>1
  <2> QED BY <2>4, <2>5
<1>10. VerdictsInv'
  BY <1>9 DEF VerdictsInv
<1> QED BY <1>5, <1>8, <1>10 DEF SetsInv, OwnInv

(* So does an answer of the mergers,                                       *)
LEMMA MergeHeard ==
  ASSUME TypeInv, TypeInv', TreeInv, TreeInv', SetsInv, OwnInv, NEW e, e \in ToSet(results),
         HearsMerge(e), NEW t, results' = t, OneVerdict(t), ToSet(t) \subseteq ToSet(results),
         q' = q, item' = item, trunk' = trunk, merging' = merging
  PROVE  SetsInv' /\ OwnInv'
<1>1. e.kind = "merge"
  BY DEF HearsMerge
<1>2. PICK i \in Item : i = e.item
  BY <1>1 DEF TreeInv, Outstanding, AskedFor
<1>3. /\ e.gen = bs[i].gen
      /\ \A k \in Item : k # i => bs'[k] = bs[k]
      /\ bs'[i].gen = bs[i].gen /\ bs'[i].ref = bs[i].ref /\ bs'[i].other = bs[i].other
      /\ bs[i].merge = "PENDING" /\ bs'[i].merge = "COMPLETE"
      /\ \/ e.result = "merged" /\ bs'[i].commit = e.content
         \/ bs'[i].unable
      /\ \A j \in Job : bs'[i].builds[j] \in {bs[i].builds[j], "SKIPPED"}
  BY <1>2 DEF HearsMerge
<1>4. Merged \subseteq Merged' /\ Merged' \subseteq Merged
  BY DEF Merged
<1>5. ASSUME NEW k \in Item, Open(k)' PROVE SetOk(k)'
  <2>1. SetOk(k) /\ Open(k)
    BY <1>5 DEF SetsInv, Open
  <2>2. CASE k # i
    <3>1. /\ SameRequest(bs[k], bs'[k]) /\ (bs[k].ref => k \in Queued(q') /\ item'[k] = item[k])
          /\ \A j \in Job : bs[k].builds[j] = "absent" => bs'[k].builds[j] = "absent"
      BY <1>3, <2>1, <2>2 DEF SameRequest, SetOk
    <3> QED BY <1>4, <2>1, <3>1, SetStays
  <2>3. CASE k = i
    <3>1. Content(i)' = Content(i)
      BY <1>3 DEF Content
    <3>2. bs[i].ref /\ i \in Queued(q')
      BY <1>3, <2>1, <2>3 DEF SetOk
    <3>3. e.result = "merged" =>
            Content(i) \subseteq e.content /\ e.content \subseteq Merged \cup Content(i)
      BY <1>1, <1>2, <1>3, <2>1, <2>3 DEF OwnInv, MergesInv
    <3> QED BY <1>3, <1>4, <2>3, <3>1, <3>2, <3>3 DEF SetOk
  <2> QED BY <2>2, <2>3
<1>6. \A k \in Item : Pends(k)
  BY <1>3 DEF Pends, Open
<1>7. \A f \in ToSet(results') : f.kind = "merge" => f \in ToSet(results)
  OBVIOUS
<1>8. MergesInv'
  BY <1>4, <1>6, <1>7, MergesStay DEF OwnInv
<1>9. ASSUME NEW f \in ToSet(results'), f.kind = "build", f.gen = bs'[f.item].gen
      PROVE  bs'[f.item].builds[f.job] \notin {"absent", "running"}
  <2>1. f \in ToSet(results) /\ f.item \in Item /\ f.job \in Job
    BY <1>9 DEF TypeInv, MutexInv, ResultsAreOld
  <2>2. f.gen = bs[f.item].gen
    BY <1>3, <1>9, <2>1
  <2>3. bs[f.item].builds[f.job] \notin {"absent", "running"}
    BY <1>9, <2>1, <2>2 DEF OwnInv, VerdictsInv
  <2> QED BY <1>3, <2>1, <2>3
<1>10. VerdictsInv'
  BY <1>9 DEF VerdictsInv
<1> QED BY <1>5, <1>8, <1>10 DEF SetsInv, OwnInv

(* and any result that is handled.                                         *)
LEMMA ResultOwns ==
  ASSUME TypeInv, TypeInv', TreeInv, TreeInv', SetsInv, OwnInv, HandleResult
  PROVE  SetsInv' /\ OwnInv'
<1>1. PICK e : e = Head(results)
  OBVIOUS
<1>2. PICK t : t = Tail(results)
  OBVIOUS
<1>3. /\ results' = t /\ q' = q /\ item' = item /\ trunk' = trunk /\ merging' = merging
  BY <1>2 DEF HandleResult, gerrit
<1>4. /\ results \in Seq(ToSet(results)) /\ results # <<>> /\ e \in ToSet(results)
      /\ bs' = bs \/ HearsBuild(e) \/ HearsMerge(e)
  BY <1>1, ResultOutcomes DEF OwnInv
<1>5. ToSet(t) \subseteq ToSet(results)
  BY <1>2, <1>4, TakenFromTheFront
<1>6. /\ OneVerdict(t)
      /\ \A f \in ToSet(t) : f.kind = "build" /\ e.kind = "build" => ~SameBuild(e, f)
  BY <1>1, <1>2, <1>4, FirstVerdict DEF OwnInv, VerdictsInv
<1>7. CASE bs' = bs
  <2>1. Merged \subseteq Merged'
    BY <1>3 DEF Merged
  <2>2. SetsInv'
    BY <1>3, <1>7 DEF SetsInv, SetOk, Open, Content, Merged, Unstarted
  <2>3. \A k \in Item : Pends(k)
    BY <1>3, <1>7 DEF Pends, Open
  <2>4. \A f \in ToSet(results') : f.kind = "merge" => f \in ToSet(results)
    BY <1>3, <1>5
  <2>5. MergesInv'
    BY <1>3, <2>1, <2>3, <2>4, MergesStay DEF OwnInv
  <2>6. VerdictsInv'
    BY <1>3, <1>5, <1>6, <1>7 DEF OwnInv, VerdictsInv
  <2> QED BY <2>2, <2>5, <2>6 DEF OwnInv
<1>8. CASE HearsBuild(e)
  <2>1. \A f \in ToSet(t) : f.kind = "build" => ~SameBuild(e, f)
    BY <1>6, <1>8 DEF HearsBuild
  <2> QED BY <1>3, <1>4, <1>5, <1>6, <1>8, <2>1, BuildHeard
<1>9. CASE HearsMerge(e)
  BY <1>3, <1>4, <1>5, <1>6, <1>9, MergeHeard
<1> QED BY <1>4, <1>7, <1>8, <1>9

(* A build comes to its end: its result is the only one there is.          *)
BuildEnds(i, j, r) ==
  /\ bs[i].builds[j] = "running" /\ SameRequest(bs[i], bs'[i])
  /\ bs'[i].failing = bs[i].failing
  /\ \A k \in Item : k # i => bs'[k] = bs[k]
  /\ \A k \in Job : bs'[i].builds[k] = IF k = j THEN (IF r = "retry" THEN "retrying" ELSE r)
                                       ELSE bs[i].builds[k]
  /\ q' = q /\ item' = item /\ trunk' = trunk /\ status' = status /\ merging' = merging
  /\ pass' = pass /\ layout' = layout

(* BuildCompleted is no more than that.                                    *)
LEMMA BuildEnding ==
  ASSUME TypeInv, NEW i \in Item, NEW j \in Job, NEW r \in {"SUCCESS", "FAILURE", "retry"},
         BuildCompleted(i, j, r)
  PROVE  BuildEnds(i, j, r)
<1>1. PICK b \in BuildSets : b = bs[i]
  BY DEF TypeInv, SetsTyped
<1>2. PICK builds : builds = [b.builds EXCEPT ![j] = IF r = "retry" THEN "retrying" ELSE r]
  OBVIOUS
<1>3. PICK c : c = [b EXCEPT !.builds = builds]
  OBVIOUS
<1>4. bs' = [bs EXCEPT ![i] = c] /\ b.builds[j] = "running"
  BY <1>1, <1>2, <1>3 DEF BuildCompleted
<1>5. SameRequest(b, c) /\ c.failing = b.failing /\ c.builds = builds
  BY <1>3, BuildsWritten
<1>6. b.builds \in [Job -> Builds]
  BY DEF BuildSets
<1>7. \A k \in Job : c.builds[k] = IF k = j THEN (IF r = "retry" THEN "retrying" ELSE r)
                                   ELSE b.builds[k]
  BY <1>2, <1>5, <1>6
<1>8. bs'[i] = c /\ \A k \in Item : k # i => bs'[k] = bs[k]
  BY <1>4 DEF TypeInv, SetsTyped
<1>9. /\ q' = q /\ item' = item /\ trunk' = trunk /\ status' = status /\ merging' = merging
      /\ pass' = pass /\ layout' = layout
  BY DEF BuildCompleted, gerrit
<1> QED BY <1>1, <1>4, <1>5, <1>7, <1>8, <1>9 DEF BuildEnds

(* The build sets stay right when a build ends,                            *)
LEMMA BuildCompletedOwns ==
  ASSUME TypeInv, TypeInv', TreeInv, TreeInv', SetsInv, OwnInv, NEW i \in Item, NEW j \in Job,
         NEW r \in {"SUCCESS", "FAILURE", "retry"}, BuildCompleted(i, j, r)
  PROVE  SetsInv' /\ OwnInv'
<1>1. BuildEnds(i, j, r)
  BY BuildEnding
<1>2. PICK e : e = [kind |-> "build", item |-> i, gen |-> bs[i].gen, job |-> j, result |-> r]
  OBVIOUS
<1>3. /\ e.kind = "build" /\ e.item = i /\ e.gen = bs[i].gen /\ e.job = j
      /\ results' = Append(results, e)
  BY <1>2 DEF BuildCompleted, AddResult
<1>4. results \in Seq(ToSet(results))
  BY DEF TypeInv, MutexInv, ResultsAreOld
<1>5. ToSet(results') \subseteq ToSet(results) \cup {e}
  BY <1>3, <1>4, AddedAtTheEnd
<1>6. Merged \subseteq Merged'
  BY <1>1 DEF BuildEnds, Merged
<1>7. \A k \in Item : SameRequest(bs[k], bs'[k])
  BY <1>1 DEF BuildEnds, SameRequest
<1>8. bs[i].merge = "COMPLETE"
  BY <1>1 DEF BuildEnds, TreeInv, TreesRooted, TreeSet, Live
<1>9. ASSUME NEW k \in Item, Open(k)' PROVE SetOk(k)'
  <2>1. SetOk(k) /\ (bs[k].ref => k \in Queued(q') /\ item'[k] = item[k])
    BY <1>1, <1>9 DEF SetsInv, Open, SetOk, BuildEnds
  <2>2. bs[k].merge # "COMPLETE" =>
          \A l \in Job : bs[k].builds[l] = "absent" => bs'[k].builds[l] = "absent"
    BY <1>1, <1>8 DEF BuildEnds
  <2> QED BY <1>6, <1>7, <2>1, <2>2, SetStays
<1>10. \A k \in Item : Pends(k)
  BY <1>1, <1>7 DEF Pends, Open, SameRequest, BuildEnds
<1>11. \A f \in ToSet(results') : f.kind = "merge" => f \in ToSet(results)
  BY <1>3, <1>5
<1>12. merging' \subseteq merging
  BY <1>1 DEF BuildEnds
<1>13. MergesInv'
  BY <1>6, <1>10, <1>11, <1>12, MergesStay DEF OwnInv
<1>14. \A f \in ToSet(results) : f.kind = "build" /\ e.kind = "build" =>
                                   ~SameBuild(f, e) /\ ~SameBuild(e, f)
  BY <1>1, <1>3 DEF SameBuild, OwnInv, VerdictsInv, BuildEnds
<1>15. OneVerdict(results')
  BY <1>3, <1>4, <1>14, OneMoreVerdict DEF OwnInv, VerdictsInv
<1>16. ASSUME NEW f \in ToSet(results'), f.kind = "build", f.gen = bs'[f.item].gen
       PROVE  bs'[f.item].builds[f.job] \notin {"absent", "running"}
  <2>1. CASE f = e
    BY <1>1, <1>3, <2>1 DEF BuildEnds
  <2>2. CASE f # e
    <3>1. f \in ToSet(results) /\ f.item \in Item /\ f.job \in Job
      BY <1>5, <1>16, <2>2 DEF TypeInv, MutexInv, ResultsAreOld
    <3>2. f.gen = bs[f.item].gen
      BY <1>7, <1>16, <3>1 DEF SameRequest
    <3>3. bs[f.item].builds[f.job] \notin {"absent", "running"}
      BY <1>16, <3>1, <3>2 DEF OwnInv, VerdictsInv
    <3> QED BY <1>1, <3>1, <3>3 DEF BuildEnds
  <2> QED BY <2>1, <2>2
<1>17. VerdictsInv'
  BY <1>15, <1>16 DEF VerdictsInv
<1> QED BY <1>9, <1>13, <1>17 DEF SetsInv, OwnInv

(* and when the mergers answer.                                            *)
LEMMA MergeCompletedOwns ==
  ASSUME TypeInv, TypeInv', TreeInv, TreeInv', SetsInv, OwnInv, NEW m \in merging, NEW r,
         MergeCompleted(m, r)
  PROVE  SetsInv' /\ OwnInv'
<1>1. PICK e : e = [kind |-> "merge", item |-> m.item, gen |-> m.gen, result |-> r,
                    content |-> IF r = "merged" THEN Merged \cup m.content ELSE {}]
  OBVIOUS
<1>2. /\ e.kind = "merge" /\ e.item = m.item /\ e.gen = m.gen /\ e.result = r
      /\ r = "merged" => e.content = Merged \cup m.content
      /\ results' = Append(results, e) /\ merging' = merging \ {m}
  BY <1>1 DEF MergeCompleted, AddResult
<1>3. q' = q /\ item' = item /\ bs' = bs /\ trunk' = trunk
  BY DEF MergeCompleted, scheduled, gerrit
<1>4. /\ m.kind = "merge" /\ r \in {"merged", "conflict"}
      /\ Open(m.item) /\ m.gen = bs[m.item].gen => m.content = Content(m.item)
  BY DEF MergeCompleted, OwnInv, MergesInv
<1>5. results \in Seq(ToSet(results))
  BY DEF TypeInv, MutexInv, ResultsAreOld
<1>6. ToSet(results') \subseteq ToSet(results) \cup {e}
  BY <1>2, <1>5, AddedAtTheEnd
<1>7. SetsInv'
  BY <1>3 DEF SetsInv, SetOk, Open, Content, Merged, Unstarted
<1>8. ASSUME NEW f \in ToSet(results'), f.kind = "merge"
      PROVE  /\ f.result \in {"merged", "conflict"}
             /\ (Open(f.item) /\ f.gen = bs[f.item].gen)' /\ f.result = "merged" =>
                  /\ Content(f.item)' \subseteq f.content
                  /\ f.content \subseteq Merged' \cup Content(f.item)'
  <2>1. Merged' = Merged /\ \A k : Content(k)' = Content(k) /\ Open(k)' = Open(k)
    BY <1>3 DEF Merged, Content, Open
  <2>2. CASE f = e
    BY <1>2, <1>3, <1>4, <2>1, <2>2
  <2>3. CASE f # e
    <3>1. f \in ToSet(results)
      BY <1>6, <2>3
    <3> QED BY <1>3, <1>8, <2>1, <3>1 DEF OwnInv, MergesInv
  <2> QED BY <2>2, <2>3
<1>9. /\ \A n \in merging' : n.kind = "merge"
      /\ \A n \in merging' : (Open(n.item) /\ n.gen = bs[n.item].gen)' => n.content = Content(n.item)'
  BY <1>2, <1>3 DEF OwnInv, MergesInv, Open, Content
<1>10. MergesInv'
  BY <1>8, <1>9 DEF MergesInv
<1>11. OneVerdict(results')
  BY <1>2, <1>5, OneMoreVerdict DEF OwnInv, VerdictsInv
<1>12. \A f \in ToSet(results') : f.kind = "build" => f \in ToSet(results)
  BY <1>2, <1>6
<1>13. VerdictsInv'
  BY <1>3, <1>11, <1>12 DEF OwnInv, VerdictsInv
<1> QED BY <1>7, <1>10, <1>13 DEF OwnInv

(* So the build sets stay right, whatever happens but a reconfiguration.   *)
LEMMA InitOwns == Init => SetsInv /\ OwnInv
<1> SUFFICES ASSUME Init PROVE SetsInv /\ OwnInv
  OBVIOUS
<1>1. ToSet(results) = {} /\ DOMAIN results = {} /\ merging = {}
  BY DEF Init, ToSet
<1>2. PICK zero : zero = 0
  OBVIOUS
<1>3. \A i \in Item : bs[i] = NewBuildSet(zero)
  BY <1>2 DEF Init
<1>4. ASSUME NEW i \in Item PROVE SetOk(i)
  <2>1. PICK b : b = NewBuildSet(zero)
    OBVIOUS
  <2>2. /\ b.merge = "NEW" /\ b.ref = FALSE /\ b.other = <<>> /\ b.unable = FALSE
        /\ \A j \in Job : b.builds[j] = "absent"
    BY <2>1 DEF NewBuildSet
  <2> QED BY <1>3, <2>1, <2>2 DEF SetOk, Unstarted
<1> QED BY <1>1, <1>4 DEF SetsInv, OwnInv, MergesInv, VerdictsInv, OneVerdict

-----------------------------------------------------------------------------
(* The order of the queue.                                                 *)

(* What a change of the queue needs is queued before it, has merged, or is *)
(* not to be merged any more; only an item yet to be processed may wait    *)
(* for one that is neither.                                                *)
NeedsOrder ==
  \A i \in Queued(q) : \A c \in Needs[item[i]] :
    /\ \A b \in Queued(q) : item[b] = c => Precedes(q, b, i)
    /\ (\A b \in Queued(q) : item[b] # c) => status[c] \notin {"open", "ready"} \/ i \in Todo

(* A change that is to be removed has gone for good.                       *)
GoneTriggers ==
  \A e \in ToSet(triggers) : e.type = "gone" => status[e.change] \notin {"open", "ready"}

OrderInv == TrunkInv /\ SpineInv /\ NeedsOrder /\ GoneTriggers

(* Whoever is behind the nearest non-failing item is behind the spine.     *)
LEMMA BehindTheSpine ==
  ASSUME NEW x \in Queues, WellLinked(x), NEW r \in Item, x.ahead[r] = pass.nnfi,
         x = q
  PROVE  Up(x, r) = Spine
BY UpUnfolds, NoItemAssumption DEF Spine

(* The pass goes on.                                                       *)
LEMMA SpineGrows ==
  ASSUME QueueInv, SpineInv, NEW r, Processing(r), NEW n, StepsOn(r, n),
         Queued(q') \in {Queued(q), Queued(q) \ {r}},
         \A a, b \in Queued(q') : Precedes(q, a, b) => Precedes(q', a, b),
         \A b \in Queued(q) \ Todo : bs'[b].failing = bs[b].failing,
         Spine' = IF r \in Queued(q') /\ ~bs'[r].failing THEN Spine \cup {r} ELSE Spine
  PROVE  SpineInv'
<1>1. /\ r \in Queued(q) /\ r \in Todo /\ r \notin Spine
      /\ \A t \in Todo \ {r} : Precedes(q, r, t) /\ t \in Queued(q)
      /\ Todo' = Todo \ {r} /\ pass.phase = "queue"
  BY WhereItStands DEF StepsOn
<1>2. /\ \A b \in Spine : b \in Queued(q) /\ b \notin Todo /\ ~bs[b].failing
      /\ \A b \in Queued(q) \ Todo : b \in Spine \/ bs[b].failing
      /\ \A b \in Queued(q) \ Todo, t \in Todo : Precedes(q, b, t)
  BY <1>1 DEF SpineInv
<1>3. ASSUME NEW b \in Spine' PROVE b \in Queued(q') /\ b \notin Todo' /\ ~bs'[b].failing
  BY <1>1, <1>2, <1>3
<1>4. ASSUME NEW b \in Queued(q') \ Todo' PROVE b \in Spine' \/ bs'[b].failing
  BY <1>1, <1>2, <1>4
<1>5. ASSUME NEW b \in Queued(q') \ Todo', NEW t \in Todo' PROVE Precedes(q', b, t)
  <2>1. t \in Queued(q') /\ b \in Queued(q) /\ Precedes(q, b, t)
    BY <1>1, <1>2
  <2> QED BY <2>1
<1> QED BY <1>3, <1>4, <1>5 DEF SpineInv

(* The spine stays as long as no item joins it,                            *)
LEMMA SpineKept ==
  ASSUME QueueInv, SpineInv, NEW r, Processing(r), StepsOn(r, pass.nnfi), q' = q
  PROVE  Spine' = Spine
BY DEF StepsOn, Spine

(* and when an item that is not on it leaves.                              *)
LEMMA SpineKeptWithout ==
  ASSUME QueueInv, SpineInv, NEW r, Processing(r), StepsOn(r, pass.nnfi),
         q' = DequeueItem(q, r)
  PROVE  Spine' = Spine
<1>1. r \in Item /\ r \notin Spine /\ q \in Queues /\ WellLinked(q)
  BY WhereItStands DEF QueueInv
<1>2. pass'.nnfi = pass.nnfi /\ pass.nnfi \in Item \cup {NoItem}
  BY DEF StepsOn, QueueInv, PassInv, Passes
<1>3. \A i \in Item \ {r} : Up(q', i) = Up(q, i) \ {r}
  BY <1>1, DequeuedUp
<1> QED BY <1>1, <1>2, <1>3 DEF Spine

(* Where what an item needs stands when it leaves Todo.                    *)
LEMMA MetNeeds ==
  ASSUME NEW r, NeedsMet(item[r], ToSet(ChangesIn(q))), QueueInv,
         NEW c \in Needs[item[r]], \A b \in Queued(q) : item[b] # c
  PROVE  status[c] = "merged"
<1>1. c \notin ToSet(ChangesIn(q))
  BY DEF ChangesIn, ToSet, Queued, QueueInv, Queues
<1> QED BY <1>1 DEF NeedsMet, Missing, Unmerged

(* An item that stays keeps the queue in the order of the needs,           *)
LEMMA StaysKeepOrder ==
  ASSUME QueueInv, OrderInv, NEW r, Processing(r), NEW n, StepsOn(r, n),
         item' = item, triggers' = triggers, Unreported, Queued(q') = Queued(q),
         NeedsMet(item[r], ToSet(ChangesIn(q))),
         \A a, b : Precedes(q', a, b) <=> Precedes(q, a, b)
  PROVE  TrunkInv' /\ NeedsOrder' /\ GoneTriggers'
<1>1. trunk' = trunk /\ status' = status /\ Todo' = Todo \ {r}
  BY DEF Unreported, StepsOn
<1>2. TrunkInv' /\ GoneTriggers'
  BY <1>1 DEF OrderInv, TrunkInv, GoneTriggers, Merged
<1>3. NeedsOrder'
  <2> SUFFICES ASSUME NEW i \in Queued(q), NEW c \in Needs[item[i]]
               PROVE  /\ \A b \in Queued(q) : item[b] = c => Precedes(q', b, i)
                      /\ (\A b \in Queued(q) : item[b] # c) =>
                            status[c] \notin {"open", "ready"} \/ i \in Todo'
    BY <1>1 DEF NeedsOrder
  <2>1. /\ \A b \in Queued(q) : item[b] = c => Precedes(q, b, i)
        /\ (\A b \in Queued(q) : item[b] # c) =>
              status[c] \notin {"open", "ready"} \/ i \in Todo
    BY DEF OrderInv, NeedsOrder
  <2>2. i = r /\ (\A b \in Queued(q) : item[b] # c) => status[c] = "merged"
    BY MetNeeds
  <2> QED BY <1>1, <2>1, <2>2
<1> QED BY <1>2, <1>3

(* and so does one that leaves.                                            *)
LEMMA LeavesKeepOrder ==
  ASSUME QueueInv, OrderInv, NEW r, Processing(r), NEW n, StepsOn(r, n),
         item' = item, triggers' = triggers, Unreported \/ Merges(r), trunk \in Seq(Change),
         status \in [Change -> Statuses], item[r] \in Change,
         q' = DequeueItem(q, r)
  PROVE  TrunkInv' /\ NeedsOrder' /\ GoneTriggers'
<1>1. r \in Item /\ r \in Queued(q) /\ q \in Queues /\ WellLinked(q) /\ Todo' = Todo \ {r}
  BY WhereItStands DEF QueueInv, StepsOn, OrderInv
<1>2. /\ Queued(q') = Queued(q) \ {r}
      /\ \A a, b : Precedes(q', a, b) <=> Precedes(q, a, b) /\ a # r /\ b # r
  BY <1>1, DequeuedUp
<1>3. /\ \A c \in Change : status'[c] = status[c] \/ (c = item[r] /\ status'[c] = "merged")
      /\ \A c \in Change : (status'[c] = "merged") <=> (c \in Merged')
  <2>1. CASE Unreported
    BY <2>1 DEF Unreported, OrderInv, TrunkInv, Merged
  <2>2. CASE Merges(r)
    <3>1. PICK c \in Change : c = item[r]
      OBVIOUS
    <3>2. trunk' = Append(trunk, c) /\ status' = [status EXCEPT ![c] = "merged"]
      BY <2>2, <3>1 DEF Merges
    <3>3. trunk \in Seq(ToSet(trunk))
      BY SeqOfItsOwn
    <3>4. ToSet(trunk') = ToSet(trunk) \cup {c}
      BY <3>2, <3>3, AddedToTheRest, AddedAtTheEnd
    <3> QED BY <3>1, <3>2, <3>4 DEF OrderInv, TrunkInv, Merged
  <2> QED BY <2>1, <2>2
<1>4. \A i \in Queued(q) : item[i] \in Change
  BY DEF QueueInv, ItemsMade, Queues, Queued
<1>5. TrunkInv'
  <2>1. ASSUME NEW i \in Queued(q') PROVE item[i] \in Gated \ Merged'
    <3>1. i \in Queued(q) /\ i # r /\ item[i] # item[r] /\ item[i] \in Change
      BY <1>1, <1>2, <1>4 DEF QueueInv, QueuedOnce
    <3>2. item[i] \in Gated \ Merged /\ status[item[i]] # "merged"
      BY <3>1 DEF OrderInv, TrunkInv
    <3> QED BY <1>3, <3>1, <3>2
  <2> QED BY <1>3, <2>1 DEF TrunkInv
<1>6. GoneTriggers'
  <2>1. ASSUME NEW e \in ToSet(triggers), e.type = "gone"
        PROVE  status'[e.change] \notin {"open", "ready"}
    <3>1. status[e.change] \notin {"open", "ready"}
      BY <2>1 DEF OrderInv, GoneTriggers
    <3>2. CASE Unreported
      BY <3>1, <3>2 DEF Unreported
    <3>3. CASE Merges(r)
      BY <3>1, <3>3 DEF Merges
    <3> QED BY <3>2, <3>3
  <2> QED BY <2>1 DEF GoneTriggers
<1>7. NeedsOrder'
  <2> SUFFICES ASSUME NEW i \in Queued(q'), NEW c \in Needs[item[i]]
               PROVE  /\ \A b \in Queued(q') : item[b] = c => Precedes(q', b, i)
                      /\ (\A b \in Queued(q') : item[b] # c) =>
                            status'[c] \notin {"open", "ready"} \/ i \in Todo'
    BY DEF NeedsOrder
  <2>1. i \in Queued(q) /\ i # r /\ c \in Change
    BY <1>2, <1>4, NeedsAssumption
  <2>2. /\ \A b \in Queued(q) : item[b] = c => Precedes(q, b, i)
        /\ (\A b \in Queued(q) : item[b] # c) =>
              status[c] \notin {"open", "ready"} \/ i \in Todo
    BY <2>1 DEF OrderInv, NeedsOrder
  <2>3. ASSUME \A b \in Queued(q') : item[b] # c
        PROVE  status'[c] \notin {"open", "ready"} \/ i \in Todo'
    <3>1. CASE item[r] # c
      BY <1>1, <1>2, <1>3, <2>1, <2>2, <2>3, <3>1
    <3>2. CASE item[r] = c
      <4>1. Precedes(q, r, i)
        BY <1>1, <2>2, <3>2
      <4>2. i \in Todo
        <5>1. i \in Queued(q) \ Todo => Precedes(q, i, r)
          BY WhereItStands DEF OrderInv
        <5> QED BY <1>1, <2>1, <4>1, <5>1, PrecedesIsStrict DEF WellLinked
      <4> QED BY <1>1, <2>1, <4>2
    <3> QED BY <3>1, <3>2
  <2> QED BY <1>2, <2>1, <2>2, <2>3
<1> QED BY <1>5, <1>6, <1>7

(* The processing of an item keeps the order.                              *)
LEMMA ProcessingKeepsOrder ==
  ASSUME Steadily, OrderInv, NEW r \in Item,
         DropItem(r) \/ PrepareRef(r) \/ LaunchItem(r) \/ WaitItem(r)
  PROVE  OrderInv'
<1>1. Processing(r)
  BY DEF DropItem, PrepareRef, LaunchItem, WaitItem
<1>2. /\ QueueInv /\ q \in Queues /\ WellLinked(q) /\ trunk \in Seq(Change)
      /\ item[r] \in Change /\ r \in Queued(q) /\ SpineInv
      /\ status \in [Change -> Statuses]
  BY <1>1, SteadyFacts DEF Steadily, TypeInv, ServicesTyped
<1>3. item' = item /\ triggers' = triggers
  BY ProcessingLeaves
<1>4. /\ r \in Todo /\ r \notin Spine
      /\ \A b \in Queued(q) \ Todo : b # r /\ b \in Item /\ r \notin Up(q, b)
  BY <1>1, <1>2, WhereItStands
<1>5. /\ pass.nnfi \in Item \cup {NoItem}
      /\ pass.nnfi = NoItem \/ Precedes(q, pass.nnfi, r)
  BY <1>1, <1>2, ItemProcessed
<1>6. CASE StaysCanceled(r)
  <2>1. /\ NeedsMet(item[r], ToSet(ChangesIn(q))) /\ q' = q /\ Unreported
        /\ StepsOn(r, pass.nnfi) /\ bs'[r].failing
        /\ \A i \in Item : i # r /\ r \notin Up(q, i) => bs'[i] = bs[i]
    BY <1>6 DEF StaysCanceled
  <2>2. Spine' = Spine
    BY <1>1, <1>2, <2>1, SpineKept
  <2>3. \A b \in Queued(q) \ Todo : bs'[b].failing = bs[b].failing
    BY <1>4, <2>1
  <2>4. /\ Queued(q') = Queued(q) /\ Queued(q') \in {Queued(q), Queued(q) \ {r}}
        /\ \A a, b \in Queued(q') : Precedes(q, a, b) => Precedes(q', a, b)
        /\ \A a, b : Precedes(q', a, b) <=> Precedes(q, a, b)
    BY <2>1
  <2>5. SpineInv'
    BY <1>1, <1>2, <2>1, <2>2, <2>3, <2>4, SpineGrows
  <2>6. TrunkInv' /\ NeedsOrder' /\ GoneTriggers'
    BY <1>1, <1>2, <1>3, <2>1, <2>4, StaysKeepOrder
  <2> QED BY <2>5, <2>6 DEF OrderInv
<1>7. CASE StaysMoved(r)
  <2>1. /\ NeedsMet(item[r], ToSet(ChangesIn(q))) /\ Unreported
        /\ q.ahead[r] # pass.nnfi /\ q' = MoveItem(q, r, pass.nnfi)
        /\ StepsOn(r, r) /\ ~bs'[r].failing
        /\ \A i \in Item \ {r} : bs'[i] = bs[i]
    BY <1>7 DEF StaysMoved, Asks, Anew
  <2>2. /\ Queued(q') = Queued(q)
        /\ Up(q', r) = IF pass.nnfi = NoItem THEN {} ELSE {pass.nnfi} \cup Up(q, pass.nnfi)
        /\ \A a, b : Precedes(q', a, b) <=> Precedes(q, a, b)
    <3>1. PICK n \in Item \cup {NoItem} : n = pass.nnfi
      BY <1>5
    <3>2. q' = MoveItem(q, r, n) /\ q.ahead[r] # n /\ (n = NoItem \/ Precedes(q, n, r))
      BY <1>5, <2>1, <3>1
    <3>3. LET y == MoveItem(q, r, n)
          IN  /\ Queued(y) = Queued(q)
              /\ Up(y, r) = IF n = NoItem THEN {} ELSE {n} \cup Up(q, n)
              /\ \A b, c : Precedes(y, b, c) <=> Precedes(q, b, c)
      BY <1>2, <3>2, MovedUp
    <3> QED BY <3>1, <3>2, <3>3
  <2>3. Spine' = Spine \cup {r}
    BY <2>1, <2>2, NoItemAssumption DEF Spine, StepsOn
  <2>4. \A b \in Queued(q) \ Todo : bs'[b].failing = bs[b].failing
    BY <1>4, <2>1
  <2>5. /\ Queued(q') \in {Queued(q), Queued(q) \ {r}} /\ r \in Queued(q')
        /\ \A a, b \in Queued(q') : Precedes(q, a, b) => Precedes(q', a, b)
    BY <1>2, <2>2
  <2>6. SpineInv'
    BY <1>1, <1>2, <2>1, <2>3, <2>4, <2>5, SpineGrows
  <2>7. TrunkInv' /\ NeedsOrder' /\ GoneTriggers'
    BY <1>1, <1>2, <1>3, <2>1, <2>2, StaysKeepOrder
  <2> QED BY <2>6, <2>7 DEF OrderInv
<1>8. CASE StaysAligned(r)
  <2>1. /\ NeedsMet(item[r], ToSet(ChangesIn(q))) /\ Unreported /\ q' = q
        /\ q.ahead[r] = pass.nnfi
        /\ StepsOn(r, IF bs'[r].failing THEN pass.nnfi ELSE r)
        /\ \A i \in Item \ {r} : bs'[i] = bs[i]
    BY <1>8 DEF StaysAligned
  <2>2. PICK n : n = IF bs'[r].failing THEN pass.nnfi ELSE r
    OBVIOUS
  <2>3. StepsOn(r, n)
    BY <2>1, <2>2
  <2>4. Up(q, r) = Spine
    BY <1>2, <2>1, BehindTheSpine
  <2>5. Spine' = IF bs'[r].failing THEN Spine ELSE Spine \cup {r}
    BY <2>1, <2>2, <2>3, <2>4, NoItemAssumption DEF Spine, StepsOn
  <2>6. \A b \in Queued(q) \ Todo : bs'[b].failing = bs[b].failing
    BY <1>4, <2>1
  <2>7. /\ Queued(q') = Queued(q) /\ Queued(q') \in {Queued(q), Queued(q) \ {r}}
        /\ r \in Queued(q')
        /\ \A a, b \in Queued(q') : Precedes(q, a, b) => Precedes(q', a, b)
        /\ \A a, b : Precedes(q', a, b) <=> Precedes(q, a, b)
    BY <1>2, <2>1
  <2>8. SpineInv'
    <3>1. Spine' = IF r \in Queued(q') /\ ~bs'[r].failing THEN Spine \cup {r} ELSE Spine
      BY <2>5, <2>7
    <3> QED BY <1>1, <1>2, <2>3, <2>6, <2>7, <3>1, SpineGrows
  <2>9. TrunkInv' /\ NeedsOrder' /\ GoneTriggers'
    BY <1>1, <1>2, <1>3, <2>1, <2>3, <2>7, StaysKeepOrder
  <2> QED BY <2>8, <2>9 DEF OrderInv
<1>9. CASE LeavesFailed(r) \/ LeavesMerged(r)
  <2>1. /\ Unreported \/ Merges(r)
        /\ q' = DequeueItem(q, r) /\ StepsOn(r, pass.nnfi)
        /\ (\A i \in Item \ {r} : bs'[i] = bs[i]) \/ ResetsBehind(r, q, bs)
    BY <1>9 DEF LeavesFailed, LeavesMerged
  <2>2. Spine' = Spine
    BY <1>1, <1>2, <2>1, SpineKeptWithout
  <2>3. \A b \in Queued(q) \ Todo : bs'[b].failing = bs[b].failing
    BY <1>4, <2>1 DEF ResetsBehind
  <2>4. /\ Queued(q') = Queued(q) \ {r}
        /\ \A a, b : Precedes(q', a, b) <=> Precedes(q, a, b) /\ a # r /\ b # r
    BY <1>2, <2>1, DequeuedUp
  <2>5. /\ Queued(q') \in {Queued(q), Queued(q) \ {r}} /\ r \notin Queued(q')
        /\ \A a, b \in Queued(q') : Precedes(q, a, b) => Precedes(q', a, b)
    BY <2>4
  <2>6. SpineInv'
    BY <1>1, <1>2, <2>1, <2>2, <2>3, <2>5, SpineGrows
  <2>7. TrunkInv' /\ NeedsOrder' /\ GoneTriggers'
    BY <1>1, <1>2, <1>3, <2>1, LeavesKeepOrder
  <2> QED BY <2>6, <2>7 DEF OrderInv
<1> QED BY <1>6, <1>7, <1>8, <1>9, ProcessingOutcomes

(* Nothing changes but where the pass stands, and no verdict does.         *)
LEMMA OrderStays ==
  ASSUME OrderInv, q' = q, item' = item, status' = status, trunk' = trunk,
         triggers' = triggers, Todo \subseteq Todo', SpineInv'
  PROVE  OrderInv'
BY DEF OrderInv, TrunkInv, NeedsOrder, GoneTriggers, Merged

(* Outside of a pass nothing is to be processed.                           *)
LEMMA NothingTodo ==
  ASSUME QueueInv, pass.phase # "queue" \/ pass.todo = <<>>
  PROVE  Todo = {}
<1>1. pass.todo = <<>>
  BY DEF QueueInv, PassInv
<1> QED BY <1>1 DEF Todo, ToSet

(* So do the steps of the main loop,                                       *)
LEMMA LoopKeepsOrder ==
  ASSUME QueueInv, OrderInv, WakeUp \/ EndResults \/ StartPass \/ EndPass \/ HandleResult
  PROVE  OrderInv'
<1>1. /\ q' = q /\ item' = item /\ status' = status /\ trunk' = trunk /\ triggers' = triggers
      /\ pass.phase # "queue" \/ pass.todo = <<>>
  BY DEF WakeUp, EndResults, StartPass, EndPass, HandleResult, scheduled, gerrit
<1>2. Todo = {}
  BY <1>1, NothingTodo
<1>3. CASE StartPass
  <2>1. /\ pass'.todo = q.order /\ pass'.nnfi = NoItem /\ q' = q
    BY <1>3 DEF StartPass, At, scheduled
  <2>2. Spine' = {} /\ Todo' = Queued(q')
    BY <2>1 DEF Spine, Todo, Queued, ToSet
  <2>3. SpineInv'
    BY <2>2 DEF SpineInv
  <2> QED BY <1>1, <1>2, <2>3, OrderStays
<1>4. CASE ~StartPass
  <2>1. \/ pass' = pass /\ pass.phase = "results"
        \/ pass'.phase \in {"sleep", "results", "triggers"}
    BY <1>4 DEF WakeUp, EndResults, EndPass, HandleResult, HandleBuild, HandleMerge, Abort,
                Sleeping, At
  <2>2. SpineInv'
    BY <2>1 DEF SpineInv
  <2> QED BY <1>1, <1>2, <2>2, OrderStays
<1> QED BY <1>3, <1>4

(* the answers of workers and mergers,                                     *)
LEMMA AnswersKeepOrder ==
  ASSUME TypeInv, OrderInv,
         \/ \E i \in Item, j \in Job, r \in {"SUCCESS", "FAILURE", "retry"} : BuildCompleted(i, j, r)
         \/ \E m \in merging, r \in {"merged", "conflict", "updated"} : MergeCompleted(m, r)
         \/ UNCHANGED vars
  PROVE  OrderInv'
<1>1. /\ q' = q /\ item' = item /\ status' = status /\ trunk' = trunk /\ triggers' = triggers
      /\ pass' = pass
  BY DEF BuildCompleted, MergeCompleted, vars, scheduled, gerrit
<1>2. \A k \in Item : bs'[k].failing = bs[k].failing
  <2>1. CASE bs' = bs
    BY <2>1
  <2>2. ASSUME NEW i \in Item, NEW j \in Job, NEW r \in {"SUCCESS", "FAILURE", "retry"},
               BuildCompleted(i, j, r)
        PROVE  \A k \in Item : bs'[k].failing = bs[k].failing
    BY <2>2, BuildEnding DEF BuildEnds
  <2> QED BY <2>1, <2>2 DEF MergeCompleted, vars, scheduled
<1>3. Queued(q) \subseteq Item
  BY DEF TypeInv, GateInv, QueueInv, Queues, Queued
<1>4. SpineInv'
  BY <1>1, <1>2, <1>3 DEF OrderInv, SpineInv, Spine, Todo
<1>5. Todo \subseteq Todo'
  BY <1>1 DEF Todo
<1> QED BY <1>1, <1>4, <1>5, OrderStays

(* Gerrit says that a change was merged before the scheduler sees it only  *)
(* when a query raises.                                                    *)
LEMMA GerritKeepsOrder ==
  ASSUME TypeInv, OrderInv, NEW c \in Change,
         Approve(c) \/ Withdraw(c) \/ GoAway(c) \/ NoticeMerge(c)
  PROVE  OrderInv'
<1>1. /\ q' = q /\ item' = item /\ trunk' = trunk /\ pass' = pass /\ bs' = bs
      /\ status \in [Change -> Statuses]
  BY DEF Approve, Withdraw, GoAway, NoticeMerge, GerritEvent, scheduled, TypeInv, ServicesTyped
<1>2. ~NoticeMerge(c)
  BY DEF NoticeMerge, OrderInv, TrunkInv
<1>3. PICK s : /\ status' = [status EXCEPT ![c] = s] /\ status[c] \in {"open", "ready"}
               /\ \/ s \in {"open", "ready"}
                  \/ s \in {"abandoned", "outdated"} /\ c \notin Merged
               /\ \/ triggers' = triggers \o <<>>
                  \/ triggers' = triggers \o <<[type |-> "approved", change |-> c]>>
                  \/ /\ triggers' = triggers \o <<[type |-> "gone", change |-> c]>>
                     /\ s \notin {"open", "ready"}
  BY <1>2 DEF Approve, Withdraw, GoAway, GerritEvent
<1>4. /\ status'[c] = s /\ \A d \in Change : d # c => status'[d] = status[d]
  BY <1>1, <1>3
<1>5. TrunkInv'
  BY <1>1, <1>3, <1>4 DEF OrderInv, TrunkInv, Merged
<1>6. \A i \in Queued(q) : item[i] \in Change
  BY DEF TypeInv, GateInv, QueueInv, ItemsMade, Queues, Queued
<1>7. NeedsOrder'
  <2> SUFFICES ASSUME NEW i \in Queued(q), NEW d \in Needs[item[i]]
               PROVE  /\ \A b \in Queued(q) : item[b] = d => Precedes(q, b, i)
                      /\ (\A b \in Queued(q) : item[b] # d) =>
                            status'[d] \notin {"open", "ready"} \/ i \in Todo
    BY <1>1 DEF NeedsOrder, Todo
  <2>1. d \in Change
    BY <1>6, NeedsAssumption
  <2>2. /\ \A b \in Queued(q) : item[b] = d => Precedes(q, b, i)
        /\ (\A b \in Queued(q) : item[b] # d) =>
              status[d] \notin {"open", "ready"} \/ i \in Todo
    BY DEF OrderInv, NeedsOrder
  <2> QED BY <1>3, <1>4, <2>1, <2>2
<1>8. GoneTriggers'
  <2>1. PICK T : T = Triggers
    OBVIOUS
  <2>2. triggers \in Seq(T) /\ \A e \in T : e.change \in Change
    BY <2>1 DEF TypeInv, GateInv, Triggers
  <2>3. triggers \in Seq(ToSet(triggers)) /\ ToSet(triggers) \subseteq T
    <3>1. triggers \in Seq(ToSet(triggers))
      BY <2>2, SeqOfItsOwn
    <3>2. \A n \in DOMAIN triggers : triggers[n] \in T
      BY <2>2
    <3> QED BY <3>1, <3>2 DEF ToSet
  <2>4. \/ triggers' = triggers
        \/ \E e : /\ triggers' = Append(triggers, e) /\ e.change = c
                  /\ e.type = "gone" => s \notin {"open", "ready"}
    <3>1. triggers \o <<>> = triggers
      BY <2>2
    <3>2. \A e : triggers \o <<e>> = Append(triggers, e)
      BY <2>2
    <3>3. PICK a : a = [type |-> "approved", change |-> c]
      OBVIOUS
    <3>4. PICK g : g = [type |-> "gone", change |-> c]
      OBVIOUS
    <3>5. a.type = "approved" /\ a.change = c /\ g.type = "gone" /\ g.change = c
      BY <3>3, <3>4
    <3>6. \/ triggers' = triggers
          \/ triggers' = Append(triggers, a)
          \/ triggers' = Append(triggers, g) /\ s \notin {"open", "ready"}
      BY <1>3, <3>1, <3>2, <3>3, <3>4
    <3> QED BY <3>5, <3>6
  <2>5. \A e \in ToSet(triggers') :
          \/ e \in ToSet(triggers)
          \/ e.change = c /\ (e.type = "gone" => s \notin {"open", "ready"})
    <3>1. CASE triggers' = triggers
      BY <3>1
    <3>2. ASSUME NEW e, triggers' = Append(triggers, e), e.change = c,
                 e.type = "gone" => s \notin {"open", "ready"}
          PROVE  \A f \in ToSet(triggers') :
                    \/ f \in ToSet(triggers)
                    \/ f.change = c /\ (f.type = "gone" => s \notin {"open", "ready"})
      <4>1. ToSet(triggers') \subseteq ToSet(triggers) \cup {e}
        BY <2>3, <3>2, AddedAtTheEnd
      <4> QED BY <3>2, <4>1
    <3> QED BY <2>4, <3>1, <3>2
  <2>6. ASSUME NEW e \in ToSet(triggers'), e.type = "gone"
        PROVE  status'[e.change] \notin {"open", "ready"}
    <3>1. CASE e \in ToSet(triggers)
      BY <1>3, <1>4, <2>2, <2>3, <2>6, <3>1 DEF OrderInv, GoneTriggers
    <3>2. CASE e \notin ToSet(triggers)
      BY <1>4, <2>5, <2>6, <3>2
    <3> QED BY <3>1, <3>2
  <2> QED BY <2>6 DEF GoneTriggers
<1>9. SpineInv'
  BY <1>1 DEF OrderInv, SpineInv, Spine, Todo
<1> QED BY <1>5, <1>7, <1>8, <1>9 DEF OrderInv

(* New changes come in behind what they need.                              *)
LEMMA AddingKeepsOrder ==
  ASSUME QueueInv, QueueInv', OrderInv, NEW x, Adds(x), x = q \/ Queued(x) = {},
         Todo = {}, Todo' = {}, SpineInv', status' = status, trunk' = trunk,
         ToSet(triggers') \subseteq ToSet(triggers)
  PROVE  OrderInv'
<1>1. /\ \A i \in Item : item[i] # Idle => item'[i] = item[i]
      /\ Queued(x) \subseteq Queued(q')
      /\ \A i \in Queued(q') \ Queued(x) :
           /\ item[i] = Idle /\ item'[i] \in Gated /\ status[item'[i]] = "ready"
           /\ \A c \in Unmerged(item'[i]) :
                \E b \in Queued(q') : item'[b] = c /\ Precedes(q', b, i)
      /\ \A a, b \in Queued(x) : Precedes(x, a, b) => Precedes(q', a, b)
      /\ \A a \in Queued(x), b \in Queued(q') \ Queued(x) : Precedes(q', a, b)
  BY DEF Adds
<1>2. \A i \in Queued(x) : x = q /\ i \in Queued(q) /\ item'[i] = item[i]
  <2>1. \A i \in Queued(q) : i \in Item /\ item[i] # Idle
    BY DEF QueueInv, Queues, Queued
  <2> QED BY <1>1, <2>1
<1>3. /\ \A i, k \in Queued(q') : item'[i] = item'[k] => i = k
      /\ \A i \in Queued(q') : item'[i] \in Change
      /\ \A a \in Queued(q') : a \in Item
  BY DEF QueueInv, QueuedOnce, ItemsMade, Queues, Queued
<1>4. \A c \in Change : status'[c] = "merged" <=> c \in Merged'
  BY DEF OrderInv, TrunkInv, Merged
<1>5. TrunkInv'
  <2>1. ASSUME NEW i \in Queued(q') PROVE item'[i] \in Gated \ Merged'
    <3>1. CASE i \in Queued(x)
      BY <1>2, <3>1 DEF OrderInv, TrunkInv, Merged
    <3>2. CASE i \notin Queued(x)
      BY <1>1, <1>3, <1>4, <3>2
    <3> QED BY <3>1, <3>2
  <2> QED BY <1>4, <2>1 DEF TrunkInv
<1>6. NeedsOrder'
  <2> SUFFICES ASSUME NEW i \in Queued(q'), NEW c \in Needs[item'[i]]
               PROVE  /\ \A b \in Queued(q') : item'[b] = c => Precedes(q', b, i)
                      /\ (\A b \in Queued(q') : item'[b] # c) =>
                            status[c] \notin {"open", "ready"}
    BY DEF NeedsOrder
  <2>1. c \in Change
    BY <1>3, NeedsAssumption
  <2>2. CASE i \notin Queued(x)
    <3>1. status[c] # "merged" =>
            \E b \in Queued(q') : item'[b] = c /\ Precedes(q', b, i)
      BY <1>1, <2>2 DEF Unmerged
    <3>2. status[c] = "merged" => \A b \in Queued(q') : item'[b] # c
      BY <1>4, <1>5, <2>1 DEF TrunkInv
    <3> QED BY <1>3, <3>1, <3>2
  <2>3. CASE i \in Queued(x)
    <3>1. /\ \A b \in Queued(x) : item[b] = c => Precedes(x, b, i)
          /\ (\A b \in Queued(x) : item[b] # c) => status[c] \notin {"open", "ready"}
      BY <1>2, <2>3 DEF OrderInv, NeedsOrder
    <3>2. ASSUME NEW b \in Queued(q'), item'[b] = c PROVE Precedes(q', b, i)
      <4>1. CASE b \in Queued(x)
        BY <1>1, <1>2, <2>3, <3>1, <3>2, <4>1
      <4>2. CASE b \notin Queued(x)
        <5>1. status[c] = "ready"
          BY <1>1, <3>2, <4>2
        <5>2. PICK a \in Queued(x) : item[a] = c
          BY <3>1, <5>1
        <5>3. a = b
          BY <1>1, <1>2, <1>3, <3>2, <5>2
        <5> QED BY <4>2, <5>2, <5>3
      <4> QED BY <4>1, <4>2
    <3>3. (\A b \in Queued(q') : item'[b] # c) => status[c] \notin {"open", "ready"}
      BY <1>1, <1>2, <3>1
    <3> QED BY <3>2, <3>3
  <2> QED BY <2>2, <2>3
<1>7. GoneTriggers'
  BY DEF OrderInv, GoneTriggers
<1> QED BY <1>5, <1>6, <1>7 DEF OrderInv

(* the events from Gerrit,                                                 *)
LEMMA TriggerKeepsOrder ==
  ASSUME TypeInv, TypeInv', OrderInv, HandleTrigger
  PROVE  OrderInv'
<1>1. /\ status' = status /\ trunk' = trunk /\ pass' = pass /\ pass.phase = "triggers"
      /\ triggers # <<>> /\ triggers' = Tail(triggers)
  BY DEF HandleTrigger, gerrit
<1>2. /\ GateInv /\ QueueInv /\ QueueInv' /\ q \in Queues /\ WellLinked(q)
      /\ bs \in [Item -> BuildSets]
  BY DEF TypeInv, GateInv, QueueInv, SetsTyped
<1>3. Todo = {} /\ Todo' = {} /\ SpineInv'
  BY <1>1, <1>2, NothingTodo DEF Todo, SpineInv
<1>4. triggers \in Seq(ToSet(triggers))
  <2>1. PICK T : T = Triggers
    OBVIOUS
  <2>2. triggers \in Seq(T)
    BY <2>1 DEF TypeInv, GateInv
  <2> QED BY <2>2, SeqOfItsOwn
<1>5. ToSet(triggers') \subseteq ToSet(triggers) /\ Head(triggers) \in ToSet(triggers)
  BY <1>1, <1>4, TakenFromTheFront
<1>6. CASE Adds(q)
  <2>1. PICK x : x = q
    OBVIOUS
  <2>2. Adds(x)
    BY <1>6, <2>1
  <2> QED BY <1>1, <1>2, <1>3, <1>5, <2>1, <2>2, AddingKeepsOrder
<1>7. CASE q' = q /\ item' = item
  <2>1. TrunkInv' /\ NeedsOrder'
    BY <1>1, <1>3, <1>7 DEF OrderInv, TrunkInv, Merged, NeedsOrder
  <2>2. GoneTriggers'
    BY <1>1, <1>5 DEF OrderInv, GoneTriggers
  <2> QED BY <1>3, <2>1, <2>2 DEF OrderInv
<1>8. ASSUME NEW r \in Item, Removes(r) PROVE OrderInv'
  <2>1. /\ r \in Queued(q) /\ q' = DequeueItem(q, r) /\ item' = item
        /\ status[item[r]] \notin {"open", "ready"}
    BY <1>5, <1>8 DEF Removes, OrderInv, GoneTriggers
  <2>2. /\ Queued(q') = Queued(q) \ {r}
        /\ \A a, b : Precedes(q', a, b) <=> Precedes(q, a, b) /\ a # r /\ b # r
    BY <1>2, <2>1, DequeuedUp
  <2>3. TrunkInv'
    BY <1>1, <2>1, <2>2 DEF OrderInv, TrunkInv, Merged
  <2>4. GoneTriggers'
    BY <1>1, <1>5 DEF OrderInv, GoneTriggers
  <2>5. NeedsOrder'
    <3> SUFFICES ASSUME NEW i \in Queued(q'), NEW c \in Needs[item[i]]
                 PROVE  /\ \A b \in Queued(q') : item[b] = c => Precedes(q', b, i)
                        /\ (\A b \in Queued(q') : item[b] # c) =>
                              status[c] \notin {"open", "ready"}
      BY <1>1, <2>1 DEF NeedsOrder
    <3>1. /\ i \in Queued(q) /\ i # r
          /\ \A b \in Queued(q) : item[b] = c => Precedes(q, b, i)
          /\ (\A b \in Queued(q) : item[b] # c) => status[c] \notin {"open", "ready"}
      BY <1>3, <2>2 DEF OrderInv, NeedsOrder
    <3> QED BY <2>1, <2>2, <3>1
  <2> QED BY <1>3, <2>3, <2>4, <2>5 DEF OrderInv
<1> QED BY <1>2, <1>6, <1>7, <1>8, TriggerOutcomes

(* and a promotion, which adds the changes as they were.                   *)
LEMMA PromoteKeepsOrder ==
  ASSUME TypeInv, TypeInv', OrderInv, NEW i \in Item, Promote(i)
  PROVE  OrderInv'
<1>1. /\ status' = status /\ trunk' = trunk /\ triggers' = triggers
      /\ pass.phase = "sleep" /\ pass'.phase = "results" /\ pass'.todo = <<>>
  BY DEF Promote, Managing, gerrit, At
<1>2. QueueInv /\ QueueInv' /\ bs \in [Item -> BuildSets]
  BY DEF TypeInv, GateInv, SetsTyped
<1>3. Todo = {} /\ Todo' = {} /\ SpineInv'
  <2>1. Todo = {}
    BY <1>1, <1>2, NothingTodo
  <2>2. Todo' = {}
    BY <1>1 DEF Todo, ToSet
  <2>3. SpineInv'
    BY <1>1 DEF SpineInv
  <2> QED BY <2>1, <2>2, <2>3
<1>4. PICK x : x = EmptyQueue
  OBVIOUS
<1>5. Adds(x) /\ Queued(x) = {}
  BY <1>2, <1>4, PromoteOutcome, EmptyQueueIsWellLinked DEF Restarts
<1> QED BY <1>1, <1>2, <1>3, <1>5, AddingKeepsOrder

(* The empty queue is in order.                                            *)
LEMMA InitKeepsOrder == Init => OrderInv
<1> SUFFICES ASSUME Init PROVE OrderInv
  OBVIOUS
<1>1. Queued(q) = {}
  BY EmptyQueueIsWellLinked DEF Init
<1>2. ToSet(triggers) = {} /\ Merged = {} /\ pass.phase = "sleep"
  BY DEF Init, ToSet, Merged, Sleeping, At
<1> QED BY <1>1, <1>2 DEF OrderInv, TrunkInv, SpineInv, NeedsOrder, GoneTriggers, Init

-----------------------------------------------------------------------------
(* What the tests of the items are worth.                                  *)

(* i is not behind the items that are not failing, and will be moved.      *)
Off(i) == i \in Todo /\ Up(q, i) \ Todo # Spine

(* i needs a change that will not be there when i is tested: it is in no   *)
(* item that i is behind, or whose own test is begun, but failing ones.    *)
Loose(i, c) ==
  \A b \in Queued(q) : item[b] = c => bs[b].failing \/ (b \notin Up(q, i) /\ ~bs[b].ref)
Torn(i) == \E c \in Needs[item[i]] : status[c] # "merged" /\ Loose(i, c)

(* A voting job of i has failed for good.                                  *)
Broken(i) == \E j \in Jobs(item[i]) \cap layout.voting : bs[i].builds[j] \in {"FAILURE", "SKIPPED"}

(* What i was prepared on is what it is behind, up to what has merged.     *)
Based(i) ==
  /\ \A a \in Up(q, i) : item[a] \in ToSet(bs[i].other)
  /\ \A c \in ToSet(bs[i].other) : c \in Merged \/ \E a \in Up(q, i) : item[a] = c

(* Whatever else is before i is failing, or will begin anew.               *)
Backed(i) ==
  \A k \in Queued(q) : Precedes(q, k, i) => k \in Up(q, i) \/ bs[k].failing \/ ~bs[k].ref

(* The commit i is tested on has all that merged, or will when the merge   *)
(* is answered.                                                            *)
Fresh(i) ==
  /\ bs[i].merge = "COMPLETE" /\ ~bs[i].unable => Merged \subseteq bs[i].commit
  /\ \A e \in ToSet(results) :
       e.kind = "merge" /\ e.item = i /\ e.gen = bs[i].gen /\ e.result = "merged" =>
         Merged \subseteq e.content

(* What was skipped has all its jobs below skipped, and without a merged   *)
(* commit all jobs are.                                                    *)
Carried(i) ==
  \A j \in Job :
    j \in Jobs(item[i]) =>
      /\ bs[i].unable => bs[i].builds[j] = "SKIPPED"
      /\ bs[i].builds[j] = "absent" => \A k \in Above[j] : bs[i].builds[k] # "SKIPPED"

(* Nothing of i was canceled, and what it has to retry is as it was.       *)
Calm(i) ==
  /\ Carried(i)
  /\ \A j \in Job : bs[i].builds[j] # "CANCELED"
  /\ bs[i].unable => Broken(i)
  /\ \A e \in ToSet(results) :
       e.kind = "build" /\ e.item = i /\ e.gen = bs[i].gen /\ e.result = "retry" =>
         bs[i].builds[e.job] = "retrying"
Telling(i) == Calm(i) /\ (Broken(i) \/ Fresh(i))
Sound(i) == Based(i) /\ Backed(i) /\ Telling(i)

(* An item whose test has begun is soundly tested, or will not keep it;    *)
(* one that others are tested with is not failing, or will never pass.     *)
Tested(b) == \E k \in Queued(q) : (k = b \/ b \in Up(q, k)) /\ bs[k].ref
Worthy(i) ==
  /\ bs[i].ref => Off(i) \/ Torn(i) \/ Sound(i)
  /\ Tested(i) => Off(i) \/ Torn(i) \/ (bs[i].failing => Broken(i))
WorthInv == \A i \in Queued(q) : Worthy(i)

(* How these are kept.                                                     *)
LEMMA TornStays ==
  ASSUME NEW i, Torn(i), item'[i] = item[i],
         \A c \in Needs[item[i]] : status[c] # "merged" /\ Loose(i, c) => status'[c] # "merged",
         \A b \in Queued(q') :
           \/ /\ b \in Queued(q) /\ item'[b] = item[b] /\ (bs[b].failing => bs'[b].failing)
              /\ b \notin Up(q, i) => b \notin Up(q', i)
              /\ ~bs[b].ref => ~bs'[b].ref
           \/ item'[b] \notin Needs[item[i]]
           \/ bs'[b].failing
           \/ b \notin Up(q', i) /\ ~bs'[b].ref
  PROVE  Torn(i)'
<1>1. PICK c \in Needs[item[i]] : status[c] # "merged" /\ Loose(i, c)
  BY DEF Torn
<1>2. Loose(i, c)'
  BY <1>1 DEF Loose
<1> QED BY <1>1, <1>2 DEF Torn

(* A build set that is left alone tells what it told.                      *)
LEMMA TellingStays ==
  ASSUME NEW i, bs'[i] = bs[i], ToSet(results') \subseteq ToSet(results), item'[i] = item[i],
         layout' = layout, trunk' = trunk
  PROVE  (Broken(i)' <=> Broken(i)) /\ (Telling(i) => Telling(i)')
<1>1. Broken(i)' <=> Broken(i)
  BY DEF Broken, Jobs
<1>2. Calm(i) => Calm(i)'
  BY <1>1 DEF Calm, Carried, Jobs
<1>3. Fresh(i) => Fresh(i)'
  BY DEF Fresh, Merged
<1> QED BY <1>1, <1>2, <1>3 DEF Telling

(* What is ahead of an item stays what it was prepared on.                 *)
LEMMA BasedStays ==
  ASSUME QueueInv, NEW i \in Item, Based(i), bs'[i].other = bs[i].other, trunk' = trunk,
         Up(q', i) = Up(q, i), \A a \in Up(q, i) : item'[a] = item[a]
  PROVE  Based(i)'
BY DEF Based, Merged

(* The items are those they were, with the same changes ahead.             *)
LEMMA WorthyStays ==
  ASSUME NEW i \in Item, Worthy(i), QueueInv, i \in Queued(q), bs'[i] = bs[i],
         results' = results, item' = item, layout' = layout, trunk' = trunk,
         Up(q', i) = Up(q, i), Off(i) => Off(i)', Torn(i) => Torn(i)', Backed(i) => Backed(i)',
         Tested(i)' => Tested(i) \/ ~bs[i].failing
  PROVE  Worthy(i)'
<1>1. ToSet(results') \subseteq ToSet(results)
  OBVIOUS
<1>2. (Broken(i)' <=> Broken(i)) /\ (Telling(i) => Telling(i)')
  BY <1>1, TellingStays
<1>3. Based(i) => Based(i)'
  BY BasedStays
<1>4. Sound(i) => Sound(i)'
  BY <1>2, <1>3 DEF Sound
<1> QED BY <1>2, <1>4 DEF Worthy

(* The merge of r is asked for: it is based on what it is behind.          *)
LEMMA AskedIsSound ==
  ASSUME NEW r \in Item, Asks(r), TypeInv', TreeInv', OwnInv',
         QueueInv', \A k \in Queued(q') : Precedes(q', k, r) => k \in Up(q', r) \/ bs'[k].failing,
         item' = item
  PROVE  Sound(r)'
<1>1. /\ bs'[r].merge = "PENDING" /\ bs'[r].other = ChangesAhead(q', r)
      /\ Unstarted(bs'[r])
  BY DEF Asks
<1>2. PICK m : /\ m \in merging' /\ m.item = r /\ m.gen = bs'[r].gen
  <2>1. PICK m : m = [item |-> r, gen |-> bs'[r].gen, kind |-> "merge",
                      content |-> ToSet(ChangesAhead(q', r)) \cup {item[r]}]
    OBVIOUS
  <2>2. m \in merging' /\ m.item = r /\ m.gen = bs'[r].gen
    BY <2>1 DEF Asks
  <2> QED BY <2>2
<1>3. \A e \in ToSet(results') : e.kind = "merge" /\ e.item = r => e.gen # bs'[r].gen
  BY <1>2 DEF TreeInv, Outstanding, SameAsked
<1>4. Fresh(r)'
  BY <1>1, <1>3 DEF Fresh
<1>5. \A e \in ToSet(results') : e.kind = "build" /\ e.item = r => e.gen # bs'[r].gen
  <2> SUFFICES ASSUME NEW e \in ToSet(results'), e.kind = "build", e.item = r, e.gen = bs'[r].gen
               PROVE  FALSE
    OBVIOUS
  <2>1. e.job \in Job
    BY DEF TypeInv, MutexInv, ResultsAreOld
  <2>2. bs'[r].builds[e.job] # "absent"
    BY DEF OwnInv, VerdictsInv
  <2> QED BY <1>1, <2>1, <2>2 DEF Unstarted
<1>6. Calm(r)'
  <2>1. Carried(r)'
    BY <1>1, JobAssumption DEF Carried, Unstarted
  <2> QED BY <1>1, <1>5, <2>1 DEF Calm, Unstarted
<1>7. Based(r)'
  <2>1. PICK chain : chain = ItemsAhead(q', r)
    OBVIOUS
  <2>2. /\ Up(q', r) = {chain[n] : n \in DOMAIN chain}
        /\ bs'[r].other = [n \in DOMAIN chain |-> item[chain[n]]]
    BY <1>1, <2>1 DEF Up, ToSet, ChangesAhead
  <2>3. ToSet(bs'[r].other) = {item[a] : a \in Up(q', r)}
    BY <2>2 DEF ToSet
  <2> QED BY <2>3 DEF Based
<1>8. Backed(r)'
  BY DEF Backed
<1> QED BY <1>4, <1>6, <1>7, <1>8 DEF Sound, Telling

(* An item processed before is not behind the one processed now, nor       *)
(* needed by it.                                                           *)
LEMMA EarlierStaysClear ==
  ASSUME QueueInv, OrderInv, NEW r, Processing(r), NEW i \in Queued(q), i \notin Todo
  PROVE  /\ i # r /\ i \in Item /\ item[r] \notin Needs[item[i]] /\ ~Precedes(q, r, i)
         /\ r \notin Up(q, i) /\ ~Off(i)
<1>1. /\ r \in Item /\ r \in Queued(q) /\ r \in Todo /\ Precedes(q, i, r)
      /\ Queued(q) \subseteq Item /\ q \in Queues /\ WellLinked(q)
  BY WhereItStands DEF OrderInv, QueueInv
<1>2. ~Precedes(q, r, i)
  BY <1>1, PrecedesIsStrict DEF WellLinked
<1>3. r \notin Up(q, i)
  BY <1>1, <1>2, UpIsEarlier
<1>4. item[r] \notin Needs[item[i]]
  BY <1>1, <1>2 DEF OrderInv, NeedsOrder
<1> QED BY <1>1, <1>2, <1>3, <1>4 DEF Off

(* An item that is processed in its place is sound, or its test is yet to  *)
(* begin.                                                                  *)
LEMMA PlacedIsSound ==
  ASSUME QueueInv, OrderInv, NEW r, Processing(r), q.ahead[r] = pass.nnfi,
         ~NeedsAFailingItem(r), NeedsMet(item[r], ToSet(ChangesIn(q)))
  PROVE  Up(q, r) = Spine /\ ~Off(r) /\ ~Torn(r)
<1>1. /\ r \in Item /\ r \in Queued(q) /\ q \in Queues /\ WellLinked(q)
      /\ \A b \in Queued(q) : Precedes(q, b, r) => b \notin Todo
      /\ pass.phase = "queue"
  BY WhereItStands DEF OrderInv, QueueInv, Processing
<1>2. Up(q, r) = Spine
  BY <1>1, BehindTheSpine
<1>3. \A b \in Spine : b \notin Todo
  BY <1>1 DEF OrderInv, SpineInv
<1>4. ~Off(r)
  BY <1>2, <1>3 DEF Off
<1>5. ASSUME NEW c \in Needs[item[r]], status[c] # "merged", Loose(r, c) PROVE FALSE
  <2>1. PICK b \in Queued(q) : item[b] = c
    BY <1>5, MetNeeds
  <2>2. b \notin Todo
    BY <1>1, <2>1 DEF OrderInv, NeedsOrder
  <2>3. ~bs[b].failing
    BY <2>1 DEF NeedsAFailingItem
  <2>4. b \in Spine
    BY <1>1, <2>2, <2>3 DEF OrderInv, SpineInv
  <2> QED BY <1>2, <1>5, <2>1, <2>3, <2>4 DEF Loose
<1>6. ~Torn(r)
  BY <1>5 DEF Torn
<1> QED BY <1>2, <1>4, <1>6

(* An item fails for what it needs: so does what is behind it, and none of *)
(* them passes any more.                                                   *)
LEMMA CanceledStaysWorthy ==
  ASSUME Steadily, OrderInv, WorthInv, NEW r \in Item, Processing(r), StaysCanceled(r),
         item' = item, results' = results, layout' = layout
  PROVE  WorthInv'
<1>1. /\ QueueInv /\ q \in Queues /\ WellLinked(q) /\ item[r] \in Change /\ r \in Queued(q)
      /\ r \in Todo /\ r \notin Spine
      /\ Queued(q) \subseteq Item
      /\ \A i \in Item : r \in Up(q, i) => i \in Todo /\ i # r
  BY SteadyFacts, WhereItStands DEF OrderInv
<1>2. /\ NeedsAFailingItem(r) /\ q' = q /\ trunk' = trunk /\ status' = status
      /\ \A i \in Item :
           /\ i = r \/ r \in Up(q, i) => bs'[i].ref = bs[i].ref
           /\ i # r /\ r \in Up(q, i) => bs'[i].failing = bs[i].failing
           /\ i # r /\ r \notin Up(q, i) => bs'[i] = bs[i]
      /\ bs'[r].failing /\ Todo' = Todo \ {r} /\ StepsOn(r, pass.nnfi)
  BY DEF StaysCanceled, Halts, SameRequest, Unreported, StepsOn
<1>3. Spine' = Spine
  BY <1>1, <1>2, SpineKept DEF OrderInv
<1>4. \A i \in Item : bs'[i].ref = bs[i].ref /\ (bs[i].failing => bs'[i].failing)
  BY <1>2
<1>5. Torn(r)'
  <2>1. PICK a \in Queued(q) : item[a] \in Needs[item[r]] /\ bs[a].failing
    BY <1>2 DEF NeedsAFailingItem
  <2>2. status[item[a]] # "merged"
    <3>1. item[a] \in Change
      BY <1>1, <2>1, NeedsAssumption
    <3> QED BY <3>1 DEF OrderInv, TrunkInv
  <2>3. Loose(r, item[a])'
    <3>1. \A b \in Queued(q) : item[b] = item[a] => b = a
      BY <1>1 DEF QueueInv, QueuedOnce
    <3>2. bs'[a].failing
      BY <1>1, <1>4, <2>1
    <3> QED BY <1>2, <3>1, <3>2 DEF Loose
  <2> QED BY <1>2, <2>1, <2>2, <2>3 DEF Torn
<1>6. ASSUME NEW i \in Queued(q), i # r, r \in Up(q, i) PROVE Off(i)'
  BY <1>1, <1>2, <1>3, <1>6 DEF Off
<1>7. ASSUME NEW i \in Queued(q), i # r, r \notin Up(q, i) PROVE Worthy(i)'
  <2>1. i \in Item /\ bs'[i] = bs[i] /\ Up(q', i) = Up(q, i) /\ Worthy(i)
    BY <1>1, <1>2, <1>7 DEF WorthInv
  <2>2. Off(i) => Off(i)'
    BY <1>2, <1>3, <1>7 DEF Off
  <2>3. Torn(i) => Torn(i)'
    BY <1>1, <1>2, <1>4, TornStays
  <2>4. Backed(i) => Backed(i)'
    BY <1>1, <1>2, <1>4 DEF Backed
  <2>5. Tested(i)' => Tested(i)
    BY <1>1, <1>2, <1>4 DEF Tested
  <2> QED BY <1>1, <1>2, <2>1, <2>2, <2>3, <2>4, <2>5, WorthyStays
<1> QED BY <1>2, <1>5, <1>6, <1>7 DEF WorthInv, Worthy

(* An item is moved: its test begins anew, and what is behind it will      *)
(* follow.                                                                 *)
LEMMA MovedStaysWorthy ==
  ASSUME Steadily, OrderInv, WorthInv, NEW r \in Item, Processing(r), StaysMoved(r),
         TypeInv', TreeInv', OwnInv', item' = item, results' = results, layout' = layout
  PROVE  WorthInv'
<1>1. /\ QueueInv /\ q \in Queues /\ WellLinked(q) /\ r \in Queued(q) /\ QueueInv'
      /\ r \in Todo /\ r \notin Spine
      /\ Queued(q) \subseteq Item
      /\ \A i \in Item : r \in Up(q, i) => i \in Todo /\ i # r
      /\ \A b \in Queued(q) : Precedes(q, b, r) => b \notin Todo
  BY SteadyFacts, WhereItStands DEF OrderInv, TypeInv, GateInv
<1>2. /\ q' = MoveItem(q, r, pass.nnfi) /\ q.ahead[r] # pass.nnfi
      /\ trunk' = trunk /\ status' = status
      /\ \A i \in Item \ {r} : bs'[i] = bs[i]
      /\ Asks(r) \/ ~bs'[r].ref
      /\ ~bs'[r].failing /\ Todo' = Todo \ {r} /\ pass'.nnfi = r
      /\ pass.phase = "queue"
  BY DEF StaysMoved, Unreported, StepsOn, Anew, Asks
<1>3. /\ pass.nnfi \in Item \cup {NoItem}
      /\ pass.nnfi = NoItem \/ Precedes(q, pass.nnfi, r)
  BY <1>1, ItemProcessed
<1>4. /\ Queued(q') = Queued(q)
      /\ \A i \in Item \ {r} : Up(q', i) = Up(q, i) \ {r}
      /\ Up(q', r) = Spine
      /\ \A b, c : Precedes(q', b, c) <=> Precedes(q, b, c)
  <2>1. PICK n \in Item \cup {NoItem} : n = pass.nnfi
    BY <1>3
  <2>2. q' = MoveItem(q, r, n) /\ q.ahead[r] # n /\ (n = NoItem \/ Precedes(q, n, r))
    BY <1>2, <1>3, <2>1
  <2>3. LET y == MoveItem(q, r, n)
        IN  /\ Queued(y) = Queued(q)
            /\ \A i \in Item \ {r} : Up(y, i) = Up(q, i) \ {r}
            /\ Up(y, r) = IF n = NoItem THEN {} ELSE {n} \cup Up(q, n)
            /\ \A b, c : Precedes(y, b, c) <=> Precedes(q, b, c)
    BY <1>1, <2>2, MovedUp
  <2> QED BY <2>1, <2>2, <2>3 DEF Spine
<1>5. Spine' = Spine \cup {r}
  BY <1>2, <1>4, NoItemAssumption DEF Spine
<1>6. Worthy(r)'
  <2>1. bs'[r].ref => Sound(r)'
    <3>1. ASSUME NEW k \in Queued(q'), Precedes(q', k, r)
          PROVE  k \in Up(q', r) \/ bs'[k].failing
      <4>1. k \in Queued(q) /\ k \notin Todo /\ k # r /\ k \in Item
        BY <1>1, <1>4, <3>1
      <4>2. k \in Spine \/ bs[k].failing
        BY <1>2, <4>1 DEF OrderInv, SpineInv
      <4> QED BY <1>2, <1>4, <4>1, <4>2
    <3> QED BY <1>1, <1>2, <3>1, AskedIsSound
  <2> QED BY <1>2, <2>1 DEF Worthy
<1>7. ASSUME NEW i \in Queued(q), i # r, i \in Todo PROVE Off(i)'
  BY <1>1, <1>2, <1>4, <1>5, <1>7 DEF Off
<1>8. ASSUME NEW i \in Queued(q), i # r, i \notin Todo PROVE Worthy(i)'
  <2>1. /\ i \in Item /\ item[r] \notin Needs[item[i]] /\ ~Precedes(q, r, i)
        /\ r \notin Up(q, i) /\ ~Off(i)
    BY <1>1, <1>8, EarlierStaysClear
  <2>2. bs'[i] = bs[i] /\ Up(q', i) = Up(q, i) /\ Worthy(i)
    BY <1>2, <1>4, <1>8, <2>1 DEF WorthInv
  <2>3. Torn(i) => Torn(i)'
    <3>1. \A b \in Queued(q') : \/ b = r
                                \/ b \in Queued(q) /\ bs'[b] = bs[b]
      BY <1>1, <1>2, <1>4
    <3>2. \A c \in Needs[item[i]] : status[c] # "merged" /\ Loose(i, c) => status'[c] # "merged"
      BY <1>2
    <3>3. ASSUME NEW b \in Queued(q')
          PROVE  \/ /\ b \in Queued(q) /\ item'[b] = item[b] /\ (bs[b].failing => bs'[b].failing)
                    /\ b \notin Up(q, i) => b \notin Up(q', i)
                    /\ ~bs[b].ref => ~bs'[b].ref
                 \/ item'[b] \notin Needs[item[i]]
      BY <2>1, <2>2, <3>1
    <3> QED BY <3>2, <3>3, TornStays
  <2>4. Backed(i) => Backed(i)'
    BY <1>1, <1>2, <1>4, <2>1, <2>2 DEF Backed
  <2>5. Tested(i)' => Tested(i) \/ ~bs[i].failing
    <3>1. i \in Spine \/ bs[i].failing
      BY <1>2, <1>8 DEF OrderInv, SpineInv
    <3>2. i \in Spine => ~bs[i].failing
      BY <1>2 DEF OrderInv, SpineInv
    <3>3. ASSUME NEW k \in Queued(q'), k = i \/ i \in Up(q', k), bs'[k].ref, bs[i].failing
          PROVE  Tested(i)
      <4>1. k # r
        BY <1>4, <1>8, <3>2, <3>3
      <4> QED BY <1>1, <1>2, <1>4, <3>3, <4>1 DEF Tested
    <3> QED BY <3>3 DEF Tested
  <2> QED BY <1>1, <1>2, <2>1, <2>2, <2>3, <2>4, <2>5, WorthyStays
<1> QED BY <1>4, <1>6, <1>7, <1>8 DEF WorthInv, Worthy

(* The item that is processed in its place: it is judged by its jobs.      *)
LEMMA AlignedItself ==
  ASSUME Steadily, OrderInv, WorthInv, NEW r \in Item, Processing(r), StaysAligned(r),
         TypeInv', TreeInv', OwnInv', item' = item, results' = results, layout' = layout
  PROVE  /\ Worthy(r)' /\ (Tested(r) /\ bs[r].failing => bs'[r].failing)
         /\ bs'[r].failing => bs'[r].ref = bs[r].ref
<1>1. /\ QueueInv /\ q \in Queues /\ WellLinked(q) /\ r \in Queued(q) /\ QueueInv'
      /\ \A b \in Queued(q) : Precedes(q, b, r) => b \notin Todo /\ b # r /\ b \in Item
      /\ SetOk(r) /\ item[r] \in Gated /\ layout \in Layouts /\ Reliable /\ bs[r] \in BuildSets
  <2>1. QueueInv /\ q \in Queues /\ WellLinked(q) /\ QueueInv' /\ Queued(q) \subseteq Item
    BY SteadyFacts, WhereItStands DEF OrderInv, TypeInv, GateInv
  <2>2. \A b \in Queued(q) : Precedes(q, b, r) => b # r
    BY <2>1, PrecedesIsStrict DEF WellLinked
  <2> QED BY <2>1, <2>2, SteadyFacts, WhereItStands DEF OrderInv
<1>2. /\ q' = q /\ trunk' = trunk /\ pass.phase = "queue" /\ q.ahead[r] = pass.nnfi
      /\ ~NeedsAFailingItem(r) /\ NeedsMet(item[r], ToSet(ChangesIn(q)))
      /\ \A i \in Item \ {r} : bs'[i] = bs[i]
  BY DEF StaysAligned, Unreported, StepsOn
<1>3. Up(q, r) = Spine /\ ~Off(r) /\ ~Torn(r)
  BY <1>1, <1>2, PlacedIsSound
<1>4. Worthy(r)
  BY <1>1 DEF WorthInv
<1>5. ~bs[r].ref => ~AnyJobFailed(item[r], bs[r]) /\ ~bs[r].unable
  BY <1>1, UnstartedIsOpen DEF SetOk, Unstarted
<1>6. Broken(r) => AnyJobFailed(item[r], bs[r])
  BY DEF Broken, AnyJobFailed, Finished
<1>7. bs[r].ref => Sound(r)
  BY <1>3, <1>4 DEF Worthy
<1>8. ASSUME bs[r].ref, bs[r].unable \/ AnyJobFailed(item[r], bs[r]) PROVE Broken(r)
  <2>1. Calm(r)
    BY <1>7, <1>8 DEF Sound, Telling
  <2>2. Jobs(item[r]) \subseteq Job
    BY <1>1, LayoutAssumption DEF Jobs
  <2> QED BY <1>8, <2>1, <2>2 DEF Calm, AnyJobFailed, Broken, Finished
<1>9. Tested(r) => (bs[r].failing => Broken(r))
  BY <1>3, <1>4 DEF Worthy
<1>10. CASE Asks(r)
  <2>1. ASSUME NEW k \in Queued(q'), Precedes(q', k, r)
        PROVE  k \in Up(q', r) \/ bs'[k].failing
    <3>1. k \in Queued(q) /\ k \notin Todo /\ k # r /\ k \in Item
      BY <1>1, <1>2, <2>1
    <3>2. k \in Spine \/ bs[k].failing
      BY <1>2, <3>1 DEF OrderInv, SpineInv
    <3> QED BY <1>2, <1>3, <3>1, <3>2
  <2>2. Sound(r)'
    BY <1>1, <1>10, <2>1, AskedIsSound
  <2>3. ~bs'[r].failing
    BY <1>10 DEF Asks
  <2>4. ~bs[r].ref \/ ~bs[r].failing \/ ~Tested(r) \/ ~bs'[r].failing
    BY <2>3
  <2>5. ASSUME Tested(r), bs[r].failing PROVE FALSE
    <3>1. Broken(r)
      BY <1>9, <2>5
    <3>2. bs[r].ref
      BY <1>5, <1>6, <3>1
    <3>3. ~(~bs[r].ref /\ bs'[r].gen = bs[r].gen /\ Asks(r))
      BY <3>2
    <3>4. SameRequest(bs[r], bs'[r]) /\ bs'[r].failing
      BY <1>6, <3>1, <3>3 DEF StaysAligned
    <3> QED BY <2>3, <3>4
  <2> QED BY <2>2, <2>3, <2>5 DEF Worthy
<1>11. CASE /\ SameRequest(bs[r], bs'[r])
            /\ \A j \in Job :
                 \/ bs'[r].builds[j] = bs[r].builds[j]
                 \/ /\ bs[r].builds[j] = "absent" /\ bs'[r].builds[j] = "running"
            /\ bs'[r].failing => bs[r].unable \/ AnyJobFailed(item[r], bs[r])
            /\ AnyJobFailed(item[r], bs[r]) => bs'[r].failing
  <2>1. Broken(r) => Broken(r)'
    <3>1. Jobs(item[r]) \subseteq Job
      BY <1>1, LayoutAssumption DEF Jobs
    <3>2. \A j \in Job : bs[r].builds[j] \in {"FAILURE", "SKIPPED"} => bs'[r].builds[j] = bs[r].builds[j]
      BY <1>11
    <3> QED BY <3>1, <3>2 DEF Broken, Jobs
  <2>2. ASSUME bs[r].ref PROVE Sound(r)'
    <3>1. Based(r) /\ Backed(r) /\ Calm(r) /\ (Broken(r) \/ Fresh(r))
      BY <1>7, <2>2 DEF Sound, Telling
    <3>2. Based(r)'
      BY <1>1, <1>2, <1>11, <3>1, BasedStays DEF SameRequest
    <3>3. Backed(r)'
      BY <1>1, <1>2, <3>1 DEF Backed
    <3>4. Calm(r)'
      <4>1. \A j \in Job : bs'[r].builds[j] # "CANCELED"
        BY <1>11, <3>1 DEF Calm
      <4>2. bs'[r].unable => Broken(r)'
        BY <1>11, <2>1, <3>1 DEF Calm, SameRequest
      <4>3. ASSUME NEW e \in ToSet(results), e.kind = "build", e.item = r,
                   e.gen = bs'[r].gen, e.result = "retry"
            PROVE  bs'[r].builds[e.job] = "retrying"
        <5>1. bs[r].builds[e.job] = "retrying"
          BY <1>11, <3>1, <4>3 DEF Calm, SameRequest
        <5>2. e.job \in Job
          <6>1. e \in ToSet(results')
            BY <4>3
          <6> QED BY <4>3, <6>1 DEF TypeInv, MutexInv, ResultsAreOld
        <5> QED BY <1>11, <5>1, <5>2
      <4>4. Carried(r)'
        <5>1. Carried(r) /\ bs'[r].unable = bs[r].unable
          BY <1>11, <3>1 DEF Calm, SameRequest
        <5>2. \A j \in Job : /\ bs[r].builds[j] = "SKIPPED" <=> bs'[r].builds[j] = "SKIPPED"
                             /\ bs'[r].builds[j] = "absent" => bs[r].builds[j] = "absent"
          BY <1>11
        <5>3. \A j \in Job : \A k \in Above[j] : k \in Job
          BY JobAssumption
        <5> QED BY <5>1, <5>2, <5>3 DEF Carried, Jobs
      <4> QED BY <4>1, <4>2, <4>3, <4>4 DEF Calm
    <3>5. Fresh(r) => Fresh(r)'
      BY <1>2, <1>11 DEF Fresh, Merged, SameRequest
    <3> QED BY <2>1, <3>1, <3>2, <3>3, <3>4, <3>5 DEF Sound, Telling
  <2>3. bs'[r].failing => Broken(r)'
    BY <1>5, <1>8, <1>11, <2>1
  <2>4. bs'[r].ref = bs[r].ref
    BY <1>11 DEF SameRequest
  <2>5. Tested(r) /\ bs[r].failing => bs'[r].failing
    BY <1>6, <1>9, <1>11
  <2> QED BY <2>2, <2>3, <2>4, <2>5 DEF Worthy
<1> QED BY <1>10, <1>11 DEF StaysAligned

(* An item stays in its place.                                             *)
LEMMA AlignedStaysWorthy ==
  ASSUME Steadily, OrderInv, WorthInv, NEW r \in Item, Processing(r), StaysAligned(r),
         TypeInv', TreeInv', OwnInv', item' = item, results' = results, layout' = layout
  PROVE  WorthInv'
<1>1. /\ QueueInv /\ q \in Queues /\ WellLinked(q) /\ r \in Queued(q)
      /\ r \in Todo /\ r \notin Spine
      /\ Queued(q) \subseteq Item
      /\ \A i \in Item : r \in Up(q, i) => i \in Todo /\ i # r
  BY SteadyFacts, WhereItStands DEF OrderInv
<1>2. /\ q' = q /\ trunk' = trunk /\ status' = status /\ pass.phase = "queue"
      /\ q.ahead[r] = pass.nnfi
      /\ ~NeedsAFailingItem(r) /\ NeedsMet(item[r], ToSet(ChangesIn(q)))
      /\ \A i \in Item \ {r} : bs'[i] = bs[i]
      /\ Todo' = Todo \ {r} /\ pass'.nnfi = IF bs'[r].failing THEN pass.nnfi ELSE r
  BY DEF StaysAligned, Unreported, StepsOn
<1>3. Up(q, r) = Spine
  BY <1>1, <1>2, PlacedIsSound
<1>4. /\ bs'[r].failing => Spine' = Spine
      /\ ~bs'[r].failing => Spine' = Spine \cup {r}
  BY <1>2, <1>3, NoItemAssumption DEF Spine
<1>5. /\ Worthy(r)' /\ (Tested(r) /\ bs[r].failing => bs'[r].failing)
      /\ bs'[r].failing => bs'[r].ref = bs[r].ref
  BY AlignedItself
<1>6. ASSUME NEW i \in Queued(q), i # r
      PROVE  i \in Item /\ bs'[i] = bs[i] /\ Up(q', i) = Up(q, i) /\ Worthy(i)
  BY <1>1, <1>2, <1>6 DEF WorthInv
(* An item that was processed before. *)
<1>7. ASSUME NEW i \in Queued(q), i # r, i \notin Todo PROVE Worthy(i)'
  <2>1. /\ i \in Item /\ item[r] \notin Needs[item[i]] /\ ~Precedes(q, r, i)
        /\ r \notin Up(q, i) /\ ~Off(i)
    BY <1>1, <1>7, EarlierStaysClear
  <2>2. bs'[i] = bs[i] /\ Up(q', i) = Up(q, i) /\ Worthy(i)
    BY <1>6, <1>7
  <2>3. Torn(i) => Torn(i)'
    <3>1. \A c \in Needs[item[i]] : status[c] # "merged" /\ Loose(i, c) => status'[c] # "merged"
      BY <1>2
    <3>2. ASSUME NEW b \in Queued(q')
          PROVE  \/ /\ b \in Queued(q) /\ item'[b] = item[b] /\ (bs[b].failing => bs'[b].failing)
                    /\ b \notin Up(q, i) => b \notin Up(q', i)
                    /\ ~bs[b].ref => ~bs'[b].ref
                 \/ item'[b] \notin Needs[item[i]]
      BY <1>1, <1>2, <2>1, <2>2
    <3> QED BY <3>1, <3>2, TornStays
  <2>4. Backed(i) => Backed(i)'
    BY <1>1, <1>2, <2>1, <2>2 DEF Backed
  <2>5. Tested(i)' => Tested(i) \/ ~bs[i].failing
    <3>1. ASSUME NEW k \in Queued(q'), k = i \/ i \in Up(q', k), bs'[k].ref, bs[i].failing
          PROVE  Tested(i)
      <4>1. i \notin Spine
        BY <1>2, <3>1 DEF OrderInv, SpineInv
      <4>2. k # r
        BY <1>2, <1>3, <1>7, <3>1, <4>1
      <4> QED BY <1>1, <1>2, <3>1, <4>2 DEF Tested
    <3> QED BY <3>1 DEF Tested
  <2> QED BY <1>1, <1>2, <2>1, <2>2, <2>3, <2>4, <2>5, WorthyStays
(* An item that is tested on top of r. *)
<1>8. ASSUME NEW i \in Queued(q), r \in Up(q, i) PROVE Worthy(i)'
  <2>1. i # r /\ i \in Todo /\ i \in Item /\ bs'[i] = bs[i] /\ Up(q', i) = Up(q, i) /\ Worthy(i)
    BY <1>1, <1>6, <1>8
  <2>2. CASE bs'[r].failing
    <3>1. Off(i)'
      BY <1>1, <1>2, <1>4, <1>8, <2>1, <2>2 DEF Off
    <3> QED BY <3>1 DEF Worthy
  <2>3. ASSUME ~bs'[r].failing, Tested(r) PROVE Worthy(i)'
    <3>1. ~bs[r].failing
      BY <1>5, <2>3
    <3>2. Off(i) => Off(i)'
      BY <1>1, <1>2, <1>4, <1>8, <2>1, <2>3 DEF Off
    <3>3. Torn(i) => Torn(i)'
      <4>1. ASSUME NEW c \in Needs[item[i]], status[c] # "merged", Loose(i, c)
            PROVE  Loose(i, c)'
        <5>1. item[r] # c
          BY <1>1, <1>8, <3>1, <4>1 DEF Loose
        <5>2. \A b \in Queued(q) : item[b] = c => b # r /\ bs'[b] = bs[b]
          BY <1>1, <1>2, <5>1
        <5> QED BY <1>2, <2>1, <4>1, <5>2 DEF Loose
      <4> QED BY <1>2, <4>1 DEF Torn
    <3>4. Backed(i) => Backed(i)'
      BY <1>1, <1>2, <1>8, <2>1 DEF Backed
    <3>5. Tested(i)' => Tested(i)
      <4>1. ASSUME NEW k \in Queued(q'), k = i \/ i \in Up(q', k), bs'[k].ref PROVE Tested(i)
        <5>1. r \in Up(q, k) /\ k \in Item /\ k \in Queued(q)
          BY <1>1, <1>2, <1>8, <4>1, UpIsTransitive
        <5>2. bs'[k] = bs[k]
          BY <1>1, <1>2, <5>1
        <5> QED BY <1>2, <4>1, <5>1, <5>2 DEF Tested
      <4> QED BY <4>1 DEF Tested
    <3> QED BY <1>1, <1>2, <2>1, <3>2, <3>3, <3>4, <3>5, WorthyStays
  <2>4. ASSUME ~Tested(r) PROVE Worthy(i)'
    <3>1. ASSUME NEW k \in Queued(q'), k = i \/ i \in Up(q', k) PROVE ~bs'[k].ref
      <4>1. r \in Up(q, k) /\ k \in Item /\ k \in Queued(q)
        BY <1>1, <1>2, <1>8, <3>1, UpIsTransitive
      <4>2. bs'[k] = bs[k] /\ ~bs[k].ref
        BY <1>1, <1>2, <2>4, <4>1 DEF Tested
      <4> QED BY <4>2
    <3>2. ~Tested(i)' /\ ~bs'[i].ref
      BY <1>2, <3>1 DEF Tested
    <3> QED BY <3>2 DEF Worthy
  <2> QED BY <2>2, <2>3, <2>4
(* An item that is yet to be processed and is not. *)
<1>9. ASSUME NEW i \in Queued(q), i # r, i \in Todo, r \notin Up(q, i) PROVE Worthy(i)'
  <2>1. i \in Item /\ bs'[i] = bs[i] /\ Up(q', i) = Up(q, i) /\ Worthy(i)
    BY <1>6, <1>9
  <2>2. CASE ~bs'[r].failing
    <3>1. Off(i)'
      BY <1>1, <1>2, <1>4, <1>9, <2>1, <2>2 DEF Off
    <3> QED BY <3>1 DEF Worthy
  <2>3. CASE bs'[r].failing
    <3>1. Off(i) => Off(i)'
      BY <1>1, <1>2, <1>4, <1>9, <2>1, <2>3 DEF Off
    <3>2. Torn(i) => Torn(i)'
      <4>1. \A c \in Needs[item[i]] : status[c] # "merged" /\ Loose(i, c) => status'[c] # "merged"
        BY <1>2
      <4>2. ASSUME NEW b \in Queued(q')
            PROVE  /\ b \in Queued(q) /\ item'[b] = item[b] /\ (bs[b].failing => bs'[b].failing)
                   /\ b \notin Up(q, i) => b \notin Up(q', i)
                   /\ ~bs[b].ref => ~bs'[b].ref
        BY <1>1, <1>2, <1>5, <2>1, <2>3
      <4> QED BY <2>1, <4>1, <4>2, TornStays
    <3>3. Backed(i) => Backed(i)'
      BY <1>1, <1>2, <2>1, <2>3 DEF Backed
    <3>4. Tested(i)' => Tested(i)
      <4>1. ASSUME NEW k \in Queued(q'), k = i \/ i \in Up(q', k), bs'[k].ref PROVE Tested(i)
        <5>1. bs[k].ref
          BY <1>1, <1>2, <1>5, <2>3, <4>1
        <5> QED BY <1>2, <4>1, <5>1 DEF Tested
      <4> QED BY <4>1 DEF Tested
    <3> QED BY <1>1, <1>2, <2>1, <3>1, <3>2, <3>3, <3>4, WorthyStays
  <2> QED BY <2>2, <2>3
<1> QED BY <1>2, <1>5, <1>7, <1>8, <1>9 DEF WorthInv

(* An item leaves and what was behind it begins anew.                      *)
LEMMA BegunAnew ==
  ASSUME QueueInv, NEW r \in Item, q' = DequeueItem(q, r), ResetsBehind(r, q, bs)
  PROVE  /\ \A i \in Queued(q') : /\ i \in Queued(q) /\ i \in Item /\ i # r
                                  /\ Up(q', i) = Up(q, i) \ {r}
                                  /\ r \in Up(q, i) => ~bs'[i].ref /\ Worthy(i)'
                                  /\ r \notin Up(q, i) => bs'[i] = bs[i]
         /\ \A a, b : Precedes(q', a, b) => Precedes(q, a, b)
<1>1. q \in Queues /\ WellLinked(q) /\ Queued(q) \subseteq Item
  BY DEF QueueInv, Queued, Queues
<1>2. /\ Queued(q') = Queued(q) \ {r}
      /\ \A i \in Item \ {r} : Up(q', i) = Up(q, i) \ {r}
      /\ \A a, b : Precedes(q', a, b) <=> Precedes(q, a, b) /\ a # r /\ b # r
  BY <1>1, DequeuedUp
<1>3. ASSUME NEW i \in Queued(q'), r \in Up(q, i) PROVE ~bs'[i].ref
  <2>1. i \in Item \ {r}
    BY <1>1, <1>2
  <2>2. Resets(bs[i], bs'[i])
    BY <1>3, <2>1 DEF ResetsBehind
  <2> QED BY <2>2 DEF Resets, Anew, Cancels, SameRequest
<1>4. ASSUME NEW i \in Queued(q'), r \in Up(q, i) PROVE Worthy(i)'
  <2>1. ASSUME NEW k \in Queued(q'), k = i \/ i \in Up(q', k) PROVE ~bs'[k].ref
    <3>1. k \in Item \ {r}
      BY <1>1, <1>2
    <3>2. r \in Up(q, k)
      BY <1>1, <1>2, <1>4, <2>1, <3>1, UpIsTransitive
    <3> QED BY <1>3, <3>2
  <2>2. ~bs'[i].ref /\ ~Tested(i)'
    BY <2>1 DEF Tested
  <2> QED BY <2>2 DEF Worthy
<1>5. \A i \in Queued(q') : r \notin Up(q, i) => bs'[i] = bs[i]
  BY <1>1, <1>2 DEF ResetsBehind
<1> QED BY <1>1, <1>2, <1>3, <1>4, <1>5

(* What waits in vain for a change still does when another item leaves.    *)
LEMMA TornWithout ==
  ASSUME QueueInv, NEW r \in Item, q' = DequeueItem(q, r), item' = item,
         NEW i \in Queued(q'), Torn(i),
         \A c \in Needs[item[i]] : status[c] # "merged" /\ Loose(i, c) => status'[c] # "merged",
         (\A k \in Item \ {r} : bs'[k] = bs[k]) \/ (ResetsBehind(r, q, bs) /\ r \notin Up(q, i))
  PROVE  Torn(i)'
<1>1. q \in Queues /\ WellLinked(q) /\ Queued(q) \subseteq Item
  BY DEF QueueInv, Queued, Queues
<1>2. /\ Queued(q') = Queued(q) \ {r} /\ i \in Item
      /\ \A k \in Item \ {r} : Up(q', k) = Up(q, k) \ {r}
  BY <1>1, DequeuedUp
<1>3. ASSUME NEW b \in Queued(q')
      PROVE  \/ /\ b \in Queued(q) /\ item'[b] = item[b] /\ (bs[b].failing => bs'[b].failing)
                /\ b \notin Up(q, i) => b \notin Up(q', i)
                /\ ~bs[b].ref => ~bs'[b].ref
             \/ b \notin Up(q', i) /\ ~bs'[b].ref
  <2>1. b \in Queued(q) /\ b \in Item /\ b # r /\ i # r
    BY <1>1, <1>2
  <2>2. CASE bs'[b] = bs[b]
    BY <1>2, <2>1, <2>2
  <2>3. CASE ResetsBehind(r, q, bs) /\ r \notin Up(q, i) /\ bs'[b] # bs[b]
    <3>1. ~bs'[b].ref /\ r \in Up(q, b)
      BY <2>3, BegunAnew
    <3>2. b \notin Up(q, i)
      BY <1>1, <1>2, <2>3, <3>1, UpIsTransitive
    <3> QED BY <1>2, <2>1, <3>1, <3>2
  <2> QED BY <2>1, <2>2, <2>3
<1> QED BY <1>3, TornStays

(* An item goes, and the tests of all behind it begin anew.                *)
LEMMA GoneStaysWorthy ==
  ASSUME QueueInv, WorthInv, NEW r \in Item, q' = DequeueItem(q, r), ResetsBehind(r, q, bs),
         item' = item, results' = results, layout' = layout, trunk' = trunk, status' = status,
         \A i \in Queued(q) : r \notin Up(q, i) /\ i # r /\ Off(i) => Off(i)'
  PROVE  WorthInv'
<1> SUFFICES ASSUME NEW i \in Queued(q') PROVE Worthy(i)'
  BY DEF WorthInv
<1>1. /\ i \in Queued(q) /\ i \in Item /\ i # r /\ Up(q', i) = Up(q, i) \ {r}
      /\ \A a, b : Precedes(q', a, b) => Precedes(q, a, b)
      /\ \A k \in Queued(q') : /\ k \in Queued(q) /\ k \in Item /\ Up(q', k) = Up(q, k) \ {r}
                               /\ bs'[k].ref => bs'[k] = bs[k]
                               /\ bs'[k] = bs[k] \/ ~bs'[k].ref
  BY BegunAnew
<1>2. CASE r \in Up(q, i)
  BY <1>2, BegunAnew
<1>3. CASE r \notin Up(q, i)
  <2>1. bs'[i] = bs[i] /\ Up(q', i) = Up(q, i) /\ Worthy(i)
    BY <1>1, <1>3, BegunAnew DEF WorthInv
  <2>2. Torn(i) => Torn(i)'
    <3>1. \A c \in Needs[item[i]] : status[c] # "merged" /\ Loose(i, c) => status'[c] # "merged"
      OBVIOUS
    <3> QED BY <1>3, <3>1, TornWithout
  <2>3. Backed(i) => Backed(i)'
    BY <1>1, <2>1 DEF Backed
  <2>4. Tested(i)' => Tested(i)
    BY <1>1 DEF Tested
  <2> QED BY <1>1, <1>3, <2>1, <2>2, <2>3, <2>4, WorthyStays
<1> QED BY <1>2, <1>3

(* An item leaves without merging.                                         *)
LEMMA FailedStaysWorthy ==
  ASSUME Steadily, OrderInv, WorthInv, NEW r \in Item, Processing(r), LeavesFailed(r),
         item' = item, results' = results, layout' = layout
  PROVE  WorthInv'
<1>1. QueueInv /\ q \in Queues /\ WellLinked(q) /\ Queued(q) \subseteq Item
  BY SteadyFacts, WhereItStands DEF OrderInv
<1>2. /\ q' = DequeueItem(q, r) /\ trunk' = trunk /\ status' = status
      /\ ResetsBehind(r, q, bs) /\ StepsOn(r, pass.nnfi) /\ Todo' = Todo \ {r}
  BY DEF LeavesFailed, Unreported, StepsOn
<1>3. Spine' = Spine
  BY <1>1, <1>2, SpineKeptWithout DEF OrderInv
<1>4. \A i \in Item \ {r} : Up(q', i) = Up(q, i) \ {r}
  BY <1>1, <1>2, DequeuedUp
<1>5. ASSUME NEW i \in Queued(q), r \notin Up(q, i), i # r, Off(i) PROVE Off(i)'
  BY <1>1, <1>2, <1>3, <1>4, <1>5 DEF Off
<1> QED BY <1>1, <1>2, <1>5, GoneStaysWorthy

(* A change merges: its test was the one of what the branch then is.       *)
LEMMA MergedAsTested ==
  ASSUME Steadily, OrderInv, WorthInv, NEW r \in Item, Processing(r), LeavesMerged(r)
  PROVE  /\ bs[r].commit = Merged \cup {item[r]} /\ bs[r].ref /\ ~bs[r].failing
         /\ Needs[item[r]] \subseteq Merged
         /\ Spine = {} /\ Up(q, r) = {}
<1>1. /\ QueueInv /\ q \in Queues /\ WellLinked(q) /\ r \in Queued(q)
      /\ SetOk(r) /\ item[r] \in Gated /\ item[r] \in Change /\ layout \in Layouts /\ Reliable
      /\ TrunkInv /\ NeedsOrder /\ SpineInv
      /\ \A b \in Queued(q) : Precedes(q, b, r) => b \notin Todo
  BY SteadyFacts, WhereItStands DEF OrderInv
<1>2. /\ ~NeedsAFailingItem(r) /\ NeedsMet(item[r], ToSet(ChangesIn(q)))
      /\ q.ahead[r] = NoItem /\ pass.nnfi = NoItem /\ q.ahead[r] = pass.nnfi
      /\ AllJobsSucceeded(item[r], bs[r]) /\ pass.phase = "queue"
  BY DEF LeavesMerged, Processing
<1>3. Spine = {}
  BY <1>2 DEF Spine
<1>4. Up(q, r) = {} /\ ~Off(r) /\ ~Torn(r)
  BY <1>1, <1>2, <1>3, PlacedIsSound
<1>5. bs[r].ref /\ bs[r].merge = "COMPLETE"
  <2>1. PICK j \in Jobs(item[r]) : j \in layout.voting
    BY <1>1 DEF Reliable, Jobs
  <2>2. j \in Job /\ bs[r].builds[j] = "SUCCESS"
    BY <1>1, <1>2, <2>1, LayoutAssumption DEF Jobs, AllJobsSucceeded
  <2> QED BY <1>1, <2>2 DEF SetOk, Unstarted
<1>6. ~Broken(r)
  BY <1>2 DEF Broken, AllJobsSucceeded
<1>7. Sound(r) /\ ~bs[r].failing
  <2>1. Tested(r) /\ Worthy(r)
    BY <1>1, <1>5 DEF Tested, WorthInv
  <2> QED BY <1>4, <1>5, <1>6, <2>1 DEF Worthy
<1>8. ~bs[r].unable /\ Merged \subseteq bs[r].commit /\ ToSet(bs[r].other) \subseteq Merged
  BY <1>4, <1>5, <1>6, <1>7 DEF Sound, Telling, Calm, Fresh, Based
<1>9. bs[r].commit = Merged \cup {item[r]}
  BY <1>1, <1>5, <1>8 DEF SetOk, Content
<1>10. ASSUME NEW c \in Needs[item[r]] PROVE c \in Merged
  <2>1. c \in Change
    BY <1>1, NeedsAssumption
  <2>2. ASSUME NEW b \in Queued(q), item[b] = c PROVE FALSE
    <3>1. b \notin Todo /\ ~bs[b].failing
      BY <1>1, <1>2, <2>2 DEF NeedsOrder, NeedsAFailingItem
    <3> QED BY <1>1, <1>2, <1>3, <3>1 DEF SpineInv
  <2>3. status[c] = "merged"
    BY <1>1, <1>2, <2>2, MetNeeds
  <2> QED BY <1>1, <2>1, <2>3 DEF TrunkInv
<1> QED BY <1>3, <1>4, <1>5, <1>7, <1>9, <1>10

(* A change merges that i was based on: i is as fresh as it was.           *)
LEMMA SoundStays ==
  ASSUME NEW i \in Item, NEW r \in Item, Based(i), Telling(i), SetOk(i), MergesInv, item[i] \in Change,
         i \in Queued(q), bs'[i] = bs[i], item' = item, layout' = layout, results' = results,
         Merged' = Merged \cup {item[r]}, Up(q', i) = Up(q, i) \ {r},
         Broken(i) \/ r \in Up(q, i)
  PROVE  Based(i)' /\ Telling(i)' /\ (Broken(i) => Broken(i)')
<1>1. Based(i)'
  BY DEF Based
<1>2. Broken(i)' <=> Broken(i)
  BY DEF Broken, Jobs
<1>3. Calm(i)'
  BY <1>2 DEF Telling, Calm, Carried, Jobs
<1>4. ASSUME Fresh(i), r \in Up(q, i) PROVE Fresh(i)'
  <2>1. item[r] \in Content(i)
    BY <1>4 DEF Based, Content
  <2>2. bs[i].merge = "COMPLETE" /\ ~bs[i].unable => Content(i) \subseteq bs[i].commit
    BY DEF SetOk
  <2>3. ASSUME NEW e \in ToSet(results), e.kind = "merge", e.item = i, e.gen = bs[i].gen,
               e.result = "merged"
        PROVE  Merged' \subseteq e.content
    <3>1. Open(e.item)
      BY <2>3 DEF Open
    <3>2. Content(e.item) \subseteq e.content
      BY <2>3, <3>1 DEF MergesInv
    <3> QED BY <1>4, <2>1, <2>3, <3>2 DEF Fresh
  <2> QED BY <1>4, <2>1, <2>2, <2>3 DEF Fresh
<1> QED BY <1>1, <1>2, <1>3, <1>4 DEF Telling

(* A change merges: the tests of what is behind it keep their worth.       *)
LEMMA MergedStaysWorthy ==
  ASSUME Steadily, OwnInv, OrderInv, WorthInv, NEW r \in Item, Processing(r), LeavesMerged(r),
         item' = item, results' = results, layout' = layout
  PROVE  WorthInv'
<1>1. /\ QueueInv /\ q \in Queues /\ WellLinked(q) /\ r \in Queued(q) /\ Queued(q) \subseteq Item
      /\ r \in Todo /\ SpineInv /\ MergesInv /\ item[r] \in Change /\ trunk \in Seq(Change)
      /\ \A i \in Item : r \in Up(q, i) => i \in Todo /\ i # r
      /\ \A t \in Todo \ {r} : Precedes(q, r, t)
      /\ \A i \in Queued(q) : SetOk(i) /\ item[i] \in Change /\ Worthy(i)
  <2>1. /\ QueueInv /\ q \in Queues /\ WellLinked(q) /\ r \in Queued(q) /\ Queued(q) \subseteq Item
        /\ r \in Todo /\ SpineInv /\ MergesInv /\ item[r] \in Change /\ trunk \in Seq(Change)
        /\ \A i \in Item : r \in Up(q, i) => i \in Todo /\ i # r
        /\ \A t \in Todo \ {r} : Precedes(q, r, t)
    BY SteadyFacts, WhereItStands DEF OrderInv, OwnInv
  <2>2. \A i \in Queued(q) : item[i] \in Change
    BY LayoutAssumption DEF TrunkInv, OrderInv
  <2> QED BY <2>1, <2>2 DEF Steadily, SetsInv, Open, WorthInv
<1>2. /\ bs[r].ref /\ ~bs[r].failing /\ Spine = {} /\ Up(q, r) = {}
  BY MergedAsTested
<1>3. /\ q' = DequeueItem(q, r) /\ Todo' = Todo \ {r} /\ pass'.nnfi = NoItem
      /\ Merges(r) /\ pass.phase = "queue"
      /\ (\A i \in Item \ {r} : bs'[i] = bs[i]) \/ ResetsBehind(r, q, bs)
  BY DEF LeavesMerged, StepsOn
<1>4. /\ \A c \in Change : c # item[r] => status'[c] = status[c]
      /\ Merged' = Merged \cup {item[r]}
  <2>1. PICK c \in Change : c = item[r]
    BY <1>1
  <2>2. trunk' = Append(trunk, c) /\ status' = [status EXCEPT ![c] = "merged"]
    BY <1>3, <2>1 DEF Merges
  <2>3. trunk \in Seq(ToSet(trunk))
    BY <1>1, SeqOfItsOwn
  <2>4. ToSet(trunk') = ToSet(trunk) \cup {c}
    BY <2>2, <2>3, AddedToTheRest, AddedAtTheEnd
  <2>5. status \in [Change -> Statuses]
    BY DEF Steadily, TypeInv, ServicesTyped
  <2> QED BY <2>1, <2>2, <2>4, <2>5 DEF Merged
<1>5. /\ Queued(q') = Queued(q) \ {r}
      /\ \A i \in Item \ {r} : Up(q', i) = Up(q, i) \ {r}
      /\ \A a, b : Precedes(q', a, b) => Precedes(q, a, b)
  BY <1>1, <1>3, DequeuedUp
<1>6. Spine' = {}
  BY <1>3 DEF Spine
<1> SUFFICES ASSUME NEW i \in Queued(q') PROVE Worthy(i)'
  BY DEF WorthInv
<1>7. i \in Queued(q) /\ i \in Item /\ i # r /\ Worthy(i) /\ SetOk(i) /\ item[i] \in Change
  BY <1>1, <1>5
<1>8. CASE ResetsBehind(r, q, bs) /\ r \in Up(q, i)
  BY <1>1, <1>3, <1>8, BegunAnew
<1>9. CASE (\A k \in Item \ {r} : bs'[k] = bs[k]) \/ (ResetsBehind(r, q, bs) /\ r \notin Up(q, i))
  <2>1. /\ bs'[i] = bs[i] /\ Up(q', i) = Up(q, i) \ {r}
        /\ \A k \in Queued(q') : bs'[k] = bs[k] \/ ~bs'[k].ref
    BY <1>1, <1>3, <1>5, <1>7, <1>9, BegunAnew
  <2>2. Off(i) => Off(i)'
    BY <1>1, <1>2, <1>3, <1>6, <1>7, <2>1 DEF Off
  <2>3. Torn(i) => Torn(i)'
    <3>1. ASSUME NEW c \in Needs[item[i]], status[c] # "merged", Loose(i, c)
          PROVE  status'[c] # "merged"
      <4>1. c # item[r]
        BY <1>1, <1>2, <3>1 DEF Loose
      <4>2. c \in Change
        BY <1>7, NeedsAssumption
      <4> QED BY <1>4, <3>1, <4>1, <4>2
    <3> QED BY <1>1, <1>3, <1>9, <3>1, TornWithout
  <2>4. Tested(i)' => Tested(i)
    <3>1. ASSUME NEW k \in Queued(q'), k = i \/ i \in Up(q', k), bs'[k].ref PROVE Tested(i)
      <4>1. bs'[k] = bs[k] /\ k \in Queued(q) /\ k \in Item \ {r}
        BY <1>1, <1>5, <2>1, <3>1
      <4> QED BY <1>5, <3>1, <4>1 DEF Tested
    <3> QED BY <3>1 DEF Tested
  <2>5. (Broken(i) => Broken(i)')
    BY <2>1 DEF Broken, Jobs
  <2>6. Backed(i) => Backed(i)'
    <3>1. ASSUME NEW k \in Queued(q'), Precedes(q', k, i),
                 k \in Up(q, i) \/ bs[k].failing \/ ~bs[k].ref
          PROVE  k \in Up(q', i) \/ bs'[k].failing \/ ~bs'[k].ref
      BY <1>5, <1>7, <2>1, <3>1
    <3> QED BY <1>5, <3>1 DEF Backed
  <2>7. ASSUME bs[i].ref, Sound(i), ~Torn(i), ~Off(i) PROVE Sound(i)'
    <3>1. Broken(i) \/ r \in Up(q, i)
      <4>1. CASE i \in Todo
        <5>1. Precedes(q, r, i)
          BY <1>1, <1>7, <4>1
        <5> QED BY <1>1, <1>2, <2>7, <5>1 DEF Sound, Backed
      <4>2. CASE i \notin Todo
        <5>1. bs[i].failing
          BY <1>1, <1>2, <1>3, <1>7, <4>2 DEF SpineInv
        <5>2. Tested(i)
          BY <1>7, <2>7 DEF Tested
        <5> QED BY <1>7, <2>7, <5>1, <5>2 DEF Worthy
      <4> QED BY <4>1, <4>2
    <3>2. Based(i) /\ Telling(i)
      BY <2>7 DEF Sound
    <3>3. Based(i)' /\ Telling(i)'
      BY <1>1, <1>4, <1>7, <2>1, <3>1, <3>2, SoundStays
    <3> QED BY <2>6, <2>7, <3>3 DEF Sound
  <2> QED BY <1>7, <2>1, <2>2, <2>3, <2>4, <2>5, <2>7 DEF Worthy
<1> QED BY <1>3, <1>8, <1>9

-----------------------------------------------------------------------------
(* The steps that leave the queue as it is.                                *)

(* No item begins, fails or moves, no change merges, and what the items    *)
(* tell of their tests goes on to hold.                                    *)
KeepsItsPlace ==
  /\ q' = q /\ item' = item /\ layout' = layout /\ trunk' = trunk
  /\ \A c \in Change : status[c] # "merged" => status'[c] # "merged"
  /\ \A k \in Item : /\ bs'[k].ref = bs[k].ref /\ bs'[k].failing = bs[k].failing
                     /\ bs'[k].other = bs[k].other /\ bs'[k].gen = bs[k].gen
  /\ Todo = {} \/ pass' = pass
KeepsTelling ==
  \A i \in Queued(q) :
    /\ bs[i].ref /\ Telling(i) => Telling(i)'
    /\ Broken(i) /\ (bs[i].ref => Calm(i)) => Broken(i)'

(* Where the queue stays, what the tests say has to stay.                  *)
LEMMA PlaceStaysWorthy ==
  ASSUME QueueInv, TrunkInv, WorthInv, KeepsItsPlace, KeepsTelling
  PROVE  WorthInv'
<1>1. /\ Queued(q) \subseteq Item /\ q' = q /\ item' = item /\ trunk' = trunk
      /\ \A k \in Queued(q) : k \in Item /\ bs'[k].ref = bs[k].ref /\ bs'[k].failing = bs[k].failing
                              /\ bs'[k].other = bs[k].other
      /\ \A i \in Queued(q) : item[i] \in Change
  BY LayoutAssumption DEF KeepsItsPlace, QueueInv, Queued, Queues, TrunkInv
<1> SUFFICES ASSUME NEW i \in Queued(q) PROVE Worthy(i)'
  BY <1>1 DEF WorthInv
<1>2. i \in Item /\ Worthy(i)
  BY <1>1 DEF WorthInv
<1>3. Off(i) => Off(i)'
  BY <1>1 DEF Off, KeepsItsPlace, Todo, Spine
<1>4. Torn(i) => Torn(i)'
  <2>1. ASSUME NEW c \in Needs[item[i]], status[c] # "merged", Loose(i, c)
        PROVE  status'[c] # "merged" /\ Loose(i, c)'
    <3>1. c \in Change
      BY <1>1, NeedsAssumption
    <3> QED BY <1>1, <2>1, <3>1 DEF KeepsItsPlace, Loose
  <2> QED BY <1>1, <2>1 DEF Torn
<1>5. Based(i) => Based(i)'
  BY <1>1 DEF Based, Merged
<1>6. Backed(i) => Backed(i)'
  BY <1>1 DEF Backed
<1>7. Tested(i)' => Tested(i)
  BY <1>1 DEF Tested
<1>8. /\ bs[i].ref /\ Telling(i) => Telling(i)'
      /\ Broken(i) /\ (bs[i].ref => Calm(i)) => Broken(i)'
  BY DEF KeepsTelling
<1>9. bs'[i].ref => Off(i)' \/ Torn(i)' \/ Sound(i)'
  BY <1>1, <1>2, <1>3, <1>4, <1>5, <1>6, <1>8 DEF Worthy, Sound
<1>10. ASSUME Tested(i)', bs'[i].failing, ~Off(i)', ~Torn(i)' PROVE Broken(i)'
  <2>1. ~Off(i) /\ ~Torn(i) /\ Tested(i) /\ bs[i].failing
    BY <1>1, <1>3, <1>4, <1>7, <1>10
  <2>2. Broken(i) /\ (bs[i].ref => Sound(i))
    BY <1>2, <2>1 DEF Worthy
  <2> QED BY <1>8, <2>2 DEF Sound, Telling
<1> QED BY <1>9, <1>10 DEF Worthy

(* The build sets are as they were, and no news came but of merges.        *)
LEMMA SilenceKeepsTelling ==
  ASSUME bs' = bs, item' = item, layout' = layout, trunk' = trunk,
         \A e \in ToSet(results') :
           e \in ToSet(results) \/ (e.kind = "merge" /\ (e.result = "merged" => Merged \subseteq e.content))
  PROVE  KeepsTelling
<1>1. ASSUME NEW i PROVE /\ Telling(i) => Telling(i)'
                         /\ Broken(i) <=> Broken(i)'
  <2>1. Broken(i)' <=> Broken(i)
    BY DEF Broken, Jobs
  <2>2. Calm(i) => Calm(i)'
    BY <2>1 DEF Calm, Carried, Jobs
  <2>3. Fresh(i) => Fresh(i)'
    BY DEF Fresh, Merged
  <2> QED BY <2>1, <2>2, <2>3 DEF Telling
<1> QED BY <1>1 DEF KeepsTelling

(* What a build set says of a build stays when its result is handled,      *)
LEMMA BuildHeardTells ==
  ASSUME TypeInv, TreeInv, SetsInv, OwnInv, NEW e, e \in ToSet(results), HearsBuild(e),
         NEW t, results' = t, ToSet(t) \subseteq ToSet(results),
         \A f \in ToSet(t) : f.kind = "build" => ~SameBuild(e, f),
         item' = item, trunk' = trunk, layout' = layout
  PROVE  KeepsTelling
<1>1. PICK i \in Item : i = e.item
  BY DEF TypeInv, MutexInv, ResultsAreOld
<1>2. /\ e.kind = "build" /\ e.gen = bs[i].gen /\ e.job \in Job
      /\ \A k \in Item : k # i => bs'[k] = bs[k]
      /\ SameRequest(bs[i], bs'[i])
      /\ \/ /\ e.result = "retry"
            /\ \A j \in Job : bs'[i].builds[j] = IF j = e.job THEN "absent" ELSE bs[i].builds[j]
         \/ /\ e.result # "retry" /\ bs[i].builds[e.job] # "SUCCESS"
            /\ \A j \in Job : bs'[i].builds[j] = IF j \in Jobs(item[i]) /\ e.job \in Above[j]
                                                 THEN "SKIPPED" ELSE bs[i].builds[j]
  BY <1>1 DEF HearsBuild
<1>4. Queued(q) \subseteq Item
  BY DEF TypeInv, GateInv, QueueInv, Queued, Queues
<1>5. ASSUME NEW k \in Queued(q), k # i
      PROVE  /\ Telling(k) => Telling(k)'
             /\ Broken(k) => Broken(k)'
  BY <1>2, <1>4, <1>5, TellingStays
<1>6. ASSUME i \in Queued(q), bs[i].ref => Calm(i) PROVE Calm(i)
  <2>1. ~bs[i].ref => Unstarted(bs[i])
    BY <1>6 DEF SetsInv, Open, SetOk
  <2>2. bs[i].builds[e.job] # "absent"
    BY <1>1, <1>2 DEF OwnInv, VerdictsInv
  <2> QED BY <1>2, <1>6, <2>1, <2>2 DEF Unstarted
<1>7. ASSUME i \in Queued(q), Calm(i)
      PROVE  /\ Broken(i) => Broken(i)'
             /\ Calm(i)' /\ (Fresh(i) => Fresh(i)')
  <2>1. item[i] \in Change
    BY <1>7 DEF TypeInv, GateInv, QueueInv, ItemsMade
  <2>2. Jobs(item[i]) \subseteq Job
    BY <2>1, LayoutAssumption DEF Jobs, TypeInv, ServicesTyped
  <2>3. e.result = "retry" => bs[i].builds[e.job] = "retrying"
    BY <1>1, <1>2, <1>7 DEF Calm
  <2>4. Broken(i) => Broken(i)'
    <3>1. \A j \in Job : bs[i].builds[j] \in {"FAILURE", "SKIPPED"} =>
                           bs'[i].builds[j] \in {"FAILURE", "SKIPPED"}
      BY <1>2, <2>3
    <3> QED BY <2>2, <3>1 DEF Broken, Jobs
  <2>5. Calm(i)'
    <3>1. \A j \in Job : bs'[i].builds[j] # "CANCELED"
      BY <1>2, <1>7 DEF Calm
    <3>2. bs'[i].unable => Broken(i)'
      BY <1>2, <1>7, <2>4 DEF Calm, SameRequest
    <3>3. ASSUME NEW f \in ToSet(t), f.kind = "build", f.item = i, f.gen = bs'[i].gen,
                 f.result = "retry"
          PROVE  bs'[i].builds[f.job] = "retrying"
      <4>1. f \in ToSet(results) /\ f.gen = bs[i].gen
        BY <1>2, <3>3 DEF SameRequest
      <4>2. f.job \in Job
        BY <3>3, <4>1 DEF TypeInv, MutexInv, ResultsAreOld
      <4>3. bs[i].builds[f.job] = "retrying" /\ f.job # e.job
        BY <1>1, <1>2, <1>7, <3>3, <4>1 DEF Calm, SameBuild
      <4>4. \A k \in Above[f.job] : bs[i].builds[k] = "SUCCESS"
        BY <4>2, <4>3 DEF TreeInv, TreesRooted, TreeSet, Live
      <4> QED BY <1>2, <4>2, <4>3, <4>4
    <3>4. Carried(i)'
      <4>1. Carried(i) /\ bs'[i].unable = bs[i].unable
        BY <1>2, <1>7 DEF Calm, SameRequest
      <4>2. \A j \in Job : \A k \in Above[j] : k \in Job /\ Above[k] \subseteq Above[j]
        BY JobAssumption, TreeAssumption
      <4>3. CASE /\ e.result = "retry"
                 /\ \A j \in Job : bs'[i].builds[j] = IF j = e.job THEN "absent" ELSE bs[i].builds[j]
        <5>1. \A k \in Above[e.job] : bs[i].builds[k] = "SUCCESS"
          BY <1>1, <1>2, <2>3, <4>3 DEF TreeInv, TreesRooted, TreeSet, Live
        <5>2. e.job \in Jobs(item[i]) => ~bs[i].unable
          BY <1>2, <2>3, <4>1, <4>3 DEF Carried
        <5> QED BY <1>2, <4>1, <4>2, <4>3, <5>1, <5>2 DEF Carried, Jobs
      <4>4. CASE \A j \in Job : bs'[i].builds[j] = IF j \in Jobs(item[i]) /\ e.job \in Above[j]
                                                   THEN "SKIPPED" ELSE bs[i].builds[j]
        BY <1>2, <4>1, <4>2, <4>4 DEF Carried, Jobs
      <4> QED BY <1>2, <4>3, <4>4
    <3> QED BY <3>1, <3>2, <3>3, <3>4 DEF Calm
  <2>6. Fresh(i) => Fresh(i)'
    BY <1>2 DEF Fresh, Merged, SameRequest
  <2> QED BY <2>4, <2>5, <2>6
<1>8. ASSUME i \in Queued(q)
      PROVE  /\ Telling(i) => Telling(i)'
             /\ Broken(i) /\ (bs[i].ref => Calm(i)) => Broken(i)'
  BY <1>6, <1>7, <1>8 DEF Telling
<1> QED BY <1>5, <1>8 DEF KeepsTelling

(* and when the answer of the mergers is.                                  *)
LEMMA MergeHeardTells ==
  ASSUME Reliable, TypeInv, TrunkInv, TreeInv, SetsInv, OwnInv, NEW e, e \in ToSet(results),
         HearsMerge(e), NEW t, results' = t, ToSet(t) \subseteq ToSet(results),
         item' = item, trunk' = trunk, layout' = layout
  PROVE  KeepsTelling
<1>1. e.kind = "merge"
  BY DEF HearsMerge
<1>2. PICK i \in Item : i = e.item
  BY <1>1 DEF TreeInv, Outstanding, AskedFor
<1>3. /\ e.gen = bs[i].gen
      /\ \A k \in Item : k # i => bs'[k] = bs[k]
      /\ bs'[i].gen = bs[i].gen /\ bs[i].merge = "PENDING"
      /\ \/ /\ e.result = "merged" /\ bs'[i].commit = e.content /\ bs'[i].unable = bs[i].unable
            /\ \A j \in Job : bs'[i].builds[j] = bs[i].builds[j]
         \/ /\ bs'[i].unable
            /\ \A j \in Job : bs'[i].builds[j] = IF j \in Jobs(item[i]) THEN "SKIPPED"
                                                 ELSE bs[i].builds[j]
  BY <1>2 DEF HearsMerge
<1>4. Queued(q) \subseteq Item /\ layout \in Layouts
  BY DEF TypeInv, GateInv, QueueInv, Queued, Queues, ServicesTyped
<1>5. ASSUME NEW k \in Queued(q), k # i
      PROVE  /\ Telling(k) => Telling(k)'
             /\ Broken(k) => Broken(k)'
  BY <1>3, <1>4, <1>5, TellingStays
<1>6. ASSUME i \in Queued(q)
      PROVE  ~Broken(i) /\ (Telling(i) => Telling(i)')
  <2>1. item[i] \in Gated /\ item[i] \in Change
    BY <1>6, LayoutAssumption DEF TrunkInv
  <2>2. Jobs(item[i]) \subseteq Job
    BY <1>4, <2>1, LayoutAssumption DEF Jobs
  <2>3. Unstarted(bs[i])
    BY <1>3, <1>6 DEF SetsInv, Open, SetOk
  <2>4. ~Broken(i)
    BY <2>2, <2>3 DEF Broken, Unstarted
  <2>5. \A f \in ToSet(t) : f.kind = "build" /\ f.item = i => f.gen # bs[i].gen
    <3> SUFFICES ASSUME NEW f \in ToSet(results), f.kind = "build", f.item = i, f.gen = bs[i].gen
                 PROVE  FALSE
      OBVIOUS
    <3>1. f.job \in Job
      BY DEF TypeInv, MutexInv, ResultsAreOld
    <3>2. bs[i].builds[f.job] # "absent"
      BY DEF OwnInv, VerdictsInv
    <3> QED BY <2>3, <3>1, <3>2 DEF Unstarted
  <2>6. ASSUME Telling(i) PROVE Telling(i)'
    <3>1. Fresh(i)
      BY <2>4, <2>6 DEF Telling
    <3>2. CASE e.result = "merged" /\ bs'[i].commit = e.content /\ bs'[i].unable = bs[i].unable
               /\ \A j \in Job : bs'[i].builds[j] = bs[i].builds[j]
      <4>1. Calm(i)'
        <5>1. Carried(i)'
          BY <1>3, <2>3, <3>2, JobAssumption DEF Carried, Unstarted
        <5> QED BY <1>3, <2>3, <2>5, <3>2, <5>1 DEF Calm, Unstarted
      <4>2. Fresh(i)'
        BY <1>1, <1>2, <1>3, <3>1, <3>2 DEF Fresh, Merged
      <4> QED BY <4>1, <4>2 DEF Telling
    <3>3. CASE \A j \in Job : bs'[i].builds[j] = IF j \in Jobs(item[i]) THEN "SKIPPED"
                                                 ELSE bs[i].builds[j]
      <4>1. Broken(i)'
        <5>1. PICK j \in Jobs(item[i]) : j \in layout.voting
          BY <1>4, <2>1 DEF Reliable, Jobs
        <5>2. j \in Job /\ bs'[i].builds[j] = "SKIPPED"
          BY <2>2, <3>3, <5>1
        <5> QED BY <5>1, <5>2 DEF Broken, Jobs
      <4>2. Calm(i)'
        <5>1. Carried(i)'
          BY <3>3 DEF Carried, Jobs
        <5> QED BY <1>3, <2>3, <2>5, <3>3, <4>1, <5>1 DEF Calm, Unstarted
      <4> QED BY <4>1, <4>2 DEF Telling
    <3> QED BY <1>3, <3>2, <3>3
  <2> QED BY <2>4, <2>6
<1> QED BY <1>5, <1>6 DEF KeepsTelling

(* Handling a result does no more than that,                               *)
LEMMA ResultKeepsPlace ==
  ASSUME Reliable, TypeInv, TrunkInv, TreeInv, SetsInv, OwnInv, HandleResult
  PROVE  KeepsItsPlace /\ KeepsTelling
<1>1. PICK e : e = Head(results)
  OBVIOUS
<1>2. PICK t : t = Tail(results)
  OBVIOUS
<1>3. /\ results' = t /\ q' = q /\ item' = item /\ trunk' = trunk /\ layout' = layout
      /\ status' = status /\ pass.phase = "results"
  BY <1>2 DEF HandleResult, gerrit
<1>4. /\ results \in Seq(ToSet(results)) /\ results # <<>> /\ e \in ToSet(results)
      /\ bs' = bs \/ HearsBuild(e) \/ HearsMerge(e)
  BY <1>1, ResultOutcomes DEF OwnInv
<1>5. ToSet(t) \subseteq ToSet(results)
  BY <1>2, <1>4, TakenFromTheFront
<1>6. \A f \in ToSet(t) : f.kind = "build" /\ e.kind = "build" => ~SameBuild(e, f)
  BY <1>1, <1>2, <1>4, FirstVerdict DEF OwnInv, VerdictsInv
<1>7. QueueInv
  BY DEF TypeInv, GateInv
<1>8. Todo = {}
  BY <1>3, <1>7, NothingTodo
<1>9. \A k \in Item : /\ bs'[k].ref = bs[k].ref /\ bs'[k].failing = bs[k].failing
                      /\ bs'[k].other = bs[k].other /\ bs'[k].gen = bs[k].gen
  BY <1>4 DEF HearsBuild, HearsMerge, SameRequest
<1>10. KeepsItsPlace
  BY <1>3, <1>8, <1>9 DEF KeepsItsPlace
<1>11. KeepsTelling
  <2>1. CASE bs' = bs
    BY <1>3, <1>5, <2>1, SilenceKeepsTelling
  <2>2. CASE HearsBuild(e)
    <3>1. \A f \in ToSet(t) : f.kind = "build" => ~SameBuild(e, f)
      BY <1>6, <2>2 DEF HearsBuild
    <3> QED BY <1>3, <1>4, <1>5, <2>2, <3>1, BuildHeardTells
  <2>3. CASE HearsMerge(e)
    BY <1>3, <1>4, <1>5, <2>3, MergeHeardTells
  <2> QED BY <1>4, <2>1, <2>2, <2>3
<1> QED BY <1>10, <1>11

(* nor do the answers themselves: they say what the build set does,        *)
LEMMA AnswersKeepPlace ==
  ASSUME TypeInv,
         \/ \E i \in Item, j \in Job, r \in {"SUCCESS", "FAILURE", "retry"} : BuildCompleted(i, j, r)
         \/ \E m \in merging, r \in {"merged", "conflict", "updated"} : MergeCompleted(m, r)
         \/ UNCHANGED vars
  PROVE  KeepsItsPlace /\ KeepsTelling /\ pass' = pass
<1>1. QueueInv /\ results \in Seq(ToSet(results))
  BY DEF TypeInv, GateInv, MutexInv, ResultsAreOld
<1>2. ASSUME NEW i \in Item, NEW j \in Job, NEW r \in {"SUCCESS", "FAILURE", "retry"},
             BuildCompleted(i, j, r)
      PROVE  KeepsItsPlace /\ KeepsTelling /\ pass' = pass
  <2>1. BuildEnds(i, j, r)
    BY <1>2, BuildEnding
  <2>2. PICK e : e = [kind |-> "build", item |-> i, gen |-> bs[i].gen, job |-> j, result |-> r]
    OBVIOUS
  <2>3. /\ e.kind = "build" /\ e.item = i /\ e.gen = bs[i].gen /\ e.job = j /\ e.result = r
        /\ results' = Append(results, e)
    BY <1>2, <2>2 DEF BuildCompleted, AddResult
  <2>4. ToSet(results') \subseteq ToSet(results) \cup {e}
    BY <1>1, <2>3, AddedAtTheEnd
  <2>5. KeepsItsPlace
    BY <2>1 DEF BuildEnds, KeepsItsPlace, SameRequest
  <2>6. ASSUME NEW k \in Queued(q)
        PROVE  (Telling(k) => Telling(k)') /\ (Broken(k) => Broken(k)')
    <3>1. k \in Item /\ item[k] \in Change /\ layout \in Layouts
      BY DEF TypeInv, GateInv, QueueInv, Queued, Queues, ServicesTyped, ItemsMade
    <3>2. Jobs(item[k]) \subseteq Job
      BY <3>1, LayoutAssumption DEF Jobs
    <3>3. /\ SameRequest(bs[k], bs'[k])
          /\ \A l \in Job : \/ bs'[k].builds[l] = bs[k].builds[l]
                            \/ /\ k = i /\ l = j /\ bs[k].builds[l] = "running"
                               /\ bs'[k].builds[l] = IF r = "retry" THEN "retrying" ELSE r
      BY <2>1, <3>1 DEF BuildEnds, SameRequest
    <3>4. Broken(k) => Broken(k)'
      BY <2>1, <3>2, <3>3 DEF Broken, Jobs, BuildEnds
    <3>5. Calm(k) => Calm(k)'
      <4>1. ASSUME Calm(k), NEW f \in ToSet(results'), f.kind = "build", f.item = k,
                   f.gen = bs'[k].gen, f.result = "retry"
            PROVE  bs'[k].builds[f.job] = "retrying"
        <5>1. CASE f = e
          BY <2>1, <2>3, <4>1, <5>1 DEF BuildEnds
        <5>2. CASE f # e
          <6>1. f \in ToSet(results) /\ f.gen = bs[k].gen /\ f.job \in Job
            BY <2>4, <3>3, <4>1, <5>2 DEF SameRequest, TypeInv, MutexInv, ResultsAreOld
          <6>2. bs[k].builds[f.job] = "retrying"
            BY <4>1, <6>1 DEF Calm
          <6> QED BY <3>3, <6>1, <6>2
        <5> QED BY <5>1, <5>2
      <4>2. Calm(k) => \A l \in Job : bs'[k].builds[l] # "CANCELED"
        BY <3>3 DEF Calm
      <4>3. Calm(k) => (bs'[k].unable => Broken(k)')
        BY <3>3, <3>4 DEF Calm, SameRequest
      <4>4. Calm(k) => Carried(k)'
        <5>1. \A l \in Job :
                /\ bs[k].builds[l] = "SKIPPED" <=> bs'[k].builds[l] = "SKIPPED"
                /\ bs[k].builds[l] = "absent" <=> bs'[k].builds[l] = "absent"
          BY <2>1, <3>3 DEF BuildEnds
        <5>2. \A l \in Job : \A h \in Above[l] : h \in Job
          BY JobAssumption
        <5>3. bs'[k].unable = bs[k].unable /\ item' = item /\ layout' = layout
          BY <2>1, <3>3 DEF BuildEnds, SameRequest
        <5> QED BY <5>1, <5>2, <5>3 DEF Calm, Carried, Jobs
      <4> QED BY <4>1, <4>2, <4>3, <4>4 DEF Calm
    <3>6. Fresh(k) => Fresh(k)'
      <4>1. \A f \in ToSet(results') : f.kind = "merge" => f \in ToSet(results)
        BY <2>3, <2>4
      <4>2. trunk' = trunk
        BY <2>1 DEF BuildEnds
      <4> QED BY <3>3, <4>1, <4>2 DEF Fresh, Merged, SameRequest
    <3> QED BY <3>4, <3>5, <3>6 DEF Telling
  <2>7. KeepsTelling
    BY <2>6 DEF KeepsTelling
  <2> QED BY <2>1, <2>5, <2>7 DEF BuildEnds
<1>3. ASSUME NEW m \in merging, NEW r \in {"merged", "conflict", "updated"}, MergeCompleted(m, r)
      PROVE  KeepsItsPlace /\ KeepsTelling /\ pass' = pass
  <2>1. PICK e : e = [kind |-> "merge", item |-> m.item, gen |-> m.gen, result |-> r,
                      content |-> IF r = "merged" THEN Merged \cup m.content ELSE {}]
    OBVIOUS
  <2>2. /\ e.kind = "merge" /\ e.result = r /\ (r = "merged" => Merged \subseteq e.content)
        /\ results' = Append(results, e)
    BY <1>3, <2>1 DEF MergeCompleted, AddResult
  <2>3. ToSet(results') \subseteq ToSet(results) \cup {e}
    BY <1>1, <2>2, AddedAtTheEnd
  <2>4. /\ q' = q /\ item' = item /\ bs' = bs /\ trunk' = trunk /\ layout' = layout
        /\ status' = status /\ pass' = pass
    BY <1>3 DEF MergeCompleted, scheduled, gerrit
  <2>5. KeepsItsPlace
    BY <2>4 DEF KeepsItsPlace
  <2>6. KeepsTelling
    BY <2>2, <2>3, <2>4, SilenceKeepsTelling
  <2> QED BY <2>4, <2>5, <2>6
<1>4. CASE UNCHANGED vars
  <2>1. /\ q' = q /\ item' = item /\ bs' = bs /\ trunk' = trunk /\ layout' = layout
        /\ status' = status /\ pass' = pass /\ results' = results
    BY <1>4 DEF vars, scheduled, gerrit
  <2>2. KeepsItsPlace
    BY <2>1 DEF KeepsItsPlace
  <2>3. KeepsTelling
    BY <2>1, SilenceKeepsTelling
  <2> QED BY <2>1, <2>2, <2>3
<1> QED BY <1>2, <1>3, <1>4

(* nor the steps of the main loop,                                         *)
LEMMA LoopKeepsPlace ==
  ASSUME TypeInv, WakeUp \/ EndResults \/ StartPass \/ EndPass
  PROVE  KeepsItsPlace /\ KeepsTelling
<1>1. /\ q' = q /\ item' = item /\ bs' = bs /\ trunk' = trunk /\ layout' = layout
      /\ status' = status /\ results' = results
      /\ pass.phase # "queue" \/ pass.todo = <<>>
  BY DEF WakeUp, EndResults, StartPass, EndPass, scheduled, gerrit
<1>2. QueueInv
  BY DEF TypeInv, GateInv
<1>3. Todo = {}
  BY <1>1, <1>2, NothingTodo
<1>4. KeepsItsPlace
  BY <1>1, <1>3 DEF KeepsItsPlace
<1>5. KeepsTelling
  BY <1>1, SilenceKeepsTelling
<1> QED BY <1>4, <1>5

(* nor what happens in Gerrit.                                             *)
LEMMA GerritKeepsPlace ==
  ASSUME TypeInv, TrunkInv, NEW c \in Change,
         Approve(c) \/ Withdraw(c) \/ GoAway(c) \/ NoticeMerge(c)
  PROVE  KeepsItsPlace /\ KeepsTelling /\ pass' = pass
<1>1. /\ q' = q /\ item' = item /\ bs' = bs /\ trunk' = trunk /\ layout' = layout
      /\ results' = results /\ pass' = pass
      /\ status \in [Change -> Statuses]
  BY DEF Approve, Withdraw, GoAway, NoticeMerge, GerritEvent, scheduled, TypeInv, ServicesTyped
<1>2. ~NoticeMerge(c)
  BY DEF NoticeMerge, TrunkInv
<1>3. \A d \in Change : status[d] # "merged" => status'[d] # "merged"
  BY <1>1, <1>2 DEF Approve, Withdraw, GoAway, GerritEvent
<1>4. KeepsItsPlace
  BY <1>1, <1>3 DEF KeepsItsPlace
<1>5. KeepsTelling
  BY <1>1, SilenceKeepsTelling
<1> QED BY <1>1, <1>4, <1>5

(* A new item has begun nothing.                                           *)
LEMMA NewIsOpen ==
  ASSUME QueueInv, SetsInv, NEW b \in Item, item[b] = Idle
  PROVE  b \notin Queued(q) /\ ~bs[b].ref
<1>1. b \notin Queued(q)
  BY DEF QueueInv
<1>2. SetOk(b)
  BY DEF SetsInv, Open
<1> QED BY <1>1, <1>2 DEF SetOk

(* New items have no test yet, and change no other.                        *)
LEMMA AddedStaysWorthy ==
  ASSUME QueueInv, SetsInv, TrunkInv, WorthInv, Adds(q), Todo = {}, q' \in Queues, bs' = bs,
         status' = status, trunk' = trunk, layout' = layout, results' = results
  PROVE  WorthInv'
<1>1. /\ q \in Queues /\ WellLinked(q) /\ Queued(q) \subseteq Item /\ Queued(q') \subseteq Item
      /\ \A i \in Queued(q) : item[i] # Idle
  BY DEF QueueInv, Queued, Queues
<1>2. /\ \A i \in Queued(q) : item'[i] = item[i] /\ Up(q', i) = Up(q, i) /\ i \in Queued(q')
      /\ \A i \in Queued(q') \ Queued(q) : item[i] = Idle
      /\ \A b \in Queued(q) : \A a : Precedes(q', a, b) => Precedes(q, a, b)
  BY <1>1 DEF Adds
<1>3. \A i \in Queued(q') \ Queued(q) : ~bs[i].ref
  BY <1>1, <1>2, NewIsOpen
<1>4. \A i \in Queued(q) : \A a \in Up(q, i) : a \in Queued(q)
  BY <1>1, UpIsEarlier
<1>5. ASSUME NEW i \in Queued(q') \ Queued(q) PROVE Worthy(i)'
  <2>1. ASSUME NEW k \in Queued(q'), k = i \/ i \in Up(q', k) PROVE ~bs[k].ref
    BY <1>2, <1>3, <1>4, <1>5, <2>1
  <2>2. ~Tested(i)' /\ ~bs'[i].ref
    BY <1>3, <2>1 DEF Tested
  <2> QED BY <2>2 DEF Worthy
<1>6. ASSUME NEW i \in Queued(q) PROVE Worthy(i)'
  <2>1. Worthy(i) /\ ~Off(i) /\ item'[i] = item[i]
    BY <1>2 DEF WorthInv, Off
  <2>2. ToSet(results') \subseteq ToSet(results)
    OBVIOUS
  <2>3. (Broken(i)' <=> Broken(i)) /\ (Telling(i) => Telling(i)')
    BY <2>1, <2>2, TellingStays
  <2>4. Torn(i) => Torn(i)'
    <3>1. \A c \in Needs[item[i]] : status[c] # "merged" /\ Loose(i, c) => status'[c] # "merged"
      OBVIOUS
    <3>2. \A b \in Queued(q') :
            \/ /\ b \in Queued(q) /\ item'[b] = item[b] /\ (bs[b].failing => bs'[b].failing)
               /\ b \notin Up(q, i) => b \notin Up(q', i)
               /\ ~bs[b].ref => ~bs'[b].ref
            \/ b \notin Up(q', i) /\ ~bs'[b].ref
      BY <1>2, <1>3, <1>4
    <3> QED BY <2>1, <3>1, <3>2, TornStays
  <2>5. Based(i) => Based(i)'
    BY <1>1, <1>2, <1>4, BasedStays
  <2>6. Backed(i) => Backed(i)'
    <3>1. \A k : Precedes(q, k, i) => k \in Queued(q)
      BY <1>1, PrecedesIsStrict DEF WellLinked
    <3> QED BY <1>2, <3>1 DEF Backed
  <2>7. Tested(i)' => Tested(i)
    <3>1. ASSUME NEW k \in Queued(q'), k = i \/ i \in Up(q', k), bs[k].ref PROVE Tested(i)
      BY <1>2, <1>3, <3>1 DEF Tested
    <3> QED BY <3>1 DEF Tested
  <2> QED BY <2>1, <2>3, <2>4, <2>5, <2>6, <2>7 DEF Worthy, Sound
<1> QED BY <1>5, <1>6 DEF WorthInv

(* Events from Gerrit keep the worth of the tests.                         *)
LEMMA TriggerKeepsWorth ==
  ASSUME TypeInv, TypeInv', SetsInv, TrunkInv, WorthInv, HandleTrigger
  PROVE  WorthInv'
<1>1. /\ status' = status /\ trunk' = trunk /\ layout' = layout /\ results' = results
      /\ pass' = pass /\ pass.phase = "triggers"
  BY DEF HandleTrigger, gerrit
<1>2. /\ GateInv /\ QueueInv /\ bs \in [Item -> BuildSets] /\ q' \in Queues
  BY DEF TypeInv, GateInv, QueueInv, SetsTyped
<1>3. Todo = {}
  BY <1>1, <1>2, NothingTodo
<1>4. CASE Adds(q) /\ bs' = bs
  BY <1>1, <1>2, <1>3, <1>4, AddedStaysWorthy
<1>5. CASE q' = q /\ item' = item /\ bs' = bs
  <2>1. KeepsItsPlace
    BY <1>1, <1>5 DEF KeepsItsPlace
  <2>2. KeepsTelling
    BY <1>1, <1>5, SilenceKeepsTelling
  <2> QED BY <1>2, <2>1, <2>2, PlaceStaysWorthy
<1>6. ASSUME NEW r \in Item, Removes(r) PROVE WorthInv'
  <2>1. q' = DequeueItem(q, r) /\ item' = item /\ ResetsBehind(r, q, bs)
    BY <1>6 DEF Removes, ResetsBehind
  <2>2. \A i \in Queued(q) : ~Off(i)
    BY <1>3 DEF Off
  <2> QED BY <1>1, <1>2, <2>1, <2>2, GoneStaysWorthy
<1> QED BY <1>2, <1>4, <1>5, <1>6, TriggerOutcomes

(* So does a promotion: no test is left.                                   *)
LEMMA PromoteKeepsWorth ==
  ASSUME TypeInv, TypeInv', SetsInv, WorthInv, NEW i \in Item, Promote(i)
  PROVE  WorthInv'
<1>1. QueueInv /\ bs \in [Item -> BuildSets] /\ Queued(q') \subseteq Item
  BY DEF TypeInv, GateInv, SetsTyped, QueueInv, Queued, Queues
<1>2. PICK x : x = EmptyQueue
  OBVIOUS
<1>3. /\ Adds(x) /\ Queued(x) = {}
      /\ \A k \in Item : IF k \in Queued(q) THEN Resets(bs[k], bs'[k]) ELSE bs'[k] = bs[k]
  BY <1>1, <1>2, PromoteOutcome, EmptyQueueIsWellLinked DEF Restarts
<1>4. \A k \in Queued(q') : ~bs'[k].ref
  <2>1. \A k \in Queued(q') : item[k] = Idle
    BY <1>3 DEF Adds
  <2> QED BY <1>1, <1>3, <2>1, NewIsOpen
<1>5. \A k \in Queued(q') : Worthy(k)'
  BY <1>4 DEF Worthy, Tested
<1> QED BY <1>5 DEF WorthInv

(* There is no test at first.                                              *)
LEMMA InitKeepsWorth == Init => WorthInv
<1> SUFFICES ASSUME Init PROVE WorthInv
  OBVIOUS
<1>1. Queued(q) = {}
  BY EmptyQueueIsWellLinked DEF Init
<1> QED BY <1>1 DEF WorthInv

(* The processing of an item keeps the worth of the tests.                 *)
LEMMA ProcessingKeepsWorth ==
  ASSUME Steadily, OwnInv, OrderInv, WorthInv, TypeInv', TreeInv', OwnInv', NEW r \in Item,
         DropItem(r) \/ PrepareRef(r) \/ LaunchItem(r) \/ WaitItem(r)
  PROVE  WorthInv'
<1>1. Processing(r)
  BY DEF DropItem, PrepareRef, LaunchItem, WaitItem
<1>2. item' = item /\ results' = results /\ layout' = layout
  BY ProcessingLeaves
<1>3. CASE StaysCanceled(r)
  BY <1>1, <1>2, <1>3, CanceledStaysWorthy
<1>4. CASE StaysMoved(r)
  BY <1>1, <1>2, <1>4, MovedStaysWorthy
<1>5. CASE StaysAligned(r)
  BY <1>1, <1>2, <1>5, AlignedStaysWorthy
<1>6. CASE LeavesFailed(r)
  BY <1>1, <1>2, <1>6, FailedStaysWorthy
<1>7. CASE LeavesMerged(r)
  BY <1>1, <1>2, <1>7, MergedStaysWorthy
<1> QED BY <1>3, <1>4, <1>5, <1>6, <1>7, ProcessingOutcomes

-----------------------------------------------------------------------------
(* What holds in a reliable gate whose configuration stays as it is.       *)

WholeInv == TreeInv /\ SetsInv /\ OwnInv /\ OrderInv /\ WorthInv

(* It holds of the empty gate.                                             *)
LEMMA InitWhole == Init => WholeInv
BY InitTreeInv, InitOwns, InitKeepsOrder, InitKeepsWorth DEF WholeInv

(* It has what the processing of an item counts on.                        *)
LEMMA WholeIsSteady ==
  ASSUME Reliable, TypeInv, WholeInv
  PROVE  Steadily /\ TrunkInv /\ QueueInv
BY DEF Steadily, WholeInv, OrderInv, TypeInv, GateInv

(* Every step but a reconfiguration keeps it.                              *)
LEMMA NextKeepsWhole ==
  ASSUME Reliable, TypeInv, TypeInv', WholeInv, Next, \A new \in Layouts : ~Reconfigure(new)
  PROVE  WholeInv'
<1>1. /\ Steadily /\ TrunkInv /\ QueueInv /\ MutexInv /\ MutexInv'
      /\ TreeInv /\ SetsInv /\ OwnInv /\ OrderInv /\ WorthInv
  BY WholeIsSteady DEF WholeInv, TypeInv
<1>2. TreeInv'
  BY <1>1, NextTreeInv
<1>3. CASE WakeUp \/ EndResults \/ StartPass \/ EndPass
  <2>1. SetsInv' /\ OwnInv'
    BY <1>1, <1>2, <1>3, QuietOwns
  <2>2. OrderInv'
    BY <1>1, <1>3, LoopKeepsOrder
  <2>3. WorthInv'
    BY <1>1, <1>3, LoopKeepsPlace, PlaceStaysWorthy
  <2> QED BY <1>2, <2>1, <2>2, <2>3 DEF WholeInv
<1>4. CASE HandleResult
  <2>1. SetsInv' /\ OwnInv'
    BY <1>1, <1>2, <1>4, ResultOwns
  <2>2. OrderInv'
    BY <1>1, <1>4, LoopKeepsOrder
  <2>3. WorthInv'
    BY <1>1, <1>4, ResultKeepsPlace, PlaceStaysWorthy
  <2> QED BY <1>2, <2>1, <2>2, <2>3 DEF WholeInv
<1>5. CASE HandleTrigger
  <2>1. SetsInv' /\ OwnInv'
    BY <1>1, <1>2, <1>5, TriggerOwns
  <2>2. OrderInv'
    BY <1>1, <1>5, TriggerKeepsOrder
  <2>3. WorthInv'
    BY <1>1, <1>5, TriggerKeepsWorth
  <2> QED BY <1>2, <2>1, <2>2, <2>3 DEF WholeInv
<1>6. ASSUME NEW r \in Item, DropItem(r) \/ PrepareRef(r) \/ LaunchItem(r) \/ WaitItem(r)
      PROVE  WholeInv'
  <2>1. SetsInv' /\ OwnInv'
    BY <1>1, <1>2, <1>6, ProcessingOwns
  <2>2. OrderInv'
    BY <1>1, <1>6, ProcessingKeepsOrder
  <2>3. WorthInv'
    BY <1>1, <1>2, <1>6, <2>1, ProcessingKeepsWorth
  <2> QED BY <1>2, <2>1, <2>2, <2>3 DEF WholeInv
<1>7. ASSUME NEW i \in Item, NEW j \in Job, NEW r \in {"SUCCESS", "FAILURE", "retry"},
             BuildCompleted(i, j, r)
      PROVE  WholeInv'
  <2>1. SetsInv' /\ OwnInv'
    BY <1>1, <1>2, <1>7, BuildCompletedOwns
  <2>2. OrderInv'
    BY <1>1, <1>7, AnswersKeepOrder
  <2>3. WorthInv'
    BY <1>1, <1>7, AnswersKeepPlace, PlaceStaysWorthy
  <2> QED BY <1>2, <2>1, <2>2, <2>3 DEF WholeInv
<1>8. ASSUME NEW m \in merging, NEW r \in {"merged", "conflict", "updated"}, MergeCompleted(m, r)
      PROVE  WholeInv'
  <2>1. SetsInv' /\ OwnInv'
    BY <1>1, <1>2, <1>8, MergeCompletedOwns
  <2>2. OrderInv'
    BY <1>1, <1>8, AnswersKeepOrder
  <2>3. WorthInv'
    BY <1>1, <1>8, AnswersKeepPlace, PlaceStaysWorthy
  <2> QED BY <1>2, <2>1, <2>2, <2>3 DEF WholeInv
<1>9. ASSUME NEW c \in Change, Approve(c) \/ Withdraw(c) \/ GoAway(c) \/ NoticeMerge(c)
      PROVE  WholeInv'
  <2>1. SetsInv' /\ OwnInv'
    BY <1>1, <1>2, <1>9, QuietOwns
  <2>2. OrderInv'
    BY <1>1, <1>9, GerritKeepsOrder
  <2>3. WorthInv'
    BY <1>1, <1>9, GerritKeepsPlace, PlaceStaysWorthy
  <2> QED BY <1>2, <2>1, <2>2, <2>3 DEF WholeInv
<1>10. ASSUME NEW i \in Item, Promote(i) PROVE WholeInv'
  <2>1. SetsInv' /\ OwnInv'
    BY <1>1, <1>2, <1>10, PromoteOwns
  <2>2. OrderInv'
    BY <1>1, <1>10, PromoteKeepsOrder
  <2>3. WorthInv'
    BY <1>1, <1>10, PromoteKeepsWorth
  <2> QED BY <1>2, <2>1, <2>2, <2>3 DEF WholeInv
<1> QED BY <1>3, <1>4, <1>5, <1>6, <1>7, <1>8, <1>9, <1>10 DEF Next, SchedulerStep

(* And nothing changes when nothing happens.                               *)
LEMMA StillWhole ==
  ASSUME TypeInv, TypeInv', WholeInv, UNCHANGED vars
  PROVE  WholeInv'
<1>1. TreeInv'
  BY DEF WholeInv, vars, scheduled, TreeInv, TreesRooted, TreeSet, Outstanding, AskedFor, OneEach
<1>2. SetsInv' /\ OwnInv'
  BY <1>1, QuietOwns DEF WholeInv
<1>3. OrderInv'
  BY AnswersKeepOrder DEF WholeInv
<1>4. WorthInv'
  BY AnswersKeepPlace, PlaceStaysWorthy DEF WholeInv, OrderInv, TypeInv, GateInv
<1> QED BY <1>1, <1>2, <1>3, <1>4 DEF WholeInv

(* In a reliable gate whose configuration stays as it is the build sets    *)
(* are right, the queue is in the order of the needs, and every test that  *)
(* has begun is of the branch as it is going to be, or will not be kept.   *)
THEOREM WholeInvariance ==
  ASSUME Reliable
  PROVE  Spec /\ [][\A new \in Layouts : ~Reconfigure(new)]_vars => []WholeInv
<1>1. Init => WholeInv
  BY InitWhole
<1>2. /\ TypeInv /\ TypeInv' /\ WholeInv /\ [Next]_vars
      /\ [\A new \in Layouts : ~Reconfigure(new)]_vars
      => WholeInv'
  <2> SUFFICES ASSUME TypeInv, TypeInv', WholeInv, [Next]_vars,
                      [\A new \in Layouts : ~Reconfigure(new)]_vars
               PROVE  WholeInv'
    OBVIOUS
  <2>1. CASE UNCHANGED vars
    BY <2>1, StillWhole
  <2>2. CASE ~UNCHANGED vars
    BY <2>2, NextKeepsWhole
  <2> QED BY <2>1, <2>2
<1> QED BY <1>1, <1>2, TypeInvariance, PTL DEF Spec

-----------------------------------------------------------------------------
(* What merges.                                                            *)

(* Only the report of a success changes the branch.                        *)
LEMMA OnlyMerging ==
  ASSUME Reliable, TypeInv, WholeInv, Next, \A new \in Layouts : ~Reconfigure(new)
  PROVE  trunk' = trunk \/ \E r \in Item : Processing(r) /\ LeavesMerged(r)
<1>1. Steadily
  BY WholeIsSteady
<1>2. ASSUME NEW r \in Item, DropItem(r) \/ PrepareRef(r) \/ LaunchItem(r) \/ WaitItem(r)
      PROVE  trunk' = trunk \/ (Processing(r) /\ LeavesMerged(r))
  <2>1. Processing(r)
    BY <1>2 DEF DropItem, PrepareRef, LaunchItem, WaitItem
  <2>2. \/ StaysCanceled(r) \/ StaysMoved(r) \/ StaysAligned(r)
        \/ LeavesFailed(r) \/ LeavesMerged(r)
    BY <1>1, <1>2, ProcessingOutcomes
  <2> QED BY <2>1, <2>2 DEF StaysCanceled, StaysMoved, StaysAligned, LeavesFailed, Unreported
<1>3. CASE WakeUp \/ EndResults \/ StartPass \/ EndPass \/ HandleResult \/ HandleTrigger
  BY <1>3 DEF WakeUp, EndResults, StartPass, EndPass, HandleResult, HandleTrigger, gerrit
<1>4. ASSUME NEW i \in Item, NEW j \in Job, NEW r, BuildCompleted(i, j, r) PROVE trunk' = trunk
  BY <1>4 DEF BuildCompleted, gerrit
<1>5. ASSUME NEW m, NEW r, MergeCompleted(m, r) PROVE trunk' = trunk
  BY <1>5 DEF MergeCompleted, gerrit
<1>6. ASSUME NEW c, Approve(c) \/ Withdraw(c) \/ GoAway(c) \/ NoticeMerge(c) PROVE trunk' = trunk
  BY <1>6 DEF Approve, Withdraw, GoAway, NoticeMerge, GerritEvent
<1>7. ASSUME NEW i, Promote(i) PROVE trunk' = trunk
  BY <1>7 DEF Promote, Managing, gerrit
<1> QED BY <1>2, <1>3, <1>4, <1>5, <1>6, <1>7 DEF Next, SchedulerStep

(* What was added to the branch is told from its end.                      *)
LEMMA AppendedOnce ==
  ASSUME NEW c \in Change, NEW d, trunk \in Seq(Change), Append(trunk, d) \in {trunk, Append(trunk, c)}
  PROVE  d = c /\ Append(trunk, d) # trunk
<1>1. trunk \in Seq(Change \cup {d})
  OBVIOUS
<1>2. Len(trunk) \in Nat /\ Len(Append(trunk, d)) = Len(trunk) + 1
  BY <1>1
<1>3. Append(trunk, d) # trunk
  BY <1>2
<1>4. Append(trunk, d)[Len(trunk) + 1] = d /\ Append(trunk, c)[Len(trunk) + 1] = c
  BY <1>1, <1>2
<1> QED BY <1>3, <1>4

(* A change that merges was tested on the branch as it is then, after all  *)
(* it needs.                                                               *)
LEMMA MergesRight ==
  ASSUME Reliable, TypeInv, WholeInv, [Next]_vars,
         [\A new \in Layouts : ~Reconfigure(new)]_vars, NEW c \in Change, trunk' = Append(trunk, c)
  PROVE  \E r \in Item :
           /\ item[r] = c /\ r \in Queued(q) /\ Processing(r) /\ LeavesMerged(r)
           /\ bs[r].commit = Merged \cup {c} /\ AllJobsSucceeded(c, bs[r])
           /\ Needs[c] \subseteq Merged /\ c \notin Merged
<1>1. Steadily /\ OrderInv /\ WorthInv /\ TrunkInv /\ trunk \in Seq(Change)
  BY WholeIsSteady DEF WholeInv, TypeInv, ServicesTyped
<1>2. trunk' # trunk
  BY <1>1, AppendedOnce
<1>3. Next /\ \A new \in Layouts : ~Reconfigure(new)
  BY <1>2 DEF vars, gerrit
<1>4. PICK r \in Item : Processing(r) /\ LeavesMerged(r)
  BY <1>2, <1>3, OnlyMerging
<1>5. trunk' = Append(trunk, item[r]) /\ item[r] \in Change \ Merged /\ r \in Queued(q)
  BY <1>1, <1>4, SteadyFacts DEF LeavesMerged, Merges
<1>6. item[r] = c
  BY <1>1, <1>5, AppendedOnce
<1>7. /\ bs[r].commit = Merged \cup {item[r]} /\ Needs[item[r]] \subseteq Merged
      /\ AllJobsSucceeded(item[r], bs[r])
  BY <1>1, <1>4, MergedAsTested DEF LeavesMerged
<1> QED BY <1>4, <1>5, <1>6, <1>7

(* Every change is tested exactly as it is going to be merged: when it     *)
(* merges, the commit its jobs ran on held what the branch then holds and  *)
(* the change, and all voting jobs succeeded on it, whatever failed, was   *)
(* retried, moved, removed or promoted before.                             *)
THEOREM MergedAsItWasTested ==
  ASSUME Reliable
  PROVE  Spec /\ [][\A new \in Layouts : ~Reconfigure(new)]_vars => TestedAsMerged
<1>1. /\ TypeInv /\ WholeInv /\ [Next]_vars /\ [\A new \in Layouts : ~Reconfigure(new)]_vars
      => [\A i \in Queued(q) :
            trunk' = Append(trunk, item[i]) =>
              /\ bs[i].commit = Merged \cup {item[i]}
              /\ AllJobsSucceeded(item[i], bs[i])]_vars
  <2> SUFFICES ASSUME TypeInv, WholeInv, [Next]_vars,
                      [\A new \in Layouts : ~Reconfigure(new)]_vars,
                      NEW i \in Queued(q), trunk' = Append(trunk, item[i])
               PROVE  bs[i].commit = Merged \cup {item[i]} /\ AllJobsSucceeded(item[i], bs[i])
    OBVIOUS
  <2>1. QueuedOnce /\ item[i] \in Change
    BY LayoutAssumption, WholeIsSteady DEF TrunkInv, QueueInv
  <2>2. PICK r \in Item : /\ item[r] = item[i] /\ r \in Queued(q)
                         /\ bs[r].commit = Merged \cup {item[i]} /\ AllJobsSucceeded(item[i], bs[r])
    BY <2>1, MergesRight
  <2>3. r = i
    BY <2>1, <2>2 DEF QueuedOnce
  <2> QED BY <2>2, <2>3
<1> QED BY <1>1, WholeInvariance, TypeInvariance, PTL DEF Spec, TestedAsMerged

(* No change merges before a change it needs, whatever fails, goes away or *)
(* is promoted.                                                            *)
THEOREM NeedsMergeFirst ==
  ASSUME Reliable
  PROVE  Spec /\ [][\A new \in Layouts : ~Reconfigure(new)]_vars => DependenciesFirst
<1>1. /\ TypeInv /\ WholeInv /\ [Next]_vars /\ [\A new \in Layouts : ~Reconfigure(new)]_vars
      => [\A c \in Change : trunk' = Append(trunk, c) => Needs[c] \subseteq Merged]_vars
  <2> SUFFICES ASSUME TypeInv, WholeInv, [Next]_vars,
                      [\A new \in Layouts : ~Reconfigure(new)]_vars,
                      NEW c \in Change, trunk' = Append(trunk, c)
               PROVE  Needs[c] \subseteq Merged
    OBVIOUS
  <2> QED BY MergesRight
<1> QED BY <1>1, WholeInvariance, TypeInvariance, PTL DEF Spec, DependenciesFirst

-----------------------------------------------------------------------------
(* What starts.                                                            *)

Starts(i, j) == bs[i].builds[j] # "running" /\ bs'[i].builds[j] = "running"

(* A reset starts no job.                                                  *)
LEMMA ResetStartsNothing ==
  ASSUME NEW i, NEW j \in Job, Resets(bs[i], bs'[i])
  PROVE  ~Starts(i, j)
BY DEF Starts, Resets, Anew, Unstarted, Cancels

(* _processOneItem starts jobs of the item in its place only.              *)
LEMMA ProcessingStarts ==
  ASSUME Steadily, NEW r \in Item, NEW i \in Item, NEW j \in Job, Starts(i, j),
         DropItem(r) \/ PrepareRef(r) \/ LaunchItem(r) \/ WaitItem(r)
  PROVE  /\ i = r /\ Processing(i) /\ StaysAligned(i)
         /\ bs[i].merge = "COMPLETE" /\ ~bs[i].unable /\ IsActionable(q, window, i)
<1>1. Processing(r)
  BY DEF DropItem, PrepareRef, LaunchItem, WaitItem
<1>2. bs[i].gen \in Nat /\ bs[r].gen \in Nat
  BY <1>1, SteadyFacts DEF BuildSets
<1>3. ~StaysCanceled(r)
  BY DEF StaysCanceled, Halts, Starts
<1>4. ~StaysMoved(r)
  BY DEF StaysMoved, Asks, Anew, Unstarted, Starts
<1>5. ASSUME LeavesFailed(r) \/ LeavesMerged(r) PROVE FALSE
  <2>1. /\ StartsNothing(r)
        /\ (\A k \in Item \ {r} : bs'[k] = bs[k]) \/ ResetsBehind(r, q, bs)
    BY <1>5 DEF LeavesFailed, LeavesMerged
  <2>2. i # r => bs'[i] = bs[i] \/ Resets(bs[i], bs'[i])
    BY <2>1 DEF ResetsBehind
  <2>3. i # r
    BY <2>1 DEF StartsNothing, TamerSet, Starts
  <2> QED BY <2>2, <2>3, ResetStartsNothing DEF Starts
<1>6. StaysAligned(r)
  BY <1>3, <1>4, <1>5, ProcessingOutcomes
<1>7. i = r
  BY <1>6 DEF StaysAligned, Starts
<1> QED BY <1>1, <1>6, <1>7 DEF StaysAligned, Asks, Unstarted, Starts

(* Nothing else starts any.                                                *)
LEMMA OnlyStarting ==
  ASSUME Reliable, TypeInv, WholeInv, Next, \A new \in Layouts : ~Reconfigure(new),
         NEW i \in Item, NEW j \in Job, Starts(i, j)
  PROVE  /\ Processing(i) /\ StaysAligned(i)
         /\ bs[i].merge = "COMPLETE" /\ ~bs[i].unable /\ IsActionable(q, window, i)
<1>1. Steadily /\ QueueInv /\ GateInv /\ bs \in [Item -> BuildSets] /\ TreeInv /\ MergesInv
  BY WholeIsSteady DEF WholeInv, OwnInv, TypeInv, SetsTyped
<1>2. ASSUME NEW r \in Item, DropItem(r) \/ PrepareRef(r) \/ LaunchItem(r) \/ WaitItem(r)
      PROVE  /\ Processing(i) /\ StaysAligned(i)
             /\ bs[i].merge = "COMPLETE" /\ ~bs[i].unable /\ IsActionable(q, window, i)
  BY <1>1, <1>2, ProcessingStarts
<1>3. ~(WakeUp \/ EndResults \/ StartPass \/ EndPass)
  BY DEF WakeUp, EndResults, StartPass, EndPass, scheduled, Starts
<1>4. ASSUME HandleResult PROVE FALSE
  <2>1. PICK e : e = Head(results)
    OBVIOUS
  <2>2. bs' = bs \/ HearsBuild(e) \/ HearsMerge(e)
    BY <1>1, <1>4, <2>1, ResultOutcomes
  <2>3. ~HearsBuild(e)
    BY DEF HearsBuild, Starts
  <2>4. ~HearsMerge(e)
    BY DEF HearsMerge, Starts
  <2> QED BY <2>2, <2>3, <2>4 DEF Starts
<1>5. ASSUME HandleTrigger PROVE FALSE
  <2>1. bs' = bs \/ \E r \in Item : Removes(r)
    BY <1>1, <1>5, TriggerOutcomes
  <2>2. bs'[i] = bs[i] \/ Resets(bs[i], bs'[i])
    BY <2>1 DEF Removes
  <2> QED BY <2>2, ResetStartsNothing DEF Starts
<1>6. ASSUME NEW k \in Item, NEW l \in Job, NEW r \in {"SUCCESS", "FAILURE", "retry"},
             BuildCompleted(k, l, r)
      PROVE  FALSE
  <2>1. BuildEnds(k, l, r)
    BY <1>6, BuildEnding DEF TypeInv
  <2> QED BY <2>1 DEF BuildEnds, Starts
<1>7. ASSUME NEW m, NEW r, MergeCompleted(m, r) PROVE FALSE
  BY <1>7 DEF MergeCompleted, scheduled, Starts
<1>8. ASSUME NEW c, Approve(c) \/ Withdraw(c) \/ GoAway(c) \/ NoticeMerge(c) PROVE FALSE
  BY <1>8 DEF Approve, Withdraw, GoAway, NoticeMerge, GerritEvent, scheduled, Starts
<1>9. ASSUME NEW k \in Item, Promote(k) PROVE FALSE
  <2>1. bs'[i] = bs[i] \/ Resets(bs[i], bs'[i])
    BY <1>1, <1>9, PromoteOutcome DEF Restarts
  <2> QED BY <2>1, ResetStartsNothing DEF Starts
<1> QED BY <1>2, <1>3, <1>4, <1>5, <1>6, <1>7, <1>8, <1>9 DEF Next, SchedulerStep

(* An item whose merge was answered is tested on what is ahead of it.      *)
LEMMA PreparedOnWhatIsAhead ==
  ASSUME Reliable, TypeInv, WholeInv, NEW i \in Item, Processing(i), StaysAligned(i),
         bs[i].merge = "COMPLETE", ~bs[i].unable
  PROVE  bs[i].commit \cup Merged = Merged \cup ToSet(ChangesAhead(q', i)) \cup {item[i]}
<1>1. /\ Steadily /\ OrderInv /\ WorthInv /\ QueueInv /\ SetOk(i) /\ i \in Queued(q)
  BY WholeIsSteady, SteadyFacts DEF WholeInv
<1>2. ~Off(i) /\ ~Torn(i) /\ q' = q
  BY <1>1, PlacedIsSound DEF StaysAligned
<1>3. Based(i)
  BY <1>1, <1>2 DEF SetOk, WorthInv, Worthy, Sound
<1>4. ToSet(ChangesAhead(q, i)) = {item[a] : a \in Up(q, i)}
  <2>1. PICK chain : chain = ItemsAhead(q, i)
    OBVIOUS
  <2>2. /\ Up(q, i) = {chain[n] : n \in DOMAIN chain}
        /\ ChangesAhead(q, i) = [n \in DOMAIN chain |-> item[chain[n]]]
    BY <2>1 DEF Up, ToSet, ChangesAhead
  <2> QED BY <2>2 DEF ToSet
<1>5. /\ Content(i) \subseteq bs[i].commit /\ bs[i].commit \subseteq Merged \cup Content(i)
  BY <1>1 DEF SetOk
<1>6. PICK S : S = ToSet(ChangesAhead(q, i))
  OBVIOUS
<1>7. S \subseteq ToSet(bs[i].other) /\ ToSet(bs[i].other) \subseteq Merged \cup S
  BY <1>3, <1>4, <1>6 DEF Based
<1>8. bs[i].commit \cup Merged = Merged \cup S \cup {item[i]}
  BY <1>5, <1>7 DEF Content
<1> QED BY <1>2, <1>6, <1>8

(* A job starts only on a merged commit and inside the window, and the     *)
(* changes that it is told of are those of the commit, up to what merged   *)
(* between the preparation and the launch.                                 *)
THEOREM JobsRunOnWhatWasPrepared ==
  ASSUME Reliable
  PROVE  Spec /\ [][\A new \in Layouts : ~Reconfigure(new)]_vars => LaunchedAsPrepared
<1>1. /\ TypeInv /\ WholeInv /\ [Next]_vars /\ [\A new \in Layouts : ~Reconfigure(new)]_vars
      => [\A i \in Item, j \in Job :
            bs[i].builds[j] # "running" /\ bs'[i].builds[j] = "running" =>
              /\ IsActionable(q, window, i)
              /\ bs[i].commit \cup Merged =
                   Merged \cup ToSet(ChangesAhead(q', i)) \cup {item[i]}]_vars
  <2> SUFFICES ASSUME TypeInv, WholeInv, [Next]_vars,
                      [\A new \in Layouts : ~Reconfigure(new)]_vars,
                      NEW i \in Item, NEW j \in Job,
                      bs[i].builds[j] # "running", bs'[i].builds[j] = "running"
               PROVE  /\ IsActionable(q, window, i)
                      /\ bs[i].commit \cup Merged =
                           Merged \cup ToSet(ChangesAhead(q', i)) \cup {item[i]}
    OBVIOUS
  <2>1. Starts(i, j)
    BY DEF Starts
  <2>2. Next /\ \A new \in Layouts : ~Reconfigure(new)
    BY DEF vars, scheduled
  <2>3. /\ Processing(i) /\ StaysAligned(i)
        /\ bs[i].merge = "COMPLETE" /\ ~bs[i].unable /\ IsActionable(q, window, i)
    BY <2>1, <2>2, OnlyStarting
  <2> QED BY <2>3, PreparedOnWhatIsAhead
<1> QED BY <1>1, WholeInvariance, TypeInvariance, PTL DEF Spec, LaunchedAsPrepared

-----------------------------------------------------------------------------
(* The gate implements the ideal one.                                      *)

(* A verdict of k is one it had before.                                    *)
Reaffirms(k) ==
  \/ /\ k \in Queued(q) /\ item'[k] = item[k] /\ bs'[k].commit = bs[k].commit
     /\ \A j \in Job : bs'[k].builds[j] = "SUCCESS" => bs[k].builds[j] = "SUCCESS"
  \/ \A j \in Job : bs'[k].builds[j] # "SUCCESS"
NothingNew == layout' = layout /\ \A k \in Queued(q') : Reaffirms(k)

(* Where there is nothing new, no change passes that had not before.       *)
LEMMA Unconvinced ==
  ASSUME Reliable, layout \in Layouts, layout' = layout, TrunkInv', NothingNew
  PROVE  Passed' \subseteq Passed
<1> SUFFICES ASSUME NEW k \in Queued(q'), bs'[k].commit # {}, AllJobsSucceeded(item[k], bs[k])'
             PROVE  [base |-> bs'[k].commit \ {item'[k]}, change |-> item'[k]] \in Passed
  BY DEF Passed
<1>1. item'[k] \in Gated /\ item'[k] \in Change
  BY LayoutAssumption DEF TrunkInv
<1>2. PICK j \in layout.jobs[item'[k]] : j \in layout.voting
  BY <1>1 DEF Reliable
<1>3. layout.jobs[item'[k]] \subseteq Job
  BY <1>1, LayoutAssumption
<1>4. bs'[k].builds[j] = "SUCCESS" /\ j \in Job
  BY <1>2, <1>3 DEF AllJobsSucceeded, Jobs
<1>5. /\ k \in Queued(q) /\ item'[k] = item[k] /\ bs'[k].commit = bs[k].commit
      /\ \A l \in Job : bs'[k].builds[l] = "SUCCESS" => bs[k].builds[l] = "SUCCESS"
  BY <1>4 DEF NothingNew, Reaffirms
<1>6. AllJobsSucceeded(item[k], bs[k])
  BY <1>3, <1>5 DEF AllJobsSucceeded, Jobs
<1> QED BY <1>5, <1>6 DEF Passed

(* A reset or a cancelation is nothing new,                                *)
LEMMA ResetSaysNothing ==
  ASSUME NEW k, Resets(bs[k], bs'[k]) \/ Halts(bs[k], bs'[k]) \/ Unstarted(bs'[k])
  PROVE  Reaffirms(k)
BY DEF Reaffirms, Resets, Anew, Unstarted, Cancels, Halts

(* and neither is what stays the same.                                     *)
LEMMA SameSaysNothingNew ==
  ASSUME NEW k, k \in Queued(q), item'[k] = item[k], bs'[k] = bs[k]
  PROVE  Reaffirms(k)
BY DEF Reaffirms

(* The processing of an item brings no verdict.                            *)
LEMMA ProcessingSaysNothing ==
  ASSUME Steadily, NEW r \in Item,
         DropItem(r) \/ PrepareRef(r) \/ LaunchItem(r) \/ WaitItem(r)
  PROVE  NothingNew
<1>1. Processing(r)
  BY DEF DropItem, PrepareRef, LaunchItem, WaitItem
<1>2. QueueInv /\ q \in Queues /\ WellLinked(q) /\ r \in Queued(q) /\ Queued(q) \subseteq Item
  BY <1>1, SteadyFacts DEF QueueInv, Queued, Queues
<1>3. layout' = layout /\ item' = item
  BY ProcessingLeaves
<1> SUFFICES ASSUME NEW k \in Queued(q') PROVE Reaffirms(k)
  BY <1>3 DEF NothingNew
<1>4. CASE StaysCanceled(r)
  <2>1. k \in Queued(q) /\ k \in Item
    BY <1>2, <1>4 DEF StaysCanceled
  <2>2. Halts(bs[k], bs'[k]) \/ bs'[k] = bs[k]
    BY <1>4, <2>1 DEF StaysCanceled
  <2> QED BY <1>3, <2>1, <2>2, ResetSaysNothing, SameSaysNothingNew
<1>5. CASE StaysMoved(r)
  <2>1. Queued(q') = Queued(q)
    <3>1. /\ pass.nnfi \in Item \cup {NoItem}
          /\ pass.nnfi = NoItem \/ Precedes(q, pass.nnfi, r)
      BY <1>1, <1>2, ItemProcessed
    <3>2. PICK n \in Item \cup {NoItem} : n = pass.nnfi
      BY <3>1
    <3>3. q' = MoveItem(q, r, n) /\ q.ahead[r] # n /\ (n = NoItem \/ Precedes(q, n, r))
      BY <1>5, <3>1, <3>2 DEF StaysMoved
    <3>4. LET y == MoveItem(q, r, n) IN Queued(y) = Queued(q)
      BY <1>2, <3>3, MovedUp
    <3> QED BY <3>3, <3>4
  <2>2. k \in Queued(q) /\ k \in Item
    BY <1>2, <2>1
  <2>3. k # r => bs'[k] = bs[k]
    BY <1>5, <2>2 DEF StaysMoved
  <2>4. Unstarted(bs'[r])
    BY <1>5 DEF StaysMoved, Asks, Anew
  <2> QED BY <1>3, <2>2, <2>3, <2>4, ResetSaysNothing, SameSaysNothingNew
<1>6. CASE StaysAligned(r)
  <2>1. k \in Queued(q) /\ k \in Item
    BY <1>2, <1>6 DEF StaysAligned
  <2>2. k # r => bs'[k] = bs[k]
    BY <1>6, <2>1 DEF StaysAligned
  <2>3. Reaffirms(r)
    BY <1>2, <1>3, <1>6 DEF StaysAligned, Asks, Unstarted, SameRequest, Reaffirms
  <2> QED BY <1>3, <2>1, <2>2, <2>3, SameSaysNothingNew
<1>7. CASE LeavesFailed(r) \/ LeavesMerged(r)
  <2>1. /\ q' = DequeueItem(q, r)
        /\ (\A i \in Item \ {r} : bs'[i] = bs[i]) \/ ResetsBehind(r, q, bs)
    BY <1>7 DEF LeavesFailed, LeavesMerged
  <2>2. Queued(q') = Queued(q) \ {r}
    BY <1>2, <2>1, DequeuedUp
  <2>3. k \in Queued(q) /\ k \in Item \ {r}
    BY <1>2, <2>2
  <2>4. bs'[k] = bs[k] \/ Resets(bs[k], bs'[k])
    BY <2>1, <2>3 DEF ResetsBehind
  <2> QED BY <1>3, <2>3, <2>4, ResetSaysNothing, SameSaysNothingNew
<1> QED BY <1>4, <1>5, <1>6, <1>7, ProcessingOutcomes

(* Only the end of a build brings a verdict.                               *)
LEMMA OnlyBuildsSay ==
  ASSUME Reliable, TypeInv, TypeInv', WholeInv, Next, \A new \in Layouts : ~Reconfigure(new),
         \A i \in Item, j \in Job, r \in {"SUCCESS", "FAILURE", "retry"} : ~BuildCompleted(i, j, r)
  PROVE  NothingNew
<1>1. /\ Steadily /\ QueueInv /\ GateInv /\ bs \in [Item -> BuildSets] /\ TreeInv /\ MergesInv
      /\ SetsInv /\ \A k \in Queued(q) : item[k] # Idle
      /\ Queued(q) \subseteq Item /\ Queued(q') \subseteq Item
  BY WholeIsSteady DEF WholeInv, OwnInv, TypeInv, SetsTyped, GateInv, QueueInv, Queued, Queues
<1>2. ASSUME NEW r \in Item, DropItem(r) \/ PrepareRef(r) \/ LaunchItem(r) \/ WaitItem(r)
      PROVE  NothingNew
  BY <1>1, <1>2, ProcessingSaysNothing
<1>3. ASSUME q' = q, item' = item, bs' = bs, layout' = layout PROVE NothingNew
  BY <1>3, SameSaysNothingNew DEF NothingNew
<1>4. CASE WakeUp \/ EndResults \/ StartPass \/ EndPass
  BY <1>3, <1>4 DEF WakeUp, EndResults, StartPass, EndPass, scheduled
<1>5. CASE HandleResult
  <2>1. PICK e : e = Head(results)
    OBVIOUS
  <2>2. /\ bs' = bs \/ HearsBuild(e) \/ HearsMerge(e)
        /\ e.item \in Item
    BY <1>1, <1>5, <2>1, ResultOutcomes
  <2>3. q' = q /\ item' = item /\ layout' = layout
    BY <1>5 DEF HandleResult
  <2>4. ASSUME NEW k \in Queued(q), HearsBuild(e) PROVE Reaffirms(k)
    <3>1. k # e.item => bs'[k] = bs[k]
      BY <1>1, <2>4 DEF HearsBuild
    <3>2. k = e.item => /\ bs'[k].commit = bs[k].commit
                        /\ \A j \in Job : bs'[k].builds[j] = "SUCCESS" => bs[k].builds[j] = "SUCCESS"
      BY <2>4 DEF HearsBuild, SameRequest
    <3> QED BY <2>3, <3>1, <3>2 DEF Reaffirms
  <2>5. ASSUME NEW k \in Queued(q), HearsMerge(e) PROVE Reaffirms(k)
    <3>1. CASE k # e.item
      <4>1. bs'[k] = bs[k]
        BY <1>1, <2>5, <3>1 DEF HearsMerge
      <4> QED BY <2>3, <4>1, SameSaysNothingNew
    <3>2. CASE k = e.item
      <4>1. Unstarted(bs[k])
        BY <1>1, <2>5, <3>2 DEF HearsMerge, SetsInv, Open, SetOk
      <4>2. \A j \in Job : bs'[k].builds[j] \in {bs[k].builds[j], "SKIPPED"}
        BY <2>5, <3>2 DEF HearsMerge
      <4> QED BY <4>1, <4>2 DEF Unstarted, Reaffirms
    <3> QED BY <3>1, <3>2
  <2> QED BY <1>3, <2>2, <2>3, <2>4, <2>5 DEF NothingNew
<1>6. ASSUME NEW x, Adds(x), NEW k \in Queued(q') \ Queued(x), k \in Item
      PROVE  Unstarted(bs[k]) /\ k \notin Queued(q)
  <2>1. item[k] = Idle
    BY <1>6 DEF Adds
  <2>2. SetOk(k) /\ k \notin Queued(q) /\ ~bs[k].ref
    BY <1>1, <1>6, <2>1, NewIsOpen DEF SetsInv, Open
  <2> QED BY <2>2 DEF SetOk
<1>7. CASE HandleTrigger
  <2>1. layout' = layout
    BY <1>7 DEF HandleTrigger
  <2>2. CASE Adds(q) /\ bs' = bs
    <3> SUFFICES ASSUME NEW k \in Queued(q') PROVE Reaffirms(k)
      BY <2>1 DEF NothingNew
    <3>1. k \in Item
      BY <1>1
    <3>2. CASE k \in Queued(q)
      <4>1. item'[k] = item[k]
        BY <1>1, <2>2, <3>1, <3>2 DEF Adds
      <4> QED BY <2>2, <3>2, <4>1, SameSaysNothingNew
    <3>3. CASE k \notin Queued(q)
      <4>1. Unstarted(bs'[k])
        BY <1>6, <2>2, <3>1, <3>3
      <4> QED BY <4>1, ResetSaysNothing
    <3> QED BY <3>2, <3>3
  <2>3. CASE q' = q /\ item' = item /\ bs' = bs
    BY <1>3, <2>1, <2>3
  <2>4. ASSUME NEW r \in Item, Removes(r) PROVE NothingNew
    <3>1. Queued(q') = Queued(q) \ {r}
      BY <1>1, <2>4, DequeuedUp DEF Removes, QueueInv
    <3> SUFFICES ASSUME NEW k \in Queued(q') PROVE Reaffirms(k)
      BY <2>1 DEF NothingNew
    <3>2. k \in Queued(q) /\ k \in Item
      BY <1>1, <3>1
    <3>3. item'[k] = item[k] /\ (bs'[k] = bs[k] \/ Resets(bs[k], bs'[k]))
      BY <2>4, <3>2 DEF Removes
    <3> QED BY <3>2, <3>3, ResetSaysNothing, SameSaysNothingNew
  <2> QED BY <1>1, <1>7, <2>2, <2>3, <2>4, TriggerOutcomes
<1>8. ASSUME NEW m, NEW r, MergeCompleted(m, r) PROVE NothingNew
  BY <1>3, <1>8 DEF MergeCompleted, scheduled
<1>9. ASSUME NEW c, Approve(c) \/ Withdraw(c) \/ GoAway(c) \/ NoticeMerge(c) PROVE NothingNew
  BY <1>3, <1>9 DEF Approve, Withdraw, GoAway, NoticeMerge, GerritEvent, scheduled
<1>10. ASSUME NEW i \in Item, Promote(i) PROVE NothingNew
  <2>1. PICK x : x = EmptyQueue
    OBVIOUS
  <2>2. /\ Adds(x) /\ Queued(x) = {}
        /\ \A k \in Item : IF k \in Queued(q) THEN Resets(bs[k], bs'[k]) ELSE bs'[k] = bs[k]
    BY <1>1, <1>10, <2>1, PromoteOutcome, EmptyQueueIsWellLinked DEF Restarts
  <2>3. layout' = layout
    BY <1>10 DEF Promote
  <2> SUFFICES ASSUME NEW k \in Queued(q') PROVE Reaffirms(k)
    BY <2>3 DEF NothingNew
  <2>4. k \in Item
    BY <1>1
  <2>5. Unstarted(bs'[k])
    BY <1>6, <2>2, <2>4
  <2> QED BY <2>5, ResetSaysNothing
<1> QED BY <1>2, <1>4, <1>5, <1>7, <1>8, <1>9, <1>10 DEF Next, SchedulerStep

-----------------------------------------------------------------------------
(* The verdicts, and every step as one of the ideal gate.                  *)

(* The verdict of item k, if it has one.                                   *)
Convinced(k) == k \in Queued(q) /\ bs[k].commit # {} /\ AllJobsSucceeded(item[k], bs[k])
Verdict(k) == [base |-> bs[k].commit \ {item[k]}, change |-> item[k]]

(* The verdicts there are.                                                 *)
LEMMA PassedVerdicts ==
  /\ \A x : x \in Passed <=> \E k : Convinced(k) /\ x = Verdict(k)
BY DEF Passed, Convinced, Verdict

(* The empty gate is the ideal one.                                        *)
LEMMA InitIdeal == Init => Ideal!Init
<1> SUFFICES ASSUME Init PROVE trunk = <<>> /\ Passed = {}
  BY DEF Ideal!Init
<1>1. Queued(q) = {}
  BY EmptyQueueIsWellLinked DEF Init
<1> QED BY <1>1 DEF Init, Passed

(* The last build of an item to succeed passes its change; any other       *)
(* verdict is as it was, or forgotten.                                     *)
LEMMA BuildIsIdeal ==
  ASSUME TypeInv, WholeInv, NEW i \in Item, NEW j \in Job,
         NEW r \in {"SUCCESS", "FAILURE", "retry"}, BuildCompleted(i, j, r)
  PROVE  Ideal!Next
<1>1. BuildEnds(i, j, r)
  BY BuildEnding
<1>2. /\ trunk' = trunk /\ q' = q /\ item' = item /\ layout' = layout
      /\ \A k \in Item : bs'[k].commit = bs[k].commit
      /\ \A k \in Item \ {i} : bs'[k] = bs[k]
  BY <1>1 DEF BuildEnds, SameRequest
<1>3. Queued(q) \subseteq Item /\ \A k \in Queued(q) : item[k] \in Change
  BY LayoutAssumption DEF WholeInv, OrderInv, TrunkInv, TypeInv, GateInv, QueueInv, Queues, Queued
<1>4. \A k \in Item : Verdict(k)' = Verdict(k)
  BY <1>2 DEF Verdict
<1>5. \A k \in Item \ {i} : Convinced(k)' <=> Convinced(k)
  BY <1>2 DEF Convinced, AllJobsSucceeded, Jobs
<1>6. CASE Convinced(i)' /\ ~Convinced(i)
  <2>1. PICK base, c : base = bs[i].commit \ {item[i]} /\ c = item[i]
    OBVIOUS
  <2>2. base \in SUBSET Change /\ c \in Change
    BY <1>2, <1>3, <1>6, <2>1 DEF Convinced, TypeInv, SetsTyped, BuildSets
  <2>3. Verdict(i) = [base |-> base, change |-> c]
    BY <2>1 DEF Verdict
  <2>4. \A x : x \in Passed' <=> \E k : Convinced(k)' /\ x = Verdict(k)'
    BY DEF Passed, Convinced, Verdict
  <2>5. \A k : Convinced(k)' => k \in Item
    BY <1>2, <1>3 DEF Convinced
  <2>6. \A k : Convinced(k) => k \in Item
    BY <1>3 DEF Convinced
  <2>7. \A x : x \in Passed' <=> x \in Passed \/ x = Verdict(i)
    BY <1>4, <1>5, <1>6, <2>4, <2>5, <2>6, PassedVerdicts
  <2>8. Passed' = Passed \cup {[base |-> base, change |-> c]}
    BY <2>3, <2>7
  <2>9. Ideal!Pass(base, c)
    BY <1>2, <2>8 DEF Ideal!Pass
  <2> QED BY <2>2, <2>9 DEF Ideal!Next
<1>7. CASE Convinced(i)' => Convinced(i)
  <2>1. \A x : x \in Passed' <=> \E k : Convinced(k)' /\ x = Verdict(k)'
    BY DEF Passed, Convinced, Verdict
  <2>2. \A k : Convinced(k)' => k \in Item
    BY <1>2, <1>3 DEF Convinced
  <2>3. Passed' \subseteq Passed
    BY <1>4, <1>5, <1>7, <2>1, <2>2, PassedVerdicts
  <2>4. Ideal!Forget
    BY <1>2, <2>3 DEF Ideal!Forget
  <2> QED BY <2>4 DEF Ideal!Next
<1> QED BY <1>6, <1>7

(* A change merges as the ideal gate merges it.                            *)
LEMMA MergeIsIdeal ==
  ASSUME Reliable, TypeInv, TypeInv', WholeInv, Next, \A new \in Layouts : ~Reconfigure(new),
         NEW r \in Item, Processing(r), LeavesMerged(r), Passed' \subseteq Passed
  PROVE  Ideal!Next
<1>1. Steadily /\ OrderInv /\ WorthInv /\ TrunkInv
  BY WholeIsSteady DEF WholeInv, OrderInv
<1>2. trunk' = Append(trunk, item[r]) /\ item[r] \in Change \ Merged /\ r \in Queued(q)
  BY <1>1, SteadyFacts DEF LeavesMerged, Merges
<1>3. /\ bs[r].commit = Merged \cup {item[r]} /\ Needs[item[r]] \subseteq Merged
      /\ AllJobsSucceeded(item[r], bs[r])
  BY <1>1, MergedAsTested DEF LeavesMerged
<1>4. PICK base, c : base = bs[r].commit \ {item[r]} /\ c = item[r]
  OBVIOUS
<1>5. base = ToSet(trunk)
  BY <1>2, <1>3, <1>4 DEF Merged
<1>6. [base |-> base, change |-> c] \in Passed
  BY <1>2, <1>3, <1>4 DEF Passed
<1>7. [base |-> ToSet(trunk), change |-> c] \in Passed
  BY <1>5, <1>6
<1>8. /\ c \notin ToSet(trunk) /\ Needs[c] \subseteq ToSet(trunk)
      /\ trunk' = Append(trunk, c) /\ Passed' \in SUBSET Passed
  BY <1>2, <1>3, <1>4 DEF Merged
<1>9. Ideal!Merge(c)
  BY <1>7, <1>8 DEF Ideal!Merge, Ideal!ToSet, ToSet
<1> QED BY <1>2, <1>4, <1>9 DEF Ideal!Next

(* Every step is one of the ideal gate.                                    *)
LEMMA NextIsIdeal ==
  ASSUME Reliable, TypeInv, TypeInv', WholeInv, WholeInv', Next,
         \A new \in Layouts : ~Reconfigure(new)
  PROVE  Ideal!Next
<1>1. CASE \E i \in Item, j \in Job, r \in {"SUCCESS", "FAILURE", "retry"} : BuildCompleted(i, j, r)
  BY <1>1, BuildIsIdeal
<1>2. CASE \A i \in Item, j \in Job, r \in {"SUCCESS", "FAILURE", "retry"} : ~BuildCompleted(i, j, r)
  <2>1. NothingNew
    BY <1>2, OnlyBuildsSay
  <2>2. layout \in Layouts /\ TrunkInv'
    BY DEF TypeInv, ServicesTyped, GateInv, QueueInv, WholeInv, OrderInv
  <2>3. Passed' \subseteq Passed
    BY <2>1, <2>2, Unconvinced DEF NothingNew
  <2>4. CASE trunk' = trunk
    <3>1. Ideal!Forget
      BY <2>3, <2>4 DEF Ideal!Forget
    <3> QED BY <3>1 DEF Ideal!Next
  <2>5. CASE trunk' # trunk
    BY <2>3, <2>5, OnlyMerging, MergeIsIdeal
  <2> QED BY <2>4, <2>5
<1> QED BY <1>1, <1>2

(* For all the tests it runs ahead of time, the gate implements the ideal  *)
(* one, which tests one change at a time on the tip of the branch: the     *)
(* branch only ever grows by a change that passed its tests on exactly     *)
(* what the branch holds, after all it needs, and only once.               *)
THEOREM TheGateIsIdeal ==
  ASSUME Reliable
  PROVE  Spec /\ [][\A new \in Layouts : ~Reconfigure(new)]_vars => ImplementsIdeal
<1>1. Init => Ideal!Init
  BY InitIdeal
<1>2. /\ TypeInv /\ TypeInv' /\ WholeInv /\ WholeInv' /\ [Next]_vars
      /\ [\A new \in Layouts : ~Reconfigure(new)]_vars
      => [Ideal!Next]_(Ideal!vars)
  <2> SUFFICES ASSUME TypeInv, TypeInv', WholeInv, WholeInv', [Next]_vars,
                      [\A new \in Layouts : ~Reconfigure(new)]_vars
               PROVE  Ideal!Next \/ UNCHANGED <<trunk, Passed>>
    BY DEF Ideal!vars
  <2>1. CASE UNCHANGED vars
    BY <2>1 DEF vars, gerrit, scheduled, Passed, AllJobsSucceeded, Jobs
  <2>2. CASE ~UNCHANGED vars
    BY <2>2, NextIsIdeal
  <2> QED BY <2>1, <2>2
<1> QED BY <1>1, <1>2, WholeInvariance, TypeInvariance, PTL DEF Spec, ImplementsIdeal, Ideal!Spec

-----------------------------------------------------------------------------
(* What an item waits for.                                                 *)

(* The results of builds of the current build set of i that were not       *)
(* handled yet.                                                            *)
Verdicts(i) == {e \in ToSet(results) : e.kind = "build" /\ e.item = i /\ e.gen = bs[i].gen}

(* The merge of its current build set is with the mergers, or answered.    *)
Sent(i) ==
  \/ \E m \in merging : m.item = i /\ m.gen = bs[i].gen
  \/ \E e \in ToSet(results) : e.kind = "merge" /\ e.item = i /\ e.gen = bs[i].gen

(* What i waits for will come: an answer to its merge, and a result for a  *)
(* job that is to be retried or that has jobs below it yet to be skipped.  *)
(* Nothing above a job to be retried waits for its own retry.              *)
Owed(i) ==
  /\ bs[i].merge = "PENDING" => Sent(i)
  /\ \A j \in Job : bs[i].builds[j] = "retrying" =>
       \E e \in Verdicts(i) : e.job = j /\ e.result = "retry"
  /\ \A j \in Job, k \in Job :
       /\ j \in Jobs(item[i]) /\ k \in Above[j]
       /\ bs[i].builds[j] = "absent" /\ bs[i].builds[k] = "FAILURE"
       => \E e \in Verdicts(i) : e.job = k /\ e.result = "FAILURE"
  /\ \A e \in Verdicts(i) : e.result = "retry" =>
       /\ bs[i].builds[e.job] \in {"retrying", "CANCELED", "SKIPPED"}
       /\ \A k \in Above[e.job] :
            /\ bs[i].builds[k] \in {"SUCCESS", "CANCELED", "SKIPPED"}
            /\ \A f \in Verdicts(i) : f.job = k => f.result # "retry"
OwedInv == \A i \in Item : Open(i) => Owed(i)

(* A result in the queue wakes the scheduler, or is about to be handled.   *)
Answered == results # <<>> => wake \/ pass.phase = "results"

(* A build set of which nothing was started owes at most the answer to its *)
(* merge: no verdict is out on it.                                         *)
LEMMA NewOwes ==
  ASSUME TypeInv', VerdictsInv', NEW i \in Item, Unstarted(bs'[i]),
         bs'[i].merge = "PENDING" => Sent(i)'
  PROVE  Owed(i)'
<1>1. ASSUME NEW e \in Verdicts(i)' PROVE FALSE
  <2>1. e \in ToSet(results') /\ e.kind = "build" /\ e.item = i /\ e.gen = bs'[i].gen
    BY DEF Verdicts
  <2>2. e.job \in Job
    BY <2>1 DEF TypeInv, MutexInv, ResultsAreOld
  <2> QED BY <2>1, <2>2 DEF VerdictsInv, Unstarted
<1> QED BY <1>1 DEF Owed, Unstarted

(* The build set of an item that is processed: some of its jobs start, or  *)
(* what has begun is canceled.                                             *)
Proceeds(b, c) ==
  /\ c.gen = b.gen /\ c.merge = b.merge
  /\ \A j \in Job : \/ c.builds[j] = b.builds[j]
                    \/ c.builds[j] = "CANCELED" /\ b.builds[j] # "absent"
                    \/ c.builds[j] = "running" /\ b.builds[j] = "absent"

(* So it goes on to wait for what it waited for.                           *)
LEMMA ProceedsOwes ==
  ASSUME TypeInv, NEW i \in Item, Owed(i), Proceeds(bs[i], bs'[i]), results' = results,
         merging \subseteq merging', item'[i] = item[i], layout' = layout, VerdictsInv
  PROVE  Owed(i)'
<1>1. Verdicts(i)' = Verdicts(i)
  BY DEF Verdicts, Proceeds
<1>2. Sent(i) => Sent(i)'
  BY DEF Sent, Proceeds
<1>3. \A e \in Verdicts(i) : e.job \in Job /\ bs[i].builds[e.job] # "absent"
  BY DEF Verdicts, TypeInv, MutexInv, ResultsAreOld, VerdictsInv
<1>4. \A j \in Job : \A k \in Above[j] : k \in Job
  BY JobAssumption
<1>5. bs'[i].merge = "PENDING" => Sent(i)'
  BY <1>2 DEF Owed, Proceeds
<1>6. \A j \in Job : bs'[i].builds[j] = "retrying" =>
        \E e \in Verdicts(i) : e.job = j /\ e.result = "retry"
  BY DEF Owed, Proceeds
<1>7. \A j \in Job, k \in Job :
        /\ j \in Jobs(item[i]) /\ k \in Above[j]
        /\ bs'[i].builds[j] = "absent" /\ bs'[i].builds[k] = "FAILURE"
        => \E e \in Verdicts(i) : e.job = k /\ e.result = "FAILURE"
  BY DEF Owed, Proceeds
<1>8. ASSUME NEW e \in Verdicts(i), e.result = "retry"
      PROVE  /\ bs'[i].builds[e.job] \in {"retrying", "CANCELED", "SKIPPED"}
             /\ \A k \in Above[e.job] :
                  /\ bs'[i].builds[k] \in {"SUCCESS", "CANCELED", "SKIPPED"}
                  /\ \A f \in Verdicts(i) : f.job = k => f.result # "retry"
  BY <1>3, <1>4, <1>8 DEF Owed, Proceeds
<1> QED BY <1>1, <1>5, <1>6, <1>7, <1>8 DEF Owed, Jobs

(* An item that is spared, whether it was queued or not made yet.          *)
LEMMA SparedOwes ==
  ASSUME TypeInv, TypeInv', VerdictsInv, VerdictsInv', SetsInv, OwedInv, NEW i \in Item,
         StaysOpen(i), Spared(bs[i], bs'[i]), results' = results, merging \subseteq merging',
         layout' = layout
  PROVE  Open(i)' => Owed(i)'
<1> SUFFICES ASSUME Open(i)' PROVE Owed(i)'
  OBVIOUS
<1>1. Open(i) /\ SetOk(i) /\ Owed(i) /\ (i \in Queued(q) => item'[i] = item[i])
  BY DEF StaysOpen, SetsInv, OwedInv
<1>2. CASE bs[i].ref /\ Resets(bs[i], bs'[i])
  <2>1. Anew(bs'[i])
    BY <1>2 DEF Resets
  <2> QED BY <2>1, NewOwes DEF Anew
<1>3. CASE ~(bs[i].ref /\ Resets(bs[i], bs'[i]))
  <2>1. Proceeds(bs[i], bs'[i])
    BY <1>3 DEF Spared, Resets, Cancels, Halts, SameRequest, Proceeds
  <2>2. CASE i \in Queued(q)
    BY <1>1, <2>1, <2>2, ProceedsOwes
  <2>3. CASE i \notin Queued(q)
    <3>1. bs[i].merge = "NEW" /\ Unstarted(bs[i])
      BY <1>1, <2>3 DEF SetOk
    <3>2. bs'[i].merge = "NEW" /\ Unstarted(bs'[i])
      BY <1>3, <3>1 DEF Spared, Resets, Cancels, Halts, SameRequest, Unstarted
    <3> QED BY <3>2, NewOwes
  <2> QED BY <2>2, <2>3
<1> QED BY <1>2, <1>3

(* The merge that r asks for is sent.                                      *)
LEMMA AskedOwes ==
  ASSUME TypeInv', VerdictsInv', NEW r \in Item, Asks(r)
  PROVE  Owed(r)' /\ merging \subseteq merging' /\ merging' # {}
<1>1. PICK m : m = [item |-> r, gen |-> bs'[r].gen, kind |-> "merge",
                    content |-> ToSet(ChangesAhead(q', r)) \cup {item[r]}]
  OBVIOUS
<1>2. m \in merging' /\ m.item = r /\ m.gen = bs'[r].gen /\ merging \subseteq merging'
  BY <1>1 DEF Asks
<1>3. Sent(r)'
  BY <1>2 DEF Sent
<1>4. Unstarted(bs'[r])
  BY DEF Asks
<1> QED BY <1>2, <1>3, <1>4, NewOwes

(* The processing of an item leaves out nothing that an item waits for.    *)
LEMMA ProcessingOwes ==
  ASSUME Steadily, OwnInv, OwedInv, TypeInv', OwnInv', NEW r \in Item,
         DropItem(r) \/ PrepareRef(r) \/ LaunchItem(r) \/ WaitItem(r)
  PROVE  OwedInv'
<1>1. Processing(r)
  BY DEF DropItem, PrepareRef, LaunchItem, WaitItem
<1>2. /\ TypeInv /\ QueueInv /\ q \in Queues /\ WellLinked(q)
      /\ SetsInv /\ r \in Queued(q) /\ Owed(r) /\ VerdictsInv /\ VerdictsInv'
  BY <1>1, SteadyFacts DEF Steadily, OwedInv, Open, OwnInv
<1>3. item' = item /\ results' = results /\ layout' = layout
  BY ProcessingLeaves
<1>4. ASSUME merging \subseteq merging', NEW i \in Item, StaysOpen(i), Spared(bs[i], bs'[i])
      PROVE  Open(i)' => Owed(i)'
  BY <1>2, <1>3, <1>4, SparedOwes
<1>5. /\ pass.nnfi \in Item \cup {NoItem}
      /\ pass.nnfi = NoItem \/ Precedes(q, pass.nnfi, r)
  BY <1>1, <1>2, ItemProcessed
<1>6. Asks(r) => Owed(r)' /\ merging \subseteq merging'
  BY <1>2, AskedOwes
<1>7. CASE StaysCanceled(r)
  <2>1. q' = q /\ merging' = merging /\ \A i \in Item : Spared(bs[i], bs'[i])
    BY <1>7 DEF StaysCanceled, Spared
  <2>2. \A i \in Item : StaysOpen(i)
    BY <1>2, <1>3, <2>1, StillOpen
  <2> QED BY <1>4, <2>1, <2>2 DEF OwedInv
<1>8. CASE StaysMoved(r)
  <2>1. /\ q' = MoveItem(q, r, pass.nnfi) /\ q.ahead[r] # pass.nnfi
        /\ \A i \in Item \ {r} : bs'[i] = bs[i]
        /\ Asks(r) \/ (merging' = merging /\ Anew(bs'[r]))
    BY <1>8 DEF StaysMoved
  <2>2. Queued(q') = Queued(q)
    BY <1>2, <1>5, <2>1, MovedUp
  <2>3. \A i \in Item : StaysOpen(i)
    BY <1>2, <1>3, <2>2, StillOpen
  <2>4. merging \subseteq merging'
    BY <1>6, <2>1
  <2>5. \A i \in Item \ {r} : Open(i)' => Owed(i)'
    BY <1>4, <2>1, <2>3, <2>4 DEF Spared
  <2>6. Anew(bs'[r]) => Owed(r)'
    BY <1>2, NewOwes DEF Anew
  <2> QED BY <1>6, <2>1, <2>5, <2>6 DEF OwedInv
<1>9. CASE StaysAligned(r)
  <2>1. q' = q /\ \A i \in Item \ {r} : bs'[i] = bs[i]
    BY <1>9 DEF StaysAligned
  <2>2. \A i \in Item : StaysOpen(i)
    BY <1>2, <1>3, <2>1, StillOpen
  <2>3. ASSUME merging \subseteq merging', Owed(r)' PROVE OwedInv'
    <3>1. \A i \in Item \ {r} : Open(i)' => Owed(i)'
      BY <1>4, <2>1, <2>2, <2>3 DEF Spared
    <3> QED BY <2>3, <3>1 DEF OwedInv
  <2>4. CASE Asks(r)
    BY <1>6, <2>3, <2>4
  <2>5. CASE /\ merging' = merging /\ SameRequest(bs[r], bs'[r])
             /\ \A j \in Job :
                  \/ bs'[r].builds[j] = bs[r].builds[j]
                  \/ bs[r].builds[j] = "absent" /\ bs'[r].builds[j] = "running"
    <3>1. Proceeds(bs[r], bs'[r])
      BY <2>5 DEF Proceeds, SameRequest
    <3>2. Owed(r)'
      BY <1>2, <1>3, <2>5, <3>1, ProceedsOwes
    <3> QED BY <2>3, <2>5, <3>2
  <2> QED BY <1>9, <2>4, <2>5 DEF StaysAligned
<1>10. CASE LeavesFailed(r) \/ LeavesMerged(r)
  <2>1. /\ q' = DequeueItem(q, r) /\ merging' = merging
        /\ (\A i \in Item \ {r} : bs'[i] = bs[i]) \/ ResetsBehind(r, q, bs)
    BY <1>10 DEF LeavesFailed, LeavesMerged
  <2>2. Queued(q') = Queued(q) \ {r}
    BY <1>2, <2>1, DequeuedUp
  <2>3. \A i \in Item : StaysOpen(i)
    BY <1>2, <1>3, <2>2, StillOpen
  <2>4. \A i \in Item \ {r} : Spared(bs[i], bs'[i])
    BY <2>1 DEF ResetsBehind, Spared
  <2>5. ~Open(r)'
    BY <1>2, <1>3, <2>2 DEF Open, QueueInv
  <2> QED BY <1>4, <2>1, <2>3, <2>4, <2>5 DEF OwedInv
<1> QED BY <1>7, <1>8, <1>9, <1>10, ProcessingOutcomes

(* Nor do the steps that spare the build sets.                             *)
LEMMA SparingOwes ==
  ASSUME TypeInv, TypeInv', OwnInv, OwnInv', SetsInv, OwedInv, layout' = layout,
         merging' = merging, results' = results,
         \A i \in Item : StaysOpen(i) /\ Spared(bs[i], bs'[i])
  PROVE  OwedInv'
BY SparedOwes DEF OwnInv, OwedInv

(* Among these are those that write none.                                  *)
LEMMA QuietOwes ==
  ASSUME TypeInv, TypeInv', OwnInv, OwnInv', SetsInv, OwedInv,
         \/ WakeUp \/ EndResults \/ StartPass \/ EndPass
         \/ \E c \in Change : Approve(c) \/ Withdraw(c) \/ GoAway(c) \/ NoticeMerge(c)
         \/ UNCHANGED vars
  PROVE  OwedInv'
<1>1. /\ q' = q /\ bs' = bs /\ item' = item /\ layout' = layout
      /\ merging' = merging /\ results' = results
  BY DEF WakeUp, EndResults, StartPass, EndPass, Approve, Withdraw, GoAway, NoticeMerge,
         GerritEvent, vars, scheduled, gerrit
<1>2. \A i \in Item : StaysOpen(i) /\ Spared(bs[i], bs'[i])
  BY <1>1, StillOpen DEF Spared, TypeInv, GateInv
<1> QED BY <1>1, <1>2, SparingOwes

(* The handling of an event from Gerrit.                                   *)
LEMMA TriggerOwes ==
  ASSUME TypeInv, TypeInv', OwnInv, OwnInv', SetsInv, OwedInv, HandleTrigger
  PROVE  OwedInv'
<1>1. layout' = layout /\ merging' = merging /\ results' = results
  BY DEF HandleTrigger
<1>2. /\ GateInv /\ QueueInv /\ q \in Queues /\ WellLinked(q) /\ bs \in [Item -> BuildSets]
  BY DEF TypeInv, GateInv, QueueInv, SetsTyped
<1>3. CASE Adds(q) /\ bs' = bs
  <2>1. ASSUME NEW i \in Item PROVE StaysOpen(i)
    <3>1. i \in Queued(q) => i \in Queued(q') /\ item'[i] = item[i]
      BY <1>2, <1>3 DEF Adds, QueueInv
    <3>2. Open(i)' => Open(i)
      BY <1>3 DEF Adds, Open
    <3> QED BY <3>1, <3>2 DEF StaysOpen
  <2> QED BY <1>1, <1>3, <2>1, SparingOwes DEF Spared
<1>4. CASE q' = q /\ item' = item /\ bs' = bs
  <2>1. \A i \in Item : StaysOpen(i) /\ Spared(bs[i], bs'[i])
    BY <1>2, <1>4, StillOpen DEF Spared
  <2> QED BY <1>1, <2>1, SparingOwes
<1>5. ASSUME NEW r \in Item, Removes(r) PROVE OwedInv'
  <2>1. q' = DequeueItem(q, r) /\ item' = item
    BY <1>5 DEF Removes
  <2>2. Queued(q') = Queued(q) \ {r}
    BY <1>2, <2>1, DequeuedUp
  <2>3. \A i \in Item : StaysOpen(i) /\ Spared(bs[i], bs'[i])
    BY <1>2, <1>5, <2>1, <2>2, StillOpen DEF Spared, Removes
  <2> QED BY <1>1, <2>3, SparingOwes
<1> QED BY <1>2, <1>3, <1>4, <1>5, TriggerOutcomes

(* And a promotion.                                                        *)
LEMMA PromoteOwes ==
  ASSUME TypeInv, TypeInv', OwnInv, OwnInv', SetsInv, OwedInv, NEW i \in Item, Promote(i)
  PROVE  OwedInv'
<1>1. layout' = layout /\ merging' = merging /\ results' = results
  BY DEF Promote, Managing
<1>2. QueueInv /\ bs \in [Item -> BuildSets]
  BY DEF TypeInv, GateInv, SetsTyped
<1>3. Restarts
  BY <1>2, PromoteOutcome
<1>4. PICK x : x = EmptyQueue
  OBVIOUS
<1>5. Adds(x) /\ Queued(x) = {}
  BY <1>3, <1>4, EmptyQueueIsWellLinked DEF Restarts
<1>6. ASSUME NEW k \in Item PROVE StaysOpen(k) /\ Spared(bs[k], bs'[k])
  <2>1. Spared(bs[k], bs'[k])
    BY <1>3 DEF Restarts, Spared
  <2>2. item[k] # Idle => k \notin Queued(q') /\ item'[k] # Idle
    BY <1>5 DEF Adds
  <2>3. StaysOpen(k)
    BY <1>2, <2>2 DEF StaysOpen, Open, QueueInv
  <2> QED BY <2>1, <2>3
<1> QED BY <1>1, <1>6, SparingOwes

(* A result that is handled says nothing of the other build sets, nor of   *)
(* this one when it is not its own.                                        *)
LEMMA ElsewhereOwes ==
  ASSUME NEW i \in Item, Owed(i), bs'[i] = bs[i], item'[i] = item[i], layout' = layout,
         merging' = merging, ToSet(results') \subseteq ToSet(results),
         \A f \in ToSet(results) : f.item = i /\ f.gen = bs[i].gen => f \in ToSet(results')
  PROVE  Owed(i)'
<1>1. Verdicts(i)' = Verdicts(i)
  BY DEF Verdicts
<1>2. Sent(i) => Sent(i)'
  BY DEF Sent
<1> QED BY <1>1, <1>2 DEF Owed, Jobs

(* The result of a build that had succeeded settles no debt.               *)
LEMMA SuccessOwes ==
  ASSUME NEW i \in Item, Owed(i), bs'[i] = bs[i], item'[i] = item[i], layout' = layout,
         merging' = merging, ToSet(results') \subseteq ToSet(results),
         NEW e, e.kind = "build", bs[i].builds[e.job] = "SUCCESS", e.result # "retry",
         \A f \in ToSet(results) : f # e => f \in ToSet(results')
  PROVE  Owed(i)'
<1>1. /\ Verdicts(i)' \subseteq Verdicts(i)
      /\ \A f \in Verdicts(i) : f # e => f \in Verdicts(i)'
  BY DEF Verdicts
<1>2. Sent(i) => Sent(i)'
  BY DEF Sent
<1>3. \A j \in Job : bs[i].builds[j] = "retrying" =>
        \E f \in Verdicts(i)' : f.job = j /\ f.result = "retry"
  BY <1>1 DEF Owed
<1>4. \A j \in Job, k \in Job :
        /\ j \in Jobs(item[i]) /\ k \in Above[j]
        /\ bs[i].builds[j] = "absent" /\ bs[i].builds[k] = "FAILURE"
        => \E f \in Verdicts(i)' : f.job = k /\ f.result = "FAILURE"
  BY <1>1 DEF Owed
<1>5. \A f \in Verdicts(i)' : f.result = "retry" =>
        /\ bs[i].builds[f.job] \in {"retrying", "CANCELED", "SKIPPED"}
        /\ \A k \in Above[f.job] :
             /\ bs[i].builds[k] \in {"SUCCESS", "CANCELED", "SKIPPED"}
             /\ \A g \in Verdicts(i)' : g.job = k => g.result # "retry"
  BY <1>1 DEF Owed
<1> QED BY <1>2, <1>3, <1>4, <1>5 DEF Owed, Jobs

(* The result of a build settles what was owed for it.                     *)
LEMMA HeardOwes ==
  ASSUME TypeInv, OwnInv, NEW e, e \in ToSet(results), HearsBuild(e), Owed(e.item),
         item' = item, layout' = layout, merging' = merging, ToSet(results') \subseteq ToSet(results),
         \A f \in ToSet(results) : f # e => f \in ToSet(results'),
         \A f \in ToSet(results') : f.kind = "build" => ~SameBuild(e, f)
  PROVE  Owed(e.item)'
<1>1. PICK i \in Item : i = e.item
  BY DEF TypeInv, MutexInv, ResultsAreOld
<1>2. /\ e.kind = "build" /\ e.gen = bs[i].gen /\ e.job \in Job /\ SameRequest(bs[i], bs'[i])
      /\ \/ /\ e.result = "retry"
            /\ \A j \in Job : bs'[i].builds[j] = IF j = e.job THEN "absent" ELSE bs[i].builds[j]
         \/ /\ e.result # "retry"
            /\ \A j \in Job : bs'[i].builds[j] = IF j \in Jobs(item[i]) /\ e.job \in Above[j]
                                                 THEN "SKIPPED" ELSE bs[i].builds[j]
  BY <1>1 DEF HearsBuild
<1>3. /\ e \in Verdicts(i)
      /\ Verdicts(i)' \subseteq Verdicts(i)
      /\ \A f \in Verdicts(i) : f # e => f \in Verdicts(i)'
      /\ \A f \in Verdicts(i)' : f.job # e.job
      /\ \A f \in Verdicts(i) : f.job \in Job
  BY <1>1, <1>2 DEF Verdicts, SameBuild, SameRequest, TypeInv, MutexInv, ResultsAreOld
<1>4. bs'[i].merge = "PENDING" => Sent(i)'
  <2>1. bs'[i].merge = bs[i].merge /\ bs'[i].gen = bs[i].gen
    BY <1>2 DEF SameRequest
  <2>2. Sent(i) => Sent(i)'
    BY <1>2, <2>1 DEF Sent
  <2> QED BY <1>1, <2>1, <2>2 DEF Owed
<1>5. \A j \in Job : \A k \in Above[j] : k \in Job
  BY JobAssumption
<1>6. Owed(i)
  BY <1>1
<1>7. CASE /\ e.result = "retry"
           /\ \A j \in Job : bs'[i].builds[j] = IF j = e.job THEN "absent" ELSE bs[i].builds[j]
  <2>1. \A k \in Above[e.job] : bs[i].builds[k] \in {"SUCCESS", "CANCELED", "SKIPPED"} /\ k \in Job
    BY <1>2, <1>3, <1>5, <1>6, <1>7 DEF Owed
  <2>2. \A j \in Job : bs'[i].builds[j] = "retrying" =>
          \E f \in Verdicts(i)' : f.job = j /\ f.result = "retry"
    BY <1>3, <1>6, <1>7 DEF Owed
  <2>3. \A j \in Job, k \in Job :
          /\ j \in Jobs(item[i]) /\ k \in Above[j]
          /\ bs'[i].builds[j] = "absent" /\ bs'[i].builds[k] = "FAILURE"
          => \E f \in Verdicts(i)' : f.job = k /\ f.result = "FAILURE"
    <3> SUFFICES ASSUME NEW j \in Job, NEW k \in Job, j \in Jobs(item[i]), k \in Above[j],
                        bs'[i].builds[j] = "absent", bs'[i].builds[k] = "FAILURE"
                 PROVE  \E f \in Verdicts(i)' : f.job = k /\ f.result = "FAILURE"
      OBVIOUS
    <3>1. bs[i].builds[k] = "FAILURE" /\ j # e.job
      BY <1>7, <2>1
    <3>2. bs[i].builds[j] = "absent"
      BY <1>7, <3>1
    <3>3. PICK f \in Verdicts(i) : f.job = k /\ f.result = "FAILURE"
      BY <1>6, <3>1, <3>2 DEF Owed
    <3> QED BY <1>3, <1>7, <3>3
  <2>4. ASSUME NEW f \in Verdicts(i)', f.result = "retry"
        PROVE  /\ bs'[i].builds[f.job] \in {"retrying", "CANCELED", "SKIPPED"}
               /\ \A k \in Above[f.job] :
                    /\ bs'[i].builds[k] \in {"SUCCESS", "CANCELED", "SKIPPED"}
                    /\ \A g \in Verdicts(i)' : g.job = k => g.result # "retry"
    <3>1. f \in Verdicts(i) /\ f.job # e.job /\ f.job \in Job
      BY <1>3
    <3>2. /\ bs[i].builds[f.job] \in {"retrying", "CANCELED", "SKIPPED"}
          /\ \A k \in Above[f.job] :
               /\ bs[i].builds[k] \in {"SUCCESS", "CANCELED", "SKIPPED"} /\ k \in Job
               /\ \A g \in Verdicts(i) : g.job = k => g.result # "retry"
      BY <1>5, <1>6, <2>4, <3>1 DEF Owed
    <3>3. e.job \notin Above[f.job]
      BY <1>3, <1>7, <3>2
    <3> QED BY <1>3, <1>7, <3>1, <3>2, <3>3
  <2> QED BY <1>1, <1>2, <1>4, <2>2, <2>3, <2>4 DEF Owed, Jobs
<1>8. CASE /\ e.result # "retry"
           /\ \A j \in Job : bs'[i].builds[j] = IF j \in Jobs(item[i]) /\ e.job \in Above[j]
                                                THEN "SKIPPED" ELSE bs[i].builds[j]
  <2>1. \A j \in Job : bs'[i].builds[j] = "retrying" =>
          \E f \in Verdicts(i)' : f.job = j /\ f.result = "retry"
    BY <1>3, <1>6, <1>8 DEF Owed
  <2>2. \A j \in Job, k \in Job :
          /\ j \in Jobs(item[i]) /\ k \in Above[j]
          /\ bs'[i].builds[j] = "absent" /\ bs'[i].builds[k] = "FAILURE"
          => \E f \in Verdicts(i)' : f.job = k /\ f.result = "FAILURE"
    <3> SUFFICES ASSUME NEW j \in Job, NEW k \in Job, j \in Jobs(item[i]), k \in Above[j],
                        bs'[i].builds[j] = "absent", bs'[i].builds[k] = "FAILURE"
                 PROVE  \E f \in Verdicts(i)' : f.job = k /\ f.result = "FAILURE"
      OBVIOUS
    <3>1. bs[i].builds[k] = "FAILURE" /\ bs[i].builds[j] = "absent" /\ e.job # k
      BY <1>8
    <3>2. PICK f \in Verdicts(i) : f.job = k /\ f.result = "FAILURE"
      BY <1>6, <3>1 DEF Owed
    <3> QED BY <1>3, <3>1, <3>2
  <2>3. ASSUME NEW f \in Verdicts(i)', f.result = "retry"
        PROVE  /\ bs'[i].builds[f.job] \in {"retrying", "CANCELED", "SKIPPED"}
               /\ \A k \in Above[f.job] :
                    /\ bs'[i].builds[k] \in {"SUCCESS", "CANCELED", "SKIPPED"}
                    /\ \A g \in Verdicts(i)' : g.job = k => g.result # "retry"
    <3>1. f \in Verdicts(i) /\ f.job \in Job
      BY <1>3
    <3>2. /\ bs[i].builds[f.job] \in {"retrying", "CANCELED", "SKIPPED"}
          /\ \A k \in Above[f.job] :
               /\ bs[i].builds[k] \in {"SUCCESS", "CANCELED", "SKIPPED"} /\ k \in Job
               /\ \A g \in Verdicts(i) : g.job = k => g.result # "retry"
      BY <1>5, <1>6, <2>3, <3>1 DEF Owed
    <3> QED BY <1>3, <1>8, <3>1, <3>2
  <2> QED BY <1>1, <1>2, <1>4, <2>1, <2>2, <2>3 DEF Owed, Jobs
<1> QED BY <1>2, <1>7, <1>8

(* Nothing is owed any more once the merge is answered.                    *)
LEMMA MergedOwes ==
  ASSUME TypeInv, OwnInv, NEW e, e.item \in Item, HearsMerge(e), SetOk(e.item),
         ToSet(results') \subseteq ToSet(results)
  PROVE  Owed(e.item)'
<1>1. PICK i \in Item : i = e.item
  OBVIOUS
<1>2. /\ bs[i].merge = "PENDING" /\ bs'[i].merge = "COMPLETE" /\ bs'[i].gen = bs[i].gen
      /\ \A j \in Job : bs'[i].builds[j] \in {bs[i].builds[j], "SKIPPED"}
  BY <1>1 DEF HearsMerge
<1>3. \A j \in Job : bs'[i].builds[j] \in {"absent", "SKIPPED"}
  BY <1>1, <1>2 DEF SetOk, Unstarted
<1>4. ASSUME NEW f \in Verdicts(i)' PROVE FALSE
  <2>1. f \in ToSet(results) /\ f.kind = "build" /\ f.item = i /\ f.gen = bs[i].gen
    BY <1>2 DEF Verdicts
  <2>2. f.job \in Job
    BY <2>1 DEF TypeInv, MutexInv, ResultsAreOld
  <2> QED BY <1>1, <1>2, <2>1, <2>2 DEF SetOk, Unstarted, OwnInv, VerdictsInv
<1> QED BY <1>1, <1>2, <1>3, <1>4 DEF Owed

(* So the handling of a result leaves the others what they wait for.       *)
LEMMA ResultOwes ==
  ASSUME TypeInv, TypeInv', TreeInv, SetsInv, OwnInv, OwedInv, HandleResult
  PROVE  OwedInv'
<1>1. PICK e : e = Head(results)
  OBVIOUS
<1>2. PICK t : t = Tail(results)
  OBVIOUS
<1>3. /\ results' = t /\ q' = q /\ item' = item /\ merging' = merging /\ layout' = layout
  BY <1>2 DEF HandleResult
<1>4. /\ results \in Seq(ToSet(results)) /\ results # <<>> /\ e \in ToSet(results) /\ e.item \in Item
      /\ \/ e.kind = "build" /\ SaysNothing(e)
         \/ e.kind = "merge" /\ bs' = bs /\ e.gen # bs[e.item].gen
         \/ HearsBuild(e)
         \/ HearsMerge(e)
  BY <1>1, ResultOutcomes DEF OwnInv
<1>5. ToSet(t) \subseteq ToSet(results) /\ \A f \in ToSet(results) : f # e => f \in ToSet(t)
  <2>1. ToSet(results) \subseteq ToSet(t) \cup {e}
    BY <1>1, <1>2, <1>4, OnlyTheFrontTaken
  <2> QED BY <1>2, <1>4, <2>1, TakenFromTheFront
<1>6. \A f \in ToSet(t) : f.kind = "build" /\ e.kind = "build" => ~SameBuild(e, f)
  BY <1>1, <1>2, <1>4, FirstVerdict DEF OwnInv, VerdictsInv
<1>7. ASSUME NEW k \in Item, Open(k)'
      PROVE  Open(k) /\ Owed(k) /\ SetOk(k)
  BY <1>3, <1>7 DEF Open, OwedInv, SetsInv
<1>8. ASSUME NEW k \in Item, Owed(k), bs'[k] = bs[k], e.item = k => e.gen # bs[k].gen
      PROVE  Owed(k)'
  <2>1. \A f \in ToSet(results) : f.item = k /\ f.gen = bs[k].gen => f \in ToSet(results')
    BY <1>3, <1>5, <1>8
  <2> QED BY <1>3, <1>5, <1>8, <2>1, ElsewhereOwes
<1>9. ASSUME NEW k \in Item, Open(k)', k # e.item PROVE Owed(k)'
  <2>1. bs'[k] = bs[k]
    BY <1>4, <1>9 DEF SaysNothing, HearsBuild, HearsMerge
  <2> QED BY <1>7, <1>8, <1>9, <2>1
<1>10. ASSUME Open(e.item)' PROVE Owed(e.item)'
  <2>1. Owed(e.item) /\ SetOk(e.item)
    BY <1>4, <1>7, <1>10
  <2>2. CASE bs' = bs /\ e.gen # bs[e.item].gen
    BY <1>4, <1>8, <2>1, <2>2
  <2>3. CASE e.kind = "build" /\ SaysNothing(e) /\ e.gen = bs[e.item].gen
    <3>1. bs[e.item].builds[e.job] # "absent"
      BY <1>4, <2>3 DEF OwnInv, VerdictsInv
    <3>2. bs' = bs /\ bs[e.item].builds[e.job] = "SUCCESS" /\ e.result # "retry"
      BY <2>3, <3>1 DEF SaysNothing
    <3> QED BY <1>3, <1>4, <1>5, <2>1, <2>3, <3>2, SuccessOwes
  <2>4. CASE HearsBuild(e)
    <3>1. \A f \in ToSet(results') : f.kind = "build" => ~SameBuild(e, f)
      BY <1>3, <1>6, <2>4 DEF HearsBuild
    <3> QED BY <1>3, <1>4, <1>5, <2>1, <2>4, <3>1, HeardOwes
  <2>5. CASE HearsMerge(e)
    BY <1>3, <1>4, <1>5, <2>1, <2>5, MergedOwes
  <2> QED BY <1>4, <2>2, <2>3, <2>4, <2>5 DEF SaysNothing
<1> QED BY <1>9, <1>10 DEF OwedInv

(* A build that ends owes its result, and that is in the queue.            *)
LEMMA BuildCompletedOwes ==
  ASSUME TypeInv, TypeInv', TreeInv, OwnInv, OwedInv, NEW i \in Item, NEW j \in Job,
         NEW r \in {"SUCCESS", "FAILURE", "retry"}, BuildCompleted(i, j, r)
  PROVE  OwedInv'
<1>1. BuildEnds(i, j, r)
  BY BuildEnding
<1>2. PICK e : e = [kind |-> "build", item |-> i, gen |-> bs[i].gen, job |-> j, result |-> r]
  OBVIOUS
<1>3. /\ e.kind = "build" /\ e.item = i /\ e.gen = bs[i].gen /\ e.job = j /\ e.result = r
      /\ results' = Append(results, e)
  BY <1>2 DEF BuildCompleted, AddResult
<1>4. results \in Seq(ToSet(results))
  BY DEF TypeInv, MutexInv, ResultsAreOld
<1>5. ToSet(results') = ToSet(results) \cup {e}
  BY <1>3, <1>4, AddedAtTheEnd, AddedToTheRest
<1>6. /\ q' = q /\ item' = item /\ merging' = merging /\ layout' = layout
      /\ \A k \in Item : SameRequest(bs[k], bs'[k])
      /\ \A k \in Item \ {i} : bs'[k] = bs[k]
      /\ bs[i].builds[j] = "running"
      /\ \A k \in Job : bs'[i].builds[k] = IF k = j THEN (IF r = "retry" THEN "retrying" ELSE r)
                                           ELSE bs[i].builds[k]
  BY <1>1 DEF BuildEnds, SameRequest
<1>7. \A k \in Item : bs'[k].merge = bs[k].merge /\ (Sent(k) => Sent(k)')
  BY <1>5, <1>6 DEF Sent, SameRequest
<1>8. /\ \A k \in Item \ {i} : Verdicts(k)' = Verdicts(k)
      /\ Verdicts(i)' = Verdicts(i) \cup {e}
  BY <1>3, <1>5, <1>6 DEF Verdicts, SameRequest
<1>9. ASSUME NEW k \in Item, k # i, Owed(k) PROVE Owed(k)'
  BY <1>6, <1>7, <1>8, <1>9 DEF Owed, Jobs
<1>10. ASSUME Owed(i) PROVE Owed(i)'
  <2>1. \A f \in Verdicts(i) : f.job \in Job /\ f.job # j
    BY <1>6 DEF Verdicts, OwnInv, VerdictsInv, TypeInv, MutexInv, ResultsAreOld
  <2>2. \A l \in Job : \A k \in Above[l] : k \in Job
    BY JobAssumption
  <2>3. \A l \in Job : bs'[i].builds[l] = "retrying" =>
          \E f \in Verdicts(i)' : f.job = l /\ f.result = "retry"
    BY <1>3, <1>6, <1>8, <1>10 DEF Owed
  <2>4. \A l \in Job, k \in Job :
          /\ l \in Jobs(item[i]) /\ k \in Above[l]
          /\ bs'[i].builds[l] = "absent" /\ bs'[i].builds[k] = "FAILURE"
          => \E f \in Verdicts(i)' : f.job = k /\ f.result = "FAILURE"
    <3> SUFFICES ASSUME NEW l \in Job, NEW k \in Job, l \in Jobs(item[i]), k \in Above[l],
                        bs'[i].builds[l] = "absent", bs'[i].builds[k] = "FAILURE"
                 PROVE  \E f \in Verdicts(i)' : f.job = k /\ f.result = "FAILURE"
      OBVIOUS
    <3>1. bs[i].builds[l] = "absent"
      BY <1>6
    <3>2. CASE k = j
      BY <1>3, <1>6, <1>8, <3>2
    <3>3. CASE k # j
      BY <1>6, <1>8, <1>10, <3>1, <3>3 DEF Owed
    <3> QED BY <3>2, <3>3
  <2>5. ASSUME NEW f \in Verdicts(i)', f.result = "retry"
        PROVE  /\ bs'[i].builds[f.job] \in {"retrying", "CANCELED", "SKIPPED"}
               /\ \A k \in Above[f.job] :
                    /\ bs'[i].builds[k] \in {"SUCCESS", "CANCELED", "SKIPPED"}
                    /\ \A g \in Verdicts(i)' : g.job = k => g.result # "retry"
    <3>1. CASE f \in Verdicts(i)
      <4>1. f.job \in Job /\ f.job # j
        BY <2>1, <3>1
      <4>2. /\ bs[i].builds[f.job] \in {"retrying", "CANCELED", "SKIPPED"}
            /\ \A k \in Above[f.job] :
                 /\ bs[i].builds[k] \in {"SUCCESS", "CANCELED", "SKIPPED"} /\ k \in Job
                 /\ \A g \in Verdicts(i) : g.job = k => g.result # "retry"
        BY <1>10, <2>2, <2>5, <3>1, <4>1 DEF Owed
      <4>3. j \notin Above[f.job]
        BY <1>6, <4>2
      <4> QED BY <1>3, <1>6, <1>8, <4>1, <4>2, <4>3
    <3>2. CASE f = e
      <4>1. r = "retry" /\ bs'[i].builds[j] = "retrying"
        BY <1>3, <1>6, <2>5, <3>2
      <4>2. \A k \in Above[j] : bs[i].builds[k] = "SUCCESS" /\ k \in Job
        BY <1>6, <2>2 DEF TreeInv, TreesRooted, TreeSet, Live
      <4>3. \A k \in Above[j] : k # j /\ bs'[i].builds[k] = "SUCCESS"
        BY <1>6, <4>2
      <4>4. \A g \in Verdicts(i) : g.result = "retry" => bs[i].builds[g.job] # "SUCCESS"
        BY <1>10 DEF Owed
      <4> QED BY <1>3, <1>8, <3>2, <4>1, <4>2, <4>3, <4>4
    <3> QED BY <1>8, <3>1, <3>2
  <2>6. bs'[i].merge = "PENDING" => Sent(i)'
    BY <1>7, <1>10 DEF Owed
  <2> QED BY <1>6, <2>3, <2>4, <2>5, <2>6 DEF Owed, Jobs
<1> QED BY <1>6, <1>9, <1>10 DEF OwedInv, Open

(* A merge that is answered is sent as an answer.                          *)
LEMMA MergeCompletedOwes ==
  ASSUME TypeInv, OwedInv, NEW m \in merging, NEW r, MergeCompleted(m, r)
  PROVE  OwedInv'
<1>1. PICK e : e = [kind |-> "merge", item |-> m.item, gen |-> m.gen, result |-> r,
                    content |-> IF r = "merged" THEN Merged \cup m.content ELSE {}]
  OBVIOUS
<1>2. /\ e.kind = "merge" /\ e.item = m.item /\ e.gen = m.gen
      /\ results' = Append(results, e) /\ merging' = merging \ {m}
  BY <1>1 DEF MergeCompleted, AddResult
<1>3. q' = q /\ item' = item /\ bs' = bs /\ layout' = layout
  BY DEF MergeCompleted, scheduled
<1>4. results \in Seq(ToSet(results))
  BY DEF TypeInv, MutexInv, ResultsAreOld
<1>5. ToSet(results') = ToSet(results) \cup {e}
  BY <1>2, <1>4, AddedAtTheEnd, AddedToTheRest
<1>6. \A i \in Item : Verdicts(i)' = Verdicts(i) /\ (Sent(i) => Sent(i)')
  BY <1>2, <1>3, <1>5 DEF Verdicts, Sent
<1>7. \A i \in Item : Owed(i) => Owed(i)'
  BY <1>3, <1>6 DEF Owed, Jobs
<1> QED BY <1>3, <1>7 DEF OwedInv, Open

(* All that an item waits for goes on to come, but for a reconfiguration.  *)
LEMMA NextKeepsOwed ==
  ASSUME Reliable, TypeInv, TypeInv', WholeInv, WholeInv', OwedInv,
         Next, \A new \in Layouts : ~Reconfigure(new)
  PROVE  OwedInv'
<1>1. /\ Steadily /\ TreeInv /\ SetsInv /\ OwnInv /\ OwnInv'
  BY WholeIsSteady DEF WholeInv
<1>2. CASE \/ WakeUp \/ EndResults \/ StartPass \/ EndPass
           \/ \E c \in Change : Approve(c) \/ Withdraw(c) \/ GoAway(c) \/ NoticeMerge(c)
  BY <1>1, <1>2, QuietOwes
<1>3. CASE HandleResult
  BY <1>1, <1>3, ResultOwes
<1>4. CASE HandleTrigger
  BY <1>1, <1>4, TriggerOwes
<1>5. ASSUME NEW r \in Item, DropItem(r) \/ PrepareRef(r) \/ LaunchItem(r) \/ WaitItem(r)
      PROVE  OwedInv'
  BY <1>1, <1>5, ProcessingOwes
<1>6. ASSUME NEW i \in Item, NEW j \in Job, NEW r \in {"SUCCESS", "FAILURE", "retry"},
             BuildCompleted(i, j, r)
      PROVE  OwedInv'
  BY <1>1, <1>6, BuildCompletedOwes
<1>7. ASSUME NEW m \in merging, NEW r \in {"merged", "conflict", "updated"}, MergeCompleted(m, r)
      PROVE  OwedInv'
  BY <1>1, <1>7, MergeCompletedOwes
<1>8. ASSUME NEW i \in Item, Promote(i) PROVE OwedInv'
  BY <1>1, <1>8, PromoteOwes
<1> QED BY <1>2, <1>3, <1>4, <1>5, <1>6, <1>7, <1>8 DEF Next, SchedulerStep

(* At first nothing waits.                                                 *)
LEMMA InitOwed == Init => OwedInv
<1> SUFFICES ASSUME Init, NEW i \in Item PROVE Owed(i)
  BY DEF OwedInv
<1>1. PICK zero : zero = 0
  OBVIOUS
<1>2. PICK b : b = NewBuildSet(zero)
  OBVIOUS
<1>3. bs[i] = b /\ b.merge = "NEW" /\ \A j \in Job : b.builds[j] = "absent"
  BY <1>1, <1>2 DEF Init, NewBuildSet
<1>4. ToSet(results) = {}
  BY DEF Init, ToSet
<1>5. Verdicts(i) = {}
  BY <1>4 DEF Verdicts
<1> QED BY <1>3, <1>5 DEF Owed

-----------------------------------------------------------------------------
(* Why the gate stays awake.                                               *)

(* A pass that has changed nothing so far, and is not going to be started  *)
(* over for a wake-up.                                                     *)
Undisturbed == ~pass.changed /\ ~wake

(* Processing an item without any change: it stays where it is, and is not *)
(* at the head with all its results.                                       *)
Settles(r, s) ==
  /\ q' = q /\ bs'[r].builds = s[r].builds
  /\ ~(q.ahead[r] = NoItem /\ AllJobsComplete(item[r], s[r]))

(* An item that settles quietly was in its place.                         *)
LEMMA SettledQuietly ==
  ASSUME QueueInv, NEW r \in Item, Processing(r), NEW x, NEW s \in [Item -> BuildSets],
         Settle(r, x, s), Undisturbed'
  PROVE  Undisturbed /\ ~Misplaced(r) /\ (x = q => Settles(r, s))
<1>1. pass \in Passes
  BY DEF QueueInv, PassInv
<1>2. ~Abort
  BY DEF Abort, Undisturbed
<1>3. \A n : ~GoOn(n, TRUE)
  BY <1>1 DEF GoOn, Passes, Undisturbed
<1>4. PICK f : f = Failing(r, s[r])
  OBVIOUS
<1>5. /\ ~(q.ahead[r] = NoItem /\ AllJobsComplete(item[r], s[r]))
      /\ q' = x /\ bs' = [s EXCEPT ![r].failing = f]
      /\ GoOn(IF f THEN pass.nnfi ELSE r, Misplaced(r)) /\ wake' = wake
  BY <1>2, <1>3, <1>4 DEF Settle
<1>6. Judges(s, bs', r, f)
  BY <1>5, FailingWritten
<1>7. pass'.changed = (pass.changed \/ Misplaced(r))
  BY <1>1, <1>5 DEF GoOn, Passes
<1> QED BY <1>5, <1>6, <1>7 DEF Undisturbed, Settles, Judges

(* When no job needs a mutex, all jobs that may run are launched.          *)
LEMMA AllLaunched ==
  ASSUME NEW sets \in [Item -> BuildSets], NEW i \in Item, NEW queue,
         \A j \in Job : MutexOf[j] = NoMutex
  PROVE  \A j \in Job : j \in Runnable(queue, i, sets[i]) =>
           LaunchJobs(queue, i, sets).sets[i].builds[j] = "running"
<1> DEFINE runnable == Runnable(queue, i, sets[i])
           granted == [m \in Mutex |-> Granted(m, i, {j \in runnable : MutexOf[j] = m}, sets)]
           launched == {j \in runnable : MutexOf[j] # NoMutex => j \in granted[MutexOf[j]]}
<1>1. PICK builds : builds = [j \in Job |-> IF j \in launched THEN "running" ELSE sets[i].builds[j]]
  OBVIOUS
<1>2. PICK c : c = [sets[i] EXCEPT !.builds = builds]
  OBVIOUS
<1>3. LaunchJobs(queue, i, sets).sets = [sets EXCEPT ![i] = c]
  BY <1>1, <1>2 DEF LaunchJobs
<1>4. c.builds = builds
  BY <1>2, BuildsWritten
<1>5. \A j \in Job : j \in runnable => j \in launched
  OBVIOUS
<1>6. \A j \in Job : j \in runnable => builds[j] = "running"
  <2> HIDE DEF launched, runnable
  <2> QED BY <1>1, <1>5
<1>7. PICK new : new = [sets EXCEPT ![i] = c]
  OBVIOUS
<1>8. new[i] = c
  BY <1>7
<1> QED BY <1>3, <1>4, <1>6, <1>7, <1>8

(* The item at the top of the list.                                        *)
First(i) == \A b \in Queued(q) : ~Precedes(q, b, i)

(* A merge is out, or a build of i.                                        *)
Busy(i) == merging # {} \/ \E j \in Job : bs[i].builds[j] = "running"

(* What was processed without any change, with no wake-up since, is busy   *)
(* when it is at the top of the list; so is what the scheduler sleeps on.  *)
AwakeInv ==
  /\ Answered
  /\ pass.phase = "queue" /\ Undisturbed => \A i \in Queued(q) \ Todo : First(i) => Busy(i)
  /\ pass.phase = "sleep" /\ ~wake => \A i \in Queued(q) : First(i) => Busy(i)

(* The first item is tested on top of nothing, and is where it should be:  *)
(* it may be prepared, and its jobs are not held back.                     *)
LEMMA FirstStands ==
  ASSUME QueueInv, OrderInv, window \in Nat, NEW r, Processing(r), First(r)
  PROVE  /\ q.ahead[r] = NoItem /\ pass.nnfi = NoItem
         /\ MayPrepare(r) /\ ~Misplaced(r) /\ ~NeedsAFailingItem(r)
         /\ ResetSets(r) = bs /\ MovedQueue(r) = q /\ ~HeldBack(q, r)
<1>1. /\ r \in Item /\ r \in Queued(q) /\ q \in Queues /\ WellLinked(q)
      /\ r \in Todo /\ \A b \in Queued(q) : Precedes(q, b, r) => b \notin Todo
      /\ pass.nnfi \in Item \cup {NoItem}
      /\ pass.nnfi = NoItem \/ Precedes(q, pass.nnfi, r)
  BY WhereItStands, ItemProcessed DEF OrderInv, QueueInv
<1>2. \A a, b : Precedes(q, a, b) => a \in Queued(q)
  BY <1>1, PrecedesIsStrict DEF WellLinked
<1>3. pass.nnfi = NoItem
  BY <1>1, <1>2 DEF First
<1>4. Up(q, r) = {}
  BY <1>1, UpIsEarlier DEF First
<1>5. q.ahead[r] = NoItem
  BY <1>1, <1>4, UpUnfolds
<1>6. ~NeedsAFailingItem(r)
  BY <1>1 DEF NeedsAFailingItem, OrderInv, NeedsOrder, First
<1>7. IsActionable(q, window, r)
  <2>1. PICK s \in Seq(Item) : s = q.order
    BY <1>1 DEF Queues
  <2>2. PICK n \in 1 .. Len(s) : s[n] = r
    BY <1>1, <2>1 DEF Queued
  <2>3. DOMAIN s = 1 .. Len(s) /\ Len(s) \in Nat /\ 1 \in 1 .. Len(s)
    BY <2>2
  <2>4. n = 1
    <3>1. s[1] \in Queued(q)
      BY <2>1, <2>3 DEF Queued
    <3>2. ~(1 < n)
      BY <2>1, <2>2, <2>3, <3>1 DEF First, Precedes
    <3> QED BY <2>2, <2>3, <3>2
  <2>5. window = 0 \/ 1 <= window
    OBVIOUS
  <2> QED BY <2>1, <2>2, <2>3, <2>4, <2>5 DEF IsActionable
<1>8. ~Misplaced(r)
  BY <1>3, <1>5 DEF Misplaced
<1>9. ~HeldBack(q, r)
  BY <1>4 DEF HeldBack, Up
<1> QED BY <1>3, <1>5, <1>6, <1>7, <1>8, <1>9 DEF MayPrepare, ResetSets, MovedQueue

(* Once its test has begun it is calm.                                     *)
LEMMA FirstIsCalm ==
  ASSUME QueueInv, OrderInv, WorthInv, window \in Nat, NEW r, Processing(r), First(r),
         NeedsMet(item[r], ToSet(ChangesIn(q))), bs[r].ref
  PROVE  Calm(r)
<1>1. r \in Queued(q) /\ q.ahead[r] = pass.nnfi /\ ~NeedsAFailingItem(r)
  BY FirstStands, ItemProcessed
<1>2. ~Off(r) /\ ~Torn(r)
  BY <1>1, PlacedIsSound
<1> QED BY <1>1, <1>2 DEF WorthInv, Worthy, Sound, Telling

(* A calm item whose results have all been handled, and that has jobs left *)
(* to do, has one that runs once what may run is launched.                 *)
LEMMA SomethingRuns ==
  ASSUME TreesClosed, layout \in Layouts, NEW r \in Item, item[r] \in Change, bs[r] \in BuildSets,
         Calm(r), Owed(r), results = <<>>, ~HeldBack(q, r), NEW new,
         \A j \in Job : new.builds[j] = bs[r].builds[j] \/ new.builds[j] = "running",
         \A j \in Job : j \in Runnable(q, r, bs[r]) => new.builds[j] = "running",
         ~AllJobsComplete(item[r], new)
  PROVE  \E j \in Job : new.builds[j] = "running"
<1> SUFFICES ASSUME \A j \in Job : new.builds[j] # "running" PROVE FALSE
  OBVIOUS
<1>1. Jobs(item[r]) \subseteq Job /\ \A j \in Jobs(item[r]) : Above[j] \subseteq Jobs(item[r])
  BY LayoutAssumption DEF Jobs, TreesClosed
<1>2. \A j \in Job : new.builds[j] = bs[r].builds[j] /\ bs[r].builds[j] \in Builds
  BY DEF BuildSets
<1>3. Verdicts(r) = {}
  BY DEF Verdicts, ToSet
<1>4. \A j \in Job : bs[r].builds[j] \notin {"running", "retrying", "CANCELED"}
  BY <1>2, <1>3 DEF Owed, Calm
<1> DEFINE left == {j \in Jobs(item[r]) : bs[r].builds[j] = "absent"}
<1>5. left # {}
  <2>1. PICK j \in Jobs(item[r]) : new.builds[j] \notin Finished
    BY DEF AllJobsComplete
  <2>2. j \in Job /\ bs[r].builds[j] = "absent"
    BY <1>1, <1>2, <1>4, <2>1 DEF Builds, Finished
  <2> QED BY <2>1, <2>2
<1>6. PICK j \in left : Above[j] \cap left = {}
  <2>1. left \in SUBSET Job
    BY <1>1
  <2> QED BY <1>5, <2>1, TreeAssumption
<1>7. j \in Job /\ j \in Jobs(item[r]) /\ bs[r].builds[j] = "absent"
  BY <1>1
<1>8. ASSUME NEW k \in Above[j] PROVE bs[r].builds[k] = "SUCCESS"
  <2>1. k \in Jobs(item[r]) /\ k \in Job /\ bs[r].builds[k] # "absent"
    BY <1>1, <1>6, <1>7, <1>8
  <2>2. bs[r].builds[k] # "SKIPPED"
    BY <1>7, <1>8 DEF Calm, Carried
  <2>3. bs[r].builds[k] # "FAILURE"
    BY <1>3, <1>7, <1>8, <2>1 DEF Owed
  <2> QED BY <1>2, <1>4, <2>1, <2>2, <2>3 DEF Builds, Finished
<1>9. j \in Runnable(q, r, bs[r])
  BY <1>7, <1>8 DEF Runnable
<1> QED BY <1>7, <1>9

(* Processing an item without any change leaves the queue as it is, and no *)
(* change was noted before.                                                *)
LEMMA QuietProcessing ==
  ASSUME Reliable, QueueInv, NEW r \in Item, Undisturbed',
         DropItem(r) \/ PrepareRef(r) \/ LaunchItem(r) \/ WaitItem(r)
  PROVE  Undisturbed /\ ~Misplaced(r) /\ q' = q /\ NeedsMet(item[r], ToSet(ChangesIn(q)))
<1>1. pass \in Passes
  BY DEF QueueInv, PassInv
<1>2. ~Abort
  BY DEF Abort, Undisturbed
<1>3. \A n : ~GoOn(n, TRUE)
  BY <1>1 DEF GoOn, Passes, Undisturbed
<1>4. ~DropItem(r)
  BY <1>2, <1>3 DEF DropItem
<1>5. ASSUME NEW x, NEW s, Settle(r, x, s), x = MovedQueue(r)
      PROVE  Undisturbed /\ ~Misplaced(r) /\ q' = q
  <2>1. PICK n : GoOn(n, Misplaced(r)) /\ q' = x /\ wake' = wake
    BY <1>2, <1>3, <1>5 DEF Settle
  <2>2. pass'.changed = (pass.changed \/ Misplaced(r))
    BY <1>1, <2>1 DEF GoOn, Passes
  <2> QED BY <1>5, <2>1, <2>2 DEF Undisturbed, MovedQueue
<1>6. CASE PrepareRef(r)
  <2>1. \E s : Settle(r, MovedQueue(r), s)
    BY <1>2, <1>6 DEF PrepareRef
  <2> QED BY <1>5, <1>6, <2>1 DEF PrepareRef
<1>7. CASE LaunchItem(r)
  BY <1>5, <1>7 DEF LaunchItem
<1>8. CASE WaitItem(r)
  BY <1>5, <1>8 DEF WaitItem
<1> QED BY <1>4, <1>6, <1>7, <1>8

(* It takes nothing from the items that were processed before.             *)
LEMMA OthersStayBusy ==
  ASSUME Steadily, NEW r \in Item, Processing(r), q' = q,
         DropItem(r) \/ PrepareRef(r) \/ LaunchItem(r) \/ WaitItem(r),
         NEW i \in Queued(q) \ Todo, Busy(i)
  PROVE  Busy(i)'
<1>1. /\ QueueInv /\ SpineInv /\ q \in Queues /\ WellLinked(q)
  BY SteadyFacts DEF Steadily
<1>2. r \in Todo /\ r \in Queued(q) /\ i \in Item /\ i # r /\ r \notin Up(q, i)
  BY <1>1, WhereItStands
<1>3. ASSUME bs'[i] = bs[i], merging \subseteq merging' PROVE Busy(i)'
  BY <1>3 DEF Busy
<1>4. CASE StaysCanceled(r)
  BY <1>2, <1>3, <1>4 DEF StaysCanceled
<1>5. CASE StaysMoved(r)
  BY <1>2, <1>3, <1>5 DEF StaysMoved, Asks
<1>6. CASE StaysAligned(r)
  BY <1>2, <1>3, <1>6 DEF StaysAligned, Asks
<1>7. CASE LeavesFailed(r) \/ LeavesMerged(r)
  <2>1. q' = DequeueItem(q, r)
    BY <1>7 DEF LeavesFailed, LeavesMerged
  <2>2. Queued(q') = Queued(q) \ {r}
    BY <1>1, <2>1, DequeuedUp
  <2> QED BY <1>2, <2>2
<1> QED BY <1>4, <1>5, <1>6, <1>7, ProcessingOutcomes

(* The first item itself is given something to do, or waits for it.        *)
LEMMA FirstGetsBusy ==
  ASSUME Reliable, TreesClosed, \A j \in Job : MutexOf[j] = NoMutex, TypeInv, WholeInv,
         OwedInv, Answered, NEW r \in Item, Processing(r), First(r), Undisturbed',
         DropItem(r) \/ PrepareRef(r) \/ LaunchItem(r) \/ WaitItem(r)
  PROVE  Busy(r)'
<1>1. Steadily /\ OrderInv /\ WorthInv /\ window \in Nat
  BY WholeIsSteady DEF WholeInv, TypeInv, ServicesTyped
<1>2. /\ QueueInv /\ layout \in Layouts /\ bs \in [Item -> BuildSets] /\ bs[r] \in BuildSets
      /\ r \in Queued(q) /\ item[r] \in Change /\ item[r] \in Gated /\ SetOk(r) /\ Owed(r)
  BY <1>1, SteadyFacts DEF OwedInv, Open
<1>3. Undisturbed /\ q' = q /\ NeedsMet(item[r], ToSet(ChangesIn(q)))
  BY <1>2, QuietProcessing
<1>4. /\ q.ahead[r] = NoItem /\ MayPrepare(r)
      /\ ResetSets(r) = bs /\ MovedQueue(r) = q /\ ~HeldBack(q, r)
  BY <1>1, <1>2, FirstStands
<1>5. results = <<>>
  BY <1>3 DEF Answered, Undisturbed, Processing
<1>6. bs[r].ref => Calm(r)
  BY <1>1, <1>2, <1>3, FirstIsCalm
<1>7. ASSUME NEW s \in [Item -> BuildSets], Settle(r, q, s)
      PROVE  bs'[r].builds = s[r].builds /\ ~AllJobsComplete(item[r], s[r])
  BY <1>2, <1>4, <1>7, SettledQuietly DEF Settles
<1>8. CASE PrepareRef(r)
  <2>1. ~bs[r].ref
    BY <1>2, <1>4, <1>8 DEF PrepareRef, SetOk
  <2>2. merging' # {}
    BY <1>4, <1>8, <2>1, PrepareSettles
  <2> QED BY <2>2 DEF Busy
<1>9. CASE WaitItem(r)
  <2>1. Settle(r, q, bs) /\ merging' = merging /\ (bs[r].merge = "PENDING" \/ bs[r].unable)
    BY <1>4, <1>9 DEF WaitItem
  <2>2. CASE bs[r].merge = "PENDING"
    <3>1. ToSet(results) = {}
      BY <1>5 DEF ToSet
    <3>2. merging # {}
      BY <1>2, <2>2, <3>1 DEF Owed, Sent
    <3> QED BY <2>1, <3>2 DEF Busy
  <2>3. CASE bs[r].unable
    <3>1. bs[r].ref
      BY <1>2, <2>3 DEF SetOk, Unstarted
    <3>2. Jobs(item[r]) \subseteq Job
      BY <1>2, LayoutAssumption DEF Jobs
    <3>3. AllJobsComplete(item[r], bs[r])
      BY <1>6, <2>3, <3>1, <3>2 DEF Calm, Carried, AllJobsComplete, Finished
    <3> QED BY <1>2, <1>7, <2>1, <3>3
  <2> QED BY <2>1, <2>2, <2>3
<1>10. CASE LaunchItem(r)
  <2>1. PICK new : new = LaunchJobs(q, r, bs).sets
    OBVIOUS
  <2>2. Settle(r, q, new) /\ bs[r].merge = "COMPLETE"
    BY <1>4, <1>10, <2>1 DEF LaunchItem
  <2>3. Launches(q, bs, new, r) /\ new \in [Item -> BuildSets]
    BY <1>2, <2>1, LaunchWritten, LaunchKeepsTypes DEF TypeInv
  <2>4. Calm(r)
    BY <1>2, <1>6, <2>2 DEF SetOk
  <2>5. \A j \in Job : new[r].builds[j] = bs[r].builds[j] \/ new[r].builds[j] = "running"
    BY <2>3 DEF Launches
  <2>6. \A j \in Job : j \in Runnable(q, r, bs[r]) => new[r].builds[j] = "running"
    BY <1>2, <2>1, AllLaunched
  <2>7. PICK c : c = new[r]
    OBVIOUS
  <2>8. \E j \in Job : c.builds[j] = "running"
    BY <1>2, <1>4, <1>5, <1>7, <2>2, <2>3, <2>4, <2>5, <2>6, <2>7, SomethingRuns
  <2>9. bs'[r].builds = new[r].builds
    BY <1>7, <2>2, <2>3
  <2> QED BY <2>7, <2>8, <2>9 DEF Busy
<1>11. ~DropItem(r)
  BY <1>3 DEF DropItem
<1> QED BY <1>8, <1>9, <1>10, <1>11

(* The processing of an item ends the iteration with a wake-up, or goes on *)
(* with the queue.                                                         *)
LEMMA ProcessingGoesOn ==
  ASSUME QueueInv, NEW r \in Item,
         DropItem(r) \/ PrepareRef(r) \/ LaunchItem(r) \/ WaitItem(r)
  PROVE  wake' = TRUE \/ (wake' = wake /\ pass'.phase = "queue" /\ Todo' = Todo \ {r})
<1>1. Processing(r)
  BY DEF DropItem, PrepareRef, LaunchItem, WaitItem
<1>2. Abort \/ \E n, changed : GoOn(n, changed) /\ wake' = wake
  BY DEF DropItem, PrepareRef, LaunchItem, WaitItem, Settle
<1>3. ASSUME NEW n, NEW changed, GoOn(n, changed) PROVE pass'.phase = "queue" /\ Todo' = Todo \ {r}
  BY <1>1, <1>3, GoneOn DEF StepsOn
<1> QED BY <1>2, <1>3 DEF Abort

(* The processing of an item leaves the first one busy.                    *)
LEMMA ProcessingStaysAwake ==
  ASSUME Reliable, TreesClosed, \A j \in Job : MutexOf[j] = NoMutex, TypeInv, WholeInv,
         OwedInv, AwakeInv, NEW r \in Item,
         DropItem(r) \/ PrepareRef(r) \/ LaunchItem(r) \/ WaitItem(r)
  PROVE  AwakeInv'
<1>1. Processing(r) /\ pass.phase = "queue"
  BY DEF DropItem, PrepareRef, LaunchItem, WaitItem, Processing
<1>2. Steadily /\ QueueInv /\ r \in Queued(q) /\ results' = results
  BY <1>1, WholeIsSteady, SteadyFacts, ProcessingLeaves
<1>3. wake' = TRUE \/ (wake' = wake /\ pass'.phase = "queue" /\ Todo' = Todo \ {r})
  BY <1>2, ProcessingGoesOn
<1>4. Answered'
  BY <1>1, <1>2, <1>3 DEF AwakeInv, Answered
<1>5. ASSUME pass'.phase = "queue", Undisturbed', NEW i \in Queued(q') \ Todo', First(i)'
      PROVE  Busy(i)'
  <2>1. Undisturbed /\ q' = q
    BY <1>2, <1>5, QuietProcessing
  <2>2. Todo' = Todo \ {r}
    BY <1>3, <1>5 DEF Undisturbed
  <2>3. i \in Queued(q) /\ First(i)
    BY <1>5, <2>1 DEF First
  <2>4. CASE i = r
    BY <1>1, <1>5, <2>3, <2>4, FirstGetsBusy DEF AwakeInv
  <2>5. CASE i # r
    <3>1. i \in Queued(q) \ Todo
      BY <1>5, <2>2, <2>3, <2>5
    <3>2. Busy(i)
      BY <1>1, <2>1, <2>3, <3>1 DEF AwakeInv
    <3> QED BY <1>1, <1>2, <2>1, <3>1, <3>2, OthersStayBusy
  <2> QED BY <2>4, <2>5
<1>6. pass'.phase = "sleep" => wake'
  BY <1>3
<1> QED BY <1>4, <1>5, <1>6 DEF AwakeInv

(* A pass starts with all items yet to be processed, and ends with none.   *)
LEMMA PassesStayAwake ==
  ASSUME QueueInv, AwakeInv, StartPass \/ EndPass
  PROVE  AwakeInv'
<1>1. results' = results /\ wake' = wake /\ q' = q /\ bs' = bs /\ merging' = merging
  BY DEF StartPass, EndPass, scheduled
<1>2. Answered => (results # <<>> => wake)
  BY DEF Answered, StartPass, EndPass
<1>3. Answered'
  BY <1>1, <1>2 DEF AwakeInv, Answered
<1>4. CASE StartPass
  <2>1. pass'.phase = "queue" /\ pass'.todo = q.order
    BY <1>4 DEF StartPass, At
  <2>2. Queued(q') \subseteq Todo'
    BY <1>1, <2>1 DEF Todo, ToSet, Queued
  <2> QED BY <1>3, <2>1, <2>2 DEF AwakeInv
<1>5. CASE EndPass
  <2>1. pass.phase = "queue" /\ pass.todo = <<>> /\ ~pass.changed /\ pass'.phase = "sleep"
    BY <1>5 DEF EndPass, Sleeping, At
  <2>2. Todo = {}
    BY <2>1 DEF Todo, ToSet
  <2>3. ~wake' => \A i \in Queued(q') : First(i)' => Busy(i)'
    BY <1>1, <2>1, <2>2 DEF AwakeInv, Undisturbed, First, Busy
  <2> QED BY <1>3, <2>1, <2>3 DEF AwakeInv
<1> QED BY <1>4, <1>5

(* What comes from another thread wakes the scheduler; it does not handle  *)
(* events while it sleeps or goes over the queue.                          *)
LEMMA RestStaysAwake ==
  ASSUME AwakeInv,
         \/ WakeUp \/ EndResults \/ HandleResult \/ HandleTrigger
         \/ \E i \in Item, j \in Job, r \in {"SUCCESS", "FAILURE", "retry"} : BuildCompleted(i, j, r)
         \/ \E m \in merging, r \in {"merged", "conflict", "updated"} : MergeCompleted(m, r)
         \/ \E c \in Change : Approve(c) \/ Withdraw(c) \/ GoAway(c) \/ NoticeMerge(c)
         \/ \E i \in Item : Promote(i)
  PROVE  AwakeInv'
<1>1. ASSUME wake' = TRUE PROVE AwakeInv'
  BY <1>1 DEF AwakeInv, Answered, Undisturbed
<1>2. ASSUME pass'.phase = "results" PROVE AwakeInv'
  BY <1>2 DEF AwakeInv, Answered
<1>3. ASSUME pass'.phase = "triggers", Answered' PROVE AwakeInv'
  BY <1>3 DEF AwakeInv
<1>4. CASE WakeUp \/ \E i \in Item : Promote(i)
  <2>1. pass' = At("results")
    BY <1>4 DEF WakeUp, Promote, Managing
  <2> QED BY <1>2, <2>1 DEF At
<1>5. CASE EndResults
  <2>1. pass' = At("triggers") /\ results' = <<>>
    BY <1>5 DEF EndResults
  <2> QED BY <1>3, <2>1 DEF At, Answered
<1>6. CASE HandleResult
  <2>1. pass.phase = "results" /\ (pass' = pass \/ Abort)
    BY <1>6 DEF HandleResult, HandleBuild, HandleMerge
  <2> QED BY <1>1, <1>2, <2>1 DEF Abort
<1>7. CASE HandleTrigger
  <2>1. pass.phase = "triggers" /\ pass' = pass /\ results' = results /\ wake' = wake
    BY <1>7 DEF HandleTrigger
  <2>2. Answered'
    BY <2>1 DEF AwakeInv, Answered
  <2> QED BY <1>3, <2>1, <2>2
<1>8. CASE \/ \E i \in Item, j \in Job, r \in {"SUCCESS", "FAILURE", "retry"} : BuildCompleted(i, j, r)
           \/ \E m \in merging, r \in {"merged", "conflict", "updated"} : MergeCompleted(m, r)
           \/ \E c \in Change : Approve(c) \/ Withdraw(c) \/ GoAway(c) \/ NoticeMerge(c)
  <2>1. wake' = TRUE
    BY <1>8 DEF BuildCompleted, MergeCompleted, AddResult, Approve, Withdraw, GoAway,
                NoticeMerge, GerritEvent
  <2> QED BY <1>1, <2>1
<1> QED BY <1>4, <1>5, <1>6, <1>7, <1>8

(* Every step but a reconfiguration keeps the first item busy.             *)
LEMMA NextStaysAwake ==
  ASSUME Reliable, TreesClosed, \A j \in Job : MutexOf[j] = NoMutex, TypeInv, WholeInv,
         OwedInv, AwakeInv, Next, \A new \in Layouts : ~Reconfigure(new)
  PROVE  AwakeInv'
<1>1. QueueInv
  BY DEF TypeInv, GateInv
<1>2. CASE StartPass \/ EndPass
  BY <1>1, <1>2, PassesStayAwake
<1>3. CASE \E i \in Item : DropItem(i) \/ PrepareRef(i) \/ LaunchItem(i) \/ WaitItem(i)
  BY <1>3, ProcessingStaysAwake
<1>4. CASE \/ WakeUp \/ EndResults \/ HandleResult \/ HandleTrigger
           \/ \E i \in Item, j \in Job, r \in {"SUCCESS", "FAILURE", "retry"} : BuildCompleted(i, j, r)
           \/ \E m \in merging, r \in {"merged", "conflict", "updated"} : MergeCompleted(m, r)
           \/ \E c \in Change : Approve(c) \/ Withdraw(c) \/ GoAway(c) \/ NoticeMerge(c)
           \/ \E i \in Item : Promote(i)
  BY <1>4, RestStaysAwake
<1> QED BY <1>2, <1>3, <1>4 DEF Next, SchedulerStep

(* An empty queue keeps nothing waiting.                                   *)
LEMMA InitAwake == Init => AwakeInv
<1> SUFFICES ASSUME Init PROVE AwakeInv
  OBVIOUS
<1>1. Queued(q) = {} /\ pass.phase = "sleep" /\ results = <<>>
  BY EmptyQueueIsWellLinked DEF Init, Sleeping, At
<1> QED BY <1>1 DEF AwakeInv, Answered

(* A queue has a first item.                                               *)
LEMMA OneIsFirst ==
  ASSUME QueueInv, q.order # <<>>
  PROVE  \E i \in Queued(q) : First(i)
<1>1. q \in Queues /\ OrderIsInjective(q)
  BY DEF QueueInv, WellLinked
<1>2. PICK s \in Seq(Item) : s = q.order
  BY <1>1 DEF Queues
<1>3. DOMAIN s = 1 .. Len(s) /\ Len(s) \in Nat /\ 1 \in 1 .. Len(s)
  BY <1>2
<1>4. s[1] \in Queued(q)
  BY <1>2, <1>3 DEF Queued
<1>5. ASSUME NEW b, Precedes(q, b, s[1]) PROVE FALSE
  <2>1. PICK m, n \in DOMAIN s : m < n /\ s[n] = s[1]
    BY <1>2, <1>5 DEF Precedes
  <2>2. n = 1
    BY <1>1, <1>2, <1>3, <2>1 DEF OrderIsInjective
  <2> QED BY <1>3, <2>1, <2>2
<1> QED BY <1>4, <1>5 DEF First

(* The gate never sleeps on work that nobody is going to wake it for:      *)
(* where its services fail in no other way than Gerrit refusing a          *)
(* submission or a worker giving no result, no job needs a mutex and the   *)
(* configuration stays, some build or merge is out whenever it sleeps on a *)
(* queue that is not empty, whatever failed, was canceled or moved before. *)
THEOREM TheGateStaysAwake ==
  ASSUME Reliable, TreesClosed, \A j \in Job : MutexOf[j] = NoMutex
  PROVE  Spec /\ [][\A new \in Layouts : ~Reconfigure(new)]_vars => []NeverStuck
<1>1. Init => OwedInv /\ AwakeInv
  BY InitOwed, InitAwake
<1>2. /\ TypeInv /\ TypeInv' /\ WholeInv /\ WholeInv' /\ OwedInv /\ AwakeInv /\ [Next]_vars
      /\ [\A new \in Layouts : ~Reconfigure(new)]_vars
      => OwedInv' /\ AwakeInv'
  <2> SUFFICES ASSUME TypeInv, TypeInv', WholeInv, WholeInv', OwedInv, AwakeInv, [Next]_vars,
                      [\A new \in Layouts : ~Reconfigure(new)]_vars
               PROVE  OwedInv' /\ AwakeInv'
    OBVIOUS
  <2>1. CASE UNCHANGED vars
    <3>1. OwedInv'
      BY <2>1, QuietOwes DEF WholeInv
    <3>2. AwakeInv'
      BY <2>1 DEF vars, scheduled, AwakeInv, Answered, Undisturbed, First, Busy, Todo
    <3> QED BY <3>1, <3>2
  <2>2. CASE ~UNCHANGED vars
    BY <2>2, NextKeepsOwed, NextStaysAwake
  <2> QED BY <2>1, <2>2
<1>3. TypeInv /\ AwakeInv => NeverStuck
  <2> SUFFICES ASSUME TypeInv, AwakeInv, pass.phase = "sleep", ~wake, q.order # <<>>
               PROVE  merging # {} \/ \E i \in Queued(q), j \in Job : bs[i].builds[j] = "running"
    BY DEF NeverStuck
  <2>1. PICK i \in Queued(q) : First(i)
    BY OneIsFirst DEF TypeInv, GateInv
  <2> QED BY <2>1 DEF AwakeInv, Busy
<1> QED BY <1>1, <1>2, <1>3, WholeInvariance, TypeInvariance, PTL DEF Spec

-----------------------------------------------------------------------------
(* Why tests begin anew.                                                   *)

(* i has failed for good, and nothing of it was canceled.                  *)
Failed(i) == Broken(i) /\ Calm(i)

(* i needs a change that is neither merged nor in S.                       *)
Lost(i, S) ==
  \E c \in Needs[item[i]] :
    status[c] # "merged" /\ \A y \in Queued(q) : item[y] = c => y \notin S

(* b is not in the line S, for it has failed there or cannot join it.      *)
SetAside(b, S) ==
  Lost(b, S) \/ (Failed(b) /\ Up(q, b) = {a \in S : Precedes(q, a, b)})

(* S is what is left of these items and S when all the others are passed   *)
(* over that fail or need one that is.                                     *)
Line(S, others) == (\A b \in others : SetAside(b, S)) /\ \A a \in S : ~Lost(a, S)

(* i is behind an item that has failed; or it is where it belongs, behind  *)
(* all the items before it but those that are set aside.                   *)
Earlier(i) == {b \in Queued(q) : Precedes(q, b, i)}
Caused(i) == \E a \in Up(q, i) : Failed(a)
Placed(i) == Line(Up(q, i), Earlier(i) \ Up(q, i)) /\ ~Lost(i, Up(q, i)) /\ ~Off(i)
Justified(i) == Caused(i) \/ Placed(i)

(* So is every item whose test has begun, or that others are tested with;  *)
(* a build set lists the changes it was prepared on.                       *)
Listed(i) == bs[i].ref => \A a \in Up(q, i) : item[a] \in ToSet(bs[i].other)
ListsInv == \A i \in Queued(q) : Listed(i)
PlacesInv == \A i \in Queued(q) : Tested(i) \/ i \in Spine => Justified(i)
LineInv ==
  /\ pass.phase = "queue" => Line(Spine, (Queued(q) \ Todo) \ Spine)
  /\ pass.phase # "queue" => Spine = {}
CauseInv == ListsInv /\ PlacesInv /\ LineInv

(* What has failed for good has when its build set is left alone.          *)
LEMMA FailedStays ==
  ASSUME NEW i, Failed(i), bs'[i] = bs[i], item'[i] = item[i], layout' = layout,
         ToSet(results') \subseteq ToSet(results)
  PROVE  Failed(i)'
BY DEF Failed, Broken, Calm, Carried, Jobs

(* In a queue that stays as it is, nothing of this changes but for what    *)
(* merges.                                                                 *)
LEMMA SameNeeds ==
  ASSUME NEW i, NEW S, q' = q, item' = item,
         \A c \in Needs[item[i]] : status'[c] = "merged" <=> status[c] = "merged"
  PROVE  Lost(i, S)' <=> Lost(i, S)
BY DEF Lost

(* What precedes, and is ahead.                                            *)
LEMMA InTheQueue ==
  ASSUME QueueInv
  PROVE  /\ q \in Queues /\ WellLinked(q) /\ Queued(q) \subseteq Item /\ QueuedOnce
         /\ \A i \in Queued(q) : \A a \in Up(q, i) : /\ a \in Queued(q) /\ a \in Item /\ a # i
                                                     /\ Precedes(q, a, i) /\ ~Precedes(q, i, a)
                                                     /\ Up(q, a) \subseteq Up(q, i)
         /\ \A a, b, c : Precedes(q, a, b) /\ Precedes(q, b, c) => Precedes(q, a, c)
         /\ \A a, b : Precedes(q, a, b) => ~Precedes(q, b, a)
         /\ \A a, b \in Queued(q) : a # b => Precedes(q, a, b) \/ Precedes(q, b, a)
<1>1. q \in Queues /\ WellLinked(q) /\ Queued(q) \subseteq Item /\ QueuedOnce
  BY DEF QueueInv, Queued, Queues
<1>2. \A a, b, c : Precedes(q, a, b) /\ Precedes(q, b, c) => Precedes(q, a, c)
  BY <1>1, PrecedesIsStrict DEF WellLinked
<1>3. \A a, b : Precedes(q, a, b) => ~Precedes(q, b, a)
  BY <1>1, PrecedesIsStrict DEF WellLinked
<1>4. \A a, b \in Queued(q) : a # b => Precedes(q, a, b) \/ Precedes(q, b, a)
  BY <1>1, PrecedesIsTotal
<1>5. ASSUME NEW i \in Queued(q), NEW a \in Up(q, i)
      PROVE  /\ a \in Queued(q) /\ a \in Item /\ a # i /\ Precedes(q, a, i) /\ ~Precedes(q, i, a)
             /\ Up(q, a) \subseteq Up(q, i)
  <2>1. i \in Item
    BY <1>1
  <2> QED BY <1>1, <2>1, UpIsEarlier, UpIsTransitive
<1> QED BY <1>1, <1>2, <1>3, <1>4, <1>5

(* Where the item that is processed stands.                                *)
LEMMA WhereAllStand ==
  ASSUME Steadily, OrderInv, NEW r \in Item, Processing(r)
  PROVE  /\ QueueInv /\ r \in Queued(q) /\ r \in Todo /\ r \notin Spine /\ pass.phase = "queue"
         /\ Todo \subseteq Queued(q) /\ Spine \subseteq Queued(q) \ Todo
         /\ \A b \in Queued(q) : b \in Todo <=> b = r \/ Precedes(q, r, b)
         /\ \A b \in Queued(q) \ Todo : /\ Precedes(q, b, r) /\ b \in Item /\ b # r
                                        /\ r \notin Up(q, b) /\ item[r] \notin Needs[item[b]]
                                        /\ ~Off(b) /\ Up(q, b) \cap Todo = {}
         /\ Up(q, r) \subseteq Queued(q) \ Todo
         /\ Earlier(r) = Queued(q) \ Todo
         /\ \A i \in Queued(q) : r \in Up(q, i) => i \in Todo /\ i # r
<1>1. QueueInv /\ SpineInv /\ pass.phase = "queue"
  BY SteadyFacts DEF OrderInv, Processing
<1>2. /\ r \in Queued(q) /\ r \in Todo /\ r \notin Spine /\ Todo \subseteq Queued(q)
      /\ \A t \in Todo \ {r} : Precedes(q, r, t)
      /\ \A b \in Queued(q) \ Todo : Precedes(q, b, r)
      /\ \A b \in Queued(q) : Precedes(q, b, r) => b \notin Todo
      /\ \A a \in Up(q, r) : a \in Queued(q) \ Todo
      /\ \A i \in Item : r \in Up(q, i) => i \in Todo /\ i # r
  BY <1>1, WhereItStands
<1>3. /\ q \in Queues /\ WellLinked(q) /\ Queued(q) \subseteq Item
      /\ \A i \in Queued(q) : \A a \in Up(q, i) : a \in Queued(q) /\ Precedes(q, a, i)
      /\ \A a, b, c : Precedes(q, a, b) /\ Precedes(q, b, c) => Precedes(q, a, c)
      /\ \A a, b : Precedes(q, a, b) => ~Precedes(q, b, a)
  BY <1>1, InTheQueue
<1>4. \A b \in Queued(q) : b \in Todo <=> b = r \/ Precedes(q, r, b)
  BY <1>2, <1>3
<1>5. Spine \subseteq Queued(q) \ Todo
  BY <1>1 DEF SpineInv
<1>6. Earlier(r) = Queued(q) \ Todo
  BY <1>2 DEF Earlier
<1>7. ASSUME NEW b \in Queued(q) \ Todo
      PROVE  /\ Precedes(q, b, r) /\ b \in Item /\ b # r /\ r \notin Up(q, b)
             /\ item[r] \notin Needs[item[b]] /\ ~Off(b) /\ Up(q, b) \cap Todo = {}
  <2>1. /\ b \in Item /\ b # r /\ r \notin Up(q, b) /\ item[r] \notin Needs[item[b]] /\ ~Off(b)
    BY <1>1, <1>7, EarlierStaysClear
  <2>2. ASSUME NEW a \in Up(q, b) PROVE a \notin Todo
    BY <1>2, <1>3, <1>7, <2>2
  <2> QED BY <1>2, <1>7, <2>1, <2>2
<1> QED BY <1>1, <1>2, <1>3, <1>4, <1>5, <1>6, <1>7

(* What it needs is in the line when nothing it needs is failing,          *)
LEMMA LineMet ==
  ASSUME Steadily, OrderInv, NEW r \in Item, Processing(r), ~NeedsAFailingItem(r),
         NeedsMet(item[r], ToSet(ChangesIn(q)))
  PROVE  \A S : Spine \subseteq S => ~Lost(r, S)
<1>1. /\ QueueInv /\ r \in Queued(q) /\ pass.phase = "queue" /\ SpineInv /\ NeedsOrder
      /\ \A b \in Queued(q) : b \in Todo <=> b = r \/ Precedes(q, r, b)
      /\ \A a, b : Precedes(q, a, b) => ~Precedes(q, b, a)
  BY WhereAllStand, InTheQueue DEF OrderInv
<1> SUFFICES ASSUME NEW S, Spine \subseteq S, NEW c \in Needs[item[r]], status[c] # "merged",
                    \A y \in Queued(q) : item[y] = c => y \notin S
             PROVE  FALSE
  BY DEF Lost
<1>2. PICK y \in Queued(q) : item[y] = c
  BY <1>1, MetNeeds
<1>3. Precedes(q, y, r) /\ ~bs[y].failing
  BY <1>1, <1>2 DEF NeedsOrder, NeedsAFailingItem
<1>4. y \notin Todo
  BY <1>1, <1>3
<1> QED BY <1>1, <1>2, <1>3, <1>4 DEF SpineInv

(* and not when something is.                                              *)
LEMMA LineMissed ==
  ASSUME Steadily, OrderInv, NEW r \in Item, Processing(r), NeedsAFailingItem(r)
  PROVE  \A S : S \ Todo \subseteq Spine => Lost(r, S)
<1>1. /\ QueueInv /\ r \in Queued(q) /\ pass.phase = "queue" /\ SpineInv /\ NeedsOrder /\ TrunkInv
      /\ \A b \in Queued(q) : b \in Todo <=> b = r \/ Precedes(q, r, b)
      /\ \A a, b : Precedes(q, a, b) => ~Precedes(q, b, a)
      /\ QueuedOnce /\ item[r] \in Change
  BY WhereAllStand, InTheQueue, SteadyFacts DEF OrderInv
<1>2. PICK y \in Queued(q) : item[y] \in Needs[item[r]] /\ bs[y].failing
  BY DEF NeedsAFailingItem
<1>3. status[item[y]] # "merged" /\ \A z \in Queued(q) : item[z] = item[y] => z = y
  <2>1. item[y] \in Change
    BY <1>1, <1>2, NeedsAssumption
  <2> QED BY <1>1, <2>1 DEF TrunkInv, QueuedOnce
<1>4. Precedes(q, y, r) /\ y \notin Spine
  BY <1>1, <1>2 DEF NeedsOrder, SpineInv
<1>5. y \notin Todo
  BY <1>1, <1>4
<1> QED BY <1>2, <1>3, <1>4, <1>5 DEF Lost

(* Who is behind the line is behind its last item.                         *)
LEMMA NearestOfLine ==
  ASSUME QueueInv, NEW r \in Queued(q), Up(q, r) = Spine
  PROVE  q.ahead[r] = pass.nnfi
<1>1. /\ r \in Item /\ q \in Queues /\ WellLinked(q) /\ pass.nnfi \in Item \cup {NoItem}
      /\ NoItem \notin Item
  BY NoItemAssumption, InTheQueue DEF QueueInv, PassInv, Passes
<1>2. CASE q.ahead[r] = NoItem
  <2>1. Spine = {}
    BY <1>1, <1>2, UpUnfolds
  <2> QED BY <1>1, <1>2, <2>1 DEF Spine
<1>3. CASE q.ahead[r] # NoItem
  <2>1. PICK a \in Item : a = q.ahead[r]
    BY <1>1, <1>3, UpUnfolds
  <2>2. Up(q, r) = {a} \cup Up(q, a)
    BY <1>1, <1>3, <2>1, UpUnfolds
  <2>3. PICK n \in Item : n = pass.nnfi
    BY <1>1, <2>2 DEF Spine
  <2>4. Spine = {n} \cup Up(q, n) /\ n # NoItem
    BY <1>1, <2>3 DEF Spine
  <2>5. ASSUME a # n PROVE FALSE
    <3>1. a \in Up(q, n) /\ n \in Up(q, a)
      BY <2>2, <2>4, <2>5
    <3> QED BY <1>1, <3>1, UpIsEarlier
  <2> QED BY <2>1, <2>3, <2>5
<1> QED BY <1>2, <1>3

(* An item yet to come that is where it belongs is behind the line, and    *)
(* what it is behind before r is the line.                                 *)
LEMMA LaterOnLine ==
  ASSUME Steadily, OrderInv, NEW r \in Item, Processing(r), NEW i \in Queued(q), i \in Todo,
         ~Off(i), r \notin Up(q, i)
  PROVE  /\ Spine \subseteq Up(q, i) /\ Up(q, i) \ Todo = Spine
         /\ {a \in Up(q, i) : Precedes(q, a, r)} = Spine
<1>1. /\ QueueInv /\ r \in Queued(q)
      /\ \A b \in Queued(q) : b \in Todo <=> b = r \/ Precedes(q, r, b)
      /\ \A a, b : Precedes(q, a, b) => ~Precedes(q, b, a)
      /\ \A a \in Up(q, i) : a \in Queued(q)
      /\ \A a, b \in Queued(q) : a # b => Precedes(q, a, b) \/ Precedes(q, b, a)
  <2>1. QueueInv
    BY WhereAllStand
  <2> QED BY <2>1, WhereAllStand, InTheQueue
<1>2. Up(q, i) \ Todo = Spine
  BY DEF Off
<1>3. \A a \in Up(q, i) : Precedes(q, a, r) <=> a \notin Todo
  BY <1>1
<1> QED BY <1>2, <1>3

(* An item that needs a failing one is not where it belongs: it is behind  *)
(* one that has failed.                                                    *)
LEMMA CanceledForCause ==
  ASSUME Steadily, OrderInv, NEW r \in Item, Processing(r), NeedsAFailingItem(r), Justified(r)
  PROVE  Caused(r)
<1>1. r \in Todo /\ Up(q, r) \cap Todo = {}
  BY WhereAllStand
<1>2. ASSUME Placed(r) PROVE FALSE
  <2>1. Up(q, r) = Spine /\ ~Lost(r, Up(q, r))
    BY <1>1, <1>2 DEF Placed, Off
  <2>2. Lost(r, Spine)
    BY LineMissed
  <2> QED BY <2>1, <2>2
<1> QED BY <1>2 DEF Justified

(* So is one that is to be moved.                                          *)
LEMMA MovedForCause ==
  ASSUME Steadily, OrderInv, NEW r \in Item, Processing(r), q.ahead[r] # pass.nnfi, Justified(r)
  PROVE  Caused(r)
<1>1. QueueInv /\ r \in Queued(q) /\ r \in Todo /\ Up(q, r) \cap Todo = {}
  BY WhereAllStand
<1>2. Up(q, r) # Spine
  BY <1>1, NearestOfLine
<1>3. Off(r)
  BY <1>1, <1>2 DEF Off
<1> QED BY <1>3 DEF Justified, Placed

(* The changes and the queue stay, and no news comes.                      *)
StaysAround ==
  /\ q' = q /\ item' = item /\ layout' = layout /\ results' = results
  /\ \A c \in Change : status'[c] = "merged" <=> status[c] = "merged"

(* Then what is set aside stays so, when its build set does.               *)
LEMMA AsideStays ==
  ASSUME StaysAround, NEW x, item[x] \in Change, NEW S
  PROVE  /\ Lost(x, S)' <=> Lost(x, S)
         /\ SetAside(x, S) /\ bs'[x] = bs[x] => SetAside(x, S)'
<1>1. Lost(x, S)' <=> Lost(x, S)
  <2>1. Needs[item[x]] \subseteq Change
    BY NeedsAssumption
  <2> QED BY <2>1, SameNeeds DEF StaysAround
<1>2. ASSUME Failed(x), bs'[x] = bs[x] PROVE Failed(x)'
  BY <1>2, FailedStays DEF StaysAround
<1> QED BY <1>1, <1>2 DEF SetAside, StaysAround

(* What changes are queued.                                                *)
LEMMA ChangesQueued ==
  ASSUME TrunkInv
  PROVE  \A i \in Queued(q) : item[i] \in Change /\ item[i] \in Gated /\ item[i] \notin Merged
                              /\ status[item[i]] # "merged"
BY LayoutAssumption DEF TrunkInv

(* An item fails for what it needs, and is set aside; what is behind it,   *)
(* and it itself if its test has begun, was behind one that has failed.    *)
LEMMA CanceledKeepsCause ==
  ASSUME Steadily, OrderInv, CauseInv, NEW r \in Item, Processing(r), StaysCanceled(r),
         item' = item, results' = results, layout' = layout
  PROVE  CauseInv'
<1>1. /\ QueueInv /\ r \in Queued(q) /\ r \in Todo /\ r \notin Spine /\ pass.phase = "queue"
      /\ Spine \subseteq Queued(q) \ Todo
      /\ \A b \in Queued(q) : b \in Todo <=> b = r \/ Precedes(q, r, b)
      /\ \A b \in Queued(q) \ Todo : b # r /\ r \notin Up(q, b)
      /\ \A i \in Queued(q) : r \in Up(q, i) => i \in Todo /\ i # r
      /\ Up(q, r) \cap Todo = {}
  BY WhereAllStand
<1>2. /\ Queued(q) \subseteq Item
      /\ \A i \in Queued(q) : \A a \in Up(q, i) : /\ a \in Queued(q) /\ a \in Item /\ a # i
                                                  /\ Precedes(q, a, i) /\ ~Precedes(q, i, a)
                                                  /\ Up(q, a) \subseteq Up(q, i)
      /\ \A i \in Queued(q) : item[i] \in Change
  BY <1>1, InTheQueue, ChangesQueued DEF OrderInv
<1>3. /\ NeedsAFailingItem(r) /\ StaysAround
      /\ \A i \in Item :
           /\ bs'[i].ref = bs[i].ref /\ bs'[i].other = bs[i].other
           /\ i # r /\ r \notin Up(q, i) => bs'[i] = bs[i]
      /\ Todo' = Todo \ {r} /\ pass'.phase = "queue" /\ StepsOn(r, pass.nnfi) /\ q' = q
  BY DEF StaysCanceled, Halts, SameRequest, Unreported, StepsOn, StaysAround
<1>4. Spine' = Spine
  BY <1>1, <1>3, SpineKept DEF OrderInv
<1>5. ASSUME NEW x \in Queued(q), x # r, r \notin Up(q, x), Failed(x) PROVE Failed(x)'
  BY <1>2, <1>3, <1>5, FailedStays
<1>6. ListsInv'
  BY <1>2, <1>3 DEF CauseInv, ListsInv, Listed
<1>7. ASSUME NEW i \in Queued(q), Tested(i)' \/ i \in Spine PROVE Justified(i)
  BY <1>2, <1>3, <1>7 DEF Tested, CauseInv, PlacesInv
<1>8. Caused(r) => Caused(r)'
  BY <1>1, <1>2, <1>3, <1>5 DEF Caused
<1>9. ASSUME NEW i \in Queued(q), Tested(i)', i = r \/ r \in Up(q, i) PROVE Caused(i)'
  <2>1. Tested(r)'
    BY <1>2, <1>3, <1>9 DEF Tested
  <2>2. Caused(r)'
    BY <1>1, <1>3, <1>7, <1>8, <2>1, CanceledForCause
  <2> QED BY <1>2, <1>3, <1>9, <2>2 DEF Caused
<1>10. ASSUME NEW i \in Queued(q), i # r, r \notin Up(q, i), Caused(i) PROVE Caused(i)'
  BY <1>1, <1>2, <1>3, <1>5, <1>10 DEF Caused
<1>11. ASSUME NEW x \in Queued(q), x # r, NEW S, r \notin S, SetAside(x, S) PROVE SetAside(x, S)'
  <2>1. Lost(x, S) => Lost(x, S)'
    BY <1>2, <1>3, AsideStays
  <2>2. ASSUME Failed(x), Up(q, x) = {a \in S : Precedes(q, a, x)} PROVE Failed(x)'
    BY <1>5, <1>11, <2>2
  <2> QED BY <1>3, <1>11, <2>1, <2>2 DEF SetAside
<1>12. ASSUME NEW i \in Queued(q), i # r, r \notin Up(q, i), Placed(i) PROVE Placed(i)'
  <2>1. PICK S : S = Up(q, i)
    OBVIOUS
  <2>2. /\ Line(S, Earlier(i) \ S) /\ ~Lost(i, S) /\ ~Off(i) /\ r \notin S
        /\ S \subseteq Queued(q) /\ Earlier(i) \subseteq Queued(q)
    BY <1>2, <1>12, <2>1 DEF Placed, Earlier
  <2>3. ~Off(i)'
    BY <1>3, <1>4, <2>1, <2>2 DEF Off
  <2>4. ASSUME r \in Earlier(i) PROVE Lost(r, S)
    <3>1. i \in Todo
      BY <1>1, <2>4 DEF Earlier
    <3>2. S \ Todo = Spine
      BY <2>1, <2>2, <3>1 DEF Off
    <3> QED BY <1>3, <3>2, LineMissed
  <2>5. ASSUME NEW x \in Earlier(i) \ S PROVE SetAside(x, S)'
    <3>1. x \in Queued(q) /\ SetAside(x, S)
      BY <2>2 DEF Line
    <3>2. CASE x = r
      <4>1. Lost(r, S)'
        BY <1>1, <1>2, <1>3, <2>4, <2>5, <3>2, AsideStays
      <4> QED BY <3>2, <4>1 DEF SetAside
    <3> QED BY <1>11, <2>2, <3>1, <3>2
  <2>6. \A a \in S : ~Lost(a, S)'
    BY <1>2, <1>3, <2>2, AsideStays DEF Line
  <2>7. ~Lost(i, S)'
    BY <1>2, <1>3, <2>2, AsideStays
  <2>8. Up(q', i) = S /\ Earlier(i)' = Earlier(i)
    BY <1>3, <2>1 DEF Earlier
  <2> QED BY <2>3, <2>5, <2>6, <2>7, <2>8 DEF Placed, Line
<1>13. PlacesInv'
  <2>1. Queued(q') = Queued(q) /\ \A i \in Spine : i # r /\ r \notin Up(q, i)
    BY <1>1, <1>3
  <2> QED BY <1>4, <1>7, <1>9, <1>10, <1>12, <2>1 DEF PlacesInv, Justified
<1>14. LineInv'
  <2>1. PICK S : S = Spine
    OBVIOUS
  <2>2. r \notin S /\ S \subseteq Queued(q) /\ Line(S, (Queued(q) \ Todo) \ S)
    BY <1>1, <2>1 DEF CauseInv, LineInv
  <2>3. Lost(r, S)'
    <3>1. Lost(r, S)
      BY <1>3, <2>1, LineMissed
    <3> QED BY <1>1, <1>2, <1>3, <3>1, AsideStays
  <2>4. ASSUME NEW x \in (Queued(q) \ Todo') \ S PROVE SetAside(x, S)'
    <3>1. CASE x = r
      BY <2>3, <3>1 DEF SetAside
    <3>2. CASE x # r
      BY <1>3, <1>11, <2>2, <2>4, <3>2 DEF Line
    <3> QED BY <3>1, <3>2
  <2>5. \A a \in S : ~Lost(a, S)'
    BY <1>2, <1>3, <2>2, AsideStays DEF Line
  <2> QED BY <1>3, <1>4, <2>1, <2>4, <2>5 DEF LineInv, Line
<1> QED BY <1>6, <1>13, <1>14 DEF CauseInv

(* An item is moved to the end of the line, and its test begins anew; it   *)
(* and what was behind it were behind an item that has failed.             *)
LEMMA MovedKeepsCause ==
  ASSUME Steadily, OrderInv, CauseInv, NEW r \in Item, Processing(r), StaysMoved(r),
         item' = item, results' = results, layout' = layout
  PROVE  CauseInv'
<1>1. /\ QueueInv /\ r \in Queued(q) /\ r \in Todo /\ r \notin Spine /\ pass.phase = "queue"
      /\ Spine \subseteq Queued(q) \ Todo
      /\ \A b \in Queued(q) : b \in Todo <=> b = r \/ Precedes(q, r, b)
      /\ \A b \in Queued(q) \ Todo : /\ b # r /\ r \notin Up(q, b) /\ Precedes(q, b, r)
                                     /\ item[r] \notin Needs[item[b]]
      /\ \A i \in Queued(q) : r \in Up(q, i) => i \in Todo /\ i # r
      /\ Up(q, r) \subseteq Queued(q) \ Todo
      /\ Earlier(r) = Queued(q) \ Todo
  BY WhereAllStand
<1>2. /\ Queued(q) \subseteq Item /\ q \in Queues /\ WellLinked(q)
      /\ \A i \in Queued(q) : \A a \in Up(q, i) : /\ a \in Queued(q) /\ a \in Item /\ a # i
                                                  /\ Precedes(q, a, i) /\ ~Precedes(q, i, a)
                                                  /\ Up(q, a) \subseteq Up(q, i)
      /\ \A a, b : Precedes(q, a, b) => ~Precedes(q, b, a)
      /\ \A i \in Queued(q) : item[i] \in Change
  BY <1>1, InTheQueue, ChangesQueued DEF OrderInv
<1>3. /\ q' = MoveItem(q, r, pass.nnfi) /\ q.ahead[r] # pass.nnfi
      /\ status' = status /\ ~NeedsAFailingItem(r) /\ NeedsMet(item[r], ToSet(ChangesIn(q)))
      /\ \A i \in Item \ {r} : bs'[i] = bs[i]
      /\ Todo' = Todo \ {r} /\ pass'.phase = "queue" /\ pass'.nnfi = r
  BY DEF StaysMoved, Unreported, StepsOn
<1>4. /\ pass.nnfi \in Item \cup {NoItem}
      /\ pass.nnfi = NoItem \/ Precedes(q, pass.nnfi, r)
  BY <1>1, ItemProcessed
<1>5. /\ Queued(q') = Queued(q)
      /\ \A i \in Item \ {r} : Up(q', i) = Up(q, i) \ {r}
      /\ Up(q', r) = Spine
      /\ \A b, c : Precedes(q', b, c) <=> Precedes(q, b, c)
  <2>1. PICK n \in Item \cup {NoItem} : n = pass.nnfi
    BY <1>4
  <2>2. q' = MoveItem(q, r, n) /\ q.ahead[r] # n /\ (n = NoItem \/ Precedes(q, n, r))
    BY <1>3, <1>4, <2>1
  <2>3. LET y == MoveItem(q, r, n)
        IN  /\ Queued(y) = Queued(q)
            /\ \A i \in Item \ {r} : Up(y, i) = Up(q, i) \ {r}
            /\ Up(y, r) = IF n = NoItem THEN {} ELSE {n} \cup Up(q, n)
            /\ \A b, c : Precedes(y, b, c) <=> Precedes(q, b, c)
    BY <1>2, <2>2, MovedUp
  <2> QED BY <2>1, <2>2, <2>3 DEF Spine
<1>6. Spine' = Spine \cup {r}
  BY <1>1, <1>3, <1>5, NoItemAssumption DEF Spine
<1>7. ASSUME NEW x \in Queued(q), x # r, Failed(x) PROVE Failed(x)'
  BY <1>2, <1>3, <1>7, FailedStays
<1>8. ListsInv'
  <2>1. Listed(r)'
    <3>1. CASE ~bs'[r].ref
      BY <3>1 DEF Listed
    <3>2. CASE bs'[r].other = ChangesAhead(q', r)
      <4>1. PICK chain : chain = ItemsAhead(q', r)
        OBVIOUS
      <4>2. /\ Up(q', r) = {chain[n] : n \in DOMAIN chain}
            /\ bs'[r].other = [n \in DOMAIN chain |-> item[chain[n]]]
        BY <3>2, <4>1 DEF Up, ToSet, ChangesAhead
      <4>3. ToSet(bs'[r].other) = {item[a] : a \in Up(q', r)}
        BY <4>2 DEF ToSet
      <4> QED BY <4>3 DEF Listed
    <3> QED BY <3>1, <3>2 DEF StaysMoved, Asks, Anew
  <2>2. ASSUME NEW i \in Queued(q), i # r PROVE Listed(i)'
    BY <1>2, <1>3, <1>5, <2>2 DEF CauseInv, ListsInv, Listed
  <2> QED BY <1>5, <2>1, <2>2 DEF ListsInv
<1>9. ASSUME NEW i \in Queued(q), i # r, Tested(i)' \/ i \in Spine' PROVE Tested(i) \/ i \in Spine
  <2>1. ASSUME NEW k \in Queued(q), k = i \/ i \in Up(q', k), bs'[k].ref
        PROVE  Tested(i) \/ i \in Spine
    BY <1>2, <1>3, <1>5, <1>9, <2>1 DEF Tested
  <2> QED BY <1>5, <1>6, <1>9, <2>1 DEF Tested
<1>10. ASSUME NEW i \in Queued(q), i # r, Tested(i)' \/ i \in Spine' PROVE Justified(i)
  BY <1>9, <1>10 DEF CauseInv, PlacesInv
<1>11. \A S : Spine \subseteq S => ~Lost(r, S)
  BY <1>3, LineMet
<1>12. Line(Spine, (Queued(q) \ Todo) \ Spine)
  BY <1>1 DEF CauseInv, LineInv
<1>13. ASSUME NEW x \in Queued(q) \ Todo, NEW S, S \subseteq Queued(q), r \notin S
       PROVE  /\ Lost(x, S) => Lost(x, S)' /\ Lost(x, S \cup {r})'
              /\ ~Lost(x, S) => ~Lost(x, S)' /\ ~Lost(x, S \cup {r})'
  BY <1>1, <1>3, <1>5 DEF Lost
<1>14. ASSUME NEW x \in Queued(q) \ Todo, NEW S, NEW T, S \subseteq Queued(q), r \notin S,
              T = S \/ T = S \cup {r}, SetAside(x, S)
       PROVE  SetAside(x, T)'
  <2>1. Lost(x, S) => Lost(x, T)'
    <3>1. Lost(x, S) => Lost(x, S)' /\ Lost(x, S \cup {r})'
      BY <1>13, <1>14
    <3> QED BY <1>14, <3>1 DEF Lost
  <2>2. ASSUME Failed(x), Up(q, x) = {a \in S : Precedes(q, a, x)}
        PROVE  Failed(x)' /\ Up(q', x) = {a \in T : Precedes(q', a, x)}
    <3>1. x # r /\ x \in Item /\ r \notin Up(q, x) /\ ~Precedes(q, r, x)
      BY <1>1, <1>2
    <3> QED BY <1>5, <1>7, <1>14, <2>2, <3>1
  <2> QED BY <1>14, <2>1, <2>2 DEF SetAside
<1>15. Justified(r)'
  <2>1. PICK S : S = Spine
    OBVIOUS
  <2>2. S \subseteq Queued(q) \ Todo /\ r \notin S /\ Line(S, (Queued(q) \ Todo) \ S)
    BY <1>1, <1>12, <2>1
  <2>3. \A x \in (Queued(q) \ Todo) \ S : SetAside(x, S)'
    BY <1>14, <2>2 DEF Line
  <2>4. \A a \in S : ~Lost(a, S)'
    BY <1>13, <2>2 DEF Line
  <2>5. ~Lost(r, S)'
    <3>1. ~Lost(r, S)
      BY <1>11, <2>1
    <3> QED BY <1>3, <1>5, <3>1 DEF Lost
  <2>6. ~Off(r)'
    BY <1>3 DEF Off
  <2>7. Up(q', r) = S /\ Earlier(r)' = Queued(q) \ Todo
    BY <1>1, <1>5, <2>1 DEF Earlier
  <2> QED BY <2>3, <2>4, <2>5, <2>6, <2>7 DEF Justified, Placed, Line
<1>16. ASSUME NEW i \in Queued(q), i # r, Tested(i)' \/ i \in Spine', Caused(i) PROVE Caused(i)'
  <2>1. CASE r \in Up(q, i)
    <3>1. Tested(i)
      BY <1>1, <1>9, <1>16, <2>1
    <3>2. Tested(r)
      BY <1>2, <2>1, <3>1 DEF Tested
    <3>3. Justified(r)
      BY <1>1, <3>2 DEF CauseInv, PlacesInv
    <3>4. PICK a \in Up(q, r) : Failed(a)
      BY <1>1, <1>3, <3>3, MovedForCause DEF Caused
    <3>5. a \in Up(q, i) /\ a # r /\ a \in Queued(q) /\ i \in Item
      BY <1>1, <1>2, <2>1, <3>4
    <3> QED BY <1>5, <1>7, <1>16, <3>4, <3>5 DEF Caused
  <2>2. CASE r \notin Up(q, i)
    <3>1. PICK a \in Up(q, i) : Failed(a)
      BY <1>16 DEF Caused
    <3>2. a # r /\ a \in Queued(q) /\ i \in Item
      BY <1>2, <2>2, <3>1
    <3> QED BY <1>5, <1>7, <1>16, <2>2, <3>1, <3>2 DEF Caused
  <2> QED BY <2>1, <2>2
<1>17. ASSUME NEW i \in Queued(q), i # r, Tested(i)' \/ i \in Spine', Placed(i), ~Caused(i)
       PROVE  Placed(i)'
  <2>1. PICK S : S = Up(q, i)
    OBVIOUS
  <2>2. /\ Line(S, Earlier(i) \ S) /\ ~Lost(i, S) /\ ~Off(i)
        /\ S \subseteq Queued(q) /\ Earlier(i) \subseteq Queued(q)
    BY <1>2, <1>17, <2>1 DEF Placed, Earlier
  <2>3. r \notin S
    <3>1. SUFFICES ASSUME r \in S PROVE FALSE
      OBVIOUS
    <3>2. Tested(i)
      BY <1>1, <1>9, <1>17, <2>1, <3>1
    <3>3. Tested(r)
      BY <1>2, <2>1, <3>1, <3>2 DEF Tested
    <3>4. Justified(r)
      BY <1>1, <3>3 DEF CauseInv, PlacesInv
    <3>5. PICK a \in Up(q, r) : Failed(a)
      BY <1>1, <1>3, <3>4, MovedForCause DEF Caused
    <3> QED BY <1>2, <1>17, <2>1, <3>1, <3>5 DEF Caused
  <2>4. i \notin Todo
    <3>1. SUFFICES ASSUME i \in Todo PROVE FALSE
      OBVIOUS
    <3>2. /\ Spine \subseteq S /\ {a \in S : Precedes(q, a, r)} = Spine
      BY <2>1, <2>2, <2>3, <3>1, LaterOnLine
    <3>3. r \in Earlier(i) \ S
      BY <1>1, <1>17, <2>3, <3>1 DEF Earlier
    <3>4. SetAside(r, S) /\ ~Lost(r, S)
      BY <1>11, <2>2, <3>2, <3>3 DEF Line
    <3>5. Up(q, r) = Spine
      BY <3>2, <3>4 DEF SetAside
    <3> QED BY <1>1, <1>3, <3>5, NearestOfLine
  <2>5. /\ Earlier(i) \subseteq Queued(q) \ Todo /\ S \subseteq Queued(q) \ Todo
    BY <1>1, <1>2, <2>1, <2>2, <2>4, InTheQueue DEF Earlier
  <2>6. \A x \in Earlier(i) \ S : SetAside(x, S)'
    BY <1>14, <2>2, <2>3, <2>5 DEF Line
  <2>7. (\A a \in S : ~Lost(a, S)') /\ ~Lost(i, S)'
    BY <1>13, <2>2, <2>3, <2>4, <2>5 DEF Line
  <2>8. ~Off(i)'
    BY <1>3, <2>4 DEF Off
  <2>9. Up(q', i) = S /\ Earlier(i)' = Earlier(i)
    BY <1>2, <1>5, <1>17, <2>1, <2>3 DEF Earlier
  <2> QED BY <2>6, <2>7, <2>8, <2>9 DEF Placed, Line
<1>18. PlacesInv'
  BY <1>5, <1>10, <1>15, <1>16, <1>17 DEF PlacesInv, Justified
<1>19. LineInv'
  <2>1. PICK S : S = Spine
    OBVIOUS
  <2>2. S \subseteq Queued(q) \ Todo /\ r \notin S /\ Line(S, (Queued(q) \ Todo) \ S)
    BY <1>1, <1>12, <2>1
  <2>3. PICK T : T = S \cup {r}
    OBVIOUS
  <2>4. \A x \in (Queued(q) \ Todo) \ S : SetAside(x, T)'
    BY <1>14, <2>2, <2>3 DEF Line
  <2>5. \A a \in S : ~Lost(a, T)'
    BY <1>13, <2>2, <2>3 DEF Line
  <2>6. ~Lost(r, T)'
    <3>1. ~Lost(r, T)
      BY <1>11, <2>1, <2>3
    <3> QED BY <1>3, <1>5, <3>1 DEF Lost
  <2>7. (Queued(q') \ Todo') \ T = (Queued(q) \ Todo) \ S /\ Spine' = T
    BY <1>1, <1>3, <1>5, <1>6, <2>1, <2>3
  <2> QED BY <1>3, <2>3, <2>4, <2>5, <2>6, <2>7 DEF LineInv, Line
<1> QED BY <1>8, <1>18, <1>19 DEF CauseInv

(* The item that is processed in its place is failing when it has failed.  *)
LEMMA AlignedVerdict ==
  ASSUME Steadily, OrderInv, WorthInv, NEW r \in Item, Processing(r), StaysAligned(r),
         TypeInv', TreeInv', OwnInv', item' = item, results' = results, layout' = layout
  PROVE  /\ bs'[r].failing => Failed(r)' /\ bs'[r].ref = bs[r].ref
         /\ Failed(r) => bs'[r].failing
<1>1. /\ QueueInv /\ r \in Queued(q) /\ r \in Todo /\ NeedsOrder /\ SetOk(r)
      /\ Reliable /\ layout \in Layouts /\ item[r] \in Gated
      /\ \A a, b : Precedes(q, a, b) => ~Precedes(q, b, a)
  BY WhereAllStand, InTheQueue, SteadyFacts DEF OrderInv
<1>2. /\ q' = q /\ status' = status /\ q.ahead[r] = pass.nnfi
      /\ ~NeedsAFailingItem(r) /\ NeedsMet(item[r], ToSet(ChangesIn(q)))
      /\ \A i \in Item \ {r} : bs'[i] = bs[i]
      /\ Todo' = Todo \ {r}
  BY DEF StaysAligned, Unreported, StepsOn
<1>3. ~bs[r].ref => ~AnyJobFailed(item[r], bs[r]) /\ ~bs[r].unable
  BY <1>1, UnstartedIsOpen DEF SetOk, Unstarted
<1>4. Broken(r) => AnyJobFailed(item[r], bs[r])
  BY DEF Broken, AnyJobFailed, Finished
<1>5. ASSUME bs'[r].failing PROVE Failed(r)' /\ bs'[r].ref = bs[r].ref
  <2>1. bs[r].ref /\ bs'[r].ref = bs[r].ref
    BY <1>3, <1>5 DEF StaysAligned, Asks, SameRequest
  <2>2. Worthy(r)'
    BY AlignedItself
  <2>3. ~Off(r)'
    BY <1>2 DEF Off
  <2>4. ~Torn(r)'
    <3>1. ASSUME NEW c \in Needs[item[r]], status[c] # "merged", Loose(r, c)' PROVE FALSE
      <4>1. ~Torn(r)
        BY <1>1, <1>2, PlacedIsSound
      <4>2. PICK b \in Queued(q) : item[b] = c /\ ~bs[b].failing /\ (b \in Up(q, r) \/ bs[b].ref)
        BY <3>1, <4>1 DEF Torn, Loose
      <4>3. b # r /\ b \in Item
        BY <1>1, <4>2, InTheQueue DEF NeedsOrder
      <4> QED BY <1>2, <3>1, <4>2, <4>3 DEF Loose
    <3> QED BY <1>2, <3>1 DEF Torn
  <2>5. Sound(r)'
    BY <2>1, <2>2, <2>3, <2>4 DEF Worthy
  <2>6. Tested(r)'
    BY <1>1, <1>2, <2>1 DEF Tested
  <2>7. Broken(r)'
    BY <1>5, <2>2, <2>3, <2>4, <2>6 DEF Worthy
  <2> QED BY <2>1, <2>5, <2>7 DEF Failed, Sound, Telling
<1>6. Failed(r) => bs'[r].failing
  BY <1>3, <1>4 DEF StaysAligned, Failed
<1> QED BY <1>5, <1>6

(* An item stays in its place: it joins the line, or has failed there.     *)
LEMMA AlignedKeepsCause ==
  ASSUME Steadily, OrderInv, WorthInv, CauseInv, NEW r \in Item, Processing(r), StaysAligned(r),
         TypeInv', TreeInv', OwnInv', item' = item, results' = results, layout' = layout
  PROVE  CauseInv'
<1>1. /\ QueueInv /\ r \in Queued(q) /\ r \in Todo /\ r \notin Spine /\ pass.phase = "queue"
      /\ Spine \subseteq Queued(q) \ Todo
      /\ \A b \in Queued(q) : b \in Todo <=> b = r \/ Precedes(q, r, b)
      /\ \A b \in Queued(q) \ Todo : /\ b # r /\ r \notin Up(q, b) /\ Precedes(q, b, r)
                                     /\ item[r] \notin Needs[item[b]]
      /\ \A i \in Queued(q) : r \in Up(q, i) => i \in Todo /\ i # r
      /\ Up(q, r) \subseteq Queued(q) \ Todo
      /\ Earlier(r) = Queued(q) \ Todo
  BY WhereAllStand
<1>2. /\ Queued(q) \subseteq Item
      /\ \A i \in Queued(q) : \A a \in Up(q, i) : /\ a \in Queued(q) /\ a \in Item /\ a # i
                                                  /\ Precedes(q, a, i) /\ ~Precedes(q, i, a)
                                                  /\ Up(q, a) \subseteq Up(q, i)
      /\ \A a, b : Precedes(q, a, b) => ~Precedes(q, b, a)
      /\ \A i \in Queued(q) : item[i] \in Change
  BY <1>1, InTheQueue, ChangesQueued DEF OrderInv
<1>3. /\ q' = q /\ status' = status /\ StaysAround /\ q.ahead[r] = pass.nnfi
      /\ ~NeedsAFailingItem(r) /\ NeedsMet(item[r], ToSet(ChangesIn(q)))
      /\ \A i \in Item \ {r} : bs'[i] = bs[i]
      /\ Todo' = Todo \ {r} /\ pass'.phase = "queue"
      /\ pass'.nnfi = IF bs'[r].failing THEN pass.nnfi ELSE r
  BY DEF StaysAligned, Unreported, StepsOn, StaysAround
<1>4. Up(q, r) = Spine
  BY <1>1, <1>3, PlacedIsSound
<1>5. /\ bs'[r].failing => Spine' = Spine
      /\ ~bs'[r].failing => Spine' = Spine \cup {r}
  BY <1>3, <1>4, NoItemAssumption DEF Spine
<1>6. /\ bs'[r].failing => Failed(r)' /\ bs'[r].ref = bs[r].ref
      /\ Failed(r) => bs'[r].failing
  BY AlignedVerdict
<1>7. ASSUME NEW x \in Queued(q), Failed(x) PROVE Failed(x)'
  BY <1>2, <1>3, <1>6, <1>7, FailedStays
<1>8. ListsInv'
  <2>1. Listed(r)'
    <3>1. CASE SameRequest(bs[r], bs'[r])
      BY <1>1, <1>3, <3>1 DEF CauseInv, ListsInv, Listed, SameRequest
    <3>2. CASE bs'[r].other = ChangesAhead(q', r)
      <4>1. PICK chain : chain = ItemsAhead(q', r)
        OBVIOUS
      <4>2. /\ Up(q', r) = {chain[n] : n \in DOMAIN chain}
            /\ bs'[r].other = [n \in DOMAIN chain |-> item[chain[n]]]
        BY <3>2, <4>1 DEF Up, ToSet, ChangesAhead
      <4>3. ToSet(bs'[r].other) = {item[a] : a \in Up(q', r)}
        BY <4>2 DEF ToSet
      <4> QED BY <4>3 DEF Listed
    <3> QED BY <3>1, <3>2 DEF StaysAligned, Asks
  <2>2. ASSUME NEW i \in Queued(q), i # r PROVE Listed(i)'
    BY <1>2, <1>3, <2>2 DEF CauseInv, ListsInv, Listed
  <2> QED BY <1>3, <2>1, <2>2 DEF ListsInv
<1>9. ASSUME NEW i \in Queued(q), i # r, Tested(i)' \/ i \in Spine' PROVE Justified(i)
  <2>1. ASSUME NEW k \in Queued(q), k = i \/ i \in Up(q, k), bs'[k].ref
        PROVE  Tested(i) \/ i \in Spine
    BY <1>2, <1>3, <1>4, <1>9, <2>1 DEF Tested
  <2>2. Tested(i) \/ i \in Spine
    BY <1>3, <1>5, <1>9, <2>1 DEF Tested
  <2> QED BY <2>2 DEF CauseInv, PlacesInv
<1>10. \A S : Spine \subseteq S => ~Lost(r, S)
  BY <1>3, LineMet
<1>11. ASSUME NEW x \in Queued(q), x # r, NEW S, SetAside(x, S) PROVE SetAside(x, S)'
  BY <1>2, <1>3, <1>11, AsideStays
<1>12. \A S : \A x \in Queued(q) : ~Lost(x, S) => ~Lost(x, S)'
  BY <1>2, <1>3, AsideStays
<1>13. Justified(r)'
  <2>1. PICK S : S = Spine
    OBVIOUS
  <2>2. S \subseteq Queued(q) \ Todo /\ Line(S, (Queued(q) \ Todo) \ S) /\ ~Lost(r, S)
    BY <1>1, <1>10, <2>1 DEF CauseInv, LineInv
  <2>3. \A x \in (Queued(q) \ Todo) \ S : SetAside(x, S)'
    BY <1>1, <1>11, <2>2 DEF Line
  <2>4. (\A a \in S : ~Lost(a, S)') /\ ~Lost(r, S)'
    BY <1>1, <1>12, <2>2 DEF Line
  <2>5. ~Off(r)'
    BY <1>3 DEF Off
  <2>6. Up(q', r) = S /\ Earlier(r)' = Queued(q) \ Todo
    BY <1>1, <1>3, <1>4, <2>1 DEF Earlier
  <2> QED BY <2>3, <2>4, <2>5, <2>6 DEF Justified, Placed, Line
<1>14. ASSUME NEW i \in Queued(q), Caused(i) PROVE Caused(i)'
  BY <1>2, <1>3, <1>7, <1>14 DEF Caused
<1>15. ASSUME NEW i \in Queued(q), i # r, Placed(i) PROVE Justified(i)'
  <2>1. PICK S : S = Up(q, i)
    OBVIOUS
  <2>2. /\ Line(S, Earlier(i) \ S) /\ ~Lost(i, S) /\ ~Off(i)
        /\ S \subseteq Queued(q) /\ Earlier(i) \subseteq Queued(q)
    BY <1>2, <1>15, <2>1 DEF Placed, Earlier
  <2>3. ASSUME r \in Earlier(i) \ S PROVE Failed(r) /\ SetAside(r, S)'
    <3>1. i \in Todo
      BY <1>1, <1>2, <2>3 DEF Earlier
    <3>2. Spine \subseteq S
      BY <2>1, <2>2, <2>3, <3>1, LaterOnLine
    <3>3. SetAside(r, S) /\ ~Lost(r, S)
      BY <1>10, <2>2, <2>3, <3>2 DEF Line
    <3>4. Failed(r) /\ Failed(r)' /\ Up(q, r) = {a \in S : Precedes(q, a, r)}
      BY <1>1, <1>7, <3>3 DEF SetAside
    <3> QED BY <1>3, <3>4 DEF SetAside
  <2>4. \A x \in Earlier(i) \ S : SetAside(x, S)'
    BY <1>11, <2>2, <2>3 DEF Line
  <2>5. (\A a \in S : ~Lost(a, S)') /\ ~Lost(i, S)'
    BY <1>12, <2>2 DEF Line
  <2>6. Up(q', i) = S /\ Earlier(i)' = Earlier(i)
    BY <1>3, <2>1 DEF Earlier
  <2>7. ~Off(i)' \/ Caused(i)'
    <3>1. CASE i \notin Todo
      BY <1>3, <3>1 DEF Off
    <3>2. CASE i \in Todo /\ r \in S
      <4>1. CASE bs'[r].failing
        BY <1>6, <2>6, <3>2, <4>1 DEF Caused
      <4>2. CASE ~bs'[r].failing
        <5>1. S \ Todo = Spine
          BY <2>1, <2>2, <3>2 DEF Off
        <5>2. S \ Todo' = Spine'
          BY <1>1, <1>3, <1>5, <3>2, <4>2, <5>1
        <5> QED BY <2>6, <5>2 DEF Off
      <4> QED BY <4>1, <4>2
    <3>3. CASE i \in Todo /\ r \notin S
      <4>1. r \in Earlier(i) \ S
        BY <1>1, <1>15, <3>3 DEF Earlier
      <4>2. Spine' = Spine
        BY <1>5, <1>6, <2>3, <4>1
      <4>3. S \ Todo = Spine
        BY <2>1, <2>2, <3>3 DEF Off
      <4>4. S \ Todo' = Spine'
        BY <1>3, <3>3, <4>2, <4>3
      <4> QED BY <2>6, <4>4 DEF Off
    <3> QED BY <3>1, <3>2, <3>3
  <2>8. Placed(i)' \/ Caused(i)'
    BY <2>4, <2>5, <2>6, <2>7 DEF Placed, Line
  <2> QED BY <2>8 DEF Justified
<1>16. PlacesInv'
  BY <1>3, <1>9, <1>13, <1>14, <1>15 DEF PlacesInv, Justified
<1>17. LineInv'
  <2>1. PICK S : S = Spine
    OBVIOUS
  <2>2. S \subseteq Queued(q) \ Todo /\ r \notin S /\ Line(S, (Queued(q) \ Todo) \ S) /\ ~Lost(r, S)
    BY <1>1, <1>10, <2>1 DEF CauseInv, LineInv
  <2>3. \A x \in (Queued(q) \ Todo) \ S : SetAside(x, S)'
    BY <1>1, <1>11, <2>2 DEF Line
  <2>4. (\A a \in S : ~Lost(a, S)') /\ ~Lost(r, S)'
    BY <1>1, <1>12, <2>2 DEF Line
  <2>5. CASE bs'[r].failing
    <3>1. SetAside(r, S)'
      <4>1. S = {a \in S : Precedes(q, a, r)}
        BY <1>1, <2>2
      <4> QED BY <1>3, <1>4, <1>6, <2>1, <2>5, <4>1 DEF SetAside
    <3>2. Spine' = S /\ (Queued(q') \ Todo') \ S = ((Queued(q) \ Todo) \ S) \cup {r}
      BY <1>1, <1>3, <1>5, <2>1, <2>2, <2>5
    <3> QED BY <1>3, <2>3, <2>4, <3>1, <3>2 DEF LineInv, Line
  <2>6. CASE ~bs'[r].failing
    <3>1. PICK T : T = S \cup {r}
      OBVIOUS
    <3>2. ASSUME NEW x \in (Queued(q) \ Todo) \ S PROVE SetAside(x, T)'
      <4>1. ~Precedes(q, r, x) /\ item[r] \notin Needs[item[x]]
        BY <1>1, <1>2, <3>2
      <4>2. {a \in S : Precedes(q, a, x)} = {a \in T : Precedes(q, a, x)}
        BY <3>1, <4>1
      <4>3. Lost(x, S)' => Lost(x, T)'
        BY <1>3, <3>1, <4>1 DEF Lost
      <4> QED BY <1>3, <2>3, <3>2, <4>2, <4>3 DEF SetAside
    <3>3. \A a \in T : ~Lost(a, T)'
      BY <2>4, <3>1 DEF Lost
    <3>4. Spine' = T /\ (Queued(q') \ Todo') \ T = (Queued(q) \ Todo) \ S
      BY <1>1, <1>3, <1>5, <2>1, <2>2, <2>6, <3>1
    <3> QED BY <1>3, <3>2, <3>3, <3>4 DEF LineInv, Line
  <2> QED BY <2>5, <2>6
<1> QED BY <1>8, <1>16, <1>17 DEF CauseInv

(* An item that goes takes nothing from the others but what is behind it.  *)
LEMMA GoneAside ==
  ASSUME QueueInv, TrunkInv, NEW r \in Item, q' = DequeueItem(q, r), ResetsBehind(r, q, bs),
         item' = item, results' = results, layout' = layout,
         \A c \in Change : status'[c] = "merged" <=> status[c] = "merged",
         NEW x \in Queued(q'), NEW S, r \notin S
  PROVE  /\ Lost(x, S)' <=> Lost(x, S)
         /\ SetAside(x, S) => SetAside(x, S)'
<1>1. /\ Queued(q') = Queued(q) \ {r} /\ x \in Item /\ x # r /\ x \in Queued(q)
      /\ \A a, b : Precedes(q', a, b) <=> Precedes(q, a, b) /\ a # r /\ b # r
      /\ Up(q', x) = Up(q, x) \ {r}
  <2>1. q \in Queues /\ WellLinked(q) /\ Queued(q) \subseteq Item
    BY InTheQueue
  <2> QED BY <2>1, DequeuedUp
<1>2. Lost(x, S)' <=> Lost(x, S)
  <2>1. Needs[item[x]] \subseteq Change
    BY <1>1, ChangesQueued, NeedsAssumption
  <2> QED BY <1>1, <2>1 DEF Lost
<1>3. ASSUME Failed(x), Up(q, x) = {a \in S : Precedes(q, a, x)}
      PROVE  Failed(x)' /\ Up(q', x) = {a \in S : Precedes(q', a, x)}
  <2>1. r \notin Up(q, x)
    BY <1>3
  <2>2. bs'[x] = bs[x]
    BY <2>1, BegunAnew
  <2> QED BY <1>1, <1>3, <2>1, <2>2, FailedStays
<1> QED BY <1>2, <1>3 DEF SetAside

(* So the tests that go on have the cause they had.                        *)
LEMMA GoneKeepsPlaces ==
  ASSUME QueueInv, TrunkInv, ListsInv, PlacesInv, NEW r \in Item, q' = DequeueItem(q, r),
         ResetsBehind(r, q, bs), item' = item, results' = results, layout' = layout,
         \A c \in Change : status'[c] = "merged" <=> status[c] = "merged",
         \A i \in Queued(q') : Off(i)' /\ r \notin Up(q, i) => Off(i),
         \A i \in Spine' : i \in Spine /\ r \notin Up(q, i)
  PROVE  ListsInv' /\ PlacesInv'
<1>1. /\ Queued(q) \subseteq Item /\ q \in Queues /\ WellLinked(q)
      /\ \A i \in Queued(q) : \A a \in Up(q, i) : /\ a \in Queued(q) /\ a \in Item /\ a # i
                                                  /\ Precedes(q, a, i) /\ ~Precedes(q, i, a)
                                                  /\ Up(q, a) \subseteq Up(q, i)
  BY InTheQueue
<1>2. /\ Queued(q') = Queued(q) \ {r}
      /\ \A a, b : Precedes(q', a, b) <=> Precedes(q, a, b) /\ a # r /\ b # r
  BY <1>1, DequeuedUp
<1>3. \A i \in Queued(q') : /\ i \in Queued(q) /\ i \in Item /\ i # r
                            /\ Up(q', i) = Up(q, i) \ {r}
                            /\ r \in Up(q, i) => ~bs'[i].ref
                            /\ r \notin Up(q, i) => bs'[i] = bs[i]
  BY BegunAnew
<1>4. ListsInv'
  BY <1>3 DEF ListsInv, Listed
<1>5. ASSUME NEW i \in Queued(q'), Tested(i)' \/ i \in Spine'
      PROVE  r \notin Up(q, i) /\ Justified(i)
  <2>1. ASSUME NEW k \in Queued(q'), k = i \/ i \in Up(q', k), bs'[k].ref
        PROVE  r \notin Up(q, i) /\ Tested(i)
    <3>1. r \notin Up(q, k) /\ bs'[k] = bs[k] /\ k \in Queued(q)
      BY <1>3, <2>1
    <3>2. k = i \/ i \in Up(q, k)
      BY <1>3, <2>1
    <3> QED BY <1>1, <2>1, <3>1, <3>2 DEF Tested
  <2>2. r \notin Up(q, i) /\ (Tested(i) \/ i \in Spine)
    BY <1>5, <2>1 DEF Tested
  <2> QED BY <1>3, <2>2 DEF PlacesInv
<1>6. ASSUME NEW i \in Queued(q'), r \notin Up(q, i), Caused(i) PROVE Caused(i)'
  <2>1. PICK a \in Up(q, i) : Failed(a)
    BY <1>6 DEF Caused
  <2>2. a \in Up(q', i) /\ a \in Queued(q') /\ r \notin Up(q, a)
    BY <1>1, <1>2, <1>3, <1>6, <2>1
  <2>3. Failed(a)'
    BY <1>3, <2>1, <2>2, FailedStays
  <2> QED BY <2>2, <2>3 DEF Caused
<1>7. ASSUME NEW i \in Queued(q'), r \notin Up(q, i), Placed(i) PROVE Placed(i)'
  <2>1. PICK S : S = Up(q, i)
    OBVIOUS
  <2>2. /\ Line(S, Earlier(i) \ S) /\ ~Lost(i, S) /\ ~Off(i) /\ r \notin S
        /\ S \subseteq Queued(q)
    BY <1>1, <1>3, <1>7, <2>1 DEF Placed
  <2>3. Up(q', i) = S /\ Earlier(i)' = Earlier(i) \ {r} /\ S \subseteq Queued(q')
    BY <1>2, <1>3, <1>7, <2>1, <2>2 DEF Earlier
  <2>4. \A x \in Earlier(i)' : x \in Queued(q') /\ x \in Earlier(i)
    BY <1>2, <2>3 DEF Earlier
  <2>5. \A x \in Earlier(i)' \ S : SetAside(x, S)'
    BY <2>2, <2>4, GoneAside DEF Line
  <2>6. (\A a \in S : ~Lost(a, S)') /\ ~Lost(i, S)'
    BY <2>2, <2>3, GoneAside DEF Line
  <2>7. ~Off(i)'
    BY <1>7, <2>2
  <2> QED BY <2>3, <2>5, <2>6, <2>7 DEF Placed, Line
<1>8. PlacesInv'
  BY <1>5, <1>6, <1>7 DEF PlacesInv, Justified
<1> QED BY <1>4, <1>8

(* An item leaves without merging.                                         *)
LEMMA LeavingKeepsCause ==
  ASSUME Steadily, OrderInv, CauseInv, NEW r \in Item, Processing(r), LeavesFailed(r),
         item' = item, results' = results, layout' = layout
  PROVE  CauseInv'
<1>1. /\ QueueInv /\ TrunkInv /\ r \in Queued(q) /\ r \in Todo /\ pass.phase = "queue"
      /\ Spine \subseteq Queued(q) \ Todo
      /\ \A b \in Queued(q) \ Todo : b # r /\ r \notin Up(q, b)
      /\ q \in Queues /\ WellLinked(q)
  BY WhereAllStand, InTheQueue DEF OrderInv
<1>2. /\ q' = DequeueItem(q, r) /\ status' = status
      /\ ResetsBehind(r, q, bs) /\ StepsOn(r, pass.nnfi)
      /\ Todo' = Todo \ {r} /\ pass'.phase = "queue"
  BY DEF LeavesFailed, Unreported, StepsOn
<1>3. Spine' = Spine
  BY <1>1, <1>2, SpineKeptWithout DEF OrderInv
<1>4. Queued(q') = Queued(q) \ {r} /\ \A i \in Item \ {r} : Up(q', i) = Up(q, i) \ {r}
  BY <1>1, <1>2, DequeuedUp
<1>5. ASSUME NEW i \in Queued(q'), Off(i)', r \notin Up(q, i) PROVE Off(i)
  <2>1. i \in Item \ {r}
    BY <1>1, <1>4, InTheQueue
  <2> QED BY <1>2, <1>3, <1>4, <1>5, <2>1 DEF Off
<1>6. \A i \in Spine' : i \in Spine /\ r \notin Up(q, i)
  BY <1>1, <1>3
<1>7. ListsInv' /\ PlacesInv'
  BY <1>1, <1>2, <1>5, <1>6, GoneKeepsPlaces DEF CauseInv
<1>8. LineInv'
  <2>1. PICK S : S = Spine
    OBVIOUS
  <2>2. S \subseteq Queued(q) \ Todo /\ r \notin S /\ Line(S, (Queued(q) \ Todo) \ S)
    BY <1>1, <2>1 DEF CauseInv, LineInv
  <2>3. \A x \in Queued(q) \ Todo : x \in Queued(q')
    BY <1>1, <1>4
  <2>4. (\A x \in (Queued(q) \ Todo) \ S : SetAside(x, S)') /\ \A a \in S : ~Lost(a, S)'
    BY <1>1, <1>2, <2>2, <2>3, GoneAside DEF Line
  <2>5. (Queued(q') \ Todo') \ S = (Queued(q) \ Todo) \ S
    BY <1>1, <1>2, <1>4
  <2> QED BY <1>2, <1>3, <2>1, <2>4, <2>5 DEF LineInv, Line
<1> QED BY <1>7, <1>8 DEF CauseInv

(* A change merges, and with it what the tests behind it were to be on.    *)
LEMMA MergedKeepsCause ==
  ASSUME Steadily, OrderInv, WorthInv, CauseInv, NEW r \in Item, Processing(r), LeavesMerged(r),
         item' = item, results' = results, layout' = layout
  PROVE  CauseInv'
<1>1. /\ QueueInv /\ TrunkInv /\ NeedsOrder /\ r \in Queued(q) /\ r \in Todo /\ pass.phase = "queue"
      /\ \A b \in Queued(q) \ Todo : item[r] \notin Needs[item[b]]
  BY WhereAllStand DEF OrderInv
<1>2. /\ q \in Queues /\ WellLinked(q) /\ Queued(q) \subseteq Item
      /\ \A i \in Queued(q) : \A a \in Up(q, i) : /\ a \in Queued(q) /\ a \in Item /\ a # i
                                                  /\ Precedes(q, a, i)
                                                  /\ Up(q, a) \subseteq Up(q, i)
      /\ \A a, b, c : Precedes(q, a, b) /\ Precedes(q, b, c) => Precedes(q, a, c)
      /\ \A a, b : Precedes(q, a, b) => ~Precedes(q, b, a)
      /\ \A a, b \in Queued(q) : a # b => Precedes(q, a, b) \/ Precedes(q, b, a)
      /\ \A i \in Queued(q) : item[i] \in Change
  BY <1>1, InTheQueue, ChangesQueued
<1>3. /\ q' = DequeueItem(q, r) /\ Todo' = Todo \ {r} /\ pass'.phase = "queue" /\ pass'.nnfi = NoItem
      /\ Merges(r) /\ AllJobsSucceeded(item[r], bs[r])
      /\ (\A i \in Item \ {r} : bs'[i] = bs[i]) \/ ResetsBehind(r, q, bs)
  BY DEF LeavesMerged, StepsOn
<1>4. Spine = {} /\ Spine' = {} /\ Up(q, r) = {} /\ Needs[item[r]] \subseteq Merged
  BY <1>3, MergedAsTested DEF Spine
<1>5. ~Failed(r) /\ \A S : ~Lost(r, S)
  <2>1. ~Broken(r)
    BY <1>3 DEF Broken, AllJobsSucceeded
  <2>2. \A c \in Needs[item[r]] : status[c] = "merged"
    BY <1>1, <1>2, <1>4, NeedsAssumption DEF TrunkInv
  <2> QED BY <2>1, <2>2 DEF Failed, Lost
<1>6. \A c \in Change : status'[c] = IF c = item[r] THEN "merged" ELSE status[c]
  <2>1. PICK c \in Change : c = item[r]
    BY <1>1, <1>2
  <2>2. status' = [status EXCEPT ![c] = "merged"]
    BY <1>3, <2>1 DEF Merges
  <2>3. status \in [Change -> Statuses]
    BY DEF Steadily, TypeInv, ServicesTyped
  <2> QED BY <2>1, <2>2, <2>3
<1>7. /\ Queued(q') = Queued(q) \ {r}
      /\ \A i \in Item \ {r} : Up(q', i) = Up(q, i) \ {r}
      /\ \A a, b : Precedes(q', a, b) <=> Precedes(q, a, b) /\ a # r /\ b # r
  BY <1>1, <1>2, <1>3, DequeuedUp
<1>8. \A i \in Queued(q') : /\ i \in Queued(q) /\ i \in Item /\ i # r /\ Up(q', i) = Up(q, i) \ {r}
                            /\ item[i] \in Change /\ Needs[item[i]] \subseteq Change
                            /\ \/ bs'[i] = bs[i]
                               \/ r \in Up(q, i) /\ ~bs'[i].ref /\ ResetsBehind(r, q, bs)
  BY <1>1, <1>2, <1>3, <1>7, BegunAnew, NeedsAssumption
<1>9. ASSUME NEW x \in Queued(q'), NEW S, NEW T, T = S \ {r}
      PROVE  /\ Lost(x, T)' => Lost(x, S)
             /\ Lost(x, S) /\ (r \in S \/ item[r] \notin Needs[item[x]]) => Lost(x, T)'
  <2>1. ASSUME NEW c \in Needs[item[x]], status'[c] # "merged",
               \A y \in Queued(q') : item'[y] = c => y \notin T
        PROVE  status[c] # "merged" /\ \A y \in Queued(q) : item[y] = c => y \notin S
    <3>1. c \in Change /\ c # item[r]
      BY <1>6, <1>8, <2>1
    <3> QED BY <1>6, <1>7, <1>9, <2>1, <3>1
  <2>2. ASSUME NEW c \in Needs[item[x]], status[c] # "merged", r \in S \/ item[r] # c,
               \A y \in Queued(q) : item[y] = c => y \notin S
        PROVE  status'[c] # "merged" /\ \A y \in Queued(q') : item'[y] = c => y \notin T
    <3>1. c \in Change /\ c # item[r]
      BY <1>1, <1>8, <2>2
    <3> QED BY <1>6, <1>7, <1>9, <2>2, <3>1
  <2> QED BY <2>1, <2>2 DEF Lost
<1>10. ASSUME NEW x \in Queued(q'), bs'[x] = bs[x], Failed(x) PROVE Failed(x)'
  BY <1>10, FailedStays
<1>11. ASSUME NEW x \in Queued(q'), NEW S, NEW T, T = S \ {r}, SetAside(x, S),
              \/ r \in S /\ \A i \in Item \ {r} : bs'[i] = bs[i]
              \/ r \notin S /\ item[r] \notin Needs[item[x]]
       PROVE  SetAside(x, T)'
  <2>1. Lost(x, S) => Lost(x, T)'
    BY <1>9, <1>11
  <2>2. ASSUME Failed(x), Up(q, x) = {a \in S : Precedes(q, a, x)}
        PROVE  Failed(x)' /\ Up(q', x) = {a \in T : Precedes(q', a, x)}
    <3>1. bs'[x] = bs[x]
      BY <1>8, <1>11, <2>2
    <3>2. Up(q', x) = {a \in T : Precedes(q', a, x)}
      BY <1>7, <1>8, <1>11, <2>2
    <3> QED BY <1>10, <2>2, <3>1, <3>2
  <2> QED BY <1>11, <2>1, <2>2 DEF SetAside
<1>12. ListsInv'
  BY <1>8 DEF CauseInv, ListsInv, Listed
<1>13. ASSUME NEW i \in Queued(q'), Tested(i)'
       PROVE  Justified(i) /\ (r \in Up(q, i) => \A k \in Item \ {r} : bs'[k] = bs[k])
  <2>1. PICK k \in Queued(q') : (k = i \/ i \in Up(q', k)) /\ bs'[k].ref
    BY <1>13 DEF Tested
  <2>2. /\ k \in Queued(q) /\ k \in Item \ {r} /\ (k = i \/ i \in Up(q, k)) /\ bs[k].ref
        /\ Up(q, i) \subseteq Up(q, k)
    BY <1>2, <1>8, <2>1
  <2>3. ASSUME r \in Up(q, i), ResetsBehind(r, q, bs) PROVE FALSE
    BY <1>1, <1>3, <2>1, <2>2, <2>3, BegunAnew
  <2>4. Tested(i)
    BY <2>2 DEF Tested
  <2> QED BY <1>3, <1>8, <2>3, <2>4 DEF CauseInv, PlacesInv
<1>14. ASSUME NEW i \in Queued(q'), r \in Up(q, i) => \A k \in Item \ {r} : bs'[k] = bs[k], Caused(i)
       PROVE  Caused(i)'
  <2>1. PICK a \in Up(q, i) : Failed(a)
    BY <1>14 DEF Caused
  <2>2. a \in Queued(q') /\ a \in Up(q', i) /\ a \in Item \ {r} /\ (r \in Up(q, a) => r \in Up(q, i))
    BY <1>2, <1>5, <1>7, <1>8, <2>1
  <2>3. bs'[a] = bs[a]
    BY <1>8, <1>14, <2>2
  <2> QED BY <1>10, <2>1, <2>2, <2>3 DEF Caused
<1>15. ASSUME NEW i \in Queued(q'), r \in Up(q, i) => \A k \in Item \ {r} : bs'[k] = bs[k], Placed(i)
       PROVE  Placed(i)'
  <2>1. PICK S : S = Up(q, i)
    OBVIOUS
  <2>2. PICK T : T = S \ {r}
    OBVIOUS
  <2>3. /\ Line(S, Earlier(i) \ S) /\ ~Lost(i, S) /\ ~Off(i) /\ Up(q', i) = T
        /\ Earlier(i)' = Earlier(i) \ {r} /\ T \subseteq Queued(q')
        /\ \A x \in Earlier(i)' : x \in Queued(q') /\ Precedes(q, x, i) /\ x \in Earlier(i)
    BY <1>2, <1>7, <1>8, <1>15, <2>1, <2>2 DEF Placed, Earlier
  <2>4. r \in S \/ Precedes(q, i, r)
    <3>1. ASSUME r \notin S, Precedes(q, r, i) PROVE FALSE
      BY <1>1, <1>5, <2>3, <3>1 DEF Line, SetAside, Earlier
    <3> QED BY <1>1, <1>2, <1>8, <3>1
  <2>5. ASSUME NEW x \in Earlier(i)' \ T PROVE SetAside(x, T)'
    <3>1. x \in Queued(q') /\ x # r /\ SetAside(x, S)
      BY <1>8, <2>2, <2>3, <2>5 DEF Line
    <3>2. ASSUME r \notin S PROVE item[r] \notin Needs[item[x]]
      <4>1. Precedes(q, x, r)
        BY <1>2, <2>3, <2>4, <2>5, <3>2
      <4> QED BY <1>1, <1>2, <1>8, <3>1, <4>1 DEF NeedsOrder
    <3> QED BY <1>11, <1>15, <2>1, <2>2, <3>1, <3>2
  <2>6. (\A a \in T : ~Lost(a, T)') /\ ~Lost(i, T)'
    BY <1>9, <2>2, <2>3 DEF Line
  <2>7. ~Off(i)'
    BY <1>1, <1>3, <1>4, <1>8, <2>1, <2>2, <2>3 DEF Off
  <2> QED BY <2>3, <2>5, <2>6, <2>7 DEF Placed, Line
<1>16. PlacesInv'
  BY <1>4, <1>13, <1>14, <1>15 DEF PlacesInv, Justified
<1>17. LineInv'
  <2>1. PICK S : S = {}
    OBVIOUS
  <2>2. Line(S, Queued(q) \ Todo) /\ S \ {r} = S /\ r \notin S
    BY <1>1, <1>4, <2>1 DEF CauseInv, LineInv
  <2>3. Queued(q') \ Todo' = Queued(q) \ Todo
    BY <1>1, <1>3, <1>7
  <2>4. \A x \in Queued(q) \ Todo : SetAside(x, S)'
    BY <1>1, <1>11, <2>2, <2>3 DEF Line
  <2>5. Line(S, Queued(q) \ Todo)'
    BY <2>1, <2>3, <2>4 DEF Line
  <2> QED BY <1>3, <1>4, <2>1, <2>3, <2>4 DEF LineInv, Line
<1> QED BY <1>12, <1>16, <1>17 DEF CauseInv

(* The pass goes on where it is, or is over, or begins.                    *)
KeepsTheLine ==
  \/ pass' = pass
  \/ /\ Spine' = {} /\ Todo' \in {{}, Queued(q)}
     /\ pass'.phase = "queue" => Todo' = Queued(q)

(* The steps that leave the queue as it is leave everything its cause.     *)
LEMMA PlaceKeepsCause ==
  ASSUME TypeInv, TrunkInv, TrunkInv', SpineInv, SetsInv, CauseInv, KeepsItsPlace,
         KeepsTelling, KeepsTheLine
  PROVE  CauseInv'
<1>1. /\ QueueInv /\ q' = q /\ item' = item /\ layout' = layout /\ layout \in Layouts
      /\ Queued(q) \subseteq Item /\ \A i \in Queued(q) : item[i] \in Change
      /\ \A i \in Queued(q) : \A a \in Up(q, i) : a \in Queued(q)
      /\ \A k \in Queued(q) : bs'[k].ref = bs[k].ref /\ bs'[k].other = bs[k].other
  <2>1. QueueInv /\ layout \in Layouts
    BY DEF TypeInv, GateInv, ServicesTyped
  <2> QED BY <2>1, InTheQueue, ChangesQueued DEF KeepsItsPlace
<1>2. \A c \in Change : status'[c] = "merged" <=> status[c] = "merged"
  BY DEF KeepsItsPlace, TrunkInv, Merged
<1>3. ASSUME NEW x \in Queued(q), Failed(x) PROVE Failed(x)'
  <2>1. bs[x].ref
    <3>1. SetOk(x)
      BY <1>1, <1>3 DEF SetsInv, Open
    <3>2. PICK j \in Jobs(item[x]) : bs[x].builds[j] \in {"FAILURE", "SKIPPED"}
      BY <1>3 DEF Failed, Broken
    <3>3. j \in Job
      BY <1>1, <3>2, LayoutAssumption DEF Jobs
    <3> QED BY <3>1, <3>2, <3>3 DEF SetOk, Unstarted
  <2>2. Telling(x) /\ Broken(x) /\ Calm(x)
    BY <1>3 DEF Failed, Telling
  <2> QED BY <2>1, <2>2 DEF KeepsTelling, Failed, Telling
<1>4. ASSUME NEW x \in Queued(q), NEW S PROVE Lost(x, S)' <=> Lost(x, S)
  <2>1. Needs[item[x]] \subseteq Change
    BY <1>1, NeedsAssumption
  <2> QED BY <1>1, <1>2, <2>1, SameNeeds
<1>5. ASSUME NEW x \in Queued(q), NEW S, SetAside(x, S) PROVE SetAside(x, S)'
  BY <1>1, <1>3, <1>4, <1>5 DEF SetAside
<1>6. ASSUME NEW S, NEW X, S \subseteq Queued(q), X \subseteq Queued(q), Line(S, X) PROVE Line(S, X)'
  BY <1>4, <1>5, <1>6 DEF Line
<1>7. \A i \in Queued(q) : Tested(i)' => Tested(i)
  BY <1>1 DEF Tested
<1>8. \A i : Spine' = Spine \/ i \notin Spine'
  BY <1>1 DEF KeepsTheLine, Spine
<1>9. ASSUME NEW i \in Queued(q), Caused(i) PROVE Caused(i)'
  BY <1>1, <1>3, <1>9 DEF Caused
<1>10. ASSUME NEW i \in Queued(q), Placed(i) PROVE Placed(i)'
  <2>1. PICK S : S = Up(q, i)
    OBVIOUS
  <2>2. PICK X : X = Earlier(i) \ S
    OBVIOUS
  <2>3. /\ Line(S, X) /\ ~Lost(i, S) /\ ~Off(i) /\ S \subseteq Queued(q) /\ X \subseteq Queued(q)
        /\ Up(q', i) = S /\ Earlier(i)' \ S = X
    BY <1>1, <1>10, <2>1, <2>2 DEF Placed, Earlier
  <2>4. ~Off(i)'
    <3>1. CASE pass' = pass
      BY <1>1, <2>1, <2>3, <3>1 DEF Off, Todo, Spine
    <3>2. CASE Spine' = {} /\ Todo' \in {{}, Queued(q)}
      BY <2>3, <3>2 DEF Off
    <3> QED BY <3>1, <3>2 DEF KeepsTheLine
  <2>5. Line(S, X)' /\ ~Lost(i, S)'
    BY <1>4, <1>6, <2>3
  <2> QED BY <2>3, <2>4, <2>5 DEF Placed
<1>11. ListsInv'
  BY <1>1 DEF CauseInv, ListsInv, Listed
<1>12. PlacesInv'
  <2>1. ASSUME NEW i \in Queued(q), Tested(i)' \/ i \in Spine' PROVE Justified(i)
    BY <1>7, <1>8, <2>1 DEF CauseInv, PlacesInv
  <2> QED BY <1>1, <1>9, <1>10, <2>1 DEF PlacesInv, Justified
<1>13. LineInv'
  <2>1. PICK S : S = Spine
    OBVIOUS
  <2>2. PICK X : X = (Queued(q) \ Todo) \ S
    OBVIOUS
  <2>3. CASE pass' = pass
    <3>1. Spine' = S /\ (Queued(q') \ Todo') \ S = X /\ pass'.phase = pass.phase
      BY <1>1, <2>1, <2>2, <2>3 DEF Spine, Todo
    <3>2. CASE pass.phase = "queue"
      <4>1. Line(S, X) /\ S \subseteq Queued(q) /\ X \subseteq Queued(q)
        BY <1>1, <2>1, <2>2, <3>2 DEF CauseInv, LineInv, SpineInv
      <4>2. Line(S, X)'
        BY <1>6, <4>1
      <4> QED BY <3>1, <3>2, <4>2 DEF LineInv
    <3>3. CASE pass.phase # "queue"
      BY <2>1, <3>1, <3>3 DEF CauseInv, LineInv
    <3> QED BY <3>2, <3>3
  <2>4. CASE Spine' = {} /\ (pass'.phase = "queue" => Todo' = Queued(q))
    <3>1. Queued(q') = Queued(q)
      BY <1>1
    <3> QED BY <2>4, <3>1 DEF LineInv, Line
  <2> QED BY <2>3, <2>4 DEF KeepsTheLine
<1> QED BY <1>11, <1>12, <1>13 DEF CauseInv

(* This is all that happens in the main loop between the items,            *)
LEMMA LoopKeepsCause ==
  ASSUME Reliable, TypeInv, WholeInv, WholeInv', CauseInv,
         WakeUp \/ EndResults \/ StartPass \/ EndPass \/ HandleResult
  PROVE  CauseInv'
<1>1. TrunkInv /\ TrunkInv' /\ SpineInv /\ SetsInv /\ TreeInv /\ OwnInv /\ QueueInv
  BY WholeIsSteady DEF WholeInv, OrderInv
<1>2. KeepsItsPlace /\ KeepsTelling
  BY <1>1, LoopKeepsPlace, ResultKeepsPlace
<1>3. KeepsTheLine
  <2>1. CASE StartPass
    <3>1. pass'.todo = q.order /\ pass'.nnfi = NoItem
      BY <2>1 DEF StartPass, At
    <3> QED BY <3>1 DEF KeepsTheLine, Spine, Todo, Queued, ToSet
  <2>2. CASE ~StartPass
    <3>1. \/ pass' = pass
          \/ pass'.phase # "queue" /\ pass'.todo = <<>> /\ pass'.nnfi = NoItem
      BY <2>2 DEF WakeUp, EndResults, EndPass, HandleResult, HandleBuild, HandleMerge, Abort,
                  Sleeping, At
    <3> QED BY <3>1 DEF KeepsTheLine, Spine, Todo, ToSet
  <2> QED BY <2>1, <2>2
<1> QED BY <1>1, <1>2, <1>3, PlaceKeepsCause

(* when an answer comes,                                                   *)
LEMMA AnswersKeepCause ==
  ASSUME TypeInv, WholeInv, WholeInv', CauseInv,
         \/ \E i \in Item, j \in Job, r \in {"SUCCESS", "FAILURE", "retry"} : BuildCompleted(i, j, r)
         \/ \E m \in merging, r \in {"merged", "conflict", "updated"} : MergeCompleted(m, r)
         \/ UNCHANGED vars
  PROVE  CauseInv'
<1>1. TrunkInv /\ TrunkInv' /\ SpineInv /\ SetsInv
  BY DEF WholeInv, OrderInv
<1>2. KeepsItsPlace /\ KeepsTelling /\ KeepsTheLine
  BY AnswersKeepPlace DEF KeepsTheLine
<1> QED BY <1>1, <1>2, PlaceKeepsCause

(* and in Gerrit.                                                          *)
LEMMA GerritKeepsCause ==
  ASSUME TypeInv, WholeInv, WholeInv', CauseInv, NEW c \in Change,
         Approve(c) \/ Withdraw(c) \/ GoAway(c) \/ NoticeMerge(c)
  PROVE  CauseInv'
<1>1. TrunkInv /\ TrunkInv' /\ SpineInv /\ SetsInv
  BY DEF WholeInv, OrderInv
<1>2. KeepsItsPlace /\ KeepsTelling /\ KeepsTheLine
  BY <1>1, GerritKeepsPlace DEF KeepsTheLine
<1> QED BY <1>1, <1>2, PlaceKeepsCause

(* New items have no test yet, and come after the others.                  *)
LEMMA AddedKeepsCause ==
  ASSUME QueueInv, SetsInv, TrunkInv, CauseInv, Adds(q), pass.phase # "queue", pass' = pass,
         q' \in Queues, bs' = bs, status' = status, layout' = layout, results' = results
  PROVE  CauseInv'
<1>1. /\ q \in Queues /\ WellLinked(q) /\ Queued(q) \subseteq Item /\ Queued(q') \subseteq Item
      /\ \A i \in Queued(q) : item[i] # Idle
      /\ \A i \in Queued(q) : \A a \in Up(q, i) : a \in Queued(q)
  BY InTheQueue DEF QueueInv, Queued, Queues
<1>2. /\ \A i \in Queued(q) : item'[i] = item[i] /\ Up(q', i) = Up(q, i) /\ i \in Queued(q')
      /\ \A i \in Queued(q') \ Queued(q) : item[i] = Idle
      /\ \A a, b \in Queued(q) : Precedes(q', a, b) <=> Precedes(q, a, b)
      /\ \A b \in Queued(q) : \A a : Precedes(q', a, b) => Precedes(q, a, b)
  BY <1>1 DEF Adds
<1>3. \A i \in Queued(q') \ Queued(q) : ~bs[i].ref
  BY <1>1, <1>2, NewIsOpen
<1>4. Spine = {} /\ Todo = {} /\ Todo' = {} /\ Spine' = {}
  <2>1. Spine = {} /\ Todo = {}
    BY NothingTodo DEF CauseInv, LineInv
  <2>2. pass.nnfi = NoItem
    BY <2>1 DEF Spine
  <2> QED BY <2>1, <2>2 DEF Spine, Todo
<1>5. \A a, b \in Queued(q) : Precedes(q, a, b) => a \in Queued(q)
  OBVIOUS
<1>6. ASSUME NEW i \in Queued(q') PROVE Tested(i)' => i \in Queued(q) /\ Tested(i)
  <2>1. ASSUME NEW k \in Queued(q'), k = i \/ i \in Up(q', k), bs[k].ref
        PROVE  i \in Queued(q) /\ Tested(i)
    BY <1>1, <1>2, <1>3, <2>1 DEF Tested
  <2> QED BY <2>1 DEF Tested
<1>7. ASSUME NEW x \in Queued(q), NEW S, S \subseteq Queued(q)
      PROVE  (Lost(x, S)' <=> Lost(x, S)) /\ (SetAside(x, S) => SetAside(x, S)')
  <2>1. Lost(x, S)' <=> Lost(x, S)
    BY <1>2, <1>7 DEF Lost
  <2>2. Failed(x) => Failed(x)'
    BY <1>2, FailedStays
  <2>3. {a \in S : Precedes(q', a, x)} = {a \in S : Precedes(q, a, x)}
    BY <1>2, <1>7
  <2> QED BY <1>2, <2>1, <2>2, <2>3 DEF SetAside
<1>8. ASSUME NEW i \in Queued(q), Caused(i) PROVE Caused(i)'
  <2>1. PICK a \in Up(q, i) : Failed(a)
    BY <1>8 DEF Caused
  <2>2. Failed(a)'
    BY <1>1, <1>2, <2>1, FailedStays
  <2> QED BY <1>2, <2>2 DEF Caused
<1>9. ASSUME NEW i \in Queued(q), Placed(i) PROVE Placed(i)'
  <2>1. PICK S : S = Up(q, i)
    OBVIOUS
  <2>2. PICK X : X = Earlier(i) \ S
    OBVIOUS
  <2>3. /\ Line(S, X) /\ ~Lost(i, S) /\ S \subseteq Queued(q) /\ X \subseteq Queued(q)
    BY <1>1, <1>9, <2>1, <2>2 DEF Placed, Earlier
  <2>4. Earlier(i)' = Earlier(i)
    <3>1. \A a : Precedes(q, a, i) => a \in Queued(q)
      BY <1>1, PrecedesIsStrict DEF WellLinked
    <3> QED BY <1>2, <3>1 DEF Earlier
  <2>5. Line(S, X)' /\ ~Lost(i, S)'
    BY <1>7, <2>3 DEF Line
  <2>6. ~Off(i)' /\ Up(q', i) = S
    BY <1>2, <1>4, <2>1 DEF Off
  <2> QED BY <2>2, <2>4, <2>5, <2>6 DEF Placed
<1>10. ListsInv'
  BY <1>1, <1>2, <1>3 DEF CauseInv, ListsInv, Listed
<1>11. PlacesInv'
  BY <1>4, <1>6, <1>8, <1>9 DEF CauseInv, PlacesInv, Justified
<1>12. LineInv'
  BY <1>4 DEF LineInv
<1> QED BY <1>10, <1>11, <1>12 DEF CauseInv

(* Events from Gerrit take nothing from the others either.                 *)
LEMMA TriggerKeepsCause ==
  ASSUME TypeInv, TypeInv', WholeInv, WholeInv', CauseInv, HandleTrigger
  PROVE  CauseInv'
<1>1. /\ status' = status /\ trunk' = trunk /\ layout' = layout /\ results' = results
      /\ pass' = pass /\ pass.phase = "triggers"
  BY DEF HandleTrigger, gerrit
<1>2. /\ GateInv /\ QueueInv /\ bs \in [Item -> BuildSets] /\ q' \in Queues
      /\ TrunkInv /\ TrunkInv' /\ SpineInv /\ SetsInv
  BY DEF TypeInv, GateInv, QueueInv, SetsTyped, WholeInv, OrderInv
<1>3. CASE Adds(q) /\ bs' = bs
  BY <1>1, <1>2, <1>3, AddedKeepsCause
<1>4. CASE q' = q /\ item' = item /\ bs' = bs
  <2>1. KeepsItsPlace /\ KeepsTheLine
    BY <1>1, <1>4 DEF KeepsItsPlace, KeepsTheLine
  <2>2. KeepsTelling
    BY <1>1, <1>4, SilenceKeepsTelling
  <2> QED BY <1>2, <2>1, <2>2, PlaceKeepsCause
<1>5. ASSUME NEW r \in Item, Removes(r) PROVE CauseInv'
  <2>1. q' = DequeueItem(q, r) /\ item' = item /\ ResetsBehind(r, q, bs)
    BY <1>5 DEF Removes, ResetsBehind
  <2>2. Spine = {} /\ Todo = {} /\ Todo' = {} /\ Spine' = {} /\ pass'.phase # "queue"
    <3>1. Spine = {} /\ Todo = {}
      BY <1>1, <1>2, NothingTodo DEF CauseInv, LineInv
    <3>2. pass.nnfi = NoItem
      BY <3>1 DEF Spine
    <3> QED BY <1>1, <3>1, <3>2 DEF Spine, Todo
  <2>3. \A i \in Queued(q') : Off(i)' /\ r \notin Up(q, i) => Off(i)
    BY <2>2 DEF Off
  <2>4. \A i \in Spine' : i \in Spine /\ r \notin Up(q, i)
    BY <2>2
  <2>5. ListsInv' /\ PlacesInv'
    BY <1>1, <1>2, <2>1, <2>3, <2>4, GoneKeepsPlaces DEF CauseInv
  <2> QED BY <2>2, <2>5 DEF CauseInv, LineInv
<1> QED BY <1>2, <1>3, <1>4, <1>5, TriggerOutcomes

(* So does a promotion: no test is left.                                   *)
LEMMA PromoteKeepsCause ==
  ASSUME TypeInv, TypeInv', SetsInv, CauseInv, NEW i \in Item, Promote(i)
  PROVE  CauseInv'
<1>1. QueueInv /\ bs \in [Item -> BuildSets] /\ Queued(q') \subseteq Item
  BY DEF TypeInv, GateInv, SetsTyped, QueueInv, Queued, Queues
<1>2. PICK x : x = EmptyQueue
  OBVIOUS
<1>3. /\ Adds(x) /\ Queued(x) = {}
      /\ \A k \in Item : IF k \in Queued(q) THEN Resets(bs[k], bs'[k]) ELSE bs'[k] = bs[k]
  BY <1>1, <1>2, PromoteOutcome, EmptyQueueIsWellLinked DEF Restarts
<1>4. \A k \in Queued(q') : ~bs'[k].ref
  <2>1. \A k \in Queued(q') : item[k] = Idle
    BY <1>3 DEF Adds
  <2> QED BY <1>1, <1>3, <2>1, NewIsOpen
<1>5. Spine' = {} /\ pass'.phase # "queue"
  <2>1. pass'.phase = "results" /\ pass'.nnfi = NoItem
    BY DEF Promote, Managing, At
  <2> QED BY <2>1 DEF Spine
<1> QED BY <1>4, <1>5 DEF CauseInv, ListsInv, Listed, PlacesInv, Tested, LineInv

(* There is no test at first.                                              *)
LEMMA InitKeepsCause == Init => CauseInv
<1> SUFFICES ASSUME Init PROVE CauseInv
  OBVIOUS
<1>1. Queued(q) = {} /\ pass.nnfi = NoItem /\ pass.phase # "queue"
  BY DEF Init, EmptyQueue, Queued, ToSet, Sleeping, At
<1> QED BY <1>1 DEF CauseInv, ListsInv, PlacesInv, LineInv, Spine

(* So does the processing of an item.                                      *)
LEMMA ProcessingKeepsCause ==
  ASSUME Reliable, TypeInv, TypeInv', WholeInv, WholeInv', CauseInv, NEW r \in Item,
         DropItem(r) \/ PrepareRef(r) \/ LaunchItem(r) \/ WaitItem(r)
  PROVE  CauseInv'
<1>1. Processing(r) /\ Steadily /\ OrderInv /\ WorthInv /\ TreeInv' /\ OwnInv'
  BY WholeIsSteady DEF DropItem, PrepareRef, LaunchItem, WaitItem, WholeInv
<1>2. item' = item /\ results' = results /\ layout' = layout
  BY ProcessingLeaves
<1>3. CASE StaysCanceled(r)
  BY <1>1, <1>2, <1>3, CanceledKeepsCause
<1>4. CASE StaysMoved(r)
  BY <1>1, <1>2, <1>4, MovedKeepsCause
<1>5. CASE StaysAligned(r)
  BY <1>1, <1>2, <1>5, AlignedKeepsCause
<1>6. CASE LeavesFailed(r)
  BY <1>1, <1>2, <1>6, LeavingKeepsCause
<1>7. CASE LeavesMerged(r)
  BY <1>1, <1>2, <1>7, MergedKeepsCause
<1> QED BY <1>1, <1>3, <1>4, <1>5, <1>6, <1>7, ProcessingOutcomes

(* Every step but a reconfiguration keeps it.                              *)
LEMMA NextKeepsCause ==
  ASSUME Reliable, TypeInv, TypeInv', WholeInv, WholeInv', CauseInv, [Next]_vars,
         [\A new \in Layouts : ~Reconfigure(new)]_vars
  PROVE  CauseInv'
<1>1. CASE UNCHANGED vars
  BY <1>1, AnswersKeepCause
<1>2. CASE Next /\ \A new \in Layouts : ~Reconfigure(new)
  <2>1. CASE WakeUp \/ EndResults \/ StartPass \/ EndPass \/ HandleResult
    BY <2>1, LoopKeepsCause
  <2>2. CASE HandleTrigger
    BY <2>2, TriggerKeepsCause
  <2>3. ASSUME NEW r \in Item, DropItem(r) \/ PrepareRef(r) \/ LaunchItem(r) \/ WaitItem(r)
        PROVE  CauseInv'
    BY <2>3, ProcessingKeepsCause
  <2>4. CASE \/ \E i \in Item, j \in Job, r \in {"SUCCESS", "FAILURE", "retry"} : BuildCompleted(i, j, r)
             \/ \E m \in merging, r \in {"merged", "conflict", "updated"} : MergeCompleted(m, r)
    BY <2>4, AnswersKeepCause
  <2>5. ASSUME NEW c \in Change, Approve(c) \/ Withdraw(c) \/ GoAway(c) \/ NoticeMerge(c)
        PROVE  CauseInv'
    BY <2>5, GerritKeepsCause
  <2>6. ASSUME NEW i \in Item, Promote(i) PROVE CauseInv'
    BY <2>6, PromoteKeepsCause DEF WholeInv
  <2> QED BY <1>2, <2>1, <2>2, <2>3, <2>4, <2>5, <2>6 DEF Next, SchedulerStep
<1> QED BY <1>1, <1>2

-----------------------------------------------------------------------------
(* Some change that the test of i was to be on did not merge, and has left *)
(* the queue or cannot pass.                                               *)
Excused(i) ==
  \E c \in ToSet(bs[i].other) \ ToSet(trunk') :
    \A k \in Queued(q') : item[k] = c => CannotPass(k)'

(* An item that leaves without merging excuses what was behind it.         *)
LEMMA GoneExcuses ==
  ASSUME QueueInv, TrunkInv, ListsInv, NEW r \in Item, r \in Queued(q), q' = DequeueItem(q, r),
         ResetsBehind(r, q, bs), trunk' = trunk,
         NEW i \in Queued(q) \cap Queued(q'), bs'[i].gen # bs[i].gen
  PROVE  Excused(i)
<1>1. q \in Queues /\ WellLinked(q) /\ Queued(q) \subseteq Item /\ QueuedOnce
  BY InTheQueue
<1>2. Queued(q') = Queued(q) \ {r}
  BY <1>1, DequeuedUp
<1>3. r \in Up(q, i) /\ Resets(bs[i], bs'[i])
  BY <1>1, <1>2 DEF ResetsBehind
<1>4. bs[i].ref
  BY <1>3 DEF Resets, Cancels, SameRequest
<1>5. item[r] \in ToSet(bs[i].other)
  BY <1>3, <1>4 DEF ListsInv, Listed
<1>6. item[r] \notin ToSet(trunk')
  BY ChangesQueued DEF Merged
<1>7. \A k \in Queued(q') : item[k] # item[r]
  BY <1>1, <1>2 DEF QueuedOnce
<1> QED BY <1>5, <1>6, <1>7 DEF Excused

(* What is moved was behind an item that cannot pass.                      *)
LEMMA MovedIsExcused ==
  ASSUME Steadily, OrderInv, CauseInv, NEW r \in Item, Processing(r), StaysMoved(r),
         item' = item, layout' = layout, bs'[r].gen # bs[r].gen
  PROVE  Excused(r)
<1>1. QueueInv /\ TrunkInv /\ r \in Queued(q)
  BY WhereAllStand DEF OrderInv
<1>2. /\ q \in Queues /\ WellLinked(q) /\ QueuedOnce
      /\ \A a \in Up(q, r) : a \in Queued(q) /\ a \in Item /\ a # r
  BY <1>1, InTheQueue
<1>3. /\ q' = MoveItem(q, r, pass.nnfi) /\ q.ahead[r] # pass.nnfi /\ trunk' = trunk /\ bs[r].ref
      /\ \A i \in Item \ {r} : bs'[i] = bs[i]
  BY DEF StaysMoved, Unreported
<1>4. Queued(q') = Queued(q)
  <2>1. /\ pass.nnfi \in Item \cup {NoItem}
        /\ pass.nnfi = NoItem \/ Precedes(q, pass.nnfi, r)
    BY <1>1, ItemProcessed
  <2> QED BY <1>1, <1>2, <1>3, <2>1, MovedUp
<1>5. Caused(r)
  <2>1. Tested(r)
    BY <1>1, <1>3 DEF Tested
  <2>2. Justified(r)
    BY <1>1, <2>1 DEF CauseInv, PlacesInv
  <2> QED BY <1>3, <2>2, MovedForCause
<1>6. PICK a \in Up(q, r) : Failed(a)
  BY <1>5 DEF Caused
<1>7. item[a] \in ToSet(bs[r].other) /\ item[a] \notin ToSet(trunk')
  BY <1>1, <1>2, <1>3, ChangesQueued DEF CauseInv, ListsInv, Listed, Merged
<1>8. CannotPass(a)'
  <2>1. PICK j \in Jobs(item[a]) \cap layout.voting : bs[a].builds[j] \in {"FAILURE", "SKIPPED"}
    BY <1>6 DEF Failed, Broken
  <2>2. j \in (Jobs(item[a]) \cap layout.voting)' /\ bs'[a] = bs[a]
    BY <1>2, <1>3, <2>1 DEF Jobs
  <2> QED BY <2>1, <2>2 DEF CannotPass, Finished
<1>9. \A k \in Queued(q') : item[k] = item[a] => k = a
  BY <1>2, <1>4 DEF QueuedOnce
<1> QED BY <1>7, <1>8, <1>9 DEF Excused

(* A build set is replaced for no other reason.                            *)
LEMMA StepsExcuse ==
  ASSUME Reliable, "unseen" \notin Faults, TypeInv, WholeInv, CauseInv, Next,
         \A new \in Layouts : ~Reconfigure(new),
         NEW i \in Queued(q) \cap Queued(q'), bs'[i].gen # bs[i].gen
  PROVE  Excused(i)
<1>1. /\ Steadily /\ OrderInv /\ TrunkInv /\ QueueInv /\ SetsInv /\ TreeInv /\ OwnInv /\ ListsInv
      /\ GateInv /\ bs \in [Item -> BuildSets] /\ i \in Item
  BY WholeIsSteady, InTheQueue DEF WholeInv, OrderInv, CauseInv, TypeInv, GateInv, SetsTyped
<1>2. ~KeepsItsPlace
  BY <1>1 DEF KeepsItsPlace
<1>3. ~(WakeUp \/ EndResults \/ StartPass \/ EndPass \/ HandleResult)
  BY <1>1, <1>2, LoopKeepsPlace, ResultKeepsPlace
<1>4. ~ \/ \E k \in Item, j \in Job, r \in {"SUCCESS", "FAILURE", "retry"} : BuildCompleted(k, j, r)
        \/ \E m \in merging, r \in {"merged", "conflict", "updated"} : MergeCompleted(m, r)
  BY <1>2, AnswersKeepPlace
<1>5. \A c \in Change : ~(Approve(c) \/ Withdraw(c) \/ GoAway(c) \/ NoticeMerge(c))
  BY <1>1, <1>2, GerritKeepsPlace
<1>6. CASE HandleTrigger
  <2>1. trunk' = trunk
    BY <1>6 DEF HandleTrigger, gerrit
  <2>2. PICK r \in Item : Removes(r)
    BY <1>1, <1>6, TriggerOutcomes
  <2>3. ResetsBehind(r, q, bs) /\ q' = DequeueItem(q, r) /\ r \in Queued(q)
    BY <2>2 DEF Removes, ResetsBehind
  <2> QED BY <1>1, <2>1, <2>3, GoneExcuses
<1>7. ASSUME NEW r \in Item, DropItem(r) \/ PrepareRef(r) \/ LaunchItem(r) \/ WaitItem(r)
      PROVE  Excused(i)
  <2>1. Processing(r) /\ item' = item /\ layout' = layout
    BY <1>7, ProcessingLeaves DEF DropItem, PrepareRef, LaunchItem, WaitItem
  <2>2. r \in Queued(q)
    BY <1>1, <2>1, WhereAllStand
  <2>3. ~StaysCanceled(r)
    BY <1>1 DEF StaysCanceled, Halts, SameRequest
  <2>4. ~StaysAligned(r)
    BY <1>1 DEF StaysAligned, SameRequest
  <2>5. CASE StaysMoved(r)
    <3>1. i = r
      BY <1>1, <2>5 DEF StaysMoved
    <3> QED BY <1>1, <2>1, <2>5, <3>1, MovedIsExcused
  <2>6. CASE LeavesFailed(r)
    BY <1>1, <2>2, <2>6, GoneExcuses DEF LeavesFailed, Unreported
  <2>7. CASE LeavesMerged(r)
    <3>1. Queued(q') = Queued(q) \ {r}
      <4>1. q \in Queues /\ WellLinked(q)
        BY <1>1, InTheQueue
      <4> QED BY <2>2, <2>7, <4>1, DequeuedUp DEF LeavesMerged
    <3> QED BY <1>1, <2>7, <3>1 DEF LeavesMerged
  <2> QED BY <1>1, <1>7, <2>3, <2>4, <2>5, <2>6, <2>7, ProcessingOutcomes
<1>8. ASSUME NEW r \in Item, Promote(r) PROVE FALSE
  <2>1. PICK x : x = EmptyQueue
    OBVIOUS
  <2>2. Adds(x) /\ Queued(x) = {}
    BY <1>1, <1>8, <2>1, PromoteOutcome, EmptyQueueIsWellLinked DEF Restarts
  <2>3. item[i] = Idle
    BY <2>2 DEF Adds
  <2> QED BY <1>1, <2>3 DEF QueueInv
<1> QED BY <1>3, <1>4, <1>5, <1>6, <1>7, <1>8 DEF Next, SchedulerStep

(* Work is thrown away only with cause: where no report fails and the      *)
(* configuration stays, the build set of an item that stays queued is      *)
(* replaced only if some change it was prepared on did not merge, and has  *)
(* left the queue or cannot pass, however the queue was reordered.         *)
THEOREM RestartsAreJustified ==
  ASSUME Reliable, "unseen" \notin Faults
  PROVE  Spec /\ [][\A new \in Layouts : ~Reconfigure(new)]_vars => RestartsJustified
<1>1. Init => CauseInv
  BY InitKeepsCause
<1>2. /\ TypeInv /\ TypeInv' /\ WholeInv /\ WholeInv' /\ CauseInv /\ [Next]_vars
      /\ [\A new \in Layouts : ~Reconfigure(new)]_vars
      => CauseInv'
  BY NextKeepsCause
<1>3. /\ TypeInv /\ WholeInv /\ CauseInv /\ [Next]_vars
      /\ [\A new \in Layouts : ~Reconfigure(new)]_vars
      => [\A i \in Queued(q) \cap Queued(q') :
            bs'[i].gen # bs[i].gen =>
              \E c \in ToSet(bs[i].other) \ ToSet(trunk') :
                \A k \in Queued(q') : item[k] = c => CannotPass(k)']_vars
  <2> SUFFICES ASSUME TypeInv, WholeInv, CauseInv, Next, \A new \in Layouts : ~Reconfigure(new),
                      NEW i \in Queued(q) \cap Queued(q'), bs'[i].gen # bs[i].gen
               PROVE  Excused(i)
    BY DEF Excused
  <2> QED BY StepsExcuse
<1> QED BY <1>1, <1>2, <1>3, TypeInvariance, WholeInvariance, PTL DEF Spec, RestartsJustified
=============================================================================
