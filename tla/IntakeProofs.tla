---------------------------- MODULE IntakeProofs ----------------------------
(***************************************************************************)
(* The intake: the cache of changes and what the two threads make of it,   *)
(* the events on their way through the queues, an exit and a restart, and  *)
(* the run loop, for any changes, needs and bounds.                        *)
(***************************************************************************)
EXTENDS Intake, SequenceFacts, SequenceTheorems

(* A list without its last element.                                        *)
LEMMA WithoutLast ==
  ASSUME NEW S, NEW s \in Seq(S), s # <<>>
  PROVE  /\ Front(s) \in Seq(S) /\ Len(Front(s)) = Len(s) - 1
         /\ DOMAIN Front(s) = 1 .. Len(s) - 1
         /\ \A i \in 1 .. Len(s) - 1 : Front(s)[i] = s[i]
         /\ Len(s) \in Nat \ {0} /\ s[Len(s)] \in S
<1>1. PICK n \in Nat : n = Len(s)
  OBVIOUS
<1>2. n # 0 /\ \A i \in 1 .. n : s[i] \in S
  BY <1>1
<1>3. n - 1 \in Int /\ \A i \in 1 .. n - 1 : s[i] \in S
  BY <1>2
<1>4. /\ SubSeq(s, 1, n - 1) \in Seq(S)
      /\ Len(SubSeq(s, 1, n - 1)) = IF 1 <= n - 1 THEN (n - 1) - 1 + 1 ELSE 0
      /\ \A i \in 1 .. (n - 1) - 1 + 1 : SubSeq(s, 1, n - 1)[i] = s[1 + i - 1]
  BY <1>3, SubSeqProperties
<1>5. PICK f : f = Front(s) /\ f = SubSeq(s, 1, n - 1)
  BY <1>1 DEF Front
<1>6. f \in Seq(S) /\ Len(f) = n - 1
  BY <1>2, <1>4, <1>5
<1>7. ASSUME NEW i \in 1 .. n - 1 PROVE f[i] = s[i]
  <2>1. i \in 1 .. (n - 1) - 1 + 1 /\ 1 + i - 1 = i
    OBVIOUS
  <2> QED BY <1>4, <1>5, <2>1
<1>8. DOMAIN f = 1 .. n - 1 /\ n \in Nat \ {0} /\ s[n] \in S
  BY <1>2, <1>6
<1> QED BY <1>1, <1>5, <1>6, <1>7, <1>8

(* The last element replaced by another.                                   *)
LEMMA LastReplaced ==
  ASSUME NEW S, NEW s \in Seq(S), s # <<>>, NEW e \in S
  PROVE  /\ Append(Front(s), e) \in Seq(S)
         /\ Append(Front(s), e) # <<>>
         /\ DOMAIN Append(Front(s), e) = DOMAIN s
         /\ Len(Append(Front(s), e)) = Len(s)
         /\ Append(Front(s), e)[Len(s)] = e
         /\ \A i \in DOMAIN s : i # Len(s) => Append(Front(s), e)[i] = s[i]
<1>1. PICK n \in Nat : n = Len(s)
  OBVIOUS
<1>2. PICK f \in Seq(S) : f = Front(s)
  BY WithoutLast
<1>3. n # 0 /\ Len(f) = n - 1 /\ \A i \in 1 .. n - 1 : f[i] = s[i]
  BY <1>1, <1>2, WithoutLast
<1>4. PICK r : r = Append(f, e)
  OBVIOUS
<1>5. r \in Seq(S) /\ Len(r) = n /\ r[n] = e /\ \A i \in 1 .. n - 1 : r[i] = f[i]
  BY <1>3, <1>4
<1>6. DOMAIN r = 1 .. n /\ DOMAIN s = 1 .. n /\ r # <<>>
  BY <1>1, <1>3, <1>5
<1>7. \A i \in 1 .. n : i # n => i \in 1 .. n - 1
  OBVIOUS
<1> QED BY <1>1, <1>2, <1>3, <1>4, <1>5, <1>6, <1>7

-----------------------------------------------------------------------------
(* The types of the cache and of what the threads hold, with the Change    *)
(* objects 1 .. m made so far.                                             *)
Key == Number \X Nat
Phase == {"query", "depends", "needs", "neededBy"}
Change(m) ==
  [num : Number, ps : Nat, whole : BOOLEAN, current : BOOLEAN, merged : BOOLEAN,
   needs : SUBSET (1 .. m), neededBy : SUBSET (1 .. m)]
Objects(m) == [1 .. m -> Change(m)]
Caches(m) == UNION {[K -> 1 .. m] : K \in SUBSET Key}
Frame(m) ==
  [obj : 1 .. m, history : SUBSET Number, phase : Phase, deps : SUBSET Number,
   todo : SUBSET Key, got : SUBSET (1 .. m)]
Stacks(m) == Seq(Frame(m))
Answers(m) == {NoAnswer, Raised} \cup 1 .. m
State(m) == [objs : Objects(m), cache : Caches(m), calls : Stacks(m), answer : Answers(m)]

NameOf(os, o) == <<os[o].num, os[o].ps>>

(* A call whose change has been asked for has filled it in, and only the   *)
(* last call may still be asking.                                          *)
Stacked(s) ==
  \A i \in DOMAIN s.calls :
    /\ i # Len(s.calls) => s.calls[i].phase \in {"needs", "neededBy"}
    /\ s.calls[i].phase # "query" => s.objs[s.calls[i].obj].whole

(* A key leads to the object of this number and patchset, ...              *)
Named(s) == \A k \in DOMAIN s.cache : k = NameOf(s.objs, s.cache[k])

(* ... which is filled in or being asked for, here or in others.           *)
Asking(s, o) == \E i \in DOMAIN s.calls : s.calls[i].phase = "query" /\ s.calls[i].obj = o
Filled(s, others) ==
  \A k \in DOMAIN s.cache :
    s.objs[s.cache[k]].whole \/ s.cache[k] \in others \/ Asking(s, s.cache[k])

Good(s, m, others) == s \in State(m) /\ Stacked(s) /\ Named(s) /\ Filled(s, others)

(* What is cached stays a set of keys when some are dropped.               *)
LEMMA CacheWithout ==
  ASSUME NEW m \in Nat, NEW c \in Caches(m), NEW K
  PROVE  /\ [k \in DOMAIN c \ K |-> c[k]] \in Caches(m)
         /\ DOMAIN [k \in DOMAIN c \ K |-> c[k]] = DOMAIN c \ K
<1>1. PICK D \in SUBSET Key : c \in [D -> 1 .. m]
  BY DEF Caches
<1>2. [k \in DOMAIN c \ K |-> c[k]] \in [D \ K -> 1 .. m]
  BY <1>1
<1>3. D \ K \in SUBSET Key
  BY <1>1
<1> QED BY <1>2, <1>3 DEF Caches

(* What a cache holds.                                                     *)
LEMMA CacheIsTyped ==
  ASSUME NEW m \in Nat, NEW c \in Caches(m)
  PROVE  DOMAIN c \subseteq Key /\ \A k \in DOMAIN c : c[k] \in 1 .. m
BY DEF Caches

(* An exception leaves a good state.                                       *)
LEMMA RaiseIsGood ==
  ASSUME NEW m \in Nat, NEW s \in State(m), Named(s), NEW others, Filled(s, others)
  PROVE  /\ Good(Raise(s), m, others)
         /\ Raise(s).objs = s.objs /\ Raise(s).calls = <<>> /\ Raise(s).answer = Raised
<1>1. PICK keys : keys = {<<s.objs[f.obj].num, s.objs[f.obj].ps>> : f \in ToSet(s.calls)}
  OBVIOUS
<1>2. PICK c : c = [k \in DOMAIN s.cache \ keys |-> s.cache[k]]
  OBVIOUS
<1>3. c \in Caches(m) /\ DOMAIN c = DOMAIN s.cache \ keys
  BY <1>2, CacheWithout DEF State
<1>4. PICK r : r = Raise(s)
  OBVIOUS
<1>5. r = [s EXCEPT !.cache = c, !.calls = <<>>, !.answer = Raised]
  BY <1>1, <1>2, <1>4 DEF Raise
<1>6. /\ r \in State(m) /\ r.objs = s.objs /\ r.cache = c /\ r.calls = <<>>
      /\ r.answer = Raised
  <2>1. <<>> \in Stacks(m) /\ Raised \in Answers(m)
    BY DEF Stacks, Answers
  <2> QED BY <1>3, <1>5, <2>1 DEF State
<1>7. Stacked(r)
  BY <1>6 DEF Stacked
<1>8. Named(r)
  BY <1>2, <1>3, <1>6 DEF Named
<1>9. Filled(r, others)
  <2> SUFFICES ASSUME NEW k \in DOMAIN c, Asking(s, s.cache[k]) PROVE FALSE
    BY <1>2, <1>3, <1>6 DEF Filled
  <2>1. PICK i \in DOMAIN s.calls : s.calls[i].obj = s.cache[k]
    BY DEF Asking
  <2>2. s.calls[i] \in ToSet(s.calls)
    BY DEF ToSet
  <2>3. k = NameOf(s.objs, s.cache[k])
    BY <1>3 DEF Named
  <2>4. k \in keys
    BY <1>1, <2>1, <2>2, <2>3 DEF NameOf
  <2> QED BY <1>3, <2>4
<1> QED BY <1>4, <1>6, <1>7, <1>8, <1>9 DEF Good

(* The dependents of a change have been filled in: they were refreshed.    *)
GotWhole(os, f) == f.phase = "neededBy" => \A d \in f.got : os[d].whole
Known(s) ==
  /\ \A i \in DOMAIN s.objs : \A d \in s.objs[i].neededBy : s.objs[d].whole
  /\ \A i \in DOMAIN s.calls : GotWhole(s.objs, s.calls[i])

(* No change needs one of its own number: what a call gets is not one of   *)
(* the changes it came from.                                               *)
Careful(os, f) ==
  /\ f.phase # "query" => os[f.obj].num \in f.history
  /\ f.phase \in {"query", "depends"} => f.got = {}
  /\ f.phase = "needs" => \A d \in f.got : os[d].num \notin f.history
NoLoops(os) == \A i \in DOMAIN os : \A d \in os[i].needs : os[d].num # os[i].num
Strict(s) ==
  /\ NoLoops(s.objs)
  /\ \A i \in DOMAIN s.calls : Careful(s.objs, s.calls[i])
  /\ \A i \in 1 .. Len(s.calls) - 1 :
       s.calls[i].phase = "needs" => s.objs[s.calls[i + 1].obj].num \notin s.calls[i].history
Free(s, n) == s.calls # <<>> /\ Top(s).phase = "needs" => n \notin Top(s).history

(* Every object is in the cache.                                           *)
Listed(s) ==
  \A i \in DOMAIN s.objs :
    NameOf(s.objs, i) \in DOMAIN s.cache /\ s.cache[NameOf(s.objs, i)] = i

(* What a state with calls is made of.                                     *)
LEMMA TopIsTyped ==
  ASSUME NEW m \in Nat, NEW s \in State(m), s.calls # <<>>
  PROVE  /\ s.calls \in Seq(Frame(m)) /\ Len(s.calls) \in Nat \ {0}
         /\ DOMAIN s.calls = 1 .. Len(s.calls)
         /\ Top(s) = s.calls[Len(s.calls)] /\ Top(s) \in Frame(m)
         /\ Len(s.calls) \in DOMAIN s.calls
<1>1. s.calls \in Seq(Frame(m))
  BY DEF State, Stacks
<1>2. PICK c \in Seq(Frame(m)) : c = s.calls
  BY <1>1
<1>3. c # <<>>
  BY <1>2
<1>4. Len(c) \in Nat \ {0} /\ c[Len(c)] \in Frame(m) /\ DOMAIN c = 1 .. Len(c)
  BY <1>3
<1> QED BY <1>2, <1>4 DEF Top

(* The last call goes on.                                                  *)
LEMMA TopGoesOn ==
  ASSUME NEW m \in Nat, NEW s \in State(m), NEW others, s.calls # <<>>,
         Stacked(s), Named(s), Filled(s, others),
         NEW f \in Frame(m), f.obj = Top(s).obj, f.phase # "query", s.objs[f.obj].whole
  PROVE  /\ Good(WithTop(s, f), m, others)
         /\ WithTop(s, f).objs = s.objs /\ WithTop(s, f).cache = s.cache
         /\ WithTop(s, f).answer = s.answer
         /\ WithTop(s, f).calls # <<>> /\ Top(WithTop(s, f)) = f
         /\ Len(WithTop(s, f).calls) = Len(s.calls)
         /\ WithTop(s, f).calls[1].obj = s.calls[1].obj
         /\ Known(s) /\ GotWhole(s.objs, f) => Known(WithTop(s, f))
         /\ Strict(s) /\ Careful(s.objs, f) => Strict(WithTop(s, f))
<1>1. PICK r : r = WithTop(s, f)
  OBVIOUS
<1>2. PICK n : n = Len(s.calls)
  OBVIOUS
<1>3. /\ s.calls \in Seq(Frame(m)) /\ n \in Nat \ {0} /\ DOMAIN s.calls = 1 .. n
      /\ Top(s) = s.calls[n]
  BY <1>2, TopIsTyped
<1>4. PICK c : c = Append(Front(s.calls), f)
  OBVIOUS
<1>5. /\ c \in Seq(Frame(m)) /\ c # <<>> /\ DOMAIN c = 1 .. n /\ Len(c) = n /\ c[n] = f
      /\ \A i \in 1 .. n : i # n => c[i] = s.calls[i]
  BY <1>2, <1>3, <1>4, LastReplaced
<1>6. r = [s EXCEPT !.calls = c]
  BY <1>1, <1>4 DEF WithTop
<1>7. /\ r \in State(m) /\ r.objs = s.objs /\ r.cache = s.cache /\ r.answer = s.answer
      /\ r.calls = c
  <2>1. c \in Stacks(m)
    BY <1>5 DEF Stacks
  <2> QED BY <1>6, <2>1 DEF State
<1>8. Stacked(r)
  BY <1>2, <1>3, <1>5, <1>7 DEF Stacked
<1>9. Named(r)
  BY <1>7 DEF Named
<1>10. Filled(r, others)
  <2> SUFFICES ASSUME NEW k \in DOMAIN s.cache, ~s.objs[s.cache[k]].whole, Asking(s, s.cache[k])
               PROVE  Asking(r, s.cache[k])
    BY <1>7 DEF Filled
  <2>1. PICK i \in 1 .. n : s.calls[i].phase = "query" /\ s.calls[i].obj = s.cache[k]
    BY <1>3 DEF Asking
  <2>2. i # n
    BY <1>3, <2>1
  <2> QED BY <1>5, <1>7, <2>1, <2>2 DEF Asking
<1>11. Top(r) = f /\ r.calls[1].obj = s.calls[1].obj
  BY <1>3, <1>5, <1>7 DEF Top
<1>12. Known(s) /\ GotWhole(s.objs, f) => Known(r)
  BY <1>3, <1>5, <1>7 DEF Known
<1>13. Strict(s) /\ Careful(s.objs, f) => Strict(r)
  <2> SUFFICES ASSUME Strict(s), Careful(s.objs, f) PROVE Strict(r)
    OBVIOUS
  <2>1. \A i \in 1 .. n : Careful(s.objs, c[i])
    BY <1>3, <1>5 DEF Strict
  <2>2. ASSUME NEW i \in 1 .. n - 1, c[i].phase = "needs"
        PROVE  s.objs[c[i + 1].obj].num \notin c[i].history
    <3>1. i \in 1 .. n /\ i # n /\ i + 1 \in 1 .. n
      BY <1>3
    <3>2. c[i] = s.calls[i] /\ c[i + 1].obj = s.calls[i + 1].obj
      BY <1>3, <1>5, <3>1
    <3> QED BY <1>2, <2>2, <3>2 DEF Strict
  <2> QED BY <1>5, <1>7, <2>1, <2>2 DEF Strict
<1> QED BY <1>1, <1>2, <1>5, <1>7, <1>8, <1>9, <1>10, <1>11, <1>12, <1>13 DEF Good

(* The last call is over, its change filled in.                            *)
Popped(s) == [s EXCEPT !.calls = Front(@)]

(* A call that has ended leaves the ones that wait for it.                 *)
LEMMA TopReturns ==
  ASSUME NEW m \in Nat, NEW s, NEW others, Good(s, m, others), s.calls # <<>>,
         s.objs[Top(s).obj].whole,
         NEW r, r = Popped(s)
  PROVE  /\ Good(r, m, others)
         /\ r.objs = s.objs /\ r.cache = s.cache /\ r.answer = s.answer
         /\ r.calls # <<>> => Top(r).phase \in {"needs", "neededBy"}
         /\ r.calls # <<>> => r.calls[1].obj = s.calls[1].obj
         /\ r.calls = <<>> => Top(s) = s.calls[1]
         /\ Known(s) => Known(r)
         /\ Strict(s) => Strict(r)
         /\ Strict(s) => Free(r, s.objs[Top(s).obj].num)
<1>1. s \in State(m) /\ Stacked(s) /\ Named(s) /\ Filled(s, others)
  BY DEF Good
<1>2. PICK n : n = Len(s.calls)
  OBVIOUS
<1>3. /\ s.calls \in Seq(Frame(m)) /\ n \in Nat \ {0} /\ DOMAIN s.calls = 1 .. n
      /\ Top(s) = s.calls[n]
  BY <1>1, <1>2, TopIsTyped
<1>4. PICK c : c = Front(s.calls)
  OBVIOUS
<1>5. /\ c \in Seq(Frame(m)) /\ Len(c) = n - 1 /\ DOMAIN c = 1 .. n - 1
      /\ \A i \in 1 .. n - 1 : c[i] = s.calls[i]
  BY <1>2, <1>3, <1>4, WithoutLast
<1>6. r = [s EXCEPT !.calls = c]
  BY <1>4 DEF Popped
<1>7. /\ r \in State(m) /\ r.objs = s.objs /\ r.cache = s.cache /\ r.answer = s.answer
      /\ r.calls = c
  <2>1. c \in Stacks(m)
    BY <1>5 DEF Stacks
  <2> QED BY <1>1, <1>6, <2>1 DEF State
<1>8. \A i \in 1 .. n - 1 : i \in 1 .. n /\ i # n
  BY <1>3
<1>9. \A i \in 1 .. n - 1 : c[i].phase \in {"needs", "neededBy"} /\ s.objs[c[i].obj].whole
  BY <1>1, <1>2, <1>3, <1>5, <1>8 DEF Stacked
<1>10. Stacked(r) /\ Named(r)
  BY <1>1, <1>5, <1>7, <1>9 DEF Stacked, Named
<1>11. Filled(r, others)
  <2> SUFFICES ASSUME NEW k \in DOMAIN s.cache, ~s.objs[s.cache[k]].whole, Asking(s, s.cache[k])
               PROVE  FALSE
    BY <1>1, <1>7 DEF Filled
  <2>1. PICK i \in 1 .. n : s.calls[i].phase = "query" /\ s.calls[i].obj = s.cache[k]
    BY <1>3 DEF Asking
  <2>2. i # n
    BY <1>3, <2>1
  <2>3. i \in 1 .. n - 1
    BY <1>3, <2>2
  <2> QED BY <1>5, <1>9, <2>1, <2>3
<1>12. c # <<>> => n - 1 \in 1 .. n - 1 /\ 1 \in 1 .. n - 1
  BY <1>3, <1>5
<1>13. r.calls # <<>> => /\ Top(r).phase \in {"needs", "neededBy"}
                         /\ r.calls[1].obj = s.calls[1].obj
  BY <1>5, <1>7, <1>9, <1>12 DEF Top
<1>14. r.calls = <<>> => Top(s) = s.calls[1]
  <2> SUFFICES ASSUME c = <<>> PROVE n = 1
    BY <1>3, <1>7
  <2>1. n - 1 = 0
    BY <1>5
  <2> QED BY <1>3, <2>1
<1>15. Known(s) => Known(r)
  BY <1>3, <1>5, <1>7, <1>8 DEF Known
<1>16. Strict(s) => Strict(r) /\ Free(r, s.objs[Top(s).obj].num)
  <2> SUFFICES ASSUME Strict(s) PROVE Strict(r) /\ Free(r, s.objs[Top(s).obj].num)
    OBVIOUS
  <2>1. \A i \in 1 .. n - 1 : Careful(s.objs, c[i])
    BY <1>3, <1>5, <1>8 DEF Strict
  <2>2. ASSUME NEW i \in 1 .. n - 1, s.calls[i].phase = "needs"
        PROVE  s.objs[s.calls[i + 1].obj].num \notin s.calls[i].history
    BY <1>2, <2>2 DEF Strict
  <2>3. ASSUME NEW i \in 1 .. (n - 1) - 1, c[i].phase = "needs"
        PROVE  s.objs[c[i + 1].obj].num \notin c[i].history
    <3>1. i \in 1 .. n - 1 /\ i + 1 \in 1 .. n - 1
      BY <1>3
    <3> QED BY <1>5, <2>2, <2>3, <3>1
  <2>4. Strict(r)
    BY <1>5, <1>7, <2>1, <2>3 DEF Strict
  <2>5. ASSUME c # <<>>, Top(r).phase = "needs" PROVE s.objs[Top(s).obj].num \notin Top(r).history
    <3>1. n - 1 \in 1 .. n - 1 /\ Top(r) = s.calls[n - 1] /\ (n - 1) + 1 = n
      BY <1>3, <1>5, <1>7, <1>12, <2>5 DEF Top
    <3> QED BY <1>3, <2>2, <2>5, <3>1
  <2> QED BY <1>7, <2>4, <2>5 DEF Free
<1> QED BY <1>7, <1>10, <1>11, <1>13, <1>14, <1>15, <1>16 DEF Good

(* A call returns.                                                         *)
LEMMA ReturnIsGood ==
  ASSUME NEW m \in Nat, NEW s, NEW others, Good(s, m, others), NEW o \in 1 .. m,
         s.calls # <<>> => Top(s).phase \in {"needs", "neededBy"},
         NEW r, r = Return(s, o)
  PROVE  /\ Good(r, m, others) /\ r.objs = s.objs
         /\ r.answer = Raised \/ r.cache = s.cache
         /\ \/ r.calls = <<>> /\ r.answer = Raised
            \/ s.calls = <<>> /\ r.calls = <<>> /\ r.answer = o
            \/ /\ s.calls # <<>> /\ r.calls # <<>> /\ r.answer = s.answer
               /\ r.calls[1].obj = s.calls[1].obj
         /\ Known(s) /\ (s.calls # <<>> /\ Top(s).phase = "neededBy" => s.objs[o].whole) => Known(r)
         /\ Strict(s) /\ Free(s, s.objs[o].num) => Strict(r)
<1>1. s \in State(m) /\ Stacked(s) /\ Named(s) /\ Filled(s, others)
  BY DEF Good
<1>2. CASE s.calls = <<>>
  <2>1. r = [s EXCEPT !.answer = o]
    BY <1>2 DEF Return
  <2>2. /\ r \in State(m) /\ r.objs = s.objs /\ r.cache = s.cache /\ r.calls = s.calls
        /\ r.answer = o
    <3>1. o \in Answers(m)
      BY DEF Answers
    <3> QED BY <1>1, <2>1, <3>1 DEF State
  <2>3. Stacked(r) /\ Named(r) /\ Filled(r, others)
    BY <1>1, <2>2 DEF Stacked, Named, Filled, Asking
  <2>4. (Known(s) => Known(r)) /\ (Strict(s) => Strict(r))
    BY <2>2 DEF Known, Strict
  <2> QED BY <1>2, <2>2, <2>3, <2>4 DEF Good
<1>3. CASE r = Raise(s)
  <2>1. Good(r, m, others) /\ r.objs = s.objs /\ r.calls = <<>> /\ r.answer = Raised
    BY <1>1, <1>3, RaiseIsGood
  <2>2. (Known(s) => Known(r)) /\ (Strict(s) => Strict(r))
    BY <2>1 DEF Known, Strict
  <2> QED BY <2>1, <2>2
<1>4. CASE s.calls # <<>> /\ r # Raise(s)
  <2>1. PICK f : f = Top(s)
    OBVIOUS
  <2>2. /\ f \in Frame(m) /\ f = s.calls[Len(s.calls)] /\ Len(s.calls) \in DOMAIN s.calls
    BY <1>1, <1>4, <2>1, TopIsTyped
  <2>3. PICK g : r = WithTop(s, g) /\ g = [f EXCEPT !.got = g.got] /\ g.got \in {f.got, f.got \cup {o}}
    <3>1. CASE f.phase = "needs"
      <4>1. r = WithTop(s, [f EXCEPT !.got = IF s.objs[o].merged THEN @ ELSE @ \cup {o}])
        BY <1>4, <2>1, <3>1 DEF Return
      <4>2. PICK g : g = [f EXCEPT !.got = IF s.objs[o].merged THEN @ ELSE @ \cup {o}]
        OBVIOUS
      <4>3. g = [f EXCEPT !.got = g.got] /\ g.got \in {f.got, f.got \cup {o}}
        BY <2>2, <4>2 DEF Frame
      <4> QED BY <4>1, <4>2, <4>3
    <3>2. CASE f.phase = "neededBy"
      <4>1. r = WithTop(s, [f EXCEPT !.got =
                              IF s.objs[o].merged \/ ~s.objs[o].current THEN @ ELSE @ \cup {o}])
        BY <1>4, <2>1, <3>2 DEF Return
      <4>2. PICK g : g = [f EXCEPT !.got =
                            IF s.objs[o].merged \/ ~s.objs[o].current THEN @ ELSE @ \cup {o}]
        OBVIOUS
      <4>3. g = [f EXCEPT !.got = g.got] /\ g.got \in {f.got, f.got \cup {o}}
        BY <2>2, <4>2 DEF Frame
      <4> QED BY <4>1, <4>2, <4>3
    <3> QED BY <1>4, <2>1, <3>1, <3>2
  <2>4. g \in Frame(m) /\ g.obj = f.obj /\ g.phase = f.phase
    <3>1. g.got \in SUBSET (1 .. m)
      BY <2>2, <2>3 DEF Frame
    <3> QED BY <2>2, <2>3, <3>1 DEF Frame
  <2>5. g.phase # "query" /\ s.objs[g.obj].whole
    BY <1>1, <1>4, <2>1, <2>2, <2>4 DEF Stacked
  <2>6. /\ Good(r, m, others) /\ r.objs = s.objs /\ r.cache = s.cache /\ r.answer = s.answer
        /\ r.calls # <<>> /\ r.calls[1].obj = s.calls[1].obj
        /\ Known(s) /\ GotWhole(s.objs, g) => Known(r)
        /\ Strict(s) /\ Careful(s.objs, g) => Strict(r)
    BY <1>1, <1>4, <2>1, <2>3, <2>4, <2>5, TopGoesOn
  <2>7. Known(s) /\ (f.phase = "neededBy" => s.objs[o].whole) => GotWhole(s.objs, g)
    BY <2>2, <2>3, <2>4 DEF Known, GotWhole
  <2>8. Strict(s) /\ Free(s, s.objs[o].num) => Careful(s.objs, g)
    <3> SUFFICES ASSUME Strict(s), Free(s, s.objs[o].num) PROVE Careful(s.objs, g)
      OBVIOUS
    <3>1. Careful(s.objs, f)
      BY <2>2 DEF Strict
    <3>2. g.history = f.history
      BY <2>2, <2>3 DEF Frame
    <3>3. f.phase \in {"needs", "neededBy"} /\ (f.phase = "needs" => s.objs[o].num \notin f.history)
      BY <1>4, <2>1 DEF Free
    <3> QED BY <2>3, <2>4, <3>1, <3>2, <3>3 DEF Careful
  <2> QED BY <1>4, <2>1, <2>6, <2>7, <2>8
<1> QED BY <1>2, <1>3, <1>4

-----------------------------------------------------------------------------
(* Objects are made, but keep what they are, and stay filled in.           *)
Grown(os, ps, m) ==
  \A i \in 1 .. m : NameOf(ps, i) = NameOf(os, i) /\ (os[i].whole => ps[i].whole)

(* What is typed with fewer objects is typed with more.                    *)
LEMMA MoreObjects ==
  ASSUME NEW m \in Nat, NEW k \in Nat, m <= k
  PROVE  /\ 1 .. m \subseteq 1 .. k /\ Change(m) \subseteq Change(k)
         /\ Caches(m) \subseteq Caches(k) /\ Frame(m) \subseteq Frame(k)
         /\ Stacks(m) \subseteq Stacks(k) /\ Answers(m) \subseteq Answers(k)
<1>1. 1 .. m \subseteq 1 .. k
  OBVIOUS
<1>2. PICK M, K : M = 1 .. m /\ K = 1 .. k
  OBVIOUS
<1>3. M \subseteq K
  BY <1>1, <1>2
<1>4. Change(m) \subseteq Change(k)
  <2>1. \A S \in SUBSET M : S \in SUBSET K
    BY <1>3
  <2> QED BY <1>2, <2>1 DEF Change
<1>5. Caches(m) \subseteq Caches(k)
  <2> SUFFICES ASSUME NEW D \in SUBSET Key, NEW c \in [D -> M] PROVE c \in [D -> K]
    BY <1>2 DEF Caches
  <2> QED BY <1>3
<1>6. Frame(m) \subseteq Frame(k)
  <2>1. \A S \in SUBSET M : S \in SUBSET K
    BY <1>3
  <2> QED BY <1>2, <1>3, <2>1 DEF Frame
<1>7. Stacks(m) \subseteq Stacks(k)
  BY <1>6 DEF Stacks
<1> QED BY <1>1, <1>4, <1>5, <1>6, <1>7 DEF Answers

(* A sequence as a function.                                               *)
LEMMA SeqAsFunction ==
  ASSUME NEW D, NEW p \in Seq(D), NEW n \in Nat, Len(p) = n
  PROVE  p \in [1 .. n -> D]
OBVIOUS

(* A new object.                                                           *)
Extended(ps, os, m, key) ==
  /\ ps \in Objects(m + 1) /\ Len(ps) = m + 1
  /\ \A i \in 1 .. m : ps[i] = os[i]
  /\ ps[m + 1] = NewObject(key) /\ NameOf(ps, m + 1) = key

(* A new Change object is appended.                                        *)
LEMMA ObjectMade ==
  ASSUME NEW m \in Nat, NEW os \in Objects(m), NEW key \in Key
  PROVE  Extended(Append(os, NewObject(key)), os, m, key)
<1>0. PICK ps, n : ps = Append(os, NewObject(key)) /\ n = m + 1
  OBVIOUS
<1>1. PICK C : C = Change(m)
  OBVIOUS
<1>2. PICK D : D = Change(m + 1)
  OBVIOUS
<1>3. os \in [1 .. m -> D]
  <2>1. C \subseteq D
    BY <1>1, <1>2, MoreObjects
  <2> QED BY <1>1, <2>1 DEF Objects
<1>4. PICK new : new = NewObject(key)
  OBVIOUS
<1>5. key = <<key[1], key[2]>> /\ key[1] \in Number /\ key[2] \in Nat
  BY DEF Key
<1>6. new \in D /\ new.num = key[1] /\ new.ps = key[2]
  <2>1. {} \in SUBSET (1 .. m + 1) /\ FALSE \in BOOLEAN /\ TRUE \in BOOLEAN
    OBVIOUS
  <2> QED BY <1>2, <1>4, <1>5, <2>1 DEF NewObject, Change
<1>7. ps = Append(os, new)
  BY <1>0, <1>4
<1>8. os \in Seq(D) /\ Len(os) = m
  BY <1>3
<1>9. ps \in Seq(D) /\ Len(ps) = m + 1 /\ ps[m + 1] = new /\ \A i \in 1 .. m : ps[i] = os[i]
  BY <1>6, <1>7, <1>8
<1>10. ps \in Objects(m + 1)
  <2>1. n \in Nat
    BY <1>0
  <2>2. PICK p \in Seq(D) : p = ps
    BY <1>9
  <2>3. Len(p) = n
    BY <1>0, <1>9, <2>2
  <2>4. p \in [1 .. n -> D]
    BY <2>1, <2>3
  <2> QED BY <1>0, <1>2, <2>2, <2>4 DEF Objects
<1> QED BY <1>0, <1>4, <1>5, <1>6, <1>9, <1>10 DEF NameOf, Extended

(* A new Change object knows nothing yet.                                  *)
LEMMA NewIsBare ==
  ASSUME NEW key
  PROVE  NewObject(key).needs = {} /\ NewObject(key).neededBy = {} /\ ~NewObject(key).whole
BY DEF NewObject

(* A call is made, for the object o of the key, which may be new.           *)
CanCall(s, m, others, k, os, o, f, key) ==
  /\ m \in Nat /\ Good(s, m, others)
  /\ s.calls # <<>> => Top(s).phase \in {"needs", "neededBy"}
  /\ k \in Nat /\ m <= k /\ os \in Objects(k) /\ o \in 1 .. k
  /\ \A i \in 1 .. m : os[i] = s.objs[i]
  /\ \A i \in 1 .. k : i \notin 1 .. m => i = o
  /\ o \notin 1 .. m => os[o].needs = {} /\ os[o].neededBy = {}
  /\ f \in Frame(k) /\ f.obj = o /\ f.phase = "query" /\ f.got = {}
  /\ key \in Key /\ NameOf(os, o) = key /\ (key \in DOMAIN s.cache => s.cache[key] = o)

Called(s, os, o, f, key) ==
  [s EXCEPT !.objs = os,
            !.cache = [j \in DOMAIN @ \cup {key} |-> IF j = key THEN o ELSE @[j]],
            !.calls = Append(@, f)]

(* Such a call leaves a good state.                                        *)
LEMMA CallIsGood ==
  ASSUME NEW m, NEW s, NEW others, NEW k, NEW os, NEW o, NEW f, NEW key,
         CanCall(s, m, others, k, os, o, f, key),
         NEW r, r = Called(s, os, o, f, key)
  PROVE  /\ Good(r, k, others) /\ Grown(s.objs, r.objs, m) /\ r.objs = os /\ r.answer = s.answer
         /\ r.calls # <<>> /\ Len(r.calls) = Len(s.calls) + 1
         /\ r.calls[1].obj = IF s.calls = <<>> THEN o ELSE s.calls[1].obj
         /\ Known(s) => Known(r)
         /\ Listed(s) => Listed(r)
         /\ Strict(s) /\ Free(s, key[1]) => Strict(r)
<1> USE DEF CanCall
<1>1. s \in State(m) /\ Stacked(s) /\ Named(s) /\ Filled(s, others)
  BY DEF Good
<1>2. PICK c : c = [j \in DOMAIN s.cache \cup {key} |-> IF j = key THEN o ELSE s.cache[j]]
  OBVIOUS
<1>3. PICK n : n = Len(s.calls)
  OBVIOUS
<1>4. PICK F : F = Frame(k)
  OBVIOUS
<1>5. s.calls \in Seq(F) /\ n \in Nat /\ DOMAIN s.calls = 1 .. n
  BY <1>1, <1>3, <1>4, MoreObjects DEF State, Stacks
<1>6. PICK a : a = Append(s.calls, f)
  OBVIOUS
<1>7. /\ a \in Seq(F) /\ Len(a) = n + 1 /\ DOMAIN a = 1 .. n + 1 /\ a[n + 1] = f
      /\ \A i \in 1 .. n : a[i] = s.calls[i]
  BY <1>3, <1>4, <1>5, <1>6
<1>8. /\ DOMAIN s.cache \subseteq Key /\ \A j \in DOMAIN s.cache : s.cache[j] \in 1 .. m
      /\ DOMAIN s.objs = 1 .. m
  BY <1>1, CacheIsTyped DEF State, Objects
<1>9. c \in Caches(k) /\ DOMAIN c = DOMAIN s.cache \cup {key}
  <2>1. \A j \in DOMAIN s.cache : s.cache[j] \in 1 .. k
    BY <1>8, MoreObjects
  <2>2. c \in [DOMAIN s.cache \cup {key} -> 1 .. k]
    BY <1>2, <2>1
  <2>3. DOMAIN s.cache \cup {key} \in SUBSET Key
    BY <1>8
  <2> QED BY <2>2, <2>3 DEF Caches
<1>10. /\ r \in State(k) /\ r.objs = os /\ r.cache = c /\ r.calls = a
       /\ r.answer = s.answer
  <2>1. r = [s EXCEPT !.objs = os, !.cache = c, !.calls = a]
    BY <1>2, <1>6 DEF Called
  <2>2. a \in Stacks(k) /\ Answers(m) \subseteq Answers(k)
    BY <1>4, <1>7, MoreObjects DEF Stacks
  <2> QED BY <1>1, <1>9, <2>1, <2>2 DEF State
<1>11. \A i \in 1 .. n : s.calls[i].obj \in 1 .. m /\ s.calls[i].got \subseteq 1 .. m
  <2>1. s.calls \in Seq(Frame(m))
    BY <1>1 DEF State, Stacks
  <2>2. \A i \in 1 .. n : s.calls[i] \in Frame(m)
    BY <1>5, <2>1
  <2> QED BY <2>2 DEF Frame
<1>12. \A i \in 1 .. n : s.calls[i].phase \in {"needs", "neededBy"}
  <2>1. n # 0 => s.calls[n].phase \in {"needs", "neededBy"}
    <3> SUFFICES ASSUME n # 0 PROVE s.calls[n].phase \in {"needs", "neededBy"}
      OBVIOUS
    <3>1. s.calls # <<>>
      BY <1>3
    <3> QED BY <1>3, <3>1 DEF Top
  <2> QED BY <1>1, <1>3, <1>5, <2>1 DEF Stacked
<1>13. Stacked(r)
  <2> SUFFICES ASSUME NEW i \in 1 .. n + 1
               PROVE  /\ i # n + 1 => a[i].phase \in {"needs", "neededBy"}
                      /\ a[i].phase # "query" => os[a[i].obj].whole
    BY <1>7, <1>10 DEF Stacked
  <2>1. CASE i = n + 1
    BY <1>7, <2>1
  <2>2. CASE i # n + 1
    <3>1. i \in 1 .. n
      BY <1>5, <2>2
    <3>2. s.calls[i].phase # "query" => s.objs[s.calls[i].obj].whole
      BY <1>1, <1>5, <3>1 DEF Stacked
    <3> QED BY <1>7, <1>11, <1>12, <3>1, <3>2
  <2> QED BY <2>1, <2>2
<1>14. \A i \in 1 .. m : NameOf(os, i) = NameOf(s.objs, i)
  BY DEF NameOf
<1>15. Named(r)
  <2> SUFFICES ASSUME NEW j \in DOMAIN c PROVE j = NameOf(os, c[j])
    BY <1>10 DEF Named
  <2>1. CASE j = key
    BY <1>2, <1>9, <2>1
  <2>2. CASE j # key
    <3>1. j \in DOMAIN s.cache /\ c[j] = s.cache[j]
      BY <1>2, <1>9, <2>2
    <3> QED BY <1>1, <1>8, <1>14, <3>1 DEF Named
  <2> QED BY <2>1, <2>2
<1>16. Filled(r, others)
  <2> SUFFICES ASSUME NEW j \in DOMAIN c
               PROVE  os[c[j]].whole \/ c[j] \in others \/ Asking(r, c[j])
    BY <1>10 DEF Filled
  <2>1. CASE c[j] = o
    <3>1. n + 1 \in DOMAIN a
      BY <1>5, <1>7
    <3> QED BY <1>7, <1>10, <2>1, <3>1 DEF Asking
  <2>2. CASE c[j] # o
    <3>1. j \in DOMAIN s.cache /\ c[j] = s.cache[j]
      BY <1>2, <1>9, <2>2
    <3>2. ~Asking(s, s.cache[j])
      BY <1>5, <1>12 DEF Asking
    <3> QED BY <1>1, <1>8, <3>1, <3>2 DEF Filled
  <2> QED BY <2>1, <2>2
<1>17. r.calls # <<>> /\ r.calls[1].obj = IF s.calls = <<>> THEN o ELSE s.calls[1].obj
  <2>1. a # <<>> /\ (s.calls = <<>> <=> n = 0)
    BY <1>3, <1>5, <1>7
  <2>2. n # 0 => 1 \in 1 .. n
    BY <1>5
  <2> QED BY <1>7, <1>10, <2>1, <2>2
<1>18. Known(s) => Known(r)
  <2> SUFFICES ASSUME Known(s) PROVE Known(r)
    OBVIOUS
  <2>1. ASSUME NEW i \in 1 .. k, NEW d \in os[i].neededBy PROVE os[d].whole
    <3>1. i \in 1 .. m
      BY <2>1
    <3>2. d \in 1 .. m
      <4>1. s.objs[i] \in Change(m)
        BY <1>1, <3>1 DEF State, Objects
      <4> QED BY <2>1, <3>1, <4>1 DEF Change
    <3> QED BY <1>8, <2>1, <3>1, <3>2 DEF Known
  <2>2. ASSUME NEW i \in 1 .. n + 1 PROVE GotWhole(os, a[i])
    <3>1. i # n + 1 => i \in 1 .. n
      BY <1>5, <2>2
    <3> QED BY <1>5, <1>7, <1>11, <3>1 DEF Known, GotWhole
  <2>3. DOMAIN os = 1 .. k
    BY DEF Objects
  <2> QED BY <1>7, <1>10, <2>1, <2>2, <2>3 DEF Known
<1>19. Listed(s) => Listed(r)
  <2> SUFFICES ASSUME Listed(s), NEW i \in 1 .. k
               PROVE  NameOf(os, i) \in DOMAIN c /\ c[NameOf(os, i)] = i
    <3>1. DOMAIN os = 1 .. k
      BY DEF Objects
    <3> QED BY <1>10, <3>1 DEF Listed
  <2>1. CASE i = o
    BY <1>2, <1>9, <2>1
  <2>2. CASE i # o
    <3>1. i \in 1 .. m
      BY <2>2
    <3>2. NameOf(os, i) \in DOMAIN s.cache /\ s.cache[NameOf(os, i)] = i
      BY <1>8, <1>14, <3>1 DEF Listed
    <3>3. NameOf(os, i) # key
      BY <2>2, <3>2
    <3> QED BY <1>2, <1>9, <3>2, <3>3
  <2> QED BY <2>1, <2>2
<1>20. Grown(s.objs, r.objs, m)
  BY <1>10, <1>14 DEF Grown
<1>21. Strict(s) /\ Free(s, key[1]) => Strict(r)
  <2> SUFFICES ASSUME Strict(s), Free(s, key[1]) PROVE Strict(r)
    OBVIOUS
  <2>1. ASSUME NEW i \in 1 .. k, NEW d \in os[i].needs PROVE os[d].num # os[i].num
    <3>1. i \in 1 .. m
      BY <2>1
    <3>2. d \in 1 .. m /\ d \in s.objs[i].needs
      <4>1. s.objs[i] \in Change(m)
        BY <1>1, <3>1 DEF State, Objects
      <4> QED BY <2>1, <3>1, <4>1 DEF Change
    <3> QED BY <1>8, <3>1, <3>2 DEF Strict, NoLoops
  <2>2. ASSUME NEW i \in 1 .. n + 1 PROVE Careful(os, a[i])
    <3>1. CASE i = n + 1
      BY <1>7, <3>1 DEF Careful
    <3>2. CASE i # n + 1
      <4>1. i \in 1 .. n
        BY <1>5, <3>2
      <4>2. Careful(s.objs, s.calls[i]) /\ a[i] = s.calls[i]
        BY <1>5, <1>7, <4>1 DEF Strict
      <4> QED BY <1>11, <4>1, <4>2 DEF Careful
    <3> QED BY <3>1, <3>2
  <2>3. ASSUME NEW i \in 1 .. (n + 1) - 1, a[i].phase = "needs"
        PROVE  os[a[i + 1].obj].num \notin a[i].history
    <3>1. i \in 1 .. n /\ a[i] = s.calls[i]
      BY <1>5, <1>7
    <3>2. CASE i = n
      <4>1. s.calls # <<>> /\ Top(s) = s.calls[n] /\ a[i + 1] = f
        BY <1>3, <1>5, <1>7, <3>1, <3>2 DEF Top
      <4>2. os[f.obj].num = key[1]
        BY DEF NameOf
      <4> QED BY <2>3, <3>1, <3>2, <4>1, <4>2 DEF Free
    <3>3. CASE i # n
      <4>1. i \in 1 .. n - 1 /\ i + 1 \in 1 .. n
        BY <1>5, <3>1, <3>3
      <4>2. s.objs[s.calls[i + 1].obj].num \notin s.calls[i].history
        BY <1>3, <2>3, <3>1, <4>1 DEF Strict
      <4> QED BY <1>7, <1>11, <3>1, <4>1, <4>2
    <3> QED BY <3>2, <3>3
  <2>4. DOMAIN os = 1 .. k
    BY DEF Objects
  <2> QED BY <1>7, <1>10, <2>1, <2>2, <2>3, <2>4 DEF Strict, NoLoops
<1> QED BY <1>3, <1>7, <1>10, <1>13, <1>15, <1>16, <1>17, <1>18, <1>19, <1>20, <1>21 DEF Good

(* _getChange, when it makes such a call, which has nothing to do yet.     *)
Made(s, r, m, others, k, os, o, f, key) ==
  /\ CanCall(s, m, others, k, os, o, f, key) /\ r = Called(s, os, o, f, key)
  /\ f.todo = {} /\ \A i \in 1 .. k : i \notin 1 .. m => os[i] = NewObject(key)

(* It does so unless it finds the change and is not to refresh it.         *)
LEMMA CallIsMade ==
  ASSUME NEW m \in Nat, NEW s, NEW others, Good(s, m, others),
         s.calls # <<>> => Top(s).phase \in {"needs", "neededBy"},
         NEW key \in Key, NEW refresh \in BOOLEAN, NEW past \in SUBSET Number,
         ~(key \in DOMAIN s.cache /\ ~refresh), NEW r, r = GetChange(s, key, refresh, past)
  PROVE  \E k, os, o, f : Made(s, r, m, others, k, os, o, f, key)
<1>1. s \in State(m) /\ Named(s)
  BY DEF Good
<1>2. key \in DOMAIN s.cache => s.cache[key] \in 1 .. m /\ NameOf(s.objs, s.cache[key]) = key
  BY <1>1, CacheIsTyped DEF State, Named
<1>3. PICK os : os = IF key \in DOMAIN s.cache THEN s.objs ELSE Append(s.objs, NewObject(key))
  OBVIOUS
<1>4. PICK o : o = IF key \in DOMAIN s.cache THEN s.cache[key] ELSE Len(os)
  OBVIOUS
<1>5. PICK f : f = [obj |-> o, history |-> past, phase |-> "query",
                    deps |-> {}, todo |-> {}, got |-> {}]
  OBVIOUS
<1>6. r = Called(s, os, o, f, key)
  BY <1>3, <1>4, <1>5 DEF GetChange, Called
<1>7. s.objs \in Objects(m)
  BY <1>1 DEF State
<1>8. \E k \in Nat :
        /\ m <= k /\ os \in Objects(k) /\ o \in 1 .. k
        /\ \A i \in 1 .. m : os[i] = s.objs[i]
        /\ \A i \in 1 .. k : i \notin 1 .. m => i = o /\ os[i] = NewObject(key)
        /\ o \notin 1 .. m => os[o].needs = {} /\ os[o].neededBy = {}
        /\ NameOf(os, o) = key
  <2>1. CASE key \in DOMAIN s.cache
    <3>1. os = s.objs /\ o = s.cache[key] /\ m <= m
      BY <1>3, <1>4, <2>1
    <3> QED BY <1>2, <1>7, <2>1, <3>1
  <2>2. CASE key \notin DOMAIN s.cache
    <3>1. os = Append(s.objs, NewObject(key)) /\ o = Len(os)
      BY <1>3, <1>4, <2>2
    <3>2. Extended(os, s.objs, m, key)
      BY <1>7, <3>1, ObjectMade
    <3>3. /\ os \in Objects(m + 1) /\ o = m + 1 /\ \A i \in 1 .. m : os[i] = s.objs[i]
          /\ os[m + 1] = NewObject(key) /\ NameOf(os, m + 1) = key
      BY <3>1, <3>2 DEF Extended
    <3>4. os[o].needs = {} /\ os[o].neededBy = {}
      BY <3>3, NewIsBare
    <3>5. /\ m + 1 \in Nat /\ m <= m + 1 /\ m + 1 \in 1 .. m + 1
          /\ \A i \in 1 .. m + 1 : i \notin 1 .. m => i = m + 1
      OBVIOUS
    <3> QED BY <3>3, <3>4, <3>5
  <2> QED BY <2>1, <2>2
<1>9. PICK k \in Nat :
        /\ m <= k /\ os \in Objects(k) /\ o \in 1 .. k
        /\ \A i \in 1 .. m : os[i] = s.objs[i]
        /\ \A i \in 1 .. k : i \notin 1 .. m => i = o /\ os[i] = NewObject(key)
        /\ o \notin 1 .. m => os[o].needs = {} /\ os[o].neededBy = {}
        /\ NameOf(os, o) = key
  BY <1>8
<1>10. f \in Frame(k) /\ f.obj = o /\ f.phase = "query" /\ f.got = {} /\ f.todo = {}
  <2>1. {} \in SUBSET (1 .. k) /\ {} \in SUBSET Key /\ {} \in SUBSET Number /\ "query" \in Phase
    BY DEF Phase
  <2> QED BY <1>5, <1>9, <2>1 DEF Frame
<1>11. CanCall(s, m, others, k, os, o, f, key)
  BY <1>4, <1>9, <1>10 DEF CanCall
<1> QED BY <1>6, <1>9, <1>10, <1>11 DEF Made

(* _getChange from a good state.                                           *)
LEMMA GetChangeIsGood ==
  ASSUME NEW m \in Nat, NEW s, NEW others, Good(s, m, others),
         s.calls # <<>> => Top(s).phase \in {"needs", "neededBy"},
         NEW key \in Key, NEW refresh \in BOOLEAN, NEW past \in SUBSET Number,
         NEW r, r = GetChange(s, key, refresh, past)
  PROVE  /\ \E k \in Nat : m <= k /\ Good(r, k, others) /\ Grown(s.objs, r.objs, m)
         /\ Listed(s) => Listed(r) \/ r.answer = Raised
         /\ Known(s) /\ (s.calls # <<>> /\ Top(s).phase = "neededBy" => refresh) => Known(r)
         /\ Strict(s) /\ Free(s, key[1]) => Strict(r)
         /\ \/ r.calls = <<>> /\ r.answer = Raised
            \/ /\ s.calls = <<>> /\ r.calls = <<>> /\ key \in DOMAIN s.cache /\ r.answer = s.cache[key]
               /\ r.objs = s.objs /\ r.cache = s.cache /\ ~refresh
            \/ /\ r.calls # <<>> /\ r.answer = s.answer
               /\ IF s.calls = <<>> THEN NameOf(r.objs, r.calls[1].obj) = key
                  ELSE r.calls[1].obj = s.calls[1].obj
<1>1. s \in State(m) /\ Stacked(s) /\ Named(s) /\ Filled(s, others)
  BY DEF Good
<1>2. key \in DOMAIN s.cache => s.cache[key] \in 1 .. m /\ NameOf(s.objs, s.cache[key]) = key
  BY <1>1, CacheIsTyped DEF State, Named
<1>3. CASE key \in DOMAIN s.cache /\ ~refresh
  <2>1. PICK o \in 1 .. m : o = s.cache[key]
    BY <1>2, <1>3
  <2>2. r = Return(s, o)
    BY <1>3, <2>1 DEF GetChange
  <2>3. /\ Good(r, m, others) /\ r.objs = s.objs
        /\ r.answer = Raised \/ r.cache = s.cache
        /\ \/ r.calls = <<>> /\ r.answer = Raised
           \/ s.calls = <<>> /\ r.calls = <<>> /\ r.answer = o
           \/ /\ s.calls # <<>> /\ r.calls # <<>> /\ r.answer = s.answer
              /\ r.calls[1].obj = s.calls[1].obj
        /\ Known(s) /\ (s.calls # <<>> /\ Top(s).phase = "neededBy" => s.objs[o].whole) => Known(r)
        /\ Strict(s) /\ Free(s, s.objs[o].num) => Strict(r)
    BY <2>2, ReturnIsGood
  <2>4. Grown(s.objs, r.objs, m)
    BY <2>3 DEF Grown, NameOf
  <2>5. Listed(s) => Listed(r) \/ r.answer = Raised
    BY <2>3 DEF Listed
  <2>8. m <= m
    OBVIOUS
  <2>9. s.objs[o].num = key[1]
    BY <1>2, <1>3, <2>1 DEF NameOf
  <2> QED BY <1>3, <2>1, <2>3, <2>4, <2>5, <2>8, <2>9
<1>4. CASE ~(key \in DOMAIN s.cache /\ ~refresh)
  <2>1. PICK k, os, o, f : Made(s, r, m, others, k, os, o, f, key)
    BY <1>4, CallIsMade
  <2>2. CanCall(s, m, others, k, os, o, f, key) /\ r = Called(s, os, o, f, key)
    BY <2>1 DEF Made
  <2>3. k \in Nat /\ m <= k /\ f.obj = o /\ NameOf(os, o) = key
    BY <2>2 DEF CanCall
  <2>4. /\ Good(r, k, others) /\ Grown(s.objs, r.objs, m) /\ r.objs = os /\ r.answer = s.answer
        /\ r.calls # <<>>
        /\ r.calls[1].obj = IF s.calls = <<>> THEN o ELSE s.calls[1].obj
        /\ Known(s) => Known(r)
        /\ Listed(s) => Listed(r)
        /\ Strict(s) /\ Free(s, key[1]) => Strict(r)
    BY <2>2, CallIsGood
  <2> QED BY <2>3, <2>4
<1> QED BY <1>3, <1>4

-----------------------------------------------------------------------------
(* An object gets new values, but stays the same change, and filled in.    *)
CanSet(s, m, others, o, c) ==
  /\ m \in Nat /\ Good(s, m, others) /\ o \in 1 .. m /\ c \in Change(m)
  /\ c.num = s.objs[o].num /\ c.ps = s.objs[o].ps
  /\ s.objs[o].whole => c.whole
SetObject(s, o, c) == [s EXCEPT !.objs = [@ EXCEPT ![o] = c]]

(* ... which leaves a good state.                                          *)
LEMMA ObjectSet ==
  ASSUME NEW m, NEW s, NEW others, NEW o, NEW c, CanSet(s, m, others, o, c),
         NEW r, r = SetObject(s, o, c)
  PROVE  /\ Good(r, m, others) /\ Grown(s.objs, r.objs, m)
         /\ r.objs[o] = c /\ r.cache = s.cache /\ r.calls = s.calls /\ r.answer = s.answer
         /\ Listed(s) => Listed(r)
         /\ Known(s) /\ (\A d \in c.neededBy : s.objs[d].whole) => Known(r)
         /\ Strict(s) /\ (\A d \in c.needs : s.objs[d].num # c.num) => Strict(r)
<1> USE DEF CanSet
<1>1. s \in State(m) /\ Stacked(s) /\ Named(s) /\ Filled(s, others)
  BY DEF Good
<1>2. PICK os : os = [s.objs EXCEPT ![o] = c]
  OBVIOUS
<1>3. s.objs \in [1 .. m -> Change(m)]
  BY <1>1 DEF State, Objects
<1>4. os \in [1 .. m -> Change(m)] /\ os[o] = c /\ \A i \in 1 .. m : i # o => os[i] = s.objs[i]
  BY <1>2, <1>3
<1>5. r = [s EXCEPT !.objs = os]
  BY <1>2 DEF SetObject
<1>6. /\ r \in State(m) /\ r.objs = os /\ r.cache = s.cache /\ r.calls = s.calls
      /\ r.answer = s.answer
  BY <1>1, <1>4, <1>5 DEF State, Objects
<1>7. \A i \in 1 .. m : NameOf(os, i) = NameOf(s.objs, i) /\ (s.objs[i].whole => os[i].whole)
  BY <1>4 DEF NameOf
<1>8. /\ \A j \in DOMAIN s.cache : s.cache[j] \in 1 .. m
      /\ s.calls \in Seq(Frame(m))
  BY <1>1, CacheIsTyped DEF State, Stacks
<1>9. \A i \in DOMAIN s.calls : s.calls[i].obj \in 1 .. m /\ s.calls[i].got \subseteq 1 .. m
  <2>1. \A i \in DOMAIN s.calls : s.calls[i] \in Frame(m)
    BY <1>8
  <2> QED BY <2>1 DEF Frame
<1>10. Stacked(r)
  BY <1>1, <1>6, <1>7, <1>9 DEF Stacked
<1>11. Named(r)
  BY <1>1, <1>6, <1>7, <1>8 DEF Named
<1>12. Filled(r, others)
  <2>1. \A p : Asking(r, p) <=> Asking(s, p)
    BY <1>6 DEF Asking
  <2> QED BY <1>1, <1>6, <1>7, <1>8, <2>1 DEF Filled
<1>13. Listed(s) => Listed(r)
  <2>1. DOMAIN os = 1 .. m /\ DOMAIN s.objs = 1 .. m
    BY <1>3, <1>4
  <2> QED BY <1>6, <1>7, <2>1 DEF Listed
<1>14. Known(s) /\ (\A d \in c.neededBy : s.objs[d].whole) => Known(r)
  <2> SUFFICES ASSUME Known(s), \A d \in c.neededBy : s.objs[d].whole
               PROVE  Known(r)
    OBVIOUS
  <2>1. ASSUME NEW i \in 1 .. m, NEW d \in os[i].neededBy PROVE os[d].whole
    <3>1. d \in 1 .. m
      <4>1. os[i] \in Change(m)
        BY <1>4
      <4> QED BY <2>1, <4>1 DEF Change
    <3>2. s.objs[d].whole
      BY <1>3, <1>4, <2>1 DEF Known
    <3> QED BY <1>7, <3>1, <3>2
  <2>2. \A i \in DOMAIN s.calls : GotWhole(os, s.calls[i])
    BY <1>7, <1>9 DEF Known, GotWhole
  <2>3. DOMAIN os = 1 .. m
    BY <1>4
  <2> QED BY <1>6, <2>1, <2>2, <2>3 DEF Known
<1>15. Grown(s.objs, r.objs, m)
  BY <1>6, <1>7 DEF Grown
<1>16. Strict(s) /\ (\A d \in c.needs : s.objs[d].num # c.num) => Strict(r)
  <2> SUFFICES ASSUME Strict(s), \A d \in c.needs : s.objs[d].num # c.num PROVE Strict(r)
    OBVIOUS
  <2>1. \A i \in 1 .. m : os[i].num = s.objs[i].num
    BY <1>4
  <2>2. ASSUME NEW i \in 1 .. m, NEW d \in os[i].needs PROVE os[d].num # os[i].num
    <3>1. d \in 1 .. m
      <4>1. os[i] \in Change(m)
        BY <1>4
      <4> QED BY <2>2, <4>1 DEF Change
    <3>2. s.objs[d].num # s.objs[i].num
      BY <1>3, <1>4, <2>2 DEF Strict, NoLoops
    <3> QED BY <2>1, <3>1, <3>2
  <2>3. \A i \in DOMAIN s.calls : Careful(os, s.calls[i])
    BY <1>9, <2>1 DEF Strict, Careful
  <2>4. ASSUME NEW i \in 1 .. Len(s.calls) - 1, s.calls[i].phase = "needs"
        PROVE  os[s.calls[i + 1].obj].num \notin s.calls[i].history
    <3>1. i + 1 \in DOMAIN s.calls
      BY <1>8
    <3> QED BY <1>9, <2>1, <2>4, <3>1 DEF Strict
  <2>5. DOMAIN os = 1 .. m
    BY <1>4
  <2> QED BY <1>6, <2>2, <2>3, <2>4, <2>5 DEF Strict, NoLoops
<1> QED BY <1>4, <1>6, <1>10, <1>11, <1>12, <1>13, <1>14, <1>15, <1>16 DEF Good

-----------------------------------------------------------------------------
(* What a step of _updateChange makes of the state of its thread: the      *)
(* state stays good and loses nothing unless an exception is raised; the   *)
(* outermost call goes on, or ends with its change, filled in.             *)
Moves(s, r, m, others) ==
  /\ \E k \in Nat : m <= k /\ Good(r, k, others) /\ Grown(s.objs, r.objs, m)
  /\ Listed(s) => Listed(r) \/ r.answer = Raised
  /\ Known(s) => Known(r)
  /\ Strict(s) => Strict(r)
  /\ \/ r.calls = <<>> /\ r.answer = Raised
     \/ r.calls = <<>> /\ r.answer = s.calls[1].obj /\ r.objs[r.answer].whole
     \/ r.calls # <<>> /\ r.answer = s.answer /\ r.calls[1].obj = s.calls[1].obj
Moved(t, m, others) == \E r : Becomes(t, r) /\ Moves(Own(t), r, m, others)

GerritTyped ==
  gerrit \in [latest : [Number -> Nat], needs : [Number -> SUBSET Number],
              status : [Number -> {"open", "merged", "abandoned"}]]

(* An exception is such a step, ...                                        *)
LEMMA RaiseMoves ==
  ASSUME NEW m \in Nat, NEW s, NEW others, Good(s, m, others)
  PROVE  Moves(s, Raise(s), m, others)
<1>1. PICK r : r = Raise(s)
  OBVIOUS
<1>2. /\ Good(r, m, others) /\ r.objs = s.objs /\ r.calls = <<>> /\ r.answer = Raised
  BY <1>1, RaiseIsGood DEF Good
<1>3. Grown(s.objs, r.objs, m) /\ m <= m
  BY <1>2 DEF Grown, NameOf
<1>4. (Known(s) => Known(r)) /\ (Strict(s) => Strict(r))
  BY <1>2 DEF Known, Strict
<1> QED BY <1>1, <1>2, <1>3, <1>4 DEF Moves

(* ... and a failed query raises one.                                      *)
LEMMA QueryFailsMoves ==
  ASSUME NEW m \in Nat, NEW t \in Thread, NEW others, Good(Own(t), m, others), QueryFails(t)
  PROVE  Moved(t, m, others)
BY RaiseMoves DEF QueryFails, Moved

(* A step that only changes the last call.                                 *)
LEMMA GoingOnMoves ==
  ASSUME NEW m \in Nat, NEW s, NEW others, Good(s, m, others), s.calls # <<>>,
         NEW f \in Frame(m), f.obj = Top(s).obj, f.phase # "query", s.objs[f.obj].whole,
         (Known(s) => GotWhole(s.objs, f)),
         Strict(s) => Careful(s.objs, f)
  PROVE  Moves(s, WithTop(s, f), m, others)
<1>1. PICK r : r = WithTop(s, f)
  OBVIOUS
<1>2. /\ Good(r, m, others) /\ r.objs = s.objs /\ r.cache = s.cache /\ r.answer = s.answer
      /\ r.calls # <<>> /\ r.calls[1].obj = s.calls[1].obj
      /\ Known(s) /\ GotWhole(s.objs, f) => Known(r)
      /\ Strict(s) /\ Careful(s.objs, f) => Strict(r)
  BY <1>1, TopGoesOn DEF Good
<1>3. Grown(s.objs, r.objs, m) /\ m <= m
  BY <1>2 DEF Grown, NameOf
<1>4. Listed(s) => Listed(r)
  BY <1>2 DEF Listed
<1>5. (Known(s) => Known(r)) /\ (Strict(s) => Strict(r))
  BY <1>2
<1> QED BY <1>1, <1>2, <1>3, <1>4, <1>5 DEF Moves

(* The last call returns its change.                                       *)
LEMMA ReturningMoves ==
  ASSUME NEW m \in Nat, NEW s, NEW others, Good(s, m, others), s.calls # <<>>,
         s.objs[Top(s).obj].whole
  PROVE  Moves(s, Return(Popped(s), Top(s).obj), m, others)
<1>1. PICK p : p = Popped(s)
  OBVIOUS
<1>2. /\ Good(p, m, others) /\ p.objs = s.objs /\ p.cache = s.cache /\ p.answer = s.answer
      /\ p.calls # <<>> => Top(p).phase \in {"needs", "neededBy"}
      /\ p.calls # <<>> => p.calls[1].obj = s.calls[1].obj
      /\ p.calls = <<>> => Top(s) = s.calls[1]
      /\ Known(s) => Known(p)
      /\ Strict(s) => Strict(p)
      /\ Strict(s) => Free(p, s.objs[Top(s).obj].num)
  BY <1>1, TopReturns
<1>3. PICK o : o = Top(s).obj
  OBVIOUS
<1>4. o \in 1 .. m
  BY <1>3, TopIsTyped DEF Good, Frame
<1>5. PICK r : r = Return(p, o)
  OBVIOUS
<1>6. /\ Good(r, m, others) /\ r.objs = p.objs
      /\ r.answer = Raised \/ r.cache = p.cache
      /\ \/ r.calls = <<>> /\ r.answer = Raised
         \/ p.calls = <<>> /\ r.calls = <<>> /\ r.answer = o
         \/ /\ p.calls # <<>> /\ r.calls # <<>> /\ r.answer = p.answer
            /\ r.calls[1].obj = p.calls[1].obj
      /\ Known(p) /\ (p.calls # <<>> /\ Top(p).phase = "neededBy" => p.objs[o].whole) => Known(r)
      /\ Strict(p) /\ Free(p, p.objs[o].num) => Strict(r)
  BY <1>2, <1>4, <1>5, ReturnIsGood
<1>7. Grown(s.objs, r.objs, m) /\ m <= m
  BY <1>2, <1>6 DEF Grown, NameOf
<1>8. Listed(s) => Listed(r) \/ r.answer = Raised
  BY <1>2, <1>6 DEF Listed
<1>9. (Known(s) => Known(r)) /\ (Strict(s) => Strict(r))
  BY <1>2, <1>3, <1>6
<1>10. \/ r.calls = <<>> /\ r.answer = Raised
       \/ r.calls = <<>> /\ r.answer = s.calls[1].obj /\ r.objs[r.answer].whole
       \/ r.calls # <<>> /\ r.answer = s.answer /\ r.calls[1].obj = s.calls[1].obj
  BY <1>2, <1>3, <1>6
<1>11. Moves(s, r, m, others)
  BY <1>6, <1>7, <1>8, <1>9, <1>10 DEF Moves
<1> QED BY <1>1, <1>3, <1>5, <1>11

(* The object of the last call gets new values, and then the call moves.   *)
LEMMA SettingMoves ==
  ASSUME NEW m, NEW s, NEW others, NEW o, NEW c, CanSet(s, m, others, o, c),
         \A d \in c.neededBy : Known(s) => s.objs[d].whole,
         Strict(s) => \A d \in c.needs : s.objs[d].num # c.num,
         NEW r, Moves(SetObject(s, o, c), r, m, others)
  PROVE  Moves(s, r, m, others)
<1>0. PICK q : q = SetObject(s, o, c)
  OBVIOUS
<1>1. /\ Good(q, m, others) /\ Grown(s.objs, q.objs, m)
      /\ q.cache = s.cache /\ q.calls = s.calls /\ q.answer = s.answer
      /\ Listed(s) => Listed(q)
      /\ Known(s) /\ (\A d \in c.neededBy : s.objs[d].whole) => Known(q)
      /\ Strict(s) /\ (\A d \in c.needs : s.objs[d].num # c.num) => Strict(q)
  BY <1>0, ObjectSet
<1>2. (Known(s) => Known(q)) /\ (Strict(s) => Strict(q))
  BY <1>1
<1>3. \A k \in Nat : m <= k /\ Grown(q.objs, r.objs, m) => Grown(s.objs, r.objs, m)
  BY <1>1 DEF Grown
<1> QED BY <1>0, <1>1, <1>2, <1>3 DEF Moves

(* Query is such a step.                                                   *)
LEMMA QueryMoves ==
  ASSUME NEW m \in Nat, NEW t \in Thread, NEW others, Good(Own(t), m, others), GerritTyped,
         Query(t)
  PROVE  Moved(t, m, others)
<1>1. PICK s : s = Own(t)
  OBVIOUS
<1>2. PICK f : f = Top(s)
  OBVIOUS
<1>3. Good(s, m, others) /\ s.calls # <<>> /\ f.phase = "query"
  BY <1>1, <1>2 DEF Query, Calling, Own
<1>4. /\ f \in Frame(m) /\ f.obj \in 1 .. m
  BY <1>2, <1>3, TopIsTyped DEF Good, Frame
<1>5. PICK o \in 1 .. m : o = f.obj
  BY <1>4
<1>6. s \in State(m) /\ s.objs \in [1 .. m -> Change(m)] /\ s.objs[o] \in Change(m)
  BY <1>3 DEF Good, State, Objects
<1>7. PICK n : n = s.objs[o].num
  OBVIOUS
<1>8. n \in Number
  BY <1>6, <1>7 DEF Change
<1>9. PICK merged \in BOOLEAN : merged = (gerrit.status[n] = "merged")
  OBVIOUS
<1>10. PICK current \in BOOLEAN : current = (s.objs[o].ps = gerrit.latest[n])
  OBVIOUS
<1>11. PICK c : c = [s.objs[o] EXCEPT !.whole = TRUE, !.merged = merged, !.current = current]
  OBVIOUS
<1>12. /\ c \in Change(m) /\ c.num = s.objs[o].num /\ c.ps = s.objs[o].ps /\ c.whole
       /\ c.needs = s.objs[o].needs /\ c.neededBy = s.objs[o].neededBy
  BY <1>6, <1>11 DEF Change
<1>13. PICK q : q = SetObject(s, o, c)
  OBVIOUS
<1>14. q = [s EXCEPT !.objs[f.obj].whole = TRUE, !.objs[f.obj].merged = merged,
                     !.objs[f.obj].current = (s.objs[f.obj].ps = gerrit.latest[n])]
  BY <1>5, <1>6, <1>10, <1>11, <1>13 DEF State, SetObject
<1>15. /\ Good(q, m, others) /\ q.objs[o] = c /\ q.calls = s.calls
  <2>1. CanSet(s, m, others, o, c)
    BY <1>3, <1>12 DEF CanSet
  <2> QED BY <1>13, <2>1, ObjectSet
<1>16. q.calls # <<>> /\ Top(q) = f /\ q.objs[Top(q).obj].whole
  BY <1>2, <1>3, <1>5, <1>12, <1>15 DEF Top
<1>17. PICK r : r = IF merged THEN Return(Popped(q), f.obj)
                    ELSE WithTop(q, [f EXCEPT !.history = @ \cup {n}, !.phase = "depends",
                                              !.deps = gerrit.needs[n]])
  OBVIOUS
<1>18. Becomes(t, r)
  BY <1>1, <1>2, <1>5, <1>7, <1>9, <1>14, <1>17 DEF Query, Popped
<1>19. Moves(q, r, m, others)
  <2>1. CASE merged
    BY <1>15, <1>16, <1>17, <2>1, ReturningMoves
  <2>2. CASE ~merged
    <3>1. PICK g : g = [f EXCEPT !.history = @ \cup {n}, !.phase = "depends", !.deps = gerrit.needs[n]]
      OBVIOUS
    <3>2. /\ g \in Frame(m) /\ g.obj = f.obj /\ g.phase = "depends" /\ g.got = f.got
      <4>1. gerrit.needs[n] \in SUBSET Number /\ "depends" \in Phase
        BY <1>8 DEF GerritTyped, Phase
      <4> QED BY <1>4, <1>8, <3>1, <4>1 DEF Frame
    <3>3. Known(q) => GotWhole(q.objs, g)
      BY <3>2 DEF GotWhole
    <3>4. g.obj = Top(q).obj /\ g.phase # "query" /\ q.objs[g.obj].whole
      BY <1>16, <3>2
    <3>5. r = WithTop(q, g)
      BY <1>17, <2>2, <3>1
    <3>6. Strict(q) => Careful(q.objs, g)
      <4>1. Top(q) = q.calls[Len(q.calls)] /\ Len(q.calls) \in DOMAIN q.calls
        BY <1>15, <1>16, TopIsTyped DEF Good
      <4>2. Strict(q) => g.got = {}
        BY <1>3, <1>16, <3>2, <4>1 DEF Strict, Careful
      <4>3. q.objs[g.obj].num = n /\ n \in g.history
        BY <1>4, <1>5, <1>7, <1>12, <1>15, <3>1, <3>2 DEF Frame
      <4> QED BY <3>2, <4>2, <4>3 DEF Careful
    <3> QED BY <1>15, <1>16, <3>2, <3>3, <3>4, <3>5, <3>6, GoingOnMoves
  <2> QED BY <2>1, <2>2
<1>20. \A d \in c.neededBy : Known(s) => s.objs[d].whole
  BY <1>6, <1>12 DEF Known
<1>22. Strict(s) => \A d \in c.needs : s.objs[d].num # c.num
  BY <1>6, <1>12 DEF Strict, NoLoops
<1>21. Moves(s, r, m, others)
  <2>1. CanSet(s, m, others, o, c)
    BY <1>3, <1>12 DEF CanSet
  <2> QED BY <1>13, <1>19, <1>20, <1>22, <2>1, SettingMoves
<1> QED BY <1>1, <1>18, <1>21 DEF Moved

(* A thread inside an update, its last call in the given phase.            *)
LEMMA CallingIs ==
  ASSUME NEW m \in Nat, NEW t \in Thread, NEW others, Good(Own(t), m, others),
         NEW phase, Calling(t, phase), NEW s, s = Own(t), NEW f, f = Top(s)
  PROVE  /\ Good(s, m, others) /\ s \in State(m) /\ s.calls # <<>>
         /\ f \in Frame(m) /\ f.phase = phase /\ f.obj \in 1 .. m
         /\ s.objs \in [1 .. m -> Change(m)] /\ s.objs[f.obj] \in Change(m)
         /\ phase # "query" => s.objs[f.obj].whole
         /\ (Known(s) => GotWhole(s.objs, f))
         /\ Strict(s) => Careful(s.objs, f)
<1>1. Good(s, m, others) /\ s.calls # <<>> /\ f.phase = phase
  BY DEF Calling, Own
<1>2. s \in State(m) /\ Stacked(s)
  BY <1>1 DEF Good
<1>3. /\ f \in Frame(m) /\ f = s.calls[Len(s.calls)] /\ Len(s.calls) \in DOMAIN s.calls
  BY <1>1, <1>2, TopIsTyped
<1>4. f.obj \in 1 .. m
  BY <1>3 DEF Frame
<1>5. s.objs \in [1 .. m -> Change(m)]
  BY <1>2 DEF State, Objects
<1>6. phase # "query" => s.objs[f.obj].whole
  BY <1>1, <1>2, <1>3 DEF Stacked
<1>7. (Known(s) => GotWhole(s.objs, f))
  BY <1>3 DEF Known
<1>8. Strict(s) => Careful(s.objs, f)
  BY <1>3 DEF Strict
<1> QED BY <1>1, <1>2, <1>3, <1>4, <1>5, <1>6, <1>7, <1>8

(* The latest patchset of a change is a key.                               *)
LEMMA LatestIsKey ==
  ASSUME GerritTyped, NEW N \in SUBSET Number
  PROVE  {Latest(n) : n \in N} \in SUBSET Key
BY DEF GerritTyped, Latest, Key

(* Depends is such a step.                                                 *)
LEMMA DependsMoves ==
  ASSUME NEW m \in Nat, NEW t \in Thread, NEW others, Good(Own(t), m, others), GerritTyped,
         Depends(t)
  PROVE  Moved(t, m, others)
<1>1. PICK s : s = Own(t)
  OBVIOUS
<1>2. PICK f : f = Top(s)
  OBVIOUS
<1>3. Calling(t, "depends")
  BY DEF Depends
<1>4. /\ Good(s, m, others) /\ s.calls # <<>> /\ f \in Frame(m) /\ s.objs[f.obj].whole
      /\ (Known(s) => GotWhole(s.objs, f))
      /\ f.phase = "depends" /\ (Strict(s) => Careful(s.objs, f))
  BY <1>1, <1>2, <1>3, CallingIs
<1>5. PICK g : g = [f EXCEPT !.phase = "needs", !.todo = {Latest(n) : n \in f.deps}]
  OBVIOUS
<1>6. g \in Frame(m) /\ g.obj = f.obj /\ g.phase = "needs" /\ g.got = f.got
  <2>1. f.deps \in SUBSET Number
    BY <1>4 DEF Frame
  <2>2. PICK K : K = {Latest(n) : n \in f.deps}
    OBVIOUS
  <2>3. K \in SUBSET Key /\ "needs" \in Phase
    BY <2>1, <2>2, LatestIsKey DEF Phase
  <2>4. g = [f EXCEPT !.phase = "needs", !.todo = K]
    BY <1>5, <2>2
  <2> QED BY <1>4, <2>3, <2>4 DEF Frame
<1>7. g.obj = Top(s).obj /\ g.phase # "query" /\ s.objs[g.obj].whole
  BY <1>2, <1>4, <1>6
<1>8. (Known(s) => GotWhole(s.objs, g))
  BY <1>6 DEF GotWhole
<1>11. Strict(s) => Careful(s.objs, g)
  <2>1. g.history = f.history
    BY <1>4, <1>5 DEF Frame
  <2> QED BY <1>4, <1>6, <2>1 DEF Careful
<1>9. Moves(s, WithTop(s, g), m, others)
  BY <1>4, <1>6, <1>7, <1>8, <1>11, GoingOnMoves
<1>10. Becomes(t, WithTop(s, g))
  BY <1>1, <1>2, <1>5 DEF Depends
<1> QED BY <1>1, <1>9, <1>10 DEF Moved

(* A call for a change, from a call that goes on.                          *)
LEMMA CallingMoves ==
  ASSUME NEW m \in Nat, NEW s, NEW others, Good(s, m, others), s.calls # <<>>,
         NEW f \in Frame(m), f.obj = Top(s).obj, f.phase \in {"needs", "neededBy"},
         s.objs[f.obj].whole, (Known(s) => GotWhole(s.objs, f)),
         Strict(s) => Careful(s.objs, f),
         NEW key \in Key, NEW refresh \in BOOLEAN, NEW past \in SUBSET Number
  PROVE  /\ (f.phase = "needs" => key[1] \notin f.history) /\ (f.phase = "neededBy" => refresh) =>
              Moves(s, GetChange(WithTop(s, f), key, refresh, past), m, others)
         /\ Moves(s, Raise(WithTop(s, f)), m, others)
<1>1. PICK p : p = WithTop(s, f)
  OBVIOUS
<1>2. f.phase # "query"
  OBVIOUS
<1>3. /\ Good(p, m, others) /\ p.objs = s.objs /\ p.cache = s.cache /\ p.answer = s.answer
      /\ p.calls # <<>> /\ Top(p) = f /\ p.calls[1].obj = s.calls[1].obj
      /\ Known(s) /\ GotWhole(s.objs, f) => Known(p)
      /\ Strict(s) /\ Careful(s.objs, f) => Strict(p)
  BY <1>1, <1>2, TopGoesOn DEF Good
<1>4. (Known(s) => Known(p)) /\ (Strict(s) => Strict(p))
  BY <1>3
<1>5. Listed(s) => Listed(p)
  BY <1>3 DEF Listed
<1>6. \A r : Moves(p, r, m, others) => Moves(s, r, m, others)
  BY <1>3, <1>4, <1>5 DEF Moves
<1>7. Moves(p, Raise(p), m, others)
  BY <1>3, RaiseMoves
<1>8. PICK r : r = GetChange(p, key, refresh, past)
  OBVIOUS
<1>9. /\ \E k \in Nat : m <= k /\ Good(r, k, others) /\ Grown(p.objs, r.objs, m)
      /\ Listed(p) => Listed(r) \/ r.answer = Raised
      /\ Known(p) /\ (p.calls # <<>> /\ Top(p).phase = "neededBy" => refresh) => Known(r)
      /\ Strict(p) /\ Free(p, key[1]) => Strict(r)
      /\ \/ r.calls = <<>> /\ r.answer = Raised
         \/ /\ p.calls = <<>> /\ r.calls = <<>> /\ key \in DOMAIN p.cache /\ r.answer = p.cache[key]
            /\ r.objs = p.objs /\ r.cache = p.cache /\ ~refresh
         \/ /\ r.calls # <<>> /\ r.answer = p.answer
            /\ IF p.calls = <<>> THEN NameOf(r.objs, r.calls[1].obj) = key
               ELSE r.calls[1].obj = p.calls[1].obj
  BY <1>3, <1>8, GetChangeIsGood
<1>10. (f.phase = "needs" => key[1] \notin f.history) /\ (f.phase = "neededBy" => refresh) =>
         Moves(p, r, m, others)
  BY <1>3, <1>9 DEF Moves, Free
<1> QED BY <1>1, <1>6, <1>7, <1>8, <1>10

(* GetNeeded is such a step.                                               *)
LEMMA GetNeededMoves ==
  ASSUME NEW m \in Nat, NEW t \in Thread, NEW others, Good(Own(t), m, others), GetNeeded(t)
  PROVE  Moved(t, m, others)
<1>1. PICK s : s = Own(t)
  OBVIOUS
<1>2. PICK f : f = Top(s)
  OBVIOUS
<1>3. Calling(t, "needs")
  BY DEF GetNeeded
<1>4. /\ Good(s, m, others) /\ s.calls # <<>> /\ f \in Frame(m) /\ s.objs[f.obj].whole
      /\ f.phase = "needs" /\ (Known(s) => GotWhole(s.objs, f))
      /\ Strict(s) => Careful(s.objs, f)
  BY <1>1, <1>2, <1>3, CallingIs
<1>5. PICK key \in f.todo :
        LET p == WithTop(Own(t), [f EXCEPT !.todo = @ \ {key}])
        IN Becomes(t, IF key[1] \in f.history THEN Raise(p) ELSE GetChange(p, key, FALSE, f.history))
  BY <1>1, <1>2 DEF GetNeeded
<1>6. PICK g : g = [f EXCEPT !.todo = @ \ {key}]
  OBVIOUS
<1>7. /\ g \in Frame(m) /\ g.obj = f.obj /\ g.phase = "needs" /\ g.got = f.got
      /\ key \in Key /\ f.history \in SUBSET Number /\ g.history = f.history
  BY <1>4, <1>5, <1>6 DEF Frame
<1>8. /\ g.obj = Top(s).obj /\ g.phase \in {"needs", "neededBy"} /\ s.objs[g.obj].whole
      /\ (Known(s) => GotWhole(s.objs, g))
  BY <1>2, <1>4, <1>7 DEF GotWhole
<1>9. FALSE \in BOOLEAN
  OBVIOUS
<1>12. Strict(s) => Careful(s.objs, g)
  BY <1>4, <1>7 DEF Careful
<1>10. /\ key[1] \notin f.history =>
            Moves(s, GetChange(WithTop(s, g), key, FALSE, f.history), m, others)
       /\ Moves(s, Raise(WithTop(s, g)), m, others)
  BY <1>4, <1>7, <1>8, <1>9, <1>12, CallingMoves
<1>11. Becomes(t, IF key[1] \in f.history THEN Raise(WithTop(s, g))
                  ELSE GetChange(WithTop(s, g), key, FALSE, f.history))
  BY <1>1, <1>5, <1>6
<1> QED BY <1>1, <1>10, <1>11 DEF Moved

(* GetDependent is such a step.                                            *)
LEMMA GetDependentMoves ==
  ASSUME NEW m \in Nat, NEW t \in Thread, NEW others, Good(Own(t), m, others), GetDependent(t)
  PROVE  Moved(t, m, others)
<1>1. PICK s : s = Own(t)
  OBVIOUS
<1>2. PICK f : f = Top(s)
  OBVIOUS
<1>3. Calling(t, "neededBy")
  BY DEF GetDependent
<1>4. /\ Good(s, m, others) /\ s.calls # <<>> /\ f \in Frame(m) /\ s.objs[f.obj].whole
      /\ f.phase = "neededBy" /\ (Known(s) => GotWhole(s.objs, f))
      /\ Strict(s) => Careful(s.objs, f)
  BY <1>1, <1>2, <1>3, CallingIs
<1>5. PICK key \in f.todo :
        Becomes(t, GetChange(WithTop(Own(t), [f EXCEPT !.todo = @ \ {key}]), key, RefreshDependents, {}))
  BY <1>1, <1>2 DEF GetDependent
<1>6. PICK g : g = [f EXCEPT !.todo = @ \ {key}]
  OBVIOUS
<1>7. /\ g \in Frame(m) /\ g.obj = f.obj /\ g.phase = "neededBy" /\ g.got = f.got
      /\ key \in Key /\ g.history = f.history
  BY <1>4, <1>5, <1>6 DEF Frame
<1>8. /\ g.obj = Top(s).obj /\ g.phase \in {"needs", "neededBy"} /\ s.objs[g.obj].whole
      /\ (Known(s) => GotWhole(s.objs, g))
  BY <1>2, <1>4, <1>7 DEF GotWhole
<1>9. RefreshDependents \in BOOLEAN /\ RefreshDependents /\ {} \in SUBSET Number
  BY DEF RefreshDependents
<1>12. Strict(s) => Careful(s.objs, g)
  BY <1>4, <1>7 DEF Careful
<1>10. Moves(s, GetChange(WithTop(s, g), key, RefreshDependents, {}), m, others)
  BY <1>4, <1>7, <1>8, <1>9, <1>12, CallingMoves
<1>11. Becomes(t, GetChange(WithTop(s, g), key, RefreshDependents, {}))
  BY <1>1, <1>5, <1>6
<1> QED BY <1>1, <1>10, <1>11 DEF Moved

(* Dependents is such a step.                                              *)
LEMMA DependentsMoves ==
  ASSUME NEW m \in Nat, NEW t \in Thread, NEW others, Good(Own(t), m, others), GerritTyped,
         Dependents(t)
  PROVE  Moved(t, m, others)
<1>1. PICK s : s = Own(t)
  OBVIOUS
<1>2. PICK f : f = Top(s)
  OBVIOUS
<1>3. Calling(t, "needs")
  BY DEF Dependents
<1>4. /\ Good(s, m, others) /\ s \in State(m) /\ s.calls # <<>> /\ f \in Frame(m)
      /\ s.objs \in [1 .. m -> Change(m)] /\ s.objs[f.obj] \in Change(m)
      /\ s.objs[f.obj].whole /\ (Known(s) => GotWhole(s.objs, f))
      /\ f.phase = Top(s).phase /\ (Strict(s) => Careful(s.objs, f) /\ NoLoops(s.objs))
  BY <1>1, <1>2, <1>3, CallingIs DEF Strict
<1>5. PICK o \in 1 .. m : o = f.obj
  BY <1>4 DEF Frame
<1>6. PICK c : c = [s.objs[o] EXCEPT !.needs = f.got]
  OBVIOUS
<1>7. /\ c \in Change(m) /\ c.num = s.objs[o].num /\ c.ps = s.objs[o].ps /\ c.whole
      /\ c.needs = f.got /\ c.neededBy = s.objs[o].neededBy
  BY <1>4, <1>5, <1>6 DEF Change, Frame
<1>8. CanSet(s, m, others, o, c)
  BY <1>4, <1>7 DEF CanSet
<1>9. PICK q : q = SetObject(s, o, c)
  OBVIOUS
<1>10. Good(q, m, others) /\ q.objs[o] = c /\ q.calls = s.calls
  BY <1>8, <1>9, ObjectSet
<1>11. q = [s EXCEPT !.objs[f.obj].needs = f.got]
  BY <1>4, <1>5, <1>6, <1>9 DEF SetObject, State
<1>12. PICK g : g = [f EXCEPT !.phase = "neededBy", !.got = {},
                              !.todo = {Latest(m1) : m1 \in {k \in Number : s.objs[o].num \in gerrit.needs[k]}}]
  OBVIOUS
<1>13. g \in Frame(m) /\ g.obj = o /\ g.phase = "neededBy" /\ g.got = {}
  <2>1. PICK N \in SUBSET Number : N = {k \in Number : s.objs[o].num \in gerrit.needs[k]}
    OBVIOUS
  <2>2. PICK K : K = {Latest(n) : n \in N}
    OBVIOUS
  <2>3. K \in SUBSET Key /\ "neededBy" \in Phase /\ {} \in SUBSET (1 .. m)
    BY <2>2, LatestIsKey DEF Phase
  <2>4. g = [f EXCEPT !.phase = "neededBy", !.got = {}, !.todo = K]
    BY <1>12, <2>1, <2>2
  <2> QED BY <1>4, <1>5, <2>3, <2>4 DEF Frame
<1>14. /\ q.calls # <<>> /\ g.obj = Top(q).obj /\ g.phase # "query" /\ q.objs[g.obj].whole
       /\ (Known(q) => GotWhole(q.objs, g))
  BY <1>2, <1>4, <1>5, <1>7, <1>10, <1>13 DEF Top, GotWhole
<1>19. f.phase = "needs" /\ g.history = f.history
  BY <1>2, <1>3, <1>1, <1>4, <1>12 DEF Calling, Frame
<1>20. Strict(s) => /\ \A d \in c.needs : s.objs[d].num # c.num
                    /\ s.objs[o].num \in f.history
  BY <1>4, <1>5, <1>7, <1>19 DEF Careful
<1>21. Strict(q) => Careful(q.objs, g)
  <2>1. Strict(q) => Careful(q.objs, f)
    <3>1. Top(q) = f /\ Top(q) = q.calls[Len(q.calls)] /\ Len(q.calls) \in DOMAIN q.calls
      BY <1>2, <1>4, <1>10, TopIsTyped DEF Good, Top
    <3> QED BY <3>1 DEF Strict
  <2> QED BY <1>5, <1>13, <1>19, <2>1 DEF Careful
<1>15. Moves(q, WithTop(q, g), m, others)
  BY <1>10, <1>13, <1>14, <1>21, GoingOnMoves
<1>16. \A d \in c.neededBy : Known(s) => s.objs[d].whole
  BY <1>4, <1>7 DEF Known
<1>17. Moves(s, WithTop(q, g), m, others)
  BY <1>8, <1>9, <1>15, <1>16, <1>20, SettingMoves
<1>18. Becomes(t, WithTop(q, g))
  BY <1>1, <1>2, <1>5, <1>11, <1>12 DEF Dependents
<1> QED BY <1>1, <1>17, <1>18 DEF Moved

(* Updated is such a step.                                                 *)
LEMMA UpdatedMoves ==
  ASSUME NEW m \in Nat, NEW t \in Thread, NEW others, Good(Own(t), m, others), Updated(t)
  PROVE  Moved(t, m, others)
<1>1. PICK s : s = Own(t)
  OBVIOUS
<1>2. PICK f : f = Top(s)
  OBVIOUS
<1>3. Calling(t, "neededBy")
  BY DEF Updated
<1>4. /\ Good(s, m, others) /\ s \in State(m) /\ s.calls # <<>> /\ f \in Frame(m)
      /\ s.objs \in [1 .. m -> Change(m)] /\ s.objs[f.obj] \in Change(m)
      /\ s.objs[f.obj].whole /\ (Known(s) => GotWhole(s.objs, f))
      /\ f.phase = Top(s).phase /\ (Strict(s) => Careful(s.objs, f) /\ NoLoops(s.objs))
  BY <1>1, <1>2, <1>3, CallingIs DEF Strict
<1>5. PICK o \in 1 .. m : o = f.obj
  BY <1>4 DEF Frame
<1>6. PICK c : c = [s.objs[o] EXCEPT !.neededBy = f.got]
  OBVIOUS
<1>7. /\ c \in Change(m) /\ c.num = s.objs[o].num /\ c.ps = s.objs[o].ps /\ c.whole
      /\ c.needs = s.objs[o].needs /\ c.neededBy = f.got
  BY <1>4, <1>5, <1>6 DEF Change, Frame
<1>8. CanSet(s, m, others, o, c)
  BY <1>4, <1>7 DEF CanSet
<1>9. PICK q : q = SetObject(s, o, c)
  OBVIOUS
<1>10. Good(q, m, others) /\ q.objs[o] = c /\ q.calls = s.calls
  BY <1>8, <1>9, ObjectSet
<1>11. Popped(q) = [s EXCEPT !.objs[f.obj].neededBy = f.got, !.calls = Front(@)]
  BY <1>4, <1>5, <1>6, <1>9 DEF SetObject, State, Popped
<1>12. q.calls # <<>> /\ Top(q) = f /\ q.objs[Top(q).obj].whole
  BY <1>2, <1>4, <1>5, <1>7, <1>10 DEF Top
<1>13. Moves(q, Return(Popped(q), Top(q).obj), m, others)
  BY <1>10, <1>12, ReturningMoves
<1>14. \A d \in c.neededBy : Known(s) => s.objs[d].whole
  BY <1>1, <1>2, <1>3, <1>4, <1>7 DEF GotWhole, Calling
<1>17. Strict(s) => \A d \in c.needs : s.objs[d].num # c.num
  BY <1>4, <1>5, <1>7 DEF NoLoops
<1>15. Moves(s, Return(Popped(q), f.obj), m, others)
  BY <1>8, <1>9, <1>12, <1>13, <1>14, <1>17, SettingMoves
<1>16. Becomes(t, Return(Popped(q), f.obj))
  BY <1>1, <1>2, <1>11 DEF Updated
<1> QED BY <1>1, <1>15, <1>16 DEF Moved

(* Every step of an update.                                                *)
LEMMA UpdateMoves ==
  ASSUME NEW m \in Nat, NEW t \in Thread, NEW others, Good(Own(t), m, others), GerritTyped,
         Update(t) \/ QueryFails(t)
  PROVE  Moved(t, m, others)
BY QueryMoves, DependsMoves, GetNeededMoves, DependentsMoves, GetDependentMoves, UpdatedMoves,
   QueryFailsMoves DEF Update

-----------------------------------------------------------------------------
(* The items of a pipeline, over the Change objects D, and its queues:     *)
(* only the last item of a queue may be live.                              *)
ItemsOf(D) == [obj : D, live : BOOLEAN, stage : Stage]
LastLive(q) == \A i \in DOMAIN q : q[i].live => i = Len(q)
Plain(q) == \A i \in DOMAIN q : ~q[i].live
Ends(q, o) == \A i \in DOMAIN q : q[i].live => i = Len(q) /\ q[i].obj = o
Queues(D) == {q \in Seq(ItemsOf(D)) : LastLive(q)}

(* A list without its i-th element.                                        *)
LEMMA WithoutOne ==
  ASSUME NEW S, NEW s \in Seq(S), NEW i \in 1 .. Len(s)
  PROVE  /\ RemoveAt(s, i) \in Seq(S) /\ Len(RemoveAt(s, i)) = Len(s) - 1
         /\ DOMAIN RemoveAt(s, i) = 1 .. Len(s) - 1
         /\ \A j \in 1 .. i - 1 : RemoveAt(s, i)[j] = s[j]
         /\ \A j \in i .. Len(s) - 1 : RemoveAt(s, i)[j] = s[j + 1]
<1>1. PICK n \in Nat : n = Len(s)
  OBVIOUS
<1>2. i \in 1 .. n /\ \A j \in 1 .. n : s[j] \in S
  BY <1>1
<1>3. PICK a : a = SubSeq(s, 1, i - 1)
  OBVIOUS
<1>4. PICK b : b = SubSeq(s, i + 1, n)
  OBVIOUS
<1>5. a \in Seq(S) /\ Len(a) = i - 1 /\ \A j \in 1 .. i - 1 : a[j] = s[j]
  <2>1. i - 1 \in Int /\ \A j \in 1 .. i - 1 : s[j] \in S
    BY <1>2
  <2>2. /\ a \in Seq(S) /\ Len(a) = IF 1 <= i - 1 THEN (i - 1) - 1 + 1 ELSE 0
        /\ \A j \in 1 .. (i - 1) - 1 + 1 : a[j] = s[1 + j - 1]
    BY <1>3, <2>1, SubSeqProperties
  <2>3. \A j \in 1 .. i - 1 : j \in 1 .. (i - 1) - 1 + 1 /\ 1 + j - 1 = j
    BY <1>2
  <2> QED BY <1>2, <2>2, <2>3
<1>6. b \in Seq(S) /\ Len(b) = n - i /\ \A j \in 1 .. n - i : b[j] = s[i + j]
  <2>1. i + 1 \in Int /\ \A j \in i + 1 .. n : s[j] \in S
    BY <1>2
  <2>2. /\ b \in Seq(S) /\ Len(b) = IF i + 1 <= n THEN n - (i + 1) + 1 ELSE 0
        /\ \A j \in 1 .. n - (i + 1) + 1 : b[j] = s[(i + 1) + j - 1]
    BY <1>4, <2>1, SubSeqProperties
  <2>3. \A j \in 1 .. n - i : j \in 1 .. n - (i + 1) + 1 /\ (i + 1) + j - 1 = i + j
    BY <1>2
  <2> QED BY <1>2, <2>2, <2>3
<1>7. PICK r : r = RemoveAt(s, i) /\ r = a \o b
  BY <1>1, <1>3, <1>4 DEF RemoveAt
<1>8. /\ r \in Seq(S) /\ Len(r) = Len(a) + Len(b)
      /\ \A j \in 1 .. Len(a) : r[j] = a[j]
      /\ \A j \in Len(a) + 1 .. Len(a) + Len(b) : r[j] = b[j - Len(a)]
  <2>1. /\ a \o b \in Seq(S) /\ Len(a \o b) = Len(a) + Len(b)
        /\ \A j \in 1 .. Len(a) + Len(b) : (a \o b)[j] = IF j <= Len(a) THEN a[j] ELSE b[j - Len(a)]
    BY <1>5, <1>6, ConcatProperties
  <2>2. Len(a) \in Nat /\ Len(b) \in Nat
    BY <1>5, <1>6
  <2> QED BY <1>7, <2>1, <2>2
<1>9. Len(r) = n - 1 /\ DOMAIN r = 1 .. n - 1
  BY <1>2, <1>5, <1>6, <1>8
<1>10. \A j \in 1 .. i - 1 : r[j] = s[j]
  BY <1>5, <1>8
<1>11. ASSUME NEW j \in i .. n - 1 PROVE r[j] = s[j + 1]
  <2>1. j \in Len(a) + 1 .. Len(a) + Len(b) /\ j - Len(a) = j - i + 1
    BY <1>2, <1>5, <1>6
  <2>2. j - i + 1 \in 1 .. n - i /\ i + (j - i + 1) = j + 1
    BY <1>2
  <2> QED BY <1>6, <1>8, <2>1, <2>2
<1> QED BY <1>1, <1>7, <1>8, <1>9, <1>10, <1>11

(* An item leaves its queue.                                               *)
LEMMA QueueWithout ==
  ASSUME NEW D, NEW q \in Queues(D), NEW i \in 1 .. Len(q)
  PROVE  RemoveAt(q, i) \in Queues(D)
<1>1. q \in Seq(ItemsOf(D)) /\ LastLive(q)
  BY DEF Queues
<1>2. PICK n \in Nat : n = Len(q) /\ DOMAIN q = 1 .. n
  BY <1>1
<1>3. PICK r : r = RemoveAt(q, i)
  OBVIOUS
<1>4. /\ r \in Seq(ItemsOf(D)) /\ Len(r) = n - 1 /\ DOMAIN r = 1 .. n - 1
      /\ \A j \in 1 .. i - 1 : r[j] = q[j]
      /\ \A j \in i .. n - 1 : r[j] = q[j + 1]
  BY <1>1, <1>2, <1>3, WithoutOne
<1>5. ASSUME NEW j \in 1 .. n - 1, r[j].live PROVE j = n - 1
  <2>1. CASE j \in 1 .. i - 1
    <3>1. q[j].live /\ j \in 1 .. n
      BY <1>4, <1>5, <2>1
    <3>2. j = n
      BY <1>1, <1>2, <3>1 DEF LastLive
    <3> QED BY <1>2, <3>2
  <2>2. CASE j \in i .. n - 1
    <3>1. q[j + 1].live /\ j + 1 \in 1 .. n
      BY <1>4, <1>5, <2>2
    <3> QED BY <1>1, <1>2, <3>1 DEF LastLive
  <2> QED BY <1>2, <2>1, <2>2
<1> QED BY <1>3, <1>4, <1>5 DEF Queues, LastLive

(* An item is removed from the pipeline.                                   *)
LEMMA ItemRemoved ==
  ASSUME NEW D, NEW p \in Seq(Queues(D)), NEW k \in AllItems(p)
  PROVE  RemoveItem(p, k) \in Seq(Queues(D))
<1>1. PICK a \in DOMAIN p : \E i \in DOMAIN p[a] : k = <<a, i>>
  BY DEF AllItems
<1>0. PICK i \in DOMAIN p[a] : k = <<a, i>>
  BY <1>1
<1>2. p[a] \in Queues(D) /\ a \in 1 .. Len(p) /\ k[1] = a /\ k[2] = i
  BY <1>0
<1>3. i \in 1 .. Len(p[a])
  BY <1>0, <1>2 DEF Queues
<1>4. PICK q : q = RemoveAt(p[a], i)
  OBVIOUS
<1>5. q \in Queues(D)
  BY <1>2, <1>3, <1>4, QueueWithout
<1>6. RemoveAt(p, a) \in Seq(Queues(D))
  BY <1>2, WithoutOne
<1>7. [p EXCEPT ![a] = q] \in Seq(Queues(D))
  BY <1>2, <1>5
<1>8. RemoveItem(p, k) = IF q = <<>> THEN RemoveAt(p, a) ELSE [p EXCEPT ![a] = q]
  BY <1>2, <1>4 DEF RemoveItem, WithQueue
<1> QED BY <1>6, <1>7, <1>8

(* removeOldVersionsOfChange and removeAbandonedChange.                    *)
LEMMA OldRemoved ==
  ASSUME NEW D, NEW p \in Seq(Queues(D)), NEW os, NEW o
  PROVE  /\ RemoveOldVersions(p, os, o) \in Seq(Queues(D))
         /\ RemoveAbandoned(p, os, o) \in Seq(Queues(D))
<1>1. RemoveAbandoned(p, os, o) \in Seq(Queues(D))
  <2>1. PICK gone : gone = {k \in LiveItems(p) : Equals(os, o, p[k[1]][k[2]].obj)}
    OBVIOUS
  <2>2. gone \subseteq AllItems(p)
    BY <2>1 DEF LiveItems
  <2>3. RemoveAbandoned(p, os, o) = IF gone = {} THEN p ELSE RemoveItem(p, CHOOSE k \in gone : TRUE)
    BY <2>1 DEF RemoveAbandoned
  <2>4. gone # {} => (CHOOSE k \in gone : TRUE) \in gone
    OBVIOUS
  <2> QED BY <2>2, <2>3, <2>4, ItemRemoved
<1>2. RemoveOldVersions(p, os, o) \in Seq(Queues(D))
  <2>1. PICK old : old = {k \in LiveItems(p) : IsUpdateOf(os, o, p[k[1]][k[2]].obj)}
    OBVIOUS
  <2>2. old \subseteq AllItems(p)
    BY <2>1 DEF LiveItems
  <2>3. RemoveOldVersions(p, os, o) =
          IF old = {} THEN p ELSE RemoveItem(p, CHOOSE k \in old : \A l \in old : k[1] <= l[1])
    BY <2>1 DEF RemoveOldVersions
  <2>4. ASSUME old # {} PROVE \E k \in old : \A l \in old : k[1] <= l[1]
    <3>1. PICK S : S = {k[1] : k \in old}
      OBVIOUS
    <3>2. S \in SUBSET Nat
      <4>1. \A k \in AllItems(p) : k[1] \in DOMAIN p
        BY DEF AllItems
      <4> QED BY <2>2, <3>1, <4>1
    <3>3. S # {}
      BY <2>4, <3>1
    <3>4. PICK a \in S : \A b \in S : a <= b
      BY <3>2, <3>3, LeastNumber
    <3> QED BY <3>1, <3>4
  <2>5. old # {} => (CHOOSE k \in old : \A l \in old : k[1] <= l[1]) \in old
    BY <2>4
  <2> QED BY <2>2, <2>3, <2>5, ItemRemoved
<1> QED BY <1>1, <1>2

-----------------------------------------------------------------------------
(* What addChange enqueues are Change objects, however the changes need    *)
(* each other, and only the last is live, the one that was to be added.    *)
LEMMA PartInOrder ==
  ASSUME NEW m \in Nat, NEW S \in SUBSET (1 .. m)
  PROVE  SetToSeq(S) \in Seq(1 .. m)
<1>1. IsFiniteSet(S)
  <2>1. IsFiniteSet(1 .. m)
    BY FS_Interval
  <2> QED BY <2>1, FS_Subset
<1>2. PICK s : s = SetToSeq(S)
  OBVIOUS
<1>3. s \in Seq(ToSet(s)) /\ ToSet(s) \subseteq 1 .. m
  BY <1>1, <1>2, FiniteSetInOrder
<1>4. Len(s) \in Nat /\ \A i \in 1 .. Len(s) : s[i] \in 1 .. m
  BY <1>3
<1>5. s = [i \in 1 .. Len(s) |-> s[i]]
  BY <1>3
<1> QED BY <1>2, <1>4, <1>5

Nested(nested, os) ==
  \A a \in Outcome(os), d \in DOMAIN os :
    /\ nested[<<a, d, FALSE>>] \in Outcome(os)
    /\ Plain(a.queue) => Plain(nested[<<a, d, FALSE>>].queue)

(* One call of addChange, if the calls it makes keep to it.                *)
LEMMA EnqueueOneIsTyped ==
  ASSUME NEW m \in Nat, NEW os \in Objects(m), NEW nested, Nested(nested, os),
         NEW a \in Outcome(os), NEW o \in 1 .. m, NEW live \in BOOLEAN
  PROVE  /\ EnqueueOne(nested, a, os, o, live) \in Outcome(os)
         /\ Plain(a.queue) /\ ~live => Plain(EnqueueOne(nested, a, os, o, live).queue)
         /\ Plain(a.queue) => Ends(EnqueueOne(nested, a, os, o, live).queue, o)
<1> DEFINE R == {x \in Outcome(os) : Plain(a.queue) => Plain(x.queue)}
           needed == SetToSeq(ChangesNeeded(a.queue, os, o))
           n == Len(needed)
           Op(x, k) == IF x.failed THEN x ELSE nested[<<x, needed[k], FALSE>>]
           g == [p \in R \X (1 .. n) |-> Op(p[1], p[2])]
           Step(h) == [s \in SUBSET (1 .. n) |-> IF s = {} THEN a ELSE Op(h[s \ {Max(s)}], Max(s))]
           b == (CHOOSE h : h = Step(h))[1 .. n]
<1>1. needed \in Seq(1 .. m) /\ DOMAIN os = 1 .. m
  <2>1. os[o] \in Change(m) /\ DOMAIN os = 1 .. m
    BY DEF Objects
  <2>2. ChangesNeeded(a.queue, os, o) \in SUBSET (1 .. m)
    BY <2>1 DEF ChangesNeeded, Change
  <2> QED BY <2>1, <2>2, PartInOrder
<1>2. n \in Nat /\ DOMAIN needed = 1 .. n /\ \A k \in 1 .. n : needed[k] \in 1 .. m
  BY <1>1
<1>3. ASSUME NEW x \in R, NEW k \in 1 .. n PROVE Op(x, k) \in R
  BY <1>1, <1>2 DEF Nested
<1>4. EnqueueOne(nested, a, os, o, live) =
        IF b.failed \/ AlreadyInQueue(b.queue, os, o) THEN b
        ELSE [b EXCEPT !.queue = Append(@, Item(o, live)), !.added = Append(@, o)]
  BY <1>2 DEF EnqueueOne, FoldLeft, MapThenFoldSet
<1>5. \A x \in R, k \in 1 .. n : g[<<x, k>>] = Op(x, k)
  OBVIOUS
<1> HIDE DEF needed, R, Op, g
<1>6. \A s \in SUBSET (1 .. n) : s # {} => s \ {Max(s)} \in SUBSET (1 .. n) /\ Max(s) \in 1 .. n
  BY <1>2, MaxOfPart
<1>7. a \in R
  BY DEF R
<1>8. \E h : h = Step(h)
  <2>1. PICK h : Folds(h, n, R, a, g)
    <3> HIDE DEF n
    <3> QED BY <1>2, <1>3, <1>5, <1>7, FoldExists
  <2>2. /\ h \in [SUBSET (1 .. n) -> R]
        /\ \A s \in SUBSET (1 .. n) :
             h[s] = IF s = {} THEN a ELSE g[<<h[s \ {Max(s)}], Max(s)>>]
    BY <2>1 DEF Folds
  <2>3. \A s \in SUBSET (1 .. n) : h[s] = Step(h)[s]
    BY <1>5, <1>6, <2>2
  <2> QED BY <2>2, <2>3
<1> DEFINE h == CHOOSE h : h = Step(h)
<1>9. h = Step(h)
  <2> HIDE DEF Step
  <2> QED BY <1>8
<1> HIDE DEF h
<1>10. h[{}] \in R
  BY <1>2, <1>7, <1>9
<1>11. ASSUME NEW s \in SUBSET (1 .. n), s # {}, h[s \ {Max(s)}] \in R PROVE h[s] \in R
  BY <1>3, <1>6, <1>9, <1>11
<1>12. h[1 .. n] \in R
  <2> HIDE DEF n
  <2> QED BY <1>2, <1>10, <1>11, FoldKeeps
<1>13. PICK c \in Outcome(os) : c = b /\ (Plain(a.queue) => Plain(c.queue))
  BY <1>12 DEF h, R
<1> HIDE DEF b, n
<1>14. ASSUME NEW e, e = [c EXCEPT !.queue = Append(@, Item(o, live)), !.added = Append(@, o)]
       PROVE  /\ e \in Outcome(os)
              /\ Plain(c.queue) /\ ~live => Plain(e.queue)
              /\ Plain(c.queue) => Ends(e.queue, o)
  <2>1. PICK I : I = [obj : DOMAIN os, live : BOOLEAN, stage : Stage]
    OBVIOUS
  <2>2. PICK i : i = Item(o, live)
    OBVIOUS
  <2>3. i \in I /\ i.live = live /\ i.obj = o
    BY <1>1, <2>1, <2>2 DEF Item, Stage
  <2>4. c.queue \in Seq(I) /\ c.added \in Seq(DOMAIN os)
    BY <2>1 DEF Outcome
  <2>5. PICK q \in Seq(I) : q = c.queue
    BY <2>4
  <2>6. PICK r : r = Append(q, i)
    OBVIOUS
  <2>7. /\ r \in Seq(I) /\ Len(r) = Len(q) + 1 /\ DOMAIN r = 1 .. Len(q) + 1
        /\ r[Len(q) + 1] = i /\ DOMAIN q = 1 .. Len(q) /\ \A j \in 1 .. Len(q) : r[j] = q[j]
    BY <2>3, <2>6
  <2>8. Append(c.added, o) \in Seq(DOMAIN os)
    BY <1>1, <2>4
  <2>9. e.queue = r /\ e \in Outcome(os)
    BY <1>14, <2>1, <2>2, <2>5, <2>6, <2>7, <2>8 DEF Outcome
  <2>10. PICK n0 \in Nat : n0 = Len(q)
    BY <2>5
  <2>11. Plain(q) /\ ~live => Plain(r)
    BY <2>3, <2>7, <2>10 DEF Plain
  <2>12. Plain(q) => Ends(r, o)
    BY <2>3, <2>7, <2>10 DEF Plain, Ends
  <2> QED BY <2>5, <2>9, <2>11, <2>12
<1>15. Plain(c.queue) => Ends(c.queue, o)
  BY DEF Plain, Ends
<1>16. CASE c.failed \/ AlreadyInQueue(c.queue, os, o)
  BY <1>4, <1>13, <1>15, <1>16
<1>17. CASE ~(c.failed \/ AlreadyInQueue(c.queue, os, o))
  BY <1>4, <1>13, <1>14, <1>17
<1> QED BY <1>16, <1>17

(* What a function that stands for the nested calls does to the queue.     *)
Steady(h, os) ==
  \A a \in Outcome(os), d \in DOMAIN os :
    /\ Plain(a.queue) => Plain(h[<<a, d, FALSE>>].queue)
    /\ Plain(a.queue) => Ends(h[<<a, d, TRUE>>].queue, d)

(* All calls of addChange, however deep.                                   *)
LEMMA AddedIsTyped ==
  ASSUME NEW m \in Nat, NEW os \in Objects(m), NEW p, NEW o \in 1 .. m
  PROVE  Added(p, os, o) \in Outcome(os) /\ Ends(Added(p, os, o).queue, o)
<1> DEFINE depth == Len(os)
           R0 == Outcome(os)
           Calls == R0 \X (DOMAIN os) \X BOOLEAN
           Level(d, nested) ==
             [call \in Calls |-> IF d = 0 THEN [call[1] EXCEPT !.failed = TRUE]
                                 ELSE EnqueueOne(nested, call[1], os, call[2], call[3])]
           Step(h) == [d \in 0 .. depth |-> Level(d, h[d - 1])]
           R == {h \in [Calls -> R0] : Steady(h, os)}
           g == [q \in R \X (1 .. depth) |-> Level(q[2], q[1])]
<1>1. depth \in Nat /\ DOMAIN os = 1 .. m
  BY DEF Objects
<1>2. NotAdded \in R0 /\ Plain(NotAdded.queue) /\ Ends(NotAdded.queue, o)
  <2>1. PICK I : I = [obj : DOMAIN os, live : BOOLEAN, stage : Stage]
    OBVIOUS
  <2>2. <<>> \in Seq(I) /\ <<>> \in Seq(DOMAIN os)
    OBVIOUS
  <2> QED BY <2>1, <2>2 DEF NotAdded, Outcome, Plain, Ends
<1>3. Level(0, <<>>) \in R /\ \A h : Level(0, h) = Level(0, <<>>)
  <2>1. \A a \in R0 : [a EXCEPT !.failed = TRUE] \in R0 /\ [a EXCEPT !.failed = TRUE].queue = a.queue
    BY DEF Outcome
  <2>2. PICK h : h = Level(0, <<>>)
    OBVIOUS
  <2>3. h \in [Calls -> R0] /\ \A call \in Calls : h[call].queue = call[1].queue
    <3> HIDE DEF R0
    <3> QED BY <2>1, <2>2
  <2>4. \A a \in R0, d \in DOMAIN os, live \in BOOLEAN : h[<<a, d, live>>].queue = a.queue
    <3> HIDE DEF R0
    <3> QED BY <2>3
  <2>5. \A a \in R0, d \in DOMAIN os : Plain(a.queue) => Ends(a.queue, d)
    BY DEF Plain, Ends
  <2>6. Steady(h, os)
    BY <2>4, <2>5 DEF Steady
  <2>7. \A g0 : Level(0, g0) = Level(0, <<>>)
    OBVIOUS
  <2> HIDE DEF Level, R0, Calls
  <2> QED BY <2>2, <2>3, <2>6, <2>7
<1>4. ASSUME NEW h \in R, NEW d, d # 0 PROVE Level(d, h) \in R
  <2>1. Nested(h, os)
    <3>1. \A a \in R0, x \in DOMAIN os : <<a, x, FALSE>> \in Calls
      OBVIOUS
    <3> HIDE DEF Calls
    <3> QED BY <1>4, <3>1 DEF Nested, Steady
  <2>2. \A a \in R0, x \in 1 .. m, live \in BOOLEAN :
          /\ EnqueueOne(h, a, os, x, live) \in R0
          /\ Plain(a.queue) /\ ~live => Plain(EnqueueOne(h, a, os, x, live).queue)
          /\ Plain(a.queue) => Ends(EnqueueOne(h, a, os, x, live).queue, x)
    BY <2>1, EnqueueOneIsTyped
  <2>3. PICK e : e = Level(d, h)
    OBVIOUS
  <2>4. e = [call \in Calls |-> EnqueueOne(h, call[1], os, call[2], call[3])]
    BY <1>4, <2>3
  <2> HIDE DEF R0
  <2>5. e \in [Calls -> R0]
    BY <1>1, <2>2, <2>4
  <2>6. \A a \in R0, x \in DOMAIN os, live \in BOOLEAN :
          e[<<a, x, live>>] = EnqueueOne(h, a, os, x, live)
    BY <2>4
  <2>7. Steady(e, os)
    <3> SUFFICES ASSUME NEW a \in Outcome(os), NEW x \in DOMAIN os, Plain(a.queue)
                 PROVE  Plain(e[<<a, x, FALSE>>].queue) /\ Ends(e[<<a, x, TRUE>>].queue, x)
      BY DEF Steady
    <3>1. a \in R0 /\ x \in 1 .. m
      BY <1>1 DEF R0
    <3>2. ASSUME NEW live \in BOOLEAN
          PROVE  /\ ~live => Plain(e[<<a, x, live>>].queue)
                 /\ Ends(e[<<a, x, live>>].queue, x)
      <4>1. e[<<a, x, live>>] = EnqueueOne(h, a, os, x, live)
        BY <2>6, <3>1
      <4> QED BY <2>2, <3>1, <4>1
    <3> QED BY <3>2
  <2> HIDE DEF Level, Calls
  <2> QED BY <2>3, <2>5, <2>7
<1>5. Enqueue(NotAdded, os, o, TRUE) = (CHOOSE h : h = Step(h))[depth][<<NotAdded, o, TRUE>>]
  BY DEF Enqueue
<1>6. \A h \in R, d \in 1 .. depth : g[<<h, d>>] = Level(d, h) /\ g[<<h, d>>] \in R
  <2> HIDE DEF Level, R, depth
  <2> QED BY <1>1, <1>4
<1>7. <<NotAdded, o, TRUE>> \in Calls
  BY <1>1, <1>2
<1> HIDE DEF depth, Level, R, g, Calls
<1>8. \E h : h = Step(h)
  <2>0. PICK h : Recursion(h, depth, R, Level(0, <<>>), g)
    BY <1>1, <1>3, <1>6, RecursionExists
  <2>1. /\ h \in [0 .. depth -> R] /\ h[0] = Level(0, <<>>)
        /\ \A d \in 1 .. depth : h[d] = g[<<h[d - 1], d>>]
    BY <2>0 DEF Recursion
  <2>2. ASSUME NEW d \in 0 .. depth PROVE h[d] = Level(d, h[d - 1])
    <3>1. CASE d = 0
      BY <1>3, <2>1, <3>1
    <3>2. CASE d \in 1 .. depth
      <4>1. d - 1 \in 0 .. depth
        BY <1>1, <3>2
      <4> QED BY <1>6, <2>1, <3>2, <4>1
    <3> QED BY <1>1, <3>1, <3>2
  <2> QED BY <2>1, <2>2
<1> DEFINE h == CHOOSE h : h = Step(h)
<1>9. h = Step(h)
  <2> HIDE DEF Step
  <2> QED BY <1>8
<1> HIDE DEF h
<1> DEFINE S == {d \in Nat : d <= depth => h[d] \in R}
<1>10. 0 \in S
  BY <1>1, <1>3, <1>9
<1>11. ASSUME NEW d \in Nat, d \in S PROVE d + 1 \in S
  <2> SUFFICES ASSUME d + 1 <= depth PROVE h[d + 1] \in R
    BY <1>11
  <2>1. h[d] \in R /\ d + 1 \in 0 .. depth /\ d + 1 # 0 /\ (d + 1) - 1 = d
    BY <1>1, <1>11
  <2> QED BY <1>4, <1>9, <2>1
<1>12. depth \in S
  <2> HIDE DEF S
  <2> QED BY <1>1, <1>10, <1>11, SetInduction
<1>13. h[depth] \in R
  BY <1>1, <1>12
<1>14. PICK e : e = h[depth][<<NotAdded, o, TRUE>>]
  OBVIOUS
<1>15. e \in R0 /\ Ends(e.queue, o)
  <2>1. e \in R0
    BY <1>7, <1>13, <1>14 DEF R
  <2>2. Ends(e.queue, o)
    BY <1>1, <1>2, <1>13, <1>14 DEF R, Steady
  <2> QED BY <2>1, <2>2
<1>16. Enqueue(NotAdded, os, o, TRUE) = e
  BY <1>5, <1>14 DEF h
<1> QED BY <1>2, <1>15, <1>16 DEF Added

-----------------------------------------------------------------------------
(* The cache as both threads see it.                                       *)
Other(t) == IF t = "connector" THEN "scheduler" ELSE "connector"
Asked(t) == {calls[t][i].obj : i \in {j \in DOMAIN calls[t] : calls[t][j].phase = "query"}}

CacheOk(m) ==
  /\ m \in Nat /\ objs \in Objects(m) /\ cache \in Caches(m)
  /\ calls \in [Thread -> Stacks(m)] /\ answer \in [Thread -> Answers(m)]
  /\ \A t \in Thread : Good(Own(t), m, Asked(Other(t)))
CacheInv == GerritTyped /\ \E m : CacheOk(m)

(* When one thread moves, the other may go on with what it had.            *)
LEMMA ThreadMoved ==
  ASSUME NEW m, CacheOk(m), NEW t \in Thread, NEW k \in Nat, m <= k, NEW r,
         Becomes(t, r), Good(r, k, Asked(Other(t))), Grown(objs, r.objs, m)
  PROVE  /\ CacheOk(k)' /\ Own(t)' = r /\ objs' = r.objs /\ cache' = r.cache
         /\ calls'[t] = r.calls /\ answer'[t] = r.answer
         /\ calls'[Other(t)] = calls[Other(t)] /\ answer'[Other(t)] = answer[Other(t)]
<1>1. PICK u \in Thread : u = Other(t) /\ u # t /\ Other(u) = t /\ Thread = {t, u}
  BY DEF Thread, Other
<1>2. /\ objs' = r.objs /\ cache' = r.cache
      /\ calls' = [calls EXCEPT ![t] = r.calls] /\ answer' = [answer EXCEPT ![t] = r.answer]
  BY DEF Becomes
<1>3. /\ m \in Nat /\ calls \in [Thread -> Stacks(m)] /\ answer \in [Thread -> Answers(m)]
      /\ Good(Own(u), m, Asked(t)) /\ cache \in Caches(m) /\ objs \in Objects(m)
  BY <1>1 DEF CacheOk
<1>4. /\ calls'[t] = r.calls /\ answer'[t] = r.answer
      /\ calls'[u] = calls[u] /\ answer'[u] = answer[u]
  BY <1>1, <1>2, <1>3
<1>5. r \in State(k) /\ Named(r) /\ Filled(r, Asked(u))
  BY <1>1 DEF Good
<1>6. /\ r = [objs |-> r.objs, cache |-> r.cache, calls |-> r.calls, answer |-> r.answer]
      /\ r.objs \in Objects(k) /\ r.cache \in Caches(k) /\ r.calls \in Stacks(k)
      /\ r.answer \in Answers(k)
  BY <1>5 DEF State
<1>7. Own(t)' = r
  BY <1>2, <1>4, <1>6 DEF Own
<1>8. PICK v : v = Own(u)'
  OBVIOUS
<1>9. /\ v.objs = r.objs /\ v.cache = r.cache /\ v.calls = calls[u] /\ v.answer = answer[u]
      /\ v = [objs |-> r.objs, cache |-> r.cache, calls |-> calls[u], answer |-> answer[u]]
  BY <1>2, <1>4, <1>8 DEF Own
<1>10. /\ calls[u] \in Stacks(k) /\ answer[u] \in Answers(k)
       /\ Stacks(m) \subseteq Stacks(k) /\ Answers(m) \subseteq Answers(k)
  BY <1>3, MoreObjects
<1>11. v \in State(k)
  BY <1>6, <1>9, <1>10 DEF State
<1>12. \A i \in DOMAIN calls[u] : calls[u][i].obj \in 1 .. m
  <2>1. \A i \in DOMAIN calls[u] : calls[u][i] \in Frame(m)
    BY <1>3 DEF Stacks
  <2> QED BY <2>1 DEF Frame
<1>13. Stacked(v)
  <2>1. Stacked(Own(u)) /\ Own(u).calls = calls[u] /\ Own(u).objs = objs
    BY <1>3 DEF Good, Own
  <2> QED BY <1>9, <1>12, <2>1 DEF Stacked, Grown
<1>14. Named(v)
  BY <1>5, <1>9 DEF Named
<1>15. Filled(v, Asked(t)')
  <2> SUFFICES ASSUME NEW j \in DOMAIN r.cache
               PROVE  r.objs[r.cache[j]].whole \/ r.cache[j] \in Asked(t)' \/ Asking(v, r.cache[j])
    BY <1>9 DEF Filled
  <2>1. CASE r.cache[j] \in Asked(u)
    BY <1>9, <2>1 DEF Asked, Asking
  <2>2. CASE Asking(r, r.cache[j])
    BY <1>4, <2>2 DEF Asked, Asking
  <2> QED BY <1>5, <2>1, <2>2 DEF Filled
<1>16. Good(Own(u), k, Asked(t))'
  BY <1>8, <1>11, <1>13, <1>14, <1>15 DEF Good
<1>17. Asked(u)' = Asked(u)
  BY <1>4 DEF Asked
<1>18. Good(Own(t), k, Asked(u))'
  BY <1>1, <1>7, <1>17 DEF Good
<1>19. \A w \in Thread : Good(Own(w), k, Asked(Other(w)))'
  BY <1>1, <1>16, <1>18
<1>20. /\ calls' \in [Thread -> Stacks(k)] /\ answer' \in [Thread -> Answers(k)]
  BY <1>2, <1>3, <1>6, <1>10
<1> QED BY <1>1, <1>2, <1>4, <1>6, <1>7, <1>19, <1>20 DEF CacheOk

(* The cache when only what is cached, or what was answered, is given up.  *)
LEMMA LessCached ==
  ASSUME NEW m, CacheOk(m), objs' = objs, calls' = calls,
         NEW K, cache' = cache \/ cache' = [k \in DOMAIN cache \ K |-> cache[k]],
         answer' = answer \/ \E t \in Thread : answer' = [answer EXCEPT ![t] = NoAnswer]
  PROVE  CacheOk(m)'
<1>1. /\ m \in Nat /\ objs \in Objects(m) /\ cache \in Caches(m)
      /\ calls \in [Thread -> Stacks(m)] /\ answer \in [Thread -> Answers(m)]
  BY DEF CacheOk
<1>2. /\ cache' \in Caches(m) /\ DOMAIN cache' \subseteq DOMAIN cache
      /\ \A k \in DOMAIN cache' : cache'[k] = cache[k]
  <2>1. CASE cache' = cache
    BY <1>1, <2>1
  <2>2. CASE cache' = [k \in DOMAIN cache \ K |-> cache[k]]
    <3>1. PICK c : c = cache
      OBVIOUS
    <3>2. PICK d : d = [k \in DOMAIN c \ K |-> c[k]]
      OBVIOUS
    <3>3. d \in Caches(m) /\ DOMAIN d = DOMAIN c \ K
      BY <1>1, <3>1, <3>2, CacheWithout
    <3>4. cache' = d
      BY <2>2, <3>1, <3>2
    <3> QED BY <3>1, <3>2, <3>3, <3>4
  <2> QED BY <2>1, <2>2
<1>3. answer' \in [Thread -> Answers(m)]
  BY <1>1 DEF Answers
<1>4. ASSUME NEW t \in Thread PROVE Good(Own(t), m, Asked(Other(t)))'
  <2>1. PICK s : s = Own(t)
    OBVIOUS
  <2>2. PICK r : r = Own(t)'
    OBVIOUS
  <2>3. /\ r = [objs |-> objs, cache |-> cache', calls |-> calls[t], answer |-> answer'[t]]
        /\ r.objs = objs /\ r.cache = cache' /\ r.calls = calls[t]
        /\ s.objs = objs /\ s.cache = cache /\ s.calls = calls[t]
    BY <2>1, <2>2 DEF Own
  <2>4. Stacked(s) /\ Named(s) /\ Filled(s, Asked(Other(t)))
    BY <2>1 DEF CacheOk, Good
  <2>5. r \in State(m)
    BY <1>1, <1>2, <1>3, <2>3 DEF State
  <2>6. Stacked(r) /\ Named(r)
    BY <1>2, <2>3, <2>4 DEF Stacked, Named
  <2>7. Asked(Other(t))' = Asked(Other(t))
    BY DEF Asked
  <2>8. Filled(r, Asked(Other(t)))
    BY <1>2, <2>3, <2>4 DEF Filled, Asking
  <2> QED BY <2>2, <2>5, <2>6, <2>7, <2>8 DEF Good
<1> QED BY <1>1, <1>2, <1>3, <1>4 DEF CacheOk

(* An empty cache.                                                         *)
LEMMA EmptyIsTyped ==
  /\ <<>> \in Objects(0) /\ <<>> \in Caches(0) /\ <<>> \in Stacks(0) /\ NoAnswer \in Answers(0)
  /\ \A others : Good([objs |-> <<>>, cache |-> <<>>, calls |-> <<>>, answer |-> NoAnswer], 0, others)
<1>1. /\ <<>> \in Objects(0) /\ <<>> \in Caches(0) /\ <<>> \in Stacks(0) /\ NoAnswer \in Answers(0)
  <2>1. <<>> \in [1 .. 0 -> Change(0)] /\ <<>> \in [{} -> 1 .. 0]
    OBVIOUS
  <2>2. {} \in SUBSET Key
    OBVIOUS
  <2>3. <<>> \in Objects(0) /\ <<>> \in Caches(0)
    BY <2>1, <2>2 DEF Objects, Caches
  <2>4. <<>> \in Stacks(0) /\ NoAnswer \in Answers(0)
    BY DEF Stacks, Answers
  <2> QED BY <2>3, <2>4
<1>2. PICK r : r = [objs |-> <<>>, cache |-> <<>>, calls |-> <<>>, answer |-> NoAnswer]
  OBVIOUS
<1>3. r \in State(0)
  BY <1>1, <1>2 DEF State
<1>4. \A others : Stacked(r) /\ Named(r) /\ Filled(r, others)
  BY <1>2 DEF Stacked, Named, Filled
<1> QED BY <1>1, <1>2, <1>3, <1>4 DEF Good

(* ... as an exit leaves it, ...                                           *)
LEMMA EmptyCacheIsOk ==
  ASSUME objs' = <<>>, cache' = <<>>, calls' = [t \in Thread |-> <<>>],
         answer' = [t \in Thread |-> NoAnswer]
  PROVE  CacheOk(0)'
BY EmptyIsTyped DEF CacheOk, Own

(* ... and as it is at first.                                              *)
LEMMA CacheAtFirst ==
  ASSUME CacheInit
  PROVE  CacheOk(0)
BY EmptyIsTyped DEF CacheInit, CacheOk, Own

-----------------------------------------------------------------------------
(* The run loop: the scheduler has an event in its hands only while it     *)
(* handles events, and it does not go to sleep on events in its queue      *)
(* without having been woken again.                                        *)
LoopInv ==
  /\ hand = [t \in Thread |-> hand[t]]
  /\ hand["scheduler"] # NoEvent => pc = "events"
  /\ triggers # <<>> /\ ~exiting => wake \/ pc \in {"results", "events"}
  /\ pc \in {"pause", "saved"} => exiting

(* An event, the ids of which are the numbers from 1; the scheduler's own  *)
(* have 0.                                                                 *)
EventType ==
  {"patchset-created", "comment-added", "change-merged", "change-abandoned",
   "parent-change-enqueued"}
Event == [type : EventType, key : Key, id : Nat]

EventsTyped ==
  /\ events \in Seq(Event) /\ triggers \in Seq(Event) /\ file \in Seq(Event)
  /\ hand \in [Thread -> Event \cup {NoEvent}]
  /\ sent \in Nat /\ handled \subseteq Nat \ {0} /\ saved \subseteq Nat \ {0}
  /\ boot \in {"loading", "configured", "resumed"}

(* A thread gets the change of the event in its hands, and nothing else.   *)
HandOk(t) ==
  /\ hand[t] = NoEvent => calls[t] = <<>> /\ answer[t] = NoAnswer
  /\ answer[t] # NoAnswer => calls[t] = <<>>
  /\ calls[t] # <<>> => NameOf(objs, calls[t][1].obj) = hand[t].key
  /\ answer[t] > 0 => NameOf(objs, answer[t]) = hand[t].key
HandInv == \A t \in Thread : HandOk(t)

Complete(key) == key \in DOMAIN cache /\ objs[cache[key]].whole

(* Nothing has failed: a change that is handed out is filled in, and so is *)
(* one that a trigger event names; the scheduler never has to ask Gerrit   *)
(* itself, so the threads do not update changes at the same time.          *)
Informed ==
  /\ \A t \in Thread : Known(Own(t)) /\ (answer[t] > 0 => objs[answer[t]].whole)
  /\ (\A t \in Thread : answer[t] # Raised) =>
       /\ calls["scheduler"] = <<>> /\ Listed(Own("scheduler"))
       /\ \A i \in DOMAIN triggers : Complete(triggers[i].key)
       /\ hand["scheduler"] # NoEvent => Complete(hand["scheduler"].key)

WholeInv ==
  /\ boot # "resumed" => "restart" \in upsets
  /\ NothingFailed => Informed

Count(s, n) == Cardinality({i \in DOMAIN s : s[i].id = n})
Held(t, n) == IF hand[t].id = n THEN 1 ELSE 0
Ahead(n) == Count(triggers, n) + Count(file, n) + Held("scheduler", n)
Total(n) == Count(events, n) + Held("connector", n) + Ahead(n)

Once(n) ==
  /\ Total(n) <= 1
  /\ n \in handled \/ n > sent => Total(n) = 0
  /\ n \in saved \ handled => Ahead(n) = 1
  /\ n \in saved \ handled /\ (boot # "resumed" \/ pc = "saved") => Count(file, n) = 1

CountInv ==
  /\ handled \subseteq 1 .. sent
  /\ \A n \in Nat \ {0} : Once(n)
  /\ boot = "resumed" => file = <<>> \/ pc = "saved"
  /\ exiting => boot = "resumed"

-----------------------------------------------------------------------------
(* Every step keeps it.                                                    *)
LEMMA LoopStep ==
  ASSUME LoopInv, [Next]_vars
  PROVE  LoopInv'
<1> USE DEF LoopInv, Thread
<1>1. CASE Gerrit
  <2>1. PICK type, n : Emits(type, n)
    BY <1>1 DEF Gerrit, Upload, Comment, Close
  <2> QED BY <2>1 DEF Emits, loopVars, exitVars
<1>2. CASE TakeEvent
  BY <1>2 DEF TakeEvent, loopVars, exitVars
<1>3. CASE Deliver
  BY <1>3 DEF Deliver, AfterAddEvent, exitVars
<1>4. ASSUME NEW t \in Thread, Updating(t) \/ Fails(t) PROVE LoopInv'
  BY <1>4 DEF Updating, Fails, loopVars, exitVars
<1>5. CASE WakeUp \/ BuildCompleted \/ MergeCompleted \/ EndResults
  BY <1>5 DEF WakeUp, BuildCompleted, MergeCompleted, EndResults, exitVars
<1>6. CASE TakeTrigger
  <2>1. pc' = pc /\ wake' = wake /\ exiting' = exiting /\ pc = "events"
    BY <1>6 DEF TakeTrigger, loopVars, exitVars
  <2>2. hand' = hand \/ hand' = [hand EXCEPT !["scheduler"] = Head(triggers)]
    BY <1>6 DEF TakeTrigger
  <2> QED BY <2>1, <2>2
<1>7. CASE HandleTrigger
  <2>1. /\ hand' = [hand EXCEPT !["scheduler"] = NoEvent] /\ exiting' = exiting /\ pc = "events"
        /\ (pc' = "asleep" /\ wake' = TRUE) \/ pc' = pc
    BY <1>7 DEF HandleTrigger, exitVars
  <2>2. hand'["scheduler"] = NoEvent /\ hand' = [t \in Thread |-> hand'[t]]
    BY <2>1
  <2> QED BY <2>1, <2>2
<1>8. CASE EndEvents
  BY <1>8 DEF EndEvents, exitVars
<1>9. CASE Process
  BY <1>9 DEF Process, exitVars
<1>10. CASE Pause
  BY <1>10 DEF Pause
<1>11. CASE Reconfigure
  BY <1>11 DEF Reconfigure, loopVars
<1>12. CASE Die
  BY <1>12 DEF Die
<1>13. CASE Start \/ Resume
  BY <1>13 DEF Start, Resume, exitVars
<1>14. CASE Exit
  BY <1>14 DEF Exit
<1>15. CASE UNCHANGED vars
  BY <1>15 DEF vars, loopVars, exitVars
<1> QED BY <1>1, <1>2, <1>3, <1>4, <1>5, <1>6, <1>7, <1>8, <1>9, <1>10, <1>11, <1>12, <1>13, <1>14,
            <1>15 DEF Next, Connector, Scheduler, Main

(* The run loop never sleeps on work (Scheduler.run, addEvent, resume).    *)
THEOREM NoSleepOnWork ==
  Spec => []NeverSleepsOnWork
<1>1. Init => LoopInv
  BY DEF Init, LoopInv, Thread
<1>2. LoopInv /\ [Next]_vars => LoopInv'
  BY LoopStep
<1>3. LoopInv => NeverSleepsOnWork
  BY DEF LoopInv, NeverSleepsOnWork
<1> QED BY <1>1, <1>2, <1>3, PTL DEF Spec

-----------------------------------------------------------------------------
(* The zuul trigger's events are about changes that need others.           *)
ParentEvent(d) == [type |-> "parent-change-enqueued", key |-> KeyOf(d), id |-> 0]
Dependent == UNION {objs[o].neededBy : o \in DOMAIN objs}

(* ParentEvents is a list of such events.                                  *)
LEMMA ParentEventsAre ==
  ASSUME NEW m \in Nat, objs \in Objects(m), NEW added \in Seq(1 .. m)
  PROVE  ParentEvents(added) \in Seq({ParentEvent(d) : d \in Dependent})
<1> DEFINE R == Seq({ParentEvent(d) : d \in Dependent})
           n == Len(added)
           Batch(o) == {[type |-> "parent-change-enqueued", key |-> KeyOf(d), id |-> 0] :
                          d \in objs[o].neededBy}
           Op(es, k) == es \o SetToSeq(Batch(added[k]))
           g == [p \in R \X (1 .. n) |-> Op(p[1], p[2])]
           Step(h) == [s \in SUBSET (1 .. n) |-> IF s = {} THEN <<>> ELSE Op(h[s \ {Max(s)}], Max(s))]
           b == (CHOOSE h : h = Step(h))[1 .. n]
<1>1. n \in Nat /\ DOMAIN added = 1 .. n /\ \A k \in 1 .. n : added[k] \in 1 .. m
  OBVIOUS
<1>2. ASSUME NEW o \in 1 .. m PROVE SetToSeq(Batch(o)) \in R
  <2>1. objs[o] \in Change(m) /\ DOMAIN objs = 1 .. m
    BY DEF Objects
  <2>2. objs[o].neededBy \subseteq 1 .. m /\ objs[o].neededBy \subseteq Dependent
    BY <2>1 DEF Change, Dependent
  <2>3. IsFiniteSet(objs[o].neededBy)
    <3>1. IsFiniteSet(1 .. m)
      BY FS_Interval
    <3> QED BY <2>2, <3>1, FS_Subset
  <2>4. PICK B : B = Batch(o)
    OBVIOUS
  <2>5. B = {ParentEvent(d) : d \in objs[o].neededBy}
    BY <2>4 DEF ParentEvent
  <2>6. IsFiniteSet(B)
    <3> DEFINE f == [d \in objs[o].neededBy |-> ParentEvent(d)]
    <3>1. f \in Surjection(objs[o].neededBy, B)
      BY <2>5 DEF Surjection
    <3> QED BY <2>3, <3>1, FS_Surjection
  <2>7. B \subseteq {ParentEvent(d) : d \in Dependent}
    BY <2>2, <2>5
  <2>8. SetToSeq(B) \in Seq(ToSet(SetToSeq(B))) /\ ToSet(SetToSeq(B)) \subseteq B
    BY <2>6, FiniteSetInOrder
  <2>9. SetToSeq(B) \in R
    <3> HIDE DEF Batch
    <3> QED BY <2>7, <2>8
  <2> QED BY <2>4, <2>9
<1>3. ASSUME NEW x \in R, NEW k \in 1 .. n PROVE Op(x, k) \in R
  <2>1. PICK y : y = SetToSeq(Batch(added[k]))
    OBVIOUS
  <2>2. y \in R
    BY <1>1, <1>2, <2>1
  <2>3. x \o y \in R
    BY <2>2
  <2> QED BY <2>1, <2>3
<1>4. ParentEvents(added) = b
  BY <1>1 DEF ParentEvents, FoldLeft, MapThenFoldSet
<1>5. \A x \in R, k \in 1 .. n : g[<<x, k>>] = Op(x, k)
  OBVIOUS
<1>7. <<>> \in R
  OBVIOUS
<1> HIDE DEF R, Op, g
<1>6. \A s \in SUBSET (1 .. n) : s # {} => s \ {Max(s)} \in SUBSET (1 .. n) /\ Max(s) \in 1 .. n
  BY <1>1, MaxOfPart
<1>8. \E h : h = Step(h)
  <2>1. PICK h : Folds(h, n, R, <<>>, g)
    <3> HIDE DEF n
    <3> QED BY <1>1, <1>3, <1>5, <1>7, FoldExists
  <2>2. /\ h \in [SUBSET (1 .. n) -> R]
        /\ \A s \in SUBSET (1 .. n) :
             h[s] = IF s = {} THEN <<>> ELSE g[<<h[s \ {Max(s)}], Max(s)>>]
    BY <2>1 DEF Folds
  <2>3. \A s \in SUBSET (1 .. n) : h[s] = Step(h)[s]
    BY <1>5, <1>6, <2>2
  <2> QED BY <2>2, <2>3
<1> DEFINE h == CHOOSE h : h = Step(h)
<1>9. h = Step(h)
  <2> HIDE DEF Step
  <2> QED BY <1>8
<1> HIDE DEF h
<1>10. h[{}] \in R
  BY <1>1, <1>7, <1>9
<1>11. ASSUME NEW s \in SUBSET (1 .. n), s # {}, h[s \ {Max(s)}] \in R PROVE h[s] \in R
  BY <1>3, <1>6, <1>9, <1>11
<1>12. h[1 .. n] \in R
  <2> HIDE DEF n
  <2> QED BY <1>1, <1>10, <1>11, FoldKeeps
<1> QED BY <1>4, <1>12 DEF h, R

-----------------------------------------------------------------------------
(* What a step of thread t on the cache does, and what it leaves alone.    *)
StepOf(t, m, k) ==
  /\ k \in Nat /\ m <= k /\ CacheOk(k)' /\ Grown(objs, objs', m)
  /\ calls'[Other(t)] = calls[Other(t)] /\ answer'[Other(t)] = answer[Other(t)]
  /\ Listed(Own(t)) => Listed(Own(t))' \/ answer'[t] = Raised
  /\ Known(Own(t)) => Known(Own(t))'
  /\ Strict(Own(t)) => Strict(Own(t))'

(* _getChange for an event, ...                                            *)
LEMMA ThreadAsks ==
  ASSUME NEW m, CacheOk(m), NEW t \in Thread, calls[t] = <<>>, answer[t] = NoAnswer,
         NEW key \in Key, NEW refresh \in BOOLEAN, Becomes(t, GetChange(Own(t), key, refresh, {}))
  PROVE  /\ \E k : StepOf(t, m, k)
         /\ \/ calls'[t] = <<>> /\ answer'[t] = Raised
            \/ /\ calls'[t] = <<>> /\ key \in DOMAIN cache /\ answer'[t] = cache[key]
               /\ objs' = objs /\ cache' = cache /\ ~refresh
            \/ /\ calls'[t] # <<>> /\ answer'[t] = NoAnswer
               /\ NameOf(objs', calls'[t][1].obj) = key
<1>1. PICK s : s = Own(t)
  OBVIOUS
<1>2. PICK others : others = Asked(Other(t))
  OBVIOUS
<1>3. PICK r : r = GetChange(s, key, refresh, {})
  OBVIOUS
<1>4. /\ s.objs = objs /\ s.cache = cache /\ s.calls = <<>> /\ s.answer = NoAnswer
      /\ Good(s, m, others) /\ m \in Nat /\ {} \in SUBSET Number
  BY <1>1, <1>2 DEF CacheOk, Own
<1>5. /\ \E k \in Nat : m <= k /\ Good(r, k, others) /\ Grown(s.objs, r.objs, m)
      /\ Listed(s) => Listed(r) \/ r.answer = Raised
      /\ Known(s) /\ (s.calls # <<>> /\ Top(s).phase = "neededBy" => refresh) => Known(r)
      /\ Strict(s) /\ Free(s, key[1]) => Strict(r)
      /\ \/ r.calls = <<>> /\ r.answer = Raised
         \/ /\ s.calls = <<>> /\ r.calls = <<>> /\ key \in DOMAIN s.cache /\ r.answer = s.cache[key]
            /\ r.objs = s.objs /\ r.cache = s.cache /\ ~refresh
         \/ /\ r.calls # <<>> /\ r.answer = s.answer
            /\ IF s.calls = <<>> THEN NameOf(r.objs, r.calls[1].obj) = key
               ELSE r.calls[1].obj = s.calls[1].obj
  BY <1>3, <1>4, GetChangeIsGood
<1>6. PICK k \in Nat : m <= k /\ Good(r, k, others) /\ Grown(s.objs, r.objs, m)
  BY <1>5
<1>7. /\ CacheOk(k)' /\ Own(t)' = r /\ objs' = r.objs /\ cache' = r.cache
      /\ calls'[t] = r.calls /\ answer'[t] = r.answer
      /\ calls'[Other(t)] = calls[Other(t)] /\ answer'[Other(t)] = answer[Other(t)]
  BY <1>1, <1>2, <1>3, <1>4, <1>6, ThreadMoved
<1>8. Listed(Own(t)) => Listed(Own(t))' \/ answer'[t] = Raised
  <2>1. Listed(Own(t))' <=> Listed(r)
    BY <1>7 DEF Listed
  <2> QED BY <1>1, <1>5, <1>7, <2>1
<1>9. Known(Own(t)) => Known(Own(t))'
  <2>1. Known(Own(t))' <=> Known(r)
    BY <1>7 DEF Known
  <2> QED BY <1>1, <1>4, <1>5, <2>1
<1>12. Strict(Own(t)) => Strict(Own(t))'
  <2>1. Strict(Own(t))' <=> Strict(r)
    BY <1>7 DEF Strict
  <2> QED BY <1>1, <1>4, <1>5, <2>1 DEF Free
<1>10. StepOf(t, m, k)
  BY <1>4, <1>6, <1>7, <1>8, <1>9, <1>12 DEF StepOf
<1>11. \/ calls'[t] = <<>> /\ answer'[t] = Raised
       \/ /\ calls'[t] = <<>> /\ key \in DOMAIN cache /\ answer'[t] = cache[key]
          /\ objs' = objs /\ cache' = cache /\ ~refresh
       \/ /\ calls'[t] # <<>> /\ answer'[t] = NoAnswer
          /\ NameOf(objs', calls'[t][1].obj) = key
  BY <1>4, <1>5, <1>7
<1> QED BY <1>10, <1>11

(* ... and _updateChange.                                                  *)
LEMMA ThreadUpdates ==
  ASSUME NEW m, CacheOk(m), GerritTyped, NEW t \in Thread, Update(t) \/ QueryFails(t)
  PROVE  /\ \E k : StepOf(t, m, k)
         /\ calls[t] # <<>>
         /\ \/ calls'[t] = <<>> /\ answer'[t] = Raised
            \/ calls'[t] = <<>> /\ answer'[t] = calls[t][1].obj /\ objs'[answer'[t]].whole
            \/ calls'[t] # <<>> /\ answer'[t] = answer[t] /\ calls'[t][1].obj = calls[t][1].obj
<1>1. PICK s : s = Own(t)
  OBVIOUS
<1>2. PICK others : others = Asked(Other(t))
  OBVIOUS
<1>4. /\ s.objs = objs /\ s.calls = calls[t] /\ s.answer = answer[t]
      /\ Good(s, m, others) /\ m \in Nat
  BY <1>1, <1>2 DEF CacheOk, Own
<1>0. Moved(t, m, others)
  BY <1>1, <1>4, UpdateMoves
<1>3. PICK r : Becomes(t, r) /\ Moves(s, r, m, others)
  BY <1>0, <1>1 DEF Moved
<1>6. PICK k \in Nat : m <= k /\ Good(r, k, others) /\ Grown(s.objs, r.objs, m)
  BY <1>3 DEF Moves
<1>7. /\ CacheOk(k)' /\ Own(t)' = r /\ objs' = r.objs /\ cache' = r.cache
      /\ calls'[t] = r.calls /\ answer'[t] = r.answer
      /\ calls'[Other(t)] = calls[Other(t)] /\ answer'[Other(t)] = answer[Other(t)]
  BY <1>1, <1>2, <1>3, <1>4, <1>6, ThreadMoved
<1>8. Listed(Own(t)) => Listed(Own(t))' \/ answer'[t] = Raised
  <2>1. Listed(Own(t))' <=> Listed(r)
    BY <1>7 DEF Listed
  <2> QED BY <1>1, <1>3, <1>7, <2>1 DEF Moves
<1>5. calls[t] # <<>>
  BY DEF Update, QueryFails, Query, Depends, GetNeeded, Dependents, GetDependent, Updated, Calling
<1>9. Known(Own(t)) => Known(Own(t))'
  <2>1. Known(Own(t))' <=> Known(r)
    BY <1>7 DEF Known
  <2> QED BY <1>1, <1>3, <1>5, <2>1 DEF Moves
<1>12. Strict(Own(t)) => Strict(Own(t))'
  <2>1. Strict(Own(t))' <=> Strict(r)
    BY <1>7 DEF Strict
  <2> QED BY <1>1, <1>3, <2>1 DEF Moves
<1>10. StepOf(t, m, k)
  BY <1>2, <1>4, <1>6, <1>7, <1>8, <1>9, <1>12 DEF StepOf
<1>11. \/ calls'[t] = <<>> /\ answer'[t] = Raised
       \/ calls'[t] = <<>> /\ answer'[t] = calls[t][1].obj /\ objs'[answer'[t]].whole
       \/ calls'[t] # <<>> /\ answer'[t] = answer[t] /\ calls'[t][1].obj = calls[t][1].obj
  BY <1>3, <1>4, <1>7 DEF Moves
<1> QED BY <1>5, <1>10, <1>11

(* The cache when nothing happens to it.                                   *)
LEMMA CacheAsItWas ==
  ASSUME NEW m, CacheOk(m), UNCHANGED cacheVars
  PROVE  CacheOk(m)' /\ (HandInv /\ hand' = hand => HandInv')
<1>1. CacheOk(m)'
  BY LessCached DEF cacheVars
<1>2. HandInv /\ hand' = hand => HandInv'
  BY DEF HandInv, HandOk, cacheVars, NameOf
<1> QED BY <1>1, <1>2

-----------------------------------------------------------------------------
(* The other thread keeps its event and its change.                        *)
LEMMA OtherHand ==
  ASSUME NEW m, CacheOk(m), HandInv, NEW t \in Thread, NEW k, StepOf(t, m, k),
         hand'[Other(t)] = hand[Other(t)], HandOk(t)'
  PROVE  HandInv'
<1>1. PICK u \in Thread : u = Other(t) /\ Thread = {t, u}
  BY DEF Thread, Other
<1>2. calls'[u] = calls[u] /\ answer'[u] = answer[u] /\ hand'[u] = hand[u] /\ HandOk(u)
  BY <1>1 DEF StepOf, HandInv
<1>3. m \in Nat /\ calls[u] \in Seq(Frame(m)) /\ answer[u] \in Answers(m)
  BY <1>1 DEF CacheOk, Stacks
<1>4. calls[u] # <<>> => calls[u][1].obj \in 1 .. m
  <2>1. calls[u] # <<>> => calls[u][1] \in Frame(m)
    BY <1>3
  <2> QED BY <2>1 DEF Frame
<1>5. answer[u] > 0 => answer[u] \in 1 .. m
  BY <1>3 DEF Answers, NoAnswer, Raised
<1>6. \A o \in 1 .. m : NameOf(objs', o) = NameOf(objs, o)
  BY DEF StepOf, Grown
<1>7. HandOk(u)'
  BY <1>2, <1>4, <1>5, <1>6 DEF HandOk, NameOf
<1> QED BY <1>1, <1>7 DEF HandInv

(* The first of a list, and what remains.                                  *)
LEMMA Taking ==
  ASSUME NEW D, NEW s \in Seq(D), s # <<>>
  PROVE  Head(s) \in D /\ Tail(s) \in Seq(D)
OBVIOUS

(* An event has a key.                                                     *)
LEMMA EventIsSome ==
  \A e \in Event : e # NoEvent /\ e.key \in Key
BY DEF Event, NoEvent, EventType

(* What handling an event does to all but the pipeline.                    *)
LEMMA Handling ==
  ASSUME HandleTrigger
  PROVE  /\ pc = "events" /\ hand["scheduler"] # NoEvent /\ answer["scheduler"] # NoAnswer
         /\ hand' = [hand EXCEPT !["scheduler"] = NoEvent]
         /\ answer' = [answer EXCEPT !["scheduler"] = NoAnswer]
         /\ UNCHANGED <<gerrit, objs, cache, calls, sent, events, exitVars, saved>>
         /\ handled' = handled \cup ({hand["scheduler"].id} \ {0})
         /\ upsets \subseteq upsets' /\ (answer["scheduler"] = Raised => "refresh" \in upsets')
         /\ \/ triggers' = triggers
            \/ /\ answer["scheduler"] # Raised
               /\ \E p : triggers' = triggers \o ParentEvents(Added(p, objs, answer["scheduler"]).added)
<1>1. PICK o, event : o = answer["scheduler"] /\ event = hand["scheduler"]
  OBVIOUS
<1>2. /\ pc = "events" /\ event # NoEvent /\ o # NoAnswer
      /\ hand' = [hand EXCEPT !["scheduler"] = NoEvent]
      /\ answer' = [answer EXCEPT !["scheduler"] = NoAnswer]
      /\ UNCHANGED <<gerrit, objs, cache, calls, sent, events, exitVars, saved>>
      /\ handled' = handled \cup ({event.id} \ {0})
  BY <1>1 DEF HandleTrigger
<1>3. upsets \subseteq upsets' /\ (o = Raised => "refresh" \in upsets')
  BY <1>1 DEF HandleTrigger
<1>4. \/ triggers' = triggers
      \/ o # Raised /\ \E p : triggers' = triggers \o ParentEvents(Added(p, objs, o).added)
  BY <1>1 DEF HandleTrigger
<1> QED BY <1>1, <1>2, <1>3, <1>4

(* The zuul trigger's events are put behind those that wait, ...           *)
LEMMA ParentsAdded ==
  ASSUME NEW m, CacheOk(m), HandleTrigger
  PROVE  \/ triggers' = triggers
         \/ /\ answer["scheduler"] # Raised
            /\ \E es \in Seq({ParentEvent(d) : d \in Dependent}) : triggers' = triggers \o es
<1> SUFFICES ASSUME NEW p, answer["scheduler"] # Raised,
                    triggers' = triggers \o ParentEvents(Added(p, objs, answer["scheduler"]).added)
             PROVE  \E es \in Seq({ParentEvent(d) : d \in Dependent}) : triggers' = triggers \o es
  BY Handling
<1>1. PICK o : o = answer["scheduler"]
  OBVIOUS
<1>2. m \in Nat /\ objs \in Objects(m) /\ o \in 1 .. m
  BY <1>1, Handling DEF CacheOk, Answers, Thread
<1>3. PICK a : a = Added(p, objs, o)
  OBVIOUS
<1>4. a \in Outcome(objs)
  BY <1>2, <1>3, AddedIsTyped
<1>5. a.added \in Seq(1 .. m)
  BY <1>2, <1>4 DEF Outcome, Objects
<1>6. ParentEvents(a.added) \in Seq({ParentEvent(d) : d \in Dependent})
  BY <1>2, <1>5, ParentEventsAre
<1> QED BY <1>1, <1>3, <1>6

(* ... and are events.                                                     *)
LEMMA ParentsAreEvents ==
  ASSUME NEW m \in Nat, objs \in Objects(m)
  PROVE  /\ Dependent \subseteq 1 .. m
         /\ {ParentEvent(d) : d \in Dependent} \subseteq Event
<1>1. DOMAIN objs = 1 .. m /\ \A d \in 1 .. m : objs[d] \in Change(m)
  BY DEF Objects
<1>2. Dependent \subseteq 1 .. m
  BY <1>1 DEF Dependent, Change
<1>3. ASSUME NEW d \in Dependent PROVE ParentEvent(d) \in Event
  BY <1>1, <1>2 DEF ParentEvent, KeyOf, Event, EventType, Key, Change
<1> QED BY <1>2, <1>3

Typed == CacheInv /\ EventsTyped /\ HandInv /\ LoopInv

(* Every step keeps the types, and what a thread has in its hands.         *)
LEMMA TypedStep ==
  ASSUME Typed, [Next]_vars
  PROVE  Typed'
<1>0. PICK m : CacheOk(m)
  BY DEF Typed, CacheInv
<1>1. /\ m \in Nat /\ GerritTyped /\ EventsTyped /\ HandInv /\ LoopInv
  BY <1>0 DEF Typed, CacheInv, CacheOk
<1>2. LoopInv'
  BY <1>1, LoopStep
<1>3. NoEvent \in Event \cup {NoEvent}
  OBVIOUS
<1>5. /\ gerrit' = gerrit => GerritTyped'
      /\ UNCHANGED cacheVars => CacheOk(m)' /\ (hand' = hand => HandInv')
  BY <1>0, <1>1, CacheAsItWas DEF GerritTyped
<1>6. UNCHANGED <<events, triggers, file, hand, sent, handled, saved, boot>> => EventsTyped'
  BY <1>1 DEF EventsTyped
<1>4. CASE Gerrit
  <2>0. PICK n \in Number : Upload(n) \/ Comment(n) \/ Close(n)
    BY <1>4 DEF Gerrit
  <2>1. PICK type \in EventType : Emits(type, n)
    BY <2>0 DEF Upload, Comment, Close, EventType
  <2>2. GerritTyped'
    <3>1. CASE Upload(n)
      <4>1. PICK deps \in SUBSET (Number \ {n}) :
              gerrit' = [gerrit EXCEPT !.latest[n] = @ + 1, !.needs[n] = deps]
        BY <3>1 DEF Upload
      <4>2. PICK l, d : l = [gerrit.latest EXCEPT ![n] = @ + 1] /\ d = [gerrit.needs EXCEPT ![n] = deps]
        OBVIOUS
      <4>3. l \in [Number -> Nat] /\ d \in [Number -> SUBSET Number]
        BY <1>1, <4>2 DEF GerritTyped
      <4>4. gerrit' = [gerrit EXCEPT !.latest = l, !.needs = d]
        BY <1>1, <4>1, <4>2 DEF GerritTyped
      <4> QED BY <1>1, <4>3, <4>4 DEF GerritTyped
    <3>2. CASE Comment(n)
      BY <1>5, <3>2 DEF Comment
    <3>3. CASE Close(n)
      <4>1. PICK how \in {"merged", "abandoned"} : gerrit' = [gerrit EXCEPT !.status[n] = how]
        BY <3>3 DEF Close
      <4>2. PICK st : st = [gerrit.status EXCEPT ![n] = how]
        OBVIOUS
      <4>3. st \in [Number -> {"open", "merged", "abandoned"}]
        BY <1>1, <4>2 DEF GerritTyped
      <4>4. gerrit' = [gerrit EXCEPT !.status = st]
        BY <1>1, <4>1, <4>2 DEF GerritTyped
      <4> QED BY <1>1, <4>3, <4>4 DEF GerritTyped
    <3> QED BY <2>0, <3>1, <3>2, <3>3
  <2>3. CacheOk(m)' /\ HandInv'
    BY <1>5, <2>1 DEF Emits
  <2>4. EventsTyped'
    <3>1. PICK e : e = [type |-> type, key |-> <<n, gerrit'.latest[n]>>, id |-> sent + 1]
      OBVIOUS
    <3>2. /\ events' = IF Up THEN Append(events, e) ELSE events
          /\ sent' = sent + 1
          /\ UNCHANGED <<triggers, file, hand, handled, saved, boot>>
      BY <2>1, <3>1 DEF Emits, exitVars, history
    <3>3. e \in Event
      BY <1>1, <2>2, <3>1 DEF Event, Key, GerritTyped, EventsTyped
    <3>4. events' \in Seq(Event)
      BY <1>1, <3>2, <3>3 DEF EventsTyped
    <3> QED BY <1>1, <3>2, <3>4 DEF EventsTyped
  <2> QED BY <1>2, <2>2, <2>3, <2>4 DEF Typed, CacheInv
<1>7. CASE TakeEvent
  <2>1. PICK e : e = Head(events)
    OBVIOUS
  <2>2. e \in Event /\ e # NoEvent /\ Tail(events) \in Seq(Event)
    BY <1>1, <1>7, <2>1, Taking, EventIsSome DEF EventsTyped, TakeEvent
  <2>3. EventsTyped' /\ GerritTyped'
    BY <1>1, <1>5, <1>7, <2>1, <2>2 DEF EventsTyped, TakeEvent, exitVars, history, Thread
  <2>4. /\ hand'["connector"] = e /\ hand'["scheduler"] = hand["scheduler"]
    BY <1>1, <1>7, <2>1 DEF EventsTyped, TakeEvent, Thread
  <2>5. answer["connector"] = NoAnswer /\ calls["connector"] = <<>>
    BY <1>1, <1>7 DEF HandInv, HandOk, TakeEvent, Thread
  <2>6. Becomes("connector", GetChange(Own("connector"), e.key, TRUE, {}))
    BY <1>7, <2>1 DEF TakeEvent
  <2>7. e.key \in Key /\ "connector" \in Thread
    BY <2>2, EventIsSome DEF Thread
  <2>8. /\ \E k : StepOf("connector", m, k)
        /\ \/ calls'["connector"] = <<>> /\ answer'["connector"] = Raised
           \/ /\ calls'["connector"] # <<>> /\ answer'["connector"] = NoAnswer
              /\ NameOf(objs', calls'["connector"][1].obj) = e.key
    BY <1>0, <2>5, <2>6, <2>7, ThreadAsks
  <2>9. PICK k : StepOf("connector", m, k)
    BY <2>8
  <2>10. HandOk("connector")'
    BY <2>2, <2>4, <2>8 DEF HandOk, Raised, NoAnswer, NameOf
  <2>11. HandInv'
    BY <1>0, <1>1, <2>4, <2>7, <2>9, <2>10, OtherHand DEF Other
  <2>12. CacheOk(k)'
    BY <2>9 DEF StepOf
  <2> QED BY <1>2, <2>3, <2>11, <2>12 DEF Typed, CacheInv
<1>8. CASE Deliver
  <2>1. /\ cache' = cache /\ objs' = objs /\ calls' = calls
        /\ answer' = [answer EXCEPT !["connector"] = NoAnswer]
        /\ hand' = [hand EXCEPT !["connector"] = NoEvent]
    BY <1>8 DEF Deliver
  <2>2. CacheOk(m)' /\ GerritTyped'
    BY <1>0, <1>5, <1>8, <2>1, LessCached DEF Deliver, Thread
  <2>3. hand["connector"] \in Event
    BY <1>1, <1>8 DEF EventsTyped, Deliver, Refreshed, Thread
  <2>4. EventsTyped'
    <3>1. triggers' \in Seq(Event)
      <4>1. PICK e \in Event : e = hand["connector"]
        BY <2>3
      <4>2. triggers' = triggers \/ triggers' = Append(triggers, e)
        BY <1>8, <4>1 DEF Deliver
      <4>3. triggers \in Seq(Event)
        BY <1>1 DEF EventsTyped
      <4>4. Append(triggers, e) \in Seq(Event)
        BY <4>1, <4>3
      <4> QED BY <4>2, <4>3, <4>4
    <3> QED BY <1>1, <1>8, <2>1, <3>1 DEF EventsTyped, Deliver, exitVars, Thread
  <2>5. answer \in [Thread -> Answers(m)] /\ hand \in [Thread -> Event \cup {NoEvent}]
    BY <1>0, <1>1 DEF CacheOk, EventsTyped
  <2>6. HandOk("connector")'
    BY <1>1, <1>8, <2>1, <2>5 DEF HandInv, HandOk, Deliver, Refreshed, NoAnswer, Raised, Thread
  <2>7. HandOk("scheduler")'
    BY <1>1, <2>1, <2>5 DEF HandInv, HandOk, NameOf, Thread
  <2> QED BY <1>2, <2>2, <2>4, <2>6, <2>7 DEF Typed, CacheInv, HandInv, Thread
<1>9. ASSUME NEW t \in Thread, Updating(t) \/ Fails(t) PROVE Typed'
  <2>1. /\ Update(t) \/ QueryFails(t)
        /\ UNCHANGED <<events, triggers, file, hand, sent, handled, saved, boot>>
    BY <1>9 DEF Updating, Fails, exitVars
  <2>2. gerrit' = gerrit
    BY <2>1 DEF Update, QueryFails, Query, Depends, GetNeeded, Dependents, GetDependent, Updated
  <2>3. /\ \E k : StepOf(t, m, k)
        /\ calls[t] # <<>>
        /\ \/ calls'[t] = <<>> /\ answer'[t] = Raised
           \/ calls'[t] = <<>> /\ answer'[t] = calls[t][1].obj /\ objs'[answer'[t]].whole
           \/ calls'[t] # <<>> /\ answer'[t] = answer[t] /\ calls'[t][1].obj = calls[t][1].obj
    BY <1>0, <1>1, <2>1, ThreadUpdates
  <2>4. PICK k : StepOf(t, m, k)
    BY <2>3
  <2>5. hand'[t] = hand[t] /\ hand'[Other(t)] = hand[Other(t)]
    BY <2>1
  <2>6. calls[t][1].obj \in 1 .. m
    <3>1. calls[t] \in Seq(Frame(m))
      BY <1>0 DEF CacheOk, Stacks
    <3>2. calls[t][1] \in Frame(m)
      BY <2>3, <3>1
    <3> QED BY <3>2 DEF Frame
  <2>7. NameOf(objs', calls[t][1].obj) = NameOf(objs, calls[t][1].obj)
    BY <2>4, <2>6 DEF StepOf, Grown
  <2>8. HandOk(t) /\ answer[t] = NoAnswer
    BY <1>1, <2>3 DEF HandInv, HandOk
  <2>9. HandOk(t)'
    BY <2>3, <2>5, <2>7, <2>8 DEF HandOk, NameOf, Raised, NoAnswer
  <2>10. HandInv'
    BY <1>0, <1>1, <2>4, <2>5, <2>9, OtherHand
  <2>11. CacheOk(k)'
    BY <2>4 DEF StepOf
  <2> QED BY <1>2, <1>5, <1>6, <2>1, <2>2, <2>10, <2>11 DEF Typed, CacheInv
<1>10. CASE TakeTrigger
  <2>1. PICK e : e = Head(triggers)
    OBVIOUS
  <2>2. e \in Event /\ e # NoEvent /\ Tail(triggers) \in Seq(Event)
    BY <1>1, <1>10, <2>1, Taking, EventIsSome DEF EventsTyped, TakeTrigger
  <2>3. /\ UNCHANGED <<gerrit, events, file, sent, handled, saved, boot>>
        /\ triggers' = Tail(triggers)
    BY <1>10 DEF TakeTrigger, exitVars
  <2>4. CASE boot = "loading"
    <3>1. UNCHANGED cacheVars /\ hand' = hand
      BY <1>10, <2>4 DEF TakeTrigger
    <3>2. EventsTyped'
      BY <1>1, <2>2, <2>3, <3>1 DEF EventsTyped
    <3> QED BY <1>2, <1>5, <2>3, <3>1, <3>2, <1>1 DEF Typed, CacheInv
  <2>5. CASE boot # "loading"
    <3>1. /\ hand' = [hand EXCEPT !["scheduler"] = e]
          /\ Becomes("scheduler", GetChange(Own("scheduler"), e.key, FALSE, {}))
          /\ hand["scheduler"] = NoEvent
      BY <1>10, <2>1, <2>5 DEF TakeTrigger
    <3>2. EventsTyped'
      BY <1>1, <2>2, <2>3, <3>1 DEF EventsTyped, Thread
    <3>3. hand'["scheduler"] = e /\ hand'["connector"] = hand["connector"]
      BY <1>1, <3>1 DEF EventsTyped, Thread
    <3>4. answer["scheduler"] = NoAnswer /\ calls["scheduler"] = <<>>
      BY <1>1, <3>1 DEF HandInv, HandOk, Thread
    <3>5. e.key \in Key /\ "scheduler" \in Thread
      BY <2>2, EventIsSome DEF Thread
    <3>6. /\ \E k : StepOf("scheduler", m, k)
          /\ \/ calls'["scheduler"] = <<>> /\ answer'["scheduler"] = Raised
             \/ /\ calls'["scheduler"] = <<>> /\ e.key \in DOMAIN cache
                /\ answer'["scheduler"] = cache[e.key] /\ objs' = objs /\ cache' = cache
             \/ /\ calls'["scheduler"] # <<>> /\ answer'["scheduler"] = NoAnswer
                /\ NameOf(objs', calls'["scheduler"][1].obj) = e.key
      BY <1>0, <3>1, <3>4, <3>5, ThreadAsks
    <3>7. PICK k : StepOf("scheduler", m, k)
      BY <3>6
    <3>8. e.key \in DOMAIN cache => NameOf(objs, cache[e.key]) = e.key /\ cache[e.key] > 0
      <4>1. Named(Own("scheduler")) /\ cache \in Caches(m) /\ m \in Nat
        BY <1>0, <3>5 DEF CacheOk, Good
      <4> QED BY <4>1, CacheIsTyped DEF Named, Own
    <3>9. HandOk("scheduler")'
      BY <2>2, <3>3, <3>6, <3>8 DEF HandOk, Raised, NoAnswer, NameOf
    <3>10. HandInv'
      BY <1>0, <1>1, <3>3, <3>5, <3>7, <3>9, OtherHand DEF Other
    <3>11. CacheOk(k)'
      BY <3>7 DEF StepOf
    <3> QED BY <1>2, <1>5, <2>3, <3>2, <3>10, <3>11 DEF Typed, CacheInv
  <2> QED BY <2>4, <2>5
<1>11. CASE HandleTrigger
  <2>1. /\ hand' = [hand EXCEPT !["scheduler"] = NoEvent]
        /\ answer' = [answer EXCEPT !["scheduler"] = NoAnswer]
        /\ UNCHANGED <<gerrit, objs, cache, calls, sent, events, saved, file, boot>>
        /\ handled' = handled \cup ({hand["scheduler"].id} \ {0})
        /\ hand["scheduler"] # NoEvent /\ answer["scheduler"] # NoAnswer
    BY <1>11, Handling DEF exitVars
  <2>2. CacheOk(m)' /\ GerritTyped'
    BY <1>0, <1>5, <2>1, LessCached DEF Thread
  <2>3. /\ hand["scheduler"] \in Event
        /\ answer \in [Thread -> Answers(m)] /\ hand \in [Thread -> Event \cup {NoEvent}]
    BY <1>0, <1>1, <2>1 DEF EventsTyped, CacheOk, Thread
  <2>4. triggers' \in Seq(Event)
    <3>1. {ParentEvent(d) : d \in Dependent} \subseteq Event /\ triggers \in Seq(Event)
      BY <1>0, <1>1, ParentsAreEvents DEF CacheOk, EventsTyped
    <3>2. \/ triggers' = triggers
          \/ \E es \in Seq({ParentEvent(d) : d \in Dependent}) : triggers' = triggers \o es
      BY <1>0, <1>11, ParentsAdded
    <3>3. ASSUME NEW es \in Seq({ParentEvent(d) : d \in Dependent}) PROVE triggers \o es \in Seq(Event)
      <4>1. es \in Seq(Event)
        BY <3>1
      <4> QED BY <3>1, <4>1
    <3> QED BY <3>1, <3>2, <3>3
  <2>5. EventsTyped'
    <3>1. handled' \subseteq Nat \ {0}
      BY <1>1, <2>1, <2>3 DEF EventsTyped, Event
    <3> QED BY <1>1, <2>1, <2>4, <3>1 DEF EventsTyped, Thread
  <2>6. HandOk("scheduler")'
    BY <1>1, <2>1, <2>3 DEF HandInv, HandOk, NoAnswer, Raised, Thread
  <2>7. HandOk("connector")'
    BY <1>1, <2>1, <2>3 DEF HandInv, HandOk, NameOf, Thread
  <2> QED BY <1>2, <2>2, <2>5, <2>6, <2>7 DEF Typed, CacheInv, HandInv, Thread
<1>12. CASE WakeUp \/ BuildCompleted \/ MergeCompleted \/ EndResults \/ EndEvents \/ Process \/ Start \/ Exit
  <2>1. UNCHANGED <<gerrit, cacheVars, sent, events, hand, triggers, file, boot, handled, saved>>
    BY <1>12 DEF WakeUp, BuildCompleted, MergeCompleted, EndResults, EndEvents, Process, Start, Exit,
                 exitVars, history
  <2> QED BY <1>2, <1>5, <1>6, <2>1 DEF Typed, CacheInv
<1>13. CASE Pause
  <2>1. UNCHANGED <<gerrit, cacheVars, sent, events, hand, boot, handled>>
    BY <1>13 DEF Pause
  <2>2. /\ triggers' \in Seq(Event) /\ file' \in Seq(Event)
    <3>1. <<>> \in Seq(Event) /\ triggers \in Seq(Event) /\ file \in Seq(Event)
      BY <1>1 DEF EventsTyped
    <3> QED BY <1>13, <3>1 DEF Pause
  <2>3. saved' \subseteq Nat \ {0}
    <3>1. \A i \in DOMAIN triggers : triggers[i].id \in Nat
      <4>1. \A i \in DOMAIN triggers : triggers[i] \in Event
        BY <1>1 DEF EventsTyped
      <4> QED BY <4>1 DEF Event
    <3>2. IdsOf(triggers) \subseteq Nat \ {0}
      BY <3>1 DEF IdsOf, ToSet
    <3> QED BY <1>1, <1>13, <3>2 DEF Pause, EventsTyped
  <2>4. EventsTyped'
    BY <1>1, <2>1, <2>2, <2>3 DEF EventsTyped
  <2> QED BY <1>2, <1>5, <2>1, <2>4 DEF Typed, CacheInv
<1>14. CASE Reconfigure
  <2>1. UNCHANGED <<gerrit, objs, calls, answer, sent, events, hand, triggers, file, handled, saved>>
    BY <1>14 DEF Reconfigure
  <2>2. boot' \in {"loading", "configured", "resumed"}
    BY <1>1, <1>14 DEF Reconfigure, EventsTyped
  <2>3. \E K : cache' = cache \/ cache' = [k \in DOMAIN cache \ K |-> cache[k]]
    <3>1. PICK used : cache' = Maintained(used)
      BY <1>14 DEF Reconfigure
    <3>2. PICK relevant : cache' = cache \/ cache' = [k \in {key \in DOMAIN cache : cache[key] \in relevant} |-> cache[k]]
      BY <3>1 DEF Maintained
    <3>3. {key \in DOMAIN cache : cache[key] \in relevant}
            = DOMAIN cache \ {key \in DOMAIN cache : cache[key] \notin relevant}
      OBVIOUS
    <3> QED BY <3>2, <3>3
  <2>4. CacheOk(m)'
    BY <1>0, <2>1, <2>3, LessCached
  <2>5. HandInv'
    BY <1>1, <2>1 DEF HandInv, HandOk, NameOf
  <2>6. EventsTyped'
    BY <1>1, <2>1, <2>2 DEF EventsTyped
  <2> QED BY <1>2, <1>5, <2>1, <2>4, <2>5, <2>6 DEF Typed, CacheInv
<1>15. CASE Die
  <2>1. CacheOk(0)'
    BY <1>15, EmptyCacheIsOk DEF Die
  <2>2. HandInv'
    BY <1>15 DEF Die, HandInv, HandOk, NoAnswer
  <2>3. EventsTyped'
    <3>1. UNCHANGED <<sent, file, handled, saved>> /\ boot' = "loading"
          /\ events' = <<>> /\ triggers' = <<>> /\ hand' = [t \in Thread |-> NoEvent]
      BY <1>15 DEF Die
    <3>2. <<>> \in Seq(Event)
      OBVIOUS
    <3> QED BY <1>1, <3>1, <3>2 DEF EventsTyped
  <2>4. gerrit' = gerrit
    BY <1>15 DEF Die
  <2> QED BY <1>2, <1>5, <2>1, <2>2, <2>3, <2>4 DEF Typed, CacheInv
<1>16. CASE Resume
  <2>1. /\ UNCHANGED <<gerrit, cacheVars, sent, events, hand, handled, saved>> /\ boot' = "resumed"
        /\ triggers' = triggers \o file /\ file' = <<>>
    BY <1>16 DEF Resume, FileAfterResume, history
  <2>2. triggers' \in Seq(Event) /\ file' \in Seq(Event)
    BY <1>1, <2>1 DEF EventsTyped
  <2>3. EventsTyped'
    BY <1>1, <2>1, <2>2 DEF EventsTyped
  <2> QED BY <1>2, <1>5, <2>1, <2>3 DEF Typed, CacheInv
<1>17. CASE UNCHANGED vars
  BY <1>2, <1>5, <1>6, <1>17 DEF Typed, CacheInv, vars, exitVars, history
<1> QED BY <1>4, <1>7, <1>8, <1>9, <1>10, <1>11, <1>12, <1>13, <1>14, <1>15, <1>16, <1>17
        DEF Next, Connector, Scheduler, Main, Thread

(* They hold at first.                                                     *)
LEMMA TypedAtFirst ==
  ASSUME Init
  PROVE  Typed
<1>1. GerritTyped
  BY NeedsAssumption DEF Init, CacheInit, GerritTyped
<1>2. CacheOk(0)
  BY CacheAtFirst DEF Init
<1>3. EventsTyped
  <2>1. <<>> \in Seq(Event)
    OBVIOUS
  <2> QED BY <2>1 DEF Init, EventsTyped
<1>4. HandInv
  BY DEF Init, CacheInit, HandInv, HandOk, NoAnswer
<1>5. LoopInv
  BY DEF Init, LoopInv, Thread
<1> QED BY <1>1, <1>2, <1>3, <1>4, <1>5 DEF Typed, CacheInv

-----------------------------------------------------------------------------
(* A step on the cache keeps what is known to be filled in.                *)
LEMMA StepInforms ==
  ASSUME NEW m, CacheOk(m), Informed, NEW t \in Thread, NEW k, StepOf(t, m, k),
         answer[t] = NoAnswer,
         answer'[t] > 0 => objs'[answer'[t]].whole
  PROVE  /\ \A u \in Thread : (Known(Own(u)) /\ (answer[u] > 0 => objs[answer[u]].whole))'
         /\ (\A u \in Thread : answer'[u] # Raised) =>
              /\ Listed(Own("scheduler"))'
              /\ \A key : Complete(key) => Complete(key)'
<1>1. PICK u \in Thread : u = Other(t) /\ u # t /\ Thread = {t, u}
  BY DEF Thread, Other
<1>2. /\ m \in Nat /\ objs \in Objects(m) /\ cache \in Caches(m)
      /\ calls[u] \in Seq(Frame(m)) /\ answer[u] \in Answers(m)
      /\ k \in Nat /\ m <= k /\ objs' \in Objects(k)
  BY <1>1 DEF CacheOk, StepOf, Stacks
<1>3. calls'[u] = calls[u] /\ answer'[u] = answer[u]
  BY <1>1 DEF StepOf
<1>4. \A o \in 1 .. m : NameOf(objs', o) = NameOf(objs, o) /\ (objs[o].whole => objs'[o].whole)
  BY DEF StepOf, Grown
<1>5. Known(Own(t))'
  BY DEF Informed, StepOf
<1>6. Known(Own(u))'
  <2>1. \A i \in DOMAIN objs' : \A d \in objs'[i].neededBy : objs'[d].whole
    BY <1>5 DEF Known, Own
  <2>2. \A i \in DOMAIN calls[u] : calls[u][i].got \subseteq 1 .. m /\ GotWhole(objs, calls[u][i])
    <3>1. \A i \in DOMAIN calls[u] : calls[u][i] \in Frame(m)
      BY <1>2
    <3>2. Known(Own(u))
      BY DEF Informed
    <3> QED BY <3>1, <3>2 DEF Known, Own, Frame
  <2> QED BY <1>3, <1>4, <2>1, <2>2 DEF Known, GotWhole, Own
<1>7. answer'[u] > 0 => objs'[answer'[u]].whole
  <2>1. answer[u] > 0 => answer[u] \in 1 .. m /\ objs[answer[u]].whole
    BY <1>2 DEF Answers, Raised, NoAnswer, Informed
  <2> QED BY <1>3, <1>4, <2>1
<1>8. ASSUME \A w \in Thread : answer'[w] # Raised
      PROVE  Listed(Own("scheduler"))' /\ \A key : Complete(key) => Complete(key)'
  <2>1. \A w \in Thread : answer[w] # Raised
    BY <1>1, <1>3, <1>8 DEF NoAnswer, Raised
  <2>2. Listed(Own(t))
    BY <2>1 DEF Informed, Listed, Own
  <2>3. Listed(Own(t))'
    BY <1>8, <2>2 DEF StepOf
  <2>4. Listed(Own("scheduler"))'
    BY <2>3 DEF Listed, Own
  <2>5. ASSUME NEW key, Complete(key) PROVE Complete(key)'
    <3>1. PICK o : o = cache[key]
      OBVIOUS
    <3>2. key \in DOMAIN cache /\ o \in 1 .. m /\ objs[o].whole
      BY <1>2, <2>5, <3>1, CacheIsTyped DEF Complete
    <3>3. NameOf(objs, o) = key
      BY <3>1, <3>2 DEF CacheOk, Good, Named, Own
    <3>4. NameOf(objs', o) = key /\ objs'[o].whole
      BY <1>4, <3>2, <3>3
    <3>5. o \in DOMAIN objs'
      BY <1>2, <3>2 DEF Objects
    <3>6. key \in DOMAIN cache' /\ cache'[key] = o
      BY <2>4, <3>4, <3>5 DEF Listed, Own, NameOf
    <3> QED BY <3>4, <3>6 DEF Complete
  <2> QED BY <2>4, <2>5
<1> QED BY <1>1, <1>5, <1>6, <1>7, <1>8

-----------------------------------------------------------------------------
(* Nothing happens to the cache.                                           *)
LEMMA InformedStill ==
  ASSUME Informed, UNCHANGED <<objs, calls, cache, answer>>,
         hand' = hand \/ hand'["scheduler"] = hand["scheduler"],
         triggers' = triggers \/ triggers' = <<>>
  PROVE  Informed'
<1>1. \A t \in Thread : Own(t)' = Own(t)
  BY DEF Own
<1>2. \A s : (Known(s) <=> Known(s)) /\ (Listed(s) <=> Listed(s))
  OBVIOUS
<1>3. \A t \in Thread : Known(Own(t))'
  BY DEF Informed, Known, Own
<1>4. Listed(Own("scheduler")) => Listed(Own("scheduler"))'
  BY DEF Listed, Own
<1> QED BY <1>3, <1>4 DEF Informed, Complete

(* Every step keeps it.                                                    *)
LEMMA WholeStep ==
  ASSUME Typed, WholeInv, [Next]_vars
  PROVE  WholeInv'
<1>0. PICK m : CacheOk(m)
  BY DEF Typed, CacheInv
<1>1. /\ m \in Nat /\ GerritTyped /\ EventsTyped /\ HandInv /\ LoopInv
      /\ answer \in [Thread -> Answers(m)] /\ hand \in [Thread -> Event \cup {NoEvent}]
      /\ triggers \in Seq(Event) /\ objs \in Objects(m) /\ cache \in Caches(m)
  BY <1>0 DEF Typed, CacheInv, CacheOk, EventsTyped
<1>2. \A t \in Thread : answer[t] > 0 <=> answer[t] # NoAnswer /\ answer[t] # Raised
  BY <1>1 DEF Answers, NoAnswer, Raised
<1>3. CASE Gerrit \/ WakeUp \/ BuildCompleted \/ MergeCompleted \/ EndResults \/ EndEvents \/ Process
           \/ Start \/ Exit \/ UNCHANGED vars
  <2>1. UNCHANGED <<objs, cache, calls, answer, hand, triggers, boot, upsets>>
    <3>1. CASE Gerrit
      <4>1. PICK type, n : Emits(type, n)
        BY <3>1 DEF Gerrit, Upload, Comment, Close
      <4> QED BY <4>1 DEF Emits, cacheVars, exitVars, history
    <3> QED BY <1>3, <3>1 DEF WakeUp, BuildCompleted, MergeCompleted, EndResults, EndEvents, Process,
               Start, Exit, vars, cacheVars, exitVars, history
  <2> QED BY <2>1, InformedStill DEF WholeInv, NothingFailed
<1>4. CASE TakeEvent
  <2>1. PICK e : e = Head(events)
    OBVIOUS
  <2>2. e \in Event /\ e.key \in Key /\ "connector" \in Thread
    BY <1>1, <1>4, <2>1, Taking, EventIsSome DEF EventsTyped, TakeEvent, Thread
  <2>3. UNCHANGED <<triggers, boot, upsets>> /\ hand'["scheduler"] = hand["scheduler"]
    BY <1>1, <1>4 DEF TakeEvent, exitVars, history, Thread
  <2>4. answer["connector"] = NoAnswer /\ calls["connector"] = <<>>
    BY <1>1, <1>4 DEF HandInv, HandOk, TakeEvent, Thread
  <2>5. Becomes("connector", GetChange(Own("connector"), e.key, TRUE, {}))
    BY <1>4, <2>1 DEF TakeEvent
  <2>6. (\E k : StepOf("connector", m, k)) /\ answer'["connector"] \in {Raised, NoAnswer}
    BY <1>0, <2>2, <2>4, <2>5, ThreadAsks
  <2>7. PICK k : StepOf("connector", m, k)
    BY <2>6
  <2>8. ASSUME Informed PROVE Informed'
    <3>1. ~(answer'["connector"] > 0)
      BY <2>6 DEF Raised, NoAnswer
    <3>2. /\ \A u \in Thread : (Known(Own(u)) /\ (answer[u] > 0 => objs[answer[u]].whole))'
          /\ (\A u \in Thread : answer'[u] # Raised) =>
               /\ Listed(Own("scheduler"))'
               /\ \A key : Complete(key) => Complete(key)'
      BY <1>0, <2>2, <2>4, <2>7, <2>8, <3>1, StepInforms
    <3>3. /\ (\A u \in Thread : answer'[u] # Raised) => \A u \in Thread : answer[u] # Raised
          /\ calls'["scheduler"] = calls["scheduler"]
      BY <2>4, <2>7 DEF StepOf, Other, Thread, NoAnswer, Raised
    <3> QED BY <2>3, <2>8, <3>2, <3>3 DEF Informed
  <2> QED BY <2>3, <2>8 DEF WholeInv, NothingFailed
<1>5. CASE Deliver
  <2>1. /\ cache' = cache /\ objs' = objs /\ calls' = calls /\ boot' = boot
        /\ answer' = [answer EXCEPT !["connector"] = NoAnswer]
        /\ hand' = [hand EXCEPT !["connector"] = NoEvent]
        /\ answer["connector"] # NoAnswer /\ "connector" \in Thread
    BY <1>5 DEF Deliver, Refreshed, exitVars, Thread
  <2>2. CASE answer["connector"] = Raised
    BY <1>5, <2>1, <2>2 DEF Deliver, WholeInv, NothingFailed
  <2>3. CASE answer["connector"] # Raised
    <3>1. triggers' = Append(triggers, hand["connector"]) /\ upsets' = upsets
      BY <1>5, <2>3 DEF Deliver
    <3>2. hand'["scheduler"] = hand["scheduler"] /\ answer'["scheduler"] = answer["scheduler"]
          /\ answer'["connector"] = NoAnswer
      BY <1>1, <2>1 DEF Thread
    <3>3. ASSUME Informed PROVE Informed'
      <4>1. \A u \in Thread : (Known(Own(u)) /\ (answer[u] > 0 => objs[answer[u]].whole))'
        BY <2>1, <3>2, <3>3 DEF Informed, Known, Own, NoAnswer, Thread
      <4>2. ASSUME \A u \in Thread : answer'[u] # Raised
            PROVE  /\ calls'["scheduler"] = <<>> /\ Listed(Own("scheduler"))'
                   /\ (\A i \in DOMAIN triggers : Complete(triggers[i].key))'
                   /\ (hand["scheduler"] # NoEvent => Complete(hand["scheduler"].key))'
        <5>1. \A u \in Thread : answer[u] # Raised
          BY <2>3, <3>2, <4>2 DEF Thread
        <5>2. /\ calls["scheduler"] = <<>> /\ Listed(Own("scheduler"))
              /\ \A i \in DOMAIN triggers : Complete(triggers[i].key)
              /\ hand["scheduler"] # NoEvent => Complete(hand["scheduler"].key)
          BY <3>3, <5>1 DEF Informed
        <5>3. \A key : Complete(key)' <=> Complete(key)
          BY <2>1 DEF Complete
        <5>4. Listed(Own("scheduler"))'
          BY <2>1, <5>2 DEF Listed, Own
        <5>5. Complete(hand["connector"].key)
          <6>1. PICK o : o = answer["connector"]
            OBVIOUS
          <6>2. o > 0 /\ o \in 1 .. m /\ objs[o].whole
            BY <1>1, <1>2, <2>1, <2>3, <3>3, <6>1 DEF Informed, Answers
          <6>3. NameOf(objs, o) = hand["connector"].key
            BY <1>1, <2>1, <6>1, <6>2 DEF HandInv, HandOk
          <6>4. o \in DOMAIN objs
            BY <1>1, <6>2 DEF Objects
          <6> QED BY <5>2, <6>2, <6>3, <6>4 DEF Listed, Own, Complete
        <5>6. \A i \in DOMAIN triggers' : triggers'[i] = hand["connector"] \/ (i \in DOMAIN triggers /\ triggers'[i] = triggers[i])
          BY <1>1, <3>1
        <5> QED BY <2>1, <3>2, <5>2, <5>3, <5>4, <5>5, <5>6
      <4> QED BY <4>1, <4>2 DEF Informed
    <3> QED BY <2>1, <3>1, <3>3 DEF WholeInv, NothingFailed
  <2> QED BY <2>2, <2>3
<1>6. ASSUME NEW t \in Thread, Updating(t) \/ Fails(t) PROVE WholeInv'
  <2>1. /\ Update(t) \/ QueryFails(t)
        /\ UNCHANGED <<triggers, hand, boot>> /\ upsets \subseteq upsets'
    BY <1>6 DEF Updating, Fails, Upset, exitVars
  <2>2. /\ \E k : StepOf(t, m, k)
        /\ calls[t] # <<>>
        /\ \/ calls'[t] = <<>> /\ answer'[t] = Raised
           \/ calls'[t] = <<>> /\ answer'[t] = calls[t][1].obj /\ objs'[answer'[t]].whole
           \/ calls'[t] # <<>> /\ answer'[t] = answer[t] /\ calls'[t][1].obj = calls[t][1].obj
    BY <1>0, <1>1, <2>1, ThreadUpdates
  <2>3. PICK k : StepOf(t, m, k)
    BY <2>2
  <2>4. answer[t] = NoAnswer
    BY <1>1, <2>2 DEF HandInv, HandOk
  <2>5. answer'[t] > 0 => objs'[answer'[t]].whole
    BY <2>2, <2>4 DEF Raised, NoAnswer
  <2>7. ASSUME NothingFailed' PROVE Informed'
    <3>1. Informed
      BY <2>1, <2>7 DEF WholeInv, NothingFailed
    <3>2. /\ \A u \in Thread : (Known(Own(u)) /\ (answer[u] > 0 => objs[answer[u]].whole))'
          /\ (\A u \in Thread : answer'[u] # Raised) =>
               /\ Listed(Own("scheduler"))'
               /\ \A key : Complete(key) => Complete(key)'
      BY <1>0, <2>3, <2>4, <2>5, <3>1, StepInforms
    <3>3. (\A u \in Thread : answer'[u] # Raised) => \A u \in Thread : answer[u] # Raised
      BY <2>3, <2>4 DEF StepOf, Other, Thread, NoAnswer, Raised
    <3>4. (\A u \in Thread : answer[u] # Raised) => t = "connector" /\ calls'["scheduler"] = <<>>
      BY <2>2, <2>3, <3>1 DEF Informed, StepOf, Other, Thread
    <3> QED BY <2>1, <3>1, <3>2, <3>3, <3>4 DEF Informed
  <2>8. boot' # "resumed" => "restart" \in upsets'
    BY <2>1 DEF WholeInv, NothingFailed
  <2> QED BY <2>7, <2>8 DEF WholeInv, NothingFailed
<1>7. CASE TakeTrigger
  <2>1. PICK e : e = Head(triggers)
    OBVIOUS
  <2>2. e \in Event /\ e # NoEvent /\ Tail(triggers) \in Seq(Event) /\ e.key \in Key
    BY <1>1, <1>7, <2>1, Taking, EventIsSome DEF TakeTrigger
  <2>3. UNCHANGED <<boot, upsets>> /\ triggers' = Tail(triggers) /\ hand["scheduler"] = NoEvent
    BY <1>7 DEF TakeTrigger, exitVars
  <2>4. /\ triggers # <<>> /\ 1 \in DOMAIN triggers /\ triggers[1] = e
        /\ \A i \in DOMAIN triggers' : i + 1 \in DOMAIN triggers /\ triggers'[i] = triggers[i + 1]
    BY <1>1, <1>7, <2>1, <2>3 DEF TakeTrigger
  <2>5. ASSUME NothingFailed' PROVE Informed'
    <3>1. Informed /\ boot = "resumed"
      BY <2>3, <2>5 DEF WholeInv, NothingFailed
    <3>2. /\ hand' = [hand EXCEPT !["scheduler"] = e]
          /\ Becomes("scheduler", GetChange(Own("scheduler"), e.key, FALSE, {}))
      BY <1>7, <2>1, <3>1 DEF TakeTrigger
    <3>3. answer["scheduler"] = NoAnswer /\ calls["scheduler"] = <<>> /\ "scheduler" \in Thread
      BY <1>1, <2>3 DEF HandInv, HandOk, Thread
    <3>4. /\ \E k : StepOf("scheduler", m, k)
          /\ \/ calls'["scheduler"] = <<>> /\ answer'["scheduler"] = Raised
             \/ /\ calls'["scheduler"] = <<>> /\ e.key \in DOMAIN cache
                /\ answer'["scheduler"] = cache[e.key] /\ objs' = objs /\ cache' = cache
             \/ /\ calls'["scheduler"] # <<>> /\ answer'["scheduler"] = NoAnswer
                /\ NameOf(objs', calls'["scheduler"][1].obj) = e.key
      BY <1>0, <2>2, <3>2, <3>3, ThreadAsks
    <3>5. PICK k : StepOf("scheduler", m, k)
      BY <3>4
    <3>6. e.key \in DOMAIN cache => objs[cache[e.key]].whole
      <4> SUFFICES ASSUME e.key \in DOMAIN cache PROVE objs[cache[e.key]].whole
        OBVIOUS
      <4>1. CASE answer["connector"] # Raised
        <5>1. \A u \in Thread : answer[u] # Raised
          BY <3>3, <4>1 DEF Thread, NoAnswer, Raised
        <5> QED BY <2>4, <3>1, <5>1 DEF Informed, Complete
      <4>2. CASE answer["connector"] = Raised
        <5>1. calls["connector"] = <<>>
          BY <1>1, <4>2 DEF HandInv, HandOk, Thread, NoAnswer, Raised
        <5>2. Asked("connector") = {}
          BY <5>1 DEF Asked
        <5>3. Filled(Own("scheduler"), {})
          BY <1>0, <3>3, <5>2 DEF CacheOk, Good, Other
        <5> QED BY <3>3, <5>3 DEF Filled, Asking, Own
      <4> QED BY <4>1, <4>2
    <3>7. answer'["scheduler"] > 0 => objs'[answer'["scheduler"]].whole
      BY <3>4, <3>6 DEF Raised, NoAnswer
    <3>8. /\ \A u \in Thread : (Known(Own(u)) /\ (answer[u] > 0 => objs[answer[u]].whole))'
          /\ (\A u \in Thread : answer'[u] # Raised) =>
               /\ Listed(Own("scheduler"))'
               /\ \A key : Complete(key) => Complete(key)'
      BY <1>0, <3>1, <3>3, <3>5, <3>7, StepInforms
    <3>9. (\A u \in Thread : answer'[u] # Raised) => \A u \in Thread : answer[u] # Raised
      BY <3>3, <3>5 DEF StepOf, Other, Thread, NoAnswer, Raised
    <3>10. hand'["scheduler"] = e
      BY <1>1, <3>2, <3>3
    <3>11. (\A u \in Thread : answer'[u] # Raised) =>
             (\A i \in DOMAIN triggers : Complete(triggers[i].key))' /\ Complete(e.key)'
      BY <2>4, <3>1, <3>8, <3>9 DEF Informed
    <3>12. e.key \in DOMAIN cache => calls'["scheduler"] = <<>>
      <4> SUFFICES ASSUME e.key \in DOMAIN cache PROVE calls'["scheduler"] = <<>>
        OBVIOUS
      <4>1. GetChange(Own("scheduler"), e.key, FALSE, {}).calls = <<>>
        BY <3>3 DEF GetChange, Return, Own
      <4> QED BY <1>0, <3>2, <3>3, <4>1 DEF Becomes, CacheOk
    <3>13. (\A u \in Thread : answer'[u] # Raised) => calls'["scheduler"] = <<>>
      BY <2>4, <3>1, <3>9, <3>12 DEF Informed, Complete
    <3> QED BY <3>8, <3>10, <3>11, <3>13 DEF Informed
  <2> QED BY <2>3, <2>5 DEF WholeInv, NothingFailed
<1>8. CASE HandleTrigger
  <2>1. /\ hand' = [hand EXCEPT !["scheduler"] = NoEvent]
        /\ answer' = [answer EXCEPT !["scheduler"] = NoAnswer]
        /\ UNCHANGED <<objs, cache, calls, boot>>
        /\ answer["scheduler"] # NoAnswer
        /\ upsets \subseteq upsets' /\ (answer["scheduler"] = Raised => "refresh" \in upsets')
        /\ "scheduler" \in Thread
    BY <1>8, Handling DEF exitVars, Thread
  <2>2. ASSUME NothingFailed' PROVE Informed'
    <3>1. Informed /\ answer["scheduler"] # Raised
      BY <2>1, <2>2 DEF WholeInv, NothingFailed
    <3>2. hand'["scheduler"] = NoEvent /\ answer'["connector"] = answer["connector"]
          /\ answer'["scheduler"] = NoAnswer
      BY <1>1, <2>1 DEF Thread
    <3>3. \A u \in Thread : (Known(Own(u)) /\ (answer[u] > 0 => objs[answer[u]].whole))'
      BY <2>1, <3>1, <3>2 DEF Informed, Known, Own, NoAnswer, Thread
    <3>4. ASSUME \A u \in Thread : answer'[u] # Raised
          PROVE  calls'["scheduler"] = <<>> /\ Listed(Own("scheduler"))' /\ (\A i \in DOMAIN triggers : Complete(triggers[i].key))'
      <4>1. \A u \in Thread : answer[u] # Raised
        BY <3>1, <3>2, <3>4 DEF Thread
      <4>2. /\ calls["scheduler"] = <<>> /\ Listed(Own("scheduler")) /\ \A i \in DOMAIN triggers : Complete(triggers[i].key)
        BY <3>1, <4>1 DEF Informed
      <4>3. \A key : Complete(key)' <=> Complete(key)
        BY <2>1 DEF Complete
      <4>4. Listed(Own("scheduler"))'
        BY <2>1, <4>2 DEF Listed, Own
      <4>5. \A d \in Dependent : Complete(KeyOf(d))
        <5> SUFFICES ASSUME NEW d \in Dependent PROVE Complete(KeyOf(d))
          OBVIOUS
        <5>1. d \in 1 .. m /\ d \in DOMAIN objs
          BY <1>1, ParentsAreEvents DEF Objects
        <5>2. objs[d].whole
          BY <2>1, <3>1 DEF Informed, Known, Own, Dependent
        <5> QED BY <4>2, <5>1, <5>2 DEF Listed, Own, NameOf, KeyOf, Complete
      <4>6. \A i \in DOMAIN triggers' : \/ i \in DOMAIN triggers /\ triggers'[i] = triggers[i]
                                       \/ \E d \in Dependent : triggers'[i].key = KeyOf(d)
        <5>1. CASE triggers' = triggers
          BY <5>1
        <5>2. ASSUME NEW es \in Seq({ParentEvent(d) : d \in Dependent}), triggers' = triggers \o es
              PROVE  \A i \in DOMAIN triggers' : \/ i \in DOMAIN triggers /\ triggers'[i] = triggers[i]
                                                \/ \E d \in Dependent : triggers'[i].key = KeyOf(d)
          <6>1. PICK D : D = {ParentEvent(d) : d \in Dependent}
            OBVIOUS
          <6>2. \A e \in D : \E d \in Dependent : e.key = KeyOf(d)
            BY <6>1 DEF ParentEvent
          <6>3. es \in Seq(D) /\ triggers' = triggers \o es
            BY <5>2, <6>1
          <6>4. \A i \in DOMAIN triggers' : \/ i \in DOMAIN triggers /\ triggers'[i] = triggers[i]
                                           \/ triggers'[i] \in D
            BY <1>1, <6>3
          <6> QED BY <6>2, <6>4
        <5> QED BY <1>0, <1>8, <5>1, <5>2, ParentsAdded
      <4> QED BY <2>1, <4>2, <4>3, <4>4, <4>5, <4>6
    <3> QED BY <3>2, <3>3, <3>4 DEF Informed
  <2> QED BY <2>1, <2>2 DEF WholeInv, NothingFailed
<1>9. CASE Pause
  <2>1. /\ UNCHANGED <<objs, calls, cache, answer, hand, boot, upsets>>
        /\ triggers' = triggers \/ triggers' = <<>>
    BY <1>9 DEF Pause, cacheVars
  <2> QED BY <2>1, InformedStill DEF WholeInv, NothingFailed
<1>10. CASE Reconfigure
  BY <1>10 DEF Reconfigure, WholeInv, NothingFailed, Upset
<1>11. CASE Die
  BY <1>11 DEF Die, WholeInv, NothingFailed
<1>12. CASE Resume
  BY <1>12 DEF Resume, WholeInv, NothingFailed, history
<1> QED BY <1>3, <1>4, <1>5, <1>6, <1>7, <1>8, <1>9, <1>10, <1>11, <1>12
        DEF Next, Connector, Scheduler, Main, Thread

(* The scheduler only gets changes that are filled in (_handleEvent of     *)
(* GerritEventConnector, GerritSource._getChange), unless a query failed,  *)
(* the cache was flushed or Zuul was restarted.                            *)
THEOREM ChangesAreWhole ==
  Spec => []WholeWhenUsed
<1>1. Init => Typed /\ WholeInv
  <2> SUFFICES ASSUME Init PROVE WholeInv
    BY TypedAtFirst
  <2>1. /\ objs = <<>> /\ cache = <<>> /\ triggers = <<>> /\ hand["scheduler"] = NoEvent
        /\ boot = "resumed" /\ \A t \in Thread : calls[t] = <<>> /\ answer[t] = NoAnswer
    BY DEF Init, CacheInit, Thread
  <2> QED BY <2>1 DEF WholeInv, Informed, Known, Listed, Own, NoAnswer, Thread
<1>2. Typed /\ WholeInv /\ [Next]_vars => (Typed /\ WholeInv)'
  BY TypedStep, WholeStep
<1>3. Typed /\ WholeInv => WholeWhenUsed
  BY DEF WholeInv, Informed, WholeWhenUsed, NothingFailed, Thread
<1> QED BY <1>1, <1>2, <1>3, PTL DEF Spec

-----------------------------------------------------------------------------
Places(s, n) == {i \in DOMAIN s : s[i].id = n}

(* What is counted is finite.                                              *)
LEMMA CountIsNat ==
  ASSUME NEW S, NEW s \in Seq(S), NEW n
  PROVE  IsFiniteSet(Places(s, n)) /\ Count(s, n) = Cardinality(Places(s, n)) /\ Count(s, n) \in Nat
<1>1. IsFiniteSet(1 .. Len(s)) /\ DOMAIN s = 1 .. Len(s)
  BY FS_Interval
<1>2. IsFiniteSet(Places(s, n))
  BY <1>1, FS_Subset DEF Places
<1> QED BY <1>2, FS_CardinalityType DEF Places, Count

(* Nothing is in an empty list.                                            *)
LEMMA CountEmpty ==
  ASSUME NEW n
  PROVE  Count(<<>>, n) = 0
<1>1. {i \in DOMAIN <<>> : <<>>[i].id = n} = {}
  OBVIOUS
<1> QED BY <1>1, FS_EmptySet DEF Count

(* A list of one event.                                                    *)
LEMMA CountOne ==
  ASSUME NEW e, NEW n
  PROVE  Count(<<e>>, n) = IF e.id = n THEN 1 ELSE 0
<1>1. CASE e.id = n
  <2>1. {i \in DOMAIN <<e>> : <<e>>[i].id = n} = {1}
    BY <1>1
  <2> QED BY <1>1, <2>1, FS_Singleton DEF Count
<1>2. CASE e.id # n
  <2>1. {i \in DOMAIN <<e>> : <<e>>[i].id = n} = {}
    BY <1>2
  <2> QED BY <1>2, <2>1, FS_EmptySet DEF Count
<1> QED BY <1>1, <1>2

(* Two lists joined.                                                       *)
LEMMA CountJoined ==
  ASSUME NEW S, NEW s \in Seq(S), NEW t \in Seq(S), NEW n
  PROVE  Count(s \o t, n) = Count(s, n) + Count(t, n)
<1>1. PICK A : A = Places(s, n)
  OBVIOUS
<1>2. PICK B : B = Places(t, n)
  OBVIOUS
<1>3. PICK l \in Nat : l = Len(s)
  OBVIOUS
<1>4. PICK C : C = {l + j : j \in B}
  OBVIOUS
<1>5. A \subseteq 1 .. l /\ B \subseteq 1 .. Len(t) /\ Len(t) \in Nat
  BY <1>1, <1>2, <1>3 DEF Places
<1>6. Places(s \o t, n) = A \cup C
  <2>1. /\ DOMAIN (s \o t) = 1 .. (l + Len(t))
        /\ \A i \in 1 .. l : (s \o t)[i] = s[i]
        /\ \A j \in 1 .. Len(t) : (s \o t)[l + j] = t[j]
    BY <1>3
  <2>2. \A i \in 1 .. (l + Len(t)) : i \notin 1 .. l => i - l \in 1 .. Len(t) /\ l + (i - l) = i
    BY <1>3
  <2>3. ASSUME NEW i \in Places(s \o t, n) PROVE i \in A \cup C
    <3>1. i \in 1 .. (l + Len(t)) /\ (s \o t)[i].id = n
      BY <2>1 DEF Places
    <3>2. CASE i \in 1 .. l
      BY <1>1, <1>3, <2>1, <3>1, <3>2 DEF Places
    <3>3. CASE i \notin 1 .. l
      <4>1. PICK j \in 1 .. Len(t) : l + j = i
        BY <2>2, <3>1, <3>3
      <4>2. t[j].id = n
        BY <2>1, <3>1, <4>1
      <4> QED BY <1>2, <1>4, <4>1, <4>2 DEF Places
    <3> QED BY <3>2, <3>3
  <2>4. ASSUME NEW i \in A PROVE i \in Places(s \o t, n)
    <3>1. i \in 1 .. l /\ s[i].id = n
      BY <1>1, <1>3, <2>4 DEF Places
    <3>2. i \in 1 .. (l + Len(t))
      BY <1>5, <3>1
    <3> QED BY <2>1, <3>1, <3>2 DEF Places
  <2>5. ASSUME NEW j \in B PROVE l + j \in Places(s \o t, n)
    <3>1. j \in 1 .. Len(t) /\ t[j].id = n
      BY <1>2, <2>5 DEF Places
    <3>2. l + j \in 1 .. (l + Len(t))
      BY <1>5, <3>1
    <3> QED BY <2>1, <3>1, <3>2 DEF Places
  <2> QED BY <1>4, <2>3, <2>4, <2>5
<1>7. A \cap C = {}
  <2>1. \A j \in B : l + j \notin 1 .. l
    BY <1>5
  <2> QED BY <1>4, <1>5, <2>1
<1>8. IsFiniteSet(A) /\ IsFiniteSet(B) /\ Count(s, n) = Cardinality(A) /\ Count(t, n) = Cardinality(B)
  BY <1>1, <1>2, CountIsNat
<1>9. IsFiniteSet(C) /\ Cardinality(C) = Cardinality(B)
  <2> DEFINE f == [j \in B |-> l + j]
  <2>1. f \in Bijection(B, C)
    <3>1. \A i, j \in B : l + i = l + j => i = j
      BY <1>5
    <3>2. f \in [B -> C] /\ \A c \in C : \E j \in B : f[j] = c
      BY <1>4
    <3> QED BY <3>1, <3>2 DEF Bijection, Injection, Surjection, IsInjective
  <2> QED BY <1>8, <2>1, FS_Bijection DEF ExistsBijection
<1>10. Cardinality(A \cup C) = Cardinality(A) + Cardinality(C) - Cardinality(A \cap C)
  BY <1>8, <1>9, FS_Union
<1>11. Cardinality(A \cap C) = 0 /\ Cardinality(A) \in Nat /\ Cardinality(C) \in Nat
  BY <1>7, <1>8, <1>9, FS_EmptySet, FS_CardinalityType
<1>12. Count(s \o t, n) = Cardinality(A \cup C)
  BY <1>6 DEF Count, Places
<1> QED BY <1>8, <1>9, <1>10, <1>11, <1>12

(* A list with one event more.                                             *)
LEMMA CountAppended ==
  ASSUME NEW S, NEW s \in Seq(S), NEW e \in S, NEW n
  PROVE  Count(Append(s, e), n) = Count(s, n) + (IF e.id = n THEN 1 ELSE 0)
<1>1. Append(s, e) = s \o <<e>> /\ <<e>> \in Seq(S)
  OBVIOUS
<1>2. PICK t : t = <<e>>
  OBVIOUS
<1>3. t \in Seq(S) /\ Append(s, e) = s \o t
  BY <1>1, <1>2
<1>4. Count(s \o t, n) = Count(s, n) + Count(t, n)
  BY <1>3, CountJoined
<1>5. Count(t, n) = IF e.id = n THEN 1 ELSE 0
  BY <1>2, CountOne
<1> QED BY <1>3, <1>4, <1>5

(* A list without its first event.                                         *)
LEMMA CountTaken ==
  ASSUME NEW S, NEW s \in Seq(S), s # <<>>, NEW n
  PROVE  Count(s, n) = Count(Tail(s), n) + (IF Head(s).id = n THEN 1 ELSE 0)
<1>1. s = <<Head(s)>> \o Tail(s) /\ Head(s) \in S /\ Tail(s) \in Seq(S)
  OBVIOUS
<1>2. PICK h, t : h = Head(s) /\ t = Tail(s)
  OBVIOUS
<1>3. <<h>> \in Seq(S) /\ t \in Seq(S) /\ s = <<h>> \o t
  BY <1>1, <1>2
<1>4. Count(s, n) = Count(<<h>>, n) + Count(t, n)
  BY <1>3, CountJoined
<1>5. Count(<<h>>, n) = IF h.id = n THEN 1 ELSE 0
  BY CountOne
<1>6. Count(t, n) \in Nat
  BY <1>3, CountIsNat
<1> QED BY <1>2, <1>4, <1>5, <1>6

(* No id but 0 in events of this id.                                       *)
LEMMA CountOthers ==
  ASSUME NEW S, NEW s \in Seq(S), NEW n, \A e \in S : e.id # n
  PROVE  Count(s, n) = 0
<1>1. {i \in DOMAIN s : s[i].id = n} = {}
  OBVIOUS
<1> QED BY <1>1, FS_EmptySet DEF Count

-----------------------------------------------------------------------------
(* When there is a file, and when an exit is asked for.                    *)
LEMMA FileStep ==
  ASSUME Typed, CountInv, [Next]_vars
  PROVE  (boot' = "resumed" => file' = <<>> \/ pc' = "saved") /\ (exiting' => boot' = "resumed")
<1> USE DEF CountInv
<1>0. pc = "pause" => boot = "resumed" /\ exiting
  BY DEF Typed, LoopInv
<1>1. CASE Gerrit
  <2>1. PICK type, n : Emits(type, n)
    BY <1>1 DEF Gerrit, Upload, Comment, Close
  <2> QED BY <2>1 DEF Emits, loopVars, exitVars
<1>2. CASE TakeEvent \/ Deliver
  <2>1. pc' = pc /\ UNCHANGED exitVars
    BY <1>2 DEF TakeEvent, Deliver, loopVars
  <2> QED BY <2>1 DEF exitVars
<1>3. ASSUME NEW t \in Thread, Updating(t) \/ Fails(t)
      PROVE  (boot' = "resumed" => file' = <<>> \/ pc' = "saved") /\ (exiting' => boot' = "resumed")
  BY <1>3 DEF Updating, Fails, loopVars, exitVars
<1>4. CASE WakeUp \/ BuildCompleted \/ MergeCompleted \/ EndResults \/ EndEvents \/ Process
  BY <1>4 DEF WakeUp, BuildCompleted, MergeCompleted, EndResults, EndEvents, Process, exitVars
<1>5. CASE TakeTrigger \/ HandleTrigger
  <2>1. pc = "events" /\ UNCHANGED exitVars
    BY <1>5, Handling DEF TakeTrigger
  <2> QED BY <2>1 DEF exitVars
<1>6. CASE Pause
  BY <1>0, <1>6 DEF Pause
<1>7. CASE Reconfigure
  BY <1>7 DEF Reconfigure, loopVars
<1>8. CASE Die \/ Start \/ Resume \/ Exit
  BY <1>8 DEF Die, Start, Resume, Exit, exitVars, FileAfterResume
<1>9. CASE UNCHANGED vars
  BY <1>9 DEF vars, loopVars, exitVars
<1> QED BY <1>1, <1>2, <1>3, <1>4, <1>5, <1>6, <1>7, <1>8, <1>9 DEF Next, Connector, Scheduler, Main, Thread

(* Every step keeps the count of every id.                                 *)
LEMMA OnceStep ==
  ASSUME Typed, CountInv, [Next]_vars, NEW n \in Nat \ {0}
  PROVE  Once(n)' /\ (n \in handled' => n <= sent')
<1>0. /\ events \in Seq(Event) /\ triggers \in Seq(Event) /\ file \in Seq(Event)
      /\ hand \in [Thread -> Event \cup {NoEvent}] /\ sent \in Nat
      /\ NoEvent.id = 0 /\ \A e \in Event : e.id \in Nat
      /\ "connector" \in Thread /\ "scheduler" \in Thread
  BY DEF Typed, EventsTyped, NoEvent, Event, Thread
<1>1. /\ Count(events, n) \in Nat /\ Count(triggers, n) \in Nat /\ Count(file, n) \in Nat
      /\ Held("connector", n) \in {0, 1} /\ Held("scheduler", n) \in {0, 1}
  BY <1>0, CountIsNat DEF Held
<1>2. Once(n) /\ (n \in handled => n <= sent)
  BY DEF CountInv
<1>3. CASE WakeUp \/ BuildCompleted \/ MergeCompleted \/ EndResults \/ EndEvents \/ Process
           \/ Start \/ Exit \/ Reconfigure \/ UNCHANGED vars
           \/ \E t \in Thread : Updating(t) \/ Fails(t)
  <2>1. /\ UNCHANGED <<events, triggers, file, hand, sent, handled, saved>>
        /\ (boot' # "resumed" \/ pc' = "saved") => (boot # "resumed" \/ pc = "saved")
    BY <1>3 DEF WakeUp, BuildCompleted, MergeCompleted, EndResults, EndEvents, Process, Start, Exit,
                Reconfigure, Updating, Fails, vars, loopVars, exitVars, history
  <2>2. Total(n)' = Total(n) /\ Ahead(n)' = Ahead(n)
    BY <2>1 DEF Total, Ahead, Held
  <2> QED BY <1>2, <2>1, <2>2 DEF Once
<1>4. CASE Gerrit
  <2>1. PICK type, j : Emits(type, j)
    BY <1>4 DEF Gerrit, Upload, Comment, Close
  <2>2. PICK e : e = [type |-> type, key |-> <<j, gerrit'.latest[j]>>, id |-> sent + 1]
    OBVIOUS
  <2>3. /\ events' = IF Up THEN Append(events, e) ELSE events
        /\ sent' = sent + 1 /\ UNCHANGED <<triggers, file, hand, handled, saved, boot, pc>>
    BY <2>1, <2>2 DEF Emits, loopVars, exitVars, history
  <2>4. Count(events', n) = Count(events, n) \/ (n = sent + 1 /\ Count(events', n) = Count(events, n) + 1)
    <3>1. CASE Up
      <4>1. PICK S : S = Event \cup {e}
        OBVIOUS
      <4>2. events \in Seq(S) /\ e \in S /\ e.id = sent + 1
        BY <1>0, <2>2, <4>1
      <4>3. Count(Append(events, e), n) = Count(events, n) + (IF e.id = n THEN 1 ELSE 0)
        BY <4>2, CountAppended
      <4> QED BY <1>1, <2>3, <3>1, <4>2, <4>3
    <3> QED BY <2>3, <3>1
  <2>5. Ahead(n)' = Ahead(n) /\ Held("connector", n)' = Held("connector", n)
    BY <2>3 DEF Ahead, Held
  <2>6. Ahead(n) \in Nat
    BY <1>1 DEF Ahead
  <2>7. n = sent + 1 => n \notin handled /\ Total(n) = 0
    BY <1>0, <1>2 DEF Once
  <2>8. \/ Total(n)' = Total(n)
        \/ n = sent + 1 /\ Total(n)' = Total(n) + 1
    BY <1>1, <2>4, <2>5, <2>6 DEF Total
  <2>9. Total(n) \in Nat
    BY <1>1, <2>6 DEF Total
  <2> QED BY <1>0, <1>2, <2>3, <2>5, <2>7, <2>8, <2>9 DEF Once
<1>5. CASE TakeEvent
  <2>1. /\ events # <<>> /\ hand["connector"] = NoEvent
        /\ events' = Tail(events) /\ hand' = [hand EXCEPT !["connector"] = Head(events)]
        /\ UNCHANGED <<triggers, file, sent, handled, saved, boot, pc>>
    BY <1>5 DEF TakeEvent, loopVars, exitVars, history
  <2>2. Count(events, n) = Count(events', n) + (IF Head(events).id = n THEN 1 ELSE 0)
    BY <1>0, <2>1, CountTaken
  <2>3. /\ Held("connector", n) = 0 /\ Held("connector", n)' = (IF Head(events).id = n THEN 1 ELSE 0)
        /\ Held("scheduler", n)' = Held("scheduler", n)
    BY <1>0, <2>1 DEF Held
  <2>4. Count(events', n) \in Nat
    BY <1>0, <2>1, CountIsNat, Taking
  <2>5. Ahead(n)' = Ahead(n) /\ Ahead(n) \in Nat
    BY <1>1, <2>1, <2>3 DEF Ahead
  <2>6. Total(n)' = Total(n)
    BY <1>1, <2>2, <2>3, <2>4, <2>5 DEF Total
  <2> QED BY <1>2, <2>1, <2>5, <2>6 DEF Once
<1>6. CASE Deliver
  <2>1. /\ hand' = [hand EXCEPT !["connector"] = NoEvent] /\ hand["connector"] # NoEvent
        /\ UNCHANGED <<events, file, sent, handled, saved, boot, pc>>
        /\ triggers' = triggers \/ triggers' = Append(triggers, hand["connector"])
    BY <1>6 DEF Deliver, Refreshed, exitVars
  <2>2. hand["connector"] \in Event
    BY <1>0, <2>1
  <2>3. Held("connector", n)' = 0 /\ Held("scheduler", n)' = Held("scheduler", n)
    BY <1>0, <2>1 DEF Held
  <2>4. \/ Count(triggers', n) = Count(triggers, n)
        \/ Count(triggers', n) = Count(triggers, n) + Held("connector", n)
    <3>1. PICK e \in Event : e = hand["connector"]
      BY <2>2
    <3>2. Count(Append(triggers, e), n) = Count(triggers, n) + (IF e.id = n THEN 1 ELSE 0)
      BY <1>0, CountAppended
    <3> QED BY <2>1, <3>1, <3>2 DEF Held
  <2>5. \/ Ahead(n)' = Ahead(n)
        \/ Ahead(n)' = Ahead(n) + Held("connector", n)
    BY <1>1, <2>1, <2>3, <2>4 DEF Ahead
  <2>6. Ahead(n) \in Nat /\ Total(n) = Count(events, n) + Held("connector", n) + Ahead(n)
    BY <1>1 DEF Ahead, Total
  <2>7. Total(n)' = Count(events, n) + Ahead(n)'
    BY <1>1, <2>1, <2>3, <2>5, <2>6 DEF Total
  <2> QED BY <1>1, <1>2, <2>1, <2>5, <2>6, <2>7 DEF Once
<1>7. CASE TakeTrigger
  <2>1. /\ triggers # <<>> /\ hand["scheduler"] = NoEvent /\ pc = "events"
        /\ triggers' = Tail(triggers)
        /\ \/ boot = "loading" /\ hand' = hand
           \/ hand' = [hand EXCEPT !["scheduler"] = Head(triggers)]
        /\ UNCHANGED <<events, file, sent, handled, saved, boot, pc>>
    BY <1>7 DEF TakeTrigger, loopVars, exitVars
  <2>2. PICK c \in {0, 1} : c = (IF Head(triggers).id = n THEN 1 ELSE 0)
    OBVIOUS
  <2>3. Count(triggers, n) = Count(triggers', n) + c
    BY <1>0, <2>1, <2>2, CountTaken
  <2>4. /\ Held("scheduler", n) = 0 /\ Held("connector", n)' = Held("connector", n)
        /\ Held("scheduler", n)' = c \/ (boot = "loading" /\ Held("scheduler", n)' = 0)
    BY <1>0, <2>1, <2>2 DEF Held
  <2>5. Count(triggers', n) \in Nat
    BY <1>0, <2>1, CountIsNat, Taking
  <2>6. \/ Ahead(n)' = Ahead(n)
        \/ boot = "loading" /\ Ahead(n)' = Ahead(n) - c
    BY <1>1, <2>1, <2>3, <2>4, <2>5 DEF Ahead
  <2>7. /\ Ahead(n) = Count(triggers', n) + c + Count(file, n)
        /\ Ahead(n)' = Count(triggers', n) + Count(file, n) + Held("scheduler", n)'
        /\ Total(n) = Count(events, n) + Held("connector", n) + Ahead(n)
        /\ Total(n)' = Count(events, n) + Held("connector", n) + Ahead(n)'
    BY <1>1, <2>1, <2>3, <2>4, <2>5 DEF Ahead, Total
  <2>8. Ahead(n) \in Nat /\ Ahead(n)' \in Nat /\ Ahead(n)' <= Ahead(n)
    BY <1>1, <2>2, <2>4, <2>5, <2>7
  <2>9. Total(n)' <= Total(n) /\ Total(n)' \in Nat /\ Total(n) \in Nat
    BY <1>1, <2>7, <2>8
  <2>10. CASE boot = "loading"
    <3>1. ASSUME n \in saved \ handled PROVE Ahead(n)' = 1
      <4>1. Count(file, n) = 1 /\ Ahead(n) = 1
        BY <1>2, <2>10, <3>1 DEF Once
      <4> QED BY <1>1, <2>2, <2>4, <2>5, <2>7, <4>1
    <3> QED BY <1>2, <2>1, <2>9, <2>10, <3>1 DEF Once
  <2>11. CASE boot # "loading"
    BY <1>2, <2>1, <2>6, <2>9, <2>11 DEF Once
  <2> QED BY <2>10, <2>11, <2>1, <1>2
<1>8. CASE HandleTrigger
  <2>1. /\ hand' = [hand EXCEPT !["scheduler"] = NoEvent] /\ pc = "events"
        /\ hand["scheduler"] # NoEvent
        /\ handled' = handled \cup ({hand["scheduler"].id} \ {0})
        /\ UNCHANGED <<events, file, sent, saved, boot>>
    BY <1>8, Handling DEF exitVars
  <2>2. Held("scheduler", n)' = 0 /\ Held("connector", n)' = Held("connector", n)
    BY <1>0, <2>1 DEF Held
  <2>3. Count(triggers', n) = Count(triggers, n)
    <3>1. PICK m : CacheOk(m)
      BY DEF Typed, CacheInv
    <3>2. CASE triggers' = triggers
      BY <3>2
    <3>3. ASSUME NEW es \in Seq({ParentEvent(d) : d \in Dependent}), triggers' = triggers \o es
          PROVE  Count(triggers', n) = Count(triggers, n)
      <4>1. PICK D : D = {ParentEvent(d) : d \in Dependent}
        OBVIOUS
      <4>2. D \subseteq Event
        BY <3>1, <4>1, ParentsAreEvents DEF CacheOk
      <4>3. es \in Seq(D) /\ es \in Seq(Event)
        BY <3>3, <4>1, <4>2
      <4>4. \A e \in D : e.id # n
        BY <4>1 DEF ParentEvent
      <4>5. Count(es, n) = 0
        BY <4>3, <4>4, CountOthers
      <4>6. Count(triggers \o es, n) = Count(triggers, n) + Count(es, n)
        BY <1>0, <4>3, CountJoined
      <4> QED BY <1>1, <3>3, <4>5, <4>6
    <3> QED BY <1>8, <3>1, <3>2, <3>3, ParentsAdded
  <2>4. /\ Ahead(n) = Ahead(n)' + Held("scheduler", n)
        /\ Total(n) = Total(n)' + Held("scheduler", n)
        /\ Total(n)' \in Nat /\ Ahead(n)' \in Nat /\ Total(n) \in Nat
    BY <1>1, <2>1, <2>2, <2>3 DEF Ahead, Total
  <2>5. n \in handled' <=> n \in handled \/ Held("scheduler", n) = 1
    BY <2>1 DEF Held
  <2>6. n \in handled' => n <= sent'
    <3>1. Held("scheduler", n) = 1 => Total(n) # 0
      BY <2>4
    <3> QED BY <1>0, <1>2, <2>1, <2>5, <3>1 DEF Once
  <2>7. pc' # "saved"
    BY <1>8, <2>1 DEF HandleTrigger
  <2> QED BY <1>1, <1>2, <2>1, <2>4, <2>5, <2>6, <2>7 DEF Once
<1>9. CASE Pause
  <2>1. /\ UNCHANGED <<events, hand, sent, handled, boot>> /\ pc = "pause"
    BY <1>9 DEF Pause
  <2>2. boot = "resumed" /\ hand["scheduler"] = NoEvent /\ file = <<>>
    BY <2>1 DEF CountInv, Typed, LoopInv
  <2>3. Held("scheduler", n) = 0 /\ Count(file, n) = 0 /\ Held("scheduler", n)' = 0
        /\ Held("connector", n)' = Held("connector", n)
    BY <2>1, <2>2, CountEmpty, <1>0 DEF Held
  <2>4. CASE AreAllBuildsComplete
    <3>1. triggers' = <<>> /\ file' = triggers /\ saved' = saved \cup IdsOf(triggers)
      BY <1>9, <2>2, <2>4 DEF Pause
    <3>2. Count(triggers', n) = 0 /\ Count(file', n) = Count(triggers, n)
      BY <3>1, CountEmpty
    <3>3. Ahead(n)' = Ahead(n) /\ Total(n)' = Total(n) /\ Ahead(n) = Count(triggers, n)
          /\ Total(n) \in Nat /\ Count(triggers, n) <= Total(n)
      BY <1>1, <2>1, <2>3, <3>2 DEF Ahead, Total
    <3>4. n \in IdsOf(triggers) => Count(triggers, n) # 0
      <4>1. IsFiniteSet(Places(triggers, n)) /\ Count(triggers, n) = Cardinality(Places(triggers, n))
        BY <1>0, CountIsNat
      <4>2. n \in IdsOf(triggers) => Places(triggers, n) # {}
        BY DEF IdsOf, ToSet, Places
      <4> QED BY <4>1, <4>2, FS_EmptySet
    <3>5. ASSUME n \in saved' \ handled' PROVE Ahead(n)' = 1 /\ Count(file', n) = 1
      BY <1>1, <1>2, <2>1, <3>1, <3>2, <3>3, <3>4, <3>5 DEF Once
    <3> QED BY <1>2, <2>1, <3>3, <3>5 DEF Once
  <2>5. CASE ~AreAllBuildsComplete
    <3>1. UNCHANGED <<triggers, file, saved>> /\ pc' # "saved"
      BY <1>9, <2>5 DEF Pause
    <3>2. Ahead(n)' = Ahead(n) /\ Total(n)' = Total(n)
      BY <2>1, <2>3, <3>1 DEF Ahead, Total
    <3> QED BY <1>2, <2>1, <3>1, <3>2 DEF Once
  <2> QED BY <2>4, <2>5
<1>10. CASE Die
  <2>1. /\ events' = <<>> /\ triggers' = <<>> /\ hand' = [t \in Thread |-> NoEvent]
        /\ UNCHANGED <<sent, file, handled, saved>> /\ pc = "saved"
    BY <1>10 DEF Die
  <2>2. /\ Count(events', n) = 0 /\ Count(triggers', n) = 0
        /\ Held("connector", n)' = 0 /\ Held("scheduler", n)' = 0
    BY <1>0, <2>1, CountEmpty DEF Held
  <2>3. Ahead(n)' = Count(file, n) /\ Total(n)' = Count(file, n)
    BY <1>1, <2>1, <2>2 DEF Ahead, Total
  <2>4. Total(n) \in Nat /\ Count(file, n) <= Total(n)
    BY <1>1 DEF Ahead, Total
  <2>5. n \in saved \ handled => Count(file, n) = 1
    BY <1>2, <2>1 DEF Once
  <2> QED BY <1>1, <1>2, <2>1, <2>3, <2>4, <2>5 DEF Once
<1>11. CASE Resume
  <2>1. /\ UNCHANGED <<events, hand, sent, handled, saved, pc>> /\ boot' = "resumed"
        /\ triggers' = triggers \o file /\ file' = <<>> /\ pc # "saved"
    <3>1. boot = "configured"
      BY <1>11 DEF Resume
    <3> QED BY <1>11, <3>1 DEF Resume, FileAfterResume, history, CountInv, Typed, LoopInv
  <2>2. Count(triggers', n) = Count(triggers, n) + Count(file, n) /\ Count(file', n) = 0
    BY <1>0, <2>1, CountJoined, CountEmpty
  <2>3. /\ Held("connector", n)' = Held("connector", n) /\ Held("scheduler", n)' = Held("scheduler", n)
    BY <2>1 DEF Held
  <2>4. Ahead(n)' = Ahead(n) /\ Total(n)' = Total(n)
    BY <1>1, <2>1, <2>2, <2>3 DEF Ahead, Total
  <2> QED BY <1>2, <2>1, <2>4 DEF Once
<1> QED BY <1>3, <1>4, <1>5, <1>6, <1>7, <1>8, <1>9, <1>10, <1>11 DEF Next, Connector, Scheduler, Main, Thread

(* No event is anywhere at first, ...                                      *)
LEMMA CountAtFirst ==
  ASSUME Init
  PROVE  CountInv
<1>1. /\ events = <<>> /\ triggers = <<>> /\ file = <<>> /\ handled = {} /\ saved = {}
      /\ sent = 0 /\ boot = "resumed" /\ exiting = FALSE
      /\ hand["connector"] = NoEvent /\ hand["scheduler"] = NoEvent
  BY DEF Init, Thread
<1>2. \A n \in Nat \ {0} : Ahead(n) = 0 /\ Total(n) = 0
  BY <1>1, CountEmpty DEF Ahead, Total, Held, NoEvent
<1> QED BY <1>1, <1>2 DEF CountInv, Once

(* ... and every step keeps all counts.                                    *)
LEMMA CountStep ==
  ASSUME Typed, CountInv, [Next]_vars
  PROVE  CountInv'
<1>1. Typed'
  BY TypedStep
<1>2. \A n \in Nat \ {0} : Once(n)' /\ (n \in handled' => n <= sent')
  BY OnceStep
<1>3. handled' \subseteq Nat \ {0} /\ sent' \in Nat
  BY <1>1 DEF Typed, EventsTyped
<1>4. handled' \subseteq 1 .. sent'
  BY <1>2, <1>3
<1> QED BY <1>2, <1>4, FileStep DEF CountInv

(* No event is handled twice, and none that was saved is lost              *)
(* (Scheduler._save_queue, _load_queue, resume).                           *)
THEOREM EventsAreHandledOnce ==
  Spec => []HandledOnce
<1> DEFINE Inv == Typed /\ CountInv
<1>1. Init => Inv
  BY TypedAtFirst, CountAtFirst
<1>2. Inv /\ [Next]_vars => Inv'
  BY TypedStep, CountStep
<1>3. Inv => HandledOnce
  <2> SUFFICES ASSUME Inv PROVE HandledOnce
    OBVIOUS
  <2>0. PICK E : E = Event \cup {NoEvent}
    OBVIOUS
  <2>1. /\ events \in Seq(E) /\ triggers \in Seq(E) /\ file \in Seq(E)
        /\ hand["connector"] \in E /\ hand["scheduler"] \in E /\ sent \in Nat
        /\ handled \subseteq Nat \ {0} /\ saved \subseteq Nat \ {0}
    BY <2>0 DEF Typed, EventsTyped, Thread
  <2>2. PICK a, b : a = hand["connector"] /\ b = hand["scheduler"]
    OBVIOUS
  <2>3. PICK w : w = events \o triggers \o file \o <<a, b>>
    OBVIOUS
  <2>4. ASSUME NEW n \in Nat \ {0}
        PROVE  Cardinality({i \in DOMAIN w : w[i].id = n}) = Total(n)
    <3>0. PICK hands : hands = <<a, b>>
      OBVIOUS
    <3>1. hands \in Seq(E)
      BY <2>1, <2>2, <3>0
    <3>2. Count(hands, n) = Held("connector", n) + Held("scheduler", n)
      <4>1. PICK s : s = <<a>>
        OBVIOUS
      <4>2. s \in Seq(E) /\ b \in E /\ hands = Append(s, b)
        BY <2>1, <2>2, <3>0, <4>1
      <4>3. Count(Append(s, b), n) = Count(s, n) + (IF b.id = n THEN 1 ELSE 0)
        BY <4>2, CountAppended
      <4>4. Count(s, n) = IF a.id = n THEN 1 ELSE 0
        BY <4>1, CountOne
      <4> QED BY <2>2, <4>2, <4>3, <4>4 DEF Held
    <3>3. PICK u : u = events \o triggers
      OBVIOUS
    <3>4. PICK v : v = u \o file
      OBVIOUS
    <3>9. u \in Seq(E)
      BY <2>1, <3>3
    <3>10. v \in Seq(E)
      BY <2>1, <3>4, <3>9
    <3>5. w = v \o hands
      BY <2>3, <3>0, <3>3, <3>4
    <3>6. /\ Count(u, n) = Count(events, n) + Count(triggers, n)
          /\ Count(v, n) = Count(u, n) + Count(file, n)
          /\ Count(w, n) = Count(v, n) + Count(hands, n)
      <4>1. Count(u, n) = Count(events, n) + Count(triggers, n)
        BY <2>1, <3>3, CountJoined
      <4>2. Count(v, n) = Count(u, n) + Count(file, n)
        BY <2>1, <3>4, <3>9, CountJoined
      <4>3. Count(w, n) = Count(v, n) + Count(hands, n)
        BY <3>1, <3>5, <3>10, CountJoined
      <4> QED BY <4>1, <4>2, <4>3
    <3>7. /\ Count(events, n) \in Nat /\ Count(triggers, n) \in Nat /\ Count(file, n) \in Nat
          /\ Held("connector", n) \in {0, 1} /\ Held("scheduler", n) \in {0, 1}
      BY <2>1, CountIsNat DEF Held
    <3>8. Count(w, n) = Total(n)
      BY <3>2, <3>6, <3>7 DEF Total, Ahead
    <3> QED BY <3>8 DEF Count
  <2>5. \A n \in Nat \ {0} : Total(n) \in Nat /\ Ahead(n) <= Total(n)
    <3> SUFFICES ASSUME NEW n \in Nat \ {0} PROVE Total(n) \in Nat /\ Ahead(n) <= Total(n)
      OBVIOUS
    <3>1. /\ Count(events, n) \in Nat /\ Count(triggers, n) \in Nat /\ Count(file, n) \in Nat
          /\ Held("connector", n) \in {0, 1} /\ Held("scheduler", n) \in {0, 1}
      BY <2>1, CountIsNat DEF Held
    <3> QED BY <3>1 DEF Total, Ahead
  <2>6. /\ \A n \in handled : Total(n) = 0
        /\ \A n \in 1 .. sent : Total(n) <= 1
        /\ \A n \in saved \ handled : Total(n) = 1
    <3>1. \A n \in Nat \ {0} : Once(n)
      BY DEF CountInv
    <3>2. \A n \in handled : Total(n) = 0
      BY <2>1, <3>1 DEF Once
    <3>3. \A n \in 1 .. sent : n \in Nat \ {0}
      BY <2>1
    <3>4. \A n \in saved \ handled : Ahead(n) = 1 /\ Total(n) <= 1
      BY <2>1, <3>1 DEF Once
    <3> QED BY <2>1, <2>5, <3>1, <3>2, <3>3, <3>4 DEF Once
  <2>7. 1 .. sent \subseteq Nat \ {0}
    BY <2>1
  <2> HIDE DEF Inv
  <2>8. HandledOnce <=> /\ \A n \in handled : Cardinality({i \in DOMAIN w : w[i].id = n}) = 0
                        /\ \A n \in 1 .. sent : Cardinality({i \in DOMAIN w : w[i].id = n}) <= 1
                        /\ \A n \in saved \ handled : Cardinality({i \in DOMAIN w : w[i].id = n}) = 1
    BY <2>2, <2>3 DEF HandledOnce
  <2> QED BY <2>1, <2>4, <2>6, <2>7, <2>8
<1> QED BY <1>1, <1>2, <1>3, PTL DEF Spec

-----------------------------------------------------------------------------
(* What a pass over a queue works on.                                      *)
PassRecord(D) == [queue : Queues(D), left : Nat, asked : Nat]

(* The same changes in the same places, whatever stage they are in.        *)
Alike(r, q) ==
  /\ Len(r) = Len(q) /\ DOMAIN r = DOMAIN q
  /\ \A j \in DOMAIN q : r[j].obj = q[j].obj /\ r[j].live = q[j].live

(* An item's stage changes nothing of its queue.                           *)
LEMMA ItemStaged ==
  ASSUME NEW D, NEW q \in Queues(D), NEW i \in DOMAIN q, NEW stage \in Stage,
         NEW r, r = [q EXCEPT ![i].stage = stage]
  PROVE  /\ r \in Queues(D) /\ Alike(r, q)
         /\ \A j \in DOMAIN q : j # i => r[j] = q[j]
<1>1. q \in Seq(ItemsOf(D)) /\ LastLive(q)
  BY DEF Queues
<1>2. PICK n \in Nat : n = Len(q) /\ DOMAIN q = 1 .. n
  BY <1>1
<1>3. q[i] \in ItemsOf(D)
  BY <1>1
<1>4. PICK e : e = [q[i] EXCEPT !.stage = stage]
  OBVIOUS
<1>5. e \in ItemsOf(D) /\ e.obj = q[i].obj /\ e.live = q[i].live
  BY <1>3, <1>4 DEF ItemsOf
<1>6. r = [q EXCEPT ![i] = e]
  BY <1>4
<1>7. /\ r \in Seq(ItemsOf(D)) /\ Len(r) = n /\ DOMAIN r = 1 .. n
      /\ r[i] = e /\ \A j \in 1 .. n : j # i => r[j] = q[j]
  BY <1>1, <1>2, <1>5, <1>6
<1>8. Alike(r, q)
  BY <1>2, <1>5, <1>7 DEF Alike
<1>9. LastLive(r)
  BY <1>1, <1>8 DEF LastLive, Alike
<1> QED BY <1>2, <1>7, <1>8, <1>9 DEF Queues

(* prepareRef and launchJobs.                                              *)
LEMMA PreparedIs ==
  ASSUME NEW D, NEW s \in PassRecord(D), NEW i \in DOMAIN s.queue
  PROVE  /\ Prepared(s, i) \in PassRecord(D) /\ Prepared(s, i).left = s.left
         /\ Alike(Prepared(s, i).queue, s.queue)
         /\ \A j \in DOMAIN s.queue : j # i => Prepared(s, i).queue[j] = s.queue[j]
<1>1. PICK q \in Queues(D) : q = s.queue
  BY DEF PassRecord
<1>2. /\ s = [queue |-> q, left |-> s.left, asked |-> s.asked]
      /\ s.left \in Nat /\ s.asked \in Nat /\ s.asked + 1 \in Nat
  BY <1>1 DEF PassRecord
<1>3. PICK a : a = [q EXCEPT ![i].stage = "merging"]
  OBVIOUS
<1>4. PICK b : b = [q EXCEPT ![i].stage = "running"]
  OBVIOUS
<1>5. PICK r : r = Prepared(s, i)
  OBVIOUS
<1>6. \/ r = [queue |-> a, left |-> s.left, asked |-> s.asked + 1]
      \/ r = [queue |-> b, left |-> s.left, asked |-> s.asked]
      \/ r = s
  BY <1>1, <1>2, <1>3, <1>4, <1>5 DEF Prepared
<1>7. /\ a \in Queues(D) /\ Alike(a, q) /\ \A j \in DOMAIN q : j # i => a[j] = q[j]
  BY <1>1, <1>3, ItemStaged DEF Stage
<1>8. /\ b \in Queues(D) /\ Alike(b, q) /\ \A j \in DOMAIN q : j # i => b[j] = q[j]
  BY <1>1, <1>4, ItemStaged DEF Stage
<1>9. Alike(q, q)
  BY DEF Alike
<1>10. /\ r \in PassRecord(D) /\ r.left = s.left /\ Alike(r.queue, q)
       /\ \A j \in DOMAIN q : j # i => r.queue[j] = q[j]
  BY <1>1, <1>2, <1>6, <1>7, <1>8, <1>9 DEF PassRecord
<1> QED BY <1>1, <1>5, <1>10

(* What changes need is the same in a queue that is alike.                 *)
LEMMA SameNeeded ==
  ASSUME NEW r, NEW q, Alike(r, q), NEW os, NEW o
  PROVE  ChangesNeeded(r, os, o) = ChangesNeeded(q, os, o)
<1>1. \A d : AlreadyInQueue(r, os, d) <=> AlreadyInQueue(q, os, d)
  BY DEF AlreadyInQueue, Alike, Equals
<1> QED BY <1>1 DEF ChangesNeeded

(* A pass over a queue q when it has come to the k-th item: what is behind *)
(* is untouched, and if nothing has left the queue, all up to here have    *)
(* what they need; a live one is the one that was.                         *)
LiveFrom(r, q) ==
  \A j \in DOMAIN r :
    r[j].live => Len(q) \in DOMAIN q /\ q[Len(q)].live /\ r[j].obj = q[Len(q)].obj
Sound(q, os, k) ==
  \A j \in 1 .. k : ChangesNeeded(q, os, q[j].obj) = {} /\ (j = Len(q) => q[j].live)
PassOk(s, k, q, os) ==
  /\ s \in PassRecord(DOMAIN os)
  /\ Len(s.queue) + s.left = Len(q) /\ s.left <= k
  /\ \A j \in k - s.left + 1 .. Len(s.queue) : s.queue[j] = q[j + s.left]
  /\ LiveFrom(s.queue, q)
  /\ s.left = 0 => Alike(s.queue, q) /\ Sound(q, os, k)

(* Where the item is that a pass comes to.                                 *)
LEMMA PassPlace ==
  ASSUME NEW os, NEW q \in Queues(DOMAIN os), NEW k \in Nat, k < Len(q), NEW s, PassOk(s, k, q, os),
         NEW a \in Queues(DOMAIN os), Len(a) = Len(s.queue)
  PROVE  \E n, l \in Nat :
           /\ n = Len(q) /\ DOMAIN q = 1 .. n /\ l = s.left /\ k < n /\ l <= k
           /\ Len(a) = n - l /\ DOMAIN a = 1 .. n - l /\ a \in Seq(ItemsOf(DOMAIN os))
           /\ k + 1 - s.left = k + 1 - l /\ k + 1 - l \in 1 .. n - l
<1>1. PICK n \in Nat : n = Len(q) /\ DOMAIN q = 1 .. n
  BY DEF Queues
<1>2. PICK l \in Nat : l = s.left
  BY DEF PassOk, PassRecord
<1>3. a \in Seq(ItemsOf(DOMAIN os))
  BY DEF Queues
<1>4. PICK c \in Nat : c = Len(a) /\ DOMAIN a = 1 .. c
  BY <1>3
<1>5. c + l = n /\ l <= k /\ k < n
  BY <1>1, <1>2, <1>4 DEF PassOk
<1>6. c = n - l /\ k + 1 - l \in 1 .. n - l
  BY <1>5
<1> QED BY <1>1, <1>2, <1>3, <1>4, <1>5, <1>6

(* After work on the i-th item the queue is as it was, but for its stage.  *)
Near(t, s, i) ==
  /\ t.left = s.left /\ Alike(t.queue, s.queue)
  /\ \A j \in DOMAIN s.queue : j # i => t.queue[j] = s.queue[j]
(* The i-th item has what it needs, and is live if it is the last.         *)
Served(s, os, i) ==
  ChangesNeeded(s.queue, os, s.queue[i].obj) = {} /\ (i = Len(s.queue) => s.queue[i].live)

(* An item leaves the queue.                                               *)
LEMMA DequeuedIs ==
  ASSUME NEW os, NEW q \in Queues(DOMAIN os), NEW k \in Nat, k < Len(q),
         NEW s, PassOk(s, k, q, os), NEW i, i = k + 1 - s.left,
         NEW t \in PassRecord(DOMAIN os), Near(t, s, i)
  PROVE  PassOk(Dequeued(t, i), k + 1, q, os)
<1> DEFINE D == DOMAIN os
<1> USE DEF Near
<1>1. PICK a \in Queues(D) : a = t.queue
  BY DEF PassRecord
<1>2. PICK b \in Queues(D) : b = s.queue
  BY DEF PassOk, PassRecord
<1>3. Len(a) = Len(s.queue) /\ DOMAIN a = DOMAIN s.queue
  BY <1>1 DEF Alike
<1>4. PICK n \in Nat, l \in Nat :
        /\ n = Len(q) /\ DOMAIN q = 1 .. n /\ l = s.left /\ k < n /\ l <= k
        /\ Len(a) = n - l /\ DOMAIN a = 1 .. n - l /\ a \in Seq(ItemsOf(D))
        /\ k + 1 - s.left = k + 1 - l /\ k + 1 - l \in 1 .. n - l
  BY <1>1, <1>3, PassPlace
<1>5. /\ Len(b) = n - l /\ DOMAIN b = 1 .. n - l
      /\ i = k + 1 - l /\ i \in 1 .. n - l
  BY <1>1, <1>2, <1>3, <1>4
<1>6. PICK r : r = RemoveAt(a, i)
  OBVIOUS
<1>7. /\ r \in Queues(D) /\ Len(r) = n - l - 1 /\ DOMAIN r = 1 .. n - l - 1
      /\ \A j \in 1 .. i - 1 : r[j] = a[j]
      /\ \A j \in i .. n - l - 1 : r[j] = a[j + 1]
  <2>1. i \in 1 .. Len(a) /\ Len(a) - 1 = n - l - 1
    BY <1>4, <1>5
  <2>2. r \in Queues(D)
    BY <1>6, <2>1, QueueWithout
  <2>3. /\ Len(r) = Len(a) - 1 /\ DOMAIN r = 1 .. Len(a) - 1
        /\ \A j \in 1 .. i - 1 : r[j] = a[j]
        /\ \A j \in i .. Len(a) - 1 : r[j] = a[j + 1]
    BY <1>4, <1>6, <2>1, WithoutOne
  <2> QED BY <2>1, <2>2, <2>3
<1>8. PICK v : v = Dequeued(t, i)
  OBVIOUS
<1>9. /\ v.queue = r /\ v.left = l + 1 /\ v.asked = t.asked
      /\ v = [queue |-> r, left |-> l + 1, asked |-> t.asked]
  BY <1>1, <1>4, <1>6, <1>8 DEF Dequeued, PassRecord
<1>10. v \in PassRecord(D)
  BY <1>4, <1>7, <1>9 DEF PassRecord
<1>0. (k + 1) - (l + 1) + 1 = k - l + 1 /\ k - l + 1 = k + 1 - l /\ k - l \in Nat
  BY <1>4
<1>11. ASSUME NEW j \in k - l + 1 .. n - l - 1 PROVE r[j] = q[j + (l + 1)]
  <2>0. PICK c \in Nat : c = k - l
    BY <1>0
  <2>5. PICK d \in Int : d = n - l
    BY <1>4
  <2>6. i = c + 1 /\ j \in c + 1 .. d - 1
    BY <1>0, <1>5, <2>0, <2>5
  <2>7. j \in i .. d - 1 /\ j + 1 \in c + 1 .. d /\ j + 1 \in 1 .. d /\ j + 1 # i /\ j \in Int
    BY <2>6
  <2>1. j \in i .. n - l - 1 /\ j + 1 \in k - l + 1 .. n - l /\ j + 1 \in 1 .. n - l /\ j + 1 # i
    BY <2>0, <2>5, <2>7
  <2>2. r[j] = b[j + 1]
    BY <1>1, <1>2, <1>5, <1>7, <2>1
  <2>3. b[j + 1] = q[(j + 1) + l]
    BY <1>2, <1>4, <1>5, <2>1 DEF PassOk
  <2>4. (j + 1) + l = j + (l + 1)
    BY <1>4, <2>7
  <2> QED BY <2>2, <2>3, <2>4
<1>12. LiveFrom(r, q)
  <2>1. LiveFrom(a, q)
    BY <1>1, <1>2 DEF PassOk, LiveFrom, Alike
  <2>2. \A j \in DOMAIN r : \E c \in DOMAIN a : r[j] = a[c]
    <3> TAKE j \in DOMAIN r
    <3>1. j \in 1 .. i - 1 \/ j \in i .. n - l - 1
      BY <1>4, <1>5, <1>7
    <3>2. j \in 1 .. n - l /\ j + 1 \in 1 .. n - l
      <4>1. PICK d \in Int : d = n - l
        BY <1>4
      <4>2. j \in 1 .. d - 1
        BY <1>7, <4>1
      <4>3. j \in 1 .. d /\ j + 1 \in 1 .. d
        BY <4>2
      <4> QED BY <4>1, <4>3
    <3> QED BY <1>4, <1>7, <3>1, <3>2
  <2> QED BY <2>1, <2>2 DEF LiveFrom
<1>13. Len(r) + (l + 1) = n /\ l + 1 <= k + 1 /\ l + 1 # 0
  <2>1. PICK c : c = Len(r) /\ c = n - l - 1
    BY <1>7
  <2>2. l \in Nat /\ n \in Nat /\ l <= k
    BY <1>4
  <2>3. c + (l + 1) = n /\ l + 1 <= k + 1 /\ l + 1 # 0
    BY <2>1, <2>2
  <2> QED BY <2>1, <2>3
<1>15. \A j \in (k + 1) - v.left + 1 .. Len(v.queue) : v.queue[j] = q[j + v.left]
  BY <1>0, <1>7, <1>9, <1>11
<1>16. Len(v.queue) + v.left = Len(q) /\ v.left <= k + 1 /\ v.left # 0
  BY <1>4, <1>9, <1>13
<1>14. PassOk(v, k + 1, q, os)
  BY <1>9, <1>10, <1>12, <1>15, <1>16 DEF PassOk
<1> QED BY <1>8, <1>14

(* An item stays.                                                          *)
LEMMA KeptIs ==
  ASSUME NEW os, NEW q \in Queues(DOMAIN os), NEW k \in Nat, k < Len(q),
         NEW s, PassOk(s, k, q, os), NEW i, i = k + 1 - s.left,
         Served(s, os, i),
         NEW t \in PassRecord(DOMAIN os), Near(t, s, i)
  PROVE  PassOk(t, k + 1, q, os)
<1> DEFINE D == DOMAIN os
<1> USE DEF Near
<1>1. PICK a \in Queues(D) : a = t.queue
  BY DEF PassRecord
<1>2. PICK b \in Queues(D) : b = s.queue
  BY DEF PassOk, PassRecord
<1>3. Len(a) = Len(s.queue) /\ DOMAIN a = DOMAIN s.queue
  BY <1>1 DEF Alike
<1>4. PICK n \in Nat, l \in Nat :
        /\ n = Len(q) /\ DOMAIN q = 1 .. n /\ l = s.left /\ k < n /\ l <= k
        /\ Len(a) = n - l /\ DOMAIN a = 1 .. n - l /\ a \in Seq(ItemsOf(D))
        /\ k + 1 - s.left = k + 1 - l /\ k + 1 - l \in 1 .. n - l
  BY <1>1, <1>3, PassPlace
<1>5. /\ Len(b) = n - l /\ DOMAIN b = 1 .. n - l
      /\ i = k + 1 - l /\ i \in 1 .. n - l
  BY <1>1, <1>2, <1>3, <1>4
<1>6. ASSUME NEW j \in (k + 1) - l + 1 .. n - l PROVE a[j] = q[j + l]
  <2>1. j \in k - l + 1 .. n - l /\ j \in DOMAIN b /\ j # i
    BY <1>4, <1>5
  <2>2. a[j] = b[j]
    BY <1>1, <1>2, <2>1
  <2>3. b[j] = q[j + l]
    BY <1>2, <1>4, <1>5, <2>1 DEF PassOk
  <2> QED BY <2>2, <2>3
<1>7. LiveFrom(a, q)
  BY <1>1, <1>2 DEF PassOk, LiveFrom, Alike
<1>8. ASSUME l = 0 PROVE Alike(a, q) /\ Sound(q, os, k + 1)
  <2>1. Alike(b, q) /\ Sound(q, os, k)
    BY <1>2, <1>4, <1>8 DEF PassOk
  <2>2. Alike(a, q)
    BY <1>1, <1>2, <2>1 DEF Alike
  <2>3. i = k + 1 /\ b[i].obj = q[i].obj /\ b[i].live = q[i].live /\ Len(b) = n
    BY <1>4, <1>5, <1>8, <2>1 DEF Alike
  <2>4. ChangesNeeded(q, os, q[k + 1].obj) = {} /\ (k + 1 = Len(q) => q[k + 1].live)
    BY <1>2, <1>4, <2>1, <2>3, SameNeeded DEF Served
  <2>5. \A j \in 1 .. k + 1 : j = k + 1 \/ j \in 1 .. k
    OBVIOUS
  <2> QED BY <2>1, <2>2, <2>4, <2>5 DEF Sound
<1>9. l <= k + 1 /\ Len(a) + l = n
  BY <1>4
<1> QED BY <1>1, <1>4, <1>6, <1>7, <1>8, <1>9 DEF PassOk

(* _processOneItem.                                                        *)
LEMMA PassGoesOn ==
  ASSUME NEW os, NEW q \in Queues(DOMAIN os), NEW k \in Nat, k < Len(q),
         NEW s, PassOk(s, k, q, os), NEW c, c = k + 1
  PROVE  PassOk(ProcessOneItem(s, os, c - s.left), c, q, os)
<1>0. PICK i : i = c - s.left
  OBVIOUS
<1>2. s \in PassRecord(DOMAIN os) /\ s.left \in Nat /\ s.queue \in Queues(DOMAIN os)
  BY DEF PassOk, PassRecord
<1>1. i = k + 1 - s.left
  <2>1. PICK l \in Nat : l = s.left
    BY <1>2
  <2>2. i = c - l /\ c - l = k + 1 - l
    BY <1>0, <2>1
  <2> QED BY <2>1, <2>2
<1>3. i \in DOMAIN s.queue
  <2>1. PICK n \in Nat, l \in Nat : n = Len(s.queue) /\ l = s.left
    BY <1>2 DEF Queues
  <2>2. n + l = Len(q) /\ l <= k /\ DOMAIN s.queue = 1 .. n
    BY <1>2, <2>1 DEF PassOk, Queues
  <2> QED BY <1>1, <2>1, <2>2
<1>4. PICK t : t = Prepared(s, i)
  OBVIOUS
<1>5. /\ t \in PassRecord(DOMAIN os) /\ Near(t, s, i)
  BY <1>2, <1>3, <1>4, PreparedIs DEF Near
<1>6. Near(s, s, i)
  BY DEF Near, Alike
<1>7. PassOk(Dequeued(t, i), k + 1, q, os)
  BY <1>1, <1>5, DequeuedIs
<1>8. PassOk(Dequeued(s, i), k + 1, q, os)
  BY <1>1, <1>2, <1>6, DequeuedIs
<1>9. ASSUME Served(s, os, i)
      PROVE  PassOk(t, k + 1, q, os)
  <2>1. s \in PassRecord(DOMAIN os)
    BY <1>2
  <2> QED BY <1>1, <1>5, <1>9, <2>1, KeptIs
<1>10. \/ ProcessOneItem(s, os, i) = Dequeued(s, i)
       \/ ProcessOneItem(s, os, i) = Dequeued(t, i)
       \/ Served(s, os, i) /\ ProcessOneItem(s, os, i) = t
  BY <1>4 DEF ProcessOneItem, Served
<1>11. PassOk(ProcessOneItem(s, os, i), k + 1, q, os)
  BY <1>7, <1>8, <1>9, <1>10
<1> QED BY <1>0, <1>11

(* A pass over a queue.                                                    *)
LEMMA PassIsOk ==
  ASSUME NEW os, NEW q \in Queues(DOMAIN os)
  PROVE  PassOk(Pass(q, os), Len(q), q, os)
<1> DEFINE n == Len(q)
           T == SUBSET (1 .. n)
           base == [queue |-> q, left |-> 0, asked |-> 0]
           places == [i \in DOMAIN q |-> i]
           Op(x, k) == ProcessOneItem(x, os, places[k] - x.left)
           Step(h) == [s \in T |-> IF s = {} THEN base ELSE Op(h[s \ {Max(s)}], Max(s))]
           S == {m \in Nat : \E f : \A s \in T \cap SUBSET (1 .. m) : f[s] = Step(f)[s]}
           h == CHOOSE h : h = Step(h)
<1>1. n \in Nat /\ DOMAIN q = 1 .. n /\ DOMAIN places = 1 .. n /\ \A k \in 1 .. n : places[k] = k
  BY DEF Queues
<1>2. \A s \in T : s # {} => /\ Max(s) \in s /\ Max(s) \in 1 .. n /\ s \ {Max(s)} \in T
                             /\ \A k \in s : k <= Max(s)
  BY <1>1, MaxOfPart
<1>3. Pass(q, os) = h[1 .. n]
  BY <1>1 DEF Pass, FoldLeft, MapThenFoldSet
<1> HIDE DEF n, Op, places, base
<1>4. 0 \in S
  <2> DEFINE f == [s \in T |-> base]
  <2>1. \A s \in T \cap SUBSET (1 .. 0) : s = {} /\ f[s] = base /\ Step(f)[s] = base
    OBVIOUS
  <2> HIDE DEF f, Step
  <2> QED BY <2>1
<1>5. ASSUME NEW m \in Nat, m \in S PROVE m + 1 \in S
  <2>1. PICK f : \A s \in T \cap SUBSET (1 .. m) : f[s] = Step(f)[s]
    BY <1>5
  <2>2. ASSUME NEW s \in T, s \in SUBSET (1 .. m + 1) PROVE Step(f)[s] = Step(Step(f))[s]
    <3>1. CASE s = {}
      BY <3>1
    <3>2. CASE s # {}
      <4> DEFINE t == s \ {Max(s)}
      <4>1. t \in T \cap SUBSET (1 .. m)
        BY <1>2, <2>2, <3>2
      <4>2. f[t] = Step(f)[t]
        <5> HIDE DEF Step, t, T
        <5> QED BY <2>1, <4>1
      <4>3. Step(f)[s] = Op(f[t], Max(s)) /\ Step(Step(f))[s] = Op(Step(f)[t], Max(s))
        BY <3>2
      <4> HIDE DEF t, Step
      <4> QED BY <4>2, <4>3
    <3> QED BY <3>1, <3>2
  <2> HIDE DEF Step, T
  <2> QED BY <2>2
<1>6. n \in S
  <2>1. Nat \subseteq S
    <3> HIDE DEF S
    <3> QED BY <1>4, <1>5, SetInduction
  <2> HIDE DEF S
  <2> QED BY <1>1, <2>1
<1>7. h = Step(h)
  <2>1. PICK f : \A s \in T \cap SUBSET (1 .. n) : f[s] = Step(f)[s]
    BY <1>6
  <2>2. \A s \in T : f[s] = Step(f)[s]
    <3> HIDE DEF Step
    <3> QED BY <2>1
  <2> DEFINE e == Step(f)
  <2>3. \A s \in T : s # {} => e[s \ {Max(s)}] = f[s \ {Max(s)}]
    <3> HIDE DEF Step
    <3> QED BY <1>2, <2>2
  <2>4. e = Step(e)
    <3>1. e = [s \in T |-> IF s = {} THEN base ELSE Op(f[s \ {Max(s)}], Max(s))]
      OBVIOUS
    <3>2. Step(e) = [s \in T |-> IF s = {} THEN base ELSE Op(e[s \ {Max(s)}], Max(s))]
      OBVIOUS
    <3> HIDE DEF e, Step, T
    <3> QED BY <2>3, <3>1, <3>2
  <2> HIDE DEF e, Step
  <2> QED BY <2>4
<1> DEFINE P == {m \in Nat : m <= n => PassOk(h[1 .. m], m, q, os)}
<1> HIDE DEF h
<1>8. 0 \in P
  <2>1. 1 .. 0 = {} /\ {} \in T
    OBVIOUS
  <2>2. h[1 .. 0] = base
    BY <1>7, <2>1
  <2>3. PassOk(base, 0, q, os)
    <3>1. base.queue = q /\ base.left = 0 /\ base \in PassRecord(DOMAIN os) /\ Len(q) \in Nat
      BY DEF base, PassRecord, Queues
    <3>2. Alike(q, q) /\ Sound(q, os, 0)
      BY DEF Alike, Sound
    <3>3. LiveFrom(q, q)
      BY DEF LiveFrom, Queues, LastLive
    <3>4. Len(q) + 0 = Len(q) /\ \A j \in 0 - 0 + 1 .. Len(q) : q[j] = q[j + 0]
      BY <3>1
    <3> QED BY <3>1, <3>2, <3>3, <3>4 DEF PassOk
  <2> QED BY <2>2, <2>3
<1>9. ASSUME NEW m \in Nat, m \in P PROVE m + 1 \in P
  <2> SUFFICES ASSUME m + 1 <= n PROVE PassOk(h[1 .. m + 1], m + 1, q, os)
    OBVIOUS
  <2>1. PICK s : s = h[1 .. m]
    OBVIOUS
  <2>2. PICK c \in Nat : c = m + 1
    OBVIOUS
  <2>3. PassOk(s, m, q, os) /\ m < Len(q) /\ c \in 1 .. n
    BY <1>1, <1>9, <2>1, <2>2 DEF n
  <2>4. Max(1 .. c) = c /\ (1 .. c) \ {c} = 1 .. m
    BY <2>2, MaxOfPrefix
  <2>5. 1 .. c \in T /\ 1 .. c # {}
    <3>1. 1 \in 1 .. c /\ \A j \in 1 .. c : j \in 1 .. n
      BY <1>1, <2>3
    <3> QED BY <3>1
  <2>6. h[1 .. c] = Op(s, c)
    BY <1>7, <2>1, <2>4, <2>5
  <2>7. Op(s, c) = ProcessOneItem(s, os, c - s.left)
    BY <1>1, <2>3 DEF Op
  <2>8. PassOk(ProcessOneItem(s, os, c - s.left), c, q, os)
    BY <2>2, <2>3, PassGoesOn
  <2>9. PassOk(h[1 .. c], c, q, os)
    BY <2>6, <2>7, <2>8
  <2> QED BY <2>2, <2>9
<1>10. n \in P
  <2> HIDE DEF P
  <2> QED BY <1>1, <1>8, <1>9, SetInduction
<1> QED BY <1>1, <1>3, <1>10 DEF n

(* What is left of the first k queues of p, after a pass over each: these  *)
(* queues, in their order, without some of them.                           *)
Choice(f, h, k) ==
  f \in [1 .. Len(h) -> 1 .. k] /\ \A a, b \in 1 .. Len(h) : a # b => f[a] # f[b]
KeptOk(h, k, p, os) ==
  /\ h \in Seq(Queues(DOMAIN os)) /\ Len(h) <= k
  /\ Len(h) = k => \A j \in 1 .. k : h[j] = Pass(p[j], os).queue
  /\ \E f : Choice(f, h, k) /\ \A a \in 1 .. Len(h) : h[a] = Pass(p[f[a]], os).queue

(* A queue is kept.                                                        *)
LEMMA QueueKept ==
  ASSUME NEW p, NEW os, NEW k \in Nat, NEW h, KeptOk(h, k, p, os),
         NEW c, c = k + 1, NEW q \in Queues(DOMAIN os), q = Pass(p[c], os).queue
  PROVE  KeptOk(Append(h, q), c, p, os)
<1>1. h \in Seq(Queues(DOMAIN os))
  BY DEF KeptOk
<1>2. PICK n \in Nat : n = Len(h)
  BY <1>1
<1>3. PICK f : Choice(f, h, k) /\ \A a \in 1 .. Len(h) : h[a] = Pass(p[f[a]], os).queue
  BY DEF KeptOk
<1>4. PICK r : r = Append(h, q)
  OBVIOUS
<1>5. PICK d \in Nat : d = n + 1
  BY <1>2
<1>6. /\ r \in Seq(Queues(DOMAIN os)) /\ Len(r) = d /\ r[d] = q
      /\ \A j \in 1 .. n : r[j] = h[j]
  BY <1>1, <1>2, <1>4, <1>5
<1>7. n <= k /\ (n = k => \A j \in 1 .. k : h[j] = Pass(p[j], os).queue)
  BY <1>2 DEF KeptOk
<1>8. c \in Nat /\ d <= c /\ (d = c => n = k)
  BY <1>5, <1>7
<1>9. ASSUME d = c PROVE \A j \in 1 .. c : r[j] = Pass(p[j], os).queue
  <2> TAKE j \in 1 .. c
  <2>1. CASE j = c
    BY <1>6, <1>9, <2>1
  <2>2. CASE j # c
    <3>1. j \in 1 .. n /\ j \in 1 .. k
      BY <1>5, <1>9, <2>2
    <3> QED BY <1>6, <1>7, <1>8, <1>9, <3>1
  <2> QED BY <2>1, <2>2
<1>10. PICK g : g = [a \in 1 .. d |-> IF a = d THEN c ELSE f[a]]
  OBVIOUS
<1>11. \A a \in 1 .. d : a = d \/ a \in 1 .. n
  BY <1>5
<1>12. \A a \in 1 .. n : a # d /\ a \in 1 .. d /\ g[a] = f[a] /\ f[a] \in 1 .. k
  BY <1>2, <1>3, <1>5, <1>10 DEF Choice
<1>13. g[d] = c /\ d \in 1 .. d
  BY <1>5, <1>10
<1>14. \A i \in 1 .. k : i # c /\ i \in 1 .. c
  OBVIOUS
<1>15. c \in 1 .. c
  OBVIOUS
<1>16. g \in [1 .. d -> 1 .. c]
  BY <1>10, <1>11, <1>12, <1>13, <1>14, <1>15
<1>17. \A a, b \in 1 .. d : a # b => g[a] # g[b]
  BY <1>2, <1>3, <1>11, <1>12, <1>13, <1>14 DEF Choice
<1>18. \A a \in 1 .. d : r[a] = Pass(p[g[a]], os).queue
  BY <1>2, <1>3, <1>6, <1>11, <1>12, <1>13
<1>19. Choice(g, r, c)
  BY <1>6, <1>16, <1>17 DEF Choice
<1>20. KeptOk(r, c, p, os)
  BY <1>6, <1>8, <1>9, <1>18, <1>19 DEF KeptOk
<1> QED BY <1>4, <1>20

(* A queue is removed.                                                     *)
LEMMA QueueRemoved ==
  ASSUME NEW p, NEW os, NEW k \in Nat, NEW h, KeptOk(h, k, p, os), NEW c, c = k + 1
  PROVE  KeptOk(h, c, p, os)
<1>1. h \in Seq(Queues(DOMAIN os)) /\ Len(h) <= k
  BY DEF KeptOk
<1>2. PICK f : Choice(f, h, k) /\ \A a \in 1 .. Len(h) : h[a] = Pass(p[f[a]], os).queue
  BY DEF KeptOk
<1>3. 1 .. k \subseteq 1 .. c
  OBVIOUS
<1>4. Choice(f, h, c)
  BY <1>2, <1>3 DEF Choice
<1>5. PICK n \in Nat : n = Len(h)
  BY <1>1
<1>6. n <= c /\ n # c
  BY <1>1, <1>5
<1> QED BY <1>1, <1>2, <1>4, <1>5, <1>6 DEF KeptOk

(* processQueue.                                                           *)
LEMMA ProcessIsOk ==
  ASSUME NEW os, NEW p \in Seq(Queues(DOMAIN os))
  PROVE  KeptOk(ProcessQueue(p, os).pipeline, Len(p), p, os)
<1> DEFINE n == Len(p)
           T == SUBSET (1 .. n)
           passed == [k \in DOMAIN p |-> Pass(p[k], os)]
           places == [k \in DOMAIN p |-> k]
           Op(x, k) == IF passed[places[k]].queue = <<>> /\ p[places[k]] # <<>> THEN x
                       ELSE Append(x, passed[places[k]].queue)
           Step(h) == [s \in T |-> IF s = {} THEN <<>> ELSE Op(h[s \ {Max(s)}], Max(s))]
           h == CHOOSE h : h = Step(h)
           R == Seq(Queues(DOMAIN os))
           g == [x \in R \X (1 .. n) |-> Op(x[1], x[2])]
<1>1. n \in Nat /\ DOMAIN p = 1 .. n /\ DOMAIN places = 1 .. n /\ \A k \in 1 .. n : places[k] = k
  OBVIOUS
<1>2. \A s \in T : s # {} => /\ Max(s) \in s /\ Max(s) \in 1 .. n /\ s \ {Max(s)} \in T
                             /\ \A k \in s : k <= Max(s)
  BY <1>1, MaxOfPart
<1>3. ProcessQueue(p, os).pipeline = h[1 .. n]
  BY <1>1 DEF ProcessQueue, FoldLeft, MapThenFoldSet
<1>4. ASSUME NEW k \in 1 .. n
      PROVE  passed[places[k]] = Pass(p[k], os) /\ Pass(p[k], os).queue \in Queues(DOMAIN os)
  <2>1. p[k] \in Queues(DOMAIN os) /\ passed[places[k]] = Pass(p[k], os)
    BY <1>1
  <2>2. PassOk(Pass(p[k], os), Len(p[k]), p[k], os)
    BY <2>1, PassIsOk
  <2> QED BY <2>1, <2>2 DEF PassOk, PassRecord
<1>5. ASSUME NEW x \in R, NEW k \in 1 .. n PROVE Op(x, k) \in R
  <2>1. PICK q \in Queues(DOMAIN os) : q = passed[places[k]].queue
    BY <1>4
  <2>2. Append(x, q) \in R
    OBVIOUS
  <2> QED BY <2>1, <2>2
<1>6. \A x \in R, k \in 1 .. n : g[<<x, k>>] = Op(x, k) /\ g[<<x, k>>] \in R
  <2> HIDE DEF Op, R
  <2> QED BY <1>5
<1>7. <<>> \in R
  OBVIOUS
<1> HIDE DEF Op, g, R, n
<1>8. h = Step(h)
  <2>1. PICK f : Folds(f, n, R, <<>>, g)
    BY <1>1, <1>6, <1>7, FoldExists
  <2>2. /\ f \in [T -> R]
        /\ \A s \in T : f[s] = IF s = {} THEN <<>> ELSE g[<<f[s \ {Max(s)}], Max(s)>>]
    BY <2>1 DEF Folds
  <2>3. \A s \in T : f[s] = Step(f)[s]
    BY <1>2, <1>6, <2>2
  <2>4. f = Step(f)
    BY <2>2, <2>3
  <2> HIDE DEF Step
  <2> QED BY <2>4
<1> DEFINE P == {m \in Nat : m <= n => KeptOk(h[1 .. m], m, p, os)}
<1> HIDE DEF h
<1>9. 0 \in P
  <2>1. 1 .. 0 = {} /\ {} \in T
    OBVIOUS
  <2>2. h[1 .. 0] = <<>>
    BY <1>8, <2>1
  <2>3. KeptOk(<<>>, 0, p, os)
    <3>1. <<>> \in Seq(Queues(DOMAIN os)) /\ Len(<<>>) = 0 /\ 1 .. 0 = {}
      OBVIOUS
    <3>2. PICK f : f = [a \in 1 .. 0 |-> a]
      OBVIOUS
    <3>3. Choice(f, <<>>, 0)
      BY <3>1, <3>2 DEF Choice
    <3> QED BY <3>1, <3>3 DEF KeptOk
  <2> QED BY <2>2, <2>3
<1>10. ASSUME NEW m \in Nat, m \in P PROVE m + 1 \in P
  <2> SUFFICES ASSUME m + 1 <= n PROVE KeptOk(h[1 .. m + 1], m + 1, p, os)
    OBVIOUS
  <2>1. PICK s : s = h[1 .. m]
    OBVIOUS
  <2>2. PICK c \in Nat : c = m + 1
    OBVIOUS
  <2>3. KeptOk(s, m, p, os) /\ c \in 1 .. n
    BY <1>1, <1>10, <2>1, <2>2
  <2>4. Max(1 .. c) = c /\ (1 .. c) \ {c} = 1 .. m
    BY <2>2, MaxOfPrefix
  <2>5. 1 .. c \in T /\ 1 .. c # {}
    <3>1. 1 \in 1 .. c /\ \A j \in 1 .. c : j \in 1 .. n
      BY <1>1, <2>3
    <3> QED BY <3>1
  <2>6. h[1 .. c] = Op(s, c)
    BY <1>8, <2>1, <2>4, <2>5
  <2>7. Op(s, c) = s \/ Op(s, c) = Append(s, Pass(p[c], os).queue)
    BY <1>4, <2>3 DEF Op
  <2>8. PICK q \in Queues(DOMAIN os) : q = Pass(p[c], os).queue
    BY <1>4, <2>3
  <2>9. KeptOk(s, c, p, os) /\ KeptOk(Append(s, q), c, p, os)
    BY <2>2, <2>3, <2>8, QueueKept, QueueRemoved
  <2>10. KeptOk(h[1 .. c], c, p, os)
    BY <2>6, <2>7, <2>8, <2>9
  <2> QED BY <2>2, <2>10
<1>11. n \in P
  <2> HIDE DEF P
  <2> QED BY <1>1, <1>9, <1>10, SetInduction
<1> QED BY <1>1, <1>3, <1>11 DEF n

(* A queue that ends in its live item and carries what the others need.    *)
Carries(q, os) ==
  \A i \in DOMAIN q :
    /\ q[i].live <=> i = Len(q)
    /\ \A d \in os[q[i].obj].needs :
         os[d].merged \/ \E j \in DOMAIN q \ {i} : Equals(os, d, q[j].obj)

(* It is when processQueue changes nothing more that all do.               *)
LEMMA ProcessedCarries ==
  ASSUME NEW os, NoLoops(os), NEW p \in Seq(Queues(DOMAIN os)), ProcessQueue(p, os).pipeline = p,
         NEW k \in DOMAIN p
  PROVE  Carries(p[k], os)
<1>1. PICK q \in Queues(DOMAIN os) : q = p[k]
  OBVIOUS
<1>2. PICK n \in Nat : n = Len(q) /\ DOMAIN q = 1 .. n
  BY DEF Queues
<1>3. PICK r : r = Pass(q, os)
  OBVIOUS
<1>4. r.queue = q
  <2>1. KeptOk(p, Len(p), p, os)
    BY ProcessIsOk
  <2> QED BY <1>1, <1>3, <2>1 DEF KeptOk
<1>5. PassOk(r, n, q, os)
  BY <1>2, <1>3, PassIsOk
<1>6. Sound(q, os, n)
  <2>1. n + r.left = n /\ r.left \in Nat
    BY <1>2, <1>4, <1>5 DEF PassOk, PassRecord
  <2>2. r.left = 0
    BY <2>1
  <2> QED BY <1>5, <2>2 DEF PassOk
<1>7. ASSUME NEW i \in 1 .. n PROVE q[i].live <=> i = Len(q)
  BY <1>2, <1>6 DEF Sound, Queues, LastLive
<1>8. ASSUME NEW i \in 1 .. n, NEW d \in os[q[i].obj].needs, ~os[d].merged
      PROVE  \E j \in DOMAIN q \ {i} : Equals(os, d, q[j].obj)
  <2>1. q[i].obj \in DOMAIN os
    <3>1. q[i] \in ItemsOf(DOMAIN os)
      BY <1>2 DEF Queues
    <3> QED BY <3>1 DEF ItemsOf
  <2>2. d \notin ChangesNeeded(q, os, q[i].obj)
    BY <1>6 DEF Sound
  <2>3. AlreadyInQueue(q, os, d)
    BY <1>8, <2>2 DEF ChangesNeeded
  <2>4. PICK j \in DOMAIN q : Equals(os, d, q[j].obj)
    BY <2>3 DEF AlreadyInQueue
  <2>5. os[d].num # os[q[i].obj].num
    BY <2>1 DEF NoLoops
  <2>6. j # i
    BY <2>4, <2>5 DEF Equals
  <2> QED BY <2>4, <2>6
<1> QED BY <1>1, <1>2, <1>7, <1>8 DEF Carries

-----------------------------------------------------------------------------
StrictInv == \A t \in Thread : Strict(Own(t))

(* The other thread's calls are as strict as they were.                    *)
LEMMA StrictStill ==
  ASSUME NEW m, CacheOk(m), StrictInv, NEW t \in Thread, NEW k, StepOf(t, m, k)
  PROVE  StrictInv'
<1>1. PICK u \in Thread : u = Other(t) /\ Thread = {t, u}
  BY DEF Thread, Other
<1>2. calls'[u] = calls[u] /\ \A o \in 1 .. m : NameOf(objs', o) = NameOf(objs, o)
  BY <1>1 DEF StepOf, Grown
<1>3. m \in Nat /\ calls[u] \in Seq(Frame(m))
  BY <1>1 DEF CacheOk, Stacks
<1>4. \A i \in DOMAIN calls[u] :
        calls[u][i].obj \in 1 .. m /\ calls[u][i].got \subseteq 1 .. m
  <2>1. \A i \in DOMAIN calls[u] : calls[u][i] \in Frame(m)
    BY <1>3
  <2> QED BY <2>1 DEF Frame
<1>5. \A o \in 1 .. m : objs'[o].num = objs[o].num
  BY <1>2 DEF NameOf
<1>6. Strict(Own(t))'
  BY DEF StrictInv, StepOf
<1>7. PICK c \in Seq(Frame(m)) : c = calls[u]
  BY <1>3
<1>8. Strict(Own(u))
  BY DEF StrictInv
<1>9. NoLoops(objs')
  BY <1>6 DEF Strict, Own
<1>10. \A i \in DOMAIN c : Careful(objs', c[i])
  <2>1. \A i \in DOMAIN c : Careful(objs, c[i])
    BY <1>7, <1>8 DEF Strict, Own
  <2> QED BY <1>4, <1>5, <1>7, <2>1 DEF Careful
<1>11. \A i \in 1 .. Len(c) - 1 : c[i].phase = "needs" => objs'[c[i + 1].obj].num \notin c[i].history
  <2> TAKE i \in 1 .. Len(c) - 1
  <2>1. PICK n \in Nat : n = Len(c) /\ DOMAIN c = 1 .. n
    OBVIOUS
  <2>2. i + 1 \in 1 .. n
    BY <2>1
  <2>3. c[i + 1].obj \in 1 .. m
    BY <1>4, <1>7, <2>1, <2>2
  <2>4. c[i].phase = "needs" => objs[c[i + 1].obj].num \notin c[i].history
    BY <1>7, <1>8 DEF Strict, Own
  <2> QED BY <1>5, <2>3, <2>4
<1>12. Own(u)'.objs = objs' /\ Own(u)'.calls = c
  BY <1>2, <1>7 DEF Own
<1>13. Strict(Own(u))'
  <2>1. PICK s : s = Own(u)'
    OBVIOUS
  <2>2. Strict(s)
    BY <1>9, <1>10, <1>11, <1>12, <2>1 DEF Strict
  <2> QED BY <2>1, <2>2
<1> QED BY <1>1, <1>6, <1>13 DEF StrictInv

(* The steps that change what the threads hold.                            *)
LEMMA ThreadSteps ==
  ASSUME Typed, NEW m, CacheOk(m), [Next]_vars
  PROVE  \/ pipeline' = pipeline /\ \E t \in Thread, k \in Nat : StepOf(t, m, k)
         \/ objs' = objs /\ calls' = calls
         \/ Die
<1>1. GerritTyped /\ EventsTyped /\ HandInv
  BY DEF Typed, CacheInv
<1>2. \A t, k : StepOf(t, m, k) => k \in Nat
  BY DEF StepOf
<1>3. CASE TakeEvent
  <2>1. PICK e : e = Head(events)
    OBVIOUS
  <2>2. e \in Event
    BY <1>1, <1>3, <2>1, Taking DEF EventsTyped, TakeEvent
  <2>3. e.key \in Key /\ "connector" \in Thread
    BY <2>2, EventIsSome DEF Thread
  <2>4. answer["connector"] = NoAnswer /\ calls["connector"] = <<>>
    BY <1>1, <1>3 DEF HandInv, HandOk, TakeEvent, Thread
  <2>5. Becomes("connector", GetChange(Own("connector"), e.key, TRUE, {}))
    BY <1>3, <2>1 DEF TakeEvent
  <2>6. \E k : StepOf("connector", m, k)
    BY <2>3, <2>4, <2>5, ThreadAsks
  <2>7. pipeline' = pipeline
    BY <1>3 DEF TakeEvent, loopVars
  <2> QED BY <1>2, <2>3, <2>6, <2>7
<1>4. CASE TakeTrigger
  <2>1. CASE UNCHANGED cacheVars
    BY <2>1 DEF cacheVars
  <2>2. CASE ~UNCHANGED cacheVars
    <3>1. PICK e : e = Head(triggers)
      OBVIOUS
    <3>2. e \in Event
      BY <1>1, <1>4, <3>1, Taking DEF EventsTyped, TakeTrigger
    <3>3. e.key \in Key /\ "scheduler" \in Thread
      BY <3>2, EventIsSome DEF Thread
    <3>4. answer["scheduler"] = NoAnswer /\ calls["scheduler"] = <<>>
      BY <1>1, <1>4 DEF HandInv, HandOk, TakeTrigger, Thread
    <3>5. Becomes("scheduler", GetChange(Own("scheduler"), e.key, FALSE, {}))
      BY <1>4, <2>2, <3>1 DEF TakeTrigger
    <3>6. \E k : StepOf("scheduler", m, k)
      BY <3>3, <3>4, <3>5, ThreadAsks
    <3>7. pipeline' = pipeline
      BY <1>4 DEF TakeTrigger, loopVars
    <3> QED BY <1>2, <3>3, <3>6, <3>7
  <2> QED BY <2>1, <2>2
<1>5. ASSUME NEW t \in Thread, Updating(t) \/ Fails(t)
      PROVE  pipeline' = pipeline /\ \E k \in Nat : StepOf(t, m, k)
  <2>1. \E k : StepOf(t, m, k)
    BY <1>1, <1>5, ThreadUpdates DEF Updating, Fails
  <2>2. pipeline' = pipeline
    BY <1>5 DEF Updating, Fails, loopVars
  <2> QED BY <1>2, <2>1, <2>2
<1>6. CASE Gerrit
  <2>1. PICK type, n : Emits(type, n)
    BY <1>6 DEF Gerrit, Upload, Comment, Close
  <2> QED BY <2>1 DEF Emits, cacheVars
<1>7. CASE \/ Deliver \/ WakeUp \/ BuildCompleted \/ MergeCompleted \/ EndResults \/ HandleTrigger
           \/ EndEvents \/ Process \/ Pause \/ Reconfigure \/ Start \/ Resume \/ Exit \/ UNCHANGED vars
  BY <1>7 DEF Deliver, WakeUp, BuildCompleted, MergeCompleted, EndResults, HandleTrigger,
              EndEvents, Process, Pause, Reconfigure, Start, Resume, Exit, vars, cacheVars
<1> QED BY <1>3, <1>4, <1>5, <1>6, <1>7 DEF Next, Connector, Scheduler, Main, Thread

(* No change needs one of its own number, whatever the two threads do.     *)
LEMMA StrictStep ==
  ASSUME Typed, StrictInv, [Next]_vars
  PROVE  StrictInv'
<1>0. PICK m : CacheOk(m)
  BY DEF Typed, CacheInv
<1>1. CASE \E t \in Thread, k \in Nat : StepOf(t, m, k)
  BY <1>0, <1>1, StrictStill
<1>2. CASE objs' = objs /\ calls' = calls
  BY <1>2 DEF StrictInv, Strict, Own
<1>3. CASE Die
  <2>1. ASSUME NEW t \in Thread PROVE Strict(Own(t))'
    <3>1. Own(t)'.objs = <<>> /\ Own(t)'.calls = <<>>
      BY <1>3 DEF Die, Own
    <3>2. PICK s : s = Own(t)'
      OBVIOUS
    <3>3. Strict(s)
      BY <3>1, <3>2 DEF Strict, NoLoops
    <3> QED BY <3>2, <3>3
  <2> QED BY <2>1 DEF StrictInv
<1> QED BY <1>0, <1>1, <1>2, <1>3, ThreadSteps

-----------------------------------------------------------------------------
(* The pipeline: queues of items, of which only the last is live.          *)
PipeInv == pipeline \in Seq(Queues(DOMAIN objs))

(* Items over some Change objects are items over more of them.             *)
LEMMA MoreItems ==
  ASSUME NEW D, NEW E, D \subseteq E
  PROVE  Seq(Queues(D)) \subseteq Seq(Queues(E))
<1>1. ItemsOf(D) \subseteq ItemsOf(E)
  BY DEF ItemsOf
<1>2. Queues(D) \subseteq Queues(E)
  BY <1>1 DEF Queues
<1> QED BY <1>2

(* An item of the pipeline comes to another stage.                         *)
LEMMA PipeStaged ==
  ASSUME PipeInv, NEW k \in AllItems(pipeline), NEW stage \in Stage,
         pipeline' = [pipeline EXCEPT ![k[1]][k[2]].stage = stage]
  PROVE  pipeline' \in Seq(Queues(DOMAIN objs))
<1>1. PICK p \in Seq(Queues(DOMAIN objs)) : p = pipeline
  BY DEF PipeInv
<1>2. PICK a \in DOMAIN p : \E i \in DOMAIN p[a] : k = <<a, i>>
  BY <1>1 DEF AllItems
<1>3. PICK i \in DOMAIN p[a] : k = <<a, i>>
  BY <1>2
<1>4. PICK r : r = [p[a] EXCEPT ![i].stage = stage]
  OBVIOUS
<1>5. p[a] \in Queues(DOMAIN objs)
  BY <1>2
<1>6. r \in Queues(DOMAIN objs)
  BY <1>3, <1>4, <1>5, ItemStaged
<1>7. PICK c : c = [p EXCEPT ![a] = r]
  OBVIOUS
<1>8. pipeline' = c
  BY <1>1, <1>3, <1>4, <1>7
<1>9. c \in Seq(Queues(DOMAIN objs))
  <2>1. PICK S : S = Queues(DOMAIN objs)
    OBVIOUS
  <2>2. p \in Seq(S) /\ r \in S /\ a \in 1 .. Len(p)
    BY <1>2, <1>6, <2>1
  <2>3. c \in Seq(S)
    BY <1>7, <2>2
  <2> QED BY <2>1, <2>3
<1> QED BY <1>8, <1>9

(* addChange.                                                              *)
LEMMA PipeAdded ==
  ASSUME NEW m \in Nat, NEW os \in Objects(m), NEW p \in Seq(Queues(DOMAIN os)), NEW o \in 1 .. m
  PROVE  AddChange(p, os, o) \in Seq(Queues(DOMAIN os))
<1>1. PICK a : a = Added(p, os, o)
  OBVIOUS
<1>2. a \in Outcome(os) /\ LastLive(a.queue)
  BY <1>1, AddedIsTyped DEF Ends, LastLive
<1>3. a.queue \in Queues(DOMAIN os)
  BY <1>2 DEF Outcome, Queues, ItemsOf
<1>4. AddChange(p, os, o) = p \/ AddChange(p, os, o) = Append(p, a.queue)
  BY <1>1 DEF AddChange
<1> QED BY <1>3, <1>4

(* An event is handled.                                                    *)
LEMMA PipeHandled ==
  ASSUME NEW m, CacheOk(m), PipeInv, HandleTrigger
  PROVE  pipeline' \in Seq(Queues(DOMAIN objs))
<1>1. PICK o : o = answer["scheduler"]
  OBVIOUS
<1>2. m \in Nat /\ objs \in Objects(m) /\ o \in Answers(m) /\ o # NoAnswer
  BY <1>1 DEF CacheOk, Thread, HandleTrigger
<1>6. PICK e : e = hand["scheduler"]
  OBVIOUS
<1>7. PICK p : p = CASE o = Raised -> pipeline
                     [] e.type = "patchset-created" -> RemoveOldVersions(pipeline, objs, o)
                     [] e.type = "change-abandoned" -> RemoveAbandoned(pipeline, objs, o)
                     [] OTHER -> pipeline
  OBVIOUS
<1>3. /\ \/ p = pipeline
         \/ p = RemoveOldVersions(pipeline, objs, o)
         \/ p = RemoveAbandoned(pipeline, objs, o)
      /\ pipeline' = p \/ (o # Raised /\ pipeline' = AddChange(p, objs, o))
  <2>1. \/ p = pipeline
        \/ p = RemoveOldVersions(pipeline, objs, o)
        \/ p = RemoveAbandoned(pipeline, objs, o)
    BY <1>7
  <2>2. pipeline' = p \/ (o # Raised /\ pipeline' = AddChange(p, objs, o))
    BY <1>1, <1>6, <1>7 DEF HandleTrigger
  <2> QED BY <2>1, <2>2
<1>4. p \in Seq(Queues(DOMAIN objs))
  BY <1>3, OldRemoved DEF PipeInv
<1>5. o # Raised => o \in 1 .. m
  BY <1>2 DEF Answers
<1> QED BY <1>2, <1>3, <1>4, <1>5, PipeAdded

(* Every step keeps it.                                                    *)
LEMMA PipeStep ==
  ASSUME Typed, PipeInv, [Next]_vars
  PROVE  PipeInv'
<1>0. PICK m : CacheOk(m)
  BY DEF Typed, CacheInv
<1>1. m \in Nat /\ objs \in Objects(m) /\ DOMAIN objs = 1 .. m
  BY <1>0 DEF CacheOk, Objects
<1>2. ASSUME pipeline' \in Seq(Queues(DOMAIN objs)), objs' = objs PROVE PipeInv'
  BY <1>2 DEF PipeInv
<1>3. ASSUME pipeline' = pipeline, NEW t \in Thread, NEW k \in Nat, StepOf(t, m, k) PROVE PipeInv'
  <2>1. DOMAIN objs' = 1 .. k /\ m <= k
    BY <1>3 DEF StepOf, CacheOk, Objects
  <2>2. DOMAIN objs \subseteq DOMAIN objs'
    BY <1>1, <2>1
  <2> QED BY <1>3, <2>2, MoreItems DEF PipeInv
<1>4. CASE Die
  BY <1>4 DEF Die, PipeInv
<1>5. CASE objs' = objs
  <2>1. CASE BuildCompleted
    <3>1. PICK k \in ItemsAt(pipeline, "running") :
            pipeline' = [pipeline EXCEPT ![k[1]][k[2]].stage = "done"]
      BY <2>1 DEF BuildCompleted
    <3>2. k \in AllItems(pipeline) /\ "done" \in Stage
      BY DEF ItemsAt, Stage
    <3> QED BY <1>2, <1>5, <3>1, <3>2, PipeStaged
  <2>2. CASE MergeCompleted
    <3>1. CASE UNCHANGED pipeline
      BY <1>2, <1>5, <3>1 DEF PipeInv
    <3>2. CASE ~UNCHANGED pipeline
      <4>1. PICK k \in ItemsAt(pipeline, "merging") : \E stage \in {"merged", "done"} :
              pipeline' = [pipeline EXCEPT ![k[1]][k[2]].stage = stage]
        BY <2>2, <3>2 DEF MergeCompleted
      <4>2. PICK stage \in {"merged", "done"} :
              pipeline' = [pipeline EXCEPT ![k[1]][k[2]].stage = stage]
        BY <4>1
      <4>3. k \in AllItems(pipeline) /\ stage \in Stage
        BY DEF ItemsAt, Stage
      <4> QED BY <1>2, <1>5, <4>2, <4>3, PipeStaged
    <3> QED BY <3>1, <3>2
  <2>3. CASE HandleTrigger
    BY <1>0, <1>2, <1>5, <2>3, PipeHandled
  <2>4. CASE Process
    <3>1. PICK p \in Seq(Queues(DOMAIN objs)) : p = pipeline
      BY DEF PipeInv
    <3>2. KeptOk(ProcessQueue(p, objs).pipeline, Len(p), p, objs)
      BY ProcessIsOk
    <3>3. pipeline' = ProcessQueue(p, objs).pipeline
      BY <2>4, <3>1 DEF Process
    <3> QED BY <1>2, <1>5, <3>2, <3>3 DEF KeptOk
  <2>5. CASE pipeline' = pipeline
    BY <1>2, <1>5, <2>5 DEF PipeInv
  <2>6. CASE Gerrit
    <3>1. PICK type, n : Emits(type, n)
      BY <2>6 DEF Gerrit, Upload, Comment, Close
    <3> QED BY <2>5, <3>1 DEF Emits, loopVars
  <2>7. CASE \E t \in Thread : Updating(t) \/ Fails(t)
    BY <2>5, <2>7 DEF Updating, Fails, loopVars
  <2>8. CASE \/ TakeEvent \/ Deliver \/ WakeUp \/ EndResults \/ TakeTrigger \/ EndEvents \/ Pause
             \/ Reconfigure \/ Start \/ Resume \/ Exit \/ UNCHANGED vars
    BY <2>5, <2>8 DEF TakeEvent, Deliver, WakeUp, EndResults, TakeTrigger, EndEvents, Pause,
                      Reconfigure, Start, Resume, Exit, vars, loopVars
  <2> QED BY <1>4, <2>1, <2>2, <2>3, <2>4, <2>6, <2>7, <2>8
          DEF Next, Connector, Scheduler, Main, Thread
<1> QED BY <1>0, <1>3, <1>4, <1>5, ThreadSteps

-----------------------------------------------------------------------------
(* Nobody changes an object while Zuul sleeps with nothing in its hands.   *)
Asleep == pc = "asleep" /\ ~wake /\ hand["connector"] = NoEvent /\ "refresh" \notin upsets
QuietInv == Asleep => \A k \in DOMAIN pipeline : Carries(pipeline[k], objs)

(* Every step keeps it.                                                   *)
LEMMA QuietStep ==
  ASSUME Typed, StrictInv, PipeInv, QuietInv, [Next]_vars
  PROVE  QuietInv'
<1>0. SUFFICES ASSUME Asleep' PROVE \A k \in DOMAIN pipeline' : Carries(pipeline'[k], objs')
  BY DEF QuietInv
<1>1. HandInv /\ LoopInv /\ hand = [t \in Thread |-> hand[t]]
  BY DEF Typed, LoopInv
<1>2. NoLoops(objs)
  BY DEF StrictInv, Strict, Own, Thread
<1>3. CASE Process
  <2>1. PICK p \in Seq(Queues(DOMAIN objs)) : p = pipeline
    BY DEF PipeInv
  <2>2. ProcessQueue(p, objs).pipeline = p /\ pipeline' = p /\ objs' = objs
    BY <1>0, <1>3, <2>1 DEF Process, Asleep, cacheVars
  <2> QED BY <1>2, <2>2, ProcessedCarries
<1>4. ASSUME Asleep, pipeline' = pipeline, objs' = objs
      PROVE  \A k \in DOMAIN pipeline' : Carries(pipeline'[k], objs')
  BY <1>4 DEF QuietInv
<1>5. ASSUME NEW t \in Thread, Updating(t) \/ Fails(t) PROVE FALSE
  <2>1. calls[t] # <<>> /\ UNCHANGED <<hand, pc>>
    BY <1>5 DEF Updating, Fails, Update, QueryFails, Query, Depends, GetNeeded, Dependents,
                GetDependent, Updated, Calling, loopVars
  <2>2. hand[t] # NoEvent
    BY <1>1, <2>1 DEF HandInv, HandOk
  <2> QED BY <1>0, <1>1, <2>1, <2>2 DEF Asleep, LoopInv, Thread
<1>6. CASE TakeEvent
  <2>1. Head(events) \in Event /\ hand'["connector"] = Head(events)
    BY <1>1, <1>6, Taking DEF TakeEvent, Typed, EventsTyped, Thread
  <2> QED BY <1>0, <2>1, EventIsSome DEF Asleep
<1>7. CASE Gerrit
  <2>1. PICK type, n : Emits(type, n)
    BY <1>7 DEF Gerrit, Upload, Comment, Close
  <2> QED BY <1>0, <1>4, <2>1 DEF Emits, loopVars, cacheVars, history, Asleep
<1>8. CASE Deliver
  BY <1>0, <1>8 DEF Deliver, Asleep, AfterAddEvent
<1>9. CASE HandleTrigger
  BY <1>0, <1>9 DEF HandleTrigger, Asleep
<1>10. CASE WakeUp \/ BuildCompleted \/ MergeCompleted \/ EndResults \/ TakeTrigger \/ EndEvents
            \/ Pause \/ Die \/ Start \/ Resume \/ Exit \/ Reconfigure
  BY <1>0, <1>10 DEF WakeUp, BuildCompleted, MergeCompleted, EndResults, TakeTrigger, EndEvents,
                     Pause, Die, Start, Resume, Exit, Reconfigure, loopVars, Asleep
<1>11. CASE UNCHANGED vars
  BY <1>0, <1>4, <1>11 DEF vars, loopVars, cacheVars, history, Asleep
<1> QED BY <1>3, <1>5, <1>6, <1>7, <1>8, <1>9, <1>10, <1>11 DEF Next, Connector, Scheduler, Main, Thread

(* Whenever Zuul sleeps, every queue ends in its one live item, and all in *)
(* it have what they need in the queue (enqueueChangesAhead,               *)
(* _processOneItem).                                                       *)
THEOREM NeedsAreCarried ==
  Spec => []QueuesCarryNeeds
<1> DEFINE IInv == Typed /\ StrictInv /\ PipeInv /\ QuietInv
<1>1. Init => IInv
  <2> SUFFICES ASSUME Init PROVE IInv
    OBVIOUS
  <2>1. objs = <<>> /\ pipeline = <<>> /\ calls = [t \in Thread |-> <<>>]
    BY DEF Init, CacheInit
  <2>2. StrictInv
    BY <2>1 DEF StrictInv, Strict, Own, NoLoops
  <2>3. PipeInv /\ QuietInv
    BY <2>1 DEF PipeInv, QuietInv
  <2> QED BY <2>2, <2>3, TypedAtFirst
<1>2. IInv /\ [Next]_vars => IInv'
  BY TypedStep, StrictStep, PipeStep, QuietStep
<1>3. IInv => QueuesCarryNeeds
  <2> SUFFICES ASSUME QuietInv, PipeInv, Asleep, NEW k \in AllItems(pipeline)
               PROVE  LET q == pipeline[k[1]]
                      IN /\ q[k[2]].live <=> k[2] = Len(q)
                         /\ \A d \in objs[q[k[2]].obj].needs :
                              objs[d].merged \/ \E i \in DOMAIN q \ {k[2]} : Equals(objs, d, q[i].obj)
    BY DEF QueuesCarryNeeds, Asleep
  <2>1. PICK a \in DOMAIN pipeline : \E i \in DOMAIN pipeline[a] : k = <<a, i>>
    BY DEF AllItems
  <2>2. PICK i \in DOMAIN pipeline[a] : k = <<a, i>>
    BY <2>1
  <2>3. Carries(pipeline[a], objs)
    BY DEF QuietInv
  <2> QED BY <2>2, <2>3 DEF Carries
<1> QED BY <1>1, <1>2, <1>3, PTL DEF Spec

-----------------------------------------------------------------------------
(* The line of events from Gerrit on their way to the pipelines: the one   *)
(* the scheduler handles, those in the file and in the scheduler's queue,  *)
(* the one the connector works on, those in its queue.                     *)
Before(S, T) == \A e \in S, f \in T : e.id # 0 /\ f.id # 0 => e.id < f.id
Rising(s) == \A i, j \in DOMAIN s : i < j /\ s[i].id # 0 /\ s[j].id # 0 => s[i].id < s[j].id
Handled == {hand["scheduler"]}
Refreshing == {hand["connector"]}
Waiting == Handled \cup ToSet(file) \cup ToSet(triggers) \cup Refreshing \cup ToSet(events)
Due == {e \in Waiting : e.id # 0}

InLine ==
  /\ Rising(file) /\ Rising(triggers) /\ Rising(events)
  /\ Before(Handled, ToSet(file)) /\ Before(Handled, ToSet(triggers))
  /\ Before(Handled, Refreshing) /\ Before(Handled, ToSet(events))
  /\ Before(ToSet(file), Refreshing) /\ Before(ToSet(file), ToSet(events))
  /\ Before(ToSet(triggers), Refreshing) /\ Before(ToSet(triggers), ToSet(events))
  /\ Before(Refreshing, ToSet(events))
  /\ \A e \in Due : e.id <= sent

(* Nothing is lost but by a failed refresh, a restart or a late event of   *)
(* the zuul trigger.                                                       *)
Undisturbed == upsets \cap {"refresh", "restart", "stale"} = {}
AtWork ==
  /\ pc = "down" \/ boot # "resumed" => "restart" \in upsets
  /\ Undisturbed => InLine

(* What becomes of the events that are due.                                *)
Sent(e) ==
  /\ e \in Event /\ e.id = sent + 1 /\ sent' = sent + 1 /\ Due' = Due \cup {e}
  /\ e.key = <<e.key[1], gerrit'.latest[e.key[1]]>>
  /\ \/ gerrit'.latest = gerrit.latest
     \/ /\ e.type = "patchset-created"
        /\ gerrit'.latest = [gerrit.latest EXCEPT ![e.key[1]] = @ + 1]
Settled == Due' = Due \ {hand["scheduler"]}
DueStep ==
  \/ Due' = Due /\ gerrit'.latest = gerrit.latest
  \/ (\E e : Sent(e)) /\ pipeline' = pipeline /\ objs' = objs
  \/ HandleTrigger /\ Settled

(* A list that is taken from, and one that is added to.                    *)
LEMMA RisingTaken ==
  ASSUME NEW s \in Seq(Event), s # <<>>, Rising(s)
  PROVE  /\ Head(s) \in Event /\ ToSet(s) = {Head(s)} \cup ToSet(Tail(s))
         /\ Rising(Tail(s)) /\ Before({Head(s)}, ToSet(Tail(s)))
<1>1. PICK n \in Nat : n = Len(s) /\ DOMAIN s = 1 .. n
  OBVIOUS
<1>2. PICK t : t = Tail(s)
  OBVIOUS
<1>3. PICK h \in Event : h = Head(s) /\ h = s[1]
  OBVIOUS
<1>4. /\ n # 0 /\ t \in Seq(Event) /\ Len(t) = n - 1 /\ DOMAIN t = 1 .. n - 1
      /\ \A j \in 1 .. n - 1 : t[j] = s[j + 1]
  BY <1>1, <1>2
<1>5. ToSet(s) = {h} \cup ToSet(t)
  <2>1. \A i \in 1 .. n : i = 1 \/ (i - 1 \in 1 .. n - 1 /\ (i - 1) + 1 = i)
    OBVIOUS
  <2>2. \A j \in 1 .. n - 1 : j + 1 \in 1 .. n
    OBVIOUS
  <2>3. 1 \in 1 .. n
    BY <1>4
  <2>4. ASSUME NEW e \in ToSet(s) PROVE e \in {h} \cup ToSet(t)
    <3>1. PICK i \in 1 .. n : e = s[i]
      BY <1>1 DEF ToSet
    <3>2. CASE i = 1
      BY <1>3, <3>1, <3>2
    <3>3. CASE i # 1
      <4>1. PICK j \in 1 .. n - 1 : j + 1 = i
        BY <2>1, <3>3
      <4> QED BY <1>4, <3>1, <4>1 DEF ToSet
    <3> QED BY <3>2, <3>3
  <2>5. h \in ToSet(s)
    BY <1>1, <1>3, <2>3 DEF ToSet
  <2>6. ToSet(t) \subseteq ToSet(s)
    BY <1>1, <1>4, <2>2 DEF ToSet
  <2> QED BY <2>4, <2>5, <2>6
<1>6. Rising(t)
  <2> SUFFICES ASSUME NEW i \in 1 .. n - 1, NEW j \in 1 .. n - 1, i < j, t[i].id # 0, t[j].id # 0
               PROVE  t[i].id < t[j].id
    BY <1>4 DEF Rising
  <2>1. i + 1 \in 1 .. n /\ j + 1 \in 1 .. n /\ i + 1 < j + 1
    BY <1>1
  <2>2. t[i] = s[i + 1] /\ t[j] = s[j + 1]
    BY <1>4
  <2> QED BY <1>1, <2>1, <2>2 DEF Rising
<1>7. Before({h}, ToSet(t))
  <2> SUFFICES ASSUME NEW j \in 1 .. n - 1, h.id # 0, t[j].id # 0 PROVE h.id < t[j].id
    BY <1>4 DEF Before, ToSet
  <2>1. 1 \in 1 .. n /\ j + 1 \in 1 .. n /\ 1 < j + 1
    BY <1>1, <1>4
  <2>2. h = s[1] /\ t[j] = s[j + 1]
    BY <1>3, <1>4
  <2> QED BY <1>1, <2>1, <2>2 DEF Rising
<1> QED BY <1>2, <1>3, <1>5, <1>6, <1>7

(* An event at the end of a list is the youngest.                          *)
LEMMA RisingAdded ==
  ASSUME NEW s \in Seq(Event), NEW e \in Event, Rising(s), Before(ToSet(s), {e})
  PROVE  ToSet(Append(s, e)) = ToSet(s) \cup {e} /\ Rising(Append(s, e))
<1>1. PICK n \in Nat : n = Len(s) /\ DOMAIN s = 1 .. n
  OBVIOUS
<1>2. PICK r : r = Append(s, e)
  OBVIOUS
<1>3. /\ r \in Seq(Event) /\ DOMAIN r = 1 .. n + 1 /\ r[n + 1] = e
      /\ \A j \in 1 .. n : r[j] = s[j]
  BY <1>1, <1>2
<1>4. \A j \in 1 .. n + 1 : j = n + 1 \/ j \in 1 .. n
  OBVIOUS
<1>5. \A j \in 1 .. n : j \in 1 .. n + 1
  OBVIOUS
<1>6. n + 1 \in 1 .. n + 1
  OBVIOUS
<1>7. ToSet(r) = ToSet(s) \cup {e}
  BY <1>1, <1>3, <1>4, <1>5, <1>6 DEF ToSet
<1>8. ASSUME NEW i \in 1 .. n + 1, NEW j \in 1 .. n + 1, i < j, r[i].id # 0, r[j].id # 0
      PROVE  r[i].id < r[j].id
  <2>1. i \in 1 .. n
    BY <1>8
  <2>2. CASE j = n + 1
    <3>1. s[i] \in ToSet(s) /\ r[i] = s[i] /\ r[j] = e
      BY <1>1, <1>3, <2>1, <2>2 DEF ToSet
    <3> QED BY <1>8, <3>1 DEF Before
  <2>3. CASE j \in 1 .. n
    BY <1>1, <1>3, <1>8, <2>1, <2>3 DEF Rising
  <2> QED BY <1>4, <2>2, <2>3
<1>9. Rising(r)
  BY <1>3, <1>8 DEF Rising
<1> QED BY <1>2, <1>7, <1>9

(* Events that Gerrit did not send may follow anywhere.                    *)
LEMMA RisingJoined ==
  ASSUME NEW s \in Seq(Event), NEW t \in Seq(Event), Rising(s), \A e \in ToSet(t) : e.id = 0
  PROVE  ToSet(s \o t) = ToSet(s) \cup ToSet(t) /\ Rising(s \o t)
<1>1. PICK n \in Nat : n = Len(s) /\ DOMAIN s = 1 .. n
  OBVIOUS
<1>2. PICK l \in Nat : l = Len(t) /\ DOMAIN t = 1 .. l
  OBVIOUS
<1>3. PICK r : r = s \o t
  OBVIOUS
<1>4. /\ DOMAIN r = 1 .. n + l
      /\ \A j \in 1 .. n : r[j] = s[j]
      /\ \A j \in 1 .. l : r[n + j] = t[j]
  BY <1>1, <1>2, <1>3
<1>5. ASSUME NEW j \in 1 .. n + l
      PROVE  j \in 1 .. n \/ \E i \in 1 .. l : j = n + i
  <2>1. j \notin 1 .. n => j - n \in 1 .. l /\ j = n + (j - n)
    OBVIOUS
  <2> QED BY <2>1
<1>6. /\ \A j \in 1 .. n : j \in 1 .. n + l
      /\ \A i \in 1 .. l : n + i \in 1 .. n + l
  OBVIOUS
<1>7. ToSet(r) = ToSet(s) \cup ToSet(t)
  <2>1. ASSUME NEW e \in ToSet(r) PROVE e \in ToSet(s) \cup ToSet(t)
    <3>1. PICK j \in 1 .. n + l : e = r[j]
      BY <1>4 DEF ToSet
    <3>2. CASE j \in 1 .. n
      BY <1>1, <1>4, <3>1, <3>2 DEF ToSet
    <3>3. CASE \E i \in 1 .. l : j = n + i
      <4>1. PICK i \in 1 .. l : j = n + i
        BY <3>3
      <4> QED BY <1>2, <1>4, <3>1, <4>1 DEF ToSet
    <3> QED BY <1>5, <3>2, <3>3
  <2>2. ToSet(s) \subseteq ToSet(r)
    BY <1>1, <1>4, <1>6 DEF ToSet
  <2>3. ToSet(t) \subseteq ToSet(r)
    BY <1>2, <1>4, <1>6 DEF ToSet
  <2> QED BY <2>1, <2>2, <2>3
<1>8. ASSUME NEW j \in 1 .. n + l, r[j].id # 0 PROVE j \in 1 .. n
  <2> SUFFICES ASSUME NEW i \in 1 .. l, j = n + i PROVE FALSE
    BY <1>5
  <2>1. t[i] \in ToSet(t) /\ r[j] = t[i]
    BY <1>2, <1>4 DEF ToSet
  <2> QED BY <1>8, <2>1
<1>9. Rising(r)
  BY <1>1, <1>4, <1>8 DEF Rising
<1> QED BY <1>3, <1>7, <1>9

(* Nothing that went wrong is forgotten.                                   *)
LEMMA UpsetsGrow ==
  ASSUME Typed, [Next]_vars
  PROVE  upsets \subseteq upsets'
<1>1. CASE Gerrit
  <2>1. PICK type, n : Emits(type, n)
    BY <1>1 DEF Gerrit, Upload, Comment, Close
  <2> QED BY <2>1 DEF Emits, history
<1>2. CASE Connector \/ Exit \/ \E t \in Thread : Fails(t)
  BY <1>2 DEF Connector, TakeEvent, Deliver, Updating, Exit, Fails, Upset, history
<1>3. CASE Scheduler
  <2>1. HandleTrigger => upsets \subseteq upsets'
    BY Handling
  <2> QED BY <1>3, <2>1 DEF Scheduler, WakeUp, BuildCompleted, MergeCompleted, EndResults, TakeTrigger,
                            EndEvents, Process, Pause, Updating, history
<1>4. CASE Main \/ UNCHANGED vars
  BY <1>4 DEF Main, Reconfigure, Upset, Die, Start, Resume, vars, history
<1> QED BY <1>1, <1>2, <1>3, <1>4 DEF Next

(* Gerrit sends an event: it is the last in the line.                      *)
LEMMA EventSent ==
  ASSUME Typed, InLine, pc # "down", Gerrit
  PROVE  InLine' /\ \E e : Sent(e) /\ pipeline' = pipeline /\ objs' = objs
<1>0. /\ events \in Seq(Event) /\ sent \in Nat /\ GerritTyped
  BY DEF Typed, CacheInv, EventsTyped
<1>1. PICK n \in Number, type \in EventType :
        /\ Emits(type, n)
        /\ \/ gerrit'.latest = gerrit.latest
           \/ /\ type = "patchset-created"
              /\ gerrit'.latest = [gerrit.latest EXCEPT ![n] = @ + 1]
  <2>1. PICK n \in Number : Upload(n) \/ Comment(n) \/ Close(n)
    BY DEF Gerrit
  <2>2. CASE Upload(n)
    <3>1. PICK deps : gerrit' = [gerrit EXCEPT !.latest[n] = @ + 1, !.needs[n] = deps]
      BY <2>2 DEF Upload
    <3>2. gerrit'.latest = [gerrit.latest EXCEPT ![n] = @ + 1]
      BY <1>0, <3>1 DEF GerritTyped
    <3> QED BY <2>2, <3>2 DEF Upload, EventType
  <2>3. CASE Comment(n)
    BY <2>3 DEF Comment, EventType
  <2>4. CASE Close(n)
    <3>1. PICK how \in {"merged", "abandoned"} :
            /\ gerrit' = [gerrit EXCEPT !.status[n] = how]
            /\ Emits(IF how = "merged" THEN "change-merged" ELSE "change-abandoned", n)
      BY <2>4 DEF Close
    <3>2. gerrit'.latest = gerrit.latest
      BY <1>0, <3>1 DEF GerritTyped
    <3>3. PICK type \in EventType : type = (IF how = "merged" THEN "change-merged" ELSE "change-abandoned")
      BY DEF EventType
    <3> QED BY <3>1, <3>2, <3>3
  <2> QED BY <2>1, <2>2, <2>3, <2>4
<1>2. PICK e : e = [type |-> type, key |-> <<n, gerrit'.latest[n]>>, id |-> sent + 1]
  OBVIOUS
<1>3. gerrit'.latest[n] \in Nat
  <2>1. gerrit.latest \in [Number -> Nat]
    BY <1>0 DEF GerritTyped
  <2> QED BY <1>1, <2>1
<1>4. e \in Event /\ e.id = sent + 1 /\ e.type = type /\ e.key = <<n, gerrit'.latest[n]>> /\ e.key[1] = n
  BY <1>0, <1>2, <1>3 DEF Event, Key
<1>5. /\ events' = Append(events, e) /\ sent' = sent + 1
      /\ UNCHANGED <<objs, hand, triggers, file, pipeline>>
  BY <1>1, <1>2 DEF Emits, Up, cacheVars, loopVars, exitVars
<1>6. \A f \in Due : f.id <= sent /\ f.id \in Nat
  <2>1. \A f \in Waiting : f \in Event \cup {NoEvent}
    BY DEF Waiting, Handled, Refreshing, ToSet, Typed, EventsTyped, Thread
  <2> QED BY <2>1 DEF InLine, Due, Event, NoEvent
<1>7. Before(ToSet(events), {e})
  <2>1. \A f \in ToSet(events) : f.id # 0 => f \in Due
    BY DEF Due, Waiting
  <2> QED BY <1>0, <1>4, <1>6, <2>1 DEF Before
<1>8. ToSet(events') = ToSet(events) \cup {e} /\ Rising(events')
  BY <1>0, <1>4, <1>5, <1>7, RisingAdded DEF InLine
<1>9. Due' = Due \cup {e}
  BY <1>0, <1>4, <1>5, <1>8 DEF Due, Waiting, Handled, Refreshing
<1>10. \A S : (\A f \in S : f.id # 0 => f \in Due) => Before(S, {e})
  BY <1>0, <1>4, <1>6 DEF Before
<1>11. /\ Before(Handled, {e}) /\ Before(ToSet(file), {e}) /\ Before(ToSet(triggers), {e})
       /\ Before(Refreshing, {e})
  BY <1>10 DEF Due, Waiting
<1>12. \A S : Before(S, ToSet(events)) /\ Before(S, {e}) => Before(S, ToSet(events) \cup {e})
  BY DEF Before
<1>13. Handled' = Handled /\ Refreshing' = Refreshing
  BY <1>5 DEF Handled, Refreshing
<1>14. \A f \in Due' : f.id <= sent'
  BY <1>0, <1>4, <1>5, <1>6, <1>9
<1>15. InLine'
  BY <1>5, <1>8, <1>11, <1>12, <1>13, <1>14 DEF InLine
<1>16. Sent(e)
  BY <1>1, <1>4, <1>5, <1>9 DEF Sent
<1> QED BY <1>5, <1>15, <1>16

(* The connector takes an event, ...                                       *)
LEMMA EventTaken ==
  ASSUME Typed, InLine, TakeEvent
  PROVE  InLine' /\ Due' = Due
<1>1. /\ events \in Seq(Event) /\ events # <<>> /\ hand["connector"] = NoEvent
      /\ hand' = [hand EXCEPT !["connector"] = Head(events)] /\ events' = Tail(events)
      /\ UNCHANGED <<file, triggers, sent>> /\ hand \in [Thread -> Event \cup {NoEvent}]
  BY DEF TakeEvent, Typed, EventsTyped, exitVars
<1>2. PICK h : h = Head(events)
  OBVIOUS
<1>3. /\ h \in Event /\ ToSet(events) = {h} \cup ToSet(events')
      /\ Rising(events') /\ Before({h}, ToSet(events'))
  BY <1>1, <1>2, RisingTaken DEF InLine
<1>4. Refreshing' = {h} /\ Handled' = Handled /\ Refreshing = {NoEvent}
  BY <1>1, <1>2 DEF Refreshing, Handled, Thread
<1>5. Due' = Due
  BY <1>1, <1>3, <1>4 DEF Due, Waiting, NoEvent
<1>6. \A S : Before(S, ToSet(events)) => Before(S, {h}) /\ Before(S, ToSet(events'))
  BY <1>3 DEF Before
<1>7. InLine'
  BY <1>1, <1>3, <1>4, <1>5, <1>6 DEF InLine
<1> QED BY <1>5, <1>7

(* ... and hands it on.                                                    *)
LEMMA EventDelivered ==
  ASSUME Typed, InLine, Deliver, Undisturbed'
  PROVE  InLine' /\ Due' = Due
<1>1. /\ triggers \in Seq(Event) /\ hand["connector"] \in Event
      /\ hand' = [hand EXCEPT !["connector"] = NoEvent]
      /\ triggers' = Append(triggers, hand["connector"])
      /\ UNCHANGED <<file, events, sent>> /\ hand \in [Thread -> Event \cup {NoEvent}]
  BY DEF Deliver, Refreshed, Typed, EventsTyped, exitVars, Undisturbed, Thread
<1>2. PICK h \in Event : h = hand["connector"]
  BY <1>1
<1>3. Refreshing = {h} /\ Handled' = Handled /\ Refreshing' = {NoEvent}
  BY <1>1, <1>2 DEF Refreshing, Handled, Thread
<1>4. ToSet(triggers') = ToSet(triggers) \cup {h} /\ Rising(triggers')
  BY <1>1, <1>2, <1>3, RisingAdded DEF InLine
<1>5. Due' = Due
  BY <1>1, <1>3, <1>4 DEF Due, Waiting, NoEvent
<1>6. /\ \A S : Before(S, ToSet(triggers)) /\ Before(S, {h}) => Before(S, ToSet(triggers'))
      /\ \A S : Before(ToSet(triggers), S) /\ Before({h}, S) => Before(ToSet(triggers'), S)
      /\ \A S : Before(S, {NoEvent}) /\ Before({NoEvent}, S)
  BY <1>4 DEF Before, NoEvent
<1>7. InLine'
  BY <1>1, <1>3, <1>4, <1>5, <1>6 DEF InLine
<1> QED BY <1>5, <1>7

(* The scheduler takes an event, ...                                       *)
LEMMA TriggerTaken ==
  ASSUME Typed, CountInv, InLine, TakeTrigger, boot = "resumed"
  PROVE  InLine' /\ Due' = Due
<1>1. /\ triggers \in Seq(Event) /\ triggers # <<>> /\ hand["scheduler"] = NoEvent
      /\ hand' = [hand EXCEPT !["scheduler"] = Head(triggers)] /\ triggers' = Tail(triggers)
      /\ UNCHANGED <<file, events, sent>> /\ hand \in [Thread -> Event \cup {NoEvent}]
      /\ file = <<>>
  BY DEF TakeTrigger, Typed, EventsTyped, exitVars, CountInv
<1>2. PICK h : h = Head(triggers)
  OBVIOUS
<1>3. /\ h \in Event /\ ToSet(triggers) = {h} \cup ToSet(triggers')
      /\ Rising(triggers') /\ Before({h}, ToSet(triggers'))
  BY <1>1, <1>2, RisingTaken DEF InLine
<1>4. Handled' = {h} /\ Refreshing' = Refreshing /\ Handled = {NoEvent}
  BY <1>1, <1>2 DEF Refreshing, Handled, Thread
<1>5. Due' = Due
  BY <1>1, <1>3, <1>4 DEF Due, Waiting, NoEvent
<1>6. \A S : Before(ToSet(triggers), S) => Before({h}, S) /\ Before(ToSet(triggers'), S)
  BY <1>3 DEF Before
<1>7. ToSet(file) = {} /\ ToSet(file') = {}
  BY <1>1 DEF ToSet
<1>8. \A S : Before(S, {}) /\ Before({}, S)
  BY DEF Before
<1>9. InLine'
  BY <1>1, <1>3, <1>4, <1>5, <1>6, <1>7, <1>8 DEF InLine
<1> QED BY <1>5, <1>9

(* ... and handles it: the events it adds are its own.                     *)
LEMMA TriggerHandled ==
  ASSUME Typed, InLine, HandleTrigger
  PROVE  InLine' /\ Settled
<1>0. PICK m : CacheOk(m)
  BY DEF Typed, CacheInv
<1>1. /\ triggers \in Seq(Event) /\ events \in Seq(Event) /\ file \in Seq(Event)
      /\ hand' = [hand EXCEPT !["scheduler"] = NoEvent]
      /\ UNCHANGED <<file, events, sent>> /\ hand \in [Thread -> Event \cup {NoEvent}]
  BY Handling DEF Typed, EventsTyped, exitVars
<1>2. PICK h : h = hand["scheduler"]
  OBVIOUS
<1>3. Handled = {h} /\ Refreshing' = Refreshing /\ Handled' = {NoEvent} /\ h \in Event \cup {NoEvent}
  BY <1>1, <1>2 DEF Refreshing, Handled, Thread
<1>4. \E es \in Seq(Event) :
        /\ triggers' = triggers \o es
        /\ \A e \in ToSet(es) : e.id = 0
  <2>1. CASE triggers' = triggers
    <3>1. PICK es : es = <<>>
      OBVIOUS
    <3>2. es \in Seq(Event) /\ triggers \o es = triggers /\ ToSet(es) = {}
      BY <1>1, <3>1 DEF ToSet
    <3> QED BY <2>1, <3>2
  <2>2. ASSUME NEW es \in Seq({ParentEvent(d) : d \in Dependent}), triggers' = triggers \o es
        PROVE  es \in Seq(Event) /\ \A e \in ToSet(es) : e.id = 0
    <3>1. PICK D : D = {ParentEvent(d) : d \in Dependent}
      OBVIOUS
    <3>2. D \subseteq Event
      BY <1>0, <3>1, ParentsAreEvents DEF CacheOk
    <3>3. \A e \in D : e.id = 0
      BY <3>1 DEF ParentEvent
    <3>4. es \in Seq(D)
      BY <2>2, <3>1
    <3> QED BY <3>2, <3>3, <3>4 DEF ToSet
  <2> QED BY <1>0, <2>1, <2>2, ParentsAdded
<1>5. PICK es \in Seq(Event) : triggers' = triggers \o es /\ \A e \in ToSet(es) : e.id = 0
  BY <1>4
<1>6. ToSet(triggers') = ToSet(triggers) \cup ToSet(es) /\ Rising(triggers')
  BY <1>1, <1>5, RisingJoined DEF InLine
<1>7. Due' = Due \ {h}
  <2>1. \A e \in Event : e.id \in Nat
    BY DEF Event
  <2>2. ~(h.id < h.id)
    BY <1>3, <2>1 DEF NoEvent
  <2>3. h.id # 0 => /\ h \notin ToSet(file) /\ h \notin ToSet(triggers) /\ h \notin Refreshing
                    /\ h \notin ToSet(events)
    BY <1>3, <2>2 DEF InLine, Before
  <2>4. h.id = 0 => h \notin Due
    BY DEF Due
  <2> QED BY <1>1, <1>3, <1>5, <1>6, <2>3, <2>4 DEF Due, Waiting, NoEvent
<1>8. /\ \A S : Before(S, ToSet(triggers)) => Before(S, ToSet(triggers'))
      /\ \A S : Before(ToSet(triggers), S) => Before(ToSet(triggers'), S)
      /\ \A S : Before({NoEvent}, S)
  BY <1>5, <1>6 DEF Before, NoEvent
<1>9. InLine'
  BY <1>1, <1>3, <1>6, <1>7, <1>8 DEF InLine
<1> QED BY <1>2, <1>7, <1>9 DEF Settled

(* What waits is saved.                                                    *)
LEMMA TriggersSaved ==
  ASSUME Typed, CountInv, InLine, Pause
  PROVE  InLine' /\ Due' = Due
<1>1. UNCHANGED <<hand, events, sent>>
  BY DEF Pause
<1>2. Refreshing' = Refreshing /\ Handled' = Handled
  BY <1>1 DEF Refreshing, Handled
<1>3. boot = "resumed" /\ file = <<>>
  BY DEF CountInv, Typed, LoopInv, Pause
<1>4. CASE AreAllBuildsComplete
  <2>1. triggers' = <<>> /\ file' = triggers
    BY <1>3, <1>4 DEF Pause
  <2>2. ToSet(file) = {} /\ ToSet(triggers') = {} /\ ToSet(file') = ToSet(triggers)
    BY <1>3, <2>1 DEF ToSet
  <2>3. Due' = Due
    BY <1>1, <1>2, <2>2 DEF Due, Waiting
  <2>4. \A S : Before(S, {}) /\ Before({}, S)
    BY DEF Before
  <2>5. Rising(triggers') /\ Rising(file')
    BY <2>1 DEF InLine, Rising
  <2>6. InLine'
    BY <1>1, <1>2, <2>2, <2>3, <2>4, <2>5 DEF InLine
  <2> QED BY <2>3, <2>6
<1>5. CASE ~AreAllBuildsComplete
  <2>1. UNCHANGED <<file, triggers>>
    BY <1>5 DEF Pause
  <2>2. Due' = Due
    BY <1>1, <1>2, <2>1 DEF Due, Waiting
  <2> QED BY <1>1, <1>2, <2>1, <2>2 DEF InLine
<1> QED BY <1>4, <1>5

(* Every step keeps the line.                                              *)
LEMMA LineStep ==
  ASSUME Typed, CountInv, AtWork, [Next]_vars
  PROVE  AtWork' /\ (Undisturbed' => DueStep)
<1>0. upsets \subseteq upsets'
  BY UpsetsGrow
<1>1. pc' = "down" \/ boot' # "resumed" => "restart" \in upsets'
  <2>1. CASE Die
    BY <2>1 DEF Die
  <2>2. CASE ~Die
    <3>1. (pc' = "down" => pc = "down") /\ (boot' = "resumed" \/ boot' = boot \/ boot # "resumed")
      <4>1. CASE Gerrit
        <5>1. PICK type, n : Emits(type, n)
          BY <4>1 DEF Gerrit, Upload, Comment, Close
        <5> QED BY <5>1 DEF Emits, loopVars, exitVars
      <4>2. CASE Connector \/ Exit \/ \E t \in Thread : Fails(t)
        BY <4>2 DEF Connector, TakeEvent, Deliver, Updating, Exit, Fails, loopVars, exitVars
      <4>3. CASE Scheduler
        BY <4>3 DEF Scheduler, WakeUp, BuildCompleted, MergeCompleted, EndResults, TakeTrigger, HandleTrigger,
                    EndEvents, Process, Pause, Updating, loopVars, exitVars
      <4>4. CASE Main \/ UNCHANGED vars
        BY <2>2, <4>4 DEF Main, Reconfigure, Start, Resume, vars, loopVars, exitVars
      <4> QED BY <4>1, <4>2, <4>3, <4>4 DEF Next
    <3> QED BY <1>0, <3>1 DEF AtWork
  <2> QED BY <2>1, <2>2
<1>2. SUFFICES ASSUME Undisturbed' PROVE InLine' /\ DueStep
  BY <1>1 DEF AtWork
<1>3. InLine /\ pc # "down" /\ boot = "resumed" /\ ~Die
  <2>1. Undisturbed /\ "restart" \notin upsets /\ "restart" \notin upsets'
    BY <1>0, <1>2 DEF Undisturbed
  <2> QED BY <2>1 DEF AtWork, Die
<1>4. ASSUME InLine', Due' = Due, gerrit' = gerrit PROVE InLine' /\ DueStep
  BY <1>4 DEF DueStep
<1>5. CASE Gerrit
  BY <1>3, <1>5, EventSent DEF DueStep
<1>6. CASE TakeEvent \/ Deliver \/ TakeTrigger \/ Pause
  <2>1. gerrit' = gerrit
    BY <1>6 DEF TakeEvent, Deliver, TakeTrigger, Pause
  <2> QED BY <1>2, <1>3, <1>4, <1>6, <2>1, EventTaken, EventDelivered, TriggerTaken, TriggersSaved
<1>7. CASE HandleTrigger
  BY <1>3, <1>7, TriggerHandled DEF DueStep
<1>8. CASE \/ WakeUp \/ BuildCompleted \/ MergeCompleted \/ EndResults \/ EndEvents \/ Process
           \/ Exit \/ Reconfigure \/ UNCHANGED vars \/ \E t \in Thread : Updating(t) \/ Fails(t)
  <2>1. UNCHANGED <<events, triggers, file, hand, sent, gerrit>>
    <3>1. CASE \E t \in Thread : Updating(t) \/ Fails(t)
      BY <3>1 DEF Updating, Fails, Update, QueryFails, Query, Depends, GetNeeded, Dependents,
                  GetDependent, Updated, loopVars, exitVars
    <3>2. CASE WakeUp \/ BuildCompleted \/ MergeCompleted \/ EndResults \/ EndEvents \/ Process
      BY <3>2 DEF WakeUp, BuildCompleted, MergeCompleted, EndResults, EndEvents, Process, loopVars, exitVars
    <3>3. CASE Exit \/ Reconfigure \/ UNCHANGED vars
      BY <3>3 DEF Exit, Reconfigure, vars, loopVars, exitVars
    <3> QED BY <1>8, <3>1, <3>2, <3>3
  <2>2. Due' = Due
    BY <2>1 DEF Due, Waiting, Handled, Refreshing
  <2>3. InLine'
    BY <1>3, <2>1, <2>2 DEF InLine, Handled, Refreshing
  <2> QED BY <1>4, <2>1, <2>2, <2>3
<1>9. CASE Start \/ Resume
  BY <1>3, <1>9 DEF Start, Resume
<1> QED BY <1>3, <1>5, <1>6, <1>7, <1>8, <1>9 DEF Next, Connector, Scheduler, Main, Thread

-----------------------------------------------------------------------------
(* The live items of a pipeline, by their queues, and what they test.      *)
Live(p) == {a \in DOMAIN p : p[a] # <<>> /\ p[a][Len(p[a])].live}
Tested(p, os, a) == NameOf(os, p[a][Len(p[a])].obj)

(* Of those in p, some are left in r, but none of S.                       *)
Left(r, p, os, S) ==
  \E f : /\ \A b \in Live(r) : f[b] \in Live(p) \ S /\ Tested(r, os, b) = Tested(p, os, f[b])
         /\ \A b, c \in Live(r) : f[b] = f[c] => b = c

(* The live items are the last of their queues.                            *)
LEMMA LiveAreLast ==
  ASSUME NEW D, NEW p \in Seq(Queues(D))
  PROVE  /\ \A k \in LiveItems(p) : k[1] \in Live(p) /\ k = <<k[1], Len(p[k[1]])>>
         /\ \A a \in Live(p) : <<a, Len(p[a])>> \in LiveItems(p)
<1>1. ASSUME NEW k \in LiveItems(p) PROVE k[1] \in Live(p) /\ k = <<k[1], Len(p[k[1]])>>
  <2>1. k \in AllItems(p) /\ p[k[1]][k[2]].live
    BY DEF LiveItems
  <2>2. PICK a \in DOMAIN p : \E i \in DOMAIN p[a] : k = <<a, i>>
    BY <2>1 DEF AllItems
  <2>3. PICK i \in DOMAIN p[a] : k = <<a, i>>
    BY <2>2
  <2>4. p[a] \in Queues(D)
    OBVIOUS
  <2>5. i = Len(p[a]) /\ p[a] # <<>>
    BY <2>1, <2>3, <2>4 DEF Queues, LastLive
  <2> QED BY <2>1, <2>3, <2>5 DEF Live
<1>2. ASSUME NEW a \in Live(p) PROVE <<a, Len(p[a])>> \in LiveItems(p)
  <2>1. a \in DOMAIN p /\ p[a] # <<>> /\ p[a][Len(p[a])].live
    BY DEF Live
  <2>2. PICK q \in Queues(D) : q = p[a]
    BY <2>1
  <2>3. Len(q) \in DOMAIN q
    BY <2>1, <2>2 DEF Queues
  <2> QED BY <2>1, <2>2, <2>3 DEF LiveItems, AllItems
<1> QED BY <1>1, <1>2

(* A live item is removed, and no other.                                   *)
LEMMA RemovedIsLeft ==
  ASSUME NEW D, NEW p \in Seq(Queues(D)), NEW k \in LiveItems(p), NEW os
  PROVE  Left(RemoveItem(p, k), p, os, {k[1]})
<1>1. PICK a : a = k[1]
  OBVIOUS
<1>2. PICK n : n = Len(p[a])
  OBVIOUS
<1>3. a \in DOMAIN p /\ p[a] # <<>> /\ k[2] = n
  BY <1>1, <1>2, LiveAreLast DEF Live
<1>4. PICK l \in Nat : l = Len(p) /\ DOMAIN p = 1 .. l
  OBVIOUS
<1>5. p[a] \in Seq(ItemsOf(D)) /\ LastLive(p[a]) /\ n \in 1 .. Len(p[a]) /\ n \in Nat
  <2>1. p[a] \in Queues(D)
    BY <1>3
  <2> QED BY <1>2, <1>3, <2>1 DEF Queues
<1>6. PICK q : q = RemoveAt(p[a], n)
  OBVIOUS
<1>7. q \in Seq(ItemsOf(D)) /\ DOMAIN q = 1 .. n - 1 /\ Len(q) = n - 1
      /\ \A j \in 1 .. n - 1 : q[j] = p[a][j]
  BY <1>2, <1>5, <1>6, WithoutOne
<1>8. \A j \in 1 .. n - 1 : ~q[j].live
  <2>1. \A j \in 1 .. n - 1 : j \in DOMAIN p[a] /\ j # n
    BY <1>2, <1>5
  <2> QED BY <1>2, <1>5, <1>7, <2>1 DEF LastLive
<1>9. RemoveItem(p, k) = IF q = <<>> THEN RemoveAt(p, a) ELSE [p EXCEPT ![a] = q]
  BY <1>1, <1>3, <1>6 DEF RemoveItem, WithQueue
<1>10. CASE q = <<>>
  <2>1. PICK r : r = RemoveAt(p, a)
    OBVIOUS
  <2>2. /\ DOMAIN r = 1 .. l - 1
        /\ \A j \in 1 .. a - 1 : r[j] = p[j]
        /\ \A j \in a .. l - 1 : r[j] = p[j + 1]
    <3>1. a \in 1 .. Len(p)
      BY <1>3
    <3> QED BY <1>4, <2>1, <3>1, WithoutOne
  <2>3. PICK f : f = [b \in 1 .. l - 1 |-> IF b < a THEN b ELSE b + 1]
    OBVIOUS
  <2>4. ASSUME NEW b \in 1 .. l - 1 PROVE f[b] \in 1 .. l /\ f[b] # a /\ r[b] = p[f[b]]
    <3>1. CASE b < a
      <4>1. f[b] = b /\ b \in 1 .. a - 1 /\ b \in 1 .. l
        BY <1>3, <1>4, <2>3, <3>1
      <4> QED BY <2>2, <3>1, <4>1
    <3>2. CASE ~(b < a)
      <4>1. f[b] = b + 1 /\ b \in a .. l - 1 /\ b + 1 \in 1 .. l /\ b + 1 # a
        BY <1>3, <1>4, <2>3, <3>2
      <4> QED BY <2>2, <4>1
    <3> QED BY <3>1, <3>2
  <2>5. \A b, c \in 1 .. l - 1 : f[b] = f[c] => b = c
    BY <1>3, <1>4, <2>3
  <2>6. ASSUME NEW b \in Live(r)
        PROVE  b \in 1 .. l - 1 /\ f[b] \in Live(p) \ {a} /\ Tested(r, os, b) = Tested(p, os, f[b])
    <3>1. b \in 1 .. l - 1 /\ r[b] # <<>> /\ r[b][Len(r[b])].live
      BY <2>2 DEF Live
    <3>2. f[b] \in DOMAIN p /\ f[b] # a /\ r[b] = p[f[b]]
      BY <1>4, <2>4, <3>1
    <3> QED BY <3>1, <3>2 DEF Live, Tested
  <2>7. Left(r, p, os, {a})
    BY <2>5, <2>6 DEF Left
  <2> QED BY <1>1, <1>9, <1>10, <2>1, <2>7
<1>11. CASE q # <<>>
  <2>1. PICK r : r = [p EXCEPT ![a] = q]
    OBVIOUS
  <2>2. DOMAIN r = 1 .. l /\ r[a] = q /\ \A b \in 1 .. l : b # a => r[b] = p[b]
    BY <1>3, <1>4, <2>1
  <2>3. n - 1 \in 1 .. n - 1
    BY <1>5, <1>7, <1>11
  <2>4. a \notin Live(r)
    BY <1>7, <1>8, <2>2, <2>3 DEF Live
  <2>5. PICK f : f = [b \in 1 .. l |-> b]
    OBVIOUS
  <2>6. ASSUME NEW b \in Live(r)
        PROVE  f[b] = b /\ b \in Live(p) \ {a} /\ Tested(r, os, b) = Tested(p, os, b)
    <3>1. b \in 1 .. l /\ b # a /\ r[b] # <<>> /\ r[b][Len(r[b])].live
      BY <2>2, <2>4 DEF Live
    <3>2. r[b] = p[b] /\ f[b] = b
      BY <2>2, <2>5, <3>1
    <3> QED BY <1>4, <3>1, <3>2 DEF Live, Tested
  <2>7. Left(r, p, os, {a})
    BY <2>6 DEF Left
  <2> QED BY <1>1, <1>9, <1>11, <2>1, <2>7
<1> QED BY <1>10, <1>11

(* Nothing happens to the live items, or they come to another stage.       *)
LEMMA AllAreLeft ==
  ASSUME NEW p, NEW r, NEW os, DOMAIN r = DOMAIN p,
         \A a \in DOMAIN p : r[a] = p[a] \/ (Alike(r[a], p[a]) /\ p[a] \in Queues(DOMAIN os)
                                             /\ r[a] \in Queues(DOMAIN os))
  PROVE  Left(r, p, os, {})
<1>1. PICK f : f = [a \in DOMAIN p |-> a]
  OBVIOUS
<1>2. ASSUME NEW a \in Live(r)
      PROVE  a \in Live(p) /\ f[a] = a /\ Tested(r, os, a) = Tested(p, os, a)
  <2>1. a \in DOMAIN p /\ r[a] # <<>> /\ r[a][Len(r[a])].live
    BY DEF Live
  <2>2. CASE r[a] = p[a]
    BY <1>1, <2>1, <2>2 DEF Live, Tested
  <2>3. CASE Alike(r[a], p[a]) /\ p[a] \in Queues(DOMAIN os) /\ r[a] \in Queues(DOMAIN os)
    <3>1. PICK x \in Queues(DOMAIN os) : x = r[a]
      BY <2>3
    <3>2. PICK y \in Queues(DOMAIN os) : y = p[a]
      BY <2>3
    <3>3. Len(x) \in DOMAIN x
      BY <2>1, <3>1 DEF Queues
    <3>4. Len(y) = Len(x) /\ Len(y) \in DOMAIN y /\ x[Len(x)].live = y[Len(y)].live
          /\ x[Len(x)].obj = y[Len(y)].obj
      BY <2>3, <3>1, <3>2, <3>3 DEF Alike
    <3>5. y # <<>>
      BY <3>4
    <3> QED BY <1>1, <2>1, <3>1, <3>2, <3>4, <3>5 DEF Live, Tested
  <2> QED BY <2>1, <2>2, <2>3
<1> QED BY <1>2 DEF Left

(* processQueue makes no live item.                                        *)
LEMMA ProcessLeaves ==
  ASSUME NEW os, NEW p \in Seq(Queues(DOMAIN os))
  PROVE  Left(ProcessQueue(p, os).pipeline, p, os, {})
<1>1. PICK h : h = ProcessQueue(p, os).pipeline
  OBVIOUS
<1>2. PICK n \in Nat : n = Len(p) /\ DOMAIN p = 1 .. n
  OBVIOUS
<1>3. KeptOk(h, n, p, os)
  BY <1>1, <1>2, ProcessIsOk
<1>4. h \in Seq(Queues(DOMAIN os))
  BY <1>3 DEF KeptOk
<1>5. PICK f : Choice(f, h, n) /\ \A a \in 1 .. Len(h) : h[a] = Pass(p[f[a]], os).queue
  BY <1>3 DEF KeptOk
<1>6. ASSUME NEW b \in Live(h)
      PROVE  f[b] \in Live(p) /\ Tested(h, os, b) = Tested(p, os, f[b])
  <2>1. b \in 1 .. Len(h) /\ h[b] # <<>> /\ h[b][Len(h[b])].live
    BY <1>4 DEF Live
  <2>2. f[b] \in 1 .. n
    BY <1>5, <2>1 DEF Choice
  <2>3. PICK q \in Queues(DOMAIN os) : q = p[f[b]]
    BY <1>2, <2>2
  <2>4. PICK r \in Queues(DOMAIN os) : r = h[b]
    BY <1>4, <2>1
  <2>5. r = Pass(q, os).queue
    BY <1>5, <2>1, <2>3, <2>4
  <2>6. LiveFrom(r, q)
    <3>1. PassOk(Pass(q, os), Len(q), q, os)
      BY PassIsOk
    <3> QED BY <2>5, <3>1 DEF PassOk
  <2>7. Len(r) \in DOMAIN r
    BY <2>1, <2>4 DEF Queues
  <2>8. Len(q) \in DOMAIN q /\ q[Len(q)].live /\ r[Len(r)].obj = q[Len(q)].obj
    BY <2>1, <2>4, <2>6, <2>7 DEF LiveFrom
  <2>9. q # <<>>
    BY <2>8
  <2> QED BY <1>2, <2>2, <2>3, <2>4, <2>8, <2>9 DEF Live, Tested
<1>7. \A b, c \in Live(h) : f[b] = f[c] => b = c
  BY <1>4, <1>5 DEF Choice, Live
<1> QED BY <1>1, <1>6, <1>7 DEF Left

(* addChange adds one queue, which ends in the change if it is added, and  *)
(* the change was not in the pipeline.                                     *)
LEMMA AddedLast ==
  ASSUME NEW m \in Nat, NEW os \in Objects(m), NEW p \in Seq(Queues(DOMAIN os)), NEW o \in 1 .. m
  PROVE  \/ AddChange(p, os, o) = p
         \/ /\ \A b \in Live(AddChange(p, os, o)) :
                 \/ b \in Live(p) /\ Tested(AddChange(p, os, o), os, b) = Tested(p, os, b)
                 \/ b = Len(p) + 1 /\ Tested(AddChange(p, os, o), os, b) = NameOf(os, o)
            /\ \A b \in Live(p) : Tested(p, os, b) # NameOf(os, o)
<1> SUFFICES ASSUME AddChange(p, os, o) # p
             PROVE  /\ \A b \in Live(AddChange(p, os, o)) :
                         \/ b \in Live(p) /\ Tested(AddChange(p, os, o), os, b) = Tested(p, os, b)
                         \/ b = Len(p) + 1 /\ Tested(AddChange(p, os, o), os, b) = NameOf(os, o)
                    /\ \A b \in Live(p) : Tested(p, os, b) # NameOf(os, o)
  OBVIOUS
<1>1. ~AlreadyInPipeline(p, os, o) /\ AddChange(p, os, o) = Append(p, Added(p, os, o).queue)
  BY DEF AddChange
<1>2. PICK a : a = Added(p, os, o)
  OBVIOUS
<1>3. a \in Outcome(os) /\ Ends(a.queue, o)
  BY <1>2, AddedIsTyped
<1>4. PICK q \in Seq(ItemsOf(DOMAIN os)) : q = a.queue
  BY <1>3 DEF Outcome, ItemsOf
<1>5. PICK l \in Nat : l = Len(p) /\ DOMAIN p = 1 .. l
  OBVIOUS
<1>6. PICK r : r = AddChange(p, os, o)
  OBVIOUS
<1>7. LastLive(q)
  BY <1>3, <1>4 DEF Ends, LastLive
<1>8. DOMAIN r = 1 .. l + 1 /\ r[l + 1] = q /\ \A b \in 1 .. l : r[b] = p[b]
  <2>1. q \in Queues(DOMAIN os)
    BY <1>7 DEF Queues
  <2>2. r = Append(p, q)
    BY <1>1, <1>2, <1>4, <1>6
  <2> QED BY <1>5, <2>1, <2>2
<1>9. ASSUME NEW b \in Live(r)
      PROVE  \/ b \in Live(p) /\ Tested(r, os, b) = Tested(p, os, b)
             \/ b = l + 1 /\ Tested(r, os, b) = NameOf(os, o)
  <2>1. b \in 1 .. l + 1 /\ r[b] # <<>> /\ r[b][Len(r[b])].live
    BY <1>8 DEF Live
  <2>2. CASE b \in 1 .. l
    BY <1>5, <1>8, <2>1, <2>2 DEF Live, Tested
  <2>3. CASE b = l + 1
    <3>1. r[b] = q /\ q # <<>> /\ q[Len(q)].live
      BY <1>8, <2>1, <2>3
    <3>2. Len(q) \in DOMAIN q
      BY <3>1
    <3>3. q[Len(q)].obj = o
      BY <1>3, <1>4, <3>1, <3>2 DEF Ends
    <3> QED BY <2>3, <3>1, <3>3 DEF Tested
  <2> QED BY <2>1, <2>2, <2>3
<1>10. ASSUME NEW b \in Live(p) PROVE Tested(p, os, b) # NameOf(os, o)
  <2>1. PICK k : k = <<b, Len(p[b])>>
    OBVIOUS
  <2>2. k \in LiveItems(p) /\ k[1] = b /\ k[2] = Len(p[b])
    BY <2>1, LiveAreLast
  <2>3. ~Equals(os, o, p[b][Len(p[b])].obj)
    BY <1>1, <2>2 DEF AlreadyInPipeline
  <2> QED BY <2>3 DEF Equals, Tested, NameOf
<1> QED BY <1>5, <1>6, <1>9, <1>10

(* removeAbandonedChange, and removeOldVersionsOfChange: an old version,   *)
(* if there is one, goes.                                                  *)
LEMMA AbandonedAreLeft ==
  ASSUME NEW D, NEW p \in Seq(Queues(D)), NEW os, NEW o
  PROVE  Left(RemoveAbandoned(p, os, o), p, os, {})
<1>1. PICK gone : gone = {k \in LiveItems(p) : Equals(os, o, p[k[1]][k[2]].obj)}
  OBVIOUS
<1>2. RemoveAbandoned(p, os, o) = IF gone = {} THEN p ELSE RemoveItem(p, CHOOSE k \in gone : TRUE)
  BY <1>1 DEF RemoveAbandoned
<1>3. CASE gone = {}
  BY <1>2, <1>3, AllAreLeft
<1>4. CASE gone # {}
  <2>1. PICK k \in gone : k = (CHOOSE l \in gone : TRUE)
    BY <1>4
  <2>2. k \in LiveItems(p)
    BY <1>1
  <2>3. Left(RemoveItem(p, k), p, os, {k[1]})
    BY <2>2, RemovedIsLeft
  <2>4. Left(RemoveItem(p, k), p, os, {})
    BY <2>3 DEF Left
  <2> QED BY <1>2, <1>4, <2>1, <2>4
<1> QED BY <1>3, <1>4

Older(os, p, o) == {a \in Live(p) : IsUpdateOf(os, o, p[a][Len(p[a])].obj)}

(* With one old version at most, removing old versions leaves none.        *)
LEMMA OldIsGone ==
  ASSUME NEW D, NEW p \in Seq(Queues(D)), NEW os, NEW o
  PROVE  \/ Older(os, p, o) = {} /\ RemoveOldVersions(p, os, o) = p
         \/ \E a \in Older(os, p, o) : Left(RemoveOldVersions(p, os, o), p, os, {a})
<1>1. PICK old : old = {k \in LiveItems(p) : IsUpdateOf(os, o, p[k[1]][k[2]].obj)}
  OBVIOUS
<1>2. RemoveOldVersions(p, os, o) =
        IF old = {} THEN p ELSE RemoveItem(p, CHOOSE k \in old : \A l \in old : k[1] <= l[1])
  BY <1>1 DEF RemoveOldVersions
<1>3. \A k \in old : k[1] \in Older(os, p, o)
  <2> TAKE k \in old
  <2>1. k[1] \in Live(p) /\ k = <<k[1], Len(p[k[1]])>>
    BY <1>1, LiveAreLast
  <2>2. PICK a : a = k[1]
    OBVIOUS
  <2>3. k[2] = Len(p[a])
    BY <2>1, <2>2
  <2> QED BY <1>1, <2>1, <2>2, <2>3 DEF Older
<1>4. CASE old = {}
  <2>1. Older(os, p, o) = {}
    <3>1. ASSUME NEW a \in Older(os, p, o) PROVE FALSE
      <4>1. PICK k : k = <<a, Len(p[a])>>
        OBVIOUS
      <4>2. k \in LiveItems(p) /\ k[1] = a /\ k[2] = Len(p[a])
        BY <4>1, LiveAreLast DEF Older
      <4> QED BY <1>1, <1>4, <4>2 DEF Older
    <3> QED BY <3>1
  <2> QED BY <1>2, <1>4, <2>1
<1>5. CASE old # {}
  <2>1. \E k \in old : \A l \in old : k[1] <= l[1]
    <3>1. PICK S : S = {k[1] : k \in old}
      OBVIOUS
    <3>2. S \in SUBSET Nat
      <4>1. \A k \in old : k[1] \in DOMAIN p
        BY <1>3 DEF Older, Live
      <4> QED BY <3>1, <4>1
    <3>4. S # {}
      BY <1>5, <3>1
    <3>3. PICK a \in S : \A b \in S : a <= b
      BY <3>2, <3>4, LeastNumber
    <3> QED BY <3>1, <3>3
  <2>2. PICK k \in old : k = (CHOOSE j \in old : \A l \in old : j[1] <= l[1])
    BY <2>1
  <2>3. Left(RemoveItem(p, k), p, os, {k[1]})
    BY <1>1, RemovedIsLeft
  <2> QED BY <1>2, <1>3, <1>5, <2>2, <2>3
<1> QED BY <1>4, <1>5

-----------------------------------------------------------------------------
(* What is due announces every patchset that is newer than what it is      *)
(* about, in order; and what is newer than what is tested is announced.    *)
Announces(f, n, q) == f.type = "patchset-created" /\ f.key = <<n, q>>
Announced(D, latest) ==
  /\ \A e \in D : e.key[2] <= latest[e.key[1]]
  /\ \A e, f \in D : e.id < f.id /\ e.key[1] = f.key[1] => e.key[2] <= f.key[2]
  /\ \A e \in D : \A q \in e.key[2] + 1 .. latest[e.key[1]] :
       \E f \in D : e.id < f.id /\ Announces(f, e.key[1], q)
NewerDue(key, D, latest) ==
  /\ key[2] <= latest[key[1]]
  /\ \A q \in key[2] + 1 .. latest[key[1]] : \E f \in D : Announces(f, key[1], q)
Expected(p, os, D, latest) ==
  /\ \A a, b \in Live(p) : Tested(p, os, a) = Tested(p, os, b) => a = b
  /\ \A a \in Live(p) : NewerDue(Tested(p, os, a), D, latest)

VersionInv ==
  Undisturbed => Announced(Due, gerrit.latest) /\ Expected(pipeline, objs, Due, gerrit.latest)

(* What is tested is a change and a patchset.                              *)
LEMMA TestedAreKeys ==
  ASSUME NEW m \in Nat, NEW os \in Objects(m), NEW p \in Seq(Queues(DOMAIN os)), NEW a \in Live(p)
  PROVE  Tested(p, os, a) \in Key /\ p[a][Len(p[a])].obj \in 1 .. m
<1>1. a \in DOMAIN p /\ p[a] # <<>>
  BY DEF Live
<1>2. PICK q \in Queues(DOMAIN os) : q = p[a]
  BY <1>1
<1>3. q[Len(q)] \in ItemsOf(DOMAIN os)
  BY <1>1, <1>2 DEF Queues
<1>4. q[Len(q)].obj \in 1 .. m
  BY <1>3 DEF ItemsOf, Objects
<1>5. os[q[Len(q)].obj] \in Change(m)
  BY <1>4 DEF Objects
<1> QED BY <1>2, <1>4, <1>5 DEF Tested, NameOf, Key, Change

(* An event is sent.                                                       *)
LEMMA SentIsAnnounced ==
  ASSUME NEW D \in SUBSET Event, NEW latest \in [Number -> Nat], Announced(D, latest),
         NEW e \in Event, \A f \in D : f.id < e.id, NEW new,
         e.key[2] = new[e.key[1]],
         \/ new = latest
         \/ e.type = "patchset-created" /\ new = [latest EXCEPT ![e.key[1]] = @ + 1]
  PROVE  /\ Announced(D \cup {e}, new)
         /\ \A key \in Key : NewerDue(key, D, latest) => NewerDue(key, D \cup {e}, new)
<1>1. \A f \in Event : f.key \in Key /\ f.id \in Nat /\ f.key[1] \in Number /\ f.key[2] \in Nat
  BY DEF Event, Key
<1>2. PICK n \in Number : n = e.key[1]
  BY <1>1
<1>3. PICK z \in Nat : z = e.key[2]
  BY <1>1
<1>4. \A k \in Key : k[1] \in Number /\ k[2] \in Nat /\ k = <<k[1], k[2]>>
  BY DEF Key
<1>5. /\ \A j \in Number : latest[j] \in Nat
      /\ \A j \in Number : new[j] = latest[j] \/ (j = n /\ new[j] = latest[j] + 1 /\ Announces(e, j, new[j]))
      /\ new[n] = z
  <2>1. e.key = <<n, z>>
    BY <1>1, <1>2, <1>3, <1>4
  <2> QED BY <1>2, <1>3, <2>1 DEF Announces
<1>6. ASSUME NEW key \in Key, NewerDue(key, D, latest) PROVE NewerDue(key, D \cup {e}, new)
  <2>1. PICK j \in Number, p \in Nat : j = key[1] /\ p = key[2]
    BY <1>4
  <2>2. p <= latest[j] /\ \A q \in p + 1 .. latest[j] : \E f \in D : Announces(f, j, q)
    BY <1>6, <2>1 DEF NewerDue
  <2>3. latest[j] \in Nat /\ latest[j] <= new[j]
    BY <1>5
  <2>4. ASSUME NEW q \in p + 1 .. new[j] PROVE \E f \in D \cup {e} : Announces(f, j, q)
    <3>1. CASE q \in p + 1 .. latest[j]
      BY <2>2, <3>1
    <3>2. CASE q \notin p + 1 .. latest[j]
      <4>1. q = new[j] /\ new[j] # latest[j]
        BY <1>5, <2>3, <3>2
      <4> QED BY <1>5, <4>1
    <3> QED BY <3>1, <3>2
  <2>5. p <= new[j]
    BY <1>5, <2>2, <2>3
  <2> QED BY <2>1, <2>4, <2>5 DEF NewerDue
<1>7. ASSUME NEW f \in D \cup {e} PROVE f.key[2] <= new[f.key[1]]
  <2>1. CASE f = e
    BY <1>2, <1>3, <1>5, <2>1
  <2>2. CASE f \in D
    <3>1. f.key[2] <= latest[f.key[1]] /\ f.key[2] \in Nat /\ f.key[1] \in Number
      BY <1>1, <2>2 DEF Announced
    <3>2. PICK j \in Number : j = f.key[1]
      BY <3>1
    <3> QED BY <1>5, <3>1, <3>2
  <2> QED BY <2>1, <2>2
<1>8. ASSUME NEW f \in D \cup {e}, NEW g \in D \cup {e}, f.id < g.id, f.key[1] = g.key[1]
      PROVE  f.key[2] <= g.key[2]
  <2>1. f \in D
    BY <1>1, <1>8
  <2>2. CASE g \in D
    BY <1>8, <2>1, <2>2 DEF Announced
  <2>3. CASE g = e
    BY <1>2, <1>3, <1>5, <1>7, <1>8, <2>3
  <2> QED BY <2>2, <2>3
<1>9. ASSUME NEW f \in D \cup {e}, NEW q \in f.key[2] + 1 .. new[f.key[1]]
      PROVE  \E g \in D \cup {e} : f.id < g.id /\ Announces(g, f.key[1], q)
  <2>1. PICK j \in Number, p \in Nat : j = f.key[1] /\ p = f.key[2]
    BY <1>1
  <2>2. CASE f = e
    BY <1>2, <1>3, <1>5, <1>9, <2>1, <2>2
  <2>3. CASE f \in D
    <3>1. CASE q \in p + 1 .. latest[j]
      BY <2>1, <2>3, <3>1 DEF Announced
    <3>2. CASE q \notin p + 1 .. latest[j]
      <4>1. q = new[j] /\ new[j] # latest[j]
        BY <1>5, <1>9, <2>1, <3>2
      <4> QED BY <1>5, <2>1, <2>3, <4>1
    <3> QED BY <3>1, <3>2
  <2> QED BY <2>2, <2>3
<1> QED BY <1>6, <1>7, <1>8, <1>9 DEF Announced

(* The first event in the line is handled.                                 *)
LEMMA FirstIsHandled ==
  ASSUME NEW D \in SUBSET Event, NEW latest, Announced(D, latest),
         NEW e \in D, \A f \in D : f = e \/ e.id < f.id
  PROVE  Announced(D \ {e}, latest) /\ NewerDue(e.key, D \ {e}, latest)
<1>1. \A f \in Event : f.id \in Nat
  BY DEF Event
<1>2. ~(e.id < e.id)
  BY <1>1
<1>3. \A f \in D, g \in D : f.id < g.id /\ f # e => g # e
  <2> SUFFICES ASSUME NEW f \in D, f.id < e.id, f # e PROVE FALSE
    OBVIOUS
  <2>1. e.id < f.id /\ e.id \in Nat /\ f.id \in Nat
    BY <1>1
  <2> QED BY <2>1
<1>4. Announced(D \ {e}, latest)
  BY <1>3 DEF Announced
<1>5. NewerDue(e.key, D \ {e}, latest)
  BY <1>2 DEF Announced, NewerDue
<1> QED BY <1>4, <1>5

(* Items are removed, ...                                                  *)
LEMMA LeftAreExpected ==
  ASSUME NEW p, NEW r, NEW os, NEW S, Left(r, p, os, S), NEW D, NEW latest, Expected(p, os, D, latest)
  PROVE  Expected(r, os, D, latest)
<1>1. PICK f : /\ \A b \in Live(r) : f[b] \in Live(p) \ S /\ Tested(r, os, b) = Tested(p, os, f[b])
               /\ \A b, c \in Live(r) : f[b] = f[c] => b = c
  BY DEF Left
<1>2. ASSUME NEW a \in Live(r), NEW b \in Live(r), Tested(r, os, a) = Tested(r, os, b) PROVE a = b
  <2>1. f[a] = f[b]
    BY <1>1, <1>2 DEF Expected
  <2> QED BY <1>1, <2>1
<1>3. ASSUME NEW a \in Live(r) PROVE NewerDue(Tested(r, os, a), D, latest)
  BY <1>1 DEF Expected
<1> QED BY <1>2, <1>3 DEF Expected

(* ... and one is added.                                                   *)
LEMMA AddedIsExpected ==
  ASSUME NEW m \in Nat, NEW os \in Objects(m), NEW p \in Seq(Queues(DOMAIN os)), NEW o \in 1 .. m,
         NEW D, NEW latest, Expected(p, os, D, latest), NewerDue(NameOf(os, o), D, latest)
  PROVE  Expected(AddChange(p, os, o), os, D, latest)
<1>1. PICK r : r = AddChange(p, os, o)
  OBVIOUS
<1>2. SUFFICES ASSUME r # p PROVE Expected(r, os, D, latest)
  BY <1>1
<1>3. /\ \A b \in Live(r) :
           \/ b \in Live(p) /\ Tested(r, os, b) = Tested(p, os, b)
           \/ b = Len(p) + 1 /\ Tested(r, os, b) = NameOf(os, o)
      /\ \A b \in Live(p) : Tested(p, os, b) # NameOf(os, o)
  BY <1>1, <1>2, AddedLast
<1> QED BY <1>3 DEF Expected

(* removeOldVersionsOfChange need not look for a second old version.       *)
LEMMA OnlyNewerStay ==
  ASSUME NEW m \in Nat, NEW os \in Objects(m), NEW p \in Seq(Queues(DOMAIN os)), NEW o \in 1 .. m,
         NEW D \in SUBSET Event, NEW latest \in [Number -> Nat],
         Announced(D, latest), Expected(p, os, D, latest),
         NEW e \in D, \A f \in D : f = e \/ e.id < f.id, e.key = NameOf(os, o)
  PROVE  Expected(RemoveOldVersions(p, os, o), os, D \ {e}, latest)
<1>1. PICK n, z : n = os[o].num /\ z = os[o].ps /\ e.key = <<n, z>>
  BY DEF NameOf
<1>2. n \in Number /\ z \in Nat
  <2>1. e \in Event
    OBVIOUS
  <2> QED BY <1>1, <2>1 DEF Event, Key
<1>3. PICK r : r = RemoveOldVersions(p, os, o)
  OBVIOUS
<1>4. r \in Seq(Queues(DOMAIN os))
  BY <1>3, OldRemoved
<1>5. \A x \in {p, r} : \A a \in Live(x) :
        a \in Older(os, x, o) <=> Tested(x, os, a)[1] = n /\ z > Tested(x, os, a)[2]
  BY <1>1 DEF Older, IsUpdateOf, Tested, NameOf
<1>6. ASSUME NEW a \in Older(os, p, o), NEW b \in Older(os, p, o),
             Tested(p, os, a)[2] < Tested(p, os, b)[2]
      PROVE  FALSE
  <2>1. a \in Live(p) /\ b \in Live(p)
    BY DEF Older
  <2>2. PICK k \in Key, l \in Key : k = Tested(p, os, a) /\ l = Tested(p, os, b)
    BY <2>1, TestedAreKeys
  <2>3. k[1] = n /\ l[1] = n /\ l[2] < z /\ k[2] < l[2] /\ k[2] \in Nat /\ l[2] \in Nat /\ latest[n] \in Nat
    BY <1>2, <1>5, <1>6, <2>1, <2>2 DEF Key
  <2>4. NewerDue(k, D, latest) /\ NewerDue(l, D, latest)
    BY <2>1, <2>2 DEF Expected
  <2>5. l[2] \in k[2] + 1 .. latest[n]
    BY <2>3, <2>4 DEF NewerDue
  <2>6. PICK f \in D : f.key = <<n, l[2]>>
    <3>1. PICK y : y = l[2] /\ y \in k[2] + 1 .. latest[k[1]]
      BY <2>3, <2>5
    <3>2. \E f \in D : Announces(f, k[1], y)
      BY <2>4, <3>1 DEF NewerDue
    <3> QED BY <2>3, <3>1, <3>2 DEF Announces
  <2>7. f # e
    BY <1>1, <2>3, <2>6
  <2>8. e.key[2] <= f.key[2]
    BY <1>1, <2>6, <2>7 DEF Announced
  <2> QED BY <1>1, <1>2, <2>3, <2>6, <2>8
<1>7. ASSUME NEW a \in Older(os, p, o), NEW b \in Older(os, p, o) PROVE a = b
  <2>1. a \in Live(p) /\ b \in Live(p)
    BY DEF Older
  <2>2. PICK k \in Key, l \in Key : k = Tested(p, os, a) /\ l = Tested(p, os, b)
    BY <2>1, TestedAreKeys
  <2>3. k[1] = n /\ l[1] = n /\ k[2] \in Nat /\ l[2] \in Nat
    BY <1>5, <2>1, <2>2 DEF Key
  <2>4. ~(k[2] < l[2]) /\ ~(l[2] < k[2])
    BY <1>6, <2>2
  <2>5. k[2] = l[2]
    BY <2>3, <2>4
  <2>6. k = l
    BY <2>3, <2>5 DEF Key
  <2> QED BY <2>1, <2>2, <2>6 DEF Expected
<1>8. Older(os, r, o) = {} /\ Expected(r, os, D, latest)
  <2>1. CASE Older(os, p, o) = {} /\ r = p
    BY <2>1
  <2>2. ASSUME NEW a \in Older(os, p, o), Left(r, p, os, {a})
        PROVE  Older(os, r, o) = {} /\ Expected(r, os, D, latest)
    <3>1. PICK f : \A b \in Live(r) : f[b] \in Live(p) \ {a} /\ Tested(r, os, b) = Tested(p, os, f[b])
      BY <2>2 DEF Left
    <3>2. ASSUME NEW b \in Older(os, r, o) PROVE FALSE
      <4>1. b \in Live(r)
        BY DEF Older
      <4>2. f[b] \in Older(os, p, o)
        BY <1>5, <3>1, <4>1
      <4> QED BY <1>7, <3>1, <4>1, <4>2
    <3>3. Expected(r, os, D, latest)
      BY <2>2, LeftAreExpected
    <3> QED BY <3>2, <3>3
  <2>3. \/ Older(os, p, o) = {} /\ r = p
        \/ \E a \in Older(os, p, o) : Left(r, p, os, {a})
    BY <1>3, OldIsGone
  <2> QED BY <2>1, <2>2, <2>3
<1>9. ASSUME NEW a \in Live(r) PROVE NewerDue(Tested(r, os, a), D \ {e}, latest)
  <2>1. PICK k \in Key : k = Tested(r, os, a)
    BY <1>4, TestedAreKeys
  <2>2. NewerDue(k, D, latest)
    BY <1>8, <2>1 DEF Expected
  <2>3. k[1] \in Number /\ k[2] \in Nat /\ latest[k[1]] \in Nat
    BY DEF Key
  <2>4. ASSUME NEW q \in k[2] + 1 .. latest[k[1]] PROVE \E f \in D \ {e} : Announces(f, k[1], q)
    <3>1. PICK f \in D : Announces(f, k[1], q)
      BY <2>2 DEF NewerDue
    <3>2. ASSUME f = e PROVE FALSE
      <4>1. k[1] = n /\ q = z
        BY <1>1, <3>1, <3>2 DEF Announces
      <4>2. z > k[2]
        BY <2>3, <4>1
      <4>3. a \in Older(os, r, o)
        BY <1>5, <2>1, <4>1, <4>2
      <4> QED BY <1>8, <4>3
    <3> QED BY <3>1, <3>2
  <2> QED BY <2>1, <2>2, <2>4 DEF NewerDue
<1> QED BY <1>3, <1>8, <1>9 DEF Expected

(* The scheduler handles an event.                                         *)
LEMMA HandledAsExpected ==
  ASSUME Typed, PipeInv, InLine, HandleTrigger, Undisturbed',
         Announced(Due, gerrit.latest), Expected(pipeline, objs, Due, gerrit.latest)
  PROVE  LET D == Due \ {hand["scheduler"]}
         IN Announced(D, gerrit.latest) /\ Expected(pipeline', objs, D, gerrit.latest)
<1>0. PICK m : CacheOk(m)
  BY DEF Typed, CacheInv
<1>1. PICK o : o = answer["scheduler"]
  OBVIOUS
<1>2. PICK e : e = hand["scheduler"]
  OBVIOUS
<1>3. PICK p \in Seq(Queues(DOMAIN objs)) : p = pipeline
  BY DEF PipeInv
<1>4. PICK latest \in [Number -> Nat] : latest = gerrit.latest
  BY DEF Typed, CacheInv, GerritTyped
<1>5. PICK w : w = CASE o = Raised -> p
                     [] e.type = "patchset-created" -> RemoveOldVersions(p, objs, o)
                     [] e.type = "change-abandoned" -> RemoveAbandoned(p, objs, o)
                     [] OTHER -> p
  OBVIOUS
<1>6. PICK adds \in BOOLEAN :
        adds = (o # Raised /\ e.type \in {"patchset-created", "comment-added", "parent-change-enqueued"})
  OBVIOUS
<1>7. /\ e # NoEvent /\ o # NoAnswer
      /\ pipeline' = IF adds THEN AddChange(w, objs, o) ELSE w
      /\ o = Raised => "refresh" \in upsets'
      /\ o # Raised /\ adds /\ e.id = 0 /\ e.key # Latest(e.key[1]) => "stale" \in upsets'
  <2>1. e # NoEvent /\ o # NoAnswer
    BY <1>1, <1>2 DEF HandleTrigger
  <2>2. pipeline' = IF adds THEN AddChange(w, objs, o) ELSE w
    <3>1. PICK v : v = CASE o = Raised -> pipeline
                         [] e.type = "patchset-created" -> RemoveOldVersions(pipeline, objs, o)
                         [] e.type = "change-abandoned" -> RemoveAbandoned(pipeline, objs, o)
                         [] OTHER -> pipeline
      OBVIOUS
    <3>2. o # Raised /\ e.type \in {"patchset-created", "comment-added", "parent-change-enqueued"}
          => pipeline' = AddChange(v, objs, o)
      BY <1>1, <1>2, <3>1 DEF HandleTrigger
    <3>3. ~(o # Raised /\ e.type \in {"patchset-created", "comment-added", "parent-change-enqueued"})
          => pipeline' = v
      BY <1>1, <1>2, <3>1 DEF HandleTrigger
    <3>4. v = w
      BY <1>3, <1>5, <3>1
    <3> QED BY <1>6, <3>2, <3>3, <3>4
  <2>3. upsets' = upsets \cup (IF o = Raised THEN {"refresh"}
                             ELSE IF adds /\ e.id = 0 /\ e.key # Latest(e.key[1]) THEN {"stale"} ELSE {})
    BY <1>1, <1>2, <1>6 DEF HandleTrigger
  <2> QED BY <2>1, <2>2, <2>3
<1>8. /\ o # Raised /\ m \in Nat /\ objs \in Objects(m) /\ o \in 1 .. m /\ e \in Event
      /\ adds /\ e.id = 0 => e.key = Latest(e.key[1])
  <2>1. o # Raised
    BY <1>7 DEF Undisturbed
  <2>2. o \in 1 .. m
    BY <1>0, <1>1, <1>7, <2>1 DEF CacheOk, Answers, Thread
  <2>3. e \in Event
    BY <1>2, <1>7 DEF Typed, EventsTyped, Thread
  <2>4. adds /\ e.id = 0 => e.key = Latest(e.key[1])
    BY <1>7, <2>1 DEF Undisturbed
  <2> QED BY <1>0, <2>1, <2>2, <2>3, <2>4 DEF CacheOk
<1>9. e.key = NameOf(objs, o) /\ e.key[1] \in Number /\ e.key[2] \in Nat
  <2>1. o > 0
    BY <1>8
  <2>2. HandOk("scheduler")
    BY DEF Typed, HandInv, Thread
  <2>3. e.key \in Key
    BY <1>8, EventIsSome
  <2> QED BY <1>1, <1>2, <2>1, <2>2, <2>3 DEF HandOk, Key
<1>10. PICK D : D = Due
  OBVIOUS
<1>11. PICK d : d = D \ {e}
  OBVIOUS
<1>12. D \in SUBSET Event
  <2>1. \A f \in Waiting : f \in Event \cup {NoEvent}
    BY DEF Waiting, Handled, Refreshing, ToSet, Typed, EventsTyped, Thread
  <2> QED BY <1>10, <2>1 DEF Due, NoEvent
<1>13. Announced(D, latest) /\ Expected(p, objs, D, latest)
  BY <1>3, <1>4, <1>10
<1>14. /\ w \in {p, RemoveOldVersions(p, objs, o), RemoveAbandoned(p, objs, o)}
       /\ w = RemoveOldVersions(p, objs, o) \/ (w \in {p, RemoveAbandoned(p, objs, o)} /\ e.type # "patchset-created")
  BY <1>5, <1>8
<1>15. Left(p, p, objs, {}) /\ Left(RemoveAbandoned(p, objs, o), p, objs, {})
  BY AllAreLeft, AbandonedAreLeft
<1>16. w \in Seq(Queues(DOMAIN objs))
  BY <1>14, OldRemoved
<1>17. CASE e.id = 0
  <2>1. d = D
    BY <1>10, <1>11, <1>17 DEF Due
  <2>2. Expected(w, objs, D, latest)
    <3>1. \/ Older(objs, p, o) = {} /\ RemoveOldVersions(p, objs, o) = p
          \/ \E a \in Older(objs, p, o) : Left(RemoveOldVersions(p, objs, o), p, objs, {a})
      BY OldIsGone
    <3>2. Expected(RemoveOldVersions(p, objs, o), objs, D, latest)
      BY <1>13, <3>1, LeftAreExpected
    <3> QED BY <1>13, <1>14, <1>15, <3>2, LeftAreExpected
  <2>3. adds => NewerDue(e.key, D, latest)
    <3>1. adds => e.key[2] = latest[e.key[1]]
      BY <1>4, <1>8, <1>9, <1>17 DEF Latest
    <3>2. e.key[2] + 1 .. e.key[2] = {}
      BY <1>9
    <3> QED BY <1>9, <3>1, <3>2 DEF NewerDue
  <2> QED BY <1>2, <1>4, <1>7, <1>8, <1>9, <1>10, <1>11, <1>13, <1>16, <2>1, <2>2, <2>3, AddedIsExpected
<1>18. CASE e.id # 0
  <2>1. e \in D /\ \A f \in D : f = e \/ e.id < f.id
    <3>1. e \in D
      BY <1>2, <1>10, <1>18 DEF Due, Waiting, Handled
    <3>2. \A f \in D : f = e \/ e.id < f.id
      BY <1>2, <1>10, <1>18 DEF Due, Waiting, InLine, Before, Handled
    <3> QED BY <3>1, <3>2
  <2>2. Announced(d, latest) /\ NewerDue(e.key, d, latest)
    BY <1>11, <1>12, <1>13, <2>1, FirstIsHandled
  <2>3. Expected(w, objs, d, latest)
    <3>1. CASE w = RemoveOldVersions(p, objs, o)
      BY <1>8, <1>9, <1>11, <1>12, <1>13, <2>1, <3>1, OnlyNewerStay
    <3>2. CASE w \in {p, RemoveAbandoned(p, objs, o)} /\ e.type # "patchset-created"
      <4>1. Expected(w, objs, D, latest)
        BY <1>13, <1>15, <3>2, LeftAreExpected
      <4>2. \A f, n, q : Announces(f, n, q) => f # e
        BY <3>2 DEF Announces
      <4>3. \A k : NewerDue(k, D, latest) => NewerDue(k, d, latest)
        BY <1>11, <4>2 DEF NewerDue
      <4> QED BY <4>1, <4>3 DEF Expected
    <3> QED BY <1>14, <3>1, <3>2
  <2> QED BY <1>2, <1>4, <1>7, <1>8, <1>9, <1>10, <1>11, <1>16, <2>2, <2>3, AddedIsExpected
<1> QED BY <1>17, <1>18

(* A step that handles nothing makes no live item.                         *)
LEMMA OthersAreLeft ==
  ASSUME Typed, PipeInv, [Next]_vars, ~HandleTrigger, objs' = objs, ~Die
  PROVE  Left(pipeline', pipeline, objs, {})
<1>1. CASE pipeline' = pipeline
  BY <1>1, AllAreLeft
<1>2. ASSUME NEW k \in AllItems(pipeline), NEW stage \in Stage,
             pipeline' = [pipeline EXCEPT ![k[1]][k[2]].stage = stage]
      PROVE  Left(pipeline', pipeline, objs, {})
  <2>1. PICK p \in Seq(Queues(DOMAIN objs)) : p = pipeline
    BY DEF PipeInv
  <2>2. PICK a \in DOMAIN p : \E i \in DOMAIN p[a] : k = <<a, i>>
    BY <2>1 DEF AllItems
  <2>3. PICK i \in DOMAIN p[a] : k = <<a, i>>
    BY <2>2
  <2>4. PICK r : r = [p[a] EXCEPT ![i].stage = stage]
    OBVIOUS
  <2>5. p[a] \in Queues(DOMAIN objs)
    BY <2>2
  <2>6. r \in Queues(DOMAIN objs) /\ Alike(r, p[a])
    BY <2>3, <2>4, <2>5, ItemStaged
  <2>7. PICK c : c = [p EXCEPT ![a] = r]
    OBVIOUS
  <2>8. pipeline' = c
    BY <1>2, <2>1, <2>3, <2>4, <2>7
  <2>9. DOMAIN c = DOMAIN p /\ c[a] = r /\ \A b \in DOMAIN p : b # a => c[b] = p[b]
    BY <2>2, <2>7
  <2>10. Left(c, p, objs, {})
    BY <2>5, <2>6, <2>9, AllAreLeft
  <2> QED BY <2>1, <2>8, <2>10
<1>3. CASE BuildCompleted
  <2>1. PICK k \in ItemsAt(pipeline, "running") :
          pipeline' = [pipeline EXCEPT ![k[1]][k[2]].stage = "done"]
    BY <1>3 DEF BuildCompleted
  <2>2. k \in AllItems(pipeline) /\ "done" \in Stage
    BY DEF ItemsAt, Stage
  <2> QED BY <1>2, <2>1, <2>2
<1>4. CASE MergeCompleted
  <2>1. CASE pipeline' # pipeline
    <3>1. PICK k \in ItemsAt(pipeline, "merging") : \E stage \in {"merged", "done"} :
            pipeline' = [pipeline EXCEPT ![k[1]][k[2]].stage = stage]
      BY <1>4, <2>1 DEF MergeCompleted
    <3>2. PICK stage \in {"merged", "done"} :
            pipeline' = [pipeline EXCEPT ![k[1]][k[2]].stage = stage]
      BY <3>1
    <3>3. k \in AllItems(pipeline) /\ stage \in Stage
      BY DEF ItemsAt, Stage
    <3> QED BY <1>2, <3>2, <3>3
  <2> QED BY <1>1, <2>1
<1>5. CASE Process
  <2>1. PICK p \in Seq(Queues(DOMAIN objs)) : p = pipeline
    BY DEF PipeInv
  <2>2. pipeline' = ProcessQueue(p, objs).pipeline
    BY <1>5, <2>1 DEF Process
  <2> QED BY <2>1, <2>2, ProcessLeaves
<1>6. CASE Gerrit
  <2>1. PICK type, n : Emits(type, n)
    BY <1>6 DEF Gerrit, Upload, Comment, Close
  <2> QED BY <1>1, <2>1 DEF Emits, loopVars
<1>7. CASE \E t \in Thread : Updating(t) \/ Fails(t)
  BY <1>1, <1>7 DEF Updating, Fails, loopVars
<1>8. CASE \/ TakeEvent \/ Deliver \/ WakeUp \/ EndResults \/ TakeTrigger \/ EndEvents \/ Pause
           \/ Reconfigure \/ Start \/ Resume \/ Exit \/ UNCHANGED vars
  BY <1>1, <1>8 DEF TakeEvent, Deliver, WakeUp, EndResults, TakeTrigger, EndEvents, Pause,
                    Reconfigure, Start, Resume, Exit, vars, loopVars
<1> QED BY <1>3, <1>4, <1>5, <1>6, <1>7, <1>8 DEF Next, Connector, Scheduler, Main, Thread

(* What items test is the same when changes are updated.                   *)
LEMMA SameTested ==
  ASSUME NEW m, CacheOk(m), PipeInv, pipeline' = pipeline, NEW t \in Thread, NEW k \in Nat, StepOf(t, m, k),
         NEW D, NEW latest, Expected(pipeline, objs, D, latest)
  PROVE  Expected(pipeline, objs', D, latest)
<1>1. m \in Nat /\ objs \in Objects(m) /\ DOMAIN objs = 1 .. m
  BY DEF CacheOk, Objects
<1>2. \A i \in 1 .. m : NameOf(objs', i) = NameOf(objs, i)
  BY DEF StepOf, Grown
<1>3. PICK p \in Seq(Queues(DOMAIN objs)) : p = pipeline
  BY DEF PipeInv
<1>4. PICK os : os = objs'
  OBVIOUS
<1>5. \A a \in Live(p) : Tested(p, os, a) = Tested(p, objs, a)
  <2> TAKE a \in Live(p)
  <2>1. p[a][Len(p[a])].obj \in 1 .. m
    BY <1>1, TestedAreKeys
  <2> QED BY <1>2, <1>4, <2>1 DEF Tested
<1>6. Expected(p, os, D, latest)
  BY <1>3, <1>5 DEF Expected
<1> QED BY <1>3, <1>4, <1>6

(* Every step keeps it.                                                    *)
LEMMA VersionStep ==
  ASSUME Typed, CountInv, PipeInv, AtWork, VersionInv, [Next]_vars
  PROVE  VersionInv'
<1>0. PICK m : CacheOk(m)
  BY DEF Typed, CacheInv
<1>1. SUFFICES ASSUME Undisturbed'
               PROVE  Announced(Due', gerrit'.latest) /\ Expected(pipeline', objs', Due', gerrit'.latest)
  BY DEF VersionInv
<1>2. Undisturbed /\ "restart" \notin upsets'
  BY <1>1, UpsetsGrow DEF Undisturbed
<1>3. Announced(Due, gerrit.latest) /\ Expected(pipeline, objs, Due, gerrit.latest) /\ InLine /\ DueStep /\ ~Die
  BY <1>1, <1>2, LineStep DEF VersionInv, AtWork, Die
<1>4. CASE HandleTrigger
  <2>1. PICK D : D = Due \ {hand["scheduler"]}
    OBVIOUS
  <2>2. Announced(D, gerrit.latest) /\ Expected(pipeline', objs, D, gerrit.latest)
    BY <1>1, <1>3, <1>4, <2>1, HandledAsExpected
  <2>3. Due' = D
    BY <1>3, <1>4, <2>1, TriggerHandled DEF Settled
  <2>4. objs' = objs /\ gerrit' = gerrit
    BY <1>4, Handling
  <2> QED BY <2>2, <2>3, <2>4
<1>5. ASSUME NEW e, Sent(e), pipeline' = pipeline, objs' = objs
      PROVE  Announced(Due', gerrit'.latest) /\ Expected(pipeline', objs', Due', gerrit'.latest)
  <2>1. PICK latest \in [Number -> Nat] : latest = gerrit.latest
    BY DEF Typed, CacheInv, GerritTyped
  <2>2. PICK new : new = gerrit'.latest
    OBVIOUS
  <2>3. PICK D : D = Due
    OBVIOUS
  <2>4. D \in SUBSET Event
    <3>1. \A f \in Waiting : f \in Event \cup {NoEvent}
      BY DEF Waiting, Handled, Refreshing, ToSet, Typed, EventsTyped, Thread
    <3> QED BY <2>3, <3>1 DEF Due, NoEvent
  <2>5. /\ e \in Event /\ e.id = sent + 1 /\ Due' = D \cup {e} /\ e.key = <<e.key[1], new[e.key[1]]>>
        /\ \/ new = latest
           \/ e.type = "patchset-created" /\ new = [latest EXCEPT ![e.key[1]] = @ + 1]
    BY <1>5, <2>1, <2>2, <2>3 DEF Sent
  <2>6. \A f \in D : f.id < e.id
    <3>1. sent \in Nat /\ \A f \in D : f.id <= sent /\ f.id \in Nat
      BY <1>3, <2>3, <2>4 DEF InLine, Event, Typed, EventsTyped
    <3> QED BY <2>5, <3>1
  <2>7. Announced(D, latest) /\ Expected(pipeline, objs, D, latest)
    BY <1>3, <2>1, <2>3
  <2>8. e.key[2] = new[e.key[1]]
    BY <2>5
  <2>9. /\ Announced(D \cup {e}, new)
        /\ \A key \in Key : NewerDue(key, D, latest) => NewerDue(key, D \cup {e}, new)
    BY <2>4, <2>5, <2>6, <2>7, <2>8, SentIsAnnounced
  <2>10. \A a \in Live(pipeline) : Tested(pipeline, objs, a) \in Key
    BY <1>0, TestedAreKeys DEF CacheOk, PipeInv
  <2>11. Expected(pipeline, objs, D \cup {e}, new)
    BY <2>7, <2>9, <2>10 DEF Expected
  <2> QED BY <1>5, <2>2, <2>5, <2>9, <2>11
<1>6. ASSUME Due' = Due, gerrit'.latest = gerrit.latest, ~HandleTrigger
      PROVE  Announced(Due', gerrit'.latest) /\ Expected(pipeline', objs', Due', gerrit'.latest)
  <2>1. PICK latest : latest = gerrit.latest
    OBVIOUS
  <2>2. PICK D : D = Due
    OBVIOUS
  <2>3. Announced(D, latest) /\ Expected(pipeline, objs, D, latest)
    BY <1>3, <2>1, <2>2
  <2>4. Expected(pipeline', objs', D, latest)
    <3>1. ASSUME pipeline' = pipeline, NEW t \in Thread, NEW k \in Nat, StepOf(t, m, k)
          PROVE  Expected(pipeline', objs', D, latest)
      BY <1>0, <2>3, <3>1, SameTested
    <3>2. CASE objs' = objs
      <4>1. Left(pipeline', pipeline, objs, {})
        BY <1>3, <1>6, <3>2, OthersAreLeft
      <4>2. Expected(pipeline', objs, D, latest)
        BY <2>3, <4>1, LeftAreExpected
      <4> QED BY <3>2, <4>2
    <3> QED BY <1>0, <1>3, <3>1, <3>2, ThreadSteps
  <2> QED BY <1>6, <2>1, <2>2, <2>3, <2>4
<1> QED BY <1>3, <1>4, <1>5, <1>6 DEF DueStep

(* When no event waits, one patchset of a change is tested, whatever came  *)
(* in whatever order - unless a refresh failed, Zuul was restarted, or the *)
(* zuul trigger was late (removeOldVersionsOfChange).                      *)
THEOREM OneVersionIsTested ==
  Spec => []OneVersionLive
<1> DEFINE IInv == Typed /\ CountInv /\ PipeInv /\ AtWork /\ VersionInv
<1>1. Init => IInv
  <2> SUFFICES ASSUME Init PROVE IInv
    OBVIOUS
  <2>1. /\ events = <<>> /\ triggers = <<>> /\ file = <<>> /\ hand = [t \in Thread |-> NoEvent]
        /\ boot = "resumed" /\ pc = "asleep" /\ pipeline = <<>>
    BY DEF Init
  <2>2. CountInv
    BY CountAtFirst
  <2>3. Due = {} /\ Handled = {NoEvent} /\ Refreshing = {NoEvent}
        /\ ToSet(events) = {} /\ ToSet(triggers) = {} /\ ToSet(file) = {}
    BY <2>1 DEF Due, Waiting, Handled, Refreshing, ToSet, NoEvent, Thread
  <2>4. InLine
    <3>1. Rising(events) /\ Rising(triggers) /\ Rising(file)
      BY <2>1 DEF Rising
    <3> QED BY <2>3, <3>1 DEF InLine, Before, NoEvent
  <2>5. AtWork /\ PipeInv
    BY <2>1, <2>4 DEF AtWork, PipeInv
  <2>6. Live(pipeline) = {}
    BY <2>1 DEF Live
  <2>7. VersionInv
    BY <2>3, <2>6 DEF VersionInv, Announced, Expected
  <2> QED BY <2>2, <2>5, <2>7, TypedAtFirst
<1>2. IInv /\ [Next]_vars => IInv'
  <2> SUFFICES ASSUME IInv, [Next]_vars PROVE IInv'
    OBVIOUS
  <2>1. Typed' /\ CountInv' /\ PipeInv'
    BY TypedStep, CountStep, PipeStep
  <2>2. AtWork' /\ VersionInv'
    BY LineStep, VersionStep
  <2> QED BY <2>1, <2>2
<1>3. IInv => OneVersionLive
  <2> SUFFICES ASSUME Typed, PipeInv, VersionInv, Undisturbed,
                      events \o triggers \o file = <<>>, hand = [t \in Thread |-> NoEvent],
                      NEW k \in LiveItems(pipeline), NEW l \in LiveItems(pipeline),
                      objs[pipeline[k[1]][k[2]].obj].num = objs[pipeline[l[1]][l[2]].obj].num
               PROVE  k = l
    BY DEF OneVersionLive, Undisturbed
  <2>0. PICK m : CacheOk(m)
    BY DEF Typed, CacheInv
  <2>1. events = <<>> /\ triggers = <<>> /\ file = <<>>
    BY DEF Typed, EventsTyped
  <2>2. Due = {}
    BY <2>1 DEF Due, Waiting, Handled, Refreshing, ToSet, NoEvent, Thread
  <2>3. PICK p \in Seq(Queues(DOMAIN objs)) : p = pipeline
    BY DEF PipeInv
  <2>4. /\ k[1] \in Live(p) /\ k = <<k[1], Len(p[k[1]])>>
        /\ l[1] \in Live(p) /\ l = <<l[1], Len(p[l[1]])>>
    BY <2>3, LiveAreLast
  <2>5. PICK a, b : a = k[1] /\ b = l[1]
    OBVIOUS
  <2>6. PICK x \in Key, y \in Key : x = Tested(p, objs, a) /\ y = Tested(p, objs, b)
    BY <2>0, <2>4, <2>5, TestedAreKeys DEF CacheOk
  <2>7. k[2] = Len(p[a]) /\ l[2] = Len(p[b])
    BY <2>4, <2>5
  <2>8. x[1] = y[1]
    BY <2>3, <2>5, <2>6, <2>7 DEF Tested, NameOf
  <2>9. \A z \in {x, y} : z[2] \in Nat /\ z[1] \in Number /\ gerrit.latest[z[1]] \in Nat
    BY DEF Key, Typed, CacheInv, GerritTyped
  <2>10. NewerDue(x, {}, gerrit.latest) /\ NewerDue(y, {}, gerrit.latest)
    BY <2>2, <2>3, <2>4, <2>5, <2>6 DEF VersionInv, Expected
  <2>11. \A z \in {x, y} : z[2] = gerrit.latest[z[1]]
    <3> TAKE z \in {x, y}
    <3>1. NewerDue(z, {}, gerrit.latest)
      BY <2>10
    <3>2. z[2] <= gerrit.latest[z[1]] /\ z[2] + 1 .. gerrit.latest[z[1]] = {}
      BY <3>1 DEF NewerDue
    <3>3. ASSUME z[2] < gerrit.latest[z[1]] PROVE FALSE
      <4>1. gerrit.latest[z[1]] \in z[2] + 1 .. gerrit.latest[z[1]]
        BY <2>9, <3>3
      <4> QED BY <3>2, <4>1
    <3> QED BY <2>9, <3>2, <3>3
  <2>12. x = y
    BY <2>8, <2>11 DEF Key
  <2>13. a = b
    BY <2>2, <2>3, <2>4, <2>5, <2>6, <2>12 DEF VersionInv, Expected
  <2> QED BY <2>4, <2>5, <2>13
<1> QED BY <1>1, <1>2, <1>3, PTL DEF Spec

-----------------------------------------------------------------------------
(* Needs without a cycle: every set of changes has one that needs none of  *)
(* the set.  Two changes are apart if a walk along the needs from the one  *)
(* does not come to the other: there is a set of changes that holds the    *)
(* one but not the other, and needs nothing outside of it.                 *)
Acyclic(os) == \A S \in (SUBSET DOMAIN os) \ {{}} : \E o \in S : os[o].needs \cap S = {}
Apart(os, o, b) ==
  \E C \in SUBSET DOMAIN os : o \in C /\ b \notin C /\ \A c \in C : os[c].needs \subseteq C

(* No change needs more than it did, and the new ones need nothing.        *)
Thinned(os, ps) ==
  /\ DOMAIN os \subseteq DOMAIN ps
  /\ \A i \in DOMAIN os : ps[i].needs \subseteq os[i].needs
  /\ \A i \in DOMAIN ps \ DOMAIN os : ps[i].needs = {}

(* With fewer needs, what was apart stays apart, ...                       *)
LEMMA ThinnedApart ==
  ASSUME NEW os, NEW ps, Thinned(os, ps), NEW o, NEW b, Apart(os, o, b)
  PROVE  Apart(ps, o, b)
<1>1. PICK C \in SUBSET DOMAIN os : o \in C /\ b \notin C /\ \A c \in C : os[c].needs \subseteq C
  BY DEF Apart
<1>2. C \in SUBSET DOMAIN ps /\ \A c \in C : ps[c].needs \subseteq C
  BY <1>1 DEF Thinned
<1> QED BY <1>1, <1>2 DEF Apart

(* ... and no cycle comes to be.                                           *)
LEMMA ThinnedAcyclic ==
  ASSUME NEW os, NEW ps, Thinned(os, ps), Acyclic(os)
  PROVE  Acyclic(ps)
<1> SUFFICES ASSUME NEW S \in (SUBSET DOMAIN ps) \ {{}} PROVE \E o \in S : ps[o].needs \cap S = {}
  BY DEF Acyclic
<1>1. CASE S \subseteq DOMAIN os
  <2>1. PICK o \in S : os[o].needs \cap S = {}
    BY <1>1 DEF Acyclic
  <2> QED BY <1>1, <2>1 DEF Thinned
<1>2. CASE ~(S \subseteq DOMAIN os)
  BY <1>2 DEF Thinned
<1> QED BY <1>1, <1>2

(* A change gets needs from which no walk comes to it: a cycle would go    *)
(* through the change, and on from one of those, but there it cannot leave *)
(* what the change is not in.                                              *)
LEMMA NeedsTaken ==
  ASSUME NEW os, NEW ps, NEW b, DOMAIN ps = DOMAIN os,
         \A i \in DOMAIN os : i # b => ps[i].needs = os[i].needs,
         \A g \in ps[b].needs : Apart(os, g, b), Acyclic(os)
  PROVE  Acyclic(ps)
<1> SUFFICES ASSUME NEW S \in (SUBSET DOMAIN os) \ {{}}, \A x \in S : ps[x].needs \cap S # {}
             PROVE  FALSE
  BY DEF Acyclic
<1>1. PICK x \in S : os[x].needs \cap S = {}
  BY DEF Acyclic
<1>2. x = b /\ b \in S
  BY <1>1
<1>3. PICK g \in S : g \in ps[b].needs
  BY <1>2
<1>4. PICK C \in SUBSET DOMAIN os : g \in C /\ b \notin C /\ \A c \in C : os[c].needs \subseteq C
  BY <1>3 DEF Apart
<1>5. PICK T : T = S \cap C
  OBVIOUS
<1>6. T \in (SUBSET DOMAIN os) \ {{}}
  BY <1>3, <1>4, <1>5
<1>7. PICK y \in T : os[y].needs \cap T = {}
  BY <1>6 DEF Acyclic
<1>8. y \in S /\ y \in C /\ y # b
  BY <1>4, <1>5, <1>7
<1>9. PICK z \in S : z \in os[y].needs
  BY <1>8
<1>10. z \in C
  BY <1>4, <1>8, <1>9
<1> QED BY <1>5, <1>7, <1>9, <1>10

(* detect_cycle: if it finds nothing, a walk from o does not come to any   *)
(* change with a number of the past.                                       *)
LEMMA WalkIsClear ==
  ASSUME NEW os, NEW o \in DOMAIN os, NEW past, ~HasCycle(os, o, past),
         \A i \in DOMAIN os : os[i].needs \subseteq DOMAIN os,
         NEW b, os[b].num \in past, os[o].num \notin past
  PROVE  Apart(os, o, b)
<1>1. PICK closed : closed = {C \in SUBSET DOMAIN os : \A c \in C : os[c].needs \subseteq C}
  OBVIOUS
<1>2. PICK A : A = {d \in DOMAIN os : \A C \in closed : os[o].needs \subseteq C => d \in C}
  OBVIOUS
<1>3. \A d \in A : os[d].num \notin past
  BY <1>1, <1>2 DEF HasCycle
<1>4. PICK C : C = {o} \cup A
  OBVIOUS
<1>5. os[o].needs \subseteq A
  BY <1>2
<1>6. ASSUME NEW d \in A PROVE os[d].needs \subseteq A
  <2> SUFFICES ASSUME NEW e \in os[d].needs PROVE e \in A
    OBVIOUS
  <2>1. d \in DOMAIN os /\ e \in DOMAIN os
    BY <1>2
  <2>2. ASSUME NEW K \in closed, os[o].needs \subseteq K PROVE e \in K
    <3>1. d \in K
      BY <1>2, <2>2
    <3>2. os[d].needs \subseteq K
      BY <1>1, <3>1
    <3> QED BY <3>2
  <2> QED BY <1>2, <2>1, <2>2
<1>7. C \in SUBSET DOMAIN os /\ o \in C /\ b \notin C
  BY <1>2, <1>3, <1>4
<1>8. \A c \in C : os[c].needs \subseteq C
  BY <1>4, <1>5, <1>6
<1> QED BY <1>7, <1>8 DEF Apart

-----------------------------------------------------------------------------
(* What a call has got to need, it is sure of: no walk from there comes to *)
(* its own change.                                                         *)
Sure(os, f) == f.phase = "needs" => \A o \in f.got : Apart(os, o, f.obj)
Walked(s) == \A i \in DOMAIN s.calls : Sure(s.objs, s.calls[i])

(* A thread that gives no change more needs stays sure.                    *)
Calm(s, r) == Thinned(s.objs, r.objs) /\ (Strict(s) /\ Walked(s) => Walked(r))

(* What does not change is thinned.                                        *)
LEMMA SameThinned ==
  ASSUME NEW os
  PROVE  Thinned(os, os)
BY DEF Thinned

(* One such change after another.                                          *)
LEMMA CalmAgain ==
  ASSUME NEW s, NEW q, NEW r, Calm(s, q), Strict(s) => Strict(q), Calm(q, r)
  PROVE  Calm(s, r)
<1>1. Thinned(s.objs, r.objs)
  <2>1. PICK os, qs, rs : os = s.objs /\ qs = q.objs /\ rs = r.objs
    OBVIOUS
  <2>2. Thinned(os, qs) /\ Thinned(qs, rs)
    BY <2>1 DEF Calm
  <2>3. Thinned(os, rs)
    BY <2>2 DEF Thinned
  <2> QED BY <2>1, <2>3
<1> QED BY <1>1 DEF Calm

(* An exception.                                                           *)
LEMMA RaiseIsCalm ==
  ASSUME NEW m \in Nat, NEW s, NEW others, Good(s, m, others)
  PROVE  Calm(s, Raise(s))
<1>1. PICK r : r = Raise(s)
  OBVIOUS
<1>2. r.objs = s.objs /\ r.calls = <<>>
  BY <1>1, RaiseIsGood DEF Good
<1>3. Walked(r)
  BY <1>2 DEF Walked
<1> QED BY <1>1, <1>2, <1>3, SameThinned DEF Calm

(* The last call goes on, sure of what it has got.                         *)
LEMMA TopIsCalm ==
  ASSUME NEW m \in Nat, NEW s, NEW others, Good(s, m, others), s.calls # <<>>,
         NEW f \in Frame(m), Strict(s) /\ Walked(s) => Sure(s.objs, f)
  PROVE  Calm(s, WithTop(s, f))
<1>1. PICK r : r = WithTop(s, f)
  OBVIOUS
<1>2. s \in State(m)
  BY DEF Good
<1>3. PICK c : c = Append(Front(s.calls), f)
  OBVIOUS
<1>4. /\ s.calls \in Seq(Frame(m)) /\ DOMAIN c = DOMAIN s.calls
      /\ c[Len(s.calls)] = f /\ \A i \in DOMAIN s.calls : i # Len(s.calls) => c[i] = s.calls[i]
  BY <1>2, <1>3, LastReplaced, TopIsTyped
<1>5. r.objs = s.objs /\ r.calls = c
  BY <1>1, <1>2, <1>3 DEF WithTop, State
<1>6. Strict(s) /\ Walked(s) => Walked(r)
  BY <1>4, <1>5 DEF Walked
<1> QED BY <1>1, <1>5, <1>6, SameThinned DEF Calm

(* The last call is over.                                                  *)
LEMMA PoppedIsCalm ==
  ASSUME NEW m \in Nat, NEW s, NEW others, Good(s, m, others), s.calls # <<>>
  PROVE  Calm(s, Popped(s))
<1>1. PICK r : r = Popped(s)
  OBVIOUS
<1>2. s \in State(m)
  BY DEF Good
<1>3. PICK c : c = Front(s.calls)
  OBVIOUS
<1>4. /\ s.calls \in Seq(Frame(m)) /\ DOMAIN c \subseteq DOMAIN s.calls
      /\ \A i \in DOMAIN c : c[i] = s.calls[i]
  <2>1. s.calls \in Seq(Frame(m)) /\ DOMAIN s.calls = 1 .. Len(s.calls) /\ Len(s.calls) \in Nat
    BY <1>2, TopIsTyped
  <2>2. DOMAIN c = 1 .. Len(s.calls) - 1 /\ \A i \in 1 .. Len(s.calls) - 1 : c[i] = s.calls[i]
    BY <1>3, <2>1, WithoutLast
  <2> QED BY <2>1, <2>2
<1>5. r.objs = s.objs /\ r.calls = c
  BY <1>1, <1>2, <1>3 DEF Popped, State
<1>6. Walked(s) => Walked(r)
  BY <1>4, <1>5 DEF Walked
<1> QED BY <1>1, <1>5, <1>6, SameThinned DEF Calm

(* A call gets a change it was free to ask for, after a walk from there.   *)
LEMMA ReturnIsCalm ==
  ASSUME NEW m \in Nat, NEW s, NEW others, Good(s, m, others), NEW o \in 1 .. m,
         s.calls # <<>> => Top(s).phase \in {"needs", "neededBy"},
         Strict(s) => Free(s, s.objs[o].num)
  PROVE  Calm(s, Return(s, o))
<1>1. s \in State(m) /\ s.objs \in [1 .. m -> Change(m)] /\ s.objs \in Objects(m)
  BY DEF Good, State, Objects
<1>2. CASE s.calls = <<>>
  <2>1. PICK r : r = Return(s, o)
    OBVIOUS
  <2>2. r.objs = s.objs /\ r.calls = s.calls
    BY <1>1, <1>2, <2>1 DEF Return, State
  <2> QED BY <2>1, <2>2, SameThinned DEF Calm, Walked
<1>3. CASE Return(s, o) = Raise(s)
  BY <1>3, RaiseIsCalm
<1>4. CASE s.calls # <<>> /\ Return(s, o) # Raise(s)
  <2>1. PICK f : f = Top(s)
    OBVIOUS
  <2>2. /\ f \in Frame(m) /\ f = s.calls[Len(s.calls)] /\ Len(s.calls) \in DOMAIN s.calls
    BY <1>1, <1>4, <2>1, TopIsTyped
  <2>3. CASE f.phase = "needs"
    <3>1. /\ Return(s, o) = WithTop(s, [f EXCEPT !.got = IF s.objs[o].merged THEN @ ELSE @ \cup {o}])
          /\ ~HasCycle(s.objs, o, f.history)
      BY <1>4, <2>1, <2>3 DEF Return
    <3>2. PICK g : g = [f EXCEPT !.got = IF s.objs[o].merged THEN @ ELSE @ \cup {o}]
      OBVIOUS
    <3>3. g \in Frame(m) /\ g.obj = f.obj /\ g.phase = "needs" /\ g.got \subseteq f.got \cup {o}
      BY <2>2, <2>3, <3>2 DEF Frame
    <3>4. ASSUME Strict(s), Walked(s) PROVE Sure(s.objs, g)
      <4>1. s.objs[f.obj].num \in f.history /\ s.objs[o].num \notin f.history
        BY <1>4, <2>1, <2>2, <2>3, <3>4 DEF Strict, Careful, Free
      <4>2. \A i \in DOMAIN s.objs : s.objs[i].needs \subseteq DOMAIN s.objs
        <5>1. DOMAIN s.objs = 1 .. m /\ \A i \in 1 .. m : s.objs[i] \in Change(m)
          BY <1>1
        <5> QED BY <5>1 DEF Change
      <4>3. Apart(s.objs, o, f.obj)
        <5>1. PICK os : os = s.objs
          OBVIOUS
        <5>2. o \in DOMAIN os
          BY <1>1, <5>1
        <5>3. Apart(os, o, f.obj)
          BY <3>1, <4>1, <4>2, <5>1, <5>2, WalkIsClear
        <5> QED BY <5>1, <5>3
      <4>4. \A d \in f.got : Apart(s.objs, d, f.obj)
        BY <2>2, <2>3, <3>4 DEF Walked, Sure
      <4> QED BY <3>3, <4>3, <4>4 DEF Sure
    <3> QED BY <1>4, <3>1, <3>2, <3>3, <3>4, TopIsCalm
  <2>4. CASE f.phase = "neededBy"
    <3>1. Return(s, o) = WithTop(s, [f EXCEPT !.got =
                            IF s.objs[o].merged \/ ~s.objs[o].current THEN @ ELSE @ \cup {o}])
      BY <1>4, <2>1, <2>4 DEF Return
    <3>2. PICK g : g = [f EXCEPT !.got = IF s.objs[o].merged \/ ~s.objs[o].current THEN @ ELSE @ \cup {o}]
      OBVIOUS
    <3>3. g \in Frame(m) /\ g.phase = "neededBy"
      BY <2>2, <2>4, <3>2 DEF Frame
    <3> QED BY <1>4, <3>1, <3>2, <3>3, TopIsCalm DEF Sure
  <2> QED BY <1>4, <2>1, <2>3, <2>4
<1> QED BY <1>2, <1>3, <1>4

(* A call for a change it is free to ask for.                              *)
LEMMA GetChangeIsCalm ==
  ASSUME NEW m \in Nat, NEW s, NEW others, Good(s, m, others),
         s.calls # <<>> => Top(s).phase \in {"needs", "neededBy"},
         NEW key \in Key, NEW refresh \in BOOLEAN, NEW past \in SUBSET Number,
         Strict(s) => Free(s, key[1])
  PROVE  Calm(s, GetChange(s, key, refresh, past))
<1>1. s \in State(m) /\ Named(s)
  BY DEF Good
<1>2. key \in DOMAIN s.cache => s.cache[key] \in 1 .. m /\ NameOf(s.objs, s.cache[key]) = key
  BY <1>1, CacheIsTyped DEF State, Named
<1>3. CASE key \in DOMAIN s.cache /\ ~refresh
  <2>1. PICK o \in 1 .. m : o = s.cache[key]
    BY <1>2, <1>3
  <2>2. GetChange(s, key, refresh, past) = Return(s, o)
    BY <1>3, <2>1 DEF GetChange
  <2>3. s.objs[o].num = key[1]
    BY <1>2, <1>3, <2>1 DEF NameOf
  <2> QED BY <2>2, <2>3, ReturnIsCalm
<1>4. CASE ~(key \in DOMAIN s.cache /\ ~refresh)
  <2>1. PICK r : r = GetChange(s, key, refresh, past)
    OBVIOUS
  <2>2. PICK k, os, o, f : Made(s, r, m, others, k, os, o, f, key)
    BY <1>4, <2>1, CallIsMade
  <2>3. /\ r = Called(s, os, o, f, key) /\ f.phase = "query"
        /\ k \in Nat /\ m <= k /\ os \in Objects(k) /\ s.objs \in Objects(m)
        /\ \A i \in 1 .. m : os[i] = s.objs[i]
        /\ \A i \in 1 .. k : i \notin 1 .. m => os[i] = NewObject(key)
    BY <1>1, <2>2 DEF Made, CanCall, State
  <2>4. Thinned(s.objs, os)
    <3>1. DOMAIN os = 1 .. k /\ DOMAIN s.objs = 1 .. m /\ 1 .. m \subseteq 1 .. k
      BY <2>3 DEF Objects
    <3>2. NewObject(key).needs = {}
      BY DEF NewObject
    <3> QED BY <2>3, <3>1, <3>2 DEF Thinned
  <2>6. r.objs = os /\ r.calls = Append(s.calls, f)
    BY <1>1, <2>3 DEF Called, State
  <2>7. ASSUME Walked(s) PROVE Walked(r)
    <3>1. s.calls \in Seq(Frame(m))
      BY <1>1 DEF State, Stacks
    <3>2. \A i \in DOMAIN r.calls : (i \in DOMAIN s.calls /\ r.calls[i] = s.calls[i]) \/ r.calls[i] = f
      BY <2>6, <3>1
    <3>3. ASSUME NEW i \in DOMAIN s.calls PROVE Sure(os, s.calls[i])
      <4>1. Sure(s.objs, s.calls[i])
        BY <2>7 DEF Walked
      <4> QED BY <2>4, <4>1, ThinnedApart DEF Sure
    <3>4. Sure(os, f)
      BY <2>3 DEF Sure
    <3> QED BY <2>6, <3>2, <3>3, <3>4 DEF Walked
  <2> QED BY <2>1, <2>4, <2>6, <2>7 DEF Calm
<1> QED BY <1>3, <1>4

(* An object gets new values, but no new needs.                            *)
LEMMA SettingIsCalm ==
  ASSUME NEW m, NEW s, NEW others, NEW o, NEW c, CanSet(s, m, others, o, c),
         c.needs \subseteq s.objs[o].needs
  PROVE  Calm(s, SetObject(s, o, c))
<1>1. s \in State(m) /\ m \in Nat /\ o \in 1 .. m
  BY DEF CanSet, Good
<1>2. PICK os : os = [s.objs EXCEPT ![o] = c]
  OBVIOUS
<1>3. s.objs \in [1 .. m -> Change(m)]
  BY <1>1 DEF State, Objects
<1>4. PICK r : r = SetObject(s, o, c)
  OBVIOUS
<1>5. r.objs = os /\ r.calls = s.calls
  BY <1>1, <1>2, <1>4 DEF SetObject, State
<1>6. DOMAIN os = DOMAIN s.objs /\ \A i \in DOMAIN os : os[i].needs \subseteq s.objs[i].needs
  BY <1>1, <1>2, <1>3
<1>7. Thinned(s.objs, os)
  BY <1>6 DEF Thinned
<1>8. ASSUME Walked(s) PROVE Walked(r)
  <2>1. ASSUME NEW i \in DOMAIN s.calls PROVE Sure(os, s.calls[i])
    <3>1. Sure(s.objs, s.calls[i])
      BY <1>8 DEF Walked
    <3> QED BY <1>7, <3>1, ThinnedApart DEF Sure
  <2> QED BY <1>5, <2>1 DEF Walked
<1> QED BY <1>4, <1>5, <1>7, <1>8 DEF Calm

-----------------------------------------------------------------------------
(* The steps of an update that give no change more needs.                  *)
Calmly(t) == \E r : Becomes(t, r) /\ Calm(Own(t), r)

(* A call returns its change.                                              *)
LEMMA ReturningIsCalm ==
  ASSUME NEW m \in Nat, NEW s, NEW others, Good(s, m, others), s.calls # <<>>,
         s.objs[Top(s).obj].whole
  PROVE  Calm(s, Return(Popped(s), Top(s).obj))
<1>1. PICK p : p = Popped(s)
  OBVIOUS
<1>2. /\ Good(p, m, others) /\ p.objs = s.objs
      /\ p.calls # <<>> => Top(p).phase \in {"needs", "neededBy"}
      /\ Strict(s) => Strict(p)
      /\ Strict(s) => Free(p, s.objs[Top(s).obj].num)
  BY <1>1, TopReturns
<1>3. PICK o : o = Top(s).obj
  OBVIOUS
<1>4. o \in 1 .. m
  BY <1>3, TopIsTyped DEF Good, Frame
<1>5. Calm(s, p)
  BY <1>1, PoppedIsCalm
<1>6. ASSUME Strict(s) PROVE Calm(p, Return(p, o))
  BY <1>2, <1>3, <1>4, <1>6, ReturnIsCalm
<1>7. Thinned(s.objs, Return(p, o).objs)
  BY <1>2, <1>4, ReturnIsGood, SameThinned
<1>8. Strict(s) => Calm(s, Return(p, o))
  BY <1>2, <1>5, <1>6, CalmAgain
<1>9. Calm(s, Return(p, o))
  BY <1>7, <1>8 DEF Calm
<1> QED BY <1>1, <1>3, <1>9

(* The change itself is queried, ...                                       *)
LEMMA QueryIsCalm ==
  ASSUME NEW m \in Nat, NEW t \in Thread, NEW others, Good(Own(t), m, others), GerritTyped,
         Query(t)
  PROVE  Calmly(t)
<1>1. PICK s : s = Own(t)
  OBVIOUS
<1>2. PICK f : f = Top(s)
  OBVIOUS
<1>3. Good(s, m, others) /\ s.calls # <<>> /\ f.phase = "query"
  BY <1>1, <1>2 DEF Query, Calling, Own
<1>4. /\ f \in Frame(m) /\ f.obj \in 1 .. m
  BY <1>2, <1>3, TopIsTyped DEF Good, Frame
<1>5. PICK o \in 1 .. m : o = f.obj
  BY <1>4
<1>6. s \in State(m) /\ s.objs \in [1 .. m -> Change(m)] /\ s.objs[o] \in Change(m)
  BY <1>3 DEF Good, State, Objects
<1>7. PICK n : n = s.objs[o].num
  OBVIOUS
<1>8. n \in Number
  BY <1>6, <1>7 DEF Change
<1>9. PICK merged \in BOOLEAN : merged = (gerrit.status[n] = "merged")
  OBVIOUS
<1>10. PICK current \in BOOLEAN : current = (s.objs[o].ps = gerrit.latest[n])
  OBVIOUS
<1>11. PICK c : c = [s.objs[o] EXCEPT !.whole = TRUE, !.merged = merged, !.current = current]
  OBVIOUS
<1>12. /\ c \in Change(m) /\ c.num = s.objs[o].num /\ c.ps = s.objs[o].ps /\ c.whole
       /\ c.needs = s.objs[o].needs /\ c.neededBy = s.objs[o].neededBy
  BY <1>6, <1>11 DEF Change
<1>13. PICK q : q = SetObject(s, o, c)
  OBVIOUS
<1>14. q = [s EXCEPT !.objs[f.obj].whole = TRUE, !.objs[f.obj].merged = merged,
                     !.objs[f.obj].current = (s.objs[f.obj].ps = gerrit.latest[n])]
  BY <1>5, <1>6, <1>10, <1>11, <1>13 DEF State, SetObject
<1>20. CanSet(s, m, others, o, c)
  BY <1>3, <1>12 DEF CanSet
<1>15. /\ Good(q, m, others) /\ q.objs[o] = c /\ q.calls = s.calls
       /\ Strict(s) => Strict(q)
  <2>1. Strict(s) => \A d \in c.needs : s.objs[d].num # c.num
    BY <1>6, <1>12 DEF Strict, NoLoops
  <2> QED BY <1>13, <1>20, <2>1, ObjectSet
<1>16. q.calls # <<>> /\ Top(q) = f /\ q.objs[Top(q).obj].whole
  BY <1>2, <1>3, <1>5, <1>12, <1>15 DEF Top
<1>17. PICK r : r = IF merged THEN Return(Popped(q), f.obj)
                    ELSE WithTop(q, [f EXCEPT !.history = @ \cup {n}, !.phase = "depends",
                                              !.deps = gerrit.needs[n]])
  OBVIOUS
<1>18. Becomes(t, r)
  BY <1>1, <1>2, <1>5, <1>7, <1>9, <1>14, <1>17 DEF Query, Popped
<1>19. Calm(q, r)
  <2>1. CASE merged
    BY <1>15, <1>16, <1>17, <2>1, ReturningIsCalm
  <2>2. CASE ~merged
    <3>1. PICK g : g = [f EXCEPT !.history = @ \cup {n}, !.phase = "depends", !.deps = gerrit.needs[n]]
      OBVIOUS
    <3>2. g \in Frame(m) /\ g.phase = "depends"
      <4>1. gerrit.needs[n] \in SUBSET Number /\ "depends" \in Phase
        BY <1>8 DEF GerritTyped, Phase
      <4> QED BY <1>4, <1>8, <3>1, <4>1 DEF Frame
    <3> QED BY <1>15, <1>16, <1>17, <2>2, <3>1, <3>2, TopIsCalm DEF Sure
  <2> QED BY <2>1, <2>2
<1>21. Calm(s, q)
  BY <1>12, <1>13, <1>20, SettingIsCalm
<1>22. Calm(s, r)
  BY <1>15, <1>19, <1>21, CalmAgain
<1> QED BY <1>1, <1>18, <1>22 DEF Calmly

(* ... then what it depends on, ...                                        *)
LEMMA DependsIsCalm ==
  ASSUME NEW m \in Nat, NEW t \in Thread, NEW others, Good(Own(t), m, others), GerritTyped,
         Depends(t)
  PROVE  Calmly(t)
<1>1. PICK s : s = Own(t)
  OBVIOUS
<1>2. PICK f : f = Top(s)
  OBVIOUS
<1>3. Calling(t, "depends")
  BY DEF Depends
<1>4. /\ Good(s, m, others) /\ s.calls # <<>> /\ f \in Frame(m)
      /\ f.phase = "depends" /\ (Strict(s) => Careful(s.objs, f))
  BY <1>1, <1>2, <1>3, CallingIs
<1>5. PICK g : g = [f EXCEPT !.phase = "needs", !.todo = {Latest(n) : n \in f.deps}]
  OBVIOUS
<1>6. g \in Frame(m) /\ g.got = f.got
  <2>1. f.deps \in SUBSET Number
    BY <1>4 DEF Frame
  <2>2. PICK K : K = {Latest(n) : n \in f.deps}
    OBVIOUS
  <2>3. K \in SUBSET Key /\ "needs" \in Phase
    BY <2>1, <2>2, LatestIsKey DEF Phase
  <2>4. g = [f EXCEPT !.phase = "needs", !.todo = K]
    BY <1>5, <2>2
  <2> QED BY <1>4, <2>3, <2>4 DEF Frame
<1>7. Strict(s) => Sure(s.objs, g)
  BY <1>4, <1>6 DEF Careful, Sure
<1>8. Calm(s, WithTop(s, g))
  BY <1>4, <1>6, <1>7, TopIsCalm
<1>9. Becomes(t, WithTop(s, g))
  BY <1>1, <1>2, <1>5 DEF Depends
<1> QED BY <1>1, <1>8, <1>9 DEF Calmly

(* A call for a change, from a call that goes on.                          *)
LEMMA CallingIsCalm ==
  ASSUME NEW m \in Nat, NEW s, NEW others, Good(s, m, others), s.calls # <<>>,
         NEW f \in Frame(m), f.obj = Top(s).obj, f.phase \in {"needs", "neededBy"},
         s.objs[f.obj].whole, Strict(s) => Careful(s.objs, f),
         Walked(s) => Sure(s.objs, f),
         NEW key \in Key, NEW refresh \in BOOLEAN, NEW past \in SUBSET Number
  PROVE  /\ (f.phase = "needs" => key[1] \notin f.history) =>
              Calm(s, GetChange(WithTop(s, f), key, refresh, past))
         /\ Calm(s, Raise(WithTop(s, f)))
<1>1. PICK p : p = WithTop(s, f)
  OBVIOUS
<1>2. f.phase # "query"
  OBVIOUS
<1>3. Good(p, m, others) /\ p.calls # <<>> /\ Top(p) = f /\ (Strict(s) => Strict(p))
  BY <1>1, <1>2, TopGoesOn DEF Good
<1>4. Calm(s, p)
  BY <1>1, TopIsCalm
<1>5. Calm(s, Raise(p))
  BY <1>3, <1>4, RaiseIsCalm, CalmAgain
<1>6. ASSUME f.phase = "needs" => key[1] \notin f.history
      PROVE  Calm(s, GetChange(p, key, refresh, past))
  <2>1. Free(p, key[1])
    BY <1>3, <1>6 DEF Free
  <2>2. Calm(p, GetChange(p, key, refresh, past))
    BY <1>3, <2>1, GetChangeIsCalm
  <2> QED BY <1>3, <1>4, <2>2, CalmAgain
<1> QED BY <1>1, <1>5, <1>6

(* ... a change that it needs is asked for, ...                            *)
LEMMA GetNeededIsCalm ==
  ASSUME NEW m \in Nat, NEW t \in Thread, NEW others, Good(Own(t), m, others), GetNeeded(t)
  PROVE  Calmly(t)
<1>1. PICK s : s = Own(t)
  OBVIOUS
<1>2. PICK f : f = Top(s)
  OBVIOUS
<1>3. Calling(t, "needs")
  BY DEF GetNeeded
<1>4. /\ Good(s, m, others) /\ s.calls # <<>> /\ f \in Frame(m) /\ s.objs[f.obj].whole
      /\ f.phase = "needs" /\ (Strict(s) => Careful(s.objs, f))
      /\ Walked(s) => Sure(s.objs, f)
  <2>1. Good(s, m, others) /\ s.calls # <<>>
    BY <1>1, <1>2, <1>3, CallingIs
  <2>2. f = s.calls[Len(s.calls)] /\ Len(s.calls) \in DOMAIN s.calls
    BY <1>2, <2>1, TopIsTyped DEF Good
  <2>3. Walked(s) => Sure(s.objs, f)
    BY <2>2 DEF Walked
  <2> QED BY <1>1, <1>2, <1>3, <2>3, CallingIs
<1>5. PICK key \in f.todo :
        LET p == WithTop(Own(t), [f EXCEPT !.todo = @ \ {key}])
        IN Becomes(t, IF key[1] \in f.history THEN Raise(p) ELSE GetChange(p, key, FALSE, f.history))
  BY <1>1, <1>2 DEF GetNeeded
<1>6. PICK g : g = [f EXCEPT !.todo = @ \ {key}]
  OBVIOUS
<1>7. /\ g \in Frame(m) /\ g.obj = f.obj /\ g.phase = "needs" /\ g.got = f.got
      /\ key \in Key /\ f.history \in SUBSET Number /\ g.history = f.history
  BY <1>4, <1>5, <1>6 DEF Frame
<1>8. /\ g.obj = Top(s).obj /\ g.phase \in {"needs", "neededBy"} /\ s.objs[g.obj].whole
  BY <1>2, <1>4, <1>7
<1>9. FALSE \in BOOLEAN
  OBVIOUS
<1>12. (Strict(s) => Careful(s.objs, g)) /\ (Walked(s) => Sure(s.objs, g))
  BY <1>4, <1>7 DEF Careful, Sure
<1>10. /\ key[1] \notin f.history =>
            Calm(s, GetChange(WithTop(s, g), key, FALSE, f.history))
       /\ Calm(s, Raise(WithTop(s, g)))
  BY <1>4, <1>7, <1>8, <1>9, <1>12, CallingIsCalm
<1>11. Becomes(t, IF key[1] \in f.history THEN Raise(WithTop(s, g))
                  ELSE GetChange(WithTop(s, g), key, FALSE, f.history))
  BY <1>1, <1>5, <1>6
<1> QED BY <1>1, <1>10, <1>11 DEF Calmly

(* ... or one that needs it, ...                                           *)
LEMMA GetDependentIsCalm ==
  ASSUME NEW m \in Nat, NEW t \in Thread, NEW others, Good(Own(t), m, others), GetDependent(t)
  PROVE  Calmly(t)
<1>1. PICK s : s = Own(t)
  OBVIOUS
<1>2. PICK f : f = Top(s)
  OBVIOUS
<1>3. Calling(t, "neededBy")
  BY DEF GetDependent
<1>4. /\ Good(s, m, others) /\ s.calls # <<>> /\ f \in Frame(m) /\ s.objs[f.obj].whole
      /\ f.phase = "neededBy" /\ (Strict(s) => Careful(s.objs, f))
  BY <1>1, <1>2, <1>3, CallingIs
<1>5. PICK key \in f.todo :
        Becomes(t, GetChange(WithTop(Own(t), [f EXCEPT !.todo = @ \ {key}]), key, RefreshDependents, {}))
  BY <1>1, <1>2 DEF GetDependent
<1>6. PICK g : g = [f EXCEPT !.todo = @ \ {key}]
  OBVIOUS
<1>7. /\ g \in Frame(m) /\ g.obj = f.obj /\ g.phase = "neededBy" /\ g.got = f.got
      /\ key \in Key /\ g.history = f.history
  BY <1>4, <1>5, <1>6 DEF Frame
<1>8. /\ g.obj = Top(s).obj /\ g.phase \in {"needs", "neededBy"} /\ s.objs[g.obj].whole
  BY <1>2, <1>4, <1>7
<1>9. RefreshDependents \in BOOLEAN /\ {} \in SUBSET Number
  BY DEF RefreshDependents
<1>12. (Strict(s) => Careful(s.objs, g)) /\ (Walked(s) => Sure(s.objs, g))
  BY <1>4, <1>7 DEF Careful, Sure
<1>10. Calm(s, GetChange(WithTop(s, g), key, RefreshDependents, {}))
  BY <1>4, <1>7, <1>8, <1>9, <1>12, CallingIsCalm
<1>11. Becomes(t, GetChange(WithTop(s, g), key, RefreshDependents, {}))
  BY <1>1, <1>5, <1>6
<1> QED BY <1>1, <1>10, <1>11 DEF Calmly

(* ... and the call returns, ...                                           *)
LEMMA UpdatedIsCalm ==
  ASSUME NEW m \in Nat, NEW t \in Thread, NEW others, Good(Own(t), m, others), Updated(t)
  PROVE  Calmly(t)
<1>1. PICK s : s = Own(t)
  OBVIOUS
<1>2. PICK f : f = Top(s)
  OBVIOUS
<1>3. Calling(t, "neededBy")
  BY DEF Updated
<1>4. /\ Good(s, m, others) /\ s \in State(m) /\ s.calls # <<>> /\ f \in Frame(m)
      /\ s.objs \in [1 .. m -> Change(m)] /\ s.objs[f.obj] \in Change(m)
      /\ s.objs[f.obj].whole
  BY <1>1, <1>2, <1>3, CallingIs
<1>5. PICK o \in 1 .. m : o = f.obj
  BY <1>4 DEF Frame
<1>6. PICK c : c = [s.objs[o] EXCEPT !.neededBy = f.got]
  OBVIOUS
<1>7. /\ c \in Change(m) /\ c.num = s.objs[o].num /\ c.ps = s.objs[o].ps /\ c.whole
      /\ c.needs = s.objs[o].needs
  BY <1>4, <1>5, <1>6 DEF Change, Frame
<1>8. CanSet(s, m, others, o, c)
  BY <1>4, <1>7 DEF CanSet
<1>9. PICK q : q = SetObject(s, o, c)
  OBVIOUS
<1>10. Good(q, m, others) /\ q.objs[o] = c /\ q.calls = s.calls /\ (Strict(s) => Strict(q))
  <2>1. Strict(s) => \A d \in c.needs : s.objs[d].num # c.num
    BY <1>4, <1>5, <1>7 DEF Strict, NoLoops
  <2> QED BY <1>8, <1>9, <2>1, ObjectSet
<1>11. Popped(q) = [s EXCEPT !.objs[f.obj].neededBy = f.got, !.calls = Front(@)]
  BY <1>4, <1>5, <1>6, <1>9 DEF SetObject, State, Popped
<1>12. q.calls # <<>> /\ Top(q) = f /\ q.objs[Top(q).obj].whole
  BY <1>2, <1>4, <1>5, <1>7, <1>10 DEF Top
<1>13. Calm(q, Return(Popped(q), Top(q).obj))
  BY <1>10, <1>12, ReturningIsCalm
<1>14. Calm(s, q)
  BY <1>7, <1>8, <1>9, SettingIsCalm
<1>15. Calm(s, Return(Popped(q), f.obj))
  BY <1>10, <1>12, <1>13, <1>14, CalmAgain
<1>16. Becomes(t, Return(Popped(q), f.obj))
  BY <1>1, <1>2, <1>11 DEF Updated
<1> QED BY <1>1, <1>15, <1>16 DEF Calmly

(* ... or a query fails.                                                   *)
LEMMA QueryFailsIsCalm ==
  ASSUME NEW m \in Nat, NEW t \in Thread, NEW others, Good(Own(t), m, others), QueryFails(t)
  PROVE  Calmly(t)
BY RaiseIsCalm DEF QueryFails, Calmly

-----------------------------------------------------------------------------
(* The one step that may give a change more needs.                         *)
LEMMA DependentsTakes ==
  ASSUME NEW m \in Nat, NEW t \in Thread, NEW others, Good(Own(t), m, others), GerritTyped,
         Dependents(t), NEW s, s = Own(t), NEW f, f = Top(s)
  PROVE  \E r :
           /\ Becomes(t, r)
           /\ f.got \subseteq s.objs[f.obj].needs => Calm(s, r)
           /\ Strict(s) /\ Walked(s) /\ Acyclic(s.objs) => Acyclic(r.objs)
           /\ \A i \in DOMAIN r.calls : r.calls[i].phase = "needs" =>
                i \in DOMAIN s.calls \ {Len(s.calls)} /\ r.calls[i] = s.calls[i]
<1>3. Calling(t, "needs")
  BY DEF Dependents
<1>4. /\ Good(s, m, others) /\ s \in State(m) /\ s.calls # <<>> /\ f \in Frame(m)
      /\ s.objs \in [1 .. m -> Change(m)] /\ s.objs[f.obj] \in Change(m)
      /\ s.objs[f.obj].whole /\ f.phase = "needs" /\ (Strict(s) => Careful(s.objs, f))
  BY <1>3, CallingIs
<1>5. PICK o \in 1 .. m : o = f.obj
  BY <1>4 DEF Frame
<1>6. PICK c : c = [s.objs[o] EXCEPT !.needs = f.got]
  OBVIOUS
<1>7. /\ c \in Change(m) /\ c.num = s.objs[o].num /\ c.ps = s.objs[o].ps /\ c.whole
      /\ c.needs = f.got
  BY <1>4, <1>5, <1>6 DEF Change, Frame
<1>8. CanSet(s, m, others, o, c)
  BY <1>4, <1>7 DEF CanSet
<1>9. PICK q : q = SetObject(s, o, c)
  OBVIOUS
<1>10. Good(q, m, others) /\ q.objs[o] = c /\ q.calls = s.calls /\ (Strict(s) => Strict(q))
  <2>1. Strict(s) => \A d \in c.needs : s.objs[d].num # c.num
    BY <1>4, <1>5, <1>7 DEF Careful
  <2> QED BY <1>8, <1>9, <2>1, ObjectSet
<1>11. q = [s EXCEPT !.objs[f.obj].needs = f.got]
  BY <1>4, <1>5, <1>6, <1>9 DEF SetObject, State
<1>12. PICK g : g = [f EXCEPT !.phase = "neededBy", !.got = {},
                              !.todo = {Latest(m1) : m1 \in {k \in Number : s.objs[o].num \in gerrit.needs[k]}}]
  OBVIOUS
<1>13. g \in Frame(m) /\ g.phase = "neededBy"
  <2>1. PICK N \in SUBSET Number : N = {k \in Number : s.objs[o].num \in gerrit.needs[k]}
    OBVIOUS
  <2>2. PICK K : K = {Latest(n) : n \in N}
    OBVIOUS
  <2>3. K \in SUBSET Key /\ "neededBy" \in Phase /\ {} \in SUBSET (1 .. m)
    BY <2>2, LatestIsKey DEF Phase
  <2>4. g = [f EXCEPT !.phase = "neededBy", !.got = {}, !.todo = K]
    BY <1>12, <2>1, <2>2
  <2> QED BY <1>4, <2>3, <2>4 DEF Frame
<1>14. PICK r : r = WithTop(q, g)
  OBVIOUS
<1>15. Becomes(t, r)
  BY <1>5, <1>11, <1>12, <1>14 DEF Dependents
<1>16. Calm(q, r)
  BY <1>4, <1>10, <1>13, <1>14, TopIsCalm DEF Sure
<1>17. f.got \subseteq s.objs[f.obj].needs => Calm(s, r)
  BY <1>5, <1>7, <1>8, <1>9, <1>10, <1>16, SettingIsCalm, CalmAgain
<1>18. /\ DOMAIN r.calls = DOMAIN s.calls /\ r.calls[Len(s.calls)] = g
       /\ \A i \in DOMAIN s.calls : i # Len(s.calls) => r.calls[i] = s.calls[i]
       /\ r.objs = q.objs
  <2>1. PICK l : l = Append(Front(s.calls), g)
    OBVIOUS
  <2>2. s.calls \in Seq(Frame(m)) /\ q \in State(m)
    BY <1>4, <1>10, TopIsTyped DEF Good
  <2>3. /\ DOMAIN l = DOMAIN s.calls /\ l[Len(s.calls)] = g
        /\ \A i \in DOMAIN s.calls : i # Len(s.calls) => l[i] = s.calls[i]
    BY <1>4, <1>13, <2>1, <2>2, LastReplaced
  <2>4. r.calls = l /\ r.objs = q.objs
    BY <1>10, <1>14, <2>1, <2>2 DEF WithTop, State
  <2> QED BY <2>3, <2>4
<1>19. \A i \in DOMAIN r.calls : r.calls[i].phase = "needs" =>
         i \in DOMAIN s.calls \ {Len(s.calls)} /\ r.calls[i] = s.calls[i]
  BY <1>13, <1>18
<1>20. ASSUME Walked(s), Acyclic(s.objs) PROVE Acyclic(r.objs)
  <2>1. PICK os, ps : os = s.objs /\ ps = q.objs
    OBVIOUS
  <2>2. ps = [os EXCEPT ![o] = c]
    BY <1>4, <1>9, <2>1 DEF SetObject, State
  <2>3. DOMAIN ps = DOMAIN os /\ \A i \in DOMAIN os : i # o => ps[i].needs = os[i].needs
    BY <1>4, <2>1, <2>2
  <2>4. Sure(os, f)
    BY <1>4, <1>20, <2>1, TopIsTyped DEF Walked
  <2>5. \A d \in ps[o].needs : Apart(os, d, o)
    BY <1>4, <1>5, <1>7, <1>10, <2>1, <2>4 DEF Sure
  <2>6. Acyclic(os)
    BY <1>20, <2>1
  <2>7. Acyclic(ps)
    <3>1. DOMAIN ps = DOMAIN os
      BY <2>3
    <3>2. \A i \in DOMAIN os : i # o => ps[i].needs = os[i].needs
      BY <2>3
    <3>3. ASSUME DOMAIN ps = DOMAIN os,
                 \A i \in DOMAIN os : i # o => ps[i].needs = os[i].needs,
                 \A d \in ps[o].needs : Apart(os, d, o), Acyclic(os)
          PROVE  Acyclic(ps)
      BY ONLY <3>3, NeedsTaken
    <3> QED BY ONLY <2>5, <2>6, <3>1, <3>2, <3>3
  <2> QED BY <1>18, <2>1, <2>7
<1> QED BY <1>15, <1>17, <1>19, <1>20

-----------------------------------------------------------------------------
(* The needs have no cycle, and the threads are sure of what they are to   *)
(* add, as long as none has been overtaken.                                *)
Circleless == Acyclic(objs) /\ \A t \in Thread : Walked(Own(t))
CycleInv == "overtaken" \notin upsets => Circleless

(* A thread that gives no change more needs keeps it so.                   *)
LEMMA CalmThread ==
  ASSUME NEW m, CacheOk(m), StrictInv, Circleless, NEW t \in Thread, Calmly(t)
  PROVE  Circleless'
<1>1. PICK r : Becomes(t, r) /\ Calm(Own(t), r)
  BY DEF Calmly
<1>2. /\ calls \in [Thread -> Stacks(m)]
      /\ objs' = r.objs /\ calls' = [calls EXCEPT ![t] = r.calls]
  BY <1>1 DEF Becomes, CacheOk
<1>3. Thinned(objs, objs') /\ Walked(r)
  BY <1>1, <1>2 DEF Calm, Circleless, StrictInv, Own
<1>4. Acyclic(objs')
  BY <1>3, ThinnedAcyclic DEF Circleless
<1>5. ASSUME NEW u \in Thread PROVE \A i \in DOMAIN calls'[u] : Sure(objs', calls'[u][i])
  <2>1. CASE u = t
    BY <1>2, <1>3, <2>1 DEF Walked
  <2>2. CASE u # t
    <3>1. calls'[u] = calls[u]
      BY <1>2, <2>2
    <3>2. \A i \in DOMAIN calls[u] : Sure(objs, calls[u][i])
      BY DEF Circleless, Walked, Own
    <3> QED BY <1>3, <3>1, <3>2, ThinnedApart DEF Sure
  <2> QED BY <2>1, <2>2
<1> QED BY <1>4, <1>5 DEF Circleless, Walked, Own

(* ... and so does one that gives needs, if it overtakes none.             *)
LEMMA NoneOvertaken ==
  ASSUME NEW m, CacheOk(m), GerritTyped, StrictInv, Circleless, NEW t \in Thread,
         Dependents(t), ~Overtakes(t)
  PROVE  Circleless'
<1>1. PICK s, f : s = Own(t) /\ f = Top(s)
  OBVIOUS
<1>2. Good(s, m, Asked(Other(t))) /\ m \in Nat
  BY <1>1 DEF CacheOk
<1>3. PICK r :
        /\ Becomes(t, r)
        /\ f.got \subseteq s.objs[f.obj].needs => Calm(s, r)
        /\ Strict(s) /\ Walked(s) /\ Acyclic(s.objs) => Acyclic(r.objs)
        /\ \A i \in DOMAIN r.calls : r.calls[i].phase = "needs" =>
             i \in DOMAIN s.calls \ {Len(s.calls)} /\ r.calls[i] = s.calls[i]
  BY <1>1, <1>2, DependentsTakes
<1>4. s.objs = objs /\ s.calls = calls[t]
  BY <1>1 DEF Own
<1>5. CASE f.got \subseteq objs[f.obj].needs
  BY <1>1, <1>3, <1>4, <1>5, CalmThread DEF Calmly
<1>6. CASE ~(f.got \subseteq objs[f.obj].needs)
  <2>1. /\ calls \in [Thread -> Stacks(m)]
        /\ objs' = r.objs /\ calls' = [calls EXCEPT ![t] = r.calls]
    BY <1>3 DEF Becomes, CacheOk
  <2>2. Acyclic(objs')
    BY <1>1, <1>3, <1>4, <2>1 DEF Circleless, StrictInv
  <2>3. \A u \in Thread : \A i \in DOMAIN calls[u] \ (IF u = t THEN {Len(calls[t])} ELSE {}) :
          calls[u][i].phase = "needs" => calls[u][i].got = {}
    BY <1>1, <1>6 DEF Overtakes, Dependents
  <2>4. ASSUME NEW u \in Thread PROVE \A i \in DOMAIN calls'[u] : Sure(objs', calls'[u][i])
    <3>1. CASE u = t
      <4>1. calls'[u] = r.calls
        BY <2>1, <3>1
      <4> QED BY <1>3, <1>4, <2>3, <3>1, <4>1 DEF Sure
    <3>2. CASE u # t
      <4>1. calls'[u] = calls[u]
        BY <2>1, <3>2
      <4> QED BY <2>3, <3>2, <4>1 DEF Sure
    <3> QED BY <3>1, <3>2
  <2> QED BY <2>2, <2>4 DEF Circleless, Walked, Own
<1> QED BY <1>5, <1>6

(* Every step keeps it.                                                    *)
LEMMA CycleStep ==
  ASSUME Typed, StrictInv, CycleInv, [Next]_vars
  PROVE  CycleInv'
<1> SUFFICES ASSUME "overtaken" \notin upsets' PROVE Circleless'
  BY DEF CycleInv
<1>0. PICK m : CacheOk(m)
  BY DEF Typed, CacheInv
<1>1. GerritTyped /\ EventsTyped /\ HandInv
  BY DEF Typed, CacheInv
<1>2. Circleless
  BY UpsetsGrow DEF CycleInv
<1>3. \A t \in Thread : Good(Own(t), m, Asked(Other(t))) /\ m \in Nat
  BY <1>0 DEF CacheOk
<1>4. ASSUME NEW t \in Thread, NEW e \in Event, NEW refresh \in BOOLEAN, calls[t] = <<>>,
             Becomes(t, GetChange(Own(t), e.key, refresh, {}))
      PROVE  Calmly(t)
  <2>1. Own(t).calls = <<>> /\ e.key \in Key /\ {} \in SUBSET Number
    BY <1>4, EventIsSome DEF Own
  <2>2. Free(Own(t), e.key[1])
    BY <2>1 DEF Free
  <2>3. Calm(Own(t), GetChange(Own(t), e.key, refresh, {}))
    BY <1>3, <2>1, <2>2, GetChangeIsCalm
  <2> QED BY <1>4, <2>3 DEF Calmly
<1>5. CASE TakeEvent
  <2>1. PICK e : e = Head(events)
    OBVIOUS
  <2>2. e \in Event /\ "connector" \in Thread
    BY <1>1, <1>5, <2>1, Taking DEF EventsTyped, TakeEvent, Thread
  <2>3. calls["connector"] = <<>> /\ Becomes("connector", GetChange(Own("connector"), e.key, TRUE, {}))
    BY <1>5, <2>1 DEF TakeEvent
  <2> QED BY <1>0, <1>2, <1>4, <2>2, <2>3, CalmThread
<1>6. CASE TakeTrigger
  <2>1. CASE UNCHANGED cacheVars
    BY <1>2, <2>1 DEF cacheVars, Circleless, Walked, Own
  <2>2. CASE ~UNCHANGED cacheVars
    <3>1. PICK e : e = Head(triggers)
      OBVIOUS
    <3>2. e \in Event /\ "scheduler" \in Thread
      BY <1>1, <1>6, <3>1, Taking DEF EventsTyped, TakeTrigger, Thread
    <3>3. calls["scheduler"] = <<>>
      BY <1>1, <1>6 DEF HandInv, HandOk, TakeTrigger, Thread
    <3>4. Becomes("scheduler", GetChange(Own("scheduler"), e.key, FALSE, {}))
      BY <1>6, <2>2, <3>1 DEF TakeTrigger
    <3> QED BY <1>0, <1>2, <1>4, <3>2, <3>3, <3>4, CalmThread
  <2> QED BY <2>1, <2>2
<1>7. ASSUME NEW t \in Thread, Updating(t) PROVE Circleless'
  <2>1. Update(t) /\ ~Overtakes(t)
    BY <1>7 DEF Updating
  <2>2. CASE Dependents(t)
    BY <1>0, <1>1, <1>2, <2>1, <2>2, NoneOvertaken
  <2>3. CASE ~Dependents(t)
    <3>1. Calmly(t)
      BY <1>1, <1>3, <2>1, <2>3, QueryIsCalm, DependsIsCalm, GetNeededIsCalm, GetDependentIsCalm,
         UpdatedIsCalm DEF Update
    <3> QED BY <1>0, <1>2, <3>1, CalmThread
  <2> QED BY <2>2, <2>3
<1>8. ASSUME NEW t \in Thread, Fails(t) PROVE Circleless'
  <2>1. Calmly(t)
    BY <1>3, <1>8, QueryFailsIsCalm DEF Fails
  <2> QED BY <1>0, <1>2, <2>1, CalmThread
<1>9. CASE Gerrit
  <2>1. PICK type, n : Emits(type, n)
    BY <1>9 DEF Gerrit, Upload, Comment, Close
  <2> QED BY <1>2, <2>1 DEF Emits, cacheVars, Circleless, Walked, Own
<1>10. CASE Die
  <2>1. objs' = <<>> /\ \A t \in Thread : calls'[t] = <<>>
    BY <1>10 DEF Die
  <2>2. Acyclic(<<>>)
    BY DEF Acyclic
  <2> QED BY <2>1, <2>2 DEF Circleless, Walked, Own
<1>11. CASE \/ Deliver \/ WakeUp \/ BuildCompleted \/ MergeCompleted \/ EndResults \/ HandleTrigger
            \/ EndEvents \/ Process \/ Pause \/ Reconfigure \/ Start \/ Resume \/ Exit \/ UNCHANGED vars
  <2>1. objs' = objs /\ calls' = calls
    BY <1>11 DEF Deliver, WakeUp, BuildCompleted, MergeCompleted, EndResults, HandleTrigger,
                EndEvents, Process, Pause, Reconfigure, Start, Resume, Exit, vars, cacheVars
  <2> QED BY <1>2, <2>1 DEF Circleless, Walked, Own
<1> QED BY <1>5, <1>6, <1>7, <1>8, <1>9, <1>10, <1>11 DEF Next, Connector, Scheduler, Main, Thread

(* No chain of needed changes leads back to where it began, unless needs   *)
(* were set between a walk (detect_cycle) and the assignment it was for.   *)
THEOREM NeedsHaveNoCycle ==
  Spec => []NeedsAcyclic
<1>1. Init => Typed /\ StrictInv /\ CycleInv
  <2> SUFFICES ASSUME Init PROVE StrictInv /\ CycleInv
    BY TypedAtFirst
  <2>1. objs = <<>> /\ \A t \in Thread : calls[t] = <<>>
    BY DEF Init, CacheInit
  <2>2. Acyclic(<<>>)
    BY DEF Acyclic
  <2> QED BY <2>1, <2>2 DEF StrictInv, Strict, NoLoops, CycleInv, Circleless, Walked, Own
<1>2. Typed /\ StrictInv /\ CycleInv /\ [Next]_vars => (Typed /\ StrictInv /\ CycleInv)'
  BY TypedStep, StrictStep, CycleStep
<1>3. CycleInv => NeedsAcyclic
  BY DEF CycleInv, Circleless, Acyclic, NeedsAcyclic
<1> QED BY <1>1, <1>2, <1>3, PTL DEF Spec

-----------------------------------------------------------------------------
(* The ends of a stack of calls.                                           *)
LEMMA TopIsSet ==
  ASSUME NEW m \in Nat, NEW s \in State(m), s.calls # <<>>, NEW f \in Frame(m),
         NEW r, r = WithTop(s, f)
  PROVE  /\ r.objs = s.objs /\ r.cache = s.cache /\ r.answer = s.answer /\ r.calls # <<>>
         /\ Len(r.calls) = Len(s.calls) /\ DOMAIN r.calls = DOMAIN s.calls
         /\ r.calls[Len(s.calls)] = f /\ Top(r) = f
         /\ \A i \in DOMAIN s.calls : i # Len(s.calls) => r.calls[i] = s.calls[i]
<1>1. PICK c : c = Append(Front(s.calls), f)
  OBVIOUS
<1>2. s.calls \in Seq(Frame(m))
  BY DEF State, Stacks
<1>3. /\ c # <<>> /\ DOMAIN c = DOMAIN s.calls /\ Len(c) = Len(s.calls)
      /\ c[Len(s.calls)] = f /\ \A i \in DOMAIN s.calls : i # Len(s.calls) => c[i] = s.calls[i]
  BY <1>1, <1>2, LastReplaced
<1>4. r.objs = s.objs /\ r.cache = s.cache /\ r.answer = s.answer /\ r.calls = c
  BY <1>1 DEF WithTop, State
<1> QED BY <1>3, <1>4 DEF Top

(* The last call is over.                                                  *)
LEMMA TopIsGone ==
  ASSUME NEW m \in Nat, NEW s \in State(m), s.calls # <<>>, NEW r, r = Popped(s)
  PROVE  /\ r.objs = s.objs /\ r.cache = s.cache /\ r.answer = s.answer
         /\ r.calls \in Seq(Frame(m)) /\ Len(r.calls) = Len(s.calls) - 1
         /\ DOMAIN r.calls = 1 .. Len(s.calls) - 1
         /\ \A i \in DOMAIN r.calls : i \in DOMAIN s.calls /\ r.calls[i] = s.calls[i]
<1>1. PICK c : c = Front(s.calls)
  OBVIOUS
<1>2. s.calls \in Seq(Frame(m)) /\ Len(s.calls) \in Nat /\ DOMAIN s.calls = 1 .. Len(s.calls)
  BY TopIsTyped
<1>3. /\ c \in Seq(Frame(m)) /\ Len(c) = Len(s.calls) - 1 /\ DOMAIN c = 1 .. Len(s.calls) - 1
      /\ \A i \in 1 .. Len(s.calls) - 1 : c[i] = s.calls[i]
  BY <1>1, <1>2, WithoutLast
<1>4. \A i \in 1 .. Len(s.calls) - 1 : i \in 1 .. Len(s.calls)
  BY <1>2
<1>5. r.objs = s.objs /\ r.cache = s.cache /\ r.answer = s.answer /\ r.calls = c
  BY <1>1 DEF Popped, State
<1> QED BY <1>2, <1>3, <1>4, <1>5

-----------------------------------------------------------------------------
(* A change that follows another needs its patchset of that name, as far   *)
(* as the cache knows.  A change is cared for if it follows, or if a call  *)
(* works on it that has yet to set its needs; it is planned for by a       *)
(* thread the first call of which has yet to come to it.                   *)
Follows(os, o, key) == \E d \in os[o].needs : NameOf(os, d) = key
Working(s, o) == \E i \in DOMAIN s.calls : s.calls[i].obj = o /\ s.calls[i].phase # "neededBy"
Cared(s, k, key) == Follows(s.objs, s.cache[k], key) \/ Working(s, s.cache[k])
Planned(s, k) ==
  s.calls # <<>> /\ (s.calls[1].phase # "neededBy" \/ k \in s.calls[1].todo)

(* A change of L that is cared for stays so while it is cached, and so is  *)
(* one that comes into the cache; one that is planned for stays so or is   *)
(* cared for from then on.                                                 *)
Keeps(s, r, L, key) ==
  \A k \in L \cap DOMAIN r.cache : k \notin DOMAIN s.cache \/ Cared(s, k, key) => Cared(r, k, key)
Plans(s, r, L, key) ==
  \A k \in L \cap DOMAIN r.cache : Planned(s, k) => Planned(r, k) \/ Cared(r, k, key)

(* One such step after another.                                            *)
LEMMA KeepsAgain ==
  ASSUME NEW s, NEW q, NEW r, NEW L, NEW key, Keeps(q, r, L, key)
  PROVE  /\ Keeps(s, q, L, key) => Keeps(s, r, L, key)
         /\ Plans(s, q, L, key) /\ Plans(q, r, L, key) => Plans(s, r, L, key)
<1>1. ASSUME Keeps(s, q, L, key) PROVE Keeps(s, r, L, key)
  BY <1>1 DEF Keeps
<1>2. ASSUME Plans(s, q, L, key), Plans(q, r, L, key) PROVE Plans(s, r, L, key)
  BY <1>2 DEF Plans, Keeps
<1> QED BY <1>1, <1>2

(* The calls that a call of a change in L has told it to come after key:   *)
(* it heeds that if key is among what it is to look up, or what it found   *)
(* is of that name, or this is coming, from the call it has made.          *)
Heeds(os, f, key) ==
  /\ f.phase = "depends" => key[1] \in f.deps
  /\ f.phase = "needs" => key \in f.todo \/ \E o \in f.got : NameOf(os, o) = key
Coming(s, i, key) ==
  /\ s.calls[i].phase = "needs" /\ i + 1 \in DOMAIN s.calls
  /\ NameOf(s.objs, s.calls[i + 1].obj) = key
HeedsAt(s, i, L, key) ==
  NameOf(s.objs, s.calls[i].obj) \in L => Heeds(s.objs, s.calls[i], key) \/ Coming(s, i, key)
Heeding(s, L, key) == \A i \in DOMAIN s.calls : HeedsAt(s, i, L, key)

(* Within a step: all calls do but the last, which does if it gets a       *)
(* change of the name that is pending.                                     *)
HeedingBelow(s, L, key) == \A i \in DOMAIN s.calls : i # Len(s.calls) => HeedsAt(s, i, L, key)
Pledged(s, name, L, key) ==
  s.calls # <<>> /\ NameOf(s.objs, Top(s).obj) \in L =>
    Heeds(s.objs, Top(s), key) \/ (Top(s).phase = "needs" /\ name = key)
Unmerged(s, key) == \A i \in DOMAIN s.objs : NameOf(s.objs, i) = key => ~s.objs[i].merged

(* An exception drops the changes that were worked on.                     *)
LEMMA RaiseHeeds ==
  ASSUME NEW m \in Nat, NEW s, NEW others, Good(s, m, others), NEW L, NEW key, NEW r, r = Raise(s)
  PROVE  Heeding(r, L, key) /\ Keeps(s, r, L, key) /\ r.answer = Raised
<1>1. PICK keys : keys = {<<s.objs[f.obj].num, s.objs[f.obj].ps>> : f \in ToSet(s.calls)}
  OBVIOUS
<1>2. s \in State(m) /\ Named(s) /\ s.cache \in Caches(m)
  BY DEF Good, State
<1>3. PICK c : c = [k \in DOMAIN s.cache \ keys |-> s.cache[k]]
  OBVIOUS
<1>4. r.objs = s.objs /\ r.cache = c /\ r.calls = <<>> /\ r.answer = Raised
  BY <1>1, <1>2, <1>3 DEF Raise, State
<1>5. DOMAIN c = DOMAIN s.cache \ keys /\ \A k \in DOMAIN c : c[k] = s.cache[k]
  BY <1>3
<1>6. Heeding(r, L, key)
  BY <1>4 DEF Heeding
<1>7. ASSUME NEW k \in L \cap DOMAIN c, Cared(s, k, key) PROVE Cared(r, k, key)
  <2>1. CASE Follows(s.objs, s.cache[k], key)
    BY <1>4, <1>5, <2>1 DEF Cared
  <2>2. CASE Working(s, s.cache[k])
    <3>1. PICK i \in DOMAIN s.calls : s.calls[i].obj = s.cache[k]
      BY <2>2 DEF Working
    <3>2. s.calls[i] \in ToSet(s.calls)
      BY DEF ToSet
    <3>3. k = NameOf(s.objs, s.cache[k])
      BY <1>2, <1>5 DEF Named
    <3>4. k \in keys
      BY <1>1, <3>1, <3>2, <3>3 DEF NameOf
    <3> QED BY <1>5, <3>4
  <2> QED BY <1>7, <2>1, <2>2 DEF Cared
<1> QED BY <1>4, <1>5, <1>6, <1>7 DEF Keeps

(* The last call goes on.                                                  *)
LEMMA TopHeeds ==
  ASSUME NEW m \in Nat, NEW s, NEW others, Good(s, m, others), s.calls # <<>>,
         NEW f \in Frame(m), f.obj = Top(s).obj, NEW L, NEW key, NEW r, r = WithTop(s, f)
  PROVE  /\ HeedingBelow(s, L, key) => HeedingBelow(r, L, key)
         /\ HeedingBelow(s, L, key) /\ (NameOf(s.objs, f.obj) \in L => Heeds(s.objs, f, key)) =>
              Heeding(r, L, key)
         /\ \/ f.phase # "neededBy" \/ Top(s).phase = "neededBy"
            \/ NameOf(s.objs, f.obj) \in L => Follows(s.objs, f.obj, key)
            => Keeps(s, r, L, key)
         /\ (\A k \in L : /\ Len(s.calls) = 1
                          /\ Top(s).phase # "neededBy" \/ k \in Top(s).todo
                          => f.phase # "neededBy" \/ k \in f.todo)
            => Plans(s, r, L, key)
<1>1. s \in State(m) /\ Named(s) /\ s.cache \in Caches(m)
  BY DEF Good, State
<1>2. PICK n : n = Len(s.calls)
  OBVIOUS
<1>3. /\ n \in Nat \ {0} /\ DOMAIN s.calls = 1 .. n /\ Top(s) = s.calls[n]
  BY <1>1, <1>2, TopIsTyped
<1>4. /\ r.objs = s.objs /\ r.cache = s.cache /\ r.calls # <<>>
      /\ Len(r.calls) = n /\ DOMAIN r.calls = 1 .. n /\ r.calls[n] = f
      /\ \A i \in 1 .. n : i # n => r.calls[i] = s.calls[i]
  BY <1>1, <1>2, <1>3, TopIsSet
<1>5. \A i \in 1 .. n : r.calls[i].obj = s.calls[i].obj
  BY <1>3, <1>4
<1>6. ASSUME HeedingBelow(s, L, key), NEW i \in 1 .. n, i # n PROVE HeedsAt(r, i, L, key)
  <2>1. HeedsAt(s, i, L, key)
    BY <1>2, <1>3, <1>6 DEF HeedingBelow
  <2>2. r.calls[i] = s.calls[i]
    BY <1>4, <1>6
  <2>3. Coming(s, i, key) => Coming(r, i, key)
    BY <1>3, <1>4, <1>5, <2>2 DEF Coming
  <2> QED BY <1>4, <2>1, <2>2, <2>3 DEF HeedsAt
<1>7. HeedingBelow(s, L, key) => HeedingBelow(r, L, key)
  BY <1>4, <1>6 DEF HeedingBelow
<1>8. HeedingBelow(s, L, key) /\ (NameOf(s.objs, f.obj) \in L => Heeds(s.objs, f, key)) =>
        Heeding(r, L, key)
  BY <1>4, <1>6 DEF Heeding, HeedsAt
<1>9. ASSUME \/ f.phase # "neededBy" \/ Top(s).phase = "neededBy"
             \/ NameOf(s.objs, f.obj) \in L => Follows(s.objs, f.obj, key)
      PROVE  Keeps(s, r, L, key)
  <2> SUFFICES ASSUME NEW k \in L \cap DOMAIN s.cache, Working(s, s.cache[k])
               PROVE  Cared(r, k, key)
    BY <1>4 DEF Keeps, Cared
  <2>1. PICK i \in 1 .. n : s.calls[i].obj = s.cache[k] /\ s.calls[i].phase # "neededBy"
    BY <1>3 DEF Working
  <2>2. CASE i # n
    BY <1>4, <2>1, <2>2 DEF Cared, Working
  <2>3. CASE i = n /\ f.phase # "neededBy"
    BY <1>3, <1>4, <2>1, <2>3 DEF Cared, Working
  <2>4. CASE i = n /\ f.phase = "neededBy"
    <3>1. f.obj = s.cache[k] /\ Top(s).phase # "neededBy"
      BY <1>3, <2>1, <2>4
    <3>2. NameOf(s.objs, f.obj) = k
      BY <1>1, <3>1 DEF Named
    <3> QED BY <1>4, <1>9, <2>4, <3>1, <3>2 DEF Cared
  <2> QED BY <2>2, <2>3, <2>4
<1>10. ASSUME \A k \in L : /\ n = 1
                           /\ Top(s).phase # "neededBy" \/ k \in Top(s).todo
                           => f.phase # "neededBy" \/ k \in f.todo
       PROVE  Plans(s, r, L, key)
  <2>1. CASE n = 1
    BY <1>3, <1>4, <1>10, <2>1 DEF Plans, Planned
  <2>2. CASE n # 1
    <3>1. 1 \in 1 .. n
      BY <1>3
    <3>2. r.calls[1] = s.calls[1]
      BY <1>4, <2>2, <3>1
    <3> QED BY <1>4, <3>2 DEF Plans, Planned
  <2> QED BY <2>1, <2>2
<1> QED BY <1>2, <1>7, <1>8, <1>9, <1>10

(* The last call is over: the one below is to get its change.              *)
LEMMA PoppedHeeds ==
  ASSUME NEW m \in Nat, NEW s, NEW others, Good(s, m, others), s.calls # <<>>,
         NEW L, NEW key, Heeding(s, L, key), NEW r, r = Popped(s)
  PROVE  /\ HeedingBelow(r, L, key) /\ Pledged(r, NameOf(s.objs, Top(s).obj), L, key)
         /\ Top(s).phase = "neededBy" \/ NameOf(s.objs, Top(s).obj) \notin L => Keeps(s, r, L, key)
         /\ (Len(s.calls) = 1 => \A k \in L : ~Planned(s, k)) => Plans(s, r, L, key)
<1>1. s \in State(m) /\ Named(s)
  BY DEF Good
<1>2. PICK n : n = Len(s.calls)
  OBVIOUS
<1>3. /\ n \in Nat \ {0} /\ DOMAIN s.calls = 1 .. n /\ Top(s) = s.calls[n]
  BY <1>1, <1>2, TopIsTyped
<1>4. /\ r.objs = s.objs /\ r.cache = s.cache
      /\ r.calls \in Seq(Frame(m)) /\ Len(r.calls) = n - 1 /\ DOMAIN r.calls = 1 .. n - 1
      /\ \A i \in 1 .. n - 1 : i \in 1 .. n /\ r.calls[i] = s.calls[i]
  BY <1>1, <1>2, <1>3, TopIsGone
<1>5. \A i \in 1 .. n - 1 : HeedsAt(s, i, L, key)
  BY <1>3, <1>4 DEF Heeding
<1>6. ASSUME NEW i \in 1 .. n - 1, i # n - 1 PROVE HeedsAt(r, i, L, key)
  <2>1. i + 1 \in 1 .. n - 1
    BY <1>3, <1>6
  <2>2. Coming(s, i, key) => Coming(r, i, key)
    BY <1>4, <2>1 DEF Coming
  <2> QED BY <1>4, <1>5, <2>2 DEF HeedsAt
<1>7. HeedingBelow(r, L, key)
  BY <1>4, <1>6 DEF HeedingBelow
<1>8. ASSUME r.calls # <<>>, NameOf(r.objs, Top(r).obj) \in L
      PROVE  Heeds(r.objs, Top(r), key) \/ (Top(r).phase = "needs" /\ NameOf(s.objs, Top(s).obj) = key)
  <2>1. n - 1 \in 1 .. n - 1 /\ (n - 1) + 1 = n
    BY <1>3, <1>4, <1>8
  <2>2. Top(r) = s.calls[n - 1] /\ HeedsAt(s, n - 1, L, key)
    BY <1>4, <1>5, <2>1 DEF Top
  <2>3. Coming(s, n - 1, key) => s.calls[n - 1].phase = "needs" /\ NameOf(s.objs, s.calls[n].obj) = key
    BY <2>1 DEF Coming
  <2> QED BY <1>3, <1>4, <1>8, <2>2, <2>3 DEF HeedsAt
<1>9. ASSUME Top(s).phase = "neededBy" \/ NameOf(s.objs, Top(s).obj) \notin L
      PROVE  Keeps(s, r, L, key)
  <2> SUFFICES ASSUME NEW k \in L \cap DOMAIN s.cache, Working(s, s.cache[k])
               PROVE  Cared(r, k, key)
    BY <1>4 DEF Keeps, Cared
  <2>1. PICK i \in 1 .. n : s.calls[i].obj = s.cache[k] /\ s.calls[i].phase # "neededBy"
    BY <1>3 DEF Working
  <2>2. i # n
    BY <1>1, <1>3, <1>9, <2>1 DEF Named
  <2>3. i \in 1 .. n - 1
    BY <1>3, <2>2
  <2> QED BY <1>4, <2>1, <2>3 DEF Cared, Working
<1>10. ASSUME n = 1 => \A k \in L : ~Planned(s, k) PROVE Plans(s, r, L, key)
  <2>1. CASE n = 1
    BY <1>10, <2>1 DEF Plans
  <2>2. CASE n # 1
    <3>1. 1 \in 1 .. n - 1
      BY <1>3, <2>2
    <3>2. r.calls[1] = s.calls[1] /\ r.calls # <<>>
      BY <1>4, <3>1
    <3> QED BY <1>4, <3>2 DEF Plans, Planned
  <2> QED BY <2>1, <2>2
<1> QED BY <1>2, <1>7, <1>8, <1>9, <1>10 DEF Pledged

(* An object gets new values: if it is in L, it follows or needs what it   *)
(* did.                                                                    *)
LEMMA SettingHeeds ==
  ASSUME NEW m, NEW s, NEW others, NEW o, NEW c, CanSet(s, m, others, o, c),
         NEW L, NEW key, Heeding(s, L, key), NEW r, r = SetObject(s, o, c)
  PROVE  /\ Heeding(r, L, key) /\ Plans(s, r, L, key)
         /\ \/ c.needs = s.objs[o].needs
            \/ NameOf(s.objs, o) \in L => \E d \in c.needs : NameOf(s.objs, d) = key
            => Keeps(s, r, L, key)
<1>1. s \in State(m) /\ Named(s) /\ m \in Nat /\ o \in 1 .. m
  BY DEF CanSet, Good
<1>2. /\ Grown(s.objs, r.objs, m) /\ r.objs[o] = c /\ r.cache = s.cache /\ r.calls = s.calls
  BY ObjectSet
<1>3. \A i \in 1 .. m : NameOf(r.objs, i) = NameOf(s.objs, i)
  BY <1>2 DEF Grown
<1>4. \A i \in DOMAIN s.calls : s.calls[i].obj \in 1 .. m /\ s.calls[i].got \subseteq 1 .. m
  <2>1. \A i \in DOMAIN s.calls : s.calls[i] \in Frame(m)
    BY <1>1 DEF State, Stacks
  <2> QED BY <2>1 DEF Frame
<1>5. ASSUME NEW i \in DOMAIN s.calls PROVE HeedsAt(r, i, L, key)
  <2>1. HeedsAt(s, i, L, key)
    BY <1>5 DEF Heeding
  <2>2. Coming(s, i, key) => Coming(r, i, key)
    BY <1>2, <1>3, <1>4 DEF Coming
  <2>3. Heeds(s.objs, s.calls[i], key) => Heeds(r.objs, s.calls[i], key)
    BY <1>3, <1>4 DEF Heeds
  <2> QED BY <1>2, <1>3, <1>4, <2>1, <2>2, <2>3 DEF HeedsAt
<1>6. Heeding(r, L, key)
  BY <1>2, <1>5 DEF Heeding
<1>7. Plans(s, r, L, key)
  BY <1>2 DEF Plans, Planned
<1>8. ASSUME \/ c.needs = s.objs[o].needs
             \/ NameOf(s.objs, o) \in L => \E d \in c.needs : NameOf(s.objs, d) = key
      PROVE  Keeps(s, r, L, key)
  <2> SUFFICES ASSUME NEW k \in L \cap DOMAIN s.cache, Follows(s.objs, s.cache[k], key)
               PROVE  Follows(r.objs, s.cache[k], key)
    BY <1>2 DEF Keeps, Cared, Working
  <2>1. s.cache[k] \in 1 .. m /\ NameOf(s.objs, s.cache[k]) = k
    BY <1>1, CacheIsTyped DEF State, Named
  <2>2. PICK p : p = s.cache[k]
    OBVIOUS
  <2>3. s.objs \in [1 .. m -> Change(m)] /\ c \in Change(m)
    BY <1>1 DEF State, Objects, CanSet
  <2>4. s.objs[p].needs \subseteq 1 .. m /\ c.needs \subseteq 1 .. m
    BY <2>1, <2>2, <2>3 DEF Change
  <2>5. CASE p = o
    BY <1>2, <1>3, <1>8, <2>1, <2>2, <2>4, <2>5 DEF Follows
  <2>6. CASE p # o
    <3>1. r.objs = [s.objs EXCEPT ![o] = c]
      BY <1>1 DEF SetObject, State
    <3>2. r.objs[p] = s.objs[p]
      BY <2>1, <2>2, <2>3, <2>6, <3>1
    <3> QED BY <1>3, <2>2, <2>4, <3>2 DEF Follows
  <2> QED BY <2>5, <2>6
<1> QED BY <1>6, <1>7, <1>8

(* A call gets a change that is not merged if it is the one to follow.     *)
LEMMA ReturnHeeds ==
  ASSUME NEW m \in Nat, NEW s, NEW others, Good(s, m, others), NEW o \in 1 .. m,
         s.calls # <<>> => Top(s).phase \in {"needs", "neededBy"},
         NEW L, NEW key, HeedingBelow(s, L, key), Pledged(s, NameOf(s.objs, o), L, key),
         Unmerged(s, key), NEW r, r = Return(s, o)
  PROVE  /\ Heeding(r, L, key) /\ Keeps(s, r, L, key)
         /\ r.answer = Raised \/ Plans(s, r, L, key)
<1>1. s \in State(m) /\ s.objs \in [1 .. m -> Change(m)]
  BY DEF Good, State, Objects
<1>2. CASE s.calls = <<>>
  <2>1. r.objs = s.objs /\ r.calls = s.calls /\ r.cache = s.cache
    BY <1>1, <1>2 DEF Return, State
  <2> QED BY <1>2, <2>1 DEF Heeding, Keeps, Cared, Working, Plans, Planned
<1>3. CASE r = Raise(s)
  BY <1>3, RaiseHeeds
<1>4. CASE s.calls # <<>> /\ r # Raise(s)
  <2>1. PICK f : f = Top(s)
    OBVIOUS
  <2>2. f \in Frame(m)
    BY <1>1, <1>4, <2>1, TopIsTyped
  <2>3. CASE f.phase = "needs"
    <3>1. r = WithTop(s, [f EXCEPT !.got = IF s.objs[o].merged THEN @ ELSE @ \cup {o}])
      BY <1>4, <2>1, <2>3 DEF Return
    <3>2. PICK g : g = [f EXCEPT !.got = IF s.objs[o].merged THEN @ ELSE @ \cup {o}]
      OBVIOUS
    <3>3. /\ g \in Frame(m) /\ g.obj = f.obj /\ g.phase = "needs" /\ g.todo = f.todo
          /\ f.got \subseteq g.got /\ (~s.objs[o].merged => o \in g.got)
      BY <2>2, <2>3, <3>2 DEF Frame
    <3>4. NameOf(s.objs, g.obj) \in L => Heeds(s.objs, g, key)
      <4> SUFFICES ASSUME NameOf(s.objs, g.obj) \in L PROVE Heeds(s.objs, g, key)
        OBVIOUS
      <4>1. CASE NameOf(s.objs, o) = key
        <5>1. ~s.objs[o].merged
          BY <1>1, <4>1 DEF Unmerged
        <5> QED BY <3>3, <4>1, <5>1 DEF Heeds
      <4>2. CASE Heeds(s.objs, f, key)
        BY <2>3, <3>3, <4>2 DEF Heeds
      <4> QED BY <1>4, <2>1, <3>3, <4>1, <4>2 DEF Pledged
    <3> QED BY <1>4, <2>1, <2>3, <3>1, <3>2, <3>3, <3>4, TopHeeds
  <2>4. CASE f.phase = "neededBy"
    <3>1. r = WithTop(s, [f EXCEPT !.got =
                            IF s.objs[o].merged \/ ~s.objs[o].current THEN @ ELSE @ \cup {o}])
      BY <1>4, <2>1, <2>4 DEF Return
    <3>2. PICK g : g = [f EXCEPT !.got = IF s.objs[o].merged \/ ~s.objs[o].current THEN @ ELSE @ \cup {o}]
      OBVIOUS
    <3>3. g \in Frame(m) /\ g.obj = f.obj /\ g.phase = "neededBy" /\ g.todo = f.todo
      BY <2>2, <2>4, <3>2 DEF Frame
    <3>4. Heeds(s.objs, g, key)
      BY <3>3 DEF Heeds
    <3> QED BY <1>4, <2>1, <2>4, <3>1, <3>2, <3>3, <3>4, TopHeeds
  <2> QED BY <1>4, <2>1, <2>3, <2>4
<1> QED BY <1>2, <1>3, <1>4

(* A call is made, for a change that is worked on from then on.            *)
LEMMA CallHeeds ==
  ASSUME NEW m, NEW s, NEW others, NEW k, NEW os, NEW o, NEW f, NEW name,
         CanCall(s, m, others, k, os, o, f, name), NEW L, NEW key,
         HeedingBelow(s, L, key), Pledged(s, name, L, key), NEW r, r = Called(s, os, o, f, name)
  PROVE  /\ Heeding(r, L, key) /\ Keeps(s, r, L, key) /\ Plans(s, r, L, key)
         /\ Cared(r, name, key) /\ (s.calls = <<>> => r.calls[1].phase = "query")
<1> USE DEF CanCall
<1>1. s \in State(m) /\ Named(s) /\ m \in Nat
  BY DEF Good
<1>2. PICK c : c = [j \in DOMAIN s.cache \cup {name} |-> IF j = name THEN o ELSE s.cache[j]]
  OBVIOUS
<1>3. PICK n : n = Len(s.calls)
  OBVIOUS
<1>4. /\ s.calls \in Seq(Frame(m)) /\ n \in Nat /\ DOMAIN s.calls = 1 .. n
  BY <1>1, <1>3 DEF State, Stacks
<1>5. /\ r.objs = os /\ r.cache = c /\ r.calls = Append(s.calls, f)
  BY <1>1, <1>2 DEF Called, State
<1>6. /\ DOMAIN r.calls = 1 .. n + 1 /\ r.calls[n + 1] = f /\ r.calls # <<>>
      /\ \A i \in 1 .. n : i \in 1 .. n + 1 /\ r.calls[i] = s.calls[i]
  BY <1>3, <1>4, <1>5
<1>7. \A i \in 1 .. m : NameOf(os, i) = NameOf(s.objs, i)
  BY DEF NameOf
<1>8. \A i \in 1 .. n : s.calls[i].obj \in 1 .. m /\ s.calls[i].got \subseteq 1 .. m
  <2>1. \A i \in 1 .. n : s.calls[i] \in Frame(m)
    BY <1>4
  <2> QED BY <2>1 DEF Frame
<1>9. ASSUME NEW i \in 1 .. n PROVE HeedsAt(r, i, L, key)
  <2>1. Heeds(s.objs, s.calls[i], key) => Heeds(r.objs, r.calls[i], key)
    <3>1. PICK g : g = s.calls[i] /\ g = r.calls[i] /\ g.got \subseteq 1 .. m
      BY <1>6, <1>8, <1>9
    <3>2. \A d \in g.got : NameOf(r.objs, d) = NameOf(s.objs, d)
      BY <1>5, <1>7, <3>1
    <3>3. Heeds(s.objs, g, key) => Heeds(r.objs, g, key)
      BY ONLY <3>2 DEF Heeds
    <3> QED BY <3>1, <3>3
  <2>2. CASE i # n
    <3>1. HeedsAt(s, i, L, key) /\ i + 1 \in 1 .. n
      BY <1>3, <1>4, <1>9, <2>2 DEF HeedingBelow
    <3>2. Coming(s, i, key) => Coming(r, i, key)
      BY <1>4, <1>5, <1>6, <1>7, <1>8, <3>1 DEF Coming
    <3> QED BY <1>5, <1>6, <1>7, <1>8, <2>1, <3>1, <3>2 DEF HeedsAt
  <2>3. CASE i = n
    <3>1. s.calls # <<>> /\ Top(s) = s.calls[n]
      BY <1>3, <1>4, <1>9 DEF Top
    <3>2. name = key /\ Top(s).phase = "needs" => Coming(r, n, key)
      BY <1>5, <1>6, <1>9, <2>3, <3>1 DEF Coming
    <3> QED BY <1>5, <1>6, <1>7, <1>8, <2>1, <2>3, <3>1, <3>2 DEF HeedsAt, Pledged
  <2> QED BY <2>2, <2>3
<1>10. HeedsAt(r, n + 1, L, key)
  BY <1>6 DEF HeedsAt, Heeds
<1>11. \A i \in 1 .. n + 1 : i \in 1 .. n \/ i = n + 1
  BY <1>4
<1>12. Heeding(r, L, key)
  BY <1>6, <1>9, <1>10, <1>11 DEF Heeding
<1>13. Working(r, o) /\ n + 1 \in 1 .. n + 1
  BY <1>4, <1>6 DEF Working
<1>14. Cared(r, name, key)
  BY <1>2, <1>5, <1>13 DEF Cared
<1>15. ASSUME NEW j \in L \cap DOMAIN c, j # name, Cared(s, j, key) PROVE Cared(r, j, key)
  <2>1. j \in DOMAIN s.cache /\ c[j] = s.cache[j]
    BY <1>2, <1>15
  <2>2. PICK p : p = s.cache[j]
    OBVIOUS
  <2>3. p \in 1 .. m
    BY <1>1, <2>1, <2>2, CacheIsTyped DEF State
  <2>4. CASE Working(s, p)
    BY <1>4, <1>5, <1>6, <2>1, <2>2, <2>4 DEF Cared, Working
  <2>5. CASE Follows(s.objs, p, key)
    <3>1. os[p] = s.objs[p] /\ s.objs[p].needs \subseteq 1 .. m
      <4>1. s.objs[p] \in Change(m)
        BY <1>1, <2>3 DEF State, Objects
      <4> QED BY <2>3, <4>1 DEF Change
    <3> QED BY <1>5, <1>7, <2>1, <2>2, <2>5, <3>1 DEF Cared, Follows
  <2> QED BY <1>15, <2>2, <2>4, <2>5 DEF Cared
<1>16. Keeps(s, r, L, key)
  <2>1. \A j \in DOMAIN c : j # name => j \in DOMAIN s.cache
    BY <1>2
  <2> QED BY <1>5, <1>14, <1>15, <2>1 DEF Keeps
<1>17. Plans(s, r, L, key)
  <2>1. s.calls # <<>> => r.calls[1] = s.calls[1]
    BY <1>3, <1>4, <1>6
  <2> QED BY <1>6, <2>1 DEF Plans, Planned
<1>18. s.calls = <<>> => r.calls[1].phase = "query"
  BY <1>3, <1>4, <1>6
<1> QED BY <1>12, <1>14, <1>16, <1>17, <1>18

(* _getChange, which finds a change or calls for it.                       *)
LEMMA GetChangeHeeds ==
  ASSUME NEW m \in Nat, NEW s, NEW others, Good(s, m, others),
         s.calls # <<>> => Top(s).phase \in {"needs", "neededBy"},
         NEW name \in Key, NEW refresh \in BOOLEAN, NEW past \in SUBSET Number,
         NEW L, NEW key, HeedingBelow(s, L, key), Pledged(s, name, L, key), Unmerged(s, key),
         NEW r, r = GetChange(s, name, refresh, past)
  PROVE  /\ Heeding(r, L, key) /\ Keeps(s, r, L, key)
         /\ r.answer = Raised \/ Plans(s, r, L, key)
         /\ refresh => /\ Cared(r, name, key) /\ Plans(s, r, L, key)
                       /\ s.calls = <<>> => r.calls # <<>> /\ r.calls[1].phase = "query"
<1>1. s \in State(m) /\ Named(s)
  BY DEF Good
<1>2. name \in DOMAIN s.cache => s.cache[name] \in 1 .. m /\ NameOf(s.objs, s.cache[name]) = name
  BY <1>1, CacheIsTyped DEF State, Named
<1>3. CASE name \in DOMAIN s.cache /\ ~refresh
  <2>1. PICK o \in 1 .. m : o = s.cache[name]
    BY <1>2, <1>3
  <2>2. r = Return(s, o)
    BY <1>3, <2>1 DEF GetChange
  <2> QED BY <1>2, <1>3, <2>1, <2>2, ReturnHeeds
<1>4. CASE ~(name \in DOMAIN s.cache /\ ~refresh)
  <2>0. PICK k, os, o, f : Made(s, r, m, others, k, os, o, f, name)
    BY <1>4, CallIsMade
  <2>1. CanCall(s, m, others, k, os, o, f, name) /\ r = Called(s, os, o, f, name)
    BY <2>0 DEF Made
  <2>2. /\ Heeding(r, L, key) /\ Keeps(s, r, L, key) /\ Plans(s, r, L, key)
        /\ Cared(r, name, key) /\ (s.calls = <<>> => r.calls[1].phase = "query")
    BY <2>1, CallHeeds
  <2>3. r.calls # <<>>
    BY <2>1, CallIsGood
  <2> QED BY <2>2, <2>3
<1> QED BY <1>3, <1>4

-----------------------------------------------------------------------------
(* A thread knows of no patchset that Gerrit does not have, and of no      *)
(* change as merged that is not.                                           *)
Past(name) == name[2] <= gerrit.latest[name[1]]
DatedObject(c) == Past(<<c.num, c.ps>>) /\ (c.merged => gerrit.status[c.num] = "merged")
Dated(s) ==
  /\ \A i \in DOMAIN s.objs : DatedObject(s.objs[i])
  /\ \A i \in DOMAIN s.calls : \A k \in s.calls[i].todo : Past(k)

(* An exception keeps it so, ...                                           *)
LEMMA RaiseIsDated ==
  ASSUME NEW m \in Nat, NEW s, NEW others, Good(s, m, others), Dated(s)
  PROVE  Dated(Raise(s))
<1>1. PICK r : r = Raise(s)
  OBVIOUS
<1>2. r.objs = s.objs /\ r.calls = <<>>
  BY <1>1, RaiseIsGood DEF Good
<1> QED BY <1>1, <1>2 DEF Dated

(* ... and so does the last call when it goes on, ...                      *)
LEMMA TopIsDated ==
  ASSUME NEW m \in Nat, NEW s, NEW others, Good(s, m, others), s.calls # <<>>, Dated(s),
         NEW f \in Frame(m), \A k \in f.todo : Past(k), NEW r, r = WithTop(s, f)
  PROVE  Dated(r)
<1>1. s \in State(m)
  BY DEF Good
<1>2. /\ r.objs = s.objs /\ DOMAIN r.calls = DOMAIN s.calls
      /\ \A i \in DOMAIN s.calls : r.calls[i] = f \/ r.calls[i] = s.calls[i]
  BY <1>1, TopIsSet
<1> QED BY <1>2 DEF Dated

(* ... or is over, ...                                                     *)
LEMMA PoppedIsDated ==
  ASSUME NEW m \in Nat, NEW s, NEW others, Good(s, m, others), s.calls # <<>>, Dated(s),
         NEW r, r = Popped(s)
  PROVE  Dated(r)
<1>1. s \in State(m)
  BY DEF Good
<1>2. /\ r.objs = s.objs /\ \A i \in DOMAIN r.calls : i \in DOMAIN s.calls /\ r.calls[i] = s.calls[i]
  BY <1>1, TopIsGone
<1> QED BY <1>2 DEF Dated

(* ... an object that is set to what Gerrit says, ...                      *)
LEMMA SettingIsDated ==
  ASSUME NEW m, NEW s, NEW others, NEW o, NEW c, CanSet(s, m, others, o, c), Dated(s),
         c.merged => s.objs[o].merged \/ gerrit.status[c.num] = "merged",
         NEW r, r = SetObject(s, o, c)
  PROVE  Dated(r)
<1>1. s \in State(m) /\ m \in Nat /\ o \in 1 .. m
  BY DEF CanSet, Good
<1>2. s.objs \in [1 .. m -> Change(m)]
  BY <1>1 DEF State, Objects
<1>3. r.objs = [s.objs EXCEPT ![o] = c] /\ r.calls = s.calls
  BY <1>1 DEF SetObject, State
<1>4. DatedObject(c)
  BY <1>1, <1>2 DEF Dated, DatedObject, CanSet
<1>5. \A i \in 1 .. m : r.objs[i] = c \/ r.objs[i] = s.objs[i]
  BY <1>2, <1>3
<1>6. DOMAIN r.objs = 1 .. m /\ DOMAIN s.objs = 1 .. m
  BY <1>2, <1>3
<1> QED BY <1>3, <1>4, <1>5, <1>6 DEF Dated

(* ... a change that is returned, ...                                      *)
LEMMA ReturnIsDated ==
  ASSUME NEW m \in Nat, NEW s, NEW others, Good(s, m, others), NEW o \in 1 .. m, Dated(s),
         s.calls # <<>> => Top(s).phase \in {"needs", "neededBy"}, NEW r, r = Return(s, o)
  PROVE  Dated(r)
<1>1. s \in State(m)
  BY DEF Good
<1>2. CASE s.calls = <<>>
  <2>1. r.objs = s.objs /\ r.calls = s.calls
    BY <1>1, <1>2 DEF Return, State
  <2> QED BY <2>1 DEF Dated
<1>3. CASE r = Raise(s)
  BY <1>3, RaiseIsDated
<1>4. CASE s.calls # <<>> /\ r # Raise(s)
  <2>1. PICK f : f = Top(s)
    OBVIOUS
  <2>2. f \in Frame(m) /\ \A k \in f.todo : Past(k)
    BY <1>1, <1>4, <2>1, TopIsTyped DEF Dated
  <2>3. PICK got : got = IF s.objs[o].merged \/ (f.phase = "neededBy" /\ ~s.objs[o].current)
                         THEN f.got ELSE f.got \cup {o}
    OBVIOUS
  <2>4. r = WithTop(s, [f EXCEPT !.got = got])
    BY <1>4, <2>1, <2>3 DEF Return
  <2>5. PICK g : g = [f EXCEPT !.got = got]
    OBVIOUS
  <2>6. g \in Frame(m) /\ g.todo = f.todo
    BY <2>2, <2>3, <2>5 DEF Frame
  <2> QED BY <1>4, <2>2, <2>4, <2>5, <2>6, TopIsDated
<1> QED BY <1>2, <1>3, <1>4

(* ... and one that is asked for by a name of Gerrit's.                    *)
LEMMA GetChangeIsDated ==
  ASSUME NEW m \in Nat, NEW s, NEW others, Good(s, m, others), Dated(s),
         s.calls # <<>> => Top(s).phase \in {"needs", "neededBy"},
         NEW name \in Key, NEW refresh \in BOOLEAN, NEW past \in SUBSET Number, Past(name),
         NEW r, r = GetChange(s, name, refresh, past)
  PROVE  Dated(r)
<1>1. s \in State(m) /\ Named(s)
  BY DEF Good
<1>2. name \in DOMAIN s.cache => s.cache[name] \in 1 .. m
  BY <1>1, CacheIsTyped DEF State
<1>3. CASE name \in DOMAIN s.cache /\ ~refresh
  <2>1. PICK o \in 1 .. m : o = s.cache[name]
    BY <1>2, <1>3
  <2>2. r = Return(s, o)
    BY <1>3, <2>1 DEF GetChange
  <2> QED BY <2>2, ReturnIsDated
<1>4. CASE ~(name \in DOMAIN s.cache /\ ~refresh)
  <2>0. PICK k, os, o, f : Made(s, r, m, others, k, os, o, f, name)
    BY <1>4, CallIsMade
  <2>1. /\ CanCall(s, m, others, k, os, o, f, name) /\ r = Called(s, os, o, f, name)
        /\ f.todo = {} /\ \A i \in 1 .. k : i \notin 1 .. m => os[i] = NewObject(name)
    BY <2>0 DEF Made
  <2>2. r.objs = os /\ r.calls = Append(s.calls, f)
    BY <1>1, <2>1 DEF Called, State
  <2>3. DOMAIN os = 1 .. k /\ DOMAIN s.objs = 1 .. m /\ \A i \in 1 .. m : os[i] = s.objs[i]
    BY <1>1, <2>1 DEF CanCall, Objects, State
  <2>4. DatedObject(NewObject(name))
    BY DEF DatedObject, NewObject, Key, Past
  <2>5. s.calls \in Seq(Frame(m))
    BY <1>1 DEF State, Stacks
  <2>6. \A i \in DOMAIN r.calls : r.calls[i] = f \/ (i \in DOMAIN s.calls /\ r.calls[i] = s.calls[i])
    BY <2>2, <2>5
  <2> QED BY <2>1, <2>2, <2>3, <2>4, <2>6 DEF Dated
<1> QED BY <1>3, <1>4

-----------------------------------------------------------------------------
(* The steps of an update, for those that are to follow the latest         *)
(* patchset of n: the open changes that need n by what Gerrit says.        *)
DependentKeys(n) ==
  {Latest(m) : m \in {k \in Number : n \in gerrit.needs[k] /\ gerrit.status[k] = "open"}}
Rooted(s, key) == s.calls # <<>> => NameOf(s.objs, s.calls[1].obj) = key
Attending(s, r, n) ==
  gerrit.status[n] = "open" /\ Heeding(s, DependentKeys(n), Latest(n)) =>
    /\ Heeding(r, DependentKeys(n), Latest(n)) /\ Keeps(s, r, DependentKeys(n), Latest(n))
    /\ Rooted(s, Latest(n)) => r.answer = Raised \/ Plans(s, r, DependentKeys(n), Latest(n))
Attends(t) == \E r : Becomes(t, r) /\ Dated(r) /\ \A n \in Number : Attending(Own(t), r, n)

(* They are names of changes.                                              *)
LEMMA DependentKeysAre ==
  ASSUME GerritTyped, NEW n \in Number
  PROVE  /\ DependentKeys(n) \in SUBSET Key /\ Latest(n) \in Key /\ Latest(n)[1] = n
         /\ \A k \in DependentKeys(n) :
              /\ k[1] \in Number /\ k = Latest(k[1])
              /\ n \in gerrit.needs[k[1]] /\ gerrit.status[k[1]] = "open"
BY DEF GerritTyped, DependentKeys, Latest, Key

(* An open change is not taken for merged.                                 *)
LEMMA OpenIsUnmerged ==
  ASSUME NEW s, Dated(s), NEW n \in Number, gerrit.status[n] = "open"
  PROVE  Unmerged(s, Latest(n))
BY DEF Unmerged, Dated, DatedObject, NameOf, Latest

(* The last call returns its change.                                       *)
LEMMA ReturningHeeds ==
  ASSUME NEW m \in Nat, NEW s, NEW others, Good(s, m, others), s.calls # <<>>,
         s.objs[Top(s).obj].whole, NEW r, r = Return(Popped(s), Top(s).obj)
  PROVE  /\ Dated(s) => Dated(r)
         /\ \A L, key : /\ Heeding(s, L, key) /\ Unmerged(s, key)
                        /\ Top(s).phase = "neededBy" \/ NameOf(s.objs, Top(s).obj) \notin L
              => /\ Heeding(r, L, key) /\ Keeps(s, r, L, key)
                 /\ (Len(s.calls) = 1 => \A k \in L : ~Planned(s, k)) =>
                      r.answer = Raised \/ Plans(s, r, L, key)
<1>1. PICK p : p = Popped(s)
  OBVIOUS
<1>2. /\ Good(p, m, others) /\ p.objs = s.objs
      /\ p.calls # <<>> => Top(p).phase \in {"needs", "neededBy"}
  BY <1>1, TopReturns
<1>3. PICK o : o = Top(s).obj
  OBVIOUS
<1>4. o \in 1 .. m /\ r = Return(p, o)
  BY <1>1, <1>3, TopIsTyped DEF Good, Frame
<1>5. Dated(s) => Dated(r)
  BY <1>1, <1>2, <1>4, PoppedIsDated, ReturnIsDated
<1>6. ASSUME NEW L, NEW key, Heeding(s, L, key), Unmerged(s, key),
             Top(s).phase = "neededBy" \/ NameOf(s.objs, Top(s).obj) \notin L
      PROVE  /\ Heeding(r, L, key) /\ Keeps(s, r, L, key)
             /\ (Len(s.calls) = 1 => \A k \in L : ~Planned(s, k)) =>
                  r.answer = Raised \/ Plans(s, r, L, key)
  <2>1. /\ HeedingBelow(p, L, key) /\ Pledged(p, NameOf(p.objs, o), L, key)
        /\ Keeps(s, p, L, key)
        /\ (Len(s.calls) = 1 => \A k \in L : ~Planned(s, k)) => Plans(s, p, L, key)
    BY <1>1, <1>2, <1>3, <1>6, PoppedHeeds
  <2>2. Unmerged(p, key)
    BY <1>2, <1>6 DEF Unmerged
  <2>3. /\ Heeding(r, L, key) /\ Keeps(p, r, L, key)
        /\ r.answer = Raised \/ Plans(p, r, L, key)
    BY <1>2, <1>4, <2>1, <2>2, ReturnHeeds
  <2> QED BY <2>1, <2>3, KeepsAgain
<1> QED BY <1>5, <1>6

(* The change itself is queried, ...                                       *)
LEMMA QueryAttends ==
  ASSUME NEW m \in Nat, NEW t \in Thread, NEW others, Good(Own(t), m, others), GerritTyped,
         Dated(Own(t)), Query(t)
  PROVE  Attends(t)
<1>1. PICK s : s = Own(t)
  OBVIOUS
<1>2. PICK f : f = Top(s)
  OBVIOUS
<1>3. Good(s, m, others) /\ s.calls # <<>> /\ f.phase = "query" /\ Dated(s)
  BY <1>1, <1>2 DEF Query, Calling, Own
<1>4. /\ f \in Frame(m) /\ f.obj \in 1 .. m /\ Len(s.calls) \in DOMAIN s.calls
      /\ f = s.calls[Len(s.calls)]
  BY <1>2, <1>3, TopIsTyped DEF Good, Frame
<1>5. PICK o \in 1 .. m : o = f.obj
  BY <1>4
<1>6. s \in State(m) /\ s.objs \in [1 .. m -> Change(m)] /\ s.objs[o] \in Change(m)
  BY <1>3 DEF Good, State, Objects
<1>7. PICK n : n = s.objs[o].num
  OBVIOUS
<1>8. n \in Number
  BY <1>6, <1>7 DEF Change
<1>9. PICK merged \in BOOLEAN : merged = (gerrit.status[n] = "merged")
  OBVIOUS
<1>10. PICK current \in BOOLEAN : current = (s.objs[o].ps = gerrit.latest[n])
  OBVIOUS
<1>11. PICK c : c = [s.objs[o] EXCEPT !.whole = TRUE, !.merged = merged, !.current = current]
  OBVIOUS
<1>12. /\ c \in Change(m) /\ c.num = s.objs[o].num /\ c.ps = s.objs[o].ps /\ c.whole
       /\ c.needs = s.objs[o].needs /\ c.merged = merged
  BY <1>6, <1>11 DEF Change
<1>13. PICK q : q = SetObject(s, o, c)
  OBVIOUS
<1>14. q = [s EXCEPT !.objs[f.obj].whole = TRUE, !.objs[f.obj].merged = merged,
                     !.objs[f.obj].current = (s.objs[f.obj].ps = gerrit.latest[n])]
  BY <1>5, <1>6, <1>10, <1>11, <1>13 DEF State, SetObject
<1>15. CanSet(s, m, others, o, c)
  BY <1>3, <1>12 DEF CanSet
<1>16. Good(q, m, others) /\ q.objs[o] = c /\ q.calls = s.calls
  BY <1>13, <1>15, ObjectSet
<1>17. q.calls # <<>> /\ Top(q) = f /\ q.objs[Top(q).obj].whole
  BY <1>2, <1>3, <1>5, <1>12, <1>16 DEF Top
<1>18. Dated(q)
  BY <1>3, <1>7, <1>9, <1>12, <1>13, <1>15, SettingIsDated
<1>19. PICK g : g = [f EXCEPT !.history = @ \cup {n}, !.phase = "depends", !.deps = gerrit.needs[n]]
  OBVIOUS
<1>20. /\ g \in Frame(m) /\ g.obj = f.obj /\ g.phase = "depends" /\ g.deps = gerrit.needs[n]
       /\ g.todo = f.todo
  <2>1. gerrit.needs[n] \in SUBSET Number /\ "depends" \in Phase
    BY <1>8 DEF GerritTyped, Phase
  <2> QED BY <1>4, <1>8, <1>19, <2>1 DEF Frame
<1>21. PICK r : r = IF merged THEN Return(Popped(q), f.obj) ELSE WithTop(q, g)
  OBVIOUS
<1>22. Becomes(t, r)
  BY <1>1, <1>2, <1>5, <1>7, <1>9, <1>14, <1>19, <1>21 DEF Query, Popped
<1>23. Dated(r)
  <2>1. \A k \in g.todo : Past(k)
    BY <1>3, <1>4, <1>20 DEF Dated
  <2>2. ~merged => Dated(r)
    BY <1>16, <1>17, <1>18, <1>20, <1>21, <2>1, TopIsDated
  <2>3. merged => Dated(r)
    BY <1>16, <1>17, <1>18, <1>21, ReturningHeeds
  <2> QED BY <2>2, <2>3
<1>24. ASSUME NEW i \in Number, NEW L, L = DependentKeys(i), NEW key, key = Latest(i),
              gerrit.status[i] = "open", Heeding(s, L, key)
       PROVE  /\ Heeding(r, L, key) /\ Keeps(s, r, L, key)
              /\ Rooted(s, key) => r.answer = Raised \/ Plans(s, r, L, key)
  <2>1. Heeding(q, L, key) /\ Keeps(s, q, L, key) /\ Plans(s, q, L, key)
    BY <1>12, <1>13, <1>15, <1>24, SettingHeeds
  <2>2. NameOf(q.objs, o) \in L => i \in gerrit.needs[n] /\ gerrit.status[n] = "open"
    BY <1>7, <1>12, <1>16, <1>24, DependentKeysAre DEF NameOf
  <2>3. CASE merged
    <3>1. NameOf(q.objs, Top(q).obj) \notin L
      BY <1>5, <1>9, <1>17, <2>2, <2>3
    <3>2. Unmerged(q, key)
      BY <1>18, <1>24, OpenIsUnmerged
    <3>3. /\ Heeding(r, L, key) /\ Keeps(q, r, L, key)
          /\ (Len(q.calls) = 1 => \A k \in L : ~Planned(q, k)) =>
               r.answer = Raised \/ Plans(q, r, L, key)
      BY <1>16, <1>17, <1>21, <2>1, <2>3, <3>1, <3>2, ReturningHeeds
    <3>4. ASSUME Rooted(s, key) PROVE Len(q.calls) # 1
      <4>1. SUFFICES ASSUME Len(s.calls) = 1 PROVE FALSE
        BY <1>16
      <4>2. NameOf(s.objs, o) = key
        BY <1>3, <1>4, <1>5, <3>4, <4>1 DEF Rooted
      <4>3. n = i
        BY <1>7, <1>24, <4>2, DependentKeysAre DEF NameOf
      <4> QED BY <1>9, <1>24, <2>3, <4>3
    <3> QED BY <2>1, <3>3, <3>4, KeepsAgain
  <2>4. CASE ~merged
    <3>1. NameOf(q.objs, g.obj) \in L => Heeds(q.objs, g, key)
      BY <1>5, <1>20, <1>24, <2>2, DependentKeysAre DEF Heeds
    <3>2. HeedingBelow(q, L, key)
      BY <2>1 DEF Heeding, HeedingBelow
    <3>3. Heeding(r, L, key) /\ Keeps(q, r, L, key) /\ Plans(q, r, L, key)
      BY <1>16, <1>17, <1>20, <1>21, <2>4, <3>1, <3>2, TopHeeds
    <3> QED BY <2>1, <3>3, KeepsAgain
  <2> QED BY <2>3, <2>4
<1>25. \A i \in Number : Attending(s, r, i)
  BY <1>24 DEF Attending
<1> QED BY <1>1, <1>22, <1>23, <1>25 DEF Attends

(* ... then what it depends on, ...                                        *)
LEMMA DependsAttends ==
  ASSUME NEW m \in Nat, NEW t \in Thread, NEW others, Good(Own(t), m, others), GerritTyped,
         Dated(Own(t)), Depends(t)
  PROVE  Attends(t)
<1>1. PICK s : s = Own(t)
  OBVIOUS
<1>2. PICK f : f = Top(s)
  OBVIOUS
<1>3. Calling(t, "depends")
  BY DEF Depends
<1>4. /\ Good(s, m, others) /\ s \in State(m) /\ s.calls # <<>> /\ f \in Frame(m)
      /\ f.phase = "depends"
  BY <1>1, <1>2, <1>3, CallingIs
<1>5. PICK g : g = [f EXCEPT !.phase = "needs", !.todo = {Latest(n) : n \in f.deps}]
  OBVIOUS
<1>6. /\ g \in Frame(m) /\ g.obj = f.obj /\ g.phase = "needs"
      /\ g.todo = {Latest(n) : n \in f.deps} /\ f.deps \in SUBSET Number
  <2>1. f.deps \in SUBSET Number
    BY <1>4 DEF Frame
  <2>2. PICK K : K = {Latest(n) : n \in f.deps}
    OBVIOUS
  <2>3. K \in SUBSET Key /\ "needs" \in Phase
    BY <2>1, <2>2, LatestIsKey DEF Phase
  <2>4. g = [f EXCEPT !.phase = "needs", !.todo = K]
    BY <1>5, <2>2
  <2> QED BY <1>4, <2>1, <2>2, <2>3, <2>4 DEF Frame
<1>7. PICK r : r = WithTop(s, g)
  OBVIOUS
<1>8. Becomes(t, r)
  BY <1>1, <1>2, <1>5, <1>7 DEF Depends
<1>9. Dated(r)
  <2>1. \A k \in g.todo : Past(k)
    BY <1>6 DEF Past, Latest, GerritTyped
  <2> QED BY <1>1, <1>4, <1>6, <1>7, <2>1, TopIsDated
<1>10. ASSUME NEW i \in Number, NEW L, L = DependentKeys(i), NEW key, key = Latest(i),
              Heeding(s, L, key)
       PROVE  Heeding(r, L, key) /\ Keeps(s, r, L, key) /\ Plans(s, r, L, key)
  <2>1. Len(s.calls) \in DOMAIN s.calls /\ f = s.calls[Len(s.calls)]
    BY <1>2, <1>4, TopIsTyped
  <2>2. HeedsAt(s, Len(s.calls), L, key)
    BY <1>10, <2>1 DEF Heeding
  <2>3. NameOf(s.objs, f.obj) \in L => i \in f.deps
    BY <1>4, <1>10, <2>1, <2>2, DependentKeysAre DEF HeedsAt, Heeds, Coming
  <2>4. NameOf(s.objs, g.obj) \in L => Heeds(s.objs, g, key)
    BY <1>6, <1>10, <2>3 DEF Heeds
  <2>5. HeedingBelow(s, L, key)
    BY <1>10 DEF Heeding, HeedingBelow
  <2> QED BY <1>2, <1>4, <1>6, <1>7, <2>4, <2>5, TopHeeds
<1>11. \A i \in Number : Attending(s, r, i)
  BY <1>10 DEF Attending
<1> QED BY <1>1, <1>8, <1>9, <1>11 DEF Attends

(* ... a change that it needs is asked for, ...                            *)
LEMMA GetNeededAttends ==
  ASSUME NEW m \in Nat, NEW t \in Thread, NEW others, Good(Own(t), m, others), GerritTyped,
         Dated(Own(t)), GetNeeded(t)
  PROVE  Attends(t)
<1>1. PICK s : s = Own(t)
  OBVIOUS
<1>2. PICK f : f = Top(s)
  OBVIOUS
<1>3. Calling(t, "needs")
  BY DEF GetNeeded
<1>4. /\ Good(s, m, others) /\ s \in State(m) /\ s.calls # <<>> /\ f \in Frame(m)
      /\ s.objs[f.obj].whole /\ f.phase = "needs" /\ Dated(s)
      /\ Stacked(s) /\ Named(s) /\ Filled(s, others)
  BY <1>1, <1>2, <1>3, CallingIs DEF Good
<1>5. PICK name \in f.todo :
        LET p == WithTop(Own(t), [f EXCEPT !.todo = @ \ {name}])
        IN Becomes(t, IF name[1] \in f.history THEN Raise(p) ELSE GetChange(p, name, FALSE, f.history))
  BY <1>1, <1>2 DEF GetNeeded
<1>6. PICK g : g = [f EXCEPT !.todo = @ \ {name}]
  OBVIOUS
<1>7. /\ g \in Frame(m) /\ g.obj = f.obj /\ g.phase = "needs" /\ g.got = f.got
      /\ g.todo = f.todo \ {name} /\ name \in Key /\ f.history \in SUBSET Number
      /\ g.phase # "query" /\ g.phase # "neededBy"
  BY <1>4, <1>5, <1>6 DEF Frame
<1>8. PICK q : q = WithTop(s, g)
  OBVIOUS
<1>9. /\ Good(q, m, others) /\ q.objs = s.objs /\ q.calls # <<>> /\ Top(q) = g
      /\ Top(q).phase \in {"needs", "neededBy"}
  BY <1>2, <1>4, <1>7, <1>8, TopGoesOn
<1>10. PICK r : r = IF name[1] \in f.history THEN Raise(q) ELSE GetChange(q, name, FALSE, f.history)
  OBVIOUS
<1>11. Becomes(t, r)
  BY <1>1, <1>5, <1>6, <1>8, <1>10
<1>12. Len(s.calls) \in DOMAIN s.calls /\ f = s.calls[Len(s.calls)]
  BY <1>2, <1>4, TopIsTyped
<1>13. Dated(q) /\ Past(name)
  <2>1. \A k \in f.todo : Past(k)
    BY <1>4, <1>12 DEF Dated
  <2> QED BY <1>4, <1>5, <1>7, <1>8, <2>1, TopIsDated
<1>14. Dated(r)
  <2>1. FALSE \in BOOLEAN
    OBVIOUS
  <2> QED BY <1>7, <1>9, <1>10, <1>13, <2>1, RaiseIsDated, GetChangeIsDated
<1>15. ASSUME NEW i \in Number, NEW L, L = DependentKeys(i), NEW key, key = Latest(i),
              gerrit.status[i] = "open", Heeding(s, L, key)
       PROVE  /\ Heeding(r, L, key) /\ Keeps(s, r, L, key)
              /\ r.answer = Raised \/ Plans(s, r, L, key)
  <2>1. HeedingBelow(s, L, key) /\ HeedsAt(s, Len(s.calls), L, key)
    BY <1>12, <1>15 DEF Heeding, HeedingBelow
  <2>2. HeedingBelow(q, L, key) /\ Keeps(s, q, L, key) /\ Plans(s, q, L, key)
    BY <1>2, <1>4, <1>7, <1>8, <2>1, TopHeeds
  <2>3. Pledged(q, name, L, key)
    <3>1. ~Coming(s, Len(s.calls), key)
      <4>1. DOMAIN s.calls = 1 .. Len(s.calls) /\ Len(s.calls) \in Nat
        BY <1>4, TopIsTyped
      <4> QED BY <4>1 DEF Coming
    <3>2. NameOf(s.objs, f.obj) \in L => Heeds(s.objs, f, key)
      BY <1>12, <2>1, <3>1 DEF HeedsAt
    <3>3. Heeds(s.objs, f, key) => Heeds(s.objs, g, key) \/ name = key
      BY <1>4, <1>7 DEF Heeds
    <3> QED BY <1>7, <1>9, <3>2, <3>3 DEF Pledged
  <2>4. CASE name[1] \in f.history
    BY <1>9, <1>10, <2>2, <2>4, RaiseHeeds, KeepsAgain
  <2>5. CASE name[1] \notin f.history
    <3>1. Unmerged(q, key) /\ FALSE \in BOOLEAN
      BY <1>13, <1>15, OpenIsUnmerged
    <3>2. r = GetChange(q, name, FALSE, f.history)
      BY <1>10, <2>5
    <3>3. /\ Heeding(r, L, key) /\ Keeps(q, r, L, key)
          /\ r.answer = Raised \/ Plans(q, r, L, key)
      BY <1>7, <1>9, <2>2, <2>3, <3>1, <3>2, GetChangeHeeds
    <3> QED BY <2>2, <3>3, KeepsAgain
  <2> QED BY <2>4, <2>5
<1>16. \A i \in Number : Attending(s, r, i)
  BY <1>15 DEF Attending
<1> QED BY <1>1, <1>11, <1>14, <1>16 DEF Attends

(* ... the call returns its change, ...                                    *)
LEMMA UpdatedAttends ==
  ASSUME NEW m \in Nat, NEW t \in Thread, NEW others, Good(Own(t), m, others),
         Dated(Own(t)), Updated(t)
  PROVE  Attends(t)
<1>1. PICK s : s = Own(t)
  OBVIOUS
<1>2. PICK f : f = Top(s)
  OBVIOUS
<1>3. Calling(t, "neededBy")
  BY DEF Updated
<1>4. /\ Good(s, m, others) /\ s \in State(m) /\ s.calls # <<>> /\ f \in Frame(m)
      /\ s.objs \in [1 .. m -> Change(m)] /\ s.objs[f.obj] \in Change(m)
      /\ s.objs[f.obj].whole /\ f.phase = "neededBy" /\ f.todo = {} /\ Dated(s)
  BY <1>1, <1>2, <1>3, CallingIs DEF Updated
<1>5. PICK o \in 1 .. m : o = f.obj
  BY <1>4 DEF Frame
<1>6. PICK c : c = [s.objs[o] EXCEPT !.neededBy = f.got]
  OBVIOUS
<1>7. /\ c \in Change(m) /\ c.num = s.objs[o].num /\ c.ps = s.objs[o].ps /\ c.whole
      /\ c.needs = s.objs[o].needs /\ c.merged = s.objs[o].merged
  BY <1>4, <1>5, <1>6 DEF Change, Frame
<1>8. CanSet(s, m, others, o, c)
  BY <1>4, <1>7 DEF CanSet
<1>9. PICK q : q = SetObject(s, o, c)
  OBVIOUS
<1>10. Good(q, m, others) /\ q.objs[o] = c /\ q.calls = s.calls
  BY <1>8, <1>9, ObjectSet
<1>11. Popped(q) = [s EXCEPT !.objs[f.obj].neededBy = f.got, !.calls = Front(@)]
  BY <1>4, <1>5, <1>6, <1>9 DEF SetObject, State, Popped
<1>12. q.calls # <<>> /\ Top(q) = f /\ q.objs[Top(q).obj].whole
  BY <1>2, <1>4, <1>5, <1>7, <1>10 DEF Top
<1>13. PICK r : r = Return(Popped(q), Top(q).obj)
  OBVIOUS
<1>14. Becomes(t, r)
  BY <1>1, <1>2, <1>11, <1>12, <1>13 DEF Updated
<1>15. Dated(q)
  BY <1>4, <1>7, <1>8, <1>9, SettingIsDated
<1>16. Dated(r)
  BY <1>10, <1>12, <1>13, <1>15, ReturningHeeds
<1>17. ASSUME NEW i \in Number, NEW L, L = DependentKeys(i), NEW key, key = Latest(i),
              gerrit.status[i] = "open", Heeding(s, L, key)
       PROVE  /\ Heeding(r, L, key) /\ Keeps(s, r, L, key)
              /\ r.answer = Raised \/ Plans(s, r, L, key)
  <2>1. Heeding(q, L, key) /\ Keeps(s, q, L, key) /\ Plans(s, q, L, key)
    BY <1>7, <1>8, <1>9, <1>17, SettingHeeds
  <2>2. Unmerged(q, key) /\ Top(q).phase = "neededBy"
    BY <1>4, <1>12, <1>15, <1>17, OpenIsUnmerged
  <2>3. Len(q.calls) = 1 => \A k \in L : ~Planned(q, k)
    BY <1>4, <1>12 DEF Planned, Top
  <2>4. /\ Heeding(r, L, key) /\ Keeps(q, r, L, key)
        /\ r.answer = Raised \/ Plans(q, r, L, key)
    BY <1>10, <1>12, <1>13, <2>1, <2>2, <2>3, ReturningHeeds
  <2> QED BY <2>1, <2>4, KeepsAgain
<1>18. \A i \in Number : Attending(s, r, i)
  BY <1>17 DEF Attending
<1> QED BY <1>1, <1>14, <1>16, <1>18 DEF Attends

(* ... or has given it its needs, ...                                      *)
LEMMA DependentsAttends ==
  ASSUME NEW m \in Nat, NEW t \in Thread, NEW others, Good(Own(t), m, others), GerritTyped,
         Dated(Own(t)), Dependents(t)
  PROVE  Attends(t)
<1>1. PICK s : s = Own(t)
  OBVIOUS
<1>2. PICK f : f = Top(s)
  OBVIOUS
<1>3. Calling(t, "needs")
  BY DEF Dependents
<1>4. /\ Good(s, m, others) /\ s \in State(m) /\ s.calls # <<>> /\ f \in Frame(m)
      /\ s.objs \in [1 .. m -> Change(m)] /\ s.objs[f.obj] \in Change(m)
      /\ s.objs[f.obj].whole /\ f.phase = "needs" /\ f.todo = {} /\ Dated(s)
  BY <1>1, <1>2, <1>3, CallingIs DEF Dependents
<1>5. PICK o \in 1 .. m : o = f.obj
  BY <1>4 DEF Frame
<1>6. PICK c : c = [s.objs[o] EXCEPT !.needs = f.got]
  OBVIOUS
<1>7. /\ c \in Change(m) /\ c.num = s.objs[o].num /\ c.ps = s.objs[o].ps /\ c.whole
      /\ c.needs = f.got /\ c.merged = s.objs[o].merged
  BY <1>4, <1>5, <1>6 DEF Change, Frame
<1>8. CanSet(s, m, others, o, c)
  BY <1>4, <1>7 DEF CanSet
<1>9. PICK q : q = SetObject(s, o, c)
  OBVIOUS
<1>10. /\ Good(q, m, others) /\ q.objs[o] = c /\ q.calls = s.calls /\ Grown(s.objs, q.objs, m)
  BY <1>8, <1>9, ObjectSet
<1>11. q = [s EXCEPT !.objs[f.obj].needs = f.got]
  BY <1>4, <1>5, <1>6, <1>9 DEF SetObject, State
<1>12. PICK N \in SUBSET Number : N = {k \in Number : s.objs[o].num \in gerrit.needs[k]}
  OBVIOUS
<1>13. PICK K : K = {Latest(m1) : m1 \in N}
  OBVIOUS
<1>14. PICK g : g = [f EXCEPT !.phase = "neededBy", !.got = {}, !.todo = K]
  OBVIOUS
<1>15. g \in Frame(m) /\ g.obj = f.obj /\ g.phase = "neededBy" /\ g.todo = K
  <2>1. K \in SUBSET Key /\ "neededBy" \in Phase /\ {} \in SUBSET (1 .. m)
    BY <1>13, LatestIsKey DEF Phase
  <2> QED BY <1>4, <1>14, <2>1 DEF Frame
<1>16. PICK r : r = WithTop(q, g)
  OBVIOUS
<1>17. Becomes(t, r)
  BY <1>1, <1>2, <1>5, <1>11, <1>12, <1>13, <1>14, <1>16 DEF Dependents
<1>18. q.calls # <<>> /\ Top(q) = f /\ Len(s.calls) \in DOMAIN s.calls /\ f = s.calls[Len(s.calls)]
  BY <1>2, <1>4, <1>10, TopIsTyped DEF Top
<1>19. Dated(r)
  <2>1. Dated(q)
    BY <1>4, <1>7, <1>8, <1>9, SettingIsDated
  <2>2. \A k \in K : Past(k)
    BY <1>12, <1>13 DEF Past, Latest, GerritTyped
  <2> QED BY <1>10, <1>15, <1>16, <1>18, <2>1, <2>2, TopIsDated
<1>20. ASSUME NEW i \in Number, NEW L, L = DependentKeys(i), NEW key, key = Latest(i),
              Heeding(s, L, key)
       PROVE  /\ Heeding(r, L, key) /\ Keeps(s, r, L, key)
              /\ Rooted(s, key) => Plans(s, r, L, key)
  <2>1. NameOf(s.objs, o) \in L => \E d \in f.got : NameOf(s.objs, d) = key
    <3>1. HeedsAt(s, Len(s.calls), L, key)
      BY <1>18, <1>20 DEF Heeding
    <3>2. ~Coming(s, Len(s.calls), key)
      <4>1. DOMAIN s.calls = 1 .. Len(s.calls) /\ Len(s.calls) \in Nat
        BY <1>4, TopIsTyped
      <4> QED BY <4>1 DEF Coming
    <3> QED BY <1>4, <1>5, <1>18, <3>1, <3>2 DEF HeedsAt, Heeds
  <2>2. Heeding(q, L, key) /\ Keeps(s, q, L, key) /\ Plans(s, q, L, key)
    BY <1>7, <1>8, <1>9, <1>20, <2>1, SettingHeeds
  <2>3. HeedingBelow(q, L, key) /\ Heeds(q.objs, g, key)
    BY <1>15, <2>2 DEF Heeding, HeedingBelow, Heeds
  <2>4. NameOf(q.objs, g.obj) \in L => Follows(q.objs, g.obj, key)
    <3>1. \A d \in 1 .. m : NameOf(q.objs, d) = NameOf(s.objs, d)
      BY <1>10 DEF Grown
    <3>2. f.got \subseteq 1 .. m
      BY <1>4 DEF Frame
    <3> QED BY <1>5, <1>7, <1>10, <1>15, <2>1, <3>1, <3>2 DEF Follows
  <2>5. Heeding(r, L, key) /\ Keeps(q, r, L, key)
    BY <1>10, <1>15, <1>16, <1>18, <2>3, <2>4, TopHeeds
  <2>6. ASSUME Rooted(s, key) PROVE Plans(q, r, L, key)
    <3>1. ASSUME Len(q.calls) = 1 PROVE L \subseteq K
      <4>1. NameOf(s.objs, o) = key
        BY <1>4, <1>5, <1>10, <1>18, <2>6, <3>1 DEF Rooted
      <4>2. s.objs[o].num = i
        BY <1>20, <4>1, DependentKeysAre DEF NameOf
      <4> QED BY <1>12, <1>13, <1>20, <4>2 DEF DependentKeys
    <3> QED BY <1>10, <1>15, <1>16, <1>18, <3>1, TopHeeds
  <2> QED BY <2>2, <2>5, <2>6, KeepsAgain
<1>21. \A i \in Number : Attending(s, r, i)
  BY <1>20 DEF Attending
<1> QED BY <1>1, <1>17, <1>19, <1>21 DEF Attends

(* ... or asks for one that needs it.                                      *)
LEMMA GetDependentAttends ==
  ASSUME NEW m \in Nat, NEW t \in Thread, NEW others, Good(Own(t), m, others), GerritTyped,
         Dated(Own(t)), GetDependent(t)
  PROVE  Attends(t)
<1>1. PICK s : s = Own(t)
  OBVIOUS
<1>2. PICK f : f = Top(s)
  OBVIOUS
<1>3. Calling(t, "neededBy")
  BY DEF GetDependent
<1>4. /\ Good(s, m, others) /\ s \in State(m) /\ s.calls # <<>> /\ f \in Frame(m)
      /\ s.objs[f.obj].whole /\ f.phase = "neededBy" /\ Dated(s)
      /\ Stacked(s) /\ Named(s) /\ Filled(s, others)
  BY <1>1, <1>2, <1>3, CallingIs DEF Good
<1>5. PICK name \in f.todo :
        Becomes(t, GetChange(WithTop(Own(t), [f EXCEPT !.todo = @ \ {name}]), name, RefreshDependents, {}))
  BY <1>1, <1>2 DEF GetDependent
<1>6. PICK g : g = [f EXCEPT !.todo = @ \ {name}]
  OBVIOUS
<1>7. /\ g \in Frame(m) /\ g.obj = f.obj /\ g.phase = "neededBy"
      /\ g.todo = f.todo \ {name} /\ name \in Key /\ g.phase # "query"
  BY <1>4, <1>5, <1>6 DEF Frame
<1>8. PICK q : q = WithTop(s, g)
  OBVIOUS
<1>9. /\ Good(q, m, others) /\ q.objs = s.objs /\ q.calls # <<>> /\ Top(q) = g
      /\ Top(q).phase \in {"needs", "neededBy"}
  BY <1>2, <1>4, <1>7, <1>8, TopGoesOn
<1>10. PICK r : r = GetChange(q, name, TRUE, {})
  OBVIOUS
<1>11. Becomes(t, r)
  BY <1>1, <1>5, <1>6, <1>8, <1>10 DEF RefreshDependents
<1>12. Dated(q) /\ Past(name)
  <2>1. Len(s.calls) \in DOMAIN s.calls /\ f = s.calls[Len(s.calls)]
    BY <1>2, <1>4, TopIsTyped
  <2>2. \A k \in f.todo : Past(k)
    BY <1>4, <2>1 DEF Dated
  <2> QED BY <1>4, <1>5, <1>7, <1>8, <2>2, TopIsDated
<1>13. TRUE \in BOOLEAN /\ {} \in SUBSET Number
  OBVIOUS
<1>14. Dated(r)
  BY <1>7, <1>9, <1>10, <1>12, <1>13, GetChangeIsDated
<1>15. ASSUME NEW i \in Number, NEW L, L = DependentKeys(i), NEW key, key = Latest(i),
              gerrit.status[i] = "open", Heeding(s, L, key)
       PROVE  Heeding(r, L, key) /\ Keeps(s, r, L, key) /\ Plans(s, r, L, key)
  <2>1. HeedingBelow(s, L, key) /\ Heeds(s.objs, g, key)
    BY <1>7, <1>15 DEF Heeding, HeedingBelow, Heeds
  <2>2. HeedingBelow(q, L, key) /\ Keeps(s, q, L, key)
    BY <1>2, <1>4, <1>7, <1>8, <2>1, TopHeeds
  <2>3. PICK M : M = L \ {name}
    OBVIOUS
  <2>4. Plans(s, q, M, key)
    <3>1. \A k \in M : k \in f.todo => k \in g.todo
      BY <1>7, <2>3
    <3> QED BY <1>2, <1>4, <1>7, <1>8, <3>1, TopHeeds
  <2>5. Unmerged(q, key) /\ Pledged(q, name, L, key)
    BY <1>7, <1>9, <1>12, <1>15, <2>1, OpenIsUnmerged DEF Pledged
  <2>6. /\ Heeding(r, L, key) /\ Keeps(q, r, L, key) /\ Plans(q, r, L, key)
        /\ Cared(r, name, key)
    BY <1>7, <1>9, <1>10, <1>13, <2>2, <2>5, GetChangeHeeds
  <2>7. Keeps(q, r, M, key) /\ Plans(q, r, M, key)
    BY <2>3, <2>6 DEF Keeps, Plans
  <2>8. Plans(s, r, M, key)
    BY <2>4, <2>7, KeepsAgain
  <2>9. Plans(s, r, L, key)
    BY <2>3, <2>6, <2>8 DEF Plans
  <2> QED BY <2>2, <2>6, <2>9, KeepsAgain
<1>16. \A i \in Number : Attending(s, r, i)
  BY <1>15 DEF Attending
<1> QED BY <1>1, <1>11, <1>14, <1>16 DEF Attends

-----------------------------------------------------------------------------
(* What a thread asks for anew: an event's change, and not what it needs.  *)
LEMMA AsksAttends ==
  ASSUME NEW m \in Nat, NEW t \in Thread, NEW others, Good(Own(t), m, others), Dated(Own(t)),
         calls[t] = <<>>, NEW name \in Key, Past(name), NEW refresh \in BOOLEAN,
         NEW r, r = GetChange(Own(t), name, refresh, {})
  PROVE  /\ Dated(r)
         /\ \A n \in Number : gerrit.status[n] = "open" =>
              Heeding(r, DependentKeys(n), Latest(n)) /\ Keeps(Own(t), r, DependentKeys(n), Latest(n))
         /\ refresh => r.calls # <<>> /\ r.calls[1].phase = "query"
         /\ r.calls # <<>> \/ (r.objs = objs /\ r.cache = cache)
<1>1. PICK s : s = Own(t)
  OBVIOUS
<1>2. s.objs = objs /\ s.cache = cache /\ s.calls = <<>> /\ {} \in SUBSET Number
  BY <1>1 DEF Own
<1>3. Dated(r)
  BY <1>1, <1>2, GetChangeIsDated
<1>4. ASSUME NEW L, NEW key, Unmerged(s, key)
      PROVE  /\ Heeding(r, L, key) /\ Keeps(s, r, L, key)
             /\ refresh => r.calls # <<>> /\ r.calls[1].phase = "query"
  <2>1. HeedingBelow(s, L, key) /\ Pledged(s, name, L, key)
    BY <1>2 DEF HeedingBelow, Pledged
  <2> QED BY <1>1, <1>2, <1>4, <2>1, GetChangeHeeds
<1>5. ASSUME NEW n \in Number, gerrit.status[n] = "open" PROVE Unmerged(s, Latest(n))
  BY <1>1, <1>5, OpenIsUnmerged
<1>6. refresh => r.calls # <<>> /\ r.calls[1].phase = "query"
  <2>1. PICK key : key = <<0, 0, 0>>
    OBVIOUS
  <2>2. \A i \in DOMAIN s.objs : NameOf(s.objs, i) # key
    BY <2>1 DEF NameOf
  <2>3. Unmerged(s, key)
    BY <2>2 DEF Unmerged
  <2> QED BY <1>4, <2>3
<1>7. r.calls # <<>> \/ (r.objs = objs /\ r.cache = cache)
  <2>1. CASE name \in DOMAIN s.cache /\ ~refresh
    <3>1. r = [s EXCEPT !.answer = s.cache[name]]
      BY <1>1, <1>2, <2>1 DEF GetChange, Return
    <3> QED BY <1>2, <3>1, <1>1 DEF Own
  <2>2. CASE ~(name \in DOMAIN s.cache /\ ~refresh)
    <3>1. PICK k, os, o, f : Made(s, r, m, others, k, os, o, f, name)
      BY <1>1, <1>2, <2>2, CallIsMade
    <3>2. CanCall(s, m, others, k, os, o, f, name) /\ r = Called(s, os, o, f, name)
      BY <3>1 DEF Made
    <3> QED BY <3>2, CallIsGood
  <2> QED BY <2>1, <2>2
<1> QED BY <1>1, <1>3, <1>4, <1>5, <1>6, <1>7

(* A list followed by another.                                             *)
LEMMA JoinedIs ==
  ASSUME NEW D, NEW s \in Seq(D), NEW u \in Seq(D)
  PROVE  ToSet(s \o u) \subseteq ToSet(s) \cup ToSet(u)
<1>1. PICK r : r = s \o u
  OBVIOUS
<1>2. \A i \in DOMAIN r : (i \in DOMAIN s /\ r[i] = s[i]) \/ (i - Len(s) \in DOMAIN u /\ r[i] = u[i - Len(s)])
  BY <1>1
<1> QED BY <1>1, <1>2 DEF ToSet

(* The zuul trigger's events are among those that follow.                  *)
LEMMA TriggersJoined ==
  ASSUME NEW m, CacheOk(m), triggers \in Seq(Event), HandleTrigger
  PROVE  \A e \in ToSet(triggers') : e \in ToSet(triggers) \/ \E d \in Dependent : e = ParentEvent(d)
<1>1. PICK D : D = {ParentEvent(d) : d \in Dependent}
  OBVIOUS
<1>2. D \subseteq Event /\ \A e \in D : \E d \in Dependent : e = ParentEvent(d)
  BY <1>1, ParentsAreEvents DEF CacheOk
<1>3. ASSUME NEW es \in Seq(D), triggers' = triggers \o es
      PROVE  ToSet(triggers') \subseteq ToSet(triggers) \cup D
  <2>1. es \in Seq(Event)
    BY <1>2
  <2>2. ToSet(es) \subseteq D
    BY DEF ToSet
  <2> QED BY <1>3, <2>1, <2>2, JoinedIs
<1>4. triggers' = triggers \/ \E es \in Seq(D) : triggers' = triggers \o es
  BY <1>1, ParentsAdded
<1> QED BY <1>2, <1>3, <1>4

(* What waits has waited before, or is an event Gerrit has just sent or    *)
(* one of the zuul trigger's.                                              *)
LEMMA WhatWaits ==
  ASSUME Typed, NEW m, CacheOk(m), [Next]_vars
  PROVE  \A e \in Waiting' : \/ e \in Waiting \/ e = NoEvent
                             \/ e.key = <<e.key[1], gerrit'.latest[e.key[1]]>>
                             \/ \E d \in Dependent : e = ParentEvent(d)
<1>1. /\ EventsTyped /\ HandInv /\ LoopInv
      /\ events \in Seq(Event) /\ triggers \in Seq(Event) /\ file \in Seq(Event)
      /\ hand \in [Thread -> Event \cup {NoEvent}]
  BY DEF Typed, EventsTyped
<1>2. /\ events \in Seq(ToSet(events)) /\ triggers \in Seq(ToSet(triggers))
  BY <1>1, SeqOfItsOwn
<1>3. \A e : e \in Waiting <=> \/ e = hand["scheduler"] \/ e = hand["connector"] \/ e \in ToSet(file)
                               \/ e \in ToSet(triggers) \/ e \in ToSet(events)
  BY DEF Waiting, Handled, Refreshing
<1>4. \A e : e \in Waiting' <=> \/ e = hand'["scheduler"] \/ e = hand'["connector"] \/ e \in ToSet(file')
                                \/ e \in ToSet(triggers') \/ e \in ToSet(events')
  BY DEF Waiting, Handled, Refreshing
<1>5. \A e : e \notin ToSet(<<>>)
  BY DEF ToSet
<1>6. CASE Gerrit
  <2>1. PICK type, n : Emits(type, n)
    BY <1>6 DEF Gerrit, Upload, Comment, Close
  <2>2. PICK e : e = [type |-> type, key |-> <<n, gerrit'.latest[n]>>, id |-> sent + 1]
    OBVIOUS
  <2>3. /\ events' = (IF Up THEN Append(events, e) ELSE events) /\ UNCHANGED <<triggers, file, hand>>
    BY <2>1, <2>2 DEF Emits, exitVars
  <2>4. ToSet(Append(events, e)) \subseteq ToSet(events) \cup {e}
    BY <1>2, AddedAtTheEnd
  <2>5. e.key = <<e.key[1], gerrit'.latest[e.key[1]]>>
    BY <2>2
  <2> QED BY <1>3, <1>4, <2>3, <2>4, <2>5
<1>7. CASE TakeEvent
  <2>1. /\ events # <<>> /\ hand' = [hand EXCEPT !["connector"] = Head(events)]
        /\ events' = Tail(events) /\ UNCHANGED <<triggers, file>>
    BY <1>7 DEF TakeEvent, exitVars
  <2>2. hand'["connector"] = Head(events) /\ hand'["scheduler"] = hand["scheduler"]
    BY <1>1, <2>1 DEF Thread
  <2>3. Head(events) \in ToSet(events) /\ ToSet(events') \subseteq ToSet(events)
    BY <1>2, <2>1, TakenFromTheFront
  <2> QED BY <1>3, <1>4, <2>1, <2>2, <2>3
<1>8. CASE Deliver
  <2>1. /\ hand' = [hand EXCEPT !["connector"] = NoEvent] /\ UNCHANGED <<events, file>>
        /\ triggers' = triggers \/ triggers' = Append(triggers, hand["connector"])
    BY <1>8 DEF Deliver, exitVars
  <2>2. hand'["connector"] = NoEvent /\ hand'["scheduler"] = hand["scheduler"]
    BY <1>1, <2>1 DEF Thread
  <2>3. ToSet(Append(triggers, hand["connector"])) \subseteq ToSet(triggers) \cup {hand["connector"]}
    BY <1>2, AddedAtTheEnd
  <2> QED BY <1>3, <1>4, <2>1, <2>2, <2>3
<1>9. CASE TakeTrigger
  <2>1. /\ triggers # <<>>
        /\ hand' = hand \/ hand' = [hand EXCEPT !["scheduler"] = Head(triggers)]
        /\ triggers' = Tail(triggers) /\ UNCHANGED <<events, file>>
    BY <1>9 DEF TakeTrigger, exitVars
  <2>2. hand'["scheduler"] \in {hand["scheduler"], Head(triggers)} /\ hand'["connector"] = hand["connector"]
    BY <1>1, <2>1 DEF Thread
  <2>3. Head(triggers) \in ToSet(triggers) /\ ToSet(triggers') \subseteq ToSet(triggers)
    BY <1>2, <2>1, TakenFromTheFront
  <2> QED BY <1>3, <1>4, <2>1, <2>2, <2>3
<1>10. CASE HandleTrigger
  <2>1. /\ hand' = [hand EXCEPT !["scheduler"] = NoEvent] /\ UNCHANGED <<events, file>>
    BY <1>10, Handling DEF exitVars
  <2>2. hand'["scheduler"] = NoEvent /\ hand'["connector"] = hand["connector"]
    BY <1>1, <2>1 DEF Thread
  <2>3. \A e \in ToSet(triggers') : e \in ToSet(triggers) \/ \E d \in Dependent : e = ParentEvent(d)
    BY <1>1, <1>10, TriggersJoined
  <2> QED BY <1>3, <1>4, <2>1, <2>2, <2>3
<1>11. CASE Pause
  <2>1. /\ UNCHANGED <<hand, events>>
        /\ triggers' = triggers \/ triggers' = <<>>
        /\ file' = file \/ file' = triggers
    BY <1>11 DEF Pause
  <2> QED BY <1>3, <1>4, <1>5, <2>1
<1>12. CASE Die
  <2>1. /\ events' = <<>> /\ triggers' = <<>> /\ hand' = [t \in Thread |-> NoEvent] /\ file' = file
    BY <1>12 DEF Die
  <2> QED BY <1>3, <1>4, <1>5, <2>1 DEF Thread
<1>13. CASE Resume
  <2>1. /\ UNCHANGED <<hand, events>> /\ triggers' = triggers \o file /\ file' = <<>>
    BY <1>13 DEF Resume, FileAfterResume
  <2>2. ToSet(triggers \o file) \subseteq ToSet(triggers) \cup ToSet(file)
    BY <1>1, JoinedIs
  <2> QED BY <1>3, <1>4, <1>5, <2>1, <2>2
<1>14. CASE \/ WakeUp \/ BuildCompleted \/ MergeCompleted \/ EndResults \/ EndEvents \/ Process \/ Start
            \/ Exit \/ Reconfigure \/ UNCHANGED vars \/ \E t \in Thread : Updating(t) \/ Fails(t)
  <2>1. UNCHANGED <<events, triggers, file, hand>>
    <3>1. CASE \E t \in Thread : Updating(t) \/ Fails(t)
      BY <3>1 DEF Updating, Fails, exitVars
    <3>2. CASE WakeUp \/ BuildCompleted \/ MergeCompleted \/ EndResults \/ EndEvents \/ Process \/ Start
      BY <3>2 DEF WakeUp, BuildCompleted, MergeCompleted, EndResults, EndEvents, Process, Start, exitVars
    <3>3. CASE Exit \/ Reconfigure \/ UNCHANGED vars
      BY <3>3 DEF Exit, Reconfigure, vars, exitVars
    <3> QED BY <1>14, <3>1, <3>2, <3>3
  <2> QED BY <1>3, <1>4, <2>1
<1> QED BY <1>6, <1>7, <1>8, <1>9, <1>10, <1>11, <1>12, <1>13, <1>14
        DEF Next, Connector, Scheduler, Main, Thread

-----------------------------------------------------------------------------
(* Nothing that Zuul has got hold of is newer than Gerrit.                 *)
DatedInv ==
  /\ \A t \in Thread : Dated(Own(t))
  /\ \A e \in Waiting : e # NoEvent => Past(e.key)

(* What Gerrit does: patchsets come, and what is merged stays so.          *)
LEMMA GerritGoesOn ==
  ASSUME GerritTyped, [Next]_vars
  PROVE  /\ \A n \in Number : gerrit'.latest[n] >= gerrit.latest[n]
         /\ \A n \in Number : gerrit'.status[n] = gerrit.status[n] \/ gerrit.status[n] = "open"
         /\ \A n \in Number, p \in Number : n \in gerrit'.needs[p] =>
              n \in gerrit.needs[p] \/ gerrit'.latest[p] > gerrit.latest[p]
         /\ gerrit' = gerrit \/ (Gerrit /\ UNCHANGED <<cacheVars, hand, triggers>>)
<1>1. /\ gerrit.latest \in [Number -> Nat] /\ gerrit.needs \in [Number -> SUBSET Number]
      /\ gerrit.status \in [Number -> {"open", "merged", "abandoned"}]
  BY DEF GerritTyped
<1>2. ASSUME gerrit' = gerrit
      PROVE  /\ \A n \in Number : gerrit'.latest[n] >= gerrit.latest[n]
             /\ \A n \in Number : gerrit'.status[n] = gerrit.status[n] \/ gerrit.status[n] = "open"
             /\ \A n \in Number, p \in Number : n \in gerrit'.needs[p] =>
                  n \in gerrit.needs[p] \/ gerrit'.latest[p] > gerrit.latest[p]
  BY <1>1, <1>2
<1>3. CASE Gerrit
  <2>1. PICK n \in Number : Upload(n) \/ Comment(n) \/ Close(n)
    BY <1>3 DEF Gerrit
  <2>2. UNCHANGED <<cacheVars, hand, triggers>>
    <3>1. PICK type, p : Emits(type, p)
      BY <2>1 DEF Upload, Comment, Close
    <3> QED BY <3>1 DEF Emits
  <2>3. CASE Upload(n)
    <3>1. PICK deps : gerrit.status[n] = "open" /\ gerrit' = [gerrit EXCEPT !.latest[n] = @ + 1, !.needs[n] = deps]
      BY <2>3 DEF Upload
    <3>2. /\ gerrit'.latest = [gerrit.latest EXCEPT ![n] = @ + 1]
          /\ gerrit'.needs = [gerrit.needs EXCEPT ![n] = deps] /\ gerrit'.status = gerrit.status
      BY <3>1 DEF GerritTyped
    <3> QED BY <1>1, <1>3, <2>1, <2>2, <3>2
  <2>4. CASE Comment(n)
    BY <1>2, <2>4 DEF Comment
  <2>5. CASE Close(n)
    <3>1. PICK how : gerrit.status[n] = "open" /\ gerrit' = [gerrit EXCEPT !.status[n] = how]
      BY <2>5 DEF Close
    <3>2. /\ gerrit'.latest = gerrit.latest /\ gerrit'.needs = gerrit.needs
          /\ gerrit'.status = [gerrit.status EXCEPT ![n] = how]
      BY <3>1 DEF GerritTyped
    <3> QED BY <1>1, <1>3, <2>1, <2>2, <3>1, <3>2
  <2> QED BY <2>1, <2>3, <2>4, <2>5
<1>4. CASE ~Gerrit
  <2>1. gerrit' = gerrit
    <3>1. CASE \E t \in Thread : Updating(t) \/ Fails(t)
      BY <3>1 DEF Updating, Fails, Update, QueryFails, Query, Depends, GetNeeded, Dependents,
                  GetDependent, Updated
    <3>2. CASE ~\E t \in Thread : Updating(t) \/ Fails(t)
      BY <1>4, <3>2 DEF Next, Connector, Scheduler, Main, Thread, TakeEvent, Deliver, WakeUp,
         BuildCompleted, MergeCompleted, EndResults, TakeTrigger, HandleTrigger, EndEvents, Process,
         Pause, Reconfigure, Die, Start, Resume, Exit, vars
    <3> QED BY <3>1, <3>2
  <2> QED BY <1>2, <2>1
<1> QED BY <1>3, <1>4

(* So the names that Gerrit had are still its own, ...                     *)
LEMMA PastStays ==
  ASSUME GerritTyped, GerritTyped', [Next]_vars, NEW k \in Key, Past(k)
  PROVE  Past(k)'
<1>1. k[1] \in Number /\ k[2] \in Nat
  BY DEF Key
<1>2. gerrit.latest[k[1]] \in Nat /\ gerrit'.latest[k[1]] \in Nat /\ gerrit'.latest[k[1]] >= gerrit.latest[k[1]]
  BY <1>1, GerritGoesOn DEF GerritTyped
<1> QED BY <1>1, <1>2 DEF Past

(* ... and what a thread knows is no newer.                                *)
LEMMA DatedStays ==
  ASSUME GerritTyped, GerritTyped', [Next]_vars, NEW m \in Nat, NEW s \in State(m), Dated(s)
  PROVE  Dated(s)'
<1>1. ASSUME NEW i \in DOMAIN s.objs PROVE DatedObject(s.objs[i])'
  <2>1. PICK c \in Change(m) : c = s.objs[i]
    BY DEF State, Objects
  <2>2. c.num \in Number /\ <<c.num, c.ps>> \in Key
    BY DEF Change, Key
  <2>3. Past(<<c.num, c.ps>>) /\ (c.merged => gerrit.status[c.num] = "merged")
    BY <2>1 DEF Dated, DatedObject
  <2>4. Past(<<c.num, c.ps>>)'
    BY <2>2, <2>3, PastStays
  <2>5. c.merged => gerrit'.status[c.num] = "merged"
    BY <2>2, <2>3, GerritGoesOn
  <2>6. DatedObject(c)'
    BY <2>4, <2>5 DEF DatedObject
  <2> QED BY <2>1, <2>6
<1>2. ASSUME NEW i \in DOMAIN s.calls, NEW k \in s.calls[i].todo PROVE Past(k)'
  <2>1. s.calls[i] \in Frame(m)
    BY DEF State, Stacks
  <2>2. k \in Key /\ Past(k)
    BY <1>2, <2>1 DEF Frame, Dated
  <2> QED BY <2>2, PastStays
<1> QED BY <1>1, <1>2 DEF Dated

(* All the steps of an update are such.                                    *)
LEMMA UpdateAttends ==
  ASSUME NEW m \in Nat, NEW t \in Thread, NEW others, Good(Own(t), m, others), GerritTyped,
         Dated(Own(t)), Update(t)
  PROVE  Attends(t) /\ gerrit' = gerrit
<1>1. Attends(t)
  BY QueryAttends, DependsAttends, GetNeededAttends, DependentsAttends, GetDependentAttends,
     UpdatedAttends DEF Update
<1>2. gerrit' = gerrit
  BY DEF Update, Query, Depends, GetNeeded, Dependents, GetDependent, Updated
<1> QED BY <1>1, <1>2

(* A step of one thread leaves the other with what it had.                 *)
LEMMA DatedThread ==
  ASSUME NEW m, CacheOk(m), \A u \in Thread : Dated(Own(u)), NEW t \in Thread, NEW r,
         Becomes(t, r), Dated(r), gerrit' = gerrit
  PROVE  \A u \in Thread : Dated(Own(u))'
<1>1. /\ objs' = r.objs /\ calls' = [calls EXCEPT ![t] = r.calls]
      /\ calls \in [Thread -> Stacks(m)]
  BY DEF Becomes, CacheOk
<1>2. /\ \A i \in DOMAIN objs' : /\ objs'[i].ps <= gerrit'.latest[objs'[i].num]
                                 /\ objs'[i].merged => gerrit'.status[objs'[i].num] = "merged"
  BY <1>1 DEF Dated, DatedObject, Past
<1>3. ASSUME NEW u \in Thread
      PROVE  \A i \in DOMAIN calls'[u] : \A k \in calls'[u][i].todo : k[2] <= gerrit'.latest[k[1]]
  <2>1. CASE u = t
    BY <1>1, <2>1 DEF Dated, Past
  <2>2. CASE u # t
    BY <1>1, <2>2 DEF Dated, Own, Past
  <2> QED BY <2>1, <2>2
<1> QED BY <1>2, <1>3 DEF Dated, DatedObject, Past, Own

(* Every step keeps it.                                                    *)
LEMMA DatedStep ==
  ASSUME Typed, Typed', DatedInv, [Next]_vars
  PROVE  DatedInv'
<1>0. PICK m : CacheOk(m)
  BY DEF Typed, CacheInv
<1>1. /\ GerritTyped /\ GerritTyped' /\ EventsTyped /\ HandInv /\ m \in Nat
      /\ \A t \in Thread : Dated(Own(t)) /\ Good(Own(t), m, Asked(Other(t)))
  BY <1>0 DEF Typed, CacheInv, CacheOk, DatedInv
<1>2. \A e \in Waiting' : e # NoEvent => Past(e.key)'
  <2> SUFFICES ASSUME NEW e \in Waiting', e # NoEvent PROVE Past(e.key)'
    OBVIOUS
  <2>1. e \in Event
    BY <1>1 DEF Typed, EventsTyped, Waiting, Handled, Refreshing, ToSet, Thread
  <2>2. e.key \in Key /\ e.key[1] \in Number
    BY <2>1, EventIsSome DEF Key
  <2>3. CASE e \in Waiting
    BY <1>1, <2>2, <2>3, PastStays DEF DatedInv
  <2>4. CASE e.key = <<e.key[1], gerrit'.latest[e.key[1]]>>
    <3>1. gerrit'.latest[e.key[1]] \in Nat
      BY <1>1, <2>2 DEF GerritTyped
    <3> QED BY <2>4, <3>1 DEF Past
  <2>5. ASSUME NEW d \in Dependent, e = ParentEvent(d) PROVE Past(e.key)'
    <3>1. d \in DOMAIN objs /\ e.key = <<objs[d].num, objs[d].ps>>
      BY <1>0, <1>1, <2>5, ParentsAreEvents DEF CacheOk, Objects, ParentEvent, KeyOf
    <3>2. Past(e.key)
      BY <1>1, <3>1 DEF Dated, DatedObject, Own, Thread
    <3> QED BY <1>1, <2>2, <3>2, PastStays
  <2> QED BY <1>0, <2>3, <2>4, <2>5, WhatWaits
<1>3. ASSUME NEW t \in Thread, NEW e \in Waiting, e \in Event, NEW refresh \in BOOLEAN, calls[t] = <<>>,
             Becomes(t, GetChange(Own(t), e.key, refresh, {})), gerrit' = gerrit
      PROVE  \A u \in Thread : Dated(Own(u))'
  <2>1. e.key \in Key /\ Past(e.key)
    BY <1>3, EventIsSome DEF DatedInv
  <2>2. Dated(GetChange(Own(t), e.key, refresh, {}))
    BY <1>1, <1>3, <2>1, AsksAttends
  <2> QED BY <1>0, <1>1, <1>3, <2>2, DatedThread
<1>4. CASE TakeEvent
  <2>1. PICK e : e = Head(events)
    OBVIOUS
  <2>2. e \in Event /\ e \in ToSet(events)
    <3>1. events \in Seq(Event) /\ events # <<>>
      BY <1>1, <1>4 DEF EventsTyped, TakeEvent
    <3> QED BY <2>1, <3>1, SeqOfItsOwn, TakenFromTheFront, Taking
  <2>3. /\ calls["connector"] = <<>> /\ Becomes("connector", GetChange(Own("connector"), e.key, TRUE, {}))
        /\ gerrit' = gerrit
    BY <1>4, <2>1 DEF TakeEvent
  <2>4. "connector" \in Thread /\ e \in Waiting
    BY <2>2 DEF Thread, Waiting
  <2> QED BY <1>2, <1>3, <2>2, <2>3, <2>4 DEF DatedInv
<1>5. CASE TakeTrigger
  <2>1. CASE UNCHANGED cacheVars
    <3>1. gerrit' = gerrit
      BY <1>5 DEF TakeTrigger
    <3> QED BY <1>1, <1>2, <2>1, <3>1 DEF DatedInv, Dated, DatedObject, Past, Own, cacheVars
  <2>2. CASE ~UNCHANGED cacheVars
    <3>1. PICK e : e = Head(triggers)
      OBVIOUS
    <3>2. e \in Event /\ e \in ToSet(triggers)
      <4>1. triggers \in Seq(Event) /\ triggers # <<>>
        BY <1>1, <1>5 DEF EventsTyped, TakeTrigger
      <4> QED BY <3>1, <4>1, SeqOfItsOwn, TakenFromTheFront, Taking
    <3>3. calls["scheduler"] = <<>> /\ gerrit' = gerrit
      BY <1>1, <1>5 DEF HandInv, HandOk, TakeTrigger, Thread
    <3>4. Becomes("scheduler", GetChange(Own("scheduler"), e.key, FALSE, {}))
      BY <1>5, <2>2, <3>1 DEF TakeTrigger
    <3>5. "scheduler" \in Thread /\ e \in Waiting
      BY <3>2 DEF Thread, Waiting
    <3> QED BY <1>2, <1>3, <3>2, <3>3, <3>4, <3>5 DEF DatedInv
  <2> QED BY <2>1, <2>2
<1>6. ASSUME NEW t \in Thread, Updating(t) \/ Fails(t) PROVE DatedInv'
  <2>1. Update(t) \/ QueryFails(t)
    BY <1>6 DEF Updating, Fails
  <2>2. CASE Update(t)
    <3>1. Attends(t) /\ gerrit' = gerrit
      BY <1>1, <2>2, UpdateAttends
    <3> QED BY <1>0, <1>1, <1>2, <3>1, DatedThread DEF Attends, DatedInv
  <2>3. CASE QueryFails(t)
    <3>1. Becomes(t, Raise(Own(t))) /\ gerrit' = gerrit
      BY <2>3 DEF QueryFails
    <3>2. Dated(Raise(Own(t)))
      BY <1>1, RaiseIsDated
    <3> QED BY <1>0, <1>1, <1>2, <3>1, <3>2, DatedThread DEF DatedInv
  <2> QED BY <2>1, <2>2, <2>3
<1>7. CASE Gerrit
  <2>1. PICK type, n : Emits(type, n)
    BY <1>7 DEF Gerrit, Upload, Comment, Close
  <2>2. UNCHANGED cacheVars
    BY <2>1 DEF Emits
  <2>3. ASSUME NEW t \in Thread PROVE Dated(Own(t))'
    <3>1. PICK s : s = Own(t)
      OBVIOUS
    <3>2. s.objs = objs /\ s.calls = calls[t] /\ s \in State(m) /\ Dated(s)
      BY <1>1, <3>1 DEF Own, Good
    <3>3. Dated(s)'
      BY <1>1, <3>2, DatedStays
    <3> QED BY <2>2, <3>2, <3>3 DEF Dated, DatedObject, Own, cacheVars
  <2> QED BY <1>2, <2>3 DEF DatedInv
<1>8. CASE Die
  <2>1. objs' = <<>> /\ \A t \in Thread : calls'[t] = <<>>
    BY <1>8 DEF Die
  <2> QED BY <1>2, <2>1 DEF DatedInv, Dated, Own
<1>9. CASE \/ Deliver \/ WakeUp \/ BuildCompleted \/ MergeCompleted \/ EndResults \/ HandleTrigger
           \/ EndEvents \/ Process \/ Pause \/ Reconfigure \/ Start \/ Resume \/ Exit \/ UNCHANGED vars
  <2>1. objs' = objs /\ calls' = calls /\ gerrit' = gerrit
    BY <1>9 DEF Deliver, WakeUp, BuildCompleted, MergeCompleted, EndResults, HandleTrigger,
                EndEvents, Process, Pause, Reconfigure, Start, Resume, Exit, vars, cacheVars
  <2> QED BY <1>1, <1>2, <2>1 DEF DatedInv, Dated, DatedObject, Past, Own
<1> QED BY <1>4, <1>5, <1>6, <1>7, <1>8, <1>9 DEF Next, Connector, Scheduler, Main, Thread

-----------------------------------------------------------------------------
(* An event of the latest patchset of n is with the scheduler, or on its   *)
(* way, the connector being about to refresh the change.                   *)
NewPatchset(e, n) == e.type = "patchset-created" /\ e.key = Latest(n)
Arrived(n) == \E e \in ToSet(triggers) \cup Handled : NewPatchset(e, n)
Arriving(n) == NewPatchset(hand["connector"], n) /\ answer["connector"] # Raised

(* Then all calls heed that patchset, and when it has arrived, the changes *)
(* that are to follow it are cared for; before that, they are, or the      *)
(* connector plans to.                                                     *)
Cares(k, key) == \E t \in Thread : Cared(Own(t), k, key)
Followed(n) ==
  /\ Arrived(n) \/ Arriving(n) => \A t \in Thread : Heeding(Own(t), DependentKeys(n), Latest(n))
  /\ \A k \in DependentKeys(n) \cap DOMAIN cache :
       /\ Arrived(n) => Cares(k, Latest(n))
       /\ Arriving(n) => Cares(k, Latest(n)) \/ Planned(Own("connector"), k)
LatestInv ==
  NothingFailed /\ (\E t \in Thread : calls[t] = <<>>) =>
    \A n \in Number : gerrit.status[n] = "open" => Followed(n)

(* What a thread at rest cares for, the other does as well.                *)
LEMMA CaresAlone ==
  ASSUME NEW t \in Thread, calls[Other(t)] = <<>>, NEW k, NEW key, Cares(k, key)
  PROVE  Cared(Own(t), k, key)
BY DEF Cares, Cared, Working, Own, Other, Thread

(* The threads do nothing, and at most a change that was refreshed is      *)
(* handed on.                                                              *)
LEMMA FollowedStill ==
  ASSUME NEW n \in Number, Followed(n), UNCHANGED <<gerrit, objs, cache, calls>>,
         Arrived(n)' => Arrived(n) \/ (Arriving(n) /\ calls["connector"] = <<>>),
         Arriving(n)' => Arriving(n)
  PROVE  Followed(n)'
<1>1. DependentKeys(n)' = DependentKeys(n) /\ Latest(n)' = Latest(n)
  BY DEF DependentKeys, Latest
<1>2. \A t \in Thread : \A L, key : Heeding(Own(t), L, key)' <=> Heeding(Own(t), L, key)
  BY DEF Heeding, HeedsAt, Heeds, Coming, NameOf, Own
<1>3. \A k, key : Cares(k, key)' <=> Cares(k, key)
  BY DEF Cares, Cared, Follows, Working, NameOf, Own
<1>4. \A k : /\ Planned(Own("connector"), k)' <=> Planned(Own("connector"), k)
             /\ calls["connector"] = <<>> => ~Planned(Own("connector"), k)
  BY DEF Planned, Own
<1> QED BY <1>1, <1>2, <1>3, <1>4 DEF Followed

(* One thread takes a step while the other is at rest.                     *)
LEMMA FollowedMoves ==
  ASSUME NEW m, CacheOk(m), NEW t \in Thread, calls[Other(t)] = <<>>, NEW r, Becomes(t, r),
         gerrit' = gerrit, NEW n \in Number, Followed(n), Arrived(n)' => Arrived(n),
         Arrived(n)' \/ Arriving(n)' =>
           /\ Heeding(r, DependentKeys(n), Latest(n))
           /\ Keeps(Own(t), r, DependentKeys(n), Latest(n)),
         Arriving(n)' =>
           \/ \A k \in DependentKeys(n) : t = "connector" /\ Planned(r, k)
           \/ Arriving(n) /\ (t = "connector" => Plans(Own(t), r, DependentKeys(n), Latest(n)))
  PROVE  Followed(n)'
<1>1. PICK L, key : L = DependentKeys(n) /\ key = Latest(n) /\ L = DependentKeys(n)' /\ key = Latest(n)'
  BY DEF DependentKeys, Latest
<1>2. /\ objs' = r.objs /\ cache' = r.cache
      /\ calls' = [calls EXCEPT ![t] = r.calls] /\ calls \in [Thread -> Stacks(m)]
  BY DEF Becomes, CacheOk
<1>3. calls'[t] = r.calls /\ calls'[Other(t)] = <<>>
  BY <1>2 DEF Other, Thread
<1>4. \A u \in Thread : u = t \/ u = Other(t)
  BY DEF Other, Thread
<1>5. ASSUME Heeding(r, L, key) PROVE \A u \in Thread : Heeding(Own(u), L, key)'
  <2>1. Heeding(Own(t), L, key)'
    BY <1>2, <1>3, <1>5 DEF Heeding, HeedsAt, Heeds, Coming, NameOf, Own
  <2>2. Heeding(Own(Other(t)), L, key)'
    BY <1>3 DEF Heeding, Own
  <2> QED BY <1>4, <2>1, <2>2
<1>6. \A k : Cared(r, k, key) => Cares(k, key)'
  BY <1>2, <1>3 DEF Cares, Cared, Follows, Working, NameOf, Own
<1>7. t = "connector" => \A k : Planned(r, k) => Planned(Own("connector"), k)'
  BY <1>3 DEF Planned, Own
<1>8. ASSUME NEW k \in L \cap DOMAIN r.cache, Arrived(n)' PROVE Cares(k, key)'
  <2>1. k \in DOMAIN cache => Cared(Own(t), k, key)
    BY <1>1, <1>8, CaresAlone DEF Followed
  <2>2. Cared(r, k, key)
    BY <1>1, <1>8, <2>1 DEF Keeps, Own
  <2> QED BY <1>6, <2>2
<1>9. ASSUME NEW k \in L \cap DOMAIN r.cache, Arriving(n)'
      PROVE  Cares(k, key)' \/ Planned(Own("connector"), k)'
  <2>1. CASE \A j \in L : t = "connector" /\ Planned(r, j)
    BY <1>7, <1>9, <2>1
  <2>2. CASE Arriving(n) /\ (t = "connector" => Plans(Own(t), r, L, key))
    <3>1. k \in DOMAIN cache => Cared(Own(t), k, key) \/ Planned(Own("connector"), k)
      BY <1>1, <1>9, <2>2, CaresAlone DEF Followed
    <3>2. CASE k \notin DOMAIN cache \/ Cared(Own(t), k, key)
      <4>1. Cared(r, k, key)
        BY <1>1, <1>9, <3>2 DEF Keeps, Own
      <4> QED BY <1>6, <4>1
    <3>3. CASE Planned(Own("connector"), k)
      <4>1. t = "connector"
        BY <3>3 DEF Planned, Own, Other, Thread
      <4>2. Planned(r, k) \/ Cared(r, k, key)
        BY <1>9, <2>2, <3>3, <4>1 DEF Plans
      <4> QED BY <1>6, <1>7, <4>1, <4>2
    <3> QED BY <3>1, <3>2, <3>3
  <2> QED BY <1>1, <1>9, <2>1, <2>2
<1>10. Arrived(n)' \/ Arriving(n)' => Heeding(r, L, key)
  BY <1>1
<1>11. Followed(n)' <=>
         /\ Arrived(n)' \/ Arriving(n)' => \A u \in Thread : Heeding(Own(u), L, key)'
         /\ \A k \in L \cap DOMAIN cache' :
              /\ Arrived(n)' => Cares(k, key)'
              /\ Arriving(n)' => Cares(k, key)' \/ Planned(Own("connector"), k)'
  BY <1>1 DEF Followed
<1> QED BY <1>2, <1>5, <1>8, <1>9, <1>10, <1>11

(* Gerrit goes on, and Zuul has not heard of it yet.                       *)
LEMMA FollowedBefore ==
  ASSUME Typed, Typed', DatedInv, [Next]_vars, gerrit' # gerrit, NEW n \in Number,
         gerrit.status[n] = "open" => Followed(n), gerrit'.status[n] = "open"
  PROVE  Followed(n)'
<1>0. PICK m : CacheOk(m)
  BY DEF Typed, CacheInv
<1>1. /\ GerritTyped /\ GerritTyped' /\ m \in Nat
      /\ UNCHANGED <<objs, cache, calls, answer, hand, triggers>>
  BY <1>0, GerritGoesOn DEF Typed, CacheInv, CacheOk, cacheVars
<1>2. gerrit.status[n] = "open" /\ Followed(n)
  BY <1>1, GerritGoesOn
<1>3. \A p \in Number : gerrit.latest[p] \in Nat /\ gerrit'.latest[p] \in Nat /\ gerrit'.latest[p] >= gerrit.latest[p]
  BY <1>1, GerritGoesOn DEF GerritTyped
<1>4. ASSUME NEW e \in Waiting, NewPatchset(e, n)'
      PROVE  NewPatchset(e, n) /\ Latest(n)' = Latest(n)
  <2>1. e.type = "patchset-created" /\ e.key = <<n, gerrit'.latest[n]>>
    BY <1>4 DEF NewPatchset, Latest
  <2>2. Past(e.key)
    BY <2>1 DEF DatedInv, NoEvent
  <2>3. gerrit'.latest[n] = gerrit.latest[n]
    BY <1>3, <2>1, <2>2 DEF Past
  <2> QED BY <2>1, <2>3 DEF NewPatchset, Latest
<1>5. ASSUME NEW k \in DependentKeys(n)', Past(k) PROVE k \in DependentKeys(n)
  <2>1. PICK p \in Number : /\ k = <<p, gerrit'.latest[p]>> /\ n \in gerrit'.needs[p]
                            /\ gerrit'.status[p] = "open"
    BY <1>5 DEF DependentKeys, Latest
  <2>2. gerrit'.latest[p] = gerrit.latest[p]
    BY <1>3, <1>5, <2>1 DEF Past
  <2>3. n \in gerrit.needs[p] /\ gerrit.status[p] = "open"
    BY <1>1, <1>3, <2>1, <2>2, GerritGoesOn
  <2> QED BY <2>1, <2>2, <2>3 DEF DependentKeys, Latest
<1>6. /\ Arrived(n)' => Arrived(n) /\ Latest(n)' = Latest(n)
      /\ Arriving(n)' => Arriving(n) /\ Latest(n)' = Latest(n)
  BY <1>1, <1>4 DEF Arrived, Arriving, Waiting, Handled, Refreshing
<1>7. \A i \in 1 .. m : Past(NameOf(objs, i))
  <2>1. Dated(Own("connector")) /\ DOMAIN objs = 1 .. m
    BY <1>0 DEF DatedInv, CacheOk, Objects, Thread
  <2> QED BY <2>1 DEF Dated, DatedObject, Own, NameOf
<1>8. ASSUME NEW t \in Thread, NEW key, Heeding(Own(t), DependentKeys(n), key)
      PROVE  Heeding(Own(t), DependentKeys(n)', key)
  <2>1. \A i \in DOMAIN calls[t] : calls[t][i].obj \in 1 .. m
    <3>1. \A i \in DOMAIN calls[t] : calls[t][i] \in Frame(m)
      BY <1>0 DEF CacheOk, Stacks
    <3> QED BY <3>1 DEF Frame
  <2> QED BY <1>5, <1>7, <1>8, <2>1 DEF Heeding, HeedsAt, Own
<1>9. ASSUME NEW k \in DOMAIN cache, k \in DependentKeys(n)' PROVE k \in DependentKeys(n)
  <2>1. Named(Own("connector")) /\ cache \in Caches(m)
    BY <1>0 DEF CacheOk, Good, Thread
  <2>2. k = NameOf(objs, cache[k]) /\ cache[k] \in 1 .. m
    BY <1>1, <2>1, <1>9, CacheIsTyped DEF Named, Own
  <2> QED BY <1>5, <1>7, <1>9, <2>2
<1>10. \A t \in Thread : \A L, key : Heeding(Own(t), L, key)' <=> Heeding(Own(t), L, key)
  BY <1>1 DEF Heeding, HeedsAt, Heeds, Coming, NameOf, Own
<1>11. \A k, key : Cares(k, key)' <=> Cares(k, key)
  BY <1>1 DEF Cares, Cared, Follows, Working, NameOf, Own
<1>12. \A k : Planned(Own("connector"), k)' <=> Planned(Own("connector"), k)
  BY <1>1 DEF Planned, Own
<1> QED BY <1>1, <1>2, <1>6, <1>8, <1>9, <1>10, <1>11, <1>12 DEF Followed

(* Every step keeps it.                                                    *)
LEMMA LatestStep ==
  ASSUME Typed, Typed', WholeInv, DatedInv, LatestInv, [Next]_vars
  PROVE  LatestInv'
<1> SUFFICES ASSUME NothingFailed', \E t \in Thread : calls'[t] = <<>>,
                    NEW n \in Number, gerrit'.status[n] = "open"
             PROVE  Followed(n)'
  BY DEF LatestInv
<1>0. PICK m : CacheOk(m)
  BY DEF Typed, CacheInv
<1>1. /\ GerritTyped /\ EventsTyped /\ HandInv /\ m \in Nat
      /\ \A t \in Thread : Dated(Own(t)) /\ Good(Own(t), m, Asked(Other(t)))
      /\ calls \in [Thread -> Stacks(m)] /\ hand \in [Thread -> Event \cup {NoEvent}]
      /\ triggers \in Seq(Event) /\ events \in Seq(Event)
      /\ answer \in [Thread -> Answers(m)]
  BY <1>0 DEF Typed, CacheInv, CacheOk, DatedInv, EventsTyped
<1>2. NothingFailed /\ boot = "resumed"
  BY UpsetsGrow DEF NothingFailed, WholeInv
<1>3. (\E t \in Thread : calls[t] = <<>>) /\ gerrit.status[n] = "open" => Followed(n)
  BY <1>2 DEF LatestInv
<1>4. ASSUME NEW t \in Thread, calls[t] # <<>>, calls[Other(t)] # <<>>, Updating(t) PROVE FALSE
  <2>1. \A u \in Thread : calls[u] # <<>> /\ answer[u] # Raised
    BY <1>1, <1>4 DEF HandInv, HandOk, Other, Thread, NoAnswer, Raised
  <2> QED BY <1>2, <2>1 DEF WholeInv, Informed, Thread
<1>5. CASE gerrit' # gerrit
  <2>1. calls' = calls
    BY <1>1, <1>5, GerritGoesOn DEF cacheVars
  <2> QED BY <1>1, <1>3, <1>5, <2>1, FollowedBefore
<1>6. ASSUME NEW t \in Thread, Updating(t) PROVE Followed(n)'
  <2>1. Update(t) /\ hand' = hand /\ triggers' = triggers
    BY <1>6 DEF Updating
  <2>2. Attends(t) /\ gerrit' = gerrit
    BY <1>1, <2>1, UpdateAttends
  <2>3. PICK r : Becomes(t, r) /\ Attending(Own(t), r, n)
    BY <2>2 DEF Attends
  <2>4. calls[t] # <<>>
    BY <1>0, <1>1, <2>1, ThreadUpdates
  <2>5. calls[Other(t)] = <<>> /\ Other(t) \in Thread
    BY <1>4, <1>6, <2>4 DEF Other, Thread
  <2>6. Followed(n) /\ gerrit.status[n] = "open"
    BY <1>3, <2>2, <2>5
  <2>7. answer[t] = NoAnswer /\ NameOf(objs, calls[t][1].obj) = hand[t].key
    BY <1>1, <2>4 DEF HandInv, HandOk
  <2>8. answer'[t] = r.answer /\ \A u \in Thread : u # t => answer'[u] = answer[u]
    BY <1>1, <2>3 DEF Becomes
  <2>9. Arrived(n)' <=> Arrived(n)
    BY <2>1, <2>2 DEF Arrived, Handled, NewPatchset, Latest
  <2>10. Arriving(n)' => Arriving(n) /\ (t = "connector" => r.answer # Raised)
    BY <2>1, <2>2, <2>7, <2>8 DEF Arriving, NewPatchset, Latest, Thread, NoAnswer, Raised
  <2>11. Arrived(n)' \/ Arriving(n)' => Heeding(Own(t), DependentKeys(n), Latest(n))
    BY <2>6, <2>9, <2>10 DEF Followed
  <2>12. t = "connector" /\ Arriving(n)' => Rooted(Own(t), Latest(n))
    BY <2>7, <2>10 DEF Rooted, Own, Arriving, NewPatchset, NameOf
  <2> QED BY <1>0, <2>2, <2>3, <2>5, <2>6, <2>9, <2>10, <2>11, <2>12, FollowedMoves DEF Attending
<1>7. ASSUME NEW t \in Thread, Fails(t) PROVE FALSE
  BY <1>7 DEF Fails, Upset, NothingFailed
<1>8. CASE TakeEvent
  <2>1. PICK e : e = Head(events)
    OBVIOUS
  <2>2. e \in Event /\ e \in ToSet(events)
    <3>1. events # <<>>
      BY <1>8 DEF TakeEvent
    <3> QED BY <1>1, <2>1, <3>1, SeqOfItsOwn, TakenFromTheFront, Taking
  <2>3. /\ calls["connector"] = <<>> /\ gerrit' = gerrit /\ triggers' = triggers
        /\ hand' = [hand EXCEPT !["connector"] = e] /\ "connector" \in Thread
        /\ Becomes("connector", GetChange(Own("connector"), e.key, TRUE, {}))
    BY <1>8, <2>1 DEF TakeEvent, Thread
  <2>4. e.key \in Key /\ Past(e.key)
    BY <2>2, EventIsSome DEF DatedInv, Waiting
  <2>5. PICK r : r = GetChange(Own("connector"), e.key, TRUE, {})
    OBVIOUS
  <2>6. gerrit.status[n] = "open" /\ Followed(n)
    BY <1>3, <2>3
  <2>7. /\ Heeding(r, DependentKeys(n), Latest(n))
        /\ Keeps(Own("connector"), r, DependentKeys(n), Latest(n))
        /\ r.calls # <<>> /\ r.calls[1].phase = "query"
    BY <1>1, <2>3, <2>4, <2>5, <2>6, AsksAttends
  <2>8. calls[Other("connector")] = <<>>
    <3>1. calls' = [calls EXCEPT !["connector"] = r.calls]
      BY <2>3, <2>5 DEF Becomes
    <3>2. calls'["connector"] # <<>> /\ calls'["scheduler"] = calls["scheduler"]
      BY <1>1, <2>7, <3>1 DEF Thread
    <3> QED BY <3>2 DEF Thread, Other
  <2>9. \A k : Planned(r, k)
    BY <2>7 DEF Planned
  <2>10. Arrived(n)' <=> Arrived(n)
    BY <1>1, <2>3 DEF Arrived, Handled, NewPatchset, Latest, Thread
  <2> QED BY <1>0, <2>3, <2>5, <2>6, <2>7, <2>8, <2>9, <2>10, FollowedMoves
<1>9. CASE TakeTrigger
  <2>1. PICK e : e = Head(triggers)
    OBVIOUS
  <2>2. e \in Event /\ e \in ToSet(triggers) /\ ToSet(Tail(triggers)) \subseteq ToSet(triggers)
    <3>1. triggers # <<>>
      BY <1>9 DEF TakeTrigger
    <3> QED BY <1>1, <2>1, <3>1, SeqOfItsOwn, TakenFromTheFront, Taking
  <2>3. /\ gerrit' = gerrit /\ triggers' = Tail(triggers) /\ hand["scheduler"] = NoEvent
        /\ hand' = [hand EXCEPT !["scheduler"] = e] /\ "scheduler" \in Thread
        /\ Becomes("scheduler", GetChange(Own("scheduler"), e.key, FALSE, {}))
    BY <1>2, <1>9, <2>1 DEF TakeTrigger, Thread
  <2>4. e.key \in Key /\ Past(e.key) /\ calls["scheduler"] = <<>>
    BY <1>1, <2>2, <2>3, EventIsSome DEF DatedInv, Waiting, HandInv, HandOk
  <2>5. PICK r : r = GetChange(Own("scheduler"), e.key, FALSE, {})
    OBVIOUS
  <2>6. gerrit.status[n] = "open" /\ Followed(n)
    BY <1>3, <2>3, <2>4
  <2>7. /\ Heeding(r, DependentKeys(n), Latest(n))
        /\ Keeps(Own("scheduler"), r, DependentKeys(n), Latest(n))
        /\ r.calls # <<>> \/ (r.objs = objs /\ r.cache = cache)
    BY <1>1, <2>3, <2>4, <2>5, <2>6, AsksAttends
  <2>8. /\ objs' = r.objs /\ cache' = r.cache /\ calls' = [calls EXCEPT !["scheduler"] = r.calls]
        /\ answer'["connector"] = answer["connector"] /\ hand'["connector"] = hand["connector"]
        /\ hand'["scheduler"] = e
    BY <1>1, <2>3, <2>5 DEF Becomes, Thread
  <2>9. Arrived(n)' => Arrived(n)
    BY <2>2, <2>3, <2>8 DEF Arrived, Handled, NewPatchset, Latest
  <2>10. Arriving(n)' <=> Arriving(n)
    BY <2>3, <2>8 DEF Arriving, NewPatchset, Latest
  <2>11. CASE r.calls = <<>>
    <3>1. calls' = calls
      BY <1>1, <2>4, <2>8, <2>11
    <3> QED BY <2>3, <2>6, <2>7, <2>8, <2>9, <2>10, <2>11, <3>1, FollowedStill
  <2>12. CASE r.calls # <<>>
    <3>1. calls'["scheduler"] # <<>> /\ calls'["connector"] = calls["connector"]
      BY <1>1, <2>8, <2>12 DEF Thread
    <3>2. calls[Other("scheduler")] = <<>>
      BY <3>1 DEF Thread, Other
    <3> QED BY <1>0, <2>3, <2>5, <2>6, <2>7, <2>9, <2>10, <3>2, FollowedMoves
  <2> QED BY <2>11, <2>12
<1>10. ASSUME UNCHANGED <<gerrit, objs, cache, calls>>, hand' = hand \/ hand'["connector"] = hand["connector"],
              answer' = answer \/ answer'["connector"] = answer["connector"],
              \A e \in (ToSet(triggers) \cup Handled)' :
                e \in ToSet(triggers) \cup Handled \/ e.type # "patchset-created"
       PROVE  Followed(n)'
  <2>1. gerrit.status[n] = "open" /\ Followed(n)
    BY <1>3, <1>10
  <2>2. Arrived(n)' => Arrived(n)
    BY <1>10 DEF Arrived, NewPatchset, Latest
  <2>3. Arriving(n)' => Arriving(n)
    BY <1>10 DEF Arriving, NewPatchset, Latest
  <2> QED BY <1>10, <2>1, <2>2, <2>3, FollowedStill
<1>11. CASE Deliver
  <2>1. /\ answer["connector"] # Raised /\ answer["connector"] # NoAnswer
        /\ UNCHANGED <<gerrit, objs, cache, calls>>
        /\ triggers' = Append(triggers, hand["connector"])
        /\ hand' = [hand EXCEPT !["connector"] = NoEvent]
    BY <1>11 DEF Deliver, Refreshed, NothingFailed
  <2>2. hand'["connector"] = NoEvent /\ hand'["scheduler"] = hand["scheduler"] /\ calls["connector"] = <<>>
    BY <1>1, <2>1 DEF Thread, HandInv, HandOk
  <2>3. ToSet(triggers') \subseteq ToSet(triggers) \cup {hand["connector"]}
    BY <1>1, <2>1, SeqOfItsOwn, AddedAtTheEnd
  <2>4. Arrived(n)' => Arrived(n) \/ Arriving(n)
    BY <2>1, <2>2, <2>3 DEF Arrived, Arriving, Handled, NewPatchset, Latest
  <2>5. ~Arriving(n)'
    BY <2>2 DEF Arriving, NewPatchset, NoEvent
  <2>6. gerrit.status[n] = "open" /\ Followed(n)
    BY <1>3, <2>1
  <2> QED BY <2>1, <2>2, <2>4, <2>5, <2>6, FollowedStill
<1>12. CASE HandleTrigger
  <2>1. /\ UNCHANGED <<gerrit, objs, cache, calls>>
        /\ hand' = [hand EXCEPT !["scheduler"] = NoEvent]
        /\ answer' = [answer EXCEPT !["scheduler"] = NoAnswer]
    BY <1>12, Handling
  <2>2. /\ hand'["connector"] = hand["connector"] /\ hand'["scheduler"] = NoEvent
        /\ answer'["connector"] = answer["connector"]
    BY <1>1, <2>1 DEF Thread
  <2>3. \A e \in ToSet(triggers') : e \in ToSet(triggers) \/ e.type # "patchset-created"
    BY <1>0, <1>1, <1>12, TriggersJoined DEF ParentEvent
  <2> QED BY <1>10, <2>1, <2>2, <2>3 DEF Handled, NoEvent
<1>13. CASE Pause
  <2>1. UNCHANGED <<gerrit, objs, cache, calls, answer, hand>> /\ (triggers' = triggers \/ triggers' = <<>>)
    BY <1>13 DEF Pause, cacheVars
  <2>2. \A e \in (ToSet(triggers) \cup Handled)' : e \in ToSet(triggers) \cup Handled
    BY <2>1 DEF ToSet, Handled
  <2> QED BY <1>10, <2>1, <2>2
<1>14. ~Reconfigure /\ ~Resume /\ ~Die
  <2>1. ~Reconfigure
    BY <1>2 DEF Reconfigure, Upset, NothingFailed
  <2>2. ~Resume
    BY <1>2 DEF Resume
  <2>3. ~Die
    BY DEF Die, NothingFailed
  <2> QED BY <2>1, <2>2, <2>3
<1>15. CASE \/ WakeUp \/ BuildCompleted \/ MergeCompleted \/ EndResults \/ EndEvents \/ Process \/ Start
            \/ Exit \/ UNCHANGED vars
  <2>1. UNCHANGED <<gerrit, objs, cache, calls, answer, hand, triggers>>
    BY <1>15 DEF WakeUp, BuildCompleted, MergeCompleted, EndResults, EndEvents, Process, Start, Exit,
                 vars, cacheVars
  <2>2. \A e \in (ToSet(triggers) \cup Handled)' : e \in ToSet(triggers) \cup Handled
    BY <2>1 DEF Handled
  <2> QED BY <1>10, <2>1, <2>2
<1>16. CASE Gerrit /\ gerrit' = gerrit
  <2>1. PICK type, p : Emits(type, p)
    BY <1>16 DEF Gerrit, Upload, Comment, Close
  <2>2. UNCHANGED <<objs, cache, calls, answer, hand, triggers>>
    BY <2>1 DEF Emits, cacheVars
  <2>3. \A e \in (ToSet(triggers) \cup Handled)' : e \in ToSet(triggers) \cup Handled
    BY <2>2 DEF Handled
  <2> QED BY <1>10, <1>16, <2>2, <2>3
<1> QED BY <1>5, <1>6, <1>7, <1>8, <1>9, <1>11, <1>12, <1>13, <1>14, <1>15, <1>16
        DEF Next, Connector, Scheduler, Main, Thread

(* When the scheduler has come to a new patchset, the cached changes that  *)
(* depend on it need that patchset (_updateChange, which refreshes them),  *)
(* but for updates under way and unless a query failed, the cache was      *)
(* flushed or Zuul was restarted.                                          *)
THEOREM LatestIsNeeded ==
  Spec => []LatestNeeded
<1>1. Init => Typed /\ WholeInv /\ DatedInv /\ LatestInv
  <2> SUFFICES ASSUME Init PROVE WholeInv /\ DatedInv /\ LatestInv
    BY TypedAtFirst
  <2>1. /\ objs = <<>> /\ cache = <<>> /\ triggers = <<>> /\ events = <<>> /\ file = <<>>
        /\ boot = "resumed" /\ \A t \in Thread : calls[t] = <<>> /\ answer[t] = NoAnswer /\ hand[t] = NoEvent
    BY DEF Init, CacheInit, Thread
  <2>2. WholeInv
    BY <2>1 DEF WholeInv, Informed, Known, Listed, Own, NoAnswer, Thread
  <2>3. DatedInv
    BY <2>1 DEF DatedInv, Dated, Own, Waiting, Handled, Refreshing, ToSet, Thread
  <2>4. LatestInv
    BY <2>1 DEF LatestInv, Followed, Heeding, Own
  <2> QED BY <2>2, <2>3, <2>4
<1>2. Typed /\ WholeInv /\ DatedInv /\ LatestInv /\ [Next]_vars => (Typed /\ WholeInv /\ DatedInv /\ LatestInv)'
  BY TypedStep, WholeStep, DatedStep, LatestStep
<1>3. Typed /\ LatestInv => LatestNeeded
  <2> SUFFICES ASSUME Typed, LatestInv, NothingFailed, \A t \in Thread : calls[t] = <<>>,
                      NEW e, e = hand["scheduler"], e.type = "patchset-created",
                      e.key = Latest(e.key[1]), gerrit.status[e.key[1]] = "open",
                      NEW p \in Number, e.key[1] \in gerrit.needs[p], gerrit.status[p] = "open",
                      Latest(p) \in DOMAIN cache
               PROVE  \E d \in objs[cache[Latest(p)]].needs : KeyOf(d) = e.key
    BY DEF LatestNeeded
  <2>1. hand["scheduler"] \in Event \cup {NoEvent}
    BY DEF Typed, EventsTyped, Thread
  <2>2. e.key \in Key
    BY <2>1, EventIsSome DEF NoEvent
  <2>3. PICK n \in Number : n = e.key[1]
    BY <2>2 DEF Key
  <2>4. Followed(n) /\ Arrived(n) /\ Latest(n) = e.key
    BY <2>3 DEF LatestInv, Arrived, Handled, NewPatchset, Thread
  <2>5. Latest(p) \in DependentKeys(n)
    BY <2>3 DEF DependentKeys
  <2>6. Cares(Latest(p), e.key)
    BY <2>4, <2>5 DEF Followed
  <2>7. Follows(objs, cache[Latest(p)], e.key)
    BY <2>6 DEF Cares, Cared, Working, Own
  <2> QED BY <2>7 DEF Follows, NameOf, KeyOf
<1> QED BY <1>1, <1>2, <1>3, PTL DEF Spec
=============================================================================
