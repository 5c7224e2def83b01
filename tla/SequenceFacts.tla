---------------------------- MODULE SequenceFacts ----------------------------
(***************************************************************************)
(* What queues of events and packets keep when an element is taken or      *)
(* added, for the proofs about the modules that have such queues.          *)
(***************************************************************************)
EXTENDS Integers, Sequences, FiniteSets, SequencesExt, FiniteSetTheorems,
        WellFoundedInduction, TLAPS

(* A sequence is a sequence over its own elements.                         *)
LEMMA SeqOfItsOwn ==
  ASSUME NEW S, NEW s \in Seq(S)
  PROVE  s \in Seq(ToSet(s))
<1>1. Len(s) \in Nat /\ DOMAIN s = 1 .. Len(s)
  OBVIOUS
<1>2. s = [n \in 1 .. Len(s) |-> s[n]] /\ \A n \in 1 .. Len(s) : s[n] \in ToSet(s)
  BY <1>1 DEF ToSet
<1> QED BY <1>1, <1>2

(* What taking the first element of a queue away leaves.                   *)
LEMMA TakenFromTheFront ==
  ASSUME NEW s, s \in Seq(ToSet(s)), s # <<>>
  PROVE  /\ Tail(s) \in Seq(ToSet(Tail(s)))
         /\ ToSet(Tail(s)) \subseteq ToSet(s)
         /\ Head(s) \in ToSet(s)
<1> DEFINE S == ToSet(s)
<1>1. s \in Seq(S)
  OBVIOUS
<1> HIDE DEF S
<1>2. Tail(s) \in Seq(S) /\ Head(s) \in S
  BY <1>1
<1>3. Tail(s) \in Seq(ToSet(Tail(s)))
  BY <1>2, SeqOfItsOwn
<1>4. ToSet(Tail(s)) \subseteq S
  BY <1>2 DEF ToSet
<1> QED BY <1>2, <1>3, <1>4 DEF S

(* What adding an element at the end of a queue makes of it.               *)
LEMMA AddedAtTheEnd ==
  ASSUME NEW s, NEW e, s \in Seq(ToSet(s))
  PROVE  /\ Append(s, e) \in Seq(ToSet(Append(s, e)))
         /\ ToSet(Append(s, e)) \subseteq ToSet(s) \cup {e}
<1>1. PICK R : R = ToSet(s)
  OBVIOUS
<1>2. PICK S : S = R \cup {e}
  OBVIOUS
<1>3. s \in Seq(R)
  BY <1>1
<1>4. Append(s, e) \in Seq(S)
  BY <1>2, <1>3
<1>5. Append(s, e) \in Seq(ToSet(Append(s, e)))
  BY <1>4, SeqOfItsOwn
<1>6. ToSet(Append(s, e)) \subseteq S
  BY <1>4 DEF ToSet
<1> QED BY <1>1, <1>2, <1>5, <1>6

(* A finite set put in some order.                                         *)
LEMMA FiniteSetInOrder ==
  ASSUME NEW S, IsFiniteSet(S)
  PROVE  /\ SetToSeq(S) \in Seq(ToSet(SetToSeq(S)))
         /\ ToSet(SetToSeq(S)) \subseteq S
<1> DEFINE n == Cardinality(S)
           s == SetToSeq(S)
<1>1. n \in Nat /\ ExistsBijection(1..n, S)
  BY FS_CardinalityType
<1>2. \E f \in [1..n -> S] : IsInjective(f)
  BY <1>1 DEF ExistsBijection, Bijection, Injection, IsInjective
<1>3. s \in [1..n -> S]
  BY <1>2 DEF SetToSeq
<1> HIDE DEF n, s
<1>4. s \in Seq(S)
  BY <1>1, <1>3
<1>5. ToSet(s) \subseteq S
  BY <1>4 DEF ToSet
<1>6. s \in Seq(ToSet(s))
  BY <1>4, SeqOfItsOwn
<1> QED BY <1>5, <1>6 DEF s

(* A queue keeps what was in it when an element is added at its end, ...   *)
LEMMA AddedToTheRest ==
  ASSUME NEW s, NEW e, s \in Seq(ToSet(s))
  PROVE  ToSet(s) \cup {e} \subseteq ToSet(Append(s, e))
<1>1. PICK R : R = ToSet(s)
  OBVIOUS
<1>2. s \in Seq(R) /\ s \in Seq(R \cup {e})
  BY <1>1
<1>3. /\ Append(s, e)[Len(s) + 1] = e /\ Len(s) + 1 \in 1 .. Len(Append(s, e))
      /\ \A i \in 1 .. Len(s) : Append(s, e)[i] = s[i] /\ i \in 1 .. Len(Append(s, e))
  BY <1>2
<1> QED BY <1>2, <1>3 DEF ToSet

(* ... and loses only the first when that is taken.                        *)
LEMMA OnlyTheFrontTaken ==
  ASSUME NEW s, s \in Seq(ToSet(s)), s # <<>>
  PROVE  ToSet(s) \subseteq ToSet(Tail(s)) \cup {Head(s)}
<1>1. PICK R : R = ToSet(s)
  OBVIOUS
<1>2. s \in Seq(R)
  BY <1>1
<1>3. /\ Head(s) = s[1] /\ Len(Tail(s)) = Len(s) - 1
      /\ DOMAIN Tail(s) = 1 .. Len(Tail(s))
      /\ \A i \in 1 .. Len(Tail(s)) : Tail(s)[i] = s[i + 1]
  BY <1>2
<1>4. ASSUME NEW i \in 1 .. Len(s), i # 1 PROVE s[i] \in ToSet(Tail(s))
  <2>1. i - 1 \in 1 .. Len(Tail(s)) /\ Tail(s)[i - 1] = s[i]
    BY <1>2, <1>3, <1>4
  <2> QED BY <1>3, <2>1 DEF ToSet
<1> QED BY <1>2, <1>3, <1>4 DEF ToSet

(* Nothing is left out when a set is put in order.                         *)
LEMMA AllInOrder ==
  ASSUME NEW S, IsFiniteSet(S)
  PROVE  S \subseteq ToSet(SetToSeq(S))
<1> DEFINE n == Cardinality(S)
           s == SetToSeq(S)
<1>1. n \in Nat /\ ExistsBijection(1..n, S)
  BY FS_CardinalityType
<1>2. \E f \in [1..n -> S] : IsInjective(f)
  BY <1>1 DEF ExistsBijection, Bijection, Injection, IsInjective
<1>3. s \in [1..n -> S] /\ IsInjective(s)
  BY <1>2 DEF SetToSeq
<1>4. Cardinality(1..n) = n
  BY <1>1, FS_Interval
<1> HIDE DEF s
<1>5. s \in Surjection(1..n, S)
  <2>1. s \in Injection(1..n, S)
    BY <1>3 DEF Injection, IsInjective
  <2> QED BY <1>4, <2>1, FS_Injection
<1> HIDE DEF n
<1>6. DOMAIN s = 1..n
  BY <1>3
<1> QED BY <1>5, <1>6 DEF Surjection, ToSet, s

-----------------------------------------------------------------------------
(* Induction over the natural numbers.  The principle is that of           *)
(* NaturalsInduction, with a set for the numbers a formula holds of.       *)

(* A set of natural numbers has a least one.                               *)
LEMMA LeastNumber ==
  ASSUME NEW S \in SUBSET Nat, S # {}
  PROVE  \E n \in S : \A m \in S : n <= m
<1>1. PICK n \in S : \A m \in S : <<m, n>> \notin OpToRel(<, Nat)
  BY NatLessThanWellFounded, WFMin
<1>2. \A m \in S : ~(m < n)
  BY <1>1 DEF OpToRel
<1>3. \A m \in S : n <= m
  <2> TAKE m \in S
  <2>1. m \in Nat /\ n \in Nat /\ ~(m < n)
    BY <1>2
  <2> QED BY <2>1
<1> QED BY <1>3

(* What has 0, and with every number the next one, has them all.           *)
LEMMA SetInduction ==
  ASSUME NEW S, 0 \in S, \A n \in Nat : n \in S => n + 1 \in S
  PROVE  Nat \subseteq S
<1> SUFFICES ASSUME Nat \ S # {} PROVE FALSE
  OBVIOUS
<1>1. PICK n \in Nat \ S : \A m \in Nat \ S : n <= m
  BY LeastNumber
<1>2. n # 0 /\ n - 1 \in Nat /\ n - 1 \in S
  BY <1>1
<1>3. (n - 1) + 1 = n
  BY <1>1
<1> QED BY <1>2, <1>3


-----------------------------------------------------------------------------
(* Folds.                                                                  *)

(* The greatest number of a part of 1 .. n.                                *)
LEMMA MaxOfPart ==
  ASSUME NEW n \in Nat, NEW s \in SUBSET (1 .. n), s # {}
  PROVE  Max(s) \in s /\ \A m \in s : m <= Max(s)
<1> DEFINE S == {n - m : m \in s}
<1>1. S \in SUBSET Nat /\ S # {}
  <2>1. \A m \in s : m \in 1 .. n
    OBVIOUS
  <2>2. \A m \in 1 .. n : n - m \in Nat
    OBVIOUS
  <2> QED BY <2>1, <2>2
<1>2. PICK l \in S : \A m \in S : l <= m
  <2> HIDE DEF S
  <2> QED BY <1>1, LeastNumber
<1>3. PICK m \in s : l = n - m
  BY <1>2
<1>4. \A k \in s : k <= m
  BY <1>2, <1>3
<1> QED BY <1>4 DEF Max

(* The greatest number of 1 .. n, and what there is without it.            *)
LEMMA MaxOfPrefix ==
  ASSUME NEW n \in Nat
  PROVE  Max(1 .. n + 1) = n + 1 /\ (1 .. n + 1) \ {n + 1} = 1 .. n
<1>1. 1 .. n + 1 \in SUBSET (1 .. n + 1) /\ 1 .. n + 1 # {} /\ n + 1 \in 1 .. n + 1
  OBVIOUS
<1>2. n + 1 \in Nat
  OBVIOUS
<1> DEFINE s == 1 .. n + 1
<1>3. Max(s) \in s /\ \A m \in s : m <= Max(s)
  <2> HIDE DEF s
  <2> QED BY <1>1, <1>2, MaxOfPart DEF s
<1>4. Max(s) \in Int /\ Max(s) <= n + 1 /\ n + 1 <= Max(s)
  BY <1>1, <1>3
<1> QED BY <1>4

(* f is what FoldLeft recurses over, for an operator on R, here the        *)
(* function g, and the numbers 1 .. n.                                     *)
Folds(f, n, R, base, g) ==
  /\ f \in [SUBSET (1 .. n) -> R]
  /\ \A s \in SUBSET (1 .. n) :
       f[s] = IF s = {} THEN base ELSE g[<<f[s \ {Max(s)}], Max(s)>>]

(* There is one.                                                           *)
LEMMA FoldExists ==
  ASSUME NEW n \in Nat, NEW R, NEW base \in R,
         NEW g, \A r \in R, k \in 1 .. n : g[<<r, k>>] \in R
  PROVE  \E f : Folds(f, n, R, base, g)
<1> DEFINE T == SUBSET (1 .. n)
           Step(f) == [s \in T |-> IF s = {} THEN base ELSE g[<<f[s \ {Max(s)}], Max(s)>>]]
           S == {m \in Nat : \E f \in [T -> R] : \A s \in T \cap SUBSET (1 .. m) : f[s] = Step(f)[s]}
<1>1. \A s \in T : s # {} => /\ Max(s) \in s /\ Max(s) \in 1 .. n /\ s \ {Max(s)} \in T
                             /\ \A m \in s : m <= Max(s)
  BY MaxOfPart
<1>2. ASSUME NEW f \in [T -> R] PROVE Step(f) \in [T -> R]
  BY <1>1
<1>3. 0 \in S
  <2> DEFINE f == [s \in T |-> base]
  <2>1. f \in [T -> R] /\ \A s \in T \cap SUBSET (1 .. 0) : f[s] = Step(f)[s]
    OBVIOUS
  <2> HIDE DEF f, Step
  <2> QED BY <2>1
<1>4. ASSUME NEW m \in Nat, m \in S PROVE m + 1 \in S
  <2>1. PICK f \in [T -> R] : \A s \in T \cap SUBSET (1 .. m) : f[s] = Step(f)[s]
    BY <1>4
  <2>2. ASSUME NEW s \in T, s \in SUBSET (1 .. m + 1) PROVE Step(f)[s] = Step(Step(f))[s]
    <3>1. CASE s = {}
      BY <3>1
    <3>2. CASE s # {}
      <4> DEFINE t == s \ {Max(s)}
      <4>1. t \in T \cap SUBSET (1 .. m)
        BY <1>1, <2>2, <3>2
      <4>2. f[t] = Step(f)[t]
        <5> HIDE DEF Step, t, T
        <5> QED BY <2>1, <4>1
      <4>3. Step(f)[s] = g[<<f[t], Max(s)>>] /\ Step(Step(f))[s] = g[<<Step(f)[t], Max(s)>>]
        BY <3>2
      <4> HIDE DEF t, Step
      <4> QED BY <4>2, <4>3
    <3> QED BY <3>1, <3>2
  <2>3. Step(f) \in [T -> R]
    BY <1>2
  <2> HIDE DEF Step, T
  <2> QED BY <2>2, <2>3
<1>5. Nat \subseteq S
  <2> HIDE DEF S
  <2> QED BY <1>3, <1>4, SetInduction
<1>6. PICK f \in [T -> R] : \A s \in T : f[s] = Step(f)[s]
  <2>1. n \in S
    BY <1>5
  <2>2. T \cap SUBSET (1 .. n) = T
    OBVIOUS
  <2> HIDE DEF Step, T
  <2> QED BY <2>1, <2>2
<1> QED BY <1>6 DEF Folds

(* What holds of the base and is kept by every step holds of the fold.     *)
LEMMA FoldKeeps ==
  ASSUME NEW n \in Nat, NEW F, NEW P, F[{}] \in P,
         \A s \in SUBSET (1 .. n) : s # {} => (F[s \ {Max(s)}] \in P => F[s] \in P)
  PROVE  F[1 .. n] \in P
<1> DEFINE S == {k \in Nat : k <= n => F[1 .. k] \in P}
<1>1. 0 \in S
  <2>1. 1 .. 0 = {}
    OBVIOUS
  <2> QED BY <2>1
<1>2. ASSUME NEW k \in Nat, k \in S PROVE k + 1 \in S
  <2> SUFFICES ASSUME k + 1 <= n PROVE F[1 .. k + 1] \in P
    BY <1>2
  <2>1. F[1 .. k] \in P
    BY <1>2
  <2>2. 1 .. k + 1 \in SUBSET (1 .. n) /\ 1 .. k + 1 # {}
    <3>1. 1 \in 1 .. k + 1 /\ \A j \in 1 .. k + 1 : j \in 1 .. n
      OBVIOUS
    <3> QED BY <3>1
  <2>3. (1 .. k + 1) \ {Max(1 .. k + 1)} = 1 .. k
    <3>1. Max(1 .. k + 1) = k + 1 /\ (1 .. k + 1) \ {k + 1} = 1 .. k
      BY MaxOfPrefix
    <3> QED BY <3>1
  <2> QED BY <2>1, <2>2, <2>3
<1>3. n \in S
  <2> HIDE DEF S
  <2> QED BY <1>1, <1>2, SetInduction
<1> QED BY <1>3

(* f is defined by recursion over 0 .. n.                                   *)
Recursion(f, n, R, base, g) ==
  /\ f \in [0 .. n -> R]
  /\ f[0] = base /\ \A k \in 1 .. n : f[k] = g[<<f[k - 1], k>>]

(* There is such a function.                                               *)
LEMMA RecursionExists ==
  ASSUME NEW n \in Nat, NEW R, NEW base \in R,
         NEW g, \A r \in R, k \in 1 .. n : g[<<r, k>>] \in R
  PROVE  \E f : Recursion(f, n, R, base, g)
<1>0. PICK h : Folds(h, n, R, base, g)
  BY FoldExists
<1>1. /\ h \in [SUBSET (1 .. n) -> R]
      /\ \A s \in SUBSET (1 .. n) :
           h[s] = IF s = {} THEN base ELSE g[<<h[s \ {Max(s)}], Max(s)>>]
  BY <1>0 DEF Folds
<1> DEFINE f == [k \in 0 .. n |-> h[1 .. k]]
<1>2. f \in [0 .. n -> R]
  BY <1>1
<1>3. f[0] = base
  <2>1. 1 .. 0 = {} /\ {} \in SUBSET (1 .. n) /\ 0 \in 0 .. n
    OBVIOUS
  <2>2. h[{}] = base
    BY <1>1, <2>1
  <2> QED BY <2>1, <2>2
<1>4. ASSUME NEW k \in 1 .. n PROVE f[k] = g[<<f[k - 1], k>>]
  <2>1. k - 1 \in Nat /\ (k - 1) + 1 = k /\ k - 1 \in 0 .. n
    OBVIOUS
  <2>2. Max(1 .. k) = k /\ (1 .. k) \ {k} = 1 .. k - 1
    BY <2>1, MaxOfPrefix
  <2>3. 1 .. k \in SUBSET (1 .. n) /\ 1 .. k # {}
    OBVIOUS
  <2>4. h[1 .. k] = g[<<h[1 .. k - 1], k>>]
    BY <1>1, <2>2, <2>3
  <2> QED BY <2>1, <2>4
<1> HIDE DEF f
<1> QED BY <1>2, <1>3, <1>4 DEF Recursion
=============================================================================
