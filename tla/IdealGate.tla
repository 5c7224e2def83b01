----------------------------- MODULE IdealGate -----------------------------
(***************************************************************************)
(* What a gate promises (doc/source/zuul.rst, DependentPipelineManager):   *)
(* "An ideal gating system would test one change at a time, applied to the *)
(* tip of the repository, and only if that change passed tests would it be *)
(* merged."  Verdicts on any base may come and go, for tests may run ahead *)
(* of time; only a verdict on the tip of the branch counts.                *)
(***************************************************************************)
EXTENDS Sequences, SequencesExt

CONSTANTS Change, Needs

VARIABLES
  trunk,           (* the changes merged into the branch, in order          *)
  passed           (* the verdicts: change passed its tests on top of base  *)
vars == <<trunk, passed>>

Init == trunk = <<>> /\ passed = {}

(* A change passes its tests on some base, the tip or a guess at it.       *)
Pass(base, c) ==
  /\ passed' = passed \cup {[base |-> base, change |-> c]}
  /\ UNCHANGED trunk

(* Verdicts are thrown away.                                               *)
Forget ==
  /\ passed' \in SUBSET passed
  /\ UNCHANGED trunk

(* A change merges once, after all it needs, and only if it was tested on  *)
(* top of exactly what the branch holds.  Verdicts may be lost with it.    *)
Merge(c) ==
  /\ c \notin ToSet(trunk) /\ Needs[c] \subseteq ToSet(trunk)
  /\ [base |-> ToSet(trunk), change |-> c] \in passed
  /\ trunk' = Append(trunk, c)
  /\ passed' \in SUBSET passed

Next ==
  \/ \E base \in SUBSET Change, c \in Change : Pass(base, c)
  \/ Forget
  \/ \E c \in Change : Merge(c)

Spec == Init /\ [][Next]_vars
=============================================================================
