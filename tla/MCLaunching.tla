----------------------------- MODULE MCLaunching -----------------------------
(***************************************************************************)
(* Launching for TLC: a noop, two builds and one node.                     *)
(***************************************************************************)
EXTENDS Launching

CONSTANTS b0, b1, b2, Unit, Docs, noop

NoopThenUnits == [b \in Build |-> IF b = b0 THEN noop ELSE Unit]
TwoConfigs == {{Unit, Docs}, {Docs}}
Both == {Unit, Docs}

(* Bounds: the builds are launched in order, two packets are on their way  *)
(* to the client at most, and few things go other than planned: MaxUpsets  *)
(* faults, commands and cancels, and before b2 a fault and a cancel too.   *)
CONSTANT MaxUpsets
Calm ==
  /\ b1 \in launched' => b0 \in launched'
  /\ b2 \in launched' => b1 \in launched'
  /\ Len(packets') <= 2
  /\ \/ faults' + commands' + Cardinality(canceled') <= MaxUpsets
     \/ faults' <= 1 /\ canceled' \subseteq {b1} /\ commands' = 0 /\ b2 \notin launched'
CalmSpec == Init /\ [][Next /\ Calm]_vars
FairCalmSpec == CalmSpec /\ Fairness
=============================================================================
