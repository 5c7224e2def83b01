------------------------------ MODULE MCIntake ------------------------------
(* Two changes, the second of which needs the first to begin with.         *)
EXTENDS Intake

MCNeeds == (1 :> {}) @@ (2 :> {1})
=============================================================================
