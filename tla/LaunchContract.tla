--------------------------- MODULE LaunchContract ---------------------------
(***************************************************************************)
(* What the scheduler may rely on when it launches builds: a build it asked*)
(* for is answered at most once, a build is forgotten without an answer    *)
(* only if it was canceled, and nothing is said of a build after that.     *)
(***************************************************************************)
EXTENDS Integers

CONSTANTS Build

VARIABLES
  asked,           (* builds asked for                                      *)
  pending,         (* of these, the ones to be answered or forgotten        *)
  unwanted,        (* canceled builds                                       *)
  told             (* told[b]: how often b was answered                     *)

vars == <<asked, pending, unwanted, told>>

Init ==
  /\ asked = {} /\ pending = {} /\ unwanted = {}
  /\ told = [b \in Build |-> 0]

Ask(b) ==
  /\ b \notin asked
  /\ asked' = asked \cup {b} /\ pending' = pending \cup {b}
  /\ UNCHANGED <<unwanted, told>>

(* A build that needs no worker, or has none, is answered as it is asked.  *)
Refuse(b) ==
  /\ b \notin asked
  /\ asked' = asked \cup {b}
  /\ told' = [told EXCEPT ![b] = 1]
  /\ UNCHANGED <<pending, unwanted>>

Withdraw(b) ==
  /\ b \in asked \ unwanted
  /\ unwanted' = unwanted \cup {b}
  /\ UNCHANGED <<asked, pending, told>>

Tell(b) ==
  /\ b \in pending
  /\ pending' = pending \ {b}
  /\ told' = [told EXCEPT ![b] = 1]
  /\ UNCHANGED <<asked, unwanted>>

Forget(b) ==
  /\ b \in pending \cap unwanted
  /\ pending' = pending \ {b}
  /\ UNCHANGED <<asked, unwanted, told>>

Next == \E b \in Build : Ask(b) \/ Refuse(b) \/ Withdraw(b) \/ Tell(b) \/ Forget(b)

Spec == Init /\ [][Next]_vars
=============================================================================
