------------------------------- MODULE MCGate -------------------------------
(***************************************************************************)
(* Gate for TLC: the changes, their dependencies, the jobs and layouts of  *)
(* the runs.                                                               *)
(***************************************************************************)
EXTENDS Gate

CONSTANTS A, B, C, Unit, Lint, Lock

Changes2 == {A, B}
Changes3 == {A, B, C}

AllGated == Change

Independent == [c \in Change |-> {}]
BNeedsA == [c \in Change |-> IF c = B THEN {A} ELSE {}]

OneJob == <<Unit>>
TwoJobs == <<Lint, Unit>>
Flat == [j \in Job |-> {}]
UnitAfterLint == [j \in Job |-> IF j = Unit THEN {Lint} ELSE {}]

NoMutexes == [j \in Job |-> NoMutex]
UnitLocks == [j \in Job |-> IF j = Unit THEN Lock ELSE NoMutex]

AllVoting == [jobs |-> [c \in Change |-> Job], voting |-> Job]
NoneVoting == [AllVoting EXCEPT !.voting = {}]
OnlyLint == [AllVoting EXCEPT !.jobs = [c \in Change |-> {Lint}]]
JustThis == {FirstLayout}
UnitRetired == {FirstLayout, OnlyLint}

(* Approvals are the only Gerrit events: nothing leaves or loses its vote. *)
KeepsVotes ==
  \A c \in Change : status[c] = "ready" => status'[c] \in {"ready", "merged"}
ApprovedSpec == Init /\ [][Next /\ KeepsVotes]_vars
=============================================================================
