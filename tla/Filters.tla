------------------------------ MODULE Filters ------------------------------
(***************************************************************************)
(* Whether a change meets the requirements of a pipeline (BaseFilter and   *)
(* ChangeishFilter of zuul/model.py): its votes, its status, and whether   *)
(* it is open and the current patchset.                                    *)
(*                                                                         *)
(* A vote is [category, value, age]; the category of one that Gerrit sent  *)
(* without a description is Undescribed.  A criterion is [category,        *)
(* values, newer, older]: without category or limit if it is Unlimited.    *)
(* The user and email patterns select votes the way the category does.     *)
(***************************************************************************)
EXTENDS Integers, FiniteSets

Undescribed == "undescribed"
Unlimited == -1
Anything == "any"

(* mutant: a vote cast just so long ago is neither newer nor older.        *)
MatchesWithin(criterion, vote) ==
  /\ vote.category # Undescribed
  /\ criterion.newer # Unlimited => vote.age < criterion.newer
  /\ criterion.older # Unlimited => vote.age > criterion.older
  /\ criterion.category # Anything =>
       vote.category = criterion.category /\ vote.value \in criterion.values

(* _match_approval_required_approval.                                      *)
MatchesCriterion(criterion, vote) ==
  /\ vote.category # Undescribed
  /\ criterion.newer # Unlimited => vote.age <= criterion.newer
  /\ criterion.older # Unlimited => vote.age > criterion.older
  /\ criterion.category # Anything =>
       vote.category = criterion.category /\ vote.value \in criterion.values

SomeVote(criterion, votes) == \E v \in votes : MatchesCriterion(criterion, v)

(* matchesApprovals.  A change nobody voted on passes only where there are *)
(* no criteria at all, even if they are all for rejection.                 *)
MatchesApprovals(filter, votes) ==
  /\ filter.required \cup filter.reject # {} => votes # {}
  /\ \A c \in filter.required : SomeVote(c, votes)
  /\ ~\E c \in filter.reject : SomeVote(c, votes)

(* ChangeishFilter.matches; sets of what is allowed.                       *)
MatchesChange(filter, change) ==
  /\ change.open \in filter.open /\ change.current \in filter.current
  /\ filter.statuses # {} => change.status \in filter.statuses
  /\ MatchesApprovals(filter, change.votes)

-----------------------------------------------------------------------------
(* What is said of a filter is said of the same change with other votes.   *)
With(change, votes) == [change EXCEPT !.votes = votes]
Later(votes) == {[v EXCEPT !.age = @ + 1] : v \in votes}

(* Reference: a further vote never shuts a change out that requirements    *)
(* let in, and never lets in one that was voted on and rejected; nor does  *)
(* time alone, where no limit depends on it the other way; and of newer    *)
(* and older than the same age, every vote is one.                         *)
VotesCount(filter, change, further) ==
  LET In(votes) == MatchesChange(filter, With(change, votes))
      V == change.votes
  IN /\ filter.reject = {} /\ In(V) => In(V \cup {further})
     /\ filter.required = {} /\ V # {} /\ In(V \cup {further}) => In(V)
     /\ /\ \A c \in filter.required : c.newer = Unlimited
        /\ \A c \in filter.reject : c.older = Unlimited
        => (In(V) => In(Later(V)))
     /\ \A c \in filter.required :
          LET newer == [c EXCEPT !.newer = 1, !.older = Unlimited]
              older == [c EXCEPT !.newer = Unlimited, !.older = 1]
          IN SomeVote([newer EXCEPT !.newer = Unlimited], {further}) =>
               (SomeVote(newer, {further}) <=> ~SomeVote(older, {further}))
=============================================================================
