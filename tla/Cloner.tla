------------------------------- MODULE Cloner -------------------------------
(***************************************************************************)
(* zuul-cloner (zuul/lib/cloner.py, clonemapper.py): a job's workspace.    *)
(* What a clone of one project is prepared from is described by            *)
(*   revision   "none", or a revision asked for: "there" or "missing";     *)
(*   branch     the job's, override the project's, zuulBranch the change's *)
(*              branch, "" if not given;                                   *)
(*   zuulRef    whether the change has a Zuul ref (a ref of the change's   *)
(*              branch; the name of any other branch can be put in it);    *)
(*   upstream   the branches of the project in Gerrit;                     *)
(*   refs       those the merger has given the change's ref;               *)
(*   heads      those the merger's repository had when it was last reset;  *)
(*   access     whether the merger can be reached.                         *)
(***************************************************************************)
EXTENDS Integers, Sequences, FiniteSets, SequencesExt

NoRef == [kind |-> "none", branch |-> ""]

(* re.sub(zuul_branch, b, zuul_ref).  An empty pattern matches everywhere: *)
(* the branch itself comes of an empty ref, and nothing of use of another. *)
RefFor(c, b) ==
  CASE c.zuulBranch # "" /\ c.zuulRef -> [kind |-> "zuul", branch |-> b]
    [] c.zuulBranch # "" /\ ~c.zuulRef -> NoRef
    [] c.zuulBranch = "" /\ ~c.zuulRef -> [kind |-> "head", branch |-> b]
    [] OTHER -> [kind |-> "garbled", branch |-> b]

Indicated(c) ==
  IF c.override # "" THEN c.override
  ELSE IF c.branch # "" THEN c.branch ELSE c.zuulBranch

(* mutant: the tip is that of master for all that Zuul has no ref for.     *)
FallbackMaster(c) == "master"

FallbackBranch(c) ==
  IF Indicated(c) # "" /\ Indicated(c) \in c.upstream THEN Indicated(c) ELSE "master"

OverrideRef(c) == IF Indicated(c) = "" THEN NoRef ELSE RefFor(c, Indicated(c))
FallbackRef(c) == IF c.zuulBranch = "" THEN NoRef ELSE RefFor(c, FallbackBranch(c))

(* fetchFromZuul: a ref that is not there is no error.                     *)
HasRef(c, ref) ==
  \/ ref.kind = "zuul" /\ ref.branch \in c.refs
  \/ ref.kind = "head" /\ ref.branch \in c.heads

(* prepareRepo.                                                            *)
PrepareRepo(c) ==
  LET tried == SelectSeq(<<OverrideRef(c), FallbackRef(c)>>, LAMBDA r : r # NoRef)
      k == SelectInSeq(tried, LAMBDA r : HasRef(c, r))
  IN CASE c.revision = "there" /\ c.access -> [kind |-> "revision", branch |-> ""]
       [] c.revision # "none" /\ ~(c.revision = "there" /\ c.access) ->
            [kind |-> "RevNotFound", branch |-> ""]
       [] c.revision = "none" /\ tried # <<>> /\ ~c.access -> [kind |-> "raised", branch |-> ""]
       [] c.revision = "none" /\ (tried = <<>> \/ c.access) ->
            IF k # 0 THEN tried[k]
            ELSE IF FallbackBranch(c) \in c.upstream
            THEN [kind |-> "tip", branch |-> FallbackBranch(c)]
            ELSE [kind |-> "raised", branch |-> ""]

(* The order in which references are looked up (cloner.rst, and the        *)
(* docstring of prepareRepo).                                              *)
LookupOrder(c) ==
  <<[kind |-> "zuul", branch |-> Indicated(c)], [kind |-> "zuul", branch |-> "master"],
    [kind |-> "tip", branch |-> Indicated(c)], [kind |-> "tip", branch |-> "master"]>>
Documented(c) ==
  LET k == SelectInSeq(LookupOrder(c),
                       LAMBDA r : r.branch \in (IF r.kind = "zuul" THEN c.refs ELSE c.upstream))
  IN IF c.access /\ k # 0 THEN LookupOrder(c)[k] ELSE [kind |-> "raised", branch |-> ""]

(* The Zuul ref of master is to come before the tip of the branch, but the *)
(* code only looks for it if Gerrit does not have the branch.              *)
Contested(c) == c.access /\ Indicated(c) \in c.upstream \ c.refs /\ "master" \in c.refs

(* Reference: a job of a change gets what the documented order says, and   *)
(* the contested tip at most in its place.  A revision that cannot be had  *)
(* is never replaced by something else.                                    *)
ClonedInOrder(c) ==
  LET got == PrepareRepo(c)
  IN IF c.revision # "none"
     THEN got.kind \in {"revision", "RevNotFound"} /\ (got.kind = "revision" => c.revision = "there")
     ELSE c.zuulBranch # "" /\ c.zuulRef =>
            \/ got = Documented(c)
            \/ Contested(c) /\ got = [kind |-> "tip", branch |-> Indicated(c)]

-----------------------------------------------------------------------------
(* CloneMapper.expand: rules is a sequence of partial functions from       *)
(* projects to destinations; a project no rule matches is its own.         *)
DestsOf(rules, p) ==
  LET matching == SelectSeq(rules, LAMBDA rule : p \in DOMAIN rule)
  IN [k \in DOMAIN matching |-> matching[k][p]]

(* mutant: the first of several destinations is taken.                     *)
AmbiguousNever(rules, projects) == FALSE

Ambiguous(rules, projects) == \E p \in projects : Len(DestsOf(rules, p)) > 1

Expand(rules, projects) ==
  LET dest == [p \in projects |-> IF DestsOf(rules, p) = <<>> THEN p ELSE DestsOf(rules, p)[1]]
  IN [raised |-> Ambiguous(rules, projects) \/ ~IsInjective(dest), dest |-> dest]
=============================================================================
