---------------------------- MODULE MCSequential ----------------------------
(***************************************************************************)
(* Inputs for the algorithms: all of a small size.                         *)
(***************************************************************************)
EXTENDS Sequential

UpTo(S, n) == UNION {[1..k -> S] : k \in 0..n}

(* Two metajobs; every entry says one thing.                               *)
MetaNames == {"meta1", "meta2"}
Matches == {<<"meta1", "j">>, <<"meta2", "j">>, <<"meta2", "k">>}
Silent == [voting |-> "unset", hold |-> "unset", branches |-> {}, tags |-> {}]
Sayings ==
  {[Silent EXCEPT !.voting = v] : v \in {"unset", "yes", "no"}}
    \cup {[Silent EXCEPT !.hold = "yes"]}
    \cup {[Silent EXCEPT !.branches = {b}] : b \in {"master", "stable"}}
    \cup {[Silent EXCEPT !.tags = {t}] : t \in {"t1", "t2"}}
Entries == {[name |-> n] @@ s : n \in MetaNames \cup {"j", "k"}, s \in Sayings}
JobInputs == {[of |-> "jobs", entries |-> e, used |-> <<"j", "k">>] : e \in UpTo(Entries, 3)}

Leaf(j) == [job |-> j, below |-> <<>>]
Over(j, forest) == [job |-> j, below |-> forest]
Forests ==
  {<<>>, <<Leaf("a")>>, <<Leaf("a"), Leaf("b")>>, <<Over("a", <<Leaf("b")>>)>>,
   <<Over("b", <<Leaf("a"), Leaf("c")>>)>>, <<Over("a", <<Over("b", <<Leaf("c")>>)>>)>>,
   <<Over("a", <<Leaf("c")>>), Leaf("b")>>}
TreeInputs ==
  [of : {"tree"}, templates : UpTo(Forests, 2), own : Forests,
   matches : SUBSET {"a", "b", "c"}, fails : SUBSET {"a", "b", "c"}]

QueueInputs ==
  [of : {"queues"}, projects : UNION {[1..n -> SUBSET {1, 2, 3}] : n \in 1..4},
   named : {<<>>, 1 :> "x" @@ 2 :> "x", 1 :> "x" @@ 3 :> "y"}]

(* Three items, each asked for at most once and in their order; at most    *)
(* once in between a branch moves on.  One ref may be beyond writing.      *)
MergeScript(asked, broken) ==
  [k \in DOMAIN asked |-> [op |-> "merge", item |-> asked[k],
                           broken |-> IF k = 1 THEN broken ELSE {}]]
Scripts(parent) ==
  LET bare == {MergeScript(a, b) : a \in {<<1, 2>>, <<1, 3>>, <<2, 3>>, <<1, 2, 3>>},
                                   b \in {{}, {"x"}}}
      moves == [op : {"push"}, key : Keys] \cup [op : {"land"}, item : {1, 2}]
      legal(s, k, e) == e.op = "land" =>
                          /\ parent[e.item] = 0
                          /\ \E i \in 1..k : s[i].item = e.item
  IN bare \cup UNION {{InsertAt(s, k + 1, e) : e \in {m \in moves : legal(s, k, m)}} :
                       s \in bare, k \in {1, 2}}
MergerInputs ==
  UNION {[of : {"merger"}, keys : [1..3 -> Keys], parent : {parent},
          conflicts : {{}, {{1, 2}}, {{2, 3}}, {{1, 3}}, {{3, Other}}}, script : Scripts(parent)] :
           parent \in {<<0, a, b>> : a \in {0, 1}, b \in {0, 1, 2}}}

Names == {"", "master", "stable"}
CloneInputs ==
  [of : {"clone"}, revision : {"none", "there", "missing"}, branch : Names, override : Names,
   zuulBranch : Names, zuulRef : BOOLEAN, upstream : SUBSET (Names \ {""}),
   refs : SUBSET (Names \ {""}), heads : {{}, {"stable"}}, access : BOOLEAN]
MapInputs ==
  [of : {"map"}, projects : {{"p", "q"}},
   rules : UpTo(UNION {[S -> {"p", "q", "d"}] : S \in SUBSET {"p", "q"}}, 2)]

TimeInputs ==
  [of : {"times"},
   script : UpTo([op : {"add"}, elapsed : 0..3, success : BOOLEAN] \cup [op : {"restart"}], 4)]

Votes == [category : {"verified", "review", Undescribed}, value : {1}, age : 0..2]
Criteria ==
  [category : {"verified", Anything}, values : {{1}, {2}}, newer : {Unlimited, 1}, older : {Unlimited, 1}]
FewOf(S) == {{}} \cup {{x} : x \in S}
VoteInputs ==
  [of : {"votes"}, further : {Votes},
   filter : [open : {{TRUE}, BOOLEAN}, current : {BOOLEAN}, statuses : {{}, {"NEW"}},
             required : FewOf(Criteria), reject : FewOf(Criteria)],
   change : [open : {TRUE}, current : {TRUE}, status : {"NEW"}, votes : FewOf(Votes)]]

AllInputs ==
  JobInputs \cup TreeInputs \cup QueueInputs \cup MergerInputs
    \cup CloneInputs \cup MapInputs \cup TimeInputs \cup VoteInputs
=============================================================================
