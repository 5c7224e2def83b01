------------------------------- MODULE Layout -------------------------------
(***************************************************************************)
(* What becomes of the jobs and projects of layout.yaml                    *)
(* (Scheduler._parseConfig; Layout, Job and JobTree of zuul/model.py), and *)
(* how a pipeline works off the job tree of a project for one change.      *)
(* Everything here is computed by one thread between two events.           *)
(***************************************************************************)
EXTENDS Integers, Sequences, FiniteSets, SequencesExt

CONSTANTS
  Meta,            (* names that are regular expressions: metajobs          *)
  Matching         (* the pairs of a metajob and a name it matches          *)

-----------------------------------------------------------------------------
(* Jobs.  Four kinds of attribute stand for all: voting is set if present, *)
(* hold only if true, a list of branches replaces, tags accumulate.  An    *)
(* entry of the jobs section gives the ones it sets; queue-name is read    *)
(* from the entry of a job, never from a metajob.                          *)
NewJob(n) ==
  IF n \in Meta
  THEN [voting |-> "unset", hold |-> "unset", branches |-> {}, tags |-> {}]
  ELSE [voting |-> "yes", hold |-> "no", branches |-> {}, tags |-> {}]

(* mutant: a metajob's defaults squash what other metajobs set.            *)
CopySquashed(job, other) ==
  [voting   |-> IF other.voting = "unset" THEN "yes" ELSE other.voting,
   hold     |-> IF other.hold = "unset" THEN job.hold ELSE other.hold,
   branches |-> IF other.branches = {} THEN job.branches ELSE other.branches,
   tags     |-> job.tags \cup other.tags]

(* Job.copy, and the attributes an entry sets explicitly.                  *)
Copy(job, other) ==
  [voting   |-> IF other.voting = "unset" THEN job.voting ELSE other.voting,
   hold     |-> IF other.hold = "unset" THEN job.hold ELSE other.hold,
   branches |-> IF other.branches = {} THEN job.branches ELSE other.branches,
   tags     |-> job.tags \cup other.tags]
Explicit(job, entry) == Copy(job, entry)

EmptyLayout == [jobs |-> <<>>, metajobs |-> <<>>]

(* getJob: the first mention of a job creates it from the metajobs so far. *)
GetJob(layout, n) ==
  IF n \in DOMAIN layout.jobs THEN layout
  ELSE LET matching == SelectSeq(layout.metajobs, LAMBDA m : <<m.name, n>> \in Matching)
           job == FoldLeft(LAMBDA j, m : Copy(j, m.job), NewJob(n), matching)
       IN [layout EXCEPT !.jobs = (n :> job) @@ @]

(* The jobs section: every entry of a metajob is a metajob of its own.     *)
Define(layout, entry) ==
  IF entry.name \in Meta
  THEN [layout EXCEPT !.metajobs =
          Append(@, [name |-> entry.name, job |-> Explicit(NewJob(entry.name), entry)])]
  ELSE LET known == GetJob(layout, entry.name)
       IN [known EXCEPT !.jobs[entry.name] = Explicit(@, entry)]

ParseJobs(entries, used) ==
  FoldLeft(GetJob, FoldLeft(Define, EmptyLayout, entries), used).jobs

(* Reference: what was said last holds; what a metajob says counts if it   *)
(* was said before the job was first mentioned.                            *)
SaidOf(entries, n) ==
  LET mentions == {k \in DOMAIN entries : entries[k].name = n}
      first == IF mentions = {} THEN Len(entries) + 1
               ELSE CHOOSE k \in mentions : \A i \in mentions : k <= i
  IN {k \in DOMAIN entries :
        \/ entries[k].name = n
        \/ k < first /\ <<entries[k].name, n>> \in Matching}
LastSaid(entries, n, says(_)) ==
  LET S == {k \in SaidOf(entries, n) : says(entries[k])}
  IN IF S = {} THEN 0 ELSE CHOOSE k \in S : \A i \in S : i <= k
SaidLastHolds(entries, n, job) ==
  LET v == LastSaid(entries, n, LAMBDA e : e.voting # "unset")
      h == LastSaid(entries, n, LAMBDA e : e.hold # "unset")
      b == LastSaid(entries, n, LAMBDA e : e.branches # {})
  IN /\ job.voting = IF v = 0 THEN "yes" ELSE entries[v].voting
     /\ job.hold = IF h = 0 THEN "no" ELSE entries[h].hold
     /\ job.branches = IF b = 0 THEN {} ELSE entries[b].branches
     /\ job.tags = UNION {entries[k].tags : k \in SaidOf(entries, n)}

-----------------------------------------------------------------------------
(* Job trees.  A forest is a sequence of [job, below]; below is a forest.  *)
Place(forest, n) == SelectInSeq(forest, LAMBDA t : t.job = n)

(* mutant: a job that is there already is planted again.                   *)
AddJobAgain(forest, n) == Append(forest, [job |-> n, below |-> <<>>])

(* JobTree.addJob.                                                         *)
AddJob(forest, n) ==
  IF Place(forest, n) = 0 THEN Append(forest, [job |-> n, below |-> <<>>]) ELSE forest

(* add_jobs.                                                               *)
RECURSIVE AddJobs(_, _)
AddJobs(forest, config) ==
  FoldLeft(LAMBDA f, t : LET g == AddJob(f, t.job)
                         IN [g EXCEPT ![Place(g, t.job)].below = AddJobs(@, t.below)],
           forest, config)

(* The jobs of a project in a pipeline: templates, last one first, are put *)
(* in front of what the project has itself.                                *)
ProjectJobs(templates, own) ==
  AddJobs(<<>>, FoldLeft(LAMBDA jobs, t : t \o jobs, own, Reverse(templates)))

(* getJobs.                                                                *)
RECURSIVE TreeJobs(_)
TreeJobs(forest) ==
  FoldLeft(LAMBDA jobs, t : jobs \o <<t.job>> \o TreeJobs(t.below), <<>>, forest)

RECURSIVE Paths(_)
Paths(forest) ==
  UNION {{<<forest[k].job>>} \cup {<<forest[k].job>> \o p : p \in Paths(forest[k].below)}
           : k \in DOMAIN forest}

(* A place of a job: the jobs above it, and itself.                        *)
PlacesOf(forest, j) == {p \in Paths(forest) : Last(p) = j}

(* Reference: a job is in the tree if a template or the project has it, in *)
(* the places that the last of them gives it; in no place that none of     *)
(* them gives it; and in each place once.  (A job they give different      *)
(* places may keep the other ones: it does in the code.)                   *)
TreeOfTheirPlaces(templates, own) ==
  LET tree == ProjectJobs(templates, own)
      sources == Append(templates, own)
      Given(j) == UNION {PlacesOf(f, j) : f \in ToSet(sources)}
      GivenLast(j) == PlacesOf(sources[SelectLastInSeq(sources, LAMBDA f : PlacesOf(f, j) # {})], j)
  IN /\ Cardinality(Paths(tree)) = Len(TreeJobs(tree))
     /\ \A j \in UNION {ToSet(TreeJobs(f)) : f \in ToSet(sources)} :
          GivenLast(j) \subseteq PlacesOf(tree, j)
     /\ \A j \in ToSet(TreeJobs(tree)) : PlacesOf(tree, j) \subseteq Given(j)

-----------------------------------------------------------------------------
(* Working off the tree.  builds maps jobs to results.                     *)
ResultOf(builds, j) == IF j \in DOMAIN builds THEN builds[j] ELSE "none"

(* mutant: a job that does not match lets the jobs below it run.           *)
RECURSIVE FindJobsBelowUnmatched(_, _, _)
FindJobsBelowUnmatched(forest, builds, matches) ==
  FoldLeft(LAMBDA run, t :
             run \o (IF t.job \in DOMAIN builds \/ t.job \notin matches THEN <<>>
                     ELSE <<t.job>>)
                 \o (IF t.job \notin matches \/ ResultOf(builds, t.job) = "SUCCESS"
                     THEN FindJobsBelowUnmatched(t.below, builds, matches) ELSE <<>>),
           <<>>, forest)

(* _findJobsToRun, without holds and mutexes (the gate's module has them). *)
RECURSIVE FindJobs(_, _, _)
FindJobs(forest, builds, matches) ==
  FoldLeft(LAMBDA run, t :
             IF t.job \notin matches THEN run
             ELSE run \o (IF t.job \in DOMAIN builds THEN <<>> ELSE <<t.job>>)
                      \o (IF ResultOf(builds, t.job) = "SUCCESS"
                          THEN FindJobs(t.below, builds, matches) ELSE <<>>),
           <<>>, forest)

(* getJobTreeForJob: the first place of the job.                           *)
RECURSIVE Below(_, _)
Below(forest, j) ==
  FoldLeft(LAMBDA below, t :
             IF below # <<>> THEN below
             ELSE IF t.job = j THEN <<t.below>> ELSE Below(t.below, j),
           <<>>, forest)

(* setResult: what is below a failed job is skipped, even if it ran.       *)
SetResult(forest, builds, j) ==
  IF ResultOf(builds, j) = "SUCCESS" THEN builds
  ELSE [b \in ToSet(TreeJobs(Below(forest, j)[1])) |-> "SKIPPED"] @@ builds

(* All jobs that can run do, until there are none; fails is what fails.    *)
(* runs counts how often each was launched.                                *)
RECURSIVE RunOut(_, _, _, _, _)
RunOut(forest, builds, runs, matches, fails) ==
  LET run == FindJobs(forest, builds, matches)
      done == [j \in ToSet(run) |-> IF j \in fails THEN "FAILURE" ELSE "SUCCESS"]
  IN IF run = <<>> THEN [builds |-> builds, runs |-> runs]
     ELSE RunOut(forest,
                 FoldLeft(LAMBDA b, j : SetResult(forest, b, j), builds @@ done, run),
                 runs \o run, matches, fails)

(* Reference: every job that is listed for a change ends, if no job has    *)
(* two places and no job is below one that does not match; a job runs if   *)
(* and only if all above it match and succeed, and once.                   *)
Plain(forest, matches) ==
  /\ IsInjective(TreeJobs(forest))
  /\ \A p \in Paths(forest) : p[Len(p)] \in matches => ToSet(p) \subseteq matches
EveryListedJobEnds(forest, matches, fails) ==
  LET listed == ToSet(TreeJobs(forest)) \cap matches
      end == RunOut(forest, <<>>, <<>>, matches, fails)
      mayRun == {j \in listed : \E p \in Paths(forest) :
                   /\ p[Len(p)] = j
                   /\ ToSet(p) \subseteq matches
                   /\ ToSet(Front(p)) \cap fails = {}}
  IN /\ ToSet(end.runs) \subseteq mayRun
     /\ Plain(forest, matches) =>
          /\ listed \subseteq DOMAIN end.builds
          /\ ToSet(end.runs) = mayRun /\ IsInjective(end.runs)
=============================================================================
