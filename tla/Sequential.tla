----------------------------- MODULE Sequential -----------------------------
(***************************************************************************)
(* What Zuul computes in one thread, without anything coming in between:   *)
(* either the change queue lives through any sequence of its operations,   *)
(* or one of the algorithms on layouts, trees, merges, clones, times and   *)
(* votes is given an input.  The input is part of the initial state.       *)
(***************************************************************************)
EXTENDS ChangeQueue, Layout, SharedQueues, Merger, Cloner, JobTimes, Filters

CONSTANTS
  MaxWindow,       (* bound: how far the window of the queue may grow       *)
  Inputs,          (* the inputs, records with a field of                   *)
  Keys             (* the branches a merger deals with                      *)

VARIABLE given

SeqInit == Init /\ given \in Inputs \cup {[of |-> "queue"]}
SeqNext == given.of = "queue" /\ Next /\ window' <= MaxWindow /\ UNCHANGED given
SeqSpec == SeqInit /\ [][SeqNext]_<<vars, given>>

-----------------------------------------------------------------------------
(* Properties.                                                             *)

(* Layout.getJob and the jobs section: for every job used, each attribute  *)
(* is the one said last in the file by an entry of the job or, before its  *)
(* first mention, by a metajob that matches it; tags add up; and what a    *)
(* metajob leaves unsaid never resets what was said.                       *)
AttributesLastSaid ==
  given.of = "jobs" =>
    LET jobs == ParseJobs(given.entries, given.used)
    IN \A n \in ToSet(given.used) : SaidLastHolds(given.entries, n, jobs[n])

(* add_jobs: a project's tree in a pipeline has the jobs of its templates  *)
(* and its own, and no others, each in exactly the places they give it if  *)
(* they agree, and in a place only once, though each addJob looks at one   *)
(* level of the tree.  If they do not agree, the manual (zuul.rst:1004)    *)
(* gives the last template or the project itself priority; the code leaves *)
(* the job in the places of the others too.  There the property asks for   *)
(* the places of the last, and lets the job have those of the others.      *)
TreesMerged == given.of = "tree" => TreeOfTheirPlaces(given.templates, given.own)

(* findJobsToRun and setResult: every job listed for a change gets a       *)
(* result, and one runs only if all jobs above it match and succeed, and   *)
(* only once - unless the tree has a job in two places or below one that   *)
(* does not match the change, where the code breaks down.                  *)
ListedJobsEnd ==
  given.of = "tree" =>
    EveryListedJobEnds(ProjectJobs(given.templates, given.own), given.matches, given.fails)

(* buildChangeQueues: two projects are in one shared queue if and only if  *)
(* a chain of projects with jobs in common connects them; two names for    *)
(* one queue are an error, whenever they meet.                             *)
QueuesAreComponents == given.of = "queues" => SharedByChains(given.projects, given.named)

(* Merger.mergeChanges: what is tested for an item is its branch with the  *)
(* items ahead in order and nothing else, however many of them an earlier  *)
(* request had merged, a branch moved on or a ref could not be written;    *)
(* and the item's ref gives other projects of the queue the same state.    *)
MergedInOrder == given.of = "merger" => MergedAsAsked(given, Keys)

(* Cloner.prepareRepo, CloneMapper.expand: a job of a change gets the      *)
(* first there is of the Zuul refs and then the tips of its branch and of  *)
(* master, the order of the manual (cloner.rst:68) - but where Gerrit has  *)
(* the branch and Zuul a ref of master only, the code takes the tip of the *)
(* branch, and the property allows either; no two projects get one place,  *)
(* nor one project one of several.                                         *)
WorkspaceAsAsked ==
  /\ given.of = "clone" => ClonedInOrder(given)
  /\ given.of = "map" =>
       LET e == Expand(given.rules, given.projects)
       IN e.raised \/ \A p \in given.projects :
            /\ \A k \in DOMAIN given.rules :
                 p \in DOMAIN given.rules[k] => given.rules[k][p] = e.dest[p]
            /\ \A other \in given.projects : e.dest[other] = e.dest[p] => other = p

(* BaseFilter: a further vote never shuts a change out of a pipeline that  *)
(* only requires votes nor lets one into a pipeline that only rejects,     *)
(* once there are votes; and a vote is newer or older than an age, never   *)
(* both nor neither, so that no vote slips between two pipelines' limits.  *)
VotesDecide ==
  given.of = "votes" => \A v \in given.further : VotesCount(given.filter, given.change, v)

(* JobTimeData: a restart loses no time that was recorded, and estimates   *)
(* come from the last successes only, while all times fit in the file; no  *)
(* file ever holds one that does not.                                      *)
TimesKept == given.of = "times" => TimesSurvive(given.script)
=============================================================================
