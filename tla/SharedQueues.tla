---------------------------- MODULE SharedQueues ----------------------------
(***************************************************************************)
(* The shared change queues of a dependent pipeline: projects that have a  *)
(* job in common share a queue (buildChangeQueues, combineChangeQueues of  *)
(* DependentPipelineManager; addProject, mergeChangeQueue of ChangeQueue). *)
(***************************************************************************)
EXTENDS Integers, Sequences, FiniteSets, SequencesExt

(* projects[p] is the set of jobs of project p; named maps the jobs with a *)
(* queue-name to it.  clash says that addProject raised for a second name. *)
NamesOf(jobs, named) == {named[j] : j \in jobs \cap DOMAIN named}

OneProject(projects, named, p) ==
  [projects |-> {p}, jobs |-> projects[p],
   clash |-> Cardinality(NamesOf(projects[p], named)) > 1]

(* mergeChangeQueue.                                                       *)
MergeQueue(b, a, named) ==
  [projects |-> b.projects \cup a.projects,
   jobs |-> b.jobs \cup a.jobs,
   clash |-> a.clash \/ b.clash \/ Cardinality(NamesOf(a.jobs \cup b.jobs, named)) > 1]

(* combineChangeQueues: every queue is merged into the first one before it *)
(* that has one of its jobs.                                               *)
Combine(queues, named) ==
  FoldLeft(LAMBDA new, a :
             LET k == SelectInSeq(new, LAMBDA b : a.jobs \cap b.jobs # {})
             IN IF k = 0 THEN Append(new, a)
                ELSE [new EXCEPT ![k] = MergeQueue(@, a, named)],
           <<>>, queues)

(* mutant: one pass.                                                       *)
CombineOnce(queues, named) == Combine(queues, named)

(* ... until a pass no longer makes them fewer.                            *)
RECURSIVE CombineAll(_, _)
CombineAll(queues, named) ==
  LET new == Combine(queues, named)
  IN IF Len(new) = Len(queues) THEN new ELSE CombineAll(new, named)

BuildChangeQueues(projects, named) ==
  CombineAll([p \in DOMAIN projects |-> OneProject(projects, named, p)], named)

(* Reference: two projects share a queue if and only if a chain of shared  *)
(* jobs connects them, and names clash if and only if a queue has two.     *)
RECURSIVE Connected(_, _)
Connected(projects, S) ==
  LET more == {p \in DOMAIN projects : \E q \in S : projects[p] \cap projects[q] # {}}
  IN IF more \subseteq S THEN S ELSE Connected(projects, S \cup more)

SharedByChains(projects, named) ==
  LET queues == ToSet(BuildChangeQueues(projects, named))
  IN /\ {q.projects : q \in queues} = {Connected(projects, {p}) : p \in DOMAIN projects}
     /\ \A q \in queues :
          q.clash <=> Cardinality(NamesOf(UNION {projects[p] : p \in q.projects}, named)) > 1
=============================================================================
