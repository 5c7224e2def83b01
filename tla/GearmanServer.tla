--------------------------- MODULE GearmanServer ---------------------------
(***************************************************************************)
(* The Gearman server between Zuul's launcher client and its launch        *)
(* server.  It is no part of the repository: it is modelled from how       *)
(* zuul/launcher/gearman.py and zuul/launcher/ansiblelaunchserver.py use   *)
(* it.  It queues build jobs until a node worker that registered their     *)
(* function grabs them, passes what the workers send on to the client in   *)
(* order, queues stop jobs for the launch server, and tells the client     *)
(* when the worker that had a job has disconnected.                        *)
(***************************************************************************)
EXTENDS Integers, Sequences, FiniteSets, SequencesExt

CONSTANTS
  Build,           (* the builds, by uuid                                   *)
  Job,
  JobOf,           (* build.job                                             *)
  Node,            (* the names of the nodes                                *)
  NoNode,
  Faults,          (* the faults that occur                                 *)
  MaxFaults        (* bound: how many of them                               *)

ASSUME GearmanAssumption ==
  /\ JobOf \in [Build -> Job]
  /\ NoNode \notin Node \cup Build
  /\ MaxFaults \in Nat

VARIABLES
  waiting,         (* build jobs in the queue                               *)
  attached,        (* build jobs whose handle the client's connection knows *)
  packets,         (* what is under way to the client, in order             *)
  stops,           (* stop jobs in the queue, by the build they stop        *)
  functions,       (* functions[n]: what node worker n has registered       *)
  faults           (* how much of MaxFaults is used                         *)

gearman == <<waiting, attached, packets, stops, functions, faults>>

GearmanInit ==
  /\ waiting = {} /\ attached = {} /\ packets = <<>> /\ stops = {}
  /\ functions = [n \in Node |-> {}]
  /\ faults = 0

Registered == UNION {functions[n] : n \in Node}

(* WORK_DATA: the build runs and has a number.  WORK_COMPLETE, WORK_FAIL   *)
(* and WORK_EXCEPTION: it is over; "none" is a null result or none at all, *)
(* and seen, for the properties only, is what happened to the build.       *)
WorkData(b) == [kind |-> "data", build |-> b, result |-> "none", seen |-> {}]
WorkDone(b, r, seen) == [kind |-> "done", build |-> b, result |-> r, seen |-> seen]
MetaDone(b, seen) == [kind |-> "meta", build |-> b, result |-> "none", seen |-> seen]

(* Packets on a job the client's connection does not know go nowhere.      *)
ToClient(p) ==
  packets' = IF p.build \in attached THEN Append(packets, p) ELSE packets

Fault(f) == f \in Faults /\ faults < MaxFaults /\ faults' = faults + 1
=============================================================================
