---------------------------- MODULE LaunchServer ----------------------------
(***************************************************************************)
(* The launch server and its node workers                                  *)
(* (zuul/launcher/ansiblelaunchserver.py, classes LaunchServer, NodeWorker *)
(* and Watchdog).                                                          *)
(*                                                                         *)
(* The server has a thread for its Gearman jobs (node_assign, node_revoke, *)
(* stop), one for its operator's commands and one that reaps workers.      *)
(* Every node worker has a thread that works off its queue of actions and  *)
(* one that gets build jobs and runs them in two playbooks, under a        *)
(* watchdog.  They share flags; only some are under a lock.                *)
(***************************************************************************)
EXTENDS GearmanServer

CONSTANTS
  Configs,         (* the sets of jobs a reconfiguration may load           *)
  FirstConfig,
  Offline,         (* builds with OFFLINE_NODE_WHEN_COMPLETE                *)
  Commands,        (* the commands the operator and nodepool use            *)
  MaxCommands,     (* bound: how many of them                               *)
  MaxAssigned      (* bound: how often a node is assigned                   *)

ASSUME LaunchAssumption == Configs \subseteq SUBSET Job /\ FirstConfig \subseteq Job

VARIABLES
  jobs,            (* LaunchServer.jobs                                     *)
  accepting,       (* accept_nodes, with node_assign registered             *)
  nodes,           (* the keys of node_workers                              *)
  serving,         (* LaunchServer.builds: the node of each build           *)
  command,         (* where the command thread is                           *)
  ended,           (* termination_queue                                     *)
  w,               (* w[n]: the node worker of node n                       *)
  commands, assigned  (* how much of each bound is used                     *)

launcher == <<jobs, accepting, nodes, serving, command, ended, w, commands, assigned>>

(* NodeWorker.__init__ and the start of run: the functions are registered  *)
(* before the Gearman thread starts.  queuer and gear say where the two    *)
(* threads are; proc is the running playbook; seen, for the properties     *)
(* only, is what happened to the build.                        *)
NewWorker ==
  [life |-> "alive", running |-> TRUE, unpaused |-> TRUE, connected |-> TRUE,
   todo |-> <<>>, queuer |-> "get", wasUnpaused |-> FALSE, gear |-> "top",
   build |-> NoNode, gotJob |-> FALSE, runningJob |-> FALSE, complete |-> FALSE,
   aborted |-> FALSE, timedOut |-> FALSE, sentComplete |-> FALSE,
   registered |-> jobs, pending |-> FALSE, proc |-> "none", status |-> FALSE,
   result |-> "none", seen |-> {}]

NoWorker == [NewWorker EXCEPT !.life = "none", !.running = FALSE, !.connected = FALSE,
                              !.queuer = "done", !.gear = "ended", !.registered = {}]

Working == [at |-> "commands"]

LauncherInit ==
  /\ jobs = FirstConfig
  /\ accepting = TRUE
  /\ nodes = {}
  /\ serving = [b \in Build |-> NoNode]
  /\ command = Working
  /\ ended = <<>>
  /\ w = [n \in Node |-> NoWorker]
  /\ commands = 0 /\ assigned = 0

(* isAlive, asked by the manager.                                          *)
Alive == {n \in nodes : w[n].life = "alive"}
Tell(S, actions) ==
  [n \in Node |-> IF n \in S THEN [w[n] EXCEPT !.todo = @ \o actions] ELSE w[n]]

Bounded(c) == c \in Commands /\ commands < MaxCommands /\ commands' = commands + 1

-----------------------------------------------------------------------------
(* The server's Gearman thread: run.                                       *)
Serving == command.at \in {"commands", "draining"}

(* assignNode: a node nodepool offers gets a worker and a thread.          *)
AssignNode(n) ==
  /\ Serving /\ accepting
  /\ n \notin nodes /\ w[n].life # "alive" /\ w[n].gear = "ended"
  /\ assigned < MaxAssigned /\ assigned' = assigned + 1
  /\ nodes' = nodes \cup {n}
  /\ w' = [w EXCEPT ![n] = NewWorker]
  /\ functions' = [functions EXCEPT ![n] = jobs]
  /\ UNCHANGED <<waiting, attached, packets, stops, faults, jobs, accepting, serving,
                 command, ended, commands>>

(* revokeNode.                                                             *)
RevokeNode(n) ==
  /\ Serving /\ Bounded("revoke")
  /\ w' = Tell({n} \cap Alive, <<"stop">>)
  /\ UNCHANGED <<gearman, jobs, accepting, nodes, serving, command, ended, assigned>>

(* stopJob: the abort goes to the worker that has the build; whatever it   *)
(* finds, the stop job is complete.                                        *)
StopJob(b) ==
  /\ Serving /\ b \in stops
  /\ stops' = stops \ {b}
  /\ w' = Tell({serving[b]} \cap Alive, <<"abort">>)
  /\ packets' = Append(packets, MetaDone(b, {}))
  /\ UNCHANGED <<waiting, attached, functions, faults, jobs, accepting, nodes,
                 serving, command, ended, commands, assigned>>

(* runReaper: joins the thread of a worker that said it ends.  A second    *)
(* word from the same worker finds it gone.                                *)
Reap ==
  /\ ended # <<>> /\ command.at # "stopped"
  /\ Head(ended) \in nodes => w[Head(ended)].life = "dead"
  /\ nodes' = nodes \ {Head(ended)}
  /\ ended' = Tail(ended)
  /\ UNCHANGED <<gearman, jobs, accepting, serving, command, w, commands, assigned>>

-----------------------------------------------------------------------------
(* The command thread.                                                     *)
Pause ==
  /\ command = Working /\ Bounded("pause")
  /\ accepting' = FALSE
  /\ w' = Tell(Alive, <<"pause">>)
  /\ UNCHANGED <<gearman, jobs, nodes, serving, command, ended, assigned>>

Unpause ==
  /\ command = Working /\ Bounded("unpause")
  /\ accepting' = TRUE
  /\ w' = Tell(Alive, <<"unpause">>)
  /\ UNCHANGED <<gearman, jobs, nodes, serving, command, ended, assigned>>

ReleaseNodes ==
  /\ command = Working /\ Bounded("release")
  /\ w' = Tell(Alive, <<"release">>)
  /\ UNCHANGED <<gearman, jobs, accepting, nodes, serving, command, ended, assigned>>

(* reconfigure: loadJobs, then every worker registers again.               *)
ReloadJobs ==
  /\ command = Working /\ Bounded("reconfigure")
  /\ jobs' \in Configs
  /\ w' = Tell(Alive, <<"reconfigure">>)
  /\ UNCHANGED <<gearman, accepting, nodes, serving, command, ended, assigned>>

(* graceful: pause and release, then stop when no build is left.           *)
Graceful ==
  /\ command = Working /\ Bounded("graceful")
  /\ accepting' = FALSE
  /\ w' = Tell(Alive, <<"pause", "release">>)
  /\ command' = [at |-> "draining"]
  /\ UNCHANGED <<gearman, jobs, nodes, serving, ended, assigned>>

Drained ==
  /\ command.at = "draining" /\ \A b \in Build : serving[b] = NoNode
  /\ command' = [at |-> "stopping", left |-> nodes]
  /\ UNCHANGED <<gearman, jobs, accepting, nodes, serving, ended, w, commands, assigned>>

Stop ==
  /\ command = Working /\ Bounded("stop")
  /\ command' = [at |-> "stopping", left |-> nodes]
  /\ UNCHANGED <<gearman, jobs, accepting, nodes, serving, ended, w, assigned>>

(* stop goes through the workers, with NodeWorker.stop for those alive:    *)
(* the flag, then the event, then the action, then wait for the queue.     *)
StopNextNode ==
  /\ command.at = "stopping" /\ command.left # {}
  /\ \E n \in command.left :
       IF w[n].life = "alive"
       THEN /\ command' = [at |-> "put", node |-> n, left |-> command.left \ {n}]
            /\ w' = [w EXCEPT ![n].running = FALSE, ![n].unpaused = TRUE]
       ELSE /\ command' = [at |-> "stopping", left |-> command.left \ {n}]
            /\ UNCHANGED w
  /\ UNCHANGED <<gearman, jobs, accepting, nodes, serving, ended, commands, assigned>>

PutStop ==
  /\ command.at = "put"
  /\ w' = Tell({command.node}, <<"stop">>)
  /\ command' = [at |-> "join", node |-> command.node, left |-> command.left]
  /\ UNCHANGED <<gearman, jobs, accepting, nodes, serving, ended, commands, assigned>>

(* Queue.join: everything put in the queue was taken and done.             *)
QueueDone(n) == w[n].todo = <<>> /\ w[n].queuer \in {"check", "get", "done"}

JoinQueue ==
  /\ command.at = "join" /\ QueueDone(command.node)
  /\ command' = [at |-> "stopping", left |-> command.left]
  /\ UNCHANGED <<gearman, jobs, accepting, nodes, serving, ended, w, commands, assigned>>

Stopped ==
  /\ command = [at |-> "stopping", left |-> {}]
  /\ command' = [at |-> "stopped"]
  /\ UNCHANGED <<gearman, jobs, accepting, nodes, serving, ended, w, commands, assigned>>

CommandThread == Drained \/ StopNextNode \/ PutStop \/ JoinQueue \/ Stopped
=============================================================================
