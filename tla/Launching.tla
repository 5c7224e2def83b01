------------------------------ MODULE Launching ------------------------------
(***************************************************************************)
(* Builds from the scheduler's launch to their answer: the launcher client *)
(* and the launch server with its node workers, over the Gearman server.   *)
(***************************************************************************)
EXTENDS LauncherClient, NodeWorker

vars == <<gearman, client, launcher>>

Init == GearmanInit /\ ClientInit /\ LauncherInit

Next ==
  \/ ClientNext /\ UNCHANGED launcher
  \/ LauncherNext /\ UNCHANGED client

(* Every thread of the two programs goes on when it can; playbooks end, if *)
(* need be because the watchdog of GearThread's playbook kills them.  No   *)
(* fairness is assumed of the scheduler's wishes, the operator, nodepool   *)
(* or the faults, nor of the server handing out a job.                     *)
Fairness ==
  /\ WF_vars(SchedulerThread /\ UNCHANGED launcher)
  /\ WF_vars(ClientThread /\ UNCHANGED launcher)
  /\ \A n \in Node : WF_vars(QueueThread(n) /\ UNCHANGED client)
  /\ \A n \in Node : WF_vars(GearThread(n) /\ UNCHANGED client)
  /\ \A b \in Build : WF_vars(StopJob(b) /\ UNCHANGED client)
  /\ WF_vars(Reap /\ UNCHANGED client)
  /\ WF_vars(CommandThread /\ UNCHANGED client)

Spec == Init /\ [][Next]_vars
FairSpec == Spec /\ Fairness

-----------------------------------------------------------------------------
Results == {"SUCCESS", "FAILURE", "POST_FAILURE", "none", "NOT_REGISTERED",
            "EXCEPTION", "NO_HANDLE"}
Actions == {"stop", "pause", "unpause", "release", "reconfigure", "abort"}

TypeOK ==
  /\ waiting \subseteq Build /\ attached \subseteq Build /\ stops \subseteq Build
  /\ table \subseteq launched /\ canceled \subseteq launched /\ started \subseteq launched
  /\ metaJobs \subseteq canceled /\ launched \subseteq Build
  /\ \A k \in DOMAIN packets : packets[k].build \in Build /\ packets[k].result \in Results
  /\ cache \subseteq Job /\ jobs \subseteq Job
  /\ nodes \subseteq Node /\ serving \in [Build -> Node \cup {NoNode}]
  /\ ended \in Seq(Node)
  /\ \A n \in Node :
       /\ w[n].todo \in Seq(Actions)
       /\ w[n].build \in Build \cup {NoNode}
       /\ w[n].result \in Results
       /\ w[n].proc = "on" => w[n].gear \in {"playing", "post"}
       /\ w[n].life = "alive" <=> w[n].queuer # "done"

(* The client keeps the contract of LaunchContract: one answer per build,  *)
(* none for a build it dropped, and only canceled builds are dropped.      *)
(* onBuildCompleted runs in two threads and the table has no lock.         *)
Contract ==
  INSTANCE LaunchContract WITH
    asked <- launched, pending <- table, unwanted <- canceled,
    told <- [b \in Build |-> Len(answers[b])]
KeepsContract == Contract!Spec

(* What the scheduler is told is what happened: a success went through both*)
(* playbooks undisturbed, a failure failed in one of them or had a         *)
(* worker whose watchdog fired, and a build is only run again (a null      *)
(* result) if it was lost, stopped, aborted or could not be run.  The flags*)
(* behind these verdicts are set by four threads and live as long as the   *)
(* worker.                                                                 *)
Justified(r, seen) ==
  /\ r = "SUCCESS" => seen = {"noop"} \/ seen = {"ok", "post ok"}
  /\ r = "FAILURE" => seen \cap {"failed", "timeout"} # {}
  /\ r = "POST_FAILURE" => "post failed" \in seen
  /\ r = "none" => seen \cap {"lost", "gone", "stopped", "error", "unreachable",
                              "killed", "aborted", "unknown"} # {}
VerdictsJustified ==
  \A b \in Build : \A k \in DOMAIN answers[b] :
    Justified(answers[b][k].result, answers[b][k].seen)

(* A call of NodeWorker.stop sets the flag that ends the queue thread and  *)
(* then puts its action in the queue: the thread may end in between.       *)
StopUnderWay(n) ==
  \/ command.at \in {"put", "join"} /\ command.node = n
  \/ w[n].gear \in {"put", "join"}

(* Word of the end of b is under way to the client, or just in.            *)
EndUnderWay(b) ==
  \/ \E p \in ToSet(packets) : p.kind = "done" /\ p.build = b
  \/ handler.at = "answer" /\ handler.packet.build = b

(* While the client waits for a build it has seen start, and no word of its*)
(* end is under way, the launch server can find the worker of the build: a *)
(* stop job reaches it, but for a worker that ended before the action of a *)
(* stop was in its queue (the reaper may have removed it, for the word of  *)
(* an earlier worker of its node that was stopped twice).                  *)
StartedCanBeStopped ==
  \A b \in (started \cap table) \ {x \in Build : EndUnderWay(x)} :
    /\ serving[b] \in Node /\ w[serving[b]].build = b
    /\ w[serving[b]].connected
    /\ \/ serving[b] \in nodes /\ w[serving[b]].queuer # "done"
       \/ StopUnderWay(serving[b])

(* No outstanding build is lost: it is being submitted, waits in the queue,*)
(* is run by a worker that can still answer, or its end is under way.      *)
NoBuildLost ==
  \A b \in table :
    \/ scheduler.at = "submit" /\ scheduler.build = b
    \/ b \in waiting \cap attached
    \/ b \in attached /\ \E n \in Node : Busy(w[n]) /\ w[n].build = b /\ w[n].connected
    \/ EndUnderWay(b)

(* Nodepool waits for an onFinalized event before it reclaims a node: a    *)
(* worker whose thread has ended has sent one since its last onStarted,    *)
(* unless a build it took before is still being run down or it ended       *)
(* before the action of a stop was in its queue.                           *)
DeadNodesReported ==
  \A n \in Node :
    w[n].life = "dead" => w[n].sentComplete \/ StopUnderWay(n) \/ Busy(w[n])

(* A build that a worker has taken is answered or, if canceled, forgotten, *)
(* whatever becomes of the worker, its node, the server or the connection. *)
TakenIsAnswered ==
  \A b \in Build :
    (\E n \in Node : Busy(w[n]) /\ w[n].build = b) ~> b \notin table

(* "if it's called remotely, it will not be [effective], but it will be    *)
(* set by the queue thread" (NodeWorker.stop): a stop that is put in a     *)
(* worker's queue is taken out of it.                                      *)
StopsAreTaken ==
  \A n \in Node : (\E k \in DOMAIN w[n].todo : w[n].todo[k] = "stop") ~> w[n].todo = <<>>
=============================================================================
