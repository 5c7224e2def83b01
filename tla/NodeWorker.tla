----------------------------- MODULE NodeWorker -----------------------------
(***************************************************************************)
(* The two threads of a node worker (class NodeWorker of                   *)
(* zuul/launcher/ansiblelaunchserver.py) and its watchdog.                 *)
(***************************************************************************)
EXTENDS LaunchServer

manager == <<jobs, accepting, nodes, command, commands, assigned>>
server == <<waiting, attached, packets, stops, faults>>

(* generateFunctionNames and register: not while a build runs (it is made  *)
(* up for before the next one), and not while the other thread does it.    *)
RegisterNow(r) == [r EXCEPT !.registered = jobs, !.pending = FALSE]
MayRegister(r) == r.gear # "registering" /\ ~r.runningJob
SetFunctions(n) ==
  functions' = IF w[n].connected THEN [functions EXCEPT ![n] = jobs] ELSE functions

(* pause: stopWaitingForJobs wakes a thread that waits in getJob.          *)
PausedWorker(r) ==
  [r EXCEPT !.unpaused = FALSE, !.gear = IF @ = "getting" THEN "top" ELSE @]

(* abortRunningJob, abortRunningProc: kills the job playbook, if there is  *)
(* one.                                                                    *)
Running(r) ==
  r.gear \in {"launching", "prepare", "starting", "playing", "post"}
CanKill(r) == r.runningJob /\ r.gear = "playing"
AbortedWorker(r) ==
  [r EXCEPT !.aborted = TRUE, !.proc = IF CanKill(r) THEN "killed" ELSE @,
            !.seen = @ \cup IF Running(r) THEN {"aborted"} ELSE {}]

(* mutant: nodepool is not told of a worker that stops idle.               *)
NoFarewell(r) == r

(* sendFakeCompleteEvent.                                                  *)
Farewell(r) == [r EXCEPT !.sentComplete = TRUE]

(* A build this worker grabbed and has not yet answered.                   *)
Busy(r) == r.gear \in {"got", "finished", "reporting"} \/ Running(r)

(* worker.shutdown: getJob is interrupted, and the server tells the client *)
(* of a build it will not hear of again.                                   *)
Shutdown(n, r) ==
  /\ w' = [w EXCEPT ![n] = [r EXCEPT !.connected = FALSE, !.queuer = "check",
                                     !.gear = IF @ = "getting" THEN "top" ELSE @]]
  /\ functions' = [functions EXCEPT ![n] = {}]
  /\ IF Busy(r) /\ r.connected
     THEN ToClient(WorkDone(r.build, "none", {"gone"}))
     ELSE UNCHANGED packets

-----------------------------------------------------------------------------
(* The queue thread: run and _runQueue.                                    *)
QueueLoop(n) ==
  /\ w[n].queuer = "check"
  /\ w' = [w EXCEPT ![n] = IF @.running \/ @.todo # <<>>
                           THEN [w[n] EXCEPT !.queuer = "get"]
                           ELSE [w[n] EXCEPT !.queuer = "done", !.life = "dead"]]
  /\ UNCHANGED <<gearman, manager, serving, ended>>

Taken(n, action) ==
  w[n].queuer = "get" /\ w[n].todo # <<>> /\ Head(w[n].todo) = action
Rest(n) == [w[n] EXCEPT !.todo = Tail(@), !.queuer = "check"]

(* stop: a running job playbook is killed, and the thread waits until the  *)
(* build has been reported; otherwise nodepool gets a complete event now.  *)
TakeStop(n) ==
  /\ Taken(n, "stop")
  /\ ended' = Append(ended, n)
  /\ LET r == AbortedWorker([Rest(n) EXCEPT !.running = FALSE])
     IN IF CanKill(r)
        THEN /\ w' = [w EXCEPT ![n] = [r EXCEPT !.queuer = "stopping"]]
             /\ UNCHANGED <<functions, packets>>
        ELSE Shutdown(n, Farewell(r))
  /\ UNCHANGED <<waiting, attached, stops, faults, manager, serving>>

StopWaited(n) ==
  /\ w[n].queuer = "stopping" /\ w[n].complete
  /\ Shutdown(n, w[n])
  /\ UNCHANGED <<waiting, attached, stops, faults, manager, serving, ended>>

TakePause(n) ==
  /\ Taken(n, "pause")
  /\ w' = [w EXCEPT ![n] = PausedWorker(Rest(n))]
  /\ UNCHANGED <<gearman, manager, serving, ended>>

TakeUnpause(n) ==
  /\ Taken(n, "unpause")
  /\ w' = [w EXCEPT ![n] = [Rest(n) EXCEPT !.unpaused = TRUE]]
  /\ UNCHANGED <<gearman, manager, serving, ended>>

(* release: pause, then look under the lock whether a job was got.  The    *)
(* lock is held by a Gearman thread that waits in getJob.                  *)
TakeRelease(n) ==
  /\ Taken(n, "release")
  /\ w' = [w EXCEPT ![n] =
       [(IF @.unpaused THEN PausedWorker(Rest(n)) ELSE Rest(n))
          EXCEPT !.queuer = "releasing", !.wasUnpaused = w[n].unpaused]]
  /\ UNCHANGED <<gearman, manager, serving, ended>>

ReleaseLocked(n) ==
  /\ w[n].queuer = "releasing" /\ w[n].gear # "getting"
  /\ w' = [w EXCEPT ![n] =
       IF @.gotJob
       THEN [w[n] EXCEPT !.queuer = "check", !.unpaused = @ \/ w[n].wasUnpaused]
       ELSE [w[n] EXCEPT !.queuer = "check", !.todo = Append(@, "stop")]]
  /\ UNCHANGED <<gearman, manager, serving, ended>>

TakeReconfigure(n) ==
  /\ Taken(n, "reconfigure")
  /\ LET r == Rest(n)
     IN IF MayRegister(r)
        THEN /\ w' = [w EXCEPT ![n] = RegisterNow(r)]
             /\ SetFunctions(n)
        ELSE /\ w' = [w EXCEPT ![n] = [r EXCEPT !.pending = @ \/ r.runningJob]]
             /\ UNCHANGED functions
  /\ UNCHANGED <<server, manager, serving, ended>>

TakeAbort(n) ==
  /\ Taken(n, "abort")
  /\ w' = [w EXCEPT ![n] = AbortedWorker(Rest(n))]
  /\ UNCHANGED <<gearman, manager, serving, ended>>

QueueThread(n) ==
  \/ QueueLoop(n) \/ TakeStop(n) \/ StopWaited(n) \/ TakePause(n) \/ TakeUnpause(n)
  \/ TakeRelease(n) \/ ReleaseLocked(n) \/ TakeReconfigure(n) \/ TakeAbort(n)

-----------------------------------------------------------------------------
(* The Gearman thread: runGearman.  A paused worker waits at the top; once *)
(* past the event nothing looks at it again before getJob.                 *)
GearLoop(n) ==
  /\ w[n].gear = "top"
  /\ \/ ~w[n].running /\ w' = [w EXCEPT ![n].gear = "ended"]
     \/ /\ w[n].running /\ w[n].unpaused
        /\ w' = [w EXCEPT ![n].gear = IF w[n].pending THEN "registering" ELSE "ready"]
  /\ UNCHANGED <<gearman, manager, serving, ended>>

(* register, if it was put off: it reads the jobs here and tells the       *)
(* server in the next step, during which the other thread cannot register. *)
GearRegister(n) ==
  /\ w[n].gear = "registering"
  /\ w' = [w EXCEPT ![n] = [RegisterNow(@) EXCEPT !.gear = "ready"]]
  /\ SetFunctions(n)
  /\ UNCHANGED <<server, manager, serving, ended>>

(* _runGearman takes the lock and calls getJob.                            *)
GetJob(n) ==
  /\ w[n].gear = "ready"
  /\ w' = [w EXCEPT ![n].gear = IF w[n].connected THEN "getting" ELSE "top"]
  /\ UNCHANGED <<gearman, manager, serving, ended>>

GotJob(n) ==
  /\ w[n].gear = "getting"
  /\ \E b \in waiting :
       /\ JobOf[b] \in functions[n]
       /\ waiting' = waiting \ {b}
       /\ w' = [w EXCEPT ![n].gear = "got", ![n].build = b, ![n].gotJob = TRUE]
  /\ UNCHANGED <<attached, packets, stops, functions, faults, manager, serving, ended>>

Respond(n, p) == IF w[n].connected THEN ToClient(p) ELSE UNCHANGED packets
Looped(r) ==
  [r EXCEPT !.gear = "top", !.gotJob = FALSE, !.build = NoNode, !.status = FALSE,
            !.result = "none", !.seen = @ \cap {"timeout"}]

(* mutant: the abort flag of the last build is not reset.                  *)
LaunchBuildStale(n) ==
  /\ w[n].gear = "got" /\ JobOf[w[n].build] \in w[n].registered
  /\ w' = [w EXCEPT ![n] = [w[n] EXCEPT !.gear = "launching", !.sentComplete = FALSE,
                                        !.seen = @ \cap {"timeout"}]]
  /\ UNCHANGED <<gearman, manager, serving, ended>>

(* A function that is no longer registered fails; otherwise launch resets  *)
(* its flags (the line that should reset the watchdog's sets another name).*)
LaunchBuild(n) ==
  /\ w[n].gear = "got"
  /\ IF JobOf[w[n].build] \in w[n].registered
     THEN /\ w' = [w EXCEPT ![n] =
               [w[n] EXCEPT !.gear = "launching", !.sentComplete = FALSE,
                            !.aborted = FALSE, !.seen = @ \cap {"timeout"}]]
          /\ UNCHANGED packets
     ELSE /\ Respond(n, WorkDone(w[n].build, "none", {"unknown"}))
          /\ w' = [w EXCEPT ![n] = Looped(@)]
  /\ UNCHANGED <<waiting, attached, stops, functions, faults, manager, serving, ended>>

(* mutant: ansible_job_proc outlives its playbook.                         *)
FinishedAlone(r, result, why) ==
  [r EXCEPT !.gear = "finished", !.result = result, !.seen = @ \cup why]

Finished(r, result, why) ==
  [r EXCEPT !.gear = "finished", !.result = result, !.proc = "none", !.seen = @ \cup why]

(* runJob, under running_job_lock: a worker that stops runs nothing.       *)
BeginJob(n) ==
  /\ w[n].gear = "launching"
  /\ IF w[n].running
     THEN /\ w' = [w EXCEPT ![n].gear = "prepare", ![n].runningJob = TRUE,
                            ![n].complete = FALSE]
          /\ serving' = [serving EXCEPT ![w[n].build] = n]
     ELSE /\ w' = [w EXCEPT ![n] = Finished(@, "none", {"stopped"})]
          /\ UNCHANGED serving
  /\ UNCHANGED <<gearman, manager, ended>>

(* prepareAnsibleFiles looks the job up again and may fail; then the data  *)
(* packet says the build runs, before its playbook does.                   *)
PrepareJob(n) ==
  /\ w[n].gear = "prepare"
  /\ IF JobOf[w[n].build] \in jobs /\ w[n].connected
     THEN /\ ToClient(WorkData(w[n].build))
          /\ w' = [w EXCEPT ![n].gear = "starting"]
     ELSE /\ w' = [w EXCEPT ![n] = Finished(@, "none", {"error"})]
          /\ UNCHANGED packets
  /\ UNCHANGED <<waiting, attached, stops, functions, faults, manager, serving, ended>>

StartPlaybook(n) ==
  /\ w[n].gear = "starting"
  /\ w' = [w EXCEPT ![n].gear = "playing", ![n].proc = "on"]
  /\ UNCHANGED <<gearman, manager, serving, ended>>

(* _ansibleTimeout, called by the watchdog of either playbook.             *)
AnsibleTimeout(n) ==
  /\ w[n].gear \in {"playing", "post"} /\ w[n].proc = "on"
  /\ Fault("timeout")
  /\ w' = [w EXCEPT ![n].timedOut = TRUE, ![n].proc = "killed",
                    ![n].seen = @ \cup {"timeout"}]
  /\ UNCHANGED <<waiting, attached, packets, stops, functions, manager, serving, ended>>

(* runAnsiblePlaybook: 3 is an unreachable host, -9 a killed playbook.     *)
PlaybookExits(n) ==
  /\ w[n].gear = "playing"
  /\ \E exit \in IF w[n].proc = "killed" THEN {"killed"}
                 ELSE {"ok", "failed", "unreachable"} :
       /\ exit \in {"failed", "unreachable"} => exit \in Faults
       /\ w' = [w EXCEPT ![n] =
            IF ~w[n].timedOut /\ exit \in {"unreachable", "killed"}
            THEN Finished(@, "none", {exit})
            ELSE [w[n] EXCEPT !.gear = "post", !.proc = "on", !.seen = @ \cup {exit},
                              !.status = ~w[n].timedOut /\ exit = "ok"]]
  /\ UNCHANGED <<gearman, manager, serving, ended>>

(* runAnsiblePostPlaybook and the result of runJob: after an abort it is   *)
(* null, so that Zuul launches the job again if it needs to, unless the    *)
(* abort came from the watchdog.                                           *)
Verdict(r, post) ==
  IF r.aborted /\ ~r.timedOut THEN "none"
  ELSE IF ~post THEN "POST_FAILURE"
  ELSE IF r.status THEN "SUCCESS" ELSE "FAILURE"

PostExits(n) ==
  /\ w[n].gear = "post"
  /\ \E post \in IF w[n].proc = "killed" THEN {FALSE}
                 ELSE {TRUE, "post failed" \notin Faults} :
       w' = [w EXCEPT ![n] =
         Finished(@, Verdict(@, post),
                  {IF post THEN "post ok" ELSE "post failed"})]
  /\ UNCHANGED <<gearman, manager, serving, ended>>

(* mutant: the build leaves the table before it is reported.               *)
EndJobForgotten(n) ==
  /\ w[n].gear = "finished"
  /\ w' = [w EXCEPT ![n].gear = "reporting", ![n].runningJob = FALSE]
  /\ serving' = [serving EXCEPT ![w[n].build] = NoNode]
  /\ UNCHANGED <<gearman, manager, ended>>

(* The end of launch: no job runs any more...                              *)
EndJob(n) ==
  /\ w[n].gear = "finished"
  /\ w' = [w EXCEPT ![n].gear = "reporting", ![n].runningJob = FALSE]
  /\ UNCHANGED <<gearman, manager, serving, ended>>

(* mutant: stop's wait for the queue comes before the report.              *)
ReportJobAfterStop(n) ==
  /\ w[n].gear = "reporting"
  /\ w[n].running
  /\ Respond(n, WorkDone(w[n].build, w[n].result, w[n].seen))
  /\ serving' = [serving EXCEPT ![w[n].build] = NoNode]
  /\ w' = [w EXCEPT ![n] = Looped([w[n] EXCEPT !.sentComplete = TRUE, !.complete = TRUE])]
  /\ UNCHANGED <<waiting, attached, stops, functions, faults, manager, ended>>

(* ... the client and nodepool are told, and a node that was to go offline *)
(* starts to stop itself.                                                  *)
ReportJob(n) ==
  /\ w[n].gear = "reporting"
  /\ Respond(n, WorkDone(w[n].build, w[n].result, w[n].seen))
  /\ serving' = [serving EXCEPT ![w[n].build] = NoNode]
  /\ LET r == [w[n] EXCEPT !.sentComplete = TRUE, !.complete = TRUE]
     IN w' = [w EXCEPT ![n] =
                IF w[n].build \in Offline /\ r.running
                THEN [r EXCEPT !.gear = "put", !.running = FALSE, !.unpaused = TRUE]
                ELSE Looped(r)]
  /\ UNCHANGED <<waiting, attached, stops, functions, faults, manager, ended>>

(* stop, called locally: the action, and then the wait for the queue.      *)
PutOwnStop(n) ==
  /\ w[n].gear = "put"
  /\ w' = [w EXCEPT ![n].gear = "join", ![n].todo = Append(@, "stop")]
  /\ UNCHANGED <<gearman, manager, serving, ended>>

JoinOwnQueue(n) ==
  /\ w[n].gear = "join" /\ QueueDone(n)
  /\ w' = [w EXCEPT ![n] = Looped(@)]
  /\ UNCHANGED <<gearman, manager, serving, ended>>

GearThread(n) ==
  \/ GearLoop(n) \/ GearRegister(n) \/ GetJob(n) \/ LaunchBuild(n) \/ BeginJob(n)
  \/ PrepareJob(n) \/ StartPlaybook(n) \/ PlaybookExits(n) \/ PostExits(n)
  \/ EndJob(n) \/ ReportJob(n) \/ PutOwnStop(n) \/ JoinOwnQueue(n)

LauncherNext ==
  \/ \E n \in Node :
       \/ AssignNode(n) \/ RevokeNode(n)
       \/ QueueThread(n) \/ GearThread(n) \/ GotJob(n) \/ AnsibleTimeout(n)
  \/ \E b \in Build : StopJob(b)
  \/ Reap \/ Pause \/ Unpause \/ ReleaseNodes \/ ReloadJobs \/ Graceful \/ Stop
  \/ CommandThread
=============================================================================
