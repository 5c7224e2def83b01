--------------------------- MODULE LaunchingProofs ---------------------------
(***************************************************************************)
(* The launcher client keeps its contract with the scheduler, and what the *)
(* scheduler is told of a build is what happened to it, for any builds,    *)
(* jobs, nodes, configurations, commands, bounds and faults.               *)
(***************************************************************************)
EXTENDS Launching, SequenceFacts

(* What is needed of a worker is that it has a build.                      *)
IsWorker(r) == r = [f \in DOMAIN r |-> r[f]] /\ "build" \in DOMAIN r
AreWorkers(ws) == ws = [n \in Node |-> ws[n]] /\ \A n \in Node : IsWorker(ws[n])

-----------------------------------------------------------------------------
(* The inductive invariant.                                                *)

(* A build that was grabbed, or of whose end there is word.                *)
InHand(b) ==
  \/ \E p \in ToSet(packets) : p.kind = "done" /\ p.build = b
  \/ handler.at = "answer" /\ handler.packet.build = b
  \/ \E n \in Node : w[n].build = b

(* A build that only the scheduler's thread knows of.                      *)
Untouched(b) == b \notin waiting \cup attached /\ ~InHand(b)

Shape ==
  /\ AreWorkers(w)
  /\ packets \in Seq(ToSet(packets))
  /\ answers = [b \in Build |-> answers[b]]
  /\ launched \subseteq Build /\ IsFiniteSet(launched)
  /\ table \subseteq launched /\ canceled \subseteq launched /\ metaJobs \subseteq launched

(* Nothing happens to a build before it is launched, ...                   *)
Unasked ==
  \A b \in Build \ launched : answers[b] = <<>> /\ Untouched(b)

(* ... and nobody but the thread that submits it knows of it until then.   *)
Submitting ==
  scheduler.at = "submit" => scheduler.build \in table /\ Untouched(scheduler.build)

(* Only a canceled build is looked for.                                    *)
LookedFor ==
  scheduler.at \in {"lookup", "sleep"} => scheduler.build \in canceled

(* A build that can still be taken out of the queue has no end under way.  *)
QueuedOrInHand == \A b \in Build : InHand(b) => b \notin waiting

(* What is in the table was not answered, and what is being answered is in *)
(* the table.                                                              *)
Outstanding ==
  /\ \A b \in table : answers[b] = <<>>
  /\ handler.at = "answer" => handler.packet.build \in table

LaunchInv ==
  Shape /\ Unasked /\ Submitting /\ LookedFor /\ QueuedOrInHand /\ Outstanding

-----------------------------------------------------------------------------
(* What the steps of the launch server and its workers may do.             *)

WorkersKept ==
  /\ AreWorkers(w')
  /\ \A n \in Node : w'[n].build \in {w[n].build, NoNode}

(* Whoever lets go of a build says so; a build that is grabbed leaves the  *)
(* queue; an end is only reported by the worker that had the build.        *)
LauncherKeeps ==
  /\ attached' = attached /\ waiting' \subseteq waiting
  /\ AreWorkers(w')
  /\ \A n \in Node : w'[n].build \in {w[n].build, NoNode} \cup (waiting \ waiting')
  /\ packets' \in Seq(ToSet(packets'))
  /\ \A p \in ToSet(packets') :
       p.kind = "done" => p \in ToSet(packets) \/ \E n \in Node : p.build = w[n].build

(* A worker in which the build is the same, or the same or gone.           *)
Same(r, s) == IsWorker(s) /\ s.build = r.build
Follows(r, s) == IsWorker(s) /\ s.build \in {r.build, NoNode}

(* Changing one worker.                                                    *)
LEMMA OneWorker ==
  ASSUME AreWorkers(w), NEW n \in Node, NEW r, Follows(w[n], r),
         w' = [w EXCEPT ![n] = r]
  PROVE  WorkersKept
BY DEF AreWorkers, Follows, WorkersKept

(* Telling workers what to do.                                             *)
LEMMA TellKeeps ==
  ASSUME AreWorkers(w), NEW S, NEW actions, w' = Tell(S, actions)
  PROVE  WorkersKept
BY DEF AreWorkers, IsWorker, WorkersKept, Tell

(* Sending a packet.                                                       *)
LEMMA ToClientKeeps ==
  ASSUME packets \in Seq(ToSet(packets)), NEW p, ToClient(p),
         p.kind = "done" => \E n \in Node : p.build = w[n].build
  PROVE  /\ packets' \in Seq(ToSet(packets'))
         /\ \A q \in ToSet(packets') :
              q.kind = "done" => q \in ToSet(packets) \/ \E n \in Node : q.build = w[n].build
<1>1. CASE p.build \in attached
  <2>1. packets' = Append(packets, p)
    BY <1>1 DEF ToClient
  <2> QED BY <2>1, AddedAtTheEnd
<1>2. CASE p.build \notin attached
  BY <1>2 DEF ToClient
<1> QED BY <1>1, <1>2

(* A build worker only, or a packet of one of its own builds.              *)
LEMMA QuietStep ==
  ASSUME Shape, WorkersKept, UNCHANGED <<waiting, attached, packets>>
  PROVE  LauncherKeeps
BY DEF Shape, WorkersKept, LauncherKeeps

(* What the operators on a worker's record do to its build.                *)
LEMMA RecordsFollow ==
  ASSUME NEW r, IsWorker(r)
  PROVE  /\ Same(r, PausedWorker(r)) /\ Same(r, AbortedWorker(r))
         /\ Same(r, Farewell(r)) /\ Same(r, RegisterNow(r)) /\ Follows(r, Looped(r))
         /\ \A result, why : Same(r, Finished(r, result, why))
<1>1. Same(r, PausedWorker(r))
  BY DEF IsWorker, Same, PausedWorker
<1>2. Same(r, AbortedWorker(r))
  BY DEF IsWorker, Same, AbortedWorker
<1>3. Same(r, Farewell(r))
  BY DEF IsWorker, Same, Farewell
<1>4. Same(r, RegisterNow(r))
  BY DEF IsWorker, Same, RegisterNow
<1>5. Follows(r, Looped(r))
  BY DEF IsWorker, Follows, Looped
<1>6. ASSUME NEW result, NEW why PROVE Same(r, Finished(r, result, why))
  BY DEF IsWorker, Same, Finished
<1> QED BY <1>1, <1>2, <1>3, <1>4, <1>5, <1>6

(* A new worker has no build, nor has the record of no worker.             *)
LEMMA NewWorkersFollow ==
  /\ IsWorker(NewWorker) /\ NewWorker.build = NoNode
  /\ IsWorker(NoWorker) /\ NoWorker.build = NoNode
<1>1. NewWorker.build = NoNode
  BY DEF NewWorker
<1>2. "build" \in DOMAIN NewWorker
  BY DEF NewWorker
<1>3. NewWorker = [f \in DOMAIN NewWorker |-> NewWorker[f]]
  BY DEF NewWorker
<1>4. IsWorker(NoWorker) /\ NoWorker.build = NoNode
  BY <1>1, <1>2, <1>3 DEF NoWorker, IsWorker
<1> QED BY <1>1, <1>2, <1>3, <1>4 DEF IsWorker

-----------------------------------------------------------------------------
(* The steps of the launch server.                                         *)

(* What the launch server does, at a request or command.                   *)
LEMMA ServerKeeps ==
  ASSUME Shape,
         \/ \E n \in Node : AssignNode(n) \/ RevokeNode(n)
         \/ \E b \in Build : StopJob(b)
         \/ Reap \/ Pause \/ Unpause \/ ReleaseNodes \/ ReloadJobs \/ Graceful \/ Stop
         \/ CommandThread
  PROVE  LauncherKeeps
<1>1. ASSUME NEW n \in Node, AssignNode(n) PROVE LauncherKeeps
  <2>1. Follows(w[n], NewWorker)
    BY NewWorkersFollow DEF Follows
  <2>2. w' = [w EXCEPT ![n] = NewWorker] /\ UNCHANGED <<waiting, attached, packets>>
    BY <1>1 DEF AssignNode
  <2> QED BY <2>1, <2>2, OneWorker, QuietStep DEF Shape
<1>2. ASSUME NEW n \in Node, RevokeNode(n) PROVE LauncherKeeps
  <2>1. w' = Tell({n} \cap Alive, <<"stop">>) /\ UNCHANGED <<waiting, attached, packets>>
    BY <1>2 DEF RevokeNode, gearman
  <2> QED BY <2>1, TellKeeps, QuietStep DEF Shape
<1>3. ASSUME NEW b \in Build, StopJob(b) PROVE LauncherKeeps
  <2>1. /\ w' = Tell({serving[b]} \cap Alive, <<"abort">>)
        /\ packets' = Append(packets, MetaDone(b, {}))
        /\ UNCHANGED <<waiting, attached>>
    BY <1>3 DEF StopJob
  <2>2. WorkersKept
    BY <2>1, TellKeeps DEF Shape
  <2>3. /\ packets' \in Seq(ToSet(packets'))
        /\ ToSet(packets') \subseteq ToSet(packets) \cup {MetaDone(b, {})}
    BY <2>1, AddedAtTheEnd DEF Shape
  <2>4. MetaDone(b, {}).kind # "done"
    BY DEF MetaDone
  <2> QED BY <2>1, <2>2, <2>3, <2>4 DEF WorkersKept, LauncherKeeps
<1>4. CASE Reap
  <2>1. UNCHANGED <<w, waiting, attached, packets>>
    BY <1>4 DEF Reap, gearman
  <2> QED BY <2>1, QuietStep DEF Shape, WorkersKept
<1>5. CASE Pause \/ Unpause \/ ReleaseNodes \/ ReloadJobs \/ Graceful
  <2>1. /\ \E S, actions : w' = Tell(S, actions)
        /\ UNCHANGED <<waiting, attached, packets>>
    BY <1>5 DEF Pause, Unpause, ReleaseNodes, ReloadJobs, Graceful, gearman
  <2> QED BY <2>1, TellKeeps, QuietStep DEF Shape
<1>6. CASE Stop
  <2>1. UNCHANGED <<w, waiting, attached, packets>>
    BY <1>6 DEF Stop, gearman
  <2> QED BY <2>1, QuietStep DEF Shape, WorkersKept
<1>7. CASE Drained \/ JoinQueue \/ Stopped
  <2>1. UNCHANGED <<w, waiting, attached, packets>>
    BY <1>7 DEF Drained, JoinQueue, Stopped, gearman
  <2> QED BY <2>1, QuietStep DEF Shape, WorkersKept
<1>8. CASE StopNextNode
  <2>1. WorkersKept
    <3>1. PICK n : w' = [w EXCEPT ![n].running = FALSE, ![n].unpaused = TRUE] \/ w' = w
      BY <1>8 DEF StopNextNode
    <3>2. CASE n \in Node /\ w' # w
      BY <3>1, <3>2 DEF Shape, AreWorkers, IsWorker, WorkersKept
    <3>3. CASE n \notin Node \/ w' = w
      <4>1. w' = w
        BY <3>1, <3>3 DEF Shape, AreWorkers
      <4> QED BY <4>1 DEF Shape, AreWorkers, WorkersKept
    <3> QED BY <3>2, <3>3
  <2>2. UNCHANGED <<waiting, attached, packets>>
    BY <1>8 DEF StopNextNode, gearman
  <2> QED BY <2>1, <2>2, QuietStep
<1>9. CASE PutStop
  <2>1. w' = Tell({command.node}, <<"stop">>) /\ UNCHANGED <<waiting, attached, packets>>
    BY <1>9 DEF PutStop, gearman
  <2> QED BY <2>1, TellKeeps, QuietStep DEF Shape
<1> QED
  BY <1>1, <1>2, <1>3, <1>4, <1>5, <1>6, <1>7, <1>8, <1>9 DEF CommandThread

-----------------------------------------------------------------------------
(* The steps of a node worker.                                             *)

(* A step that changes one worker and nothing of the server's.             *)
LEMMA WorkerStep ==
  ASSUME Shape, NEW n \in Node, NEW r, Follows(w[n], r), w' = [w EXCEPT ![n] = r],
         UNCHANGED <<waiting, attached, packets>>
  PROVE  LauncherKeeps
BY OneWorker, QuietStep DEF Shape

(* The same, with a packet of the worker's build.                          *)
LEMMA WorkerSends ==
  ASSUME Shape, NEW n \in Node, NEW r, Follows(w[n], r), w' = [w EXCEPT ![n] = r],
         UNCHANGED <<waiting, attached>>,
         NEW p, p.kind = "done" => p.build = w[n].build,
         ToClient(p) \/ UNCHANGED packets
  PROVE  LauncherKeeps
<1>1. CASE ToClient(p)
  BY <1>1, OneWorker, ToClientKeeps DEF Shape, WorkersKept, LauncherKeeps
<1>2. CASE UNCHANGED packets
  BY <1>2, WorkerStep
<1> QED BY <1>1, <1>2

(* Taking an action out of a worker's queue.                               *)
LEMMA RestIsSame == ASSUME Shape, NEW n \in Node PROVE Same(w[n], Rest(n))
BY DEF Shape, AreWorkers, IsWorker, Same, Rest

(* A worker closes its connection.                                         *)
LEMMA ShutdownKeeps ==
  ASSUME Shape, NEW n \in Node, NEW r, Same(w[n], r), Shutdown(n, r),
         UNCHANGED <<waiting, attached>>
  PROVE  LauncherKeeps
<1> DEFINE s == [r EXCEPT !.connected = FALSE, !.queuer = "check",
                          !.gear = IF @ = "getting" THEN "top" ELSE @]
           p == WorkDone(r.build, "none", {"gone"})
<1>1. Follows(w[n], s)
  BY DEF Same, Follows, IsWorker
<1>2. w' = [w EXCEPT ![n] = s] /\ (ToClient(p) \/ UNCHANGED packets)
  BY DEF Shutdown
<1>3. p.build = w[n].build
  BY DEF Same, WorkDone
<1> HIDE DEF s, p
<1> QED BY <1>1, <1>2, <1>3, WorkerSends

(* Every step of a worker's queue thread.                                  *)
LEMMA QueueThreadKeeps ==
  ASSUME Shape, NEW n \in Node, QueueThread(n)
  PROVE  LauncherKeeps
<1> DEFINE Changes(r) == Same(w[n], r) /\ w' = [w EXCEPT ![n] = r]
           Quiet == UNCHANGED <<waiting, attached, packets>>
<1>0. IsWorker(w[n]) /\ Same(w[n], w[n]) /\ Same(w[n], Rest(n)) /\ IsWorker(Rest(n))
  BY RestIsSame DEF Shape, AreWorkers, Same
<1>a. ASSUME NEW r, Changes(r), Quiet PROVE LauncherKeeps
  <2>1. Follows(w[n], r)
    BY <1>a DEF Same, Follows
  <2> QED BY <1>a, <2>1, WorkerStep
<1>1. CASE QueueLoop(n)
  <2>1. \E r : Changes(r)
    BY <1>1, <1>0 DEF QueueLoop, Same, IsWorker
  <2>2. Quiet
    BY <1>1 DEF QueueLoop, gearman
  <2> QED BY <2>1, <2>2, <1>a
<1>2. CASE TakeStop(n)
  <2> DEFINE r == AbortedWorker([Rest(n) EXCEPT !.running = FALSE])
  <2>1. IsWorker([Rest(n) EXCEPT !.running = FALSE])
        /\ [Rest(n) EXCEPT !.running = FALSE].build = w[n].build
    BY <1>0 DEF Same, IsWorker
  <2>2. Same(w[n], r)
    BY <2>1, RecordsFollow DEF Same
  <2>3. Same(w[n], Farewell(r))
    BY <2>2, RecordsFollow DEF Same
  <2> HIDE DEF r
  <2>4. CASE CanKill(r)
    <3>1. w' = [w EXCEPT ![n] = [r EXCEPT !.queuer = "stopping"]] /\ Quiet
      BY <1>2, <2>4 DEF TakeStop, r
    <3>2. Same(w[n], [r EXCEPT !.queuer = "stopping"])
      BY <2>2 DEF Same, IsWorker
    <3> QED BY <3>1, <3>2, <1>a
  <2>5. CASE ~CanKill(r)
    <3>1. Shutdown(n, Farewell(r)) /\ UNCHANGED <<waiting, attached>>
      BY <1>2, <2>5 DEF TakeStop, r
    <3> QED BY <3>1, <2>3, ShutdownKeeps
  <2> QED BY <2>4, <2>5
<1>3. CASE StopWaited(n)
  BY <1>3, <1>0, ShutdownKeeps DEF StopWaited
<1>4. CASE TakePause(n)
  <2>1. Changes(PausedWorker(Rest(n))) /\ Quiet
    BY <1>4, <1>0, RecordsFollow DEF TakePause, gearman, Same
  <2> QED BY <2>1, <1>a
<1>5. CASE TakeUnpause(n)
  <2>1. Changes([Rest(n) EXCEPT !.unpaused = TRUE]) /\ Quiet
    BY <1>5, <1>0 DEF TakeUnpause, gearman, Same, IsWorker
  <2> QED BY <2>1, <1>a
<1>6. CASE TakeRelease(n)
  <2> DEFINE r == IF w[n].unpaused THEN PausedWorker(Rest(n)) ELSE Rest(n)
  <2>1. Same(w[n], r)
    BY <1>0, RecordsFollow DEF Same
  <2>2. w' = [w EXCEPT ![n] = [r EXCEPT !.queuer = "releasing", !.wasUnpaused = w[n].unpaused]]
    BY <1>6 DEF TakeRelease
  <2>3. Quiet
    BY <1>6 DEF TakeRelease, gearman
  <2> HIDE DEF r
  <2>4. Changes([r EXCEPT !.queuer = "releasing", !.wasUnpaused = w[n].unpaused])
    BY <2>1, <2>2 DEF Same, IsWorker
  <2> QED BY <2>3, <2>4, <1>a
<1>7. CASE ReleaseLocked(n)
  <2>1. \E r : Changes(r)
    BY <1>7, <1>0 DEF ReleaseLocked, Same, IsWorker
  <2>2. Quiet
    BY <1>7 DEF ReleaseLocked, gearman
  <2> QED BY <2>1, <2>2, <1>a
<1>8. CASE TakeReconfigure(n)
  <2>1. Changes(RegisterNow(Rest(n))) \/ \E v : Changes([Rest(n) EXCEPT !.pending = v])
    BY <1>8, <1>0, RecordsFollow DEF TakeReconfigure, Same, IsWorker
  <2>2. Quiet
    BY <1>8 DEF TakeReconfigure, server
  <2> QED BY <2>1, <2>2, <1>a
<1>9. CASE TakeAbort(n)
  <2>1. Changes(AbortedWorker(Rest(n))) /\ Quiet
    BY <1>9, <1>0, RecordsFollow DEF TakeAbort, gearman, Same
  <2> QED BY <2>1, <1>a
<1> QED
  BY <1>1, <1>2, <1>3, <1>4, <1>5, <1>6, <1>7, <1>8, <1>9 DEF QueueThread

(* Every step of a worker's Gearman thread and watchdog.                   *)
LEMMA GearThreadKeeps ==
  ASSUME Shape, NEW n \in Node, GearThread(n) \/ AnsibleTimeout(n)
  PROVE  LauncherKeeps
<1> DEFINE Changes(r) == Follows(w[n], r) /\ w' = [w EXCEPT ![n] = r]
           Quiet == UNCHANGED <<waiting, attached, packets>>
<1>0. IsWorker(w[n])
  BY DEF Shape, AreWorkers
<1>a. ASSUME NEW r, Changes(r), Quiet PROVE LauncherKeeps
  BY <1>a, WorkerStep
<1>b. ASSUME NEW r, Changes(r), NEW p, p.build = w[n].build, ToClient(p) \/ UNCHANGED packets,
             UNCHANGED <<waiting, attached>>
      PROVE  LauncherKeeps
  BY <1>b, WorkerSends
<1>c. \A result, why : Follows(w[n], Finished(w[n], result, why))
  BY <1>0, RecordsFollow DEF Same, Follows
<1>1. CASE GearLoop(n)
  <2>1. \E r : Changes(r)
    BY <1>1, <1>0 DEF GearLoop, Follows, IsWorker
  <2> QED BY <1>1, <2>1, <1>a DEF GearLoop, gearman
<1>2. CASE GearRegister(n)
  <2> DEFINE r == RegisterNow(w[n])
  <2>1. Same(w[n], r)
    BY <1>0, RecordsFollow
  <2>2. w' = [w EXCEPT ![n] = [r EXCEPT !.gear = "ready"]]
    BY <1>2 DEF GearRegister
  <2> HIDE DEF r
  <2>3. Changes([r EXCEPT !.gear = "ready"])
    BY <2>1, <2>2 DEF Same, Follows, IsWorker
  <2> QED BY <1>2, <2>3, <1>a DEF GearRegister, server
<1>3. CASE GetJob(n)
  <2>1. \E r : Changes(r)
    BY <1>3, <1>0 DEF GetJob, Follows, IsWorker
  <2> QED BY <1>3, <2>1, <1>a DEF GetJob, gearman
<1>4. CASE LaunchBuild(n)
  <2>1. (\E r : Changes(r)) \/ Changes(Looped(w[n]))
    <3>1. \/ \E v : w' = [w EXCEPT ![n] = [w[n] EXCEPT !.gear = "launching", !.sentComplete = FALSE,
                                                    !.aborted = FALSE, !.seen = v]]
          \/ w' = [w EXCEPT ![n] = Looped(w[n])]
      BY <1>4 DEF LaunchBuild
    <3>2. \A v : Follows(w[n], [w[n] EXCEPT !.gear = "launching", !.sentComplete = FALSE,
                                            !.aborted = FALSE, !.seen = v])
      BY <1>0 DEF Follows, IsWorker
    <3> QED BY <1>0, <3>1, <3>2, RecordsFollow
  <2>2. WorkDone(w[n].build, "none", {"unknown"}).build = w[n].build
    BY DEF WorkDone
  <2>3. /\ ToClient(WorkDone(w[n].build, "none", {"unknown"})) \/ UNCHANGED packets
        /\ UNCHANGED <<waiting, attached>>
    BY <1>4 DEF LaunchBuild, Respond
  <2> QED BY <2>1, <2>2, <2>3, <1>b
<1>5. CASE BeginJob(n)
  <2>1. (\E r : Changes(r)) \/ Changes(Finished(w[n], "none", {"stopped"}))
    <3> DEFINE r == [w[n] EXCEPT !.gear = "prepare", !.runningJob = TRUE, !.complete = FALSE]
    <3>1. w' = [w EXCEPT ![n] = r] \/ w' = [w EXCEPT ![n] = Finished(w[n], "none", {"stopped"})]
      BY <1>5 DEF BeginJob
    <3>2. Follows(w[n], r)
      BY <1>0 DEF Follows, IsWorker
    <3> QED BY <3>1, <3>2, <1>c
  <2> QED BY <1>5, <2>1, <1>a DEF BeginJob, gearman
<1>6. CASE PrepareJob(n)
  <2>1. (\E r : Changes(r)) \/ Changes(Finished(w[n], "none", {"error"}))
    <3> DEFINE r == [w[n] EXCEPT !.gear = "starting"]
    <3>1. w' = [w EXCEPT ![n] = r] \/ w' = [w EXCEPT ![n] = Finished(w[n], "none", {"error"})]
      BY <1>6 DEF PrepareJob
    <3>2. Follows(w[n], r)
      BY <1>0 DEF Follows, IsWorker
    <3> QED BY <3>1, <3>2, <1>c
  <2>2. WorkData(w[n].build).build = w[n].build
    BY DEF WorkData
  <2>3. (ToClient(WorkData(w[n].build)) \/ UNCHANGED packets) /\ UNCHANGED <<waiting, attached>>
    BY <1>6 DEF PrepareJob
  <2> QED BY <2>1, <2>2, <2>3, <1>b
<1>7. CASE StartPlaybook(n)
  <2>1. \E r : Changes(r)
    BY <1>7, <1>0 DEF StartPlaybook, Follows, IsWorker
  <2> QED BY <1>7, <2>1, <1>a DEF StartPlaybook, gearman
<1>8. CASE AnsibleTimeout(n)
  <2>1. PICK v : w' = [w EXCEPT ![n] = [w[n] EXCEPT !.timedOut = TRUE, !.proc = "killed",
                                                   !.seen = v]]
    BY <1>8 DEF AnsibleTimeout
  <2>2. Changes([w[n] EXCEPT !.timedOut = TRUE, !.proc = "killed", !.seen = v])
    BY <1>0, <2>1 DEF Follows, IsWorker
  <2> QED BY <1>8, <2>2, <1>a DEF AnsibleTimeout
<1>9. CASE PlaybookExits(n)
  <2>1. (\E r : Changes(r)) \/ \E exit : Changes(Finished(w[n], "none", {exit}))
    <3>1. \/ \E exit : w' = [w EXCEPT ![n] = Finished(w[n], "none", {exit})]
          \/ \E v, s : w' = [w EXCEPT ![n] = [w[n] EXCEPT !.gear = "post", !.proc = "on",
                                                         !.seen = v, !.status = s]]
      BY <1>9 DEF PlaybookExits
    <3>2. \A v, s : Follows(w[n], [w[n] EXCEPT !.gear = "post", !.proc = "on",
                                               !.seen = v, !.status = s])
      BY <1>0 DEF Follows, IsWorker
    <3> QED BY <3>1, <3>2, <1>c
  <2> QED BY <1>9, <2>1, <1>a DEF PlaybookExits, gearman
<1>10. CASE PostExits(n)
  <2>1. \E result, why : w' = [w EXCEPT ![n] = Finished(w[n], result, why)]
    BY <1>10 DEF PostExits
  <2>2. \E r : Changes(r)
    BY <2>1, <1>c
  <2> QED BY <1>10, <2>2, <1>a DEF PostExits, gearman
<1>11. CASE EndJob(n)
  <2>1. \E r : Changes(r)
    BY <1>11, <1>0 DEF EndJob, Follows, IsWorker
  <2> QED BY <1>11, <2>1, <1>a DEF EndJob, gearman
<1>12. CASE ReportJob(n)
  <2> DEFINE r == [w[n] EXCEPT !.sentComplete = TRUE, !.complete = TRUE]
             p == WorkDone(w[n].build, w[n].result, w[n].seen)
  <2>1. Same(w[n], r)
    BY <1>0 DEF Same, IsWorker
  <2>2. w' = [w EXCEPT ![n] = Looped(r)]
        \/ w' = [w EXCEPT ![n] = [r EXCEPT !.gear = "put", !.running = FALSE, !.unpaused = TRUE]]
    BY <1>12 DEF ReportJob
  <2>3. p.build = w[n].build
    BY DEF WorkDone
  <2>4. (ToClient(p) \/ UNCHANGED packets) /\ UNCHANGED <<waiting, attached>>
    BY <1>12 DEF ReportJob, Respond
  <2> HIDE DEF r, p
  <2>5. /\ Follows(w[n], Looped(r))
        /\ Follows(w[n], [r EXCEPT !.gear = "put", !.running = FALSE, !.unpaused = TRUE])
    BY <2>1, RecordsFollow DEF Same, Follows, IsWorker
  <2>6. \E s : Changes(s)
    BY <2>2, <2>5
  <2> QED BY <2>3, <2>4, <2>6, <1>b
<1>13. CASE PutOwnStop(n)
  <2>1. \E r : Changes(r)
    BY <1>13, <1>0 DEF PutOwnStop, Follows, IsWorker
  <2> QED BY <1>13, <2>1, <1>a DEF PutOwnStop, gearman
<1>14. CASE JoinOwnQueue(n)
  <2>1. Changes(Looped(w[n]))
    BY <1>14, <1>0, RecordsFollow DEF JoinOwnQueue
  <2> QED BY <1>14, <2>1, <1>a DEF JoinOwnQueue, gearman
<1> QED
  BY <1>1, <1>2, <1>3, <1>4, <1>5, <1>6, <1>7, <1>8, <1>9, <1>10, <1>11, <1>12, <1>13, <1>14
  DEF GearThread

(* The Gearman server hands out a job.                                     *)
LEMMA GotJobKeeps ==
  ASSUME Shape, NEW n \in Node, GotJob(n)
  PROVE  LauncherKeeps
<1>1. PICK b \in waiting :
        /\ waiting' = waiting \ {b}
        /\ w' = [w EXCEPT ![n].gear = "got", ![n].build = b, ![n].gotJob = TRUE]
  BY DEF GotJob
<1>2. AreWorkers(w') /\ \A m \in Node : w'[m].build \in {w[m].build, b}
  BY <1>1 DEF Shape, AreWorkers, IsWorker
<1>3. UNCHANGED <<attached, packets>>
  BY DEF GotJob
<1>4. waiting' \subseteq waiting /\ b \in waiting \ waiting'
  BY <1>1
<1>5. \A m \in Node : w'[m].build \in {w[m].build, NoNode} \cup (waiting \ waiting')
  BY <1>2, <1>4
<1>6. packets' \in Seq(ToSet(packets')) /\ ToSet(packets') = ToSet(packets)
  BY <1>3 DEF Shape
<1> QED BY <1>2, <1>3, <1>4, <1>5, <1>6 DEF LauncherKeeps

(* Every step of the launch server and its workers.                        *)
LEMMA LauncherNextKeeps == ASSUME Shape, LauncherNext PROVE LauncherKeeps
BY ServerKeeps, QueueThreadKeeps, GearThreadKeeps, GotJobKeeps DEF LauncherNext

-----------------------------------------------------------------------------
(* The invariant.                                                          *)

(* Nothing was launched and no worker has a build.                         *)
LEMMA InitLaunchInv == Init => LaunchInv
<1> SUFFICES ASSUME Init PROVE LaunchInv
  OBVIOUS
<1> USE DEF Init, GearmanInit, ClientInit, LauncherInit, Free
<1>1. AreWorkers(w) /\ \A n \in Node : w[n].build = NoNode
  BY NewWorkersFollow DEF AreWorkers
<1>2. packets \in Seq(ToSet(packets)) /\ ToSet(packets) = {}
  BY DEF ToSet
<1>3. IsFiniteSet(launched)
  BY FS_EmptySet
<1>4. \A b \in Build : ~InHand(b)
  BY <1>1, <1>2, GearmanAssumption DEF InHand
<1>5. Shape
  BY <1>1, <1>2, <1>3 DEF Shape
<1>6. Unasked /\ QueuedOrInHand
  BY <1>4 DEF Unasked, QueuedOrInHand, Untouched
<1>7. Submitting /\ LookedFor /\ Outstanding
  BY DEF Submitting, LookedFor, Outstanding
<1> QED BY <1>5, <1>6, <1>7 DEF LaunchInv

(* The steps of the launch server.                                         *)
LEMMA LauncherKeepsInv ==
  ASSUME LaunchInv, LauncherNext, UNCHANGED client
  PROVE  LaunchInv'
<1>1. LauncherKeeps
  BY LauncherNextKeeps DEF LaunchInv
<1>2. \A b \in Build : InHand(b)' => InHand(b) \/ b \in waiting \ waiting'
  BY <1>1, GearmanAssumption DEF LauncherKeeps, InHand, client
<1>3. \A b \in Build : Untouched(b) => Untouched(b)'
  BY <1>1, <1>2 DEF LauncherKeeps, Untouched
<1>4. Shape'
  BY <1>1 DEF LaunchInv, Shape, LauncherKeeps, client
<1>5. Unasked'
  BY <1>3 DEF LaunchInv, Unasked, client
<1>6. Submitting' /\ LookedFor'
  BY <1>3 DEF LaunchInv, Shape, Submitting, LookedFor, client
<1>7. QueuedOrInHand'
  BY <1>1, <1>2 DEF LaunchInv, QueuedOrInHand, LauncherKeeps
<1>8. Outstanding'
  BY DEF LaunchInv, Outstanding, client
<1> QED BY <1>4, <1>5, <1>6, <1>7, <1>8 DEF LaunchInv

-----------------------------------------------------------------------------
(* The steps of the launcher client.                                       *)

(* The scheduler launches a build.                                         *)
LEMMA LaunchKeepsInv ==
  ASSUME LaunchInv, NEW b \in Build, Launch(b), UNCHANGED launcher
  PROVE  LaunchInv'
<1>1. /\ scheduler = Free /\ b \notin launched /\ launched' = launched \cup {b}
      /\ UNCHANGED <<waiting, attached, packets, metaJobs, canceled, handler, w>>
  BY DEF Launch, gearman, launcher
<1>2. answers[b] = <<>> /\ Untouched(b)
  BY <1>1 DEF LaunchInv, Unasked
<1>3. \A c \in Build : (InHand(c)' <=> InHand(c)) /\ (Untouched(c)' <=> Untouched(c))
  BY <1>1 DEF InHand, Untouched
<1>4. IsFiniteSet(launched')
  BY <1>1, FS_AddElement DEF LaunchInv, Shape
<1>5. /\ answers' = [c \in Build |-> answers'[c]]
      /\ \A c \in Build : c # b => answers'[c] = answers[c]
      /\ \/ answers' = answers /\ table' = table \cup {b}
            /\ scheduler' = [at |-> "submit", build |-> b]
         \/ UNCHANGED <<table, scheduler>>
  BY DEF Launch, Answer, LaunchInv, Shape
<1>6. Shape'
  BY <1>1, <1>4, <1>5 DEF LaunchInv, Shape
<1>7. Unasked'
  BY <1>1, <1>3, <1>5 DEF LaunchInv, Unasked
<1>8. Submitting' /\ LookedFor'
  BY <1>1, <1>2, <1>3, <1>5 DEF Submitting, LookedFor, Free
<1>9. QueuedOrInHand'
  BY <1>1, <1>3 DEF LaunchInv, QueuedOrInHand
<1>10. Outstanding'
  BY <1>1, <1>2, <1>5 DEF LaunchInv, Shape, Outstanding
<1> QED BY <1>6, <1>7, <1>8, <1>9, <1>10 DEF LaunchInv

(* A job is submitted, or the submission fails.                            *)
LEMMA SubmitKeepsInv ==
  ASSUME LaunchInv, Submit, UNCHANGED launcher
  PROVE  LaunchInv'
<1> DEFINE b == scheduler.build
<1>1. b \in table /\ b \in launched /\ b \in Build /\ Untouched(b)
  BY DEF Submit, LaunchInv, Submitting, Shape
<1>2. /\ scheduler' = Free
      /\ UNCHANGED <<packets, launched, metaJobs, canceled, handler, w>>
  BY DEF Submit, launcher
<1>3. /\ waiting' \subseteq waiting \cup {b} /\ attached' \subseteq attached \cup {b}
      /\ \/ UNCHANGED <<table, answers>>
         \/ /\ table' = table \ {b}
            /\ \E r, seen : answers' = [answers EXCEPT ![b] = Append(@, [result |-> r, seen |-> seen])]
  BY DEF Submit, Answer
<1> HIDE DEF b
<1>4. \A c \in Build : InHand(c)' <=> InHand(c)
  BY <1>2 DEF InHand
<1>5. Shape'
  BY <1>2, <1>3 DEF LaunchInv, Shape
<1>6. Unasked'
  BY <1>1, <1>2, <1>3, <1>4 DEF LaunchInv, Shape, Unasked, Untouched
<1>7. Submitting' /\ LookedFor'
  BY <1>2 DEF Submitting, LookedFor, Free
<1>8. QueuedOrInHand'
  BY <1>1, <1>3, <1>4 DEF LaunchInv, QueuedOrInHand, Untouched
<1>9. Outstanding'
  BY <1>1, <1>2, <1>3 DEF LaunchInv, Shape, Outstanding, Untouched, InHand
<1> QED BY <1>5, <1>6, <1>7, <1>8, <1>9 DEF LaunchInv

(* Canceling, looking for the build in the queue, and looking again.       *)
LEMMA CancelKeepsInv ==
  ASSUME LaunchInv, (\E b \in Build : Cancel(b)) \/ CancelAgain, UNCHANGED launcher
  PROVE  LaunchInv'
<1>1. UNCHANGED <<waiting, attached, packets, launched, table, answers, handler, w>>
  BY DEF Cancel, CancelAgain, launcher
<1>2. /\ canceled \subseteq canceled' /\ canceled' \subseteq launched
      /\ metaJobs' \subseteq launched
      /\ scheduler'.at # "submit"
      /\ scheduler'.at \in {"lookup", "sleep"} => scheduler'.build \in canceled'
  <2>1. CASE CancelAgain
    BY <2>1 DEF CancelAgain, CancelRunningBuild, LaunchInv, Shape, LookedFor, Free
  <2>2. CASE \E b \in Build : Cancel(b)
    BY <2>2 DEF Cancel, CancelRunningBuild, LaunchInv, Shape, LookedFor, Free
  <2> QED BY <2>1, <2>2
<1>3. \A b \in Build : (InHand(b)' <=> InHand(b)) /\ (Untouched(b)' <=> Untouched(b))
  BY <1>1 DEF InHand, Untouched
<1>4. Shape'
  BY <1>1, <1>2 DEF LaunchInv, Shape
<1>5. Unasked' /\ QueuedOrInHand' /\ Outstanding'
  BY <1>1, <1>3 DEF LaunchInv, Unasked, QueuedOrInHand, Outstanding
<1>6. Submitting' /\ LookedFor'
  BY <1>2 DEF Submitting, LookedFor
<1> QED BY <1>4, <1>5, <1>6 DEF LaunchInv

(* A canceled build is taken out of the queue.                             *)
LEMMA CancelJobInQueueKeepsInv ==
  ASSUME LaunchInv, CancelJobInQueue, UNCHANGED launcher
  PROVE  LaunchInv'
<1> DEFINE b == scheduler.build
<1>1. /\ b \in canceled /\ b \in launched /\ b \in Build
      /\ UNCHANGED <<attached, packets, launched, metaJobs, canceled, answers, handler, w>>
  BY DEF CancelJobInQueue, launcher, LaunchInv, LookedFor, Shape
<1>2. /\ \/ b \in waiting /\ waiting' = waiting \ {b} /\ table' = table \ {b}
         \/ UNCHANGED <<waiting, table>>
      /\ scheduler' = Free \/ scheduler' = [at |-> "sleep", build |-> b]
  BY DEF CancelJobInQueue
<1> HIDE DEF b
<1>3. \A c \in Build : (InHand(c)' <=> InHand(c)) /\ (Untouched(c) => Untouched(c)')
  BY <1>1, <1>2 DEF InHand, Untouched
<1>4. Shape'
  BY <1>1, <1>2 DEF LaunchInv, Shape
<1>5. Unasked' /\ QueuedOrInHand'
  BY <1>1, <1>2, <1>3 DEF LaunchInv, Unasked, QueuedOrInHand
<1>6. Outstanding'
  BY <1>1, <1>2 DEF LaunchInv, Shape, Outstanding, QueuedOrInHand, InHand
<1>7. Submitting' /\ LookedFor'
  BY <1>1, <1>2 DEF Submitting, LookedFor, Free
<1> QED BY <1>4, <1>5, <1>6, <1>7 DEF LaunchInv

(* A step of the client's thread that takes a packet and makes no build of *)
(* it known to anybody who did not know it.                                *)
LEMMA PacketTakenKeepsInv ==
  ASSUME LaunchInv, OnWorkStatus \/ OnMetaJobCompleted \/ OnBuildCompleted,
         UNCHANGED launcher
  PROVE  LaunchInv'
<1>1. /\ packets # <<>> /\ handler = Free /\ packets' = Tail(packets)
      /\ UNCHANGED <<waiting, attached, launched, canceled, answers, scheduler, w>>
  BY DEF OnWorkStatus, OnMetaJobCompleted, OnBuildCompleted, Received, launcher
<1>2. /\ packets' \in Seq(ToSet(packets')) /\ ToSet(packets') \subseteq ToSet(packets)
      /\ Head(packets) \in ToSet(packets)
  BY <1>1, TakenFromTheFront DEF LaunchInv, Shape
<1>3. /\ table' \subseteq table /\ metaJobs' \subseteq metaJobs
      /\ \A b \in table \ table' : InHand(b)
      /\ \/ handler' = handler /\ handler'.at = "idle"
         \/ /\ handler' = [at |-> "answer", packet |-> Head(packets)]
            /\ Head(packets).kind = "done" /\ Head(packets).build \in table'
  BY <1>1, <1>2 DEF OnWorkStatus, OnMetaJobCompleted, OnBuildCompleted, InHand, Free
<1>4. \A b \in Build : (InHand(b)' => InHand(b)) /\ (Untouched(b) => Untouched(b)')
  BY <1>1, <1>2, <1>3 DEF InHand, Untouched
<1>5. Shape'
  BY <1>1, <1>2, <1>3 DEF LaunchInv, Shape
<1>6. Unasked' /\ QueuedOrInHand' /\ LookedFor'
  BY <1>1, <1>4 DEF LaunchInv, Unasked, QueuedOrInHand, LookedFor
<1>7. Submitting'
  BY <1>1, <1>3, <1>4 DEF LaunchInv, Shape, Submitting, Untouched
<1>8. Outstanding'
  BY <1>1, <1>3 DEF LaunchInv, Outstanding
<1> QED BY <1>5, <1>6, <1>7, <1>8 DEF LaunchInv

(* The scheduler is told.                                                  *)
LEMMA TellSchedulerKeepsInv ==
  ASSUME LaunchInv, TellScheduler, UNCHANGED launcher
  PROVE  LaunchInv'
<1> DEFINE b == handler.packet.build
<1>1. /\ b \in table /\ b \in launched /\ b \in Build /\ InHand(b)
      /\ handler' = Free /\ table' = table \ {b}
      /\ UNCHANGED <<waiting, attached, packets, launched, metaJobs, canceled, scheduler, w>>
  BY DEF TellScheduler, gearman, launcher, LaunchInv, Outstanding, Shape, InHand
<1>2. /\ answers' = [c \in Build |-> answers'[c]]
      /\ \A c \in Build : c # b => answers'[c] = answers[c]
  BY DEF TellScheduler, Answer, LaunchInv, Shape
<1> HIDE DEF b
<1>3. \A c \in Build : (InHand(c)' => InHand(c)) /\ (Untouched(c) => Untouched(c)')
  BY <1>1 DEF InHand, Untouched, Free
<1>4. Shape'
  BY <1>1, <1>2 DEF LaunchInv, Shape
<1>5. Unasked' /\ QueuedOrInHand' /\ LookedFor'
  BY <1>1, <1>2, <1>3 DEF LaunchInv, Unasked, QueuedOrInHand, LookedFor
<1>6. Submitting'
  BY <1>1, <1>3 DEF LaunchInv, Shape, Submitting, Untouched
<1>7. Outstanding'
  BY <1>1, <1>2 DEF LaunchInv, Shape, Outstanding, Free
<1> QED BY <1>4, <1>5, <1>6, <1>7 DEF LaunchInv

(* The values of a function on a finite set.                               *)
LEMMA FiniteImage ==
  ASSUME NEW S, IsFiniteSet(S), NEW F, F = [x \in S |-> F[x]]
  PROVE  IsFiniteSet({F[x] : x \in S})
<1>1. F \in Surjection(S, {F[x] : x \in S})
  BY DEF Surjection
<1> QED BY <1>1, FS_Surjection

(* What the client makes of a lost connection: packets of the builds the   *)
(* connection knew, and of meta jobs.                                      *)
LEMMA LostPackets ==
  ASSUME LaunchInv, OnDisconnect
  PROVE  /\ packets' \in Seq(ToSet(packets'))
         /\ ToSet(packets') \subseteq {WorkDone(b, "none", {"lost"}) : b \in attached \cap table}
                                   \cup {MetaDone(b, {"lost"}) : b \in metaJobs}
         /\ \A b \in attached \cap table : WorkDone(b, "none", {"lost"}) \in ToSet(packets')
<1> DEFINE L == attached \cap table
           Lost == [b \in L |-> WorkDone(b, "none", {"lost"})]
           Meta == [b \in metaJobs |-> MetaDone(b, {"lost"})]
           S == {Lost[b] : b \in L} \cup {Meta[b] : b \in metaJobs}
<1>1. packets' = SetToSeq(S)
  BY DEF OnDisconnect
<1>2. IsFiniteSet(L) /\ IsFiniteSet(metaJobs)
  BY FS_Subset DEF LaunchInv, Shape
<1>3. IsFiniteSet({Lost[b] : b \in L})
  <2>1. Lost = [b \in L |-> Lost[b]]
    OBVIOUS
  <2> HIDE DEF Lost, L
  <2> QED BY <1>2, <2>1, FiniteImage
<1>4. IsFiniteSet({Meta[b] : b \in metaJobs})
  <2>1. Meta = [b \in metaJobs |-> Meta[b]]
    OBVIOUS
  <2> HIDE DEF Meta
  <2> QED BY <1>2, <2>1, FiniteImage
<1>5. IsFiniteSet(S)
  <2> HIDE DEF Lost, Meta, L
  <2> QED BY <1>3, <1>4, FS_Union
<1>6. S \subseteq {WorkDone(b, "none", {"lost"}) : b \in attached \cap table}
                \cup {MetaDone(b, {"lost"}) : b \in metaJobs}
  OBVIOUS
<1>7. \A b \in L : WorkDone(b, "none", {"lost"}) \in S
  OBVIOUS
<1> HIDE DEF S
<1> QED BY <1>1, <1>5, <1>6, <1>7, FiniteSetInOrder, AllInOrder

(* The connection is lost.                                                 *)
LEMMA DisconnectKeepsInv ==
  ASSUME LaunchInv, OnDisconnect, UNCHANGED launcher
  PROVE  LaunchInv'
<1>1. /\ waiting' = waiting \ attached /\ attached' = {}
      /\ UNCHANGED <<launched, table, metaJobs, canceled, scheduler, handler, answers, w>>
  BY DEF OnDisconnect, launcher
<1>2. /\ packets' \in Seq(ToSet(packets'))
      /\ \A p \in ToSet(packets') : p.kind = "done" => p.build \in attached
  BY LostPackets DEF WorkDone, MetaDone
<1>3. \A b \in Build : InHand(b)' => InHand(b) \/ b \in attached
  BY <1>1, <1>2 DEF InHand
<1>4. \A b \in Build : Untouched(b) => Untouched(b)'
  BY <1>1, <1>3 DEF Untouched
<1>5. Shape'
  BY <1>1, <1>2 DEF LaunchInv, Shape
<1>6. Unasked' /\ LookedFor' /\ Outstanding'
  BY <1>1, <1>4 DEF LaunchInv, Unasked, LookedFor, Outstanding
<1>7. Submitting'
  BY <1>1, <1>4 DEF LaunchInv, Shape, Submitting
<1>8. QueuedOrInHand'
  BY <1>1, <1>3 DEF LaunchInv, QueuedOrInHand
<1> QED BY <1>5, <1>6, <1>7, <1>8 DEF LaunchInv

(* Every step of the two programs and the Gearman server.                  *)
LEMMA NextLaunchInv == LaunchInv /\ [Next]_vars => LaunchInv'
<1> SUFFICES ASSUME LaunchInv, [Next]_vars PROVE LaunchInv'
  OBVIOUS
<1>1. CASE LauncherNext /\ UNCHANGED client
  BY <1>1, LauncherKeepsInv
<1>2. CASE ClientNext /\ UNCHANGED launcher
  BY <1>2, LaunchKeepsInv, SubmitKeepsInv, CancelKeepsInv, CancelJobInQueueKeepsInv,
     PacketTakenKeepsInv, TellSchedulerKeepsInv, DisconnectKeepsInv
  DEF ClientNext, SchedulerThread, ClientThread
<1>3. CASE UNCHANGED vars
  BY <1>3 DEF vars, gearman, client, launcher, LaunchInv, Shape, Unasked, Submitting,
     LookedFor, QueuedOrInHand, Outstanding, Untouched, InHand
<1> QED BY <1>1, <1>2, <1>3 DEF Next

(* In every reachable state of the launcher client, the Gearman server and *)
(* the launch server, a build in Gearman.builds was not answered yet, one  *)
(* that is looked for in the queue was canceled, and one that can still be *)
(* taken out of the queue has no end under way: what the unlocked removals *)
(* of gearman.py (launch, cancelJobInQueue, onBuildCompleted) rely on.     *)
THEOREM LaunchInvariance == Spec => []LaunchInv
<1> QED BY InitLaunchInv, NextLaunchInv, PTL DEF Spec

-----------------------------------------------------------------------------
(* The contract.                                                           *)

Told == [b \in Build |-> Len(answers[b])]

(* Nothing was asked, and nothing was told.                                *)
LEMMA InitContract == Init => Contract!Init
BY DEF Init, ClientInit, Contract!Init

(* A build is answered for the first time.                                 *)
LEMMA Answered ==
  ASSUME LaunchInv, NEW b \in Build, answers[b] = <<>>, NEW r, NEW seen, Answer(b, r, seen)
  PROVE  Told' = [Told EXCEPT ![b] = 1]
<1>1. /\ answers'[b] = Append(<<>>, [result |-> r, seen |-> seen])
      /\ \A c \in Build : c # b => answers'[c] = answers[c]
  BY DEF Answer, LaunchInv, Shape
<1>2. Len(answers'[b]) = 1
  BY <1>1
<1> QED BY <1>1, <1>2 DEF Told

(* Each step of the client's threads is a step of the contract.            *)
LEMMA ClientKeepsContract ==
  ASSUME LaunchInv, ClientNext
  PROVE  [Contract!Next]_(Contract!vars)
<1> DEFINE Same4 == UNCHANGED <<launched, table, canceled, answers>>
<1>a. ASSUME Same4 PROVE UNCHANGED Contract!vars
  BY <1>a DEF Contract!vars
<1>1. ASSUME NEW b \in Build, Launch(b) PROVE Contract!Ask(b) \/ Contract!Refuse(b)
  <2>1. b \notin launched /\ launched' = launched \cup {b} /\ UNCHANGED canceled
    BY <1>1 DEF Launch
  <2>2. \/ table' = table \cup {b} /\ UNCHANGED answers
        \/ UNCHANGED table /\ \E r, seen : Answer(b, r, seen)
    BY <1>1 DEF Launch
  <2>3. CASE table' = table \cup {b} /\ UNCHANGED answers
    BY <2>1, <2>3 DEF Contract!Ask
  <2>4. CASE UNCHANGED table /\ \E r, seen : Answer(b, r, seen)
    <3>1. answers[b] = <<>>
      BY <2>1 DEF LaunchInv, Unasked
    <3>2. Told' = [Told EXCEPT ![b] = 1]
      BY <2>4, <3>1, Answered
    <3> QED BY <2>1, <2>4, <3>2 DEF Contract!Refuse, Told
  <2> QED BY <2>2, <2>3, <2>4
<1>2. ASSUME NEW b \in table, table' = table \ {b}, UNCHANGED <<launched, canceled>>,
             NEW r, NEW seen, Answer(b, r, seen)
      PROVE  b \in Build /\ Contract!Tell(b)
  <2>1. b \in Build /\ answers[b] = <<>>
    BY <1>2 DEF LaunchInv, Shape, Outstanding
  <2>2. Told' = [Told EXCEPT ![b] = 1]
    BY <1>2, <2>1, Answered
  <2> QED BY <1>2, <2>1, <2>2 DEF Contract!Tell, Told
<1>3. ASSUME NEW b, table' = table \ {b}, b \in table => b \in canceled,
             UNCHANGED <<launched, canceled, answers>>
      PROVE  (b \in Build /\ Contract!Forget(b)) \/ UNCHANGED Contract!vars
  <2>1. CASE b \in table
    <3>1. b \in Build
      BY <2>1 DEF LaunchInv, Shape
    <3> QED BY <1>3, <2>1, <3>1 DEF Contract!Forget
  <2>2. CASE b \notin table
    <3>1. table' = table
      BY <1>3, <2>2
    <3> QED BY <1>3, <3>1, <1>a
  <2> QED BY <2>1, <2>2
<1>4. CASE Submit
  <2>1. scheduler.build \in table /\ UNCHANGED <<launched, canceled>>
    BY <1>4 DEF Submit, LaunchInv, Submitting
  <2>2. \/ UNCHANGED <<table, answers>>
        \/ /\ table' = table \ {scheduler.build}
           /\ \E r, seen : Answer(scheduler.build, r, seen)
    BY <1>4 DEF Submit
  <2>3. CASE UNCHANGED <<table, answers>>
    BY <2>1, <2>3, <1>a
  <2>4. CASE /\ table' = table \ {scheduler.build}
             /\ \E r, seen : Answer(scheduler.build, r, seen)
    BY <2>1, <2>4, <1>2 DEF Contract!Next
  <2> QED BY <2>2, <2>3, <2>4
<1>5. ASSUME NEW b \in Build, Cancel(b) PROVE Contract!Withdraw(b)
  BY <1>5 DEF Cancel, Contract!Withdraw
<1>6. CASE CancelJobInQueue
  <2>1. scheduler.build \in canceled /\ UNCHANGED <<launched, canceled, answers>>
    BY <1>6 DEF CancelJobInQueue, LaunchInv, LookedFor
  <2>2. table' = table \ {scheduler.build} \/ UNCHANGED table
    BY <1>6 DEF CancelJobInQueue
  <2> QED BY <2>1, <2>2, <1>3, <1>a DEF Contract!Next
<1>7. CASE CancelAgain \/ OnWorkStatus \/ OnMetaJobCompleted \/ OnDisconnect
  <2>1. Same4
    BY <1>7 DEF CancelAgain, OnWorkStatus, OnMetaJobCompleted, OnDisconnect
  <2> QED BY <2>1, <1>a
<1>8. CASE OnBuildCompleted
  <2> DEFINE b == Head(packets).build
  <2>1. UNCHANGED <<launched, canceled, answers>>
    BY <1>8 DEF OnBuildCompleted
  <2>2. UNCHANGED table \/ (table' = table \ {b} /\ b \notin table \ canceled)
    BY <1>8 DEF OnBuildCompleted
  <2> HIDE DEF b
  <2> QED BY <2>1, <2>2, <1>3, <1>a DEF Contract!Next
<1>9. CASE TellScheduler
  <2> DEFINE b == handler.packet.build
  <2>1. b \in table
    BY <1>9 DEF TellScheduler, LaunchInv, Outstanding
  <2>2. /\ table' = table \ {b} /\ UNCHANGED <<launched, canceled>>
        /\ \E r, seen : Answer(b, r, seen)
    BY <1>9 DEF TellScheduler
  <2> HIDE DEF b
  <2> QED BY <2>1, <2>2, <1>2 DEF Contract!Next
<1> QED
  BY <1>1, <1>4, <1>5, <1>6, <1>7, <1>8, <1>9
  DEF ClientNext, SchedulerThread, ClientThread, Contract!Next

(* Every step of the two programs and the Gearman server.                  *)
LEMMA NextContract == LaunchInv /\ [Next]_vars => [Contract!Next]_(Contract!vars)
<1> SUFFICES ASSUME LaunchInv, [Next]_vars PROVE [Contract!Next]_(Contract!vars)
  OBVIOUS
<1>1. CASE UNCHANGED client
  BY <1>1 DEF client, Contract!vars
<1>2. CASE ClientNext
  BY <1>2, ClientKeepsContract
<1> QED BY <1>1, <1>2 DEF Next, vars

(* Every execution of the launcher client against the Gearman server and   *)
(* the launch server keeps the contract of LaunchContract: the scheduler   *)
(* is told of a build at most once, a build is dropped without a word only *)
(* if it was canceled, and nothing is said of it after that, whatever the  *)
(* workers do and however submissions, look-ups and connections fail.      *)
THEOREM ContractKept == Spec => KeepsContract
<1>1. Init => Contract!Init
  BY InitContract
<1>2. LaunchInv /\ [Next]_vars => [Contract!Next]_(Contract!vars)
  BY NextContract
<1> QED BY <1>1, <1>2, LaunchInvariance, PTL DEF Spec, KeepsContract, Contract!Spec
-----------------------------------------------------------------------------
(* The inductive invariant.                                                *)

(* The fields of a worker that its verdicts depend on.                     *)
Telling == {"gear", "seen", "result", "status", "proc", "aborted", "timedOut"}
IsRecord(r) == r = [f \in DOMAIN r |-> r[f]] /\ Telling \subseteq DOMAIN r

(* The watchdog's flag stands for a timeout of this worker's life; while a *)
(* build runs, the abort flag stands for an abort of this build.           *)
FlagsTrue(r) ==
  /\ r.timedOut \in BOOLEAN /\ (r.timedOut = TRUE <=> "timeout" \in r.seen)
  /\ Running(r) => r.aborted \in BOOLEAN /\ (r.aborted = TRUE <=> "aborted" \in r.seen)

(* The status of the job playbook, once it has ended, says how; and after a*)
(* good one the watchdog can only have fired in the post playbook, which   *)
(* then was killed.                                                        *)
StatusTrue(r) ==
  /\ r.status \in BOOLEAN
  /\ Running(r) /\ r.gear # "post" => r.seen \subseteq {"aborted", "timeout"}
  /\ r.gear = "post" /\ r.status =>
       /\ "ok" \in r.seen /\ r.seen \subseteq {"ok", "aborted", "timeout"}
       /\ "timeout" \in r.seen => r.proc = "killed"
  /\ r.gear = "post" /\ ~r.status => r.seen \cap {"failed", "timeout"} # {}

ResultTrue(r) == r.gear \in {"finished", "reporting"} => Justified(r.result, r.seen)

Sound(r) == IsRecord(r) /\ FlagsTrue(r) /\ StatusTrue(r) /\ ResultTrue(r)
AreSound(ws) == ws = [n \in Node |-> ws[n]] /\ \A n \in Node : Sound(ws[n])

Truthful(ps) == \A p \in ToSet(ps) : p.kind = "done" => Justified(p.result, p.seen)

VerdictInv ==
  /\ AreSound(w)
  /\ Truthful(packets)
  /\ handler.at = "answer" => Justified(handler.packet.result, handler.packet.seen)
  /\ VerdictsJustified

-----------------------------------------------------------------------------
(* What the operators on a worker's record do.                             *)

(* A change of what verdicts do not depend on.                             *)
Alike(r, s) == IsRecord(s) /\ \A f \in Telling : s[f] = r[f]

(* A record changed elsewhere is as sound as it was.                       *)
LEMMA AlikeIsSound ==
  ASSUME NEW r, Sound(r), NEW s, Alike(r, s)
  PROVE  Sound(s)
<1>1. /\ s.gear = r.gear /\ s.seen = r.seen /\ s.result = r.result /\ s.status = r.status
      /\ s.proc = r.proc /\ s.aborted = r.aborted /\ s.timedOut = r.timedOut
  BY DEF Alike, Telling
<1> QED BY <1>1 DEF Alike, Sound, FlagsTrue, StatusTrue, ResultTrue, Running

(* A worker that runs no build and has no result to report.                *)
Idling == {"top", "ready", "getting", "got", "registering", "put", "join", "ended"}

(* Such a worker needs only a truthful watchdog flag to be sound.          *)
LEMMA IdlingIsSound ==
  ASSUME NEW r, Sound(r), NEW s, IsRecord(s), s.gear \in Idling,
         s.seen \in {r.seen, r.seen \cap {"timeout"}},
         s.timedOut = r.timedOut, s.status \in BOOLEAN
  PROVE  Sound(s)
<1>1. FlagsTrue(s)
  BY DEF Sound, FlagsTrue, Running, Idling
<1>2. StatusTrue(s)
  BY DEF StatusTrue, Running, Idling
<1>3. ResultTrue(s)
  BY DEF ResultTrue, Idling
<1> QED BY <1>1, <1>2, <1>3 DEF Sound

(* A worker as launchNode makes it, and the place where none is.           *)
LEMMA NewIsSound == Sound(NewWorker) /\ Sound(NoWorker)
<1> DEFINE r == NewWorker
<1>1. /\ r.gear = "top" /\ r.seen = {} /\ r.timedOut = FALSE /\ r.status = FALSE
  BY DEF NewWorker
<1>2. r = [f \in DOMAIN r |-> r[f]] /\ Telling \subseteq DOMAIN r
  BY DEF NewWorker, Telling
<1>3. Sound(r)
  BY <1>1, <1>2 DEF Sound, IsRecord, FlagsTrue, StatusTrue, ResultTrue, Running
<1> HIDE DEF r
<1>4. Sound([r EXCEPT !.life = "none", !.running = FALSE, !.connected = FALSE,
                      !.queuer = "done", !.gear = "ended", !.registered = {}])
  <2> DEFINE s == [r EXCEPT !.life = "none", !.running = FALSE, !.connected = FALSE,
                            !.queuer = "done", !.gear = "ended", !.registered = {}]
  <2>1. IsRecord(s) /\ s.gear = "ended" /\ s.seen = r.seen /\ s.timedOut = r.timedOut
        /\ s.status = r.status
    BY <1>3 DEF Sound, IsRecord, Telling
  <2> HIDE DEF s
  <2>2. r.status \in BOOLEAN
    BY <1>3 DEF Sound, StatusTrue
  <2>3. Sound(s)
    BY <1>3, <2>1, <2>2, IdlingIsSound DEF Idling
  <2> QED BY <2>3 DEF s
<1> QED BY <1>3, <1>4 DEF NoWorker, r

(* The thread that waits in getJob is woken.                               *)
LEMMA WokenIsSound ==
  ASSUME NEW r, Sound(r), NEW s, IsRecord(s),
         s.gear = (IF r.gear = "getting" THEN "top" ELSE r.gear),
         \A f \in Telling \ {"gear"} : s[f] = r[f]
  PROVE  Sound(s)
<1>1. /\ s.seen = r.seen /\ s.result = r.result /\ s.status = r.status
      /\ s.proc = r.proc /\ s.aborted = r.aborted /\ s.timedOut = r.timedOut
  BY DEF Telling
<1>2. FlagsTrue(s)
  BY <1>1 DEF Sound, FlagsTrue, Running
<1>3. StatusTrue(s)
  BY <1>1 DEF Sound, StatusTrue, Running
<1>4. ResultTrue(s)
  BY <1>1 DEF Sound, ResultTrue
<1> QED BY <1>2, <1>3, <1>4 DEF Sound

(* A job is aborted.                                                       *)
LEMMA AbortedIsSound ==
  ASSUME NEW r, Sound(r)
  PROVE  Sound(AbortedWorker(r))
<1> DEFINE s == AbortedWorker(r)
<1>1. /\ IsRecord(s) /\ s.aborted = TRUE
      /\ s.seen = r.seen \cup (IF Running(r) THEN {"aborted"} ELSE {})
      /\ s.gear = r.gear /\ s.result = r.result /\ s.status = r.status /\ s.timedOut = r.timedOut
      /\ r.gear = "post" => s.proc = r.proc
  BY DEF AbortedWorker, CanKill, Sound, IsRecord, Telling
<1> HIDE DEF s
<1>2. FlagsTrue(s)
  BY <1>1 DEF Sound, FlagsTrue, Running
<1>3. StatusTrue(s)
  BY <1>1 DEF Sound, StatusTrue, Running
<1>4. ResultTrue(s)
  BY <1>1 DEF Sound, ResultTrue, Running
<1> QED BY <1>1, <1>2, <1>3, <1>4 DEF Sound, s

(* The build ends with a result that what was seen justifies.              *)
LEMMA FinishedIsSound ==
  ASSUME NEW r, Sound(r), NEW result, NEW why, "timeout" \notin why,
         Justified(result, r.seen \cup why)
  PROVE  Sound(Finished(r, result, why))
<1> DEFINE s == Finished(r, result, why)
<1>1. /\ IsRecord(s) /\ s.gear = "finished" /\ s.result = result
      /\ s.seen = r.seen \cup why /\ s.status = r.status /\ s.timedOut = r.timedOut
  BY DEF Finished, Sound, IsRecord, Telling
<1> HIDE DEF s
<1>2. FlagsTrue(s) /\ StatusTrue(s) /\ ResultTrue(s)
  BY <1>1 DEF Sound, FlagsTrue, StatusTrue, ResultTrue, Running
<1> QED BY <1>1, <1>2 DEF Sound, s

(* The next turn of the Gearman thread.                                    *)
LEMMA LoopedIsSound ==
  ASSUME NEW r, Sound(r)
  PROVE  Sound(Looped(r))
<1> DEFINE s == Looped(r)
<1>1. /\ IsRecord(s) /\ s.gear = "top" /\ s.seen = r.seen \cap {"timeout"}
      /\ s.timedOut = r.timedOut /\ s.status = FALSE
  BY DEF Looped, Sound, IsRecord, Telling
<1> HIDE DEF s
<1> QED BY <1>1, IdlingIsSound DEF Idling, s

-----------------------------------------------------------------------------
(* The steps of the launch server and its workers.                         *)

(* Whoever takes such a step tells the truth.                              *)
Vouches == AreSound(w') /\ Truthful(packets')

(* Telling workers what to do.                                             *)
LEMMA TellVouches ==
  ASSUME VerdictInv, NEW S, NEW actions, w' = Tell(S, actions), Truthful(packets')
  PROVE  Vouches
<1>1. \A n \in Node :
        Sound(w[n]) /\ w'[n] \in {w[n], [w[n] EXCEPT !.todo = @ \o actions]}
  BY DEF VerdictInv, AreSound, Tell
<1>2. ASSUME NEW r, Sound(r) PROVE Alike(r, [r EXCEPT !.todo = @ \o actions])
  BY <1>2 DEF Sound, Alike, IsRecord, Telling
<1>3. \A n \in Node : Sound(w'[n])
  BY <1>1, <1>2, AlikeIsSound
<1>4. w' = [n \in Node |-> w'[n]]
  BY DEF Tell
<1> QED BY <1>3, <1>4 DEF Vouches, AreSound

(* Changing one worker, and maybe sending a packet that is justified.      *)
LEMMA WorkerVouches ==
  ASSUME LaunchInv, VerdictInv, NEW n \in Node, NEW r, Sound(r), w' = [w EXCEPT ![n] = r],
         NEW p, p.kind = "done" => Justified(p.result, p.seen),
         ToClient(p) \/ UNCHANGED packets
  PROVE  Vouches
<1>1. AreSound(w')
  BY DEF VerdictInv, AreSound
<1>2. packets' = packets \/ packets' = Append(packets, p)
  BY DEF ToClient
<1>3. ToSet(packets') \subseteq ToSet(packets) \cup {p}
  BY <1>2, AddedAtTheEnd DEF LaunchInv, Shape
<1>4. Truthful(packets')
  BY <1>3 DEF VerdictInv, Truthful
<1> QED BY <1>1, <1>4 DEF Vouches

(* A step of the launcher that sends no packet and keeps workers sound.    *)
LEMMA QuietVouches ==
  ASSUME VerdictInv, NEW n \in Node, NEW r, Sound(r), w' = [w EXCEPT ![n] = r],
         UNCHANGED packets
  PROVE  Vouches
BY DEF VerdictInv, AreSound, Vouches

(* What the launch server does, at a request or command.                   *)
LEMMA ServerVouches ==
  ASSUME LaunchInv, VerdictInv,
         \/ \E n \in Node : AssignNode(n) \/ RevokeNode(n)
         \/ \E b \in Build : StopJob(b)
         \/ Reap \/ Pause \/ Unpause \/ ReleaseNodes \/ ReloadJobs \/ Graceful \/ Stop
         \/ CommandThread
  PROVE  Vouches
<1>0. AreSound(w) /\ Truthful(packets)
  BY DEF VerdictInv
<1>1. ASSUME NEW n \in Node, AssignNode(n) PROVE Vouches
  <2>1. w' = [w EXCEPT ![n] = NewWorker] /\ UNCHANGED packets
    BY <1>1 DEF AssignNode
  <2> QED BY <2>1, NewIsSound, QuietVouches
<1>2. CASE \E S, actions : w' = Tell(S, actions) /\ UNCHANGED packets
  BY <1>0, <1>2, TellVouches
<1>3. ASSUME NEW b \in Build, StopJob(b) PROVE Vouches
  <2>1. w' = Tell({serving[b]} \cap Alive, <<"abort">>) /\ packets' = Append(packets, MetaDone(b, {}))
    BY <1>3 DEF StopJob
  <2>2. ToSet(packets') \subseteq ToSet(packets) \cup {MetaDone(b, {})}
    BY <2>1, AddedAtTheEnd DEF LaunchInv, Shape
  <2>3. Truthful(packets')
    BY <1>0, <2>2 DEF Truthful, MetaDone
  <2> QED BY <2>1, <2>3, TellVouches
<1>4. CASE UNCHANGED <<w, packets>>
  BY <1>0, <1>4 DEF Vouches
<1>5. CASE StopNextNode
  <2>1. PICK n : w' = [w EXCEPT ![n].running = FALSE, ![n].unpaused = TRUE] \/ w' = w
    BY <1>5 DEF StopNextNode
  <2>2. UNCHANGED packets
    BY <1>5 DEF StopNextNode, gearman
  <2>3. CASE n \in Node /\ w' # w
    <3> DEFINE r == [w[n] EXCEPT !.running = FALSE, !.unpaused = TRUE]
    <3>1. Sound(w[n])
      BY <1>0, <2>3 DEF AreSound
    <3>2. Alike(w[n], r)
      BY <3>1 DEF Sound, Alike, IsRecord, Telling
    <3>3. Sound(r)
      BY <3>1, <3>2, AlikeIsSound
    <3>4. w' = [w EXCEPT ![n] = r]
      BY <2>1, <2>3
    <3> HIDE DEF r
    <3> QED BY <2>2, <2>3, <3>3, <3>4, QuietVouches
  <2>4. CASE n \notin Node \/ w' = w
    <3>1. w' = w
      BY <2>1, <2>4, <1>0 DEF AreSound
    <3> QED BY <2>2, <3>1, <1>4
  <2> QED BY <2>3, <2>4
<1>6. ASSUME NEW n \in Node, RevokeNode(n) PROVE Vouches
  BY <1>2, <1>6 DEF RevokeNode, gearman
<1>7. CASE Pause \/ Unpause \/ ReleaseNodes \/ ReloadJobs \/ Graceful \/ PutStop
  BY <1>2, <1>7 DEF Pause, Unpause, ReleaseNodes, ReloadJobs, Graceful, PutStop, gearman
<1>8. CASE Reap \/ Stop \/ Drained \/ JoinQueue \/ Stopped
  BY <1>4, <1>8 DEF Reap, Stop, Drained, JoinQueue, Stopped, gearman
<1> QED
  BY <1>1, <1>3, <1>5, <1>6, <1>7, <1>8 DEF CommandThread

(* A worker closes its connection: its build is lost.                      *)
LEMMA ShutdownVouches ==
  ASSUME LaunchInv, VerdictInv, NEW n \in Node, NEW r, Sound(r), Shutdown(n, r)
  PROVE  Vouches
<1> DEFINE s == [r EXCEPT !.connected = FALSE, !.queuer = "check",
                          !.gear = IF @ = "getting" THEN "top" ELSE @]
           p == WorkDone(r.build, "none", {"gone"})
<1>1. IsRecord(r)
  BY DEF Sound
<1>2. /\ IsRecord(s) /\ s.gear = (IF r.gear = "getting" THEN "top" ELSE r.gear)
      /\ \A f \in Telling \ {"gear"} : s[f] = r[f]
  BY <1>1 DEF IsRecord, Telling
<1>3. w' = [w EXCEPT ![n] = s] /\ (ToClient(p) \/ UNCHANGED packets)
  BY DEF Shutdown
<1>4. Justified(p.result, p.seen)
  BY DEF WorkDone, Justified
<1> HIDE DEF s, p
<1>5. Sound(s)
  BY <1>2, WokenIsSound
<1> QED BY <1>3, <1>4, <1>5, WorkerVouches

(* A worker is paused.                                                     *)
LEMMA PausedIsSound ==
  ASSUME NEW r, Sound(r)
  PROVE  Sound(PausedWorker(r))
<1> DEFINE s == PausedWorker(r)
<1>1. /\ IsRecord(s) /\ s.gear = (IF r.gear = "getting" THEN "top" ELSE r.gear)
      /\ \A f \in Telling \ {"gear"} : s[f] = r[f]
  BY DEF PausedWorker, Sound, IsRecord, Telling
<1> HIDE DEF s
<1> QED BY <1>1, WokenIsSound DEF s

(* Every step of a worker's queue thread.                                  *)
LEMMA QueueThreadVouches ==
  ASSUME LaunchInv, VerdictInv, NEW n \in Node, QueueThread(n)
  PROVE  Vouches
<1>0. Sound(w[n]) /\ IsRecord(w[n]) /\ AreSound(w)
  BY DEF VerdictInv, AreSound, Sound
<1>a. ASSUME NEW r, Sound(r), w' = [w EXCEPT ![n] = r], UNCHANGED packets PROVE Vouches
  BY <1>a, QuietVouches
<1>b. ASSUME NEW r, Alike(w[n], r), w' = [w EXCEPT ![n] = r], UNCHANGED packets PROVE Vouches
  BY <1>b, <1>0, AlikeIsSound, QuietVouches
<1>r. Alike(w[n], Rest(n)) /\ Sound(Rest(n)) /\ IsRecord(Rest(n))
  <2>1. Alike(w[n], Rest(n))
    BY <1>0 DEF Rest, Alike, IsRecord, Telling
  <2> QED BY <1>0, <2>1, AlikeIsSound DEF Alike
<1>1. CASE QueueLoop(n)
  <2>1. \/ w' = [w EXCEPT ![n] = [w[n] EXCEPT !.queuer = "get"]]
        \/ w' = [w EXCEPT ![n] = [w[n] EXCEPT !.queuer = "done", !.life = "dead"]]
    BY <1>1 DEF QueueLoop
  <2>2. /\ Alike(w[n], [w[n] EXCEPT !.queuer = "get"])
        /\ Alike(w[n], [w[n] EXCEPT !.queuer = "done", !.life = "dead"])
    BY <1>0 DEF Alike, IsRecord, Telling
  <2>3. UNCHANGED packets
    BY <1>1 DEF QueueLoop, gearman
  <2> QED BY <2>1, <2>2, <2>3, <1>b
<1>2. CASE TakeStop(n)
  <2> DEFINE q == [Rest(n) EXCEPT !.running = FALSE]
             r == AbortedWorker(q)
             s == [r EXCEPT !.queuer = "stopping"]
  <2>1. Sound(q)
    <3>1. Alike(Rest(n), q)
      BY <1>r DEF Alike, IsRecord, Telling
    <3> QED BY <3>1, <1>r, AlikeIsSound
  <2>2. \/ w' = [w EXCEPT ![n] = s] /\ UNCHANGED packets
        \/ Shutdown(n, Farewell(r))
    BY <1>2 DEF TakeStop
  <2> HIDE DEF q
  <2>3. Sound(r)
    BY <2>1, AbortedIsSound
  <2> HIDE DEF r
  <2>4. Sound(s) /\ Sound(Farewell(r))
    <3>1. Alike(r, s) /\ Alike(r, Farewell(r))
      BY <2>3 DEF Sound, Alike, IsRecord, Telling, Farewell
    <3> QED BY <2>3, <3>1, AlikeIsSound
  <2> HIDE DEF s
  <2> QED BY <2>2, <2>4, <1>a, ShutdownVouches
<1>3. CASE StopWaited(n)
  BY <1>3, <1>0, ShutdownVouches DEF StopWaited
<1>4. CASE TakePause(n)
  <2>1. w' = [w EXCEPT ![n] = PausedWorker(Rest(n))] /\ UNCHANGED packets
    BY <1>4 DEF TakePause, gearman
  <2> QED BY <2>1, <1>r, <1>a, PausedIsSound
<1>5. CASE TakeUnpause(n)
  <2>1. w' = [w EXCEPT ![n] = [Rest(n) EXCEPT !.unpaused = TRUE]] /\ UNCHANGED packets
    BY <1>5 DEF TakeUnpause, gearman
  <2>2. Alike(w[n], [Rest(n) EXCEPT !.unpaused = TRUE])
    BY <1>r DEF Alike, IsRecord, Telling
  <2> QED BY <2>1, <2>2, <1>b
<1>6. CASE TakeRelease(n)
  <2> DEFINE r == IF w[n].unpaused THEN PausedWorker(Rest(n)) ELSE Rest(n)
             s == [r EXCEPT !.queuer = "releasing", !.wasUnpaused = w[n].unpaused]
  <2>1. w' = [w EXCEPT ![n] = s] /\ UNCHANGED packets
    BY <1>6 DEF TakeRelease, gearman
  <2>2. Sound(r)
    BY <1>r, PausedIsSound
  <2> HIDE DEF r
  <2>3. Alike(r, s)
    BY <2>2 DEF Sound, Alike, IsRecord, Telling
  <2>4. Sound(s)
    BY <2>2, <2>3, AlikeIsSound
  <2> HIDE DEF s
  <2> QED BY <2>1, <2>4, <1>a
<1>7. CASE ReleaseLocked(n)
  <2>1. \/ \E v : w' = [w EXCEPT ![n] = [w[n] EXCEPT !.queuer = "check", !.unpaused = v]]
        \/ \E v : w' = [w EXCEPT ![n] = [w[n] EXCEPT !.queuer = "check", !.todo = v]]
    BY <1>7 DEF ReleaseLocked
  <2>2. \A v : /\ Alike(w[n], [w[n] EXCEPT !.queuer = "check", !.unpaused = v])
               /\ Alike(w[n], [w[n] EXCEPT !.queuer = "check", !.todo = v])
    BY <1>0 DEF Alike, IsRecord, Telling
  <2>3. UNCHANGED packets
    BY <1>7 DEF ReleaseLocked, gearman
  <2> QED BY <2>1, <2>2, <2>3, <1>b
<1>8. CASE TakeReconfigure(n)
  <2>1. \/ w' = [w EXCEPT ![n] = RegisterNow(Rest(n))]
        \/ \E v : w' = [w EXCEPT ![n] = [Rest(n) EXCEPT !.pending = v]]
    BY <1>8 DEF TakeReconfigure
  <2>2. /\ Alike(w[n], RegisterNow(Rest(n)))
        /\ \A v : Alike(w[n], [Rest(n) EXCEPT !.pending = v])
    BY <1>r DEF Alike, IsRecord, Telling, RegisterNow
  <2>3. UNCHANGED packets
    BY <1>8 DEF TakeReconfigure, server
  <2> QED BY <2>1, <2>2, <2>3, <1>b
<1>9. CASE TakeAbort(n)
  <2>1. w' = [w EXCEPT ![n] = AbortedWorker(Rest(n))] /\ UNCHANGED packets
    BY <1>9 DEF TakeAbort, gearman
  <2> QED BY <2>1, <1>r, <1>a, AbortedIsSound
<1> QED
  BY <1>1, <1>2, <1>3, <1>4, <1>5, <1>6, <1>7, <1>8, <1>9 DEF QueueThread

(* From one stage of a build to the next, before its playbook ends.        *)
LEMMA StageIsSound ==
  ASSUME NEW r, Sound(r), NEW s, IsRecord(s), s.seen = r.seen, s.status = r.status,
         s.aborted = r.aborted, s.timedOut = r.timedOut,
         Running(r), r.gear # "post", Running(s), s.gear # "post"
  PROVE  Sound(s)
<1>1. FlagsTrue(s)
  BY DEF Sound, FlagsTrue
<1>2. StatusTrue(s)
  BY DEF Sound, StatusTrue
<1>3. ResultTrue(s)
  BY DEF ResultTrue, Running
<1> QED BY <1>1, <1>2, <1>3 DEF Sound

(* launch: the flags of the build before are reset, but the watchdog's.    *)
LEMMA LaunchIsSound ==
  ASSUME NEW r, Sound(r)
  PROVE  Sound([r EXCEPT !.gear = "launching", !.sentComplete = FALSE,
                         !.aborted = FALSE, !.seen = @ \cap {"timeout"}])
<1> DEFINE s == [r EXCEPT !.gear = "launching", !.sentComplete = FALSE,
                          !.aborted = FALSE, !.seen = @ \cap {"timeout"}]
<1>1. /\ IsRecord(s) /\ s.gear = "launching" /\ s.aborted = FALSE
      /\ s.seen = r.seen \cap {"timeout"} /\ s.timedOut = r.timedOut /\ s.status = r.status
  BY DEF Sound, IsRecord, Telling
<1> HIDE DEF s
<1>2. FlagsTrue(s)
  BY <1>1 DEF Sound, FlagsTrue
<1>3. StatusTrue(s)
  BY <1>1 DEF Sound, StatusTrue
<1>4. ResultTrue(s)
  BY <1>1 DEF ResultTrue
<1> QED BY <1>1, <1>2, <1>3, <1>4 DEF Sound, s

(* The watchdog fires.                                                     *)
LEMMA TimedOutIsSound ==
  ASSUME NEW r, Sound(r), r.gear \in {"playing", "post"}
  PROVE  Sound([r EXCEPT !.timedOut = TRUE, !.proc = "killed", !.seen = @ \cup {"timeout"}])
<1> DEFINE s == [r EXCEPT !.timedOut = TRUE, !.proc = "killed", !.seen = @ \cup {"timeout"}]
<1>1. /\ IsRecord(s) /\ s.gear = r.gear /\ s.aborted = r.aborted /\ s.timedOut = TRUE
      /\ s.seen = r.seen \cup {"timeout"} /\ s.proc = "killed" /\ s.status = r.status
  BY DEF Sound, IsRecord, Telling
<1> HIDE DEF s
<1>2. FlagsTrue(s)
  BY <1>1 DEF Sound, FlagsTrue, Running
<1>3. StatusTrue(s)
  BY <1>1 DEF Sound, StatusTrue, Running
<1>4. ResultTrue(s)
  BY <1>1 DEF ResultTrue
<1> QED BY <1>1, <1>2, <1>3, <1>4 DEF Sound, s

(* The job playbook ends, and the post playbook runs.                      *)
LEMMA PostIsSound ==
  ASSUME NEW r, Sound(r), r.gear = "playing",
         NEW exit \in {"killed", "ok", "failed", "unreachable"},
         r.timedOut \/ exit \notin {"unreachable", "killed"}
  PROVE  Sound([r EXCEPT !.gear = "post", !.proc = "on", !.seen = @ \cup {exit},
                         !.status = ~r.timedOut /\ exit = "ok"])
<1> DEFINE s == [r EXCEPT !.gear = "post", !.proc = "on", !.seen = @ \cup {exit},
                          !.status = ~r.timedOut /\ exit = "ok"]
<1>1. /\ IsRecord(s) /\ s.gear = "post" /\ s.aborted = r.aborted /\ s.timedOut = r.timedOut
      /\ s.seen = r.seen \cup {exit} /\ s.status = (~r.timedOut /\ exit = "ok")
  BY DEF Sound, IsRecord, Telling
<1>2. /\ r.timedOut \in BOOLEAN /\ (r.timedOut = TRUE <=> "timeout" \in r.seen)
      /\ r.aborted \in BOOLEAN /\ (r.aborted = TRUE <=> "aborted" \in r.seen)
      /\ r.seen \subseteq {"aborted", "timeout"}
  BY DEF Sound, FlagsTrue, StatusTrue, Running
<1> HIDE DEF s
<1>3. FlagsTrue(s)
  BY <1>1, <1>2 DEF FlagsTrue
<1>4. s.status \in BOOLEAN /\ (s.status = TRUE <=> r.timedOut = FALSE /\ exit = "ok")
  BY <1>1, <1>2
<1>5. StatusTrue(s)
  BY <1>1, <1>2, <1>4 DEF StatusTrue
<1>6. ResultTrue(s)
  BY <1>1 DEF ResultTrue
<1> QED BY <1>1, <1>3, <1>5, <1>6 DEF Sound, s

(* The verdict on a build when the post playbook has ended.                *)
LEMMA VerdictIsJustified ==
  ASSUME NEW r, Sound(r), r.gear = "post",
         NEW post \in BOOLEAN, post => r.proc # "killed"
  PROVE  Justified(Verdict(r, post), r.seen \cup {IF post THEN "post ok" ELSE "post failed"})
<1>1. /\ r.timedOut \in BOOLEAN /\ (r.timedOut = TRUE <=> "timeout" \in r.seen)
      /\ r.aborted \in BOOLEAN /\ (r.aborted = TRUE <=> "aborted" \in r.seen)
      /\ r.status \in BOOLEAN
      /\ r.status = TRUE => /\ "ok" \in r.seen /\ r.seen \subseteq {"ok", "aborted", "timeout"}
                            /\ "timeout" \in r.seen => r.proc = "killed"
      /\ r.status = FALSE => r.seen \cap {"failed", "timeout"} # {}
  BY DEF Sound, FlagsTrue, StatusTrue, Running
<1>2. CASE r.aborted = TRUE /\ r.timedOut = FALSE
  <2>1. Verdict(r, post) = "none" /\ "aborted" \in r.seen
    BY <1>1, <1>2 DEF Verdict
  <2> QED BY <2>1 DEF Justified
<1>3. CASE ~(r.aborted = TRUE /\ r.timedOut = FALSE) /\ post = FALSE
  <2>1. Verdict(r, post) = "POST_FAILURE"
    BY <1>1, <1>3 DEF Verdict
  <2> QED BY <1>3, <2>1 DEF Justified
<1>4. CASE ~(r.aborted = TRUE /\ r.timedOut = FALSE) /\ post = TRUE
  <2>1. Verdict(r, post) = IF r.status THEN "SUCCESS" ELSE "FAILURE"
    BY <1>1, <1>4 DEF Verdict
  <2>2. CASE r.status = TRUE
    <3>1. r.seen = {"ok"}
      BY <1>1, <1>4, <2>2
    <3> QED BY <1>4, <2>1, <2>2, <3>1 DEF Justified
  <2>3. CASE r.status = FALSE
    BY <1>1, <1>4, <2>1, <2>3 DEF Justified
  <2> QED BY <1>1, <2>2, <2>3
<1> QED BY <1>1, <1>2, <1>3, <1>4

(* Every step of a worker's Gearman thread and watchdog.                   *)
LEMMA GearThreadVouches ==
  ASSUME LaunchInv, VerdictInv, NEW n \in Node, GearThread(n) \/ AnsibleTimeout(n) \/ GotJob(n)
  PROVE  Vouches
<1> DEFINE r == w[n]
           Changes(s) == w' = [w EXCEPT ![n] = s] /\ UNCHANGED packets
           Idles(s) == /\ IsRecord(s) /\ s.gear \in Idling /\ s.seen = r.seen
                       /\ s.timedOut = r.timedOut /\ s.status = r.status
           Stages(s) == /\ IsRecord(s) /\ s.gear \in {"prepare", "starting", "playing"}
                        /\ s.seen = r.seen /\ s.timedOut = r.timedOut
                        /\ s.aborted = r.aborted /\ s.status = r.status
<1>0. Sound(r) /\ IsRecord(r) /\ r.status \in BOOLEAN /\ AreSound(w)
  BY DEF VerdictInv, AreSound, Sound, StatusTrue
<1>a. ASSUME NEW s, Sound(s), Changes(s) PROVE Vouches
  BY <1>a, QuietVouches
<1>b. ASSUME NEW s, Idles(s), Changes(s) PROVE Vouches
  <2>1. Sound(s)
    BY <1>b, <1>0, IdlingIsSound
  <2> QED BY <2>1, <1>b, <1>a
<1>c. ASSUME NEW s, Stages(s), r.gear \in {"launching", "prepare", "starting"} PROVE Sound(s)
  <2>1. Running(r) /\ r.gear # "post" /\ Running(s) /\ s.gear # "post"
    BY <1>c DEF Running
  <2> QED BY <2>1, <1>c, <1>0, StageIsSound
<1>d. ASSUME NEW exit \in {"stopped", "error", "unreachable", "killed"}
      PROVE  Sound(Finished(r, "none", {exit}))
  <2>1. Justified("none", r.seen \cup {exit})
    BY DEF Justified
  <2> QED BY <2>1, <1>0, FinishedIsSound
<1>1. CASE GearLoop(n)
  <2>1. UNCHANGED packets
    BY <1>1 DEF GearLoop, gearman
  <2>2. \E g \in {"ended", "registering", "ready"} : w' = [w EXCEPT ![n] = [w[n] EXCEPT !.gear = g]]
    BY <1>1 DEF GearLoop
  <2>3. \A g \in {"ended", "registering", "ready"} : Idles([w[n] EXCEPT !.gear = g])
    BY <1>0 DEF IsRecord, Telling, Idling
  <2> QED BY <2>1, <2>2, <2>3, <1>b
<1>2. CASE GearRegister(n)
  <2> DEFINE s == [RegisterNow(r) EXCEPT !.gear = "ready"]
  <2>1. Changes(s)
    BY <1>2 DEF GearRegister, server
  <2>2. Idles(s)
    BY <1>0 DEF RegisterNow, IsRecord, Telling, Idling
  <2> QED BY <2>1, <2>2, <1>b
<1>3. CASE GetJob(n)
  <2>1. UNCHANGED packets
    BY <1>3 DEF GetJob, gearman
  <2>2. \E g \in {"getting", "top"} : w' = [w EXCEPT ![n] = [w[n] EXCEPT !.gear = g]]
    BY <1>3 DEF GetJob
  <2>3. \A g \in {"getting", "top"} : Idles([w[n] EXCEPT !.gear = g])
    BY <1>0 DEF IsRecord, Telling, Idling
  <2> QED BY <2>1, <2>2, <2>3, <1>b
<1>4. CASE GotJob(n)
  <2>1. PICK b : w' = [w EXCEPT ![n] = [w[n] EXCEPT !.gear = "got", !.build = b, !.gotJob = TRUE]]
    BY <1>4 DEF GotJob
  <2>2. Idles([w[n] EXCEPT !.gear = "got", !.build = b, !.gotJob = TRUE])
    BY <1>0 DEF IsRecord, Telling, Idling
  <2>3. UNCHANGED packets
    BY <1>4 DEF GotJob
  <2> QED BY <2>1, <2>2, <2>3, <1>b
<1>5. CASE LaunchBuild(n)
  <2> DEFINE s == [r EXCEPT !.gear = "launching", !.sentComplete = FALSE,
                            !.aborted = FALSE, !.seen = @ \cap {"timeout"}]
             p == WorkDone(r.build, "none", {"unknown"})
  <2>1. \/ Changes(s)
        \/ w' = [w EXCEPT ![n] = Looped(r)] /\ (ToClient(p) \/ UNCHANGED packets)
    BY <1>5 DEF LaunchBuild, Respond
  <2>2. Sound(s) /\ Sound(Looped(r))
    BY <1>0, LaunchIsSound, LoopedIsSound
  <2>3. Justified(p.result, p.seen)
    BY DEF Justified, WorkDone
  <2> HIDE DEF s, p
  <2> QED BY <2>1, <2>2, <2>3, <1>a, WorkerVouches
<1>6. CASE BeginJob(n)
  <2> DEFINE s == [r EXCEPT !.gear = "prepare", !.runningJob = TRUE, !.complete = FALSE]
  <2>1. r.gear = "launching" /\ (Changes(s) \/ Changes(Finished(r, "none", {"stopped"})))
    BY <1>6 DEF BeginJob, gearman
  <2>2. Stages(s)
    BY <1>0 DEF IsRecord, Telling
  <2> HIDE DEF s
  <2> QED BY <2>1, <2>2, <1>a, <1>c, <1>d
<1>7. CASE PrepareJob(n)
  <2> DEFINE s == [r EXCEPT !.gear = "starting"]
             p == WorkData(r.build)
  <2>1. /\ r.gear = "prepare"
        /\ \/ w' = [w EXCEPT ![n] = s] /\ ToClient(p)
           \/ Changes(Finished(r, "none", {"error"}))
    BY <1>7 DEF PrepareJob
  <2>2. Stages(s)
    BY <1>0 DEF IsRecord, Telling
  <2>3. p.kind # "done"
    BY DEF WorkData
  <2> HIDE DEF s, p
  <2>4. Sound(s)
    BY <2>1, <2>2, <1>c
  <2> QED BY <2>1, <2>3, <2>4, <1>a, <1>d, WorkerVouches
<1>8. CASE StartPlaybook(n)
  <2> DEFINE s == [r EXCEPT !.gear = "playing", !.proc = "on"]
  <2>1. r.gear = "starting" /\ Changes(s)
    BY <1>8 DEF StartPlaybook, gearman
  <2>2. Stages(s)
    BY <1>0 DEF IsRecord, Telling
  <2> HIDE DEF s
  <2> QED BY <2>1, <2>2, <1>a, <1>c
<1>9. CASE AnsibleTimeout(n)
  <2>1. /\ r.gear \in {"playing", "post"} /\ UNCHANGED packets
        /\ w' = [w EXCEPT ![n] = [r EXCEPT !.timedOut = TRUE, !.proc = "killed",
                                           !.seen = @ \cup {"timeout"}]]
    BY <1>9 DEF AnsibleTimeout
  <2> QED BY <2>1, <1>0, <1>a, TimedOutIsSound
<1>10. CASE PlaybookExits(n)
  <2>1. r.gear = "playing" /\ UNCHANGED packets
    BY <1>10 DEF PlaybookExits, gearman
  <2>2. PICK exit \in {"killed", "ok", "failed", "unreachable"} :
          w' = [w EXCEPT ![n] =
            IF ~r.timedOut /\ exit \in {"unreachable", "killed"}
            THEN Finished(r, "none", {exit})
            ELSE [r EXCEPT !.gear = "post", !.proc = "on", !.seen = @ \cup {exit},
                           !.status = ~r.timedOut /\ exit = "ok"]]
    BY <1>10 DEF PlaybookExits
  <2>3. CASE ~r.timedOut /\ exit \in {"unreachable", "killed"}
    <3>1. Changes(Finished(r, "none", {exit}))
      BY <2>1, <2>2, <2>3
    <3> QED BY <2>3, <3>1, <1>a, <1>d
  <2>4. CASE r.timedOut \/ exit \notin {"unreachable", "killed"}
    <3> DEFINE s == [r EXCEPT !.gear = "post", !.proc = "on", !.seen = @ \cup {exit},
                              !.status = ~r.timedOut /\ exit = "ok"]
    <3>1. Changes(s)
      BY <2>1, <2>2, <2>4
    <3>2. Sound(s)
      BY <2>1, <2>4, <1>0, PostIsSound
    <3> HIDE DEF s
    <3> QED BY <3>1, <3>2, <1>a
  <2> QED BY <2>3, <2>4
<1>11. CASE PostExits(n)
  <2>1. r.gear = "post" /\ UNCHANGED packets
    BY <1>11 DEF PostExits, gearman
  <2>2. PICK post \in BOOLEAN :
          /\ post => r.proc # "killed"
          /\ w' = [w EXCEPT ![n] =
               Finished(r, Verdict(r, post), {IF post THEN "post ok" ELSE "post failed"})]
    BY <1>11 DEF PostExits
  <2>3. Sound(Finished(r, Verdict(r, post), {IF post THEN "post ok" ELSE "post failed"}))
    BY <2>1, <2>2, <1>0, VerdictIsJustified, FinishedIsSound
  <2> QED BY <2>1, <2>2, <2>3, <1>a
<1>12. CASE EndJob(n)
  <2> DEFINE s == [r EXCEPT !.gear = "reporting", !.runningJob = FALSE]
  <2>1. r.gear = "finished" /\ Changes(s)
    BY <1>12 DEF EndJob, gearman
  <2>2. /\ IsRecord(s) /\ s.gear = "reporting" /\ s.seen = r.seen /\ s.result = r.result
        /\ s.status = r.status /\ s.timedOut = r.timedOut
    BY <1>0 DEF IsRecord, Telling
  <2> HIDE DEF s
  <2>3. FlagsTrue(s) /\ StatusTrue(s) /\ ResultTrue(s)
    BY <1>0, <2>1, <2>2 DEF Sound, FlagsTrue, StatusTrue, ResultTrue, Running
  <2> QED BY <2>1, <2>2, <2>3, <1>a DEF Sound
<1>13. CASE ReportJob(n)
  <2> DEFINE q == [r EXCEPT !.sentComplete = TRUE, !.complete = TRUE]
             s == [q EXCEPT !.gear = "put", !.running = FALSE, !.unpaused = TRUE]
             p == WorkDone(r.build, r.result, r.seen)
  <2>1. /\ r.gear = "reporting" /\ (ToClient(p) \/ UNCHANGED packets)
        /\ w' = [w EXCEPT ![n] = s] \/ w' = [w EXCEPT ![n] = Looped(q)]
    BY <1>13 DEF ReportJob, Respond
  <2>2. Justified(p.result, p.seen)
    BY <1>0, <2>1 DEF Sound, ResultTrue, WorkDone
  <2>3. Alike(r, q)
    BY <1>0 DEF Alike, IsRecord, Telling
  <2>4. Idles(s)
    BY <1>0 DEF IsRecord, Telling, Idling
  <2> HIDE DEF q, s, p
  <2>5. Sound(Looped(q)) /\ Sound(s)
    BY <1>0, <2>3, <2>4, AlikeIsSound, LoopedIsSound, IdlingIsSound
  <2> QED BY <2>1, <2>2, <2>5, WorkerVouches
<1>14. CASE PutOwnStop(n)
  <2>1. \E v : w' = [w EXCEPT ![n] = [r EXCEPT !.gear = "join", !.todo = v]]
    BY <1>14 DEF PutOwnStop
  <2>2. \A v : Idles([r EXCEPT !.gear = "join", !.todo = v])
    BY <1>0 DEF IsRecord, Telling, Idling
  <2>3. UNCHANGED packets
    BY <1>14 DEF PutOwnStop, gearman
  <2> QED BY <2>1, <2>2, <2>3, <1>b
<1>15. CASE JoinOwnQueue(n)
  <2>1. Changes(Looped(r))
    BY <1>15 DEF JoinOwnQueue, gearman
  <2> QED BY <2>1, <1>0, <1>a, LoopedIsSound
<1> QED
  BY <1>1, <1>2, <1>3, <1>4, <1>5, <1>6, <1>7, <1>8, <1>9, <1>10, <1>11, <1>12, <1>13,
     <1>14, <1>15 DEF GearThread

(* Every step of the launch server and its workers.                        *)
LEMMA LauncherNextVouches ==
  ASSUME LaunchInv, VerdictInv, LauncherNext
  PROVE  Vouches
BY ServerVouches, QueueThreadVouches, GearThreadVouches DEF LauncherNext

-----------------------------------------------------------------------------
(* The steps of the launcher client.                                       *)

(* A build is answered for the first time, with a result that is justified.*)
LEMMA AnswerIsJustified ==
  ASSUME LaunchInv, VerdictInv, NEW b \in Build, answers[b] = <<>>, NEW r, NEW seen,
         Justified(r, seen), Answer(b, r, seen)
  PROVE  VerdictsJustified'
<1> DEFINE a == [result |-> r, seen |-> seen]
<1>1. /\ answers'[b] = Append(<<>>, a)
      /\ \A c \in Build : c # b => answers'[c] = answers[c]
  BY DEF Answer, LaunchInv, Shape
<1>2. a.result = r /\ a.seen = seen
  OBVIOUS
<1> HIDE DEF a
<1>3. \A k \in DOMAIN answers'[b] : answers'[b][k] = a
  BY <1>1
<1>4. ASSUME NEW c \in Build, NEW k \in DOMAIN answers'[c]
      PROVE  Justified(answers'[c][k].result, answers'[c][k].seen)
  <2>1. CASE c = b
    <3>1. answers'[c][k] = a
      BY <1>3, <1>4, <2>1
    <3> QED BY <1>2, <3>1
  <2>2. CASE c # b
    <3>1. answers'[c] = answers[c]
      BY <1>1, <2>2
    <3>2. k \in DOMAIN answers[c]
      BY <1>4, <3>1
    <3> QED BY <3>1, <3>2 DEF VerdictInv, VerdictsJustified
  <2> QED BY <2>1, <2>2
<1> QED BY <1>4 DEF VerdictsJustified

(* Every step of Zuul's client, and of what befalls its connection.        *)
LEMMA ClientKeepsVerdicts ==
  ASSUME LaunchInv, VerdictInv, ClientNext, UNCHANGED launcher
  PROVE  VerdictInv'
<1> DEFINE Answering == handler.at = "answer" =>
                          Justified(handler.packet.result, handler.packet.seen)
<1>0. AreSound(w') /\ Truthful(packets) /\ Answering /\ VerdictsJustified
  BY DEF VerdictInv, launcher
<1>a. ASSUME UNCHANGED <<packets, handler, answers>> PROVE VerdictInv'
  BY <1>0, <1>a DEF VerdictInv, Truthful, VerdictsJustified
<1>b. ASSUME NEW b \in Build, answers[b] = <<>>, NEW r, NEW seen, Justified(r, seen),
             Answer(b, r, seen), UNCHANGED packets, handler' = handler \/ handler' = Free
      PROVE  VerdictInv'
  <2>1. VerdictsJustified'
    BY <1>b, AnswerIsJustified
  <2> QED BY <1>0, <1>b, <2>1 DEF VerdictInv, Truthful, Free
<1>1. ASSUME NEW b \in Build, Launch(b) PROVE VerdictInv'
  <2>1. answers[b] = <<>> /\ UNCHANGED <<packets, handler>>
    BY <1>1 DEF Launch, gearman, LaunchInv, Unasked
  <2>2. \/ UNCHANGED answers
        \/ Answer(b, "SUCCESS", {"noop"})
        \/ Answer(b, "NOT_REGISTERED", {"unknown"})
    BY <1>1 DEF Launch
  <2>3. Justified("SUCCESS", {"noop"}) /\ Justified("NOT_REGISTERED", {"unknown"})
    BY DEF Justified
  <2> QED BY <2>1, <2>2, <2>3, <1>a, <1>b
<1>2. CASE Submit
  <2>1. /\ scheduler.build \in Build /\ answers[scheduler.build] = <<>>
        /\ UNCHANGED <<packets, handler>>
    BY <1>2 DEF Submit, LaunchInv, Submitting, Outstanding, Shape
  <2>2. \/ UNCHANGED answers
        \/ \E r \in {"EXCEPTION", "NO_HANDLE"} : Answer(scheduler.build, r, {"unsubmitted"})
    BY <1>2 DEF Submit
  <2>3. \A r \in {"EXCEPTION", "NO_HANDLE"} : Justified(r, {"unsubmitted"})
    BY DEF Justified
  <2> QED BY <2>1, <2>2, <2>3, <1>a, <1>b
<1>3. CASE (\E b \in Build : Cancel(b)) \/ CancelJobInQueue \/ CancelAgain
  BY <1>3, <1>a DEF Cancel, CancelJobInQueue, CancelAgain
<1>4. CASE OnWorkStatus \/ OnMetaJobCompleted \/ OnBuildCompleted
  <2>1. /\ packets # <<>> /\ packets' = Tail(packets) /\ UNCHANGED answers
        /\ \/ UNCHANGED handler
           \/ /\ handler' = [at |-> "answer", packet |-> Head(packets)]
              /\ Head(packets).kind = "done"
    BY <1>4 DEF OnWorkStatus, OnMetaJobCompleted, OnBuildCompleted, Received
  <2>2. ToSet(packets') \subseteq ToSet(packets) /\ Head(packets) \in ToSet(packets)
    BY <2>1, TakenFromTheFront DEF LaunchInv, Shape
  <2>3. Truthful(packets') /\ Answering'
    BY <1>0, <2>1, <2>2 DEF Truthful
  <2> QED BY <1>0, <2>1, <2>3 DEF VerdictInv, VerdictsJustified
<1>5. CASE TellScheduler
  <2> DEFINE p == handler.packet
  <2>1. p.build \in Build /\ answers[p.build] = <<>> /\ Justified(p.result, p.seen)
    BY <1>0, <1>5 DEF TellScheduler, LaunchInv, Outstanding, Shape
  <2>2. Answer(p.build, p.result, p.seen) /\ UNCHANGED packets /\ handler' = Free
    BY <1>5 DEF TellScheduler, gearman
  <2> HIDE DEF p
  <2> QED BY <2>1, <2>2, <1>b
<1>6. CASE OnDisconnect
  <2>1. \A p \in ToSet(packets') :
             p.kind = "done" => p.result = "none" /\ p.seen = {"lost"}
    <3> SUFFICES ASSUME NEW p \in ToSet(packets'), p.kind = "done"
                 PROVE  p.result = "none" /\ p.seen = {"lost"}
      OBVIOUS
    <3>1. PICK b : p = WorkDone(b, "none", {"lost"}) \/ p = MetaDone(b, {"lost"})
      BY <1>0, <1>6, LostPackets
    <3> QED BY <3>1 DEF WorkDone, MetaDone
  <2>2. Justified("none", {"lost"})
    BY DEF Justified
  <2>3. Truthful(packets')
    BY <2>1, <2>2 DEF Truthful
  <2>4. UNCHANGED <<handler, answers>>
    BY <1>6 DEF OnDisconnect
  <2> QED BY <1>0, <2>3, <2>4 DEF VerdictInv, VerdictsJustified
<1> QED
  BY <1>1, <1>2, <1>3, <1>4, <1>5, <1>6 DEF ClientNext, SchedulerThread, ClientThread

-----------------------------------------------------------------------------
(* The theorems.                                                           *)

(* No worker has a build, and nothing was said.                            *)
LEMMA InitVerdictInv == Init => VerdictInv
<1> SUFFICES ASSUME Init PROVE VerdictInv
  OBVIOUS
<1>1. AreSound(w)
  BY NewIsSound DEF Init, LauncherInit, AreSound
<1>2. Truthful(packets)
  BY DEF Init, GearmanInit, Truthful, ToSet
<1>3. handler.at # "answer" /\ VerdictsJustified
  BY DEF Init, ClientInit, Free, VerdictsJustified
<1> QED BY <1>1, <1>2, <1>3 DEF VerdictInv

(* Every step of the two programs and the Gearman server.                  *)
LEMMA NextVerdictInv == LaunchInv /\ VerdictInv /\ [Next]_vars => VerdictInv'
<1> SUFFICES ASSUME LaunchInv, VerdictInv, [Next]_vars PROVE VerdictInv'
  OBVIOUS
<1>1. CASE ClientNext /\ UNCHANGED launcher
  BY <1>1, ClientKeepsVerdicts
<1>2. CASE LauncherNext /\ UNCHANGED client
  <2>1. Vouches
    BY <1>2, LauncherNextVouches
  <2> QED BY <1>2, <2>1 DEF Vouches, VerdictInv, VerdictsJustified, client
<1>3. CASE UNCHANGED vars
  BY <1>3 DEF vars, gearman, client, launcher, VerdictInv, VerdictsJustified, Truthful
<1> QED BY <1>1, <1>2, <1>3 DEF Next

(* What the scheduler is told of a build is what happened to it: for any   *)
(* builds, nodes, configurations, commands, faults and bounds, with aborts,*)
(* watchdogs, stops and lost connections at any point, a SUCCESS went      *)
(* through both playbooks undisturbed, a FAILURE failed or timed out, and  *)
(* a null result, which makes Zuul run the job again, has a cause that     *)
(* lies outside the job - although the flags that runJob judges by are set *)
(* by other threads and the watchdog's is never reset.                     *)
THEOREM VerdictsAreJustified == Spec => []VerdictsJustified
<1>1. Init => VerdictInv
  BY InitVerdictInv
<1>2. LaunchInv /\ VerdictInv /\ [Next]_vars => VerdictInv'
  BY NextVerdictInv
<1>3. VerdictInv => VerdictsJustified
  BY DEF VerdictInv
<1> QED BY <1>1, <1>2, <1>3, LaunchInvariance, PTL DEF Spec
=============================================================================
