---------------------------- MODULE WorkerProofs ----------------------------
(***************************************************************************)
(* No outstanding build is ever lost; and the node workers: their types,   *)
(* the end of their threads, which nodepool hears of, and the way a stop   *)
(* job finds them, for any builds, jobs, nodes, configurations, commands,  *)
(* bounds and faults.                                                      *)
(***************************************************************************)
EXTENDS LaunchingProofs

-----------------------------------------------------------------------------
(* The inductive invariant for the builds.                                 *)

(* A worker that has a build and a connection to answer it.                *)
AtWork == {"got", "launching", "prepare", "starting", "playing", "post", "finished",
           "reporting"}
Has(r, b) == r.gear \in AtWork /\ r.build = b /\ r.connected

(* The fields of a worker that this depends on.                            *)
Holding == {"gear", "build", "connected"}
IsHolder(r) == r = [f \in DOMAIN r |-> r[f]] /\ Holding \subseteq DOMAIN r

(* Only a connected worker waits in getJob.                                *)
Sane(r) == IsHolder(r) /\ (r.gear = "getting" => r.connected)
AreSane(ws) == ws = [n \in Node |-> ws[n]] /\ \A n \in Node : Sane(ws[n])

(* What is under way of a job the connection no longer knows is only what  *)
(* the client makes of the loss of the last one.                           *)
LateNotices ==
  \A p \in ToSet(packets) : p.kind = "done" /\ p.build \notin attached => IsLost(p)

LossInv == AreSane(w) /\ LateNotices /\ NoBuildLost

-----------------------------------------------------------------------------
(* What the steps of the launch server and its workers may do.             *)

EndSaid(b, ps) == \E p \in ToSet(ps) : p.kind = "done" /\ p.build = b

(* Whoever lets go of a build that the client's connection knows says so,  *)
(* and whoever takes one out of the queue has it.                          *)
Delivers ==
  /\ AreSane(w')
  /\ attached' = attached /\ waiting' \subseteq waiting
  /\ ToSet(packets) \subseteq ToSet(packets')
  /\ \A p \in ToSet(packets') \ ToSet(packets) : p.kind = "done" => p.build \in attached
  /\ \A b \in attached, n \in Node : Has(w[n], b) => Has(w'[n], b) \/ EndSaid(b, packets')
  /\ \A b \in waiting \ waiting' : \E n \in Node : Has(w'[n], b)

(* A worker's build is busy with it as long as it is at work.              *)
LEMMA BusyAtWork == \A r : Busy(r) <=> r.gear \in AtWork
BY DEF Busy, Running, AtWork

(* A change of a worker that keeps what it has.                            *)
Steady(r, s) ==
  /\ IsHolder(s) /\ s.build = r.build /\ s.connected = r.connected
  /\ \/ s.gear = r.gear
     \/ s.gear \in AtWork
     \/ r.gear \notin AtWork /\ (s.gear = "getting" => r.connected)

(* Such a change keeps a worker sane, and its build.                       *)
LEMMA SteadyKeeps ==
  ASSUME NEW r, Sane(r), NEW s, Steady(r, s)
  PROVE  Sane(s) /\ \A b : Has(r, b) => Has(s, b)
BY DEF Sane, Steady, Has, AtWork

(* Two such changes after each other make another.                         *)
LEMMA SteadyTwice ==
  ASSUME NEW r, NEW s, NEW t, Steady(r, s), IsHolder(t), t.build = s.build,
         t.connected = s.connected, t.gear = s.gear
  PROVE  Steady(r, t)
BY DEF Steady

(* Changing one worker, and maybe sending a packet.                        *)
LEMMA WorkerDelivers ==
  ASSUME Shape, AreSane(w), NEW n \in Node, NEW s, Sane(s), w' = [w EXCEPT ![n] = s],
         UNCHANGED <<waiting, attached>>,
         NEW p, ToClient(p) \/ UNCHANGED packets,
         \A b \in attached :
           Has(w[n], b) => Has(s, b) \/ (ToClient(p) /\ p.kind = "done" /\ p.build = b)
  PROVE  Delivers
<1>1. AreSane(w') /\ \A m \in Node : w'[m] = IF m = n THEN s ELSE w[m]
  BY DEF AreSane
<1>2. CASE ToClient(p) /\ p.build \in attached
  <2>1. packets' = Append(packets, p)
    BY <1>2 DEF ToClient
  <2>2. ToSet(packets) \cup {p} \subseteq ToSet(packets')
        /\ ToSet(packets') \subseteq ToSet(packets) \cup {p}
    BY <2>1, AddedAtTheEnd, AddedToTheRest DEF Shape
  <2> QED BY <1>1, <1>2, <2>2 DEF Delivers, EndSaid
<1>3. CASE ~(ToClient(p) /\ p.build \in attached)
  <2>1. packets' = packets
    BY <1>3 DEF ToClient
  <2> QED BY <1>1, <1>3, <2>1 DEF Delivers
<1> QED BY <1>2, <1>3

(* Changing one worker, and nothing else.                                  *)
LEMMA QuietDelivers ==
  ASSUME AreSane(w), NEW n \in Node, NEW s, Sane(s), w' = [w EXCEPT ![n] = s],
         \A b : Has(w[n], b) => Has(s, b), UNCHANGED <<waiting, attached, packets>>
  PROVE  Delivers
<1>1. AreSane(w') /\ \A m \in Node : w'[m] = IF m = n THEN s ELSE w[m]
  BY DEF AreSane
<1>2. \A b \in attached, m \in Node : Has(w[m], b) => Has(w'[m], b)
  BY <1>1
<1> QED BY <1>1, <1>2 DEF Delivers

(* The same, with a change that keeps the build.                           *)
LEMMA SteadyDelivers ==
  ASSUME AreSane(w), NEW n \in Node, NEW s, Steady(w[n], s), w' = [w EXCEPT ![n] = s],
         UNCHANGED <<waiting, attached, packets>>
  PROVE  Delivers
<1>1. Sane(s) /\ \A b : Has(w[n], b) => Has(s, b)
  BY SteadyKeeps DEF AreSane
<1> QED BY <1>1, QuietDelivers

(* Telling workers what to do.                                             *)
LEMMA TellSane ==
  ASSUME AreSane(w), NEW S, NEW actions, w' = Tell(S, actions)
  PROVE  AreSane(w') /\ \A n \in Node : \A b : Has(w[n], b) => Has(w'[n], b)
<1>1. \A n \in Node :
        Sane(w[n]) /\ w'[n] \in {w[n], [w[n] EXCEPT !.todo = @ \o actions]}
  BY DEF AreSane, Tell
<1>2. ASSUME NEW r, Sane(r) PROVE Steady(r, [r EXCEPT !.todo = @ \o actions])
  BY <1>2 DEF Sane, Steady, IsHolder, Holding
<1>3. \A n \in Node : Sane(w'[n]) /\ \A b : Has(w[n], b) => Has(w'[n], b)
  BY <1>1, <1>2, SteadyKeeps
<1>4. w' = [n \in Node |-> w'[n]]
  BY DEF Tell
<1> QED BY <1>3, <1>4 DEF AreSane

(* The same, when nothing else happens.                                    *)
LEMMA TellDelivers ==
  ASSUME AreSane(w), NEW S, NEW actions, w' = Tell(S, actions),
         UNCHANGED <<waiting, attached, packets>>
  PROVE  Delivers
<1>1. AreSane(w') /\ \A n \in Node : \A b : Has(w[n], b) => Has(w'[n], b)
  BY TellSane
<1> QED BY <1>1 DEF Delivers

(* A new worker is sane, and so is the record of none.                     *)
LEMMA NewIsSane == Sane(NewWorker) /\ Sane(NoWorker)
<1> DEFINE r == NewWorker
<1>1. /\ r.gear = "top" /\ Holding \subseteq DOMAIN r
      /\ r = [f \in DOMAIN r |-> r[f]]
  BY DEF NewWorker, Holding
<1>2. Sane(r)
  BY <1>1 DEF Sane, IsHolder
<1> HIDE DEF r
<1>3. Sane([r EXCEPT !.life = "none", !.running = FALSE, !.connected = FALSE,
                     !.queuer = "done", !.gear = "ended", !.registered = {}])
  BY <1>1 DEF Sane, IsHolder, Holding
<1> QED BY <1>2, <1>3 DEF NoWorker, r

-----------------------------------------------------------------------------
(* The steps of the launch server.                                         *)

(* What the launch server does, at a request or command.                   *)
LEMMA ServerDelivers ==
  ASSUME Shape, AreSane(w),
         \/ \E n \in Node : AssignNode(n) \/ RevokeNode(n)
         \/ \E b \in Build : StopJob(b)
         \/ Reap \/ Pause \/ Unpause \/ ReleaseNodes \/ ReloadJobs \/ Graceful \/ Stop
         \/ CommandThread
  PROVE  Delivers
<1>1. ASSUME NEW n \in Node, AssignNode(n) PROVE Delivers
  <2>1. /\ w' = [w EXCEPT ![n] = NewWorker] /\ UNCHANGED <<waiting, attached, packets>>
        /\ w[n].gear = "ended"
    BY <1>1 DEF AssignNode
  <2>2. \A b : ~Has(w[n], b)
    BY <2>1 DEF Has, AtWork
  <2> QED BY <2>1, <2>2, NewIsSane, QuietDelivers
<1>2. CASE \E S, actions : w' = Tell(S, actions) /\ UNCHANGED <<waiting, attached, packets>>
  BY <1>2, TellDelivers
<1>3. ASSUME NEW b \in Build, StopJob(b) PROVE Delivers
  <2>1. /\ w' = Tell({serving[b]} \cap Alive, <<"abort">>)
        /\ packets' = Append(packets, MetaDone(b, {}))
        /\ UNCHANGED <<waiting, attached>>
    BY <1>3 DEF StopJob
  <2>2. /\ ToSet(packets) \subseteq ToSet(packets')
        /\ ToSet(packets') \subseteq ToSet(packets) \cup {MetaDone(b, {})}
    BY <2>1, AddedAtTheEnd, AddedToTheRest DEF Shape
  <2>3. MetaDone(b, {}).kind # "done"
    BY DEF MetaDone
  <2>4. AreSane(w') /\ \A n \in Node : \A c : Has(w[n], c) => Has(w'[n], c)
    BY <2>1, TellSane
  <2> QED BY <2>1, <2>2, <2>3, <2>4 DEF Delivers
<1>4. CASE UNCHANGED <<w, waiting, attached, packets>>
  BY <1>4 DEF Delivers
<1>5. CASE StopNextNode
  <2>1. PICK n : w' = [w EXCEPT ![n].running = FALSE, ![n].unpaused = TRUE] \/ w' = w
    BY <1>5 DEF StopNextNode
  <2>2. UNCHANGED <<waiting, attached, packets>>
    BY <1>5 DEF StopNextNode, gearman
  <2>3. CASE n \in Node /\ w' # w
    <3> DEFINE s == [w[n] EXCEPT !.running = FALSE, !.unpaused = TRUE]
    <3>1. Sane(w[n])
      BY <2>3 DEF AreSane
    <3>2. Steady(w[n], s)
      BY <3>1 DEF Sane, Steady, IsHolder, Holding
    <3>3. w' = [w EXCEPT ![n] = s]
      BY <2>1, <2>3
    <3> HIDE DEF s
    <3> QED BY <2>2, <2>3, <3>2, <3>3, SteadyDelivers
  <2>4. CASE n \notin Node \/ w' = w
    <3>1. w' = w
      BY <2>1, <2>4 DEF AreSane
    <3> QED BY <2>2, <3>1, <1>4
  <2> QED BY <2>3, <2>4
<1>6. ASSUME NEW n \in Node, RevokeNode(n) PROVE Delivers
  BY <1>2, <1>6 DEF RevokeNode, gearman
<1>7. CASE Pause \/ Unpause \/ ReleaseNodes \/ ReloadJobs \/ Graceful \/ PutStop
  BY <1>2, <1>7 DEF Pause, Unpause, ReleaseNodes, ReloadJobs, Graceful, PutStop, gearman
<1>8. CASE Reap \/ Stop \/ Drained \/ JoinQueue \/ Stopped
  BY <1>4, <1>8 DEF Reap, Stop, Drained, JoinQueue, Stopped, gearman
<1> QED
  BY <1>1, <1>3, <1>5, <1>6, <1>7, <1>8 DEF CommandThread

-----------------------------------------------------------------------------
(* The steps of a node worker.                                             *)

(* A worker closes its connection: the server says what becomes of its     *)
(* build.                                                                  *)
LEMMA ShutdownDelivers ==
  ASSUME Shape, AreSane(w), NEW n \in Node, NEW r, Steady(w[n], r), Shutdown(n, r),
         UNCHANGED <<waiting, attached>>
  PROVE  Delivers
<1> DEFINE s == [r EXCEPT !.connected = FALSE, !.queuer = "check",
                          !.gear = IF @ = "getting" THEN "top" ELSE @]
           p == WorkDone(r.build, "none", {"gone"})
<1>1. Sane(r) /\ \A b : Has(w[n], b) => Has(r, b)
  BY SteadyKeeps DEF AreSane
<1>2. IsHolder(s) /\ s.gear # "getting"
  BY <1>1 DEF Sane, IsHolder, Holding
<1>3. /\ w' = [w EXCEPT ![n] = s]
      /\ IF Busy(r) /\ r.connected THEN ToClient(p) ELSE UNCHANGED packets
  BY DEF Shutdown
<1>4. p.kind = "done" /\ p.build = r.build
  BY DEF WorkDone
<1> HIDE DEF s, p
<1>5. Sane(s)
  BY <1>2 DEF Sane
<1>6. \A b : Has(w[n], b) => Busy(r) /\ r.connected /\ r.build = b
  BY <1>1, BusyAtWork DEF Has
<1>7. CASE Busy(r) /\ r.connected
  BY <1>3, <1>4, <1>5, <1>6, <1>7, WorkerDelivers
<1>8. CASE ~(Busy(r) /\ r.connected)
  BY <1>3, <1>5, <1>6, <1>8, QuietDelivers
<1> QED BY <1>7, <1>8

(* What the operators on a worker's record do to it.                       *)
LEMMA RecordsSteady ==
  ASSUME NEW r, Sane(r)
  PROVE  /\ Steady(r, PausedWorker(r)) /\ Steady(r, AbortedWorker(r))
         /\ Steady(r, Farewell(r)) /\ Steady(r, RegisterNow(r))
         /\ \A result, why : r.gear \in AtWork => Steady(r, Finished(r, result, why))
<1>0. IsHolder(r)
  BY DEF Sane
<1>1. Steady(r, PausedWorker(r))
  BY <1>0 DEF Steady, IsHolder, Holding, PausedWorker, AtWork
<1>2. Steady(r, AbortedWorker(r))
  BY <1>0 DEF Steady, IsHolder, Holding, AbortedWorker
<1>3. Steady(r, Farewell(r))
  BY <1>0 DEF Steady, IsHolder, Holding, Farewell
<1>4. Steady(r, RegisterNow(r))
  BY <1>0 DEF Steady, IsHolder, Holding, RegisterNow
<1>5. ASSUME NEW result, NEW why, r.gear \in AtWork
      PROVE  Steady(r, Finished(r, result, why))
  BY <1>0, <1>5 DEF Steady, IsHolder, Holding, Finished, AtWork
<1> QED BY <1>1, <1>2, <1>3, <1>4, <1>5

(* Every step of a worker's queue thread.                                  *)
LEMMA QueueThreadDelivers ==
  ASSUME Shape, AreSane(w), NEW n \in Node, QueueThread(n)
  PROVE  Delivers
<1> DEFINE Quiet == UNCHANGED <<waiting, attached, packets>>
           Steadily(s) == Steady(w[n], s) /\ w' = [w EXCEPT ![n] = s]
           Keeps(r, s) == /\ IsHolder(s) /\ s.build = r.build
                          /\ s.connected = r.connected /\ s.gear = r.gear
<1>0. Sane(w[n]) /\ IsHolder(w[n])
  BY DEF AreSane, Sane
<1>a. ASSUME NEW s, Steadily(s), Quiet PROVE Delivers
  BY <1>a, SteadyDelivers
<1>k. ASSUME NEW r, Steady(w[n], r), NEW s, Keeps(r, s) PROVE Steady(w[n], s)
  BY <1>k, SteadyTwice
<1>r. Steady(w[n], w[n]) /\ Steady(w[n], Rest(n)) /\ Sane(Rest(n)) /\ IsHolder(Rest(n))
      /\ Rest(n).gear = w[n].gear /\ Rest(n).build = w[n].build
      /\ Rest(n).connected = w[n].connected
  BY <1>0 DEF Rest, Steady, Sane, IsHolder, Holding
<1>s. ASSUME NEW s, Steady(Rest(n), s) PROVE Steady(w[n], s)
  BY <1>r, <1>s DEF Steady
<1>b. ASSUME NEW s, Keeps(w[n], s), w' = [w EXCEPT ![n] = s], Quiet PROVE Delivers
  BY <1>b, <1>k, <1>r, <1>a
<1>1. CASE QueueLoop(n)
  <2>1. \/ w' = [w EXCEPT ![n] = [w[n] EXCEPT !.queuer = "get"]]
        \/ w' = [w EXCEPT ![n] = [w[n] EXCEPT !.queuer = "done", !.life = "dead"]]
    BY <1>1 DEF QueueLoop
  <2>2. /\ Keeps(w[n], [w[n] EXCEPT !.queuer = "get"])
        /\ Keeps(w[n], [w[n] EXCEPT !.queuer = "done", !.life = "dead"])
    BY <1>0 DEF IsHolder, Holding
  <2>3. Quiet
    BY <1>1 DEF QueueLoop, gearman
  <2> QED BY <2>1, <2>2, <2>3, <1>b
<1>2. CASE TakeStop(n)
  <2> DEFINE q == [Rest(n) EXCEPT !.running = FALSE]
             r == AbortedWorker(q)
             s == [r EXCEPT !.queuer = "stopping"]
  <2>1. Keeps(Rest(n), q)
    BY <1>r DEF IsHolder, Holding
  <2>2. /\ \/ w' = [w EXCEPT ![n] = s] /\ UNCHANGED packets
           \/ Shutdown(n, Farewell(r))
        /\ UNCHANGED <<waiting, attached>>
    BY <1>2 DEF TakeStop
  <2> HIDE DEF q
  <2>3. Steady(w[n], q) /\ Sane(q)
    BY <2>1, <1>r, <1>k, <1>0, SteadyKeeps
  <2>4. Steady(q, r) /\ Sane(r) /\ r.gear = q.gear
    BY <2>3, RecordsSteady, SteadyKeeps DEF AbortedWorker, Sane, IsHolder, Holding
  <2>5. Steady(w[n], r)
    BY <2>3, <2>4 DEF Steady
  <2> HIDE DEF r
  <2>6. Keeps(r, s) /\ Keeps(r, Farewell(r))
    BY <2>4 DEF Sane, IsHolder, Holding, Farewell
  <2> HIDE DEF s
  <2>7. Steady(w[n], s) /\ Steady(w[n], Farewell(r))
    BY <2>5, <2>6, <1>k
  <2> QED BY <2>2, <2>7, <1>a, ShutdownDelivers
<1>3. CASE StopWaited(n)
  BY <1>3, <1>r, ShutdownDelivers DEF StopWaited
<1>4. CASE TakePause(n)
  <2>1. w' = [w EXCEPT ![n] = PausedWorker(Rest(n))] /\ Quiet
    BY <1>4 DEF TakePause, gearman
  <2> QED BY <2>1, <1>r, <1>s, <1>a, RecordsSteady
<1>5. CASE TakeUnpause(n)
  <2>1. w' = [w EXCEPT ![n] = [Rest(n) EXCEPT !.unpaused = TRUE]] /\ Quiet
    BY <1>5 DEF TakeUnpause, gearman
  <2>2. Keeps(Rest(n), [Rest(n) EXCEPT !.unpaused = TRUE])
    BY <1>r DEF IsHolder, Holding
  <2> QED BY <2>1, <2>2, <1>r, <1>k, <1>a
<1>6. CASE TakeRelease(n)
  <2> DEFINE r == IF w[n].unpaused THEN PausedWorker(Rest(n)) ELSE Rest(n)
             s == [r EXCEPT !.queuer = "releasing", !.wasUnpaused = w[n].unpaused]
  <2>1. w' = [w EXCEPT ![n] = s] /\ Quiet
    BY <1>6 DEF TakeRelease, gearman
  <2>2. Steady(w[n], r)
    BY <1>r, <1>s, RecordsSteady
  <2> HIDE DEF r
  <2>3. Keeps(r, s)
    BY <2>2 DEF Steady, IsHolder, Holding
  <2> HIDE DEF s
  <2> QED BY <2>1, <2>2, <2>3, <1>k, <1>a
<1>7. CASE ReleaseLocked(n)
  <2>1. \/ \E v : w' = [w EXCEPT ![n] = [w[n] EXCEPT !.queuer = "check", !.unpaused = v]]
        \/ \E v : w' = [w EXCEPT ![n] = [w[n] EXCEPT !.queuer = "check", !.todo = v]]
    BY <1>7 DEF ReleaseLocked
  <2>2. \A v : /\ Keeps(w[n], [w[n] EXCEPT !.queuer = "check", !.unpaused = v])
               /\ Keeps(w[n], [w[n] EXCEPT !.queuer = "check", !.todo = v])
    BY <1>0 DEF IsHolder, Holding
  <2>3. Quiet
    BY <1>7 DEF ReleaseLocked, gearman
  <2> QED BY <2>1, <2>2, <2>3, <1>b
<1>8. CASE TakeReconfigure(n)
  <2>1. \/ w' = [w EXCEPT ![n] = RegisterNow(Rest(n))]
        \/ \E v : w' = [w EXCEPT ![n] = [Rest(n) EXCEPT !.pending = v]]
    BY <1>8 DEF TakeReconfigure
  <2>2. \A v : Keeps(Rest(n), [Rest(n) EXCEPT !.pending = v])
    BY <1>r DEF IsHolder, Holding
  <2>3. Quiet
    BY <1>8 DEF TakeReconfigure, server
  <2> QED BY <2>1, <2>2, <2>3, <1>r, <1>s, <1>k, <1>a, RecordsSteady
<1>9. CASE TakeAbort(n)
  <2>1. w' = [w EXCEPT ![n] = AbortedWorker(Rest(n))] /\ Quiet
    BY <1>9 DEF TakeAbort, gearman
  <2> QED BY <2>1, <1>r, <1>s, <1>a, RecordsSteady
<1> QED
  BY <1>1, <1>2, <1>3, <1>4, <1>5, <1>6, <1>7, <1>8, <1>9 DEF QueueThread

(* A worker whose thread is at work has a build until it says it is done.  *)
LEMMA GearThreadDelivers ==
  ASSUME Shape, AreSane(w), NEW n \in Node, GearThread(n) \/ AnsibleTimeout(n) \/ GotJob(n)
  PROVE  Delivers
<1> DEFINE r == w[n]
           Quiet == UNCHANGED <<waiting, attached, packets>>
           Becomes(s) == w' = [w EXCEPT ![n] = s]
           (* A change of what no build depends on, at a given place. *)
           At(s, places) == /\ IsHolder(s) /\ s.build = r.build /\ s.connected = r.connected
                            /\ s.gear \in places
           Idle == {"top", "ready", "registering", "put", "join", "ended"}
<1>0. Sane(r) /\ IsHolder(r)
  BY DEF AreSane, Sane
<1>a. ASSUME NEW s, Becomes(s), Quiet, At(s, AtWork) PROVE Delivers
  BY <1>a, SteadyDelivers DEF Steady
<1>b. ASSUME NEW s, Becomes(s), Quiet, r.gear \notin AtWork, At(s, Idle) PROVE Delivers
  BY <1>b, SteadyDelivers DEF Steady
<1>f. \A result, why : At(Finished(r, result, why), AtWork)
  BY <1>0 DEF IsHolder, Holding, Finished, AtWork
<1>l. Sane(Looped(r)) /\ Sane(Looped([r EXCEPT !.sentComplete = TRUE, !.complete = TRUE]))
  BY <1>0 DEF Sane, IsHolder, Holding, Looped
<1>d. ASSUME NEW s, Sane(s), Becomes(s), UNCHANGED <<waiting, attached>>,
             NEW p, p.kind = "done", p.build = r.build, Respond(n, p)
      PROVE  Delivers
  <2>1. CASE r.connected
    <3>1. ToClient(p)
      BY <1>d, <2>1 DEF Respond
    <3> QED BY <1>d, <3>1, WorkerDelivers DEF Has
  <2>2. CASE ~r.connected
    <3>1. UNCHANGED packets /\ \A b : ~Has(r, b)
      BY <1>d, <2>2 DEF Respond, Has
    <3> QED BY <1>d, <3>1, QuietDelivers
  <2> QED BY <2>1, <2>2
<1>1. CASE GearLoop(n)
  <2>1. r.gear = "top" /\ Quiet
    BY <1>1 DEF GearLoop, gearman
  <2>2. \E g \in {"ended", "registering", "ready"} : Becomes([r EXCEPT !.gear = g])
    BY <1>1 DEF GearLoop
  <2>3. \A g \in {"ended", "registering", "ready"} : At([r EXCEPT !.gear = g], Idle)
    BY <1>0 DEF IsHolder, Holding
  <2> QED BY <2>1, <2>2, <2>3, <1>b DEF AtWork
<1>2. CASE GearRegister(n)
  <2> DEFINE s == [RegisterNow(r) EXCEPT !.gear = "ready"]
  <2>1. r.gear = "registering" /\ Becomes(s) /\ Quiet
    BY <1>2 DEF GearRegister, server
  <2>2. At(s, Idle)
    BY <1>0 DEF RegisterNow, IsHolder, Holding
  <2> HIDE DEF s
  <2> QED BY <2>1, <2>2, <1>b DEF AtWork
<1>3. CASE GetJob(n)
  <2> DEFINE s == [r EXCEPT !.gear = IF r.connected THEN "getting" ELSE "top"]
  <2>1. r.gear = "ready" /\ Becomes(s) /\ Quiet
    BY <1>3 DEF GetJob, gearman
  <2>2. /\ IsHolder(s) /\ s.build = r.build /\ s.connected = r.connected
        /\ s.gear = IF r.connected THEN "getting" ELSE "top"
    BY <1>0 DEF IsHolder, Holding
  <2> HIDE DEF s
  <2>3. Steady(r, s)
    BY <2>1, <2>2 DEF Steady, AtWork
  <2> QED BY <2>1, <2>3, SteadyDelivers
<1>4. CASE GotJob(n)
  <2>1. PICK b \in waiting :
          /\ waiting' = waiting \ {b}
          /\ Becomes([r EXCEPT !.gear = "got", !.build = b, !.gotJob = TRUE])
    BY <1>4 DEF GotJob
  <2> DEFINE s == [r EXCEPT !.gear = "got", !.build = b, !.gotJob = TRUE]
  <2>2. r.gear = "getting" /\ UNCHANGED <<attached, packets>>
    BY <1>4 DEF GotJob
  <2>3. r.connected /\ \A c : ~Has(r, c)
    BY <1>0, <2>2 DEF Sane, Has, AtWork
  <2>4. IsHolder(s) /\ s.gear = "got" /\ s.build = b /\ s.connected = r.connected
    BY <1>0 DEF IsHolder, Holding
  <2> HIDE DEF s
  <2>5. Sane(s) /\ Has(s, b)
    BY <2>3, <2>4 DEF Sane, Has, AtWork
  <2>6. AreSane(w') /\ \A m \in Node : w'[m] = IF m = n THEN s ELSE w[m]
    BY <2>1, <2>5 DEF AreSane, s
  <2> QED BY <2>1, <2>2, <2>3, <2>5, <2>6 DEF Delivers
<1>5. CASE LaunchBuild(n)
  <2> DEFINE p == WorkDone(r.build, "none", {"unknown"})
  <2>1. /\ \/ \E v : Becomes([r EXCEPT !.gear = "launching", !.sentComplete = FALSE,
                                        !.aborted = FALSE, !.seen = v]) /\ UNCHANGED packets
           \/ Becomes(Looped(r)) /\ Respond(n, p)
        /\ UNCHANGED <<waiting, attached>>
    BY <1>5 DEF LaunchBuild
  <2>2. \A v : At([r EXCEPT !.gear = "launching", !.sentComplete = FALSE,
                            !.aborted = FALSE, !.seen = v], AtWork)
    BY <1>0 DEF IsHolder, Holding, AtWork
  <2>3. p.kind = "done" /\ p.build = r.build
    BY DEF WorkDone
  <2> HIDE DEF p
  <2> QED BY <2>1, <2>2, <2>3, <1>a, <1>d, <1>l
<1>6. CASE BeginJob(n)
  <2> DEFINE s == [r EXCEPT !.gear = "prepare", !.runningJob = TRUE, !.complete = FALSE]
  <2>1. (Becomes(s) \/ Becomes(Finished(r, "none", {"stopped"}))) /\ Quiet
    BY <1>6 DEF BeginJob, gearman
  <2>2. At(s, AtWork)
    BY <1>0 DEF IsHolder, Holding, AtWork
  <2> HIDE DEF s
  <2> QED BY <2>1, <2>2, <1>a, <1>f
<1>7. CASE PrepareJob(n)
  <2> DEFINE s == [r EXCEPT !.gear = "starting"]
             p == WorkData(r.build)
  <2>1. /\ \/ Becomes(s) /\ ToClient(p)
           \/ Becomes(Finished(r, "none", {"error"})) /\ UNCHANGED packets
        /\ r.gear \in AtWork /\ UNCHANGED <<waiting, attached>>
    BY <1>7 DEF PrepareJob, AtWork
  <2>2. At(s, AtWork)
    BY <1>0 DEF IsHolder, Holding, AtWork
  <2> HIDE DEF s, p
  <2>3. Sane(s) /\ \A b : Has(r, b) => Has(s, b)
    BY <2>2 DEF Sane, Has, AtWork
  <2>4. CASE Becomes(s) /\ ToClient(p)
    BY <2>1, <2>3, <2>4, WorkerDelivers
  <2> QED BY <2>1, <2>4, <1>a, <1>f
<1>8. CASE StartPlaybook(n)
  <2> DEFINE s == [r EXCEPT !.gear = "playing", !.proc = "on"]
  <2>1. Becomes(s) /\ Quiet
    BY <1>8 DEF StartPlaybook, gearman
  <2>2. At(s, AtWork)
    BY <1>0 DEF IsHolder, Holding, AtWork
  <2> HIDE DEF s
  <2> QED BY <2>1, <2>2, <1>a
<1>9. CASE AnsibleTimeout(n)
  <2>1. \E v : Becomes([r EXCEPT !.timedOut = TRUE, !.proc = "killed", !.seen = v])
    BY <1>9 DEF AnsibleTimeout
  <2>2. r.gear \in {"playing", "post"} /\ Quiet
    BY <1>9 DEF AnsibleTimeout
  <2>3. \A v : At([r EXCEPT !.timedOut = TRUE, !.proc = "killed", !.seen = v], AtWork)
    BY <1>0, <2>2 DEF IsHolder, Holding, AtWork
  <2> QED BY <2>1, <2>2, <2>3, <1>a
<1>10. CASE PlaybookExits(n)
  <2>1. \/ \E exit : Becomes(Finished(r, "none", {exit}))
        \/ \E v, t : Becomes([r EXCEPT !.gear = "post", !.proc = "on", !.seen = v,
                                       !.status = t])
    BY <1>10 DEF PlaybookExits
  <2>2. \A v, t : At([r EXCEPT !.gear = "post", !.proc = "on", !.seen = v, !.status = t],
                     AtWork)
    BY <1>0 DEF IsHolder, Holding, AtWork
  <2>3. Quiet
    BY <1>10 DEF PlaybookExits, gearman
  <2> QED BY <2>1, <2>2, <2>3, <1>a, <1>f
<1>11. CASE PostExits(n)
  <2>1. \E result, why : Becomes(Finished(r, result, why))
    BY <1>11 DEF PostExits
  <2>2. Quiet
    BY <1>11 DEF PostExits, gearman
  <2> QED BY <2>1, <2>2, <1>a, <1>f
<1>12. CASE EndJob(n)
  <2> DEFINE s == [r EXCEPT !.gear = "reporting", !.runningJob = FALSE]
  <2>1. Becomes(s) /\ Quiet
    BY <1>12 DEF EndJob, gearman
  <2>2. At(s, AtWork)
    BY <1>0 DEF IsHolder, Holding, AtWork
  <2> HIDE DEF s
  <2> QED BY <2>1, <2>2, <1>a
<1>13. CASE ReportJob(n)
  <2> DEFINE q == [r EXCEPT !.sentComplete = TRUE, !.complete = TRUE]
             s == [q EXCEPT !.gear = "put", !.running = FALSE, !.unpaused = TRUE]
             p == WorkDone(r.build, r.result, r.seen)
  <2>1. /\ Respond(n, p) /\ (Becomes(s) \/ Becomes(Looped(q)))
        /\ UNCHANGED <<waiting, attached>>
    BY <1>13 DEF ReportJob
  <2>2. p.kind = "done" /\ p.build = r.build
    BY DEF WorkDone
  <2>3. Sane(s) /\ Sane(Looped(q))
    BY <1>0, <1>l DEF Sane, IsHolder, Holding
  <2> HIDE DEF q, s, p
  <2> QED BY <2>1, <2>2, <2>3, <1>d
<1>14. CASE PutOwnStop(n)
  <2>1. r.gear = "put" /\ Quiet
    BY <1>14 DEF PutOwnStop, gearman
  <2>2. \E v : Becomes([r EXCEPT !.gear = "join", !.todo = v])
    BY <1>14 DEF PutOwnStop
  <2>3. \A v : At([r EXCEPT !.gear = "join", !.todo = v], Idle)
    BY <1>0 DEF IsHolder, Holding
  <2> QED BY <2>1, <2>2, <2>3, <1>b DEF AtWork
<1>15. CASE JoinOwnQueue(n)
  <2>1. r.gear = "join" /\ Becomes(Looped(r)) /\ Quiet
    BY <1>15 DEF JoinOwnQueue, gearman
  <2>2. \A b : ~Has(r, b)
    BY <2>1 DEF Has, AtWork
  <2> QED BY <2>1, <2>2, <1>l, QuietDelivers
<1> QED
  BY <1>1, <1>2, <1>3, <1>4, <1>5, <1>6, <1>7, <1>8, <1>9, <1>10, <1>11, <1>12, <1>13,
     <1>14, <1>15 DEF GearThread

(* Every step of the launch server and its workers.                        *)
LEMMA LauncherNextDelivers ==
  ASSUME Shape, AreSane(w), LauncherNext
  PROVE  Delivers
BY ServerDelivers, QueueThreadDelivers, GearThreadDelivers DEF LauncherNext

(* No such step loses a build.                                             *)
LEMMA LauncherKeepsLossInv ==
  ASSUME LaunchInv, LossInv, LauncherNext, UNCHANGED client
  PROVE  LossInv'
<1>1. Delivers
  BY LauncherNextDelivers DEF LaunchInv, LossInv
<1>2. UNCHANGED <<table, scheduler, handler>>
  BY DEF client
<1>3. LateNotices'
  BY <1>1 DEF Delivers, LossInv, LateNotices
<1>4. \A b \in Build : EndUnderWay(b) \/ EndSaid(b, packets') => EndUnderWay(b)'
  BY <1>1, <1>2 DEF Delivers, EndUnderWay, EndSaid
<1>5. \A b : (\E n \in Node : Busy(w[n]) /\ w[n].build = b /\ w[n].connected)
              <=> \E n \in Node : Has(w[n], b)
  BY BusyAtWork DEF Has
<1>6. \A b : (\E n \in Node : Busy(w[n]) /\ w[n].build = b /\ w[n].connected)'
              <=> \E n \in Node : Has(w'[n], b)
  BY BusyAtWork DEF Has
<1>7. ASSUME NEW b \in table
      PROVE  \/ scheduler.at = "submit" /\ scheduler.build = b
             \/ b \in waiting' \cap attached
             \/ b \in attached /\ \E n \in Node : Has(w'[n], b)
             \/ EndUnderWay(b)'
  <2>1. b \in Build
    BY <1>7 DEF LaunchInv, Shape
  <2>2. \/ scheduler.at = "submit" /\ scheduler.build = b
        \/ b \in waiting \cap attached
        \/ b \in attached /\ \E n \in Node : Has(w[n], b)
        \/ EndUnderWay(b)
    BY <1>5, <1>7 DEF LossInv, NoBuildLost
  <2>3. CASE b \in waiting \cap attached
    BY <1>1, <2>3 DEF Delivers
  <2>4. CASE b \in attached /\ \E n \in Node : Has(w[n], b)
    BY <1>1, <1>4, <2>1, <2>4 DEF Delivers
  <2> QED BY <1>4, <2>1, <2>2, <2>3, <2>4
<1>8. NoBuildLost'
  BY <1>1, <1>2, <1>6, <1>7 DEF NoBuildLost, Delivers
<1> QED BY <1>1, <1>3, <1>8 DEF LossInv, Delivers

-----------------------------------------------------------------------------
(* The steps of the launcher client.                                       *)

(* What keeps a build from being lost, but for the thread that submits it. *)
Held(b) ==
  \/ b \in waiting \cap attached
  \/ b \in attached /\ \E n \in Node : Busy(w[n]) /\ w[n].build = b /\ w[n].connected
  \/ EndUnderWay(b)
BeingSubmitted(b) == scheduler.at = "submit" /\ scheduler.build = b

(* A step of the scheduler's thread, which neither loses sight of a build  *)
(* nor takes one out of the queue that stays in the table.                 *)
LEMMA SchedulerStep ==
  ASSUME LossInv, UNCHANGED <<packets, handler, w>>, attached \subseteq attached',
         \A b \in table' : b \in table => (b \in waiting => b \in waiting'),
         \A b \in table' : b \notin table \/ BeingSubmitted(b)
                             => BeingSubmitted(b)' \/ b \in waiting' \cap attached'
  PROVE  LossInv'
<1>1. AreSane(w')
  BY DEF LossInv
<1>2. LateNotices'
  BY DEF LossInv, LateNotices
<1>3. \A b : EndUnderWay(b) => EndUnderWay(b)'
  BY DEF EndUnderWay
<1>4. ASSUME NEW b \in table' PROVE BeingSubmitted(b)' \/ Held(b)'
  <2>1. CASE b \notin table \/ BeingSubmitted(b)
    BY <1>4, <2>1 DEF Held
  <2>2. CASE b \in table /\ ~BeingSubmitted(b)
    <3>1. Held(b)
      BY <2>2 DEF LossInv, NoBuildLost, Held, BeingSubmitted
    <3> QED BY <1>3, <1>4, <2>2, <3>1 DEF Held
  <2> QED BY <2>1, <2>2
<1>5. NoBuildLost'
  BY <1>4 DEF NoBuildLost, Held, BeingSubmitted
<1> QED BY <1>1, <1>2, <1>5 DEF LossInv

(* Every step of the scheduler's thread in launch and cancel.              *)
LEMMA SchedulerKeepsLossInv ==
  ASSUME LaunchInv, LossInv, UNCHANGED launcher,
         (\E b \in Build : Launch(b) \/ Cancel(b)) \/ SchedulerThread
  PROVE  LossInv'
<1>0. w' = w
  BY DEF launcher
<1>1. ASSUME NEW b \in Build, Launch(b) PROVE LossInv'
  <2>1. scheduler.at = "idle" /\ UNCHANGED <<waiting, attached, packets, handler>>
    BY <1>1 DEF Launch, gearman, Free
  <2>2. \/ table' = table
        \/ table' = table \cup {b} /\ scheduler' = [at |-> "submit", build |-> b]
    BY <1>1 DEF Launch
  <2>3. \A c : ~BeingSubmitted(c)
    BY <2>1 DEF BeingSubmitted
  <2>4. \A c \in table' : c \notin table => BeingSubmitted(c)'
    BY <2>2 DEF BeingSubmitted
  <2> QED BY <1>0, <2>1, <2>3, <2>4, SchedulerStep
<1>2. ASSUME NEW b \in Build, Cancel(b) PROVE LossInv'
  <2>1. scheduler.at = "idle" /\ UNCHANGED <<waiting, attached, packets, handler, table>>
    BY <1>2 DEF Cancel, Free
  <2>2. \A c : ~BeingSubmitted(c)
    BY <2>1 DEF BeingSubmitted
  <2> QED BY <1>0, <2>1, <2>2, SchedulerStep
<1>3. CASE Submit
  <2> DEFINE b == scheduler.build
  <2>1. UNCHANGED <<packets, handler>> /\ waiting \subseteq waiting'
    BY <1>3 DEF Submit
  <2>2. \/ /\ waiting' = waiting \cup {b} /\ attached' = attached \cup {b}
           /\ table' = table
        \/ table' = table \ {b} /\ attached' = attached
    BY <1>3 DEF Submit
  <2>3. \A c : BeingSubmitted(c) => c = b
    BY DEF BeingSubmitted
  <2> HIDE DEF b
  <2>4. \A c \in table' : c \notin table \/ BeingSubmitted(c) => c \in waiting' \cap attached'
    BY <2>2, <2>3
  <2> QED BY <1>0, <2>1, <2>2, <2>4, SchedulerStep
<1>4. CASE CancelJobInQueue \/ CancelAgain
  <2>1. /\ scheduler.at \in {"lookup", "sleep"}
        /\ UNCHANGED <<attached, packets, handler>>
        /\ \/ UNCHANGED <<waiting, table>>
           \/ waiting' = waiting \ {scheduler.build} /\ table' = table \ {scheduler.build}
    BY <1>4 DEF CancelJobInQueue, CancelAgain
  <2>2. \A c : ~BeingSubmitted(c)
    BY <2>1 DEF BeingSubmitted
  <2>3. \A c \in table' : c \in table /\ (c \in waiting => c \in waiting')
    BY <2>1
  <2> QED BY <1>0, <2>1, <2>2, <2>3, SchedulerStep
<1> QED BY <1>1, <1>2, <1>3, <1>4 DEF SchedulerThread

(* Every step of the client's thread: the end of a build that is taken off *)
(* the connection is either in its hand or takes the build off the table.  *)
LEMMA ClientThreadKeepsLossInv ==
  ASSUME LaunchInv, LossInv, ClientThread, UNCHANGED launcher
  PROVE  LossInv'
<1>0. w' = w /\ UNCHANGED <<waiting, attached, scheduler>>
  BY DEF launcher, gearman, ClientThread, OnWorkStatus, OnMetaJobCompleted,
         OnBuildCompleted, TellScheduler
<1>1. table' \subseteq table /\ ToSet(packets') \subseteq ToSet(packets)
  <2>1. CASE OnWorkStatus \/ OnMetaJobCompleted \/ OnBuildCompleted
    <3>1. packets # <<>> /\ packets' = Tail(packets)
      BY <2>1 DEF OnWorkStatus, OnMetaJobCompleted, OnBuildCompleted, Received
    <3>2. table' \subseteq table
      BY <2>1 DEF OnWorkStatus, OnMetaJobCompleted, OnBuildCompleted
    <3> QED BY <3>1, <3>2, TakenFromTheFront DEF LaunchInv, Shape
  <2>2. CASE TellScheduler
    BY <2>2 DEF TellScheduler, gearman
  <2> QED BY <2>1, <2>2 DEF ClientThread
<1>2. ASSUME NEW b \in table', EndUnderWay(b) PROVE EndUnderWay(b)'
  <2>1. CASE OnWorkStatus \/ OnMetaJobCompleted \/ OnBuildCompleted
    <3>1. packets # <<>> /\ packets' = Tail(packets) /\ handler.at = "idle"
      BY <2>1 DEF OnWorkStatus, OnMetaJobCompleted, OnBuildCompleted, Received, Free
    <3>2. ToSet(packets) \subseteq ToSet(packets') \cup {Head(packets)}
      BY <3>1, OnlyTheFrontTaken DEF LaunchInv, Shape
    <3>3. PICK p \in ToSet(packets) : p.kind = "done" /\ p.build = b
      BY <1>2, <3>1 DEF EndUnderWay
    <3>4. CASE p \in ToSet(packets')
      BY <3>3, <3>4 DEF EndUnderWay
    <3>5. CASE p = Head(packets)
      <4>1. OnBuildCompleted
        BY <2>1, <3>3, <3>5 DEF OnWorkStatus, OnMetaJobCompleted
      <4>2. \/ handler' = [at |-> "answer", packet |-> Head(packets)]
            \/ table' = table \ {Head(packets).build}
        BY <4>1 DEF OnBuildCompleted
      <4> QED BY <1>2, <3>3, <3>5, <4>2 DEF EndUnderWay
    <3> QED BY <3>2, <3>3, <3>4, <3>5
  <2>2. CASE TellScheduler
    <3>1. table' = table \ {handler.packet.build} /\ packets' = packets
      BY <2>2 DEF TellScheduler, gearman
    <3> QED BY <1>2, <3>1 DEF EndUnderWay
  <2> QED BY <2>1, <2>2 DEF ClientThread
<1>3. LateNotices'
  BY <1>0, <1>1 DEF LossInv, LateNotices
<1>4. NoBuildLost'
  BY <1>0, <1>1, <1>2 DEF LossInv, NoBuildLost
<1> QED BY <1>0, <1>3, <1>4 DEF LossInv

(* The loss of the connection is the end of every build it knew; what else *)
(* was outstanding is in the hands of Zuul's own threads.                  *)
LEMMA DisconnectKeepsLossInv ==
  ASSUME LaunchInv, LossInv, OnDisconnect, UNCHANGED launcher
  PROVE  LossInv'
<1>0. w' = w /\ UNCHANGED <<table, scheduler, handler>>
      /\ \A p \in ToSet(packets) : ~IsLost(p)
  BY DEF launcher, OnDisconnect
<1>1. \A p \in ToSet(packets') : IsLost(p)
  <2> SUFFICES ASSUME NEW p \in ToSet(packets') PROVE IsLost(p)
    OBVIOUS
  <2>1. PICK b : p = WorkDone(b, "none", {"lost"}) \/ p = MetaDone(b, {"lost"})
    BY LostPackets
  <2> QED BY <2>1 DEF IsLost, WorkDone, MetaDone
<1>2. \A b \in attached \cap table : EndUnderWay(b)'
  <2> SUFFICES ASSUME NEW b \in attached \cap table PROVE EndUnderWay(b)'
    OBVIOUS
  <2> DEFINE p == WorkDone(b, "none", {"lost"})
  <2>1. p \in ToSet(packets')
    BY LostPackets
  <2>2. p.kind = "done" /\ p.build = b
    BY DEF WorkDone
  <2> HIDE DEF p
  <2> QED BY <2>1, <2>2 DEF EndUnderWay
<1>3. ASSUME NEW b \in table, b \notin attached, EndUnderWay(b) PROVE EndUnderWay(b)'
  BY <1>0, <1>3 DEF EndUnderWay, LossInv, LateNotices
<1>4. NoBuildLost'
  BY <1>0, <1>2, <1>3 DEF LossInv, NoBuildLost
<1> QED BY <1>0, <1>1, <1>4 DEF LossInv, LateNotices

-----------------------------------------------------------------------------
(* The theorem.                                                            *)

(* Nothing is outstanding.                                                 *)
LEMMA InitLossInv == Init => LossInv
<1> SUFFICES ASSUME Init PROVE LossInv
  OBVIOUS
<1>1. AreSane(w)
  BY NewIsSane DEF Init, LauncherInit, AreSane
<1>2. LateNotices
  BY DEF Init, GearmanInit, LateNotices, ToSet
<1>3. NoBuildLost
  BY DEF Init, ClientInit, NoBuildLost
<1> QED BY <1>1, <1>2, <1>3 DEF LossInv

(* Every step of the two programs and the Gearman server.                  *)
LEMMA NextLossInv == LaunchInv /\ LossInv /\ [Next]_vars => LossInv'
<1> SUFFICES ASSUME LaunchInv, LossInv, [Next]_vars PROVE LossInv'
  OBVIOUS
<1>1. CASE ClientNext /\ UNCHANGED launcher
  BY <1>1, SchedulerKeepsLossInv, ClientThreadKeepsLossInv, DisconnectKeepsLossInv
  DEF ClientNext
<1>2. CASE LauncherNext /\ UNCHANGED client
  BY <1>2, LauncherKeepsLossInv
<1>3. CASE UNCHANGED vars
  BY <1>3 DEF vars, gearman, client, launcher, LossInv, LateNotices, NoBuildLost, EndUnderWay
<1> QED BY <1>1, <1>2, <1>3 DEF Next

(* No outstanding build is ever lost, with any number of workers stopped,  *)
(* killed, reconfigured or assigned anew, submissions and look-ups that    *)
(* fail, and connections lost again and again: as long as the client waits *)
(* for a build, either its submission is not over, or the server has it in *)
(* its queue or a worker that can still answer has it, on a connection     *)
(* that knows it, or word of its end is under way.                         *)
THEOREM NoBuildIsLost == Spec => []NoBuildLost
<1>1. Init => LossInv
  BY InitLossInv
<1>2. LaunchInv /\ LossInv /\ [Next]_vars => LossInv'
  BY NextLossInv
<1>3. LossInv => NoBuildLost
  BY DEF LossInv
<1> QED BY <1>1, <1>2, <1>3, LaunchInvariance, PTL DEF Spec


-----------------------------------------------------------------------------
(* The inductive invariant for the workers, one worker at a time.          *)

(* The fields of a worker that this depends on.                            *)
Fields == {"life", "running", "todo", "queuer", "gear", "build", "connected",
           "sentComplete", "proc", "result"}
IsRec(r) == r = [f \in DOMAIN r |-> r[f]] /\ Fields \subseteq DOMAIN r

(* The types of these fields.                                              *)
Typed(r) ==
  /\ IsRec(r)
  /\ r.todo \in Seq(Actions)
  /\ r.build \in Build \cup {NoNode} /\ (r.gear \in AtWork => r.build \in Build)
  /\ r.result \in Results
  /\ r.proc = "on" => r.gear \in {"playing", "post"}
  /\ r.life = "alive" <=> r.queuer # "done"

(* Nodepool has been sent an onFinalized event for this worker, or the     *)
(* build it runs will be the reason for one.                               *)
Reported(r) == r.sentComplete \/ r.gear \in AtWork \ {"got"}

(* A worker that waits for its last build, or has closed its connection,   *)
(* is reported or will be.                                                 *)
Owed(r) ==
  /\ r.queuer = "stopping" => Reported(r)
  /\ ~r.connected /\ r.life # "none" => Reported(r)

(* A stop that was called by the server's stop, or in the worker itself.   *)
StoppedByServer(n) == command.at \in {"put", "join"} /\ command.node = n
JoinedByServer(n) == command.at = "join" /\ command.node = n
StoppedByItself(r) == r.gear \in {"put", "join"}

(* The queue thread has a stop before it, or waits in one.                 *)
ToStop(r) == "stop" \in ToSet(r.todo) \/ r.queuer = "stopping"

(* A connected worker is at hand, unless a stop is under way; one that is  *)
(* not to run on has a stop before it or under way; and whoever waits for  *)
(* its queue to be done waits for a stop.                                  *)
OnDuty(r, n) ==
  r.connected =>
    (n \in nodes /\ r.queuer # "done") \/ StoppedByServer(n) \/ StoppedByItself(r)
WillStop(r, n) ==
  r.connected /\ ~r.running => StoppedByServer(n) \/ StoppedByItself(r) \/ ToStop(r)
WaitedFor(r, n) ==
  JoinedByServer(n) \/ r.gear = "join" => ToStop(r) \/ ~r.connected

Good(r, n) == Typed(r) /\ Owed(r) /\ OnDuty(r, n) /\ WillStop(r, n) /\ WaitedFor(r, n)
AreGood(ws) == ws = [n \in Node |-> ws[n]] /\ \A n \in Node : Good(ws[n], n)

(* The workers and nodes that the server goes through are some it has.     *)
ServerTyped ==
  /\ nodes \subseteq Node
  /\ command.at \in {"stopping", "put", "join"} => command.left \subseteq Node
  /\ command.at \in {"put", "join"} => command.node \in Node

-----------------------------------------------------------------------------
(* What changes of a worker's record keep.                                 *)

(* The record of a worker changed in some fields.                          *)
Changed(r, s, S) == IsRec(s) /\ \A f \in Fields \ S : s[f] = r[f]

(* A worker that was reported stays so.                                    *)
LEMMA ReportedKept ==
  ASSUME NEW r, Reported(r), NEW s, s.sentComplete = r.sentComplete,
         \/ s.gear = r.gear
         \/ s.gear \in AtWork \ {"got"}
         \/ r.gear \notin AtWork \ {"got"}
  PROVE  Reported(s)
BY DEF Reported

(* A change in which no stop is forgotten, nothing ends and nothing is     *)
(* unsaid keeps a worker good.                                             *)
LEMMA GoodKept ==
  ASSUME NEW n \in Node, NEW r, Good(r, n), NEW s, Typed(s),
         s.life = r.life, s.connected = r.connected, s.running = r.running,
         Reported(r) => Reported(s), ToStop(r) => ToStop(s),
         s.queuer \in {"stopping", "done"} => s.queuer = r.queuer,
         s.gear \in {"put", "join"} \/ r.gear \in {"put", "join"} => s.gear = r.gear
  PROVE  Good(s, n)
BY DEF Good, Owed, OnDuty, WillStop, WaitedFor, StoppedByItself

(* A worker with a closed connection only has to be reported.              *)
LEMMA ClosedIsGood ==
  ASSUME NEW n \in Node, NEW s, Typed(s), ~s.connected, Reported(s)
  PROVE  Good(s, n)
BY DEF Good, Owed, OnDuty, WillStop, WaitedFor

(* What a queue keeps when more is put into it.                            *)
LEMMA MoreToDo ==
  ASSUME NEW S, NEW s \in Seq(S), NEW t \in Seq(S)
  PROVE  s \o t \in Seq(S) /\ ToSet(s) \cup ToSet(t) \subseteq ToSet(s \o t)
<1>1. s \o t \in Seq(S) /\ Len(s \o t) = Len(s) + Len(t)
  OBVIOUS
<1>2. \A i \in 1 .. Len(s) : i \in 1 .. Len(s \o t) /\ (s \o t)[i] = s[i]
  OBVIOUS
<1>3. \A i \in 1 .. Len(t) : Len(s) + i \in 1 .. Len(s \o t) /\ (s \o t)[Len(s) + i] = t[i]
  OBVIOUS
<1>4. /\ DOMAIN s = 1 .. Len(s) /\ DOMAIN t = 1 .. Len(t)
      /\ DOMAIN (s \o t) = 1 .. Len(s \o t)
  BY <1>1
<1>5. ToSet(s) \subseteq ToSet(s \o t)
  BY <1>2, <1>4 DEF ToSet
<1>6. ToSet(t) \subseteq ToSet(s \o t)
  BY <1>3, <1>4 DEF ToSet
<1> QED BY <1>1, <1>5, <1>6

(* What is left to do when an action is taken: a stop that was not the     *)
(* first.                                                                  *)
LEMMA LessToDo ==
  ASSUME NEW s \in Seq(Actions), s # <<>>
  PROVE  /\ Head(s) \in Actions /\ Tail(s) \in Seq(Actions)
         /\ ToSet(s) \subseteq ToSet(Tail(s)) \cup {Head(s)}
<1>1. s \in Seq(ToSet(s))
  BY SeqOfItsOwn
<1> QED BY <1>1, OnlyTheFrontTaken

-----------------------------------------------------------------------------
(* The steps of a worker's two threads.                                    *)

(* A step of a worker of a node, on which nothing but its record depends,  *)
(* and in which it takes no build.                                         *)
Keeps(r, s) == s.gear \in AtWork => r.gear \in AtWork /\ s.build = r.build
Moves(n) ==
  \E s : w' = [w EXCEPT ![n] = s] /\ Good(s, n) /\ Keeps(w[n], s)

(* Taking an action off the queue.                                         *)
LEMMA TakenOff ==
  ASSUME NEW n \in Node, Good(w[n], n), NEW a, Taken(n, a)
  PROVE  /\ Changed(w[n], Rest(n), {"todo", "queuer"}) /\ Rest(n).queuer = "check"
         /\ Rest(n).todo \in Seq(Actions)
         /\ ToSet(w[n].todo) \subseteq ToSet(Rest(n).todo) \cup {a}
         /\ w[n].queuer = "get" /\ a \in Actions
<1>1. IsRec(w[n]) /\ w[n].todo \in Seq(Actions)
  BY DEF Good, Typed
<1>2. Changed(w[n], Rest(n), {"todo", "queuer"}) /\ Rest(n).queuer = "check"
      /\ Rest(n).todo = Tail(w[n].todo)
  BY <1>1 DEF Rest, Changed, IsRec, Fields
<1>3. w[n].queuer = "get" /\ w[n].todo # <<>> /\ Head(w[n].todo) = a
  BY DEF Taken
<1> QED BY <1>1, <1>2, <1>3, LessToDo

(* The record after taking an action that is not a stop.                   *)
LEMMA RestIsGood ==
  ASSUME NEW n \in Node, Good(w[n], n), NEW a, Taken(n, a), a # "stop"
  PROVE  Good(Rest(n), n)
<1> DEFINE r == w[n]
           s == Rest(n)
<1>1. /\ Changed(r, s, {"todo", "queuer"}) /\ s.queuer = "check"
      /\ s.todo \in Seq(Actions) /\ ToSet(r.todo) \subseteq ToSet(s.todo) \cup {a}
      /\ r.queuer = "get"
  BY TakenOff
<1> HIDE DEF r, s
<1>2. /\ IsRec(s) /\ s.life = r.life /\ s.running = r.running /\ s.gear = r.gear
      /\ s.build = r.build /\ s.connected = r.connected
      /\ s.sentComplete = r.sentComplete /\ s.proc = r.proc /\ s.result = r.result
  BY <1>1 DEF Changed, Fields
<1>3. Typed(s)
  BY <1>1, <1>2 DEF Good, Typed, r
<1>4. ToStop(r) => ToStop(s)
  BY <1>1 DEF ToStop
<1>5. Reported(r) => Reported(s)
  BY <1>2 DEF Reported
<1>6. Good(s, n)
  BY <1>1, <1>2, <1>3, <1>4, <1>5, GoodKept DEF r
<1> QED BY <1>6 DEF s

(* Pausing, aborting and registering leave a worker good, with its build.  *)
LEMMA OperatorsKeepGood ==
  ASSUME NEW n \in Node, NEW r, Good(r, n)
  PROVE  \A s \in {PausedWorker(r), AbortedWorker(r), RegisterNow(r)} :
           Good(s, n) /\ Keeps(r, s) /\ s.queuer = r.queuer
<1> DEFINE Like(s) == /\ Changed(r, s, {"gear", "proc"})
                      /\ s.gear = r.gear \/ (r.gear = "getting" /\ s.gear = "top")
                      /\ s.proc = r.proc \/ s.proc = "killed"
<1>0. IsRec(r) /\ Typed(r)
  BY DEF Good, Typed
<1>1. ASSUME NEW s, Like(s)
      PROVE  Good(s, n) /\ Keeps(r, s) /\ s.queuer = r.queuer
  <2>1. /\ IsRec(s) /\ s.life = r.life /\ s.running = r.running /\ s.todo = r.todo
        /\ s.queuer = r.queuer /\ s.build = r.build /\ s.connected = r.connected
        /\ s.sentComplete = r.sentComplete /\ s.result = r.result
    BY <1>1 DEF Changed, Fields
  <2>2. Typed(s) /\ Keeps(r, s)
    BY <1>0, <1>1, <2>1 DEF Typed, AtWork, Keeps
  <2>3. (ToStop(r) => ToStop(s)) /\ (Reported(r) => Reported(s))
    BY <1>1, <2>1 DEF ToStop, Reported, AtWork
  <2> QED BY <1>1, <2>1, <2>2, <2>3, GoodKept
<1>2. Like(PausedWorker(r))
  BY <1>0 DEF PausedWorker, Changed, IsRec, Fields
<1>3. Like(RegisterNow(r))
  BY <1>0 DEF RegisterNow, Changed, IsRec, Fields
<1>4. Like(AbortedWorker(r))
  BY <1>0 DEF AbortedWorker, Changed, IsRec, Fields
<1> HIDE DEF Like
<1> QED BY <1>1, <1>2, <1>3, <1>4

(* A change of the queue thread's place and queue, with no stop forgotten. *)
LEMMA QueueMoves ==
  ASSUME AreGood(w), NEW n \in Node, NEW r, Good(r, n), Keeps(w[n], r), NEW s,
         Changed(r, s, {"todo", "queuer"}), w' = [w EXCEPT ![n] = s],
         s.todo \in Seq(Actions), ToSet(r.todo) \subseteq ToSet(s.todo),
         s.queuer \notin {"stopping", "done"}, r.queuer \notin {"stopping", "done"}
  PROVE  Moves(n)
<1>1. /\ IsRec(s) /\ s.life = r.life /\ s.running = r.running /\ s.gear = r.gear
      /\ s.build = r.build /\ s.connected = r.connected
      /\ s.sentComplete = r.sentComplete /\ s.proc = r.proc /\ s.result = r.result
  BY DEF Changed, Fields
<1>2. Typed(s)
  BY <1>1 DEF Good, Typed
<1>3. (ToStop(r) => ToStop(s)) /\ (Reported(r) => Reported(s))
  BY <1>1 DEF ToStop, Reported
<1>4. Good(s, n) /\ Keeps(w[n], s)
  BY <1>1, <1>2, <1>3, GoodKept DEF Keeps
<1> QED BY <1>4 DEF Moves

(* A connection is closed, of a worker that is or will be reported.        *)
LEMMA ShutdownMoves ==
  ASSUME AreGood(w), NEW n \in Node, NEW r, Typed(r), Reported(r), Keeps(w[n], r),
         r.life = "alive", Shutdown(n, r)
  PROVE  Moves(n)
<1> DEFINE s == [r EXCEPT !.connected = FALSE, !.queuer = "check",
                          !.gear = IF @ = "getting" THEN "top" ELSE @]
<1>1. w' = [w EXCEPT ![n] = s]
  BY DEF Shutdown
<1>2. /\ IsRec(s) /\ s.life = r.life /\ s.running = r.running /\ s.todo = r.todo
      /\ s.queuer = "check" /\ s.gear = (IF r.gear = "getting" THEN "top" ELSE r.gear)
      /\ s.build = r.build /\ s.connected = FALSE /\ s.proc = r.proc
      /\ s.sentComplete = r.sentComplete /\ s.result = r.result
  BY DEF Typed, IsRec, Fields
<1> HIDE DEF s
<1>3. Typed(s) /\ Reported(s) /\ Keeps(w[n], s)
  BY <1>2 DEF Typed, Reported, Keeps, AtWork
<1>4. Good(s, n)
  BY <1>2, <1>3, ClosedIsGood
<1> QED BY <1>1, <1>3, <1>4 DEF Moves


(* Every step of a worker's queue thread.                                  *)
LEMMA QueueThreadMoves ==
  ASSUME AreGood(w), NEW n \in Node, QueueThread(n)
  PROVE  Moves(n)
<1> DEFINE r == w[n]
           Becomes(s) == w' = [w EXCEPT ![n] = s]
           Placed(t, s, S) == Changed(t, s, S) /\ s.queuer \in {"get", "check", "releasing"}
<1>0. Good(r, n) /\ Typed(r) /\ IsRec(r) /\ r.todo \in Seq(Actions) /\ Keeps(r, r)
  BY DEF AreGood, Good, Typed, Keeps
<1>a. ASSUME NEW a, Taken(n, a), a # "stop"
      PROVE  /\ Good(Rest(n), n) /\ Keeps(r, Rest(n)) /\ Rest(n).queuer = "check"
             /\ IsRec(Rest(n)) /\ Rest(n).todo \in Seq(Actions)
  <2>1. Good(Rest(n), n) /\ Changed(r, Rest(n), {"todo", "queuer"})
        /\ Rest(n).queuer = "check"
    BY <1>0, <1>a, RestIsGood, TakenOff
  <2>2. Keeps(r, Rest(n))
    BY <2>1 DEF Changed, Fields, Keeps
  <2> QED BY <2>1, <2>2 DEF Good, Typed
<1>b. ASSUME NEW s, Becomes(s), Good(s, n), Keeps(r, s) PROVE Moves(n)
  BY <1>b DEF Moves
<1>c. ASSUME NEW t, Good(t, n), Keeps(r, t), t.queuer \in {"get", "check"},
             NEW s, Becomes(s), Placed(t, s, {"queuer"})
      PROVE  Moves(n)
  <2>1. s.todo = t.todo /\ Changed(t, s, {"todo", "queuer"}) /\ t.todo \in Seq(Actions)
    BY <1>c DEF Changed, Fields, Good, Typed
  <2> QED BY <1>c, <2>1, QueueMoves
<1>d. \A s \in {PausedWorker(Rest(n)), AbortedWorker(Rest(n)), RegisterNow(Rest(n))} :
        Good(Rest(n), n) /\ Keeps(r, Rest(n)) =>
          Good(s, n) /\ Keeps(r, s) /\ s.queuer = Rest(n).queuer
  BY OperatorsKeepGood DEF Keeps
<1>1. CASE QueueLoop(n)
  <2>1. CASE r.running \/ r.todo # <<>>
    <3> DEFINE s == [r EXCEPT !.queuer = "get"]
    <3>1. Becomes(s) /\ r.queuer = "check"
      BY <1>1, <2>1 DEF QueueLoop
    <3>2. Placed(r, s, {"queuer"})
      BY <1>0 DEF Changed, IsRec, Fields
    <3> HIDE DEF s
    <3> QED BY <1>0, <1>c, <3>1, <3>2
  <2>2. CASE ~(r.running \/ r.todo # <<>>)
    <3> DEFINE s == [r EXCEPT !.queuer = "done", !.life = "dead"]
    <3>1. Becomes(s) /\ r.queuer = "check"
      BY <1>1, <2>2 DEF QueueLoop
    <3>2. Changed(r, s, {"queuer", "life"}) /\ s.queuer = "done" /\ s.life = "dead"
      BY <1>0 DEF Changed, IsRec, Fields
    <3> HIDE DEF s
    <3>3. /\ IsRec(s) /\ s.running = r.running /\ s.todo = r.todo /\ s.gear = r.gear
          /\ s.build = r.build /\ s.connected = r.connected
          /\ s.sentComplete = r.sentComplete /\ s.proc = r.proc /\ s.result = r.result
      BY <3>2 DEF Changed, Fields
    <3>4. Typed(s) /\ Keeps(r, s)
      BY <1>0, <3>2, <3>3 DEF Typed, Keeps
    <3>5. ~ToStop(r)
      BY <2>2, <3>1 DEF ToStop, ToSet
    <3>6. r.life = "alive" /\ Owed(r) /\ WillStop(r, n) /\ WaitedFor(r, n)
      BY <1>0, <3>1 DEF Good, Typed
    <3>7. Owed(s) /\ OnDuty(s, n) /\ WillStop(s, n)
      BY <2>2, <3>2, <3>3, <3>5, <3>6
      DEF Owed, OnDuty, WillStop, Reported, StoppedByItself
    <3>8. WaitedFor(s, n)
      BY <3>3, <3>5, <3>6 DEF WaitedFor
    <3> QED BY <1>b, <3>1, <3>4, <3>7, <3>8 DEF Good
  <2> QED BY <2>1, <2>2
<1>4. CASE TakePause(n)
  BY <1>4, <1>a, <1>b, <1>d DEF TakePause
<1>5. CASE TakeUnpause(n)
  <2> DEFINE t == Rest(n)
             s == [t EXCEPT !.unpaused = TRUE]
  <2>1. Taken(n, "unpause") /\ Becomes(s)
    BY <1>5 DEF TakeUnpause
  <2>2. Good(t, n) /\ Keeps(r, t) /\ t.queuer = "check" /\ IsRec(t)
    BY <1>a, <2>1
  <2> HIDE DEF t
  <2>3. Placed(t, s, {"queuer"})
    BY <2>2 DEF Changed, IsRec, Fields
  <2> HIDE DEF s
  <2> QED BY <1>c, <2>1, <2>2, <2>3
<1>9. CASE TakeAbort(n)
  BY <1>9, <1>a, <1>b, <1>d DEF TakeAbort
<1>2. CASE TakeStop(n)
  <2> DEFINE t == Rest(n)
             q == [t EXCEPT !.running = FALSE]
             u == AbortedWorker(q)
             v == [u EXCEPT !.queuer = "stopping"]
             x == Farewell(u)
  <2>1. /\ Taken(n, "stop")
        /\ IF CanKill(u) THEN Becomes(v) ELSE Shutdown(n, x)
    BY <1>2 DEF TakeStop
  <2>2. /\ Changed(r, t, {"todo", "queuer"}) /\ t.todo \in Seq(Actions)
        /\ t.queuer = "check" /\ r.queuer = "get"
    BY <1>0, <2>1, TakenOff
  <2> HIDE DEF t
  <2>3. Changed(t, q, {"running"})
    BY <2>2 DEF Changed, IsRec, Fields
  <2> HIDE DEF q
  <2>4. /\ IsRec(q) /\ q.life = r.life /\ q.todo = t.todo /\ q.queuer = "check"
        /\ q.gear = r.gear /\ q.build = r.build /\ q.connected = r.connected
        /\ q.sentComplete = r.sentComplete /\ q.proc = r.proc /\ q.result = r.result
    BY <2>2, <2>3 DEF Changed, Fields
  <2>5. /\ Changed(q, u, {"proc"}) /\ u.proc \in {q.proc, "killed"}
        /\ CanKill(u) => u.gear = "playing"
    BY <2>4 DEF AbortedWorker, CanKill, Changed, IsRec, Fields
  <2> HIDE DEF u
  <2>6. /\ IsRec(u) /\ u.life = r.life /\ u.todo = t.todo /\ u.queuer = "check"
        /\ u.gear = r.gear /\ u.build = r.build /\ u.connected = r.connected
        /\ u.sentComplete = r.sentComplete /\ u.result = r.result
    BY <2>4, <2>5 DEF Changed, Fields
  <2>7. Typed(u) /\ Keeps(r, u) /\ r.life = "alive"
    BY <1>0, <2>2, <2>4, <2>5, <2>6 DEF Typed, Keeps
  <2>8. CASE CanKill(u)
    <3>1. Changed(u, v, {"queuer"}) /\ v.queuer = "stopping"
      BY <2>6 DEF Changed, IsRec, Fields
    <3> HIDE DEF v
    <3>2. /\ IsRec(v) /\ v.life = r.life /\ v.todo = t.todo /\ v.running = u.running
          /\ v.gear = r.gear /\ v.build = r.build /\ v.connected = r.connected
          /\ v.sentComplete = r.sentComplete /\ v.result = r.result /\ v.proc = u.proc
      BY <2>6, <3>1 DEF Changed, Fields
    <3>3. Typed(v) /\ Keeps(r, v) /\ Reported(v) /\ ToStop(v)
      BY <2>5, <2>6, <2>7, <2>8, <3>1, <3>2 DEF Typed, Keeps, Reported, ToStop, AtWork
    <3>4. OnDuty(v, n)
      BY <1>0, <2>2, <3>1, <3>2 DEF Good, OnDuty, StoppedByItself
    <3>5. Good(v, n)
      BY <3>3, <3>4 DEF Good, Owed, WillStop, WaitedFor
    <3> QED BY <1>b, <2>1, <2>8, <3>3, <3>5
  <2>9. CASE ~CanKill(u)
    <3>1. Changed(u, x, {"sentComplete"}) /\ x.sentComplete = TRUE
      BY <2>6 DEF Farewell, Changed, IsRec, Fields
    <3> HIDE DEF x
    <3>2. /\ IsRec(x) /\ x.life = r.life /\ x.todo = t.todo /\ x.queuer = u.queuer
          /\ x.gear = u.gear /\ x.build = u.build /\ x.result = u.result
          /\ x.proc = u.proc
      BY <2>6, <3>1 DEF Changed, Fields
    <3>3. Typed(x) /\ Keeps(r, x) /\ Reported(x)
      BY <2>6, <2>7, <3>1, <3>2 DEF Typed, Keeps, Reported
    <3> QED BY <2>1, <2>7, <2>9, <3>2, <3>3, ShutdownMoves
  <2> QED BY <2>8, <2>9
<1>3. CASE StopWaited(n)
  <2>1. Reported(r) /\ r.life = "alive" /\ Shutdown(n, r)
    BY <1>0, <1>3 DEF StopWaited, Good, Owed, Typed
  <2> QED BY <1>0, <2>1, ShutdownMoves
<1>6. CASE TakeRelease(n)
  <2> DEFINE t == IF r.unpaused THEN PausedWorker(Rest(n)) ELSE Rest(n)
             s == [t EXCEPT !.queuer = "releasing", !.wasUnpaused = r.unpaused]
  <2>1. Taken(n, "release") /\ Becomes(s)
    BY <1>6 DEF TakeRelease
  <2>2. Good(t, n) /\ Keeps(r, t) /\ t.queuer = "check"
    BY <1>a, <1>d, <2>1
  <2> HIDE DEF t
  <2>3. Placed(t, s, {"queuer"})
    BY <2>2 DEF Good, Typed, Changed, IsRec, Fields
  <2> HIDE DEF s
  <2> QED BY <1>c, <2>1, <2>2, <2>3
<1>7. CASE ReleaseLocked(n)
  <2>0. r.queuer = "releasing"
    BY <1>7 DEF ReleaseLocked
  <2>1. CASE r.gotJob
    <3>1. PICK v : Becomes([r EXCEPT !.queuer = "check", !.unpaused = v])
      BY <1>7, <2>1 DEF ReleaseLocked
    <3> DEFINE s == [r EXCEPT !.queuer = "check", !.unpaused = v]
    <3>2. Changed(r, s, {"todo", "queuer"}) /\ s.todo = r.todo /\ s.queuer = "check"
      BY <1>0 DEF Changed, IsRec, Fields
    <3> HIDE DEF s
    <3>3. Becomes(s)
      BY <3>1 DEF s
    <3> QED BY <1>0, <2>0, <3>2, <3>3, QueueMoves
  <2>2. CASE ~r.gotJob
    <3> DEFINE s == [r EXCEPT !.queuer = "check", !.todo = Append(@, "stop")]
    <3>1. Becomes(s)
      BY <1>7, <2>2 DEF ReleaseLocked
    <3>2. /\ Changed(r, s, {"todo", "queuer"}) /\ s.todo = Append(r.todo, "stop")
          /\ s.queuer = "check"
      BY <1>0 DEF Changed, IsRec, Fields
    <3> HIDE DEF s
    <3>3. s.todo \in Seq(Actions) /\ ToSet(r.todo) \subseteq ToSet(s.todo)
      BY <1>0, <3>2, SeqOfItsOwn, AddedToTheRest DEF Actions
    <3> QED BY <1>0, <2>0, <3>1, <3>2, <3>3, QueueMoves
  <2> QED BY <2>1, <2>2
<1>8. CASE TakeReconfigure(n)
  <2>1. Taken(n, "reconfigure")
    BY <1>8 DEF TakeReconfigure
  <2>2. CASE MayRegister(Rest(n))
    <3>1. Becomes(RegisterNow(Rest(n)))
      BY <1>8, <2>2 DEF TakeReconfigure
    <3> QED BY <1>a, <1>b, <1>d, <2>1, <3>1
  <2>3. CASE ~MayRegister(Rest(n))
    <3> DEFINE t == Rest(n)
    <3>1. PICK v : Becomes([t EXCEPT !.pending = v])
      BY <1>8, <2>3 DEF TakeReconfigure
    <3> DEFINE s == [t EXCEPT !.pending = v]
    <3>2. Good(t, n) /\ Keeps(r, t) /\ t.queuer = "check" /\ IsRec(t)
      BY <1>a, <2>1
    <3> HIDE DEF t
    <3>3. Placed(t, s, {"queuer"})
      BY <3>2 DEF Changed, IsRec, Fields
    <3> HIDE DEF s
    <3>4. Becomes(s)
      BY <3>1 DEF s
    <3> QED BY <1>c, <3>2, <3>3, <3>4
  <2> QED BY <2>2, <2>3
<1> QED
  BY <1>1, <1>2, <1>3, <1>4, <1>5, <1>6, <1>7, <1>8, <1>9 DEF QueueThread

(* A step of the Gearman thread that has nothing to do with a stop.        *)
LEMMA GearMoves ==
  ASSUME AreGood(w), NEW n \in Node, NEW s, w' = [w EXCEPT ![n] = s],
         Changed(w[n], s, {"gear", "build", "sentComplete", "proc", "result"}),
         w[n].gear \notin {"put", "join"}, s.gear \notin {"put", "join"},
         s.build \in Build \cup {NoNode}, s.result \in Results,
         s.proc = "on" => s.gear \in {"playing", "post"},
         Keeps(w[n], s), Reported(w[n]) => Reported(s)
  PROVE  Moves(n)
<1> DEFINE r == w[n]
<1>1. Good(r, n) /\ Typed(r)
  BY DEF AreGood, Good
<1>2. /\ IsRec(s) /\ s.life = r.life /\ s.running = r.running /\ s.todo = r.todo
      /\ s.queuer = r.queuer /\ s.connected = r.connected
  BY DEF Changed, Fields
<1>3. Typed(s)
  BY <1>1, <1>2 DEF Typed, Keeps
<1>4. ToStop(r) => ToStop(s)
  BY <1>2 DEF ToStop
<1>5. Good(s, n)
  BY <1>1, <1>2, <1>3, <1>4, GoodKept
<1> QED BY <1>5 DEF Moves

(* The result of a build is one of those the scheduler knows.              *)
LEMMA VerdictTyped == \A r, post : Verdict(r, post) \in Results
BY DEF Verdict, Results

(* Every step of a worker's Gearman thread but that of taking a build, and *)
(* the watchdog's.                                                         *)
LEMMA GearThreadMoves ==
  ASSUME AreGood(w), NEW n \in Node, GearThread(n) \/ AnsibleTimeout(n)
  PROVE  Moves(n)
<1> DEFINE r == w[n]
           Becomes(s) == w' = [w EXCEPT ![n] = s]
           Idle == {"top", "ready", "registering", "getting", "ended"}
           Late == AtWork \ {"got"}
           (* A change between places where no build runs, and between    *)
           (* places where one does.                                      *)
           Idles(s) == Changed(r, s, {"gear"}) /\ s.gear \in Idle
           Works(s) == /\ Changed(r, s, {"gear", "proc", "result", "sentComplete"})
                       /\ s.gear \in Late /\ s.result \in Results
                       /\ s.proc = "on" => s.gear \in {"playing", "post"}
<1>0. /\ Good(r, n) /\ Typed(r) /\ IsRec(r)
      /\ r.build \in Build \cup {NoNode} /\ r.result \in Results
      /\ r.proc = "on" => r.gear \in {"playing", "post"}
  BY DEF AreGood, Good, Typed
<1>a. ASSUME NEW s, Becomes(s), Idles(s), r.gear \in Idle PROVE Moves(n)
  <2>1. s.build = r.build /\ s.result = r.result /\ s.proc = r.proc
        /\ s.sentComplete = r.sentComplete
        /\ Changed(r, s, {"gear", "build", "sentComplete", "proc", "result"})
    BY <1>a DEF Changed, Fields
  <2>2. Keeps(r, s) /\ (Reported(r) => Reported(s))
    BY <1>a, <2>1 DEF Keeps, AtWork, Reported
  <2>3. /\ r.gear \notin {"put", "join"} /\ s.gear \notin {"put", "join"}
        /\ s.proc = "on" => s.gear \in {"playing", "post"}
    BY <1>0, <1>a, <2>1
  <2> QED BY <1>0, <1>a, <2>1, <2>2, <2>3, GearMoves
<1>b. ASSUME NEW s, Becomes(s), Works(s), r.gear \in AtWork PROVE Moves(n)
  <2>1. s.build = r.build
        /\ Changed(r, s, {"gear", "build", "sentComplete", "proc", "result"})
    BY <1>b DEF Changed, Fields
  <2>2. Keeps(r, s) /\ Reported(s)
    BY <1>b, <2>1 DEF Keeps, Reported
  <2>3. r.gear \notin {"put", "join"} /\ s.gear \notin {"put", "join"}
    BY <1>b DEF AtWork
  <2> QED BY <1>0, <1>b, <2>1, <2>2, <2>3, GearMoves
<1>f. ASSUME NEW result \in Results, NEW why PROVE Works(Finished(r, result, why))
  BY <1>0 DEF Finished, Changed, IsRec, Fields, AtWork
<1>l. ASSUME NEW q, Changed(r, q, {"sentComplete"}), Becomes(Looped(q)),
             q.sentComplete = TRUE \/ (q.sentComplete = r.sentComplete /\ r.gear = "got"),
             r.gear \in AtWork, r.gear \notin {"playing", "post"}
      PROVE  Moves(n)
  <2> DEFINE s == Looped(q)
  <2>1. /\ Changed(q, s, {"gear", "build", "result"})
        /\ s.gear = "top" /\ s.build = NoNode /\ s.result = "none"
    BY <1>l DEF Looped, Changed, IsRec, Fields
  <2> HIDE DEF s
  <2>2. Changed(r, s, {"gear", "build", "sentComplete", "proc", "result"})
        /\ s.proc = r.proc /\ s.sentComplete = q.sentComplete
    BY <1>l, <2>1 DEF Changed, Fields
  <2>3. Keeps(r, s) /\ (Reported(r) => Reported(s))
    BY <1>l, <2>1, <2>2 DEF Keeps, Reported, AtWork
  <2>4. /\ r.gear \notin {"put", "join"} /\ s.gear \notin {"put", "join"}
        /\ s.build \in Build \cup {NoNode} /\ s.result \in Results
        /\ s.proc # "on"
    BY <1>0, <1>l, <2>1, <2>2 DEF AtWork, Results
  <2>5. Becomes(s)
    BY <1>l DEF s
  <2> QED BY <2>2, <2>3, <2>4, <2>5, GearMoves
<1>1. CASE GearLoop(n)
  <2>1. r.gear = "top" /\ \E g \in {"ended", "registering", "ready"} :
                            Becomes([r EXCEPT !.gear = g])
    BY <1>1 DEF GearLoop
  <2>2. \A g \in {"ended", "registering", "ready"} : Idles([r EXCEPT !.gear = g])
    BY <1>0 DEF Changed, IsRec, Fields
  <2> QED BY <2>1, <2>2, <1>a
<1>2. CASE GearRegister(n)
  <2> DEFINE s == [RegisterNow(r) EXCEPT !.gear = "ready"]
  <2>1. r.gear = "registering" /\ Becomes(s)
    BY <1>2 DEF GearRegister
  <2>2. Idles(s)
    BY <1>0 DEF RegisterNow, Changed, IsRec, Fields
  <2> HIDE DEF s
  <2> QED BY <2>1, <2>2, <1>a
<1>3. CASE GetJob(n)
  <2> DEFINE s == [r EXCEPT !.gear = IF r.connected THEN "getting" ELSE "top"]
  <2>1. r.gear = "ready" /\ Becomes(s)
    BY <1>3 DEF GetJob
  <2>2. Idles(s)
    BY <1>0 DEF Changed, IsRec, Fields
  <2> HIDE DEF s
  <2> QED BY <2>1, <2>2, <1>a
<1>4. CASE LaunchBuild(n)
  <2>0. r.gear = "got"
    BY <1>4 DEF LaunchBuild
  <2>1. \/ \E v : Becomes([r EXCEPT !.gear = "launching", !.sentComplete = FALSE,
                                    !.aborted = FALSE, !.seen = v])
        \/ Becomes(Looped(r))
    BY <1>4 DEF LaunchBuild
  <2>2. \A v : Works([r EXCEPT !.gear = "launching", !.sentComplete = FALSE,
                               !.aborted = FALSE, !.seen = v])
    BY <1>0, <2>0 DEF Changed, IsRec, Fields, AtWork
  <2>3. Changed(r, r, {"sentComplete"})
    BY <1>0 DEF Changed
  <2> QED BY <2>0, <2>1, <2>2, <2>3, <1>b, <1>l DEF AtWork
<1>5. CASE BeginJob(n)
  <2> DEFINE s == [r EXCEPT !.gear = "prepare", !.runningJob = TRUE, !.complete = FALSE]
  <2>1. r.gear = "launching" /\ (Becomes(s) \/ Becomes(Finished(r, "none", {"stopped"})))
    BY <1>5 DEF BeginJob
  <2>2. Works(s)
    BY <1>0, <2>1 DEF Changed, IsRec, Fields, AtWork
  <2>3. Works(Finished(r, "none", {"stopped"})) /\ r.gear \in AtWork
    BY <2>1, <1>f DEF Results, AtWork
  <2> HIDE DEF s
  <2> QED BY <2>1, <2>2, <2>3, <1>b
<1>6. CASE PrepareJob(n)
  <2> DEFINE s == [r EXCEPT !.gear = "starting"]
  <2>1. r.gear = "prepare" /\ (Becomes(s) \/ Becomes(Finished(r, "none", {"error"})))
    BY <1>6 DEF PrepareJob
  <2>2. Works(s)
    BY <1>0, <2>1 DEF Changed, IsRec, Fields, AtWork
  <2>3. Works(Finished(r, "none", {"error"})) /\ r.gear \in AtWork
    BY <2>1, <1>f DEF Results, AtWork
  <2> HIDE DEF s
  <2> QED BY <2>1, <2>2, <2>3, <1>b
<1>7. CASE StartPlaybook(n)
  <2> DEFINE s == [r EXCEPT !.gear = "playing", !.proc = "on"]
  <2>1. r.gear = "starting" /\ Becomes(s)
    BY <1>7 DEF StartPlaybook
  <2>2. Works(s) /\ r.gear \in AtWork
    BY <1>0, <2>1 DEF Changed, IsRec, Fields, AtWork
  <2> HIDE DEF s
  <2> QED BY <2>1, <2>2, <1>b
<1>8. CASE AnsibleTimeout(n)
  <2>1. r.gear \in {"playing", "post"}
        /\ \E v : Becomes([r EXCEPT !.timedOut = TRUE, !.proc = "killed", !.seen = v])
    BY <1>8 DEF AnsibleTimeout
  <2>2. \A v : Works([r EXCEPT !.timedOut = TRUE, !.proc = "killed", !.seen = v])
    BY <1>0, <2>1 DEF Changed, IsRec, Fields, AtWork
  <2> QED BY <2>1, <2>2, <1>b DEF AtWork
<1>9. CASE PlaybookExits(n)
  <2>1. /\ r.gear = "playing"
        /\ \/ \E exit : Becomes(Finished(r, "none", {exit}))
           \/ \E v, t : Becomes([r EXCEPT !.gear = "post", !.proc = "on", !.seen = v,
                                          !.status = t])
    BY <1>9 DEF PlaybookExits
  <2>2. \A v, t : Works([r EXCEPT !.gear = "post", !.proc = "on", !.seen = v,
                                  !.status = t])
    BY <1>0, <2>1 DEF Changed, IsRec, Fields, AtWork
  <2>3. \A exit : Works(Finished(r, "none", {exit}))
    BY <1>f DEF Results
  <2>4. r.gear \in AtWork
    BY <2>1 DEF AtWork
  <2> HIDE DEF Works
  <2> QED BY <2>1, <2>2, <2>3, <2>4, <1>b
<1>10. CASE PostExits(n)
  <2>1. r.gear = "post" /\ \E post, why : Becomes(Finished(r, Verdict(r, post), why))
    BY <1>10 DEF PostExits
  <2>2. \A post, why : Works(Finished(r, Verdict(r, post), why))
    BY <1>f, VerdictTyped
  <2> QED BY <2>1, <2>2, <1>b DEF AtWork
<1>11. CASE EndJob(n)
  <2> DEFINE s == [r EXCEPT !.gear = "reporting", !.runningJob = FALSE]
  <2>1. r.gear = "finished" /\ Becomes(s)
    BY <1>11 DEF EndJob
  <2>2. Works(s) /\ r.gear \in AtWork
    BY <1>0, <2>1 DEF Changed, IsRec, Fields, AtWork
  <2> HIDE DEF s
  <2> QED BY <2>1, <2>2, <1>b
<1>12. CASE ReportJob(n)
  <2> DEFINE q == [r EXCEPT !.sentComplete = TRUE, !.complete = TRUE]
             s == [q EXCEPT !.gear = "put", !.running = FALSE, !.unpaused = TRUE]
  <2>1. r.gear = "reporting" /\ (Becomes(s) \/ Becomes(Looped(q)))
    BY <1>12 DEF ReportJob
  <2>2. Changed(r, q, {"sentComplete"}) /\ q.sentComplete = TRUE
    BY <1>0 DEF Changed, IsRec, Fields
  <2> HIDE DEF q
  <2>3. CASE Becomes(s)
    <3>1. Changed(q, s, {"gear", "running"}) /\ s.gear = "put"
      BY <2>2 DEF Changed, IsRec, Fields
    <3> HIDE DEF s
    <3>2. /\ IsRec(s) /\ s.life = r.life /\ s.todo = r.todo /\ s.queuer = r.queuer
          /\ s.build = r.build /\ s.connected = r.connected /\ s.sentComplete = TRUE
          /\ s.proc = r.proc /\ s.result = r.result
      BY <2>2, <3>1 DEF Changed, Fields
    <3>3. Typed(s) /\ Keeps(r, s)
      BY <1>0, <2>1, <3>1, <3>2 DEF Typed, Keeps, AtWork
    <3>4. Owed(s) /\ OnDuty(s, n) /\ WillStop(s, n)
      BY <3>1, <3>2 DEF Owed, Reported, OnDuty, WillStop, StoppedByItself
    <3>5. WaitedFor(s, n)
      BY <1>0, <3>1, <3>2 DEF Good, WaitedFor, ToStop
    <3> QED BY <2>3, <3>3, <3>4, <3>5 DEF Good, Moves
  <2>4. CASE Becomes(Looped(q))
    BY <2>1, <2>2, <2>4, <1>l DEF AtWork
  <2> QED BY <2>1, <2>3, <2>4
<1>13. CASE PutOwnStop(n)
  <2> DEFINE s == [r EXCEPT !.gear = "join", !.todo = Append(@, "stop")]
  <2>1. r.gear = "put" /\ Becomes(s)
    BY <1>13 DEF PutOwnStop
  <2>2. /\ Changed(r, s, {"gear", "todo"}) /\ s.gear = "join"
        /\ s.todo = Append(r.todo, "stop")
    BY <1>0 DEF Changed, IsRec, Fields
  <2> HIDE DEF s
  <2>3. s.todo \in Seq(Actions) /\ ToStop(s)
    <3>1. r.todo \in Seq(Actions) /\ r.todo \in Seq(ToSet(r.todo))
      BY <1>0, SeqOfItsOwn DEF Typed
    <3> QED BY <2>2, <3>1, AddedToTheRest DEF ToStop, Actions
  <2>4. /\ IsRec(s) /\ s.life = r.life /\ s.running = r.running /\ s.queuer = r.queuer
        /\ s.build = r.build /\ s.connected = r.connected
        /\ s.sentComplete = r.sentComplete /\ s.proc = r.proc /\ s.result = r.result
    BY <2>2 DEF Changed, Fields
  <2>5. Typed(s) /\ Keeps(r, s)
    BY <1>0, <2>1, <2>2, <2>3, <2>4 DEF Typed, Keeps, AtWork
  <2>6. Owed(s)
    BY <1>0, <2>1, <2>2, <2>4 DEF Good, Owed, Reported, AtWork
  <2>7. OnDuty(s, n) /\ WillStop(s, n) /\ WaitedFor(s, n)
    BY <2>2, <2>3 DEF OnDuty, WillStop, WaitedFor, StoppedByItself
  <2> QED BY <2>1, <2>5, <2>6, <2>7 DEF Good, Moves
<1>14. CASE JoinOwnQueue(n)
  <2> DEFINE s == Looped(r)
  <2>1. r.gear = "join" /\ QueueDone(n) /\ Becomes(s)
    BY <1>14 DEF JoinOwnQueue
  <2>2. ~ToStop(r)
    BY <2>1 DEF QueueDone, ToStop, ToSet
  <2>3. ~r.connected
    BY <1>0, <2>1, <2>2 DEF Good, WaitedFor
  <2>4. /\ Changed(r, s, {"gear", "build", "result"})
        /\ s.gear = "top" /\ s.build = NoNode /\ s.result = "none"
    BY <1>0 DEF Looped, Changed, IsRec, Fields
  <2> HIDE DEF s
  <2>5. /\ IsRec(s) /\ s.life = r.life /\ s.running = r.running /\ s.todo = r.todo
        /\ s.queuer = r.queuer /\ s.connected = r.connected
        /\ s.sentComplete = r.sentComplete /\ s.proc = r.proc
    BY <2>4 DEF Changed, Fields
  <2>6. Typed(s) /\ Keeps(r, s)
    BY <1>0, <2>1, <2>4, <2>5 DEF Typed, Keeps, AtWork, Results
  <2>7. Owed(s)
    BY <1>0, <2>1, <2>4, <2>5 DEF Good, Owed, Reported, AtWork
  <2>8. OnDuty(s, n) /\ WillStop(s, n) /\ WaitedFor(s, n)
    BY <2>3, <2>5 DEF OnDuty, WillStop, WaitedFor
  <2> QED BY <2>1, <2>6, <2>7, <2>8 DEF Good, Moves
<1> QED
  BY <1>1, <1>2, <1>3, <1>4, <1>5, <1>6, <1>7, <1>8, <1>9, <1>10, <1>11, <1>12, <1>13,
     <1>14 DEF GearThread


(* A worker that is as good as before, when the server has done nothing.   *)
LEMMA GoodAgain ==
  ASSUME NEW n \in Node, Good(w'[n], n), UNCHANGED <<nodes, command>>
  PROVE  Good(w[n], n)'
BY DEF Good, Typed, IsRec, Owed, Reported, OnDuty, WillStop, WaitedFor, ToStop,
       StoppedByServer, JoinedByServer, StoppedByItself

(* One worker moves and the server does nothing.                           *)
LEMMA OneMoves ==
  ASSUME AreGood(w), NEW n \in Node, NEW s, Good(s, n), w' = [w EXCEPT ![n] = s],
         UNCHANGED <<nodes, command>>
  PROVE  AreGood(w)'
<1>1. w' = [m \in Node |-> w'[m]] /\ \A m \in Node : Good(w'[m], m)
  BY DEF AreGood
<1>2. \A m \in Node : Good(w[m], m)'
  BY <1>1, GoodAgain
<1> QED BY <1>1, <1>2 DEF AreGood

(* A worker takes a build out of the queue.                                *)
LEMMA GotJobGood ==
  ASSUME AreGood(w), waiting \subseteq Build, NEW n \in Node, GotJob(n)
  PROVE  AreGood(w)'
<1>1. PICK b \in Build : w' = [w EXCEPT ![n].gear = "got", ![n].build = b, ![n].gotJob = TRUE]
  BY DEF GotJob
<1> DEFINE r == w[n]
           s == [r EXCEPT !.gear = "got", !.build = b, !.gotJob = TRUE]
<1>2. /\ Good(r, n) /\ Typed(r) /\ r.gear = "getting"
      /\ UNCHANGED <<nodes, command>>
  BY DEF AreGood, Good, GotJob, manager
<1>3. w' = [w EXCEPT ![n] = s]
  BY <1>1
<1>4. Changed(r, s, {"gear", "build"}) /\ s.gear = "got" /\ s.build = b
  BY <1>2 DEF Typed, Changed, IsRec, Fields
<1> HIDE DEF s
<1>5. /\ IsRec(s) /\ s.life = r.life /\ s.running = r.running /\ s.todo = r.todo
      /\ s.queuer = r.queuer /\ s.connected = r.connected
      /\ s.sentComplete = r.sentComplete /\ s.proc = r.proc /\ s.result = r.result
  BY <1>4 DEF Changed, Fields
<1>6. Typed(s) /\ (Reported(r) => Reported(s)) /\ (ToStop(r) => ToStop(s))
  BY <1>2, <1>4, <1>5 DEF Typed, Reported, ToStop, AtWork
<1>7. Good(s, n)
  BY <1>2, <1>4, <1>5, <1>6, GoodKept
<1> QED BY <1>2, <1>3, <1>7, OneMoves


-----------------------------------------------------------------------------
(* The steps of the launch server.                                         *)

(* What makes a worker good after a step of the server: no node is taken   *)
(* away from a worker at work, no stop is given up that was not taken, and *)
(* nobody waits for a queue without a stop.                                *)
LEMMA GoodStill ==
  ASSUME NEW n \in Node, Good(w'[n], n),
         n \in nodes => n \in nodes' \/ w'[n].queuer = "done",
         StoppedByServer(n) => StoppedByServer(n)' \/ ~w'[n].connected,
         JoinedByServer(n)' => JoinedByServer(n) \/ ToStop(w'[n])
  PROVE  Good(w[n], n)'
BY DEF Good, Typed, IsRec, Owed, Reported, OnDuty, WillStop, WaitedFor, ToStop,
       StoppedByItself

ToldMore(r, actions) == [r EXCEPT !.todo = @ \o actions]

(* A worker that is told to do more is as good, and has it before it.      *)
LEMMA ToldIsGood ==
  ASSUME NEW n \in Node, NEW r, Good(r, n), NEW actions \in Seq(Actions),
         NEW s, s = ToldMore(r, actions)
  PROVE  /\ Good(s, n) /\ Keeps(r, s) /\ s.connected = r.connected
         /\ "stop" \in ToSet(actions) => ToStop(s)
<1>1. IsRec(r) /\ Typed(r) /\ r.todo \in Seq(Actions)
  BY DEF Good, Typed
<1>2. Changed(r, s, {"todo"}) /\ s.todo = r.todo \o actions
  BY <1>1 DEF ToldMore, Changed, IsRec, Fields
<1>3. /\ IsRec(s) /\ s.life = r.life /\ s.running = r.running /\ s.queuer = r.queuer
      /\ s.gear = r.gear /\ s.build = r.build /\ s.connected = r.connected
      /\ s.sentComplete = r.sentComplete /\ s.proc = r.proc /\ s.result = r.result
  BY <1>2 DEF Changed, Fields
<1>4. s.todo \in Seq(Actions) /\ ToSet(r.todo) \cup ToSet(actions) \subseteq ToSet(s.todo)
  BY <1>1, <1>2, MoreToDo
<1>5. Typed(s) /\ Keeps(r, s) /\ (Reported(r) => Reported(s)) /\ (ToStop(r) => ToStop(s))
  BY <1>1, <1>3, <1>4 DEF Typed, Keeps, Reported, ToStop
<1>6. Good(s, n)
  BY <1>3, <1>5, GoodKept
<1> QED BY <1>3, <1>4, <1>5, <1>6 DEF ToStop

(* The same for all that are told.                                         *)
LEMMA TellGood ==
  ASSUME AreGood(w), NEW S, NEW actions \in Seq(Actions), w' = Tell(S, actions)
  PROVE  /\ w' = [n \in Node |-> w'[n]]
         /\ \A n \in Node : /\ Good(w'[n], n) /\ Keeps(w[n], w'[n])
                            /\ w'[n].connected = w[n].connected
                            /\ n \in S /\ "stop" \in ToSet(actions) => ToStop(w'[n])
<1>1. w' = [n \in Node |-> w'[n]]
  BY DEF Tell
<1>2. ASSUME NEW n \in Node
      PROVE  /\ Good(w'[n], n) /\ Keeps(w[n], w'[n]) /\ w'[n].connected = w[n].connected
             /\ n \in S /\ "stop" \in ToSet(actions) => ToStop(w'[n])
  <2>1. Good(w[n], n) /\ Keeps(w[n], w[n])
    BY DEF AreGood, Keeps
  <2>2. CASE n \in S
    <3>1. PICK s : s = ToldMore(w[n], actions)
      OBVIOUS
    <3>2. w'[n] = s
      BY <2>2, <3>1 DEF Tell, ToldMore
    <3>3. /\ Good(s, n) /\ Keeps(w[n], s) /\ s.connected = w[n].connected
          /\ "stop" \in ToSet(actions) => ToStop(s)
      BY <2>1, <3>1, ToldIsGood
    <3> QED BY <3>2, <3>3
  <2>3. CASE n \notin S
    BY <2>1, <2>3 DEF Tell
  <2> QED BY <2>2, <2>3
<1> QED BY <1>1, <1>2

(* A worker as launchNode makes it, and the place where none is.           *)
LEMMA NewIsGood ==
  ASSUME NEW n \in Node
  PROVE  /\ Typed(NewWorker) /\ Typed(NoWorker)
         /\ NewWorker.connected /\ NewWorker.running /\ NewWorker.queuer = "get"
         /\ NewWorker.gear = "top"
         /\ ~NoWorker.connected /\ NoWorker.queuer = "done" /\ NoWorker.life = "none"
         /\ NoWorker.gear = "ended"
<1> DEFINE r == NewWorker
<1>0. /\ r.connected = TRUE /\ r.running = TRUE /\ r.queuer = "get" /\ r.gear = "top"
      /\ r.todo = <<>> /\ r.build = NoNode /\ r.result = "none" /\ r.proc = "none"
      /\ r.life = "alive"
  BY DEF NewWorker
<1>r. IsRec(r)
  BY DEF NewWorker, IsRec, Fields
<1> HIDE DEF r
<1>1. Typed(r)
  BY <1>0, <1>r DEF Typed, AtWork, Results
<1> DEFINE s == [r EXCEPT !.life = "none", !.running = FALSE, !.connected = FALSE,
                          !.queuer = "done", !.gear = "ended", !.registered = {}]
<1>2. /\ IsRec(s) /\ s.life = "none" /\ s.connected = FALSE /\ s.queuer = "done"
      /\ s.gear = "ended" /\ s.todo = r.todo /\ s.build = r.build
      /\ s.result = r.result /\ s.proc = r.proc
  BY <1>r DEF IsRec, Fields
<1> HIDE DEF s
<1>3. Typed(s)
  BY <1>0, <1>1, <1>2 DEF Typed, AtWork
<1> QED BY <1>0, <1>1, <1>2, <1>3 DEF NoWorker, r, s


(* Every step of the launch server.                                        *)
LEMMA ServerKeepsGood ==
  ASSUME AreGood(w), ServerTyped,
         \/ \E n \in Node : AssignNode(n) \/ RevokeNode(n)
         \/ \E b \in Build : StopJob(b)
         \/ Reap \/ Pause \/ Unpause \/ ReleaseNodes \/ ReloadJobs \/ Graceful \/ Stop
         \/ CommandThread
  PROVE  AreGood(w)' /\ ServerTyped'
<1> DEFINE Before == {"commands", "draining"}
           NoStop == command.at \notin {"put", "join"}
           NoStopThen == command'.at \notin {"put", "join"}
<1>0. w = [n \in Node |-> w[n]] /\ \A n \in Node : Good(w[n], n)
  BY DEF AreGood
<1>a. ASSUME NEW actions \in Seq(Actions), NEW S, w' = Tell(S, actions),
             UNCHANGED nodes, NoStop, NoStopThen
      PROVE  AreGood(w)'
  <2>1. w' = [n \in Node |-> w'[n]] /\ \A n \in Node : Good(w'[n], n)
    BY <1>a, TellGood
  <2>2. \A n \in Node : Good(w[n], n)'
    BY <1>a, <2>1, GoodStill DEF StoppedByServer, JoinedByServer
  <2> QED BY <2>1, <2>2 DEF AreGood
<1>b. ASSUME NEW actions \in Seq(Actions), NEW S, w' = Tell(S, actions),
             UNCHANGED <<nodes, command>>
      PROVE  AreGood(w)'
  <2>1. w' = [n \in Node |-> w'[n]] /\ \A n \in Node : Good(w'[n], n)
    BY <1>b, TellGood
  <2>2. \A n \in Node : Good(w[n], n)'
    BY <1>b, <2>1, GoodAgain
  <2> QED BY <2>1, <2>2 DEF AreGood
<1>c. ASSUME UNCHANGED <<w, nodes>>, NoStop, NoStopThen PROVE AreGood(w)'
  <2>1. \A n \in Node : Good(w'[n], n)
    BY <1>0, <1>c
  <2>2. \A n \in Node : Good(w[n], n)'
    BY <1>c, <2>1, GoodStill DEF StoppedByServer, JoinedByServer
  <2> QED BY <1>0, <1>c, <2>2 DEF AreGood
<1>t. /\ <<"stop">> \in Seq(Actions) /\ <<"pause">> \in Seq(Actions)
      /\ <<"unpause">> \in Seq(Actions) /\ <<"release">> \in Seq(Actions)
      /\ <<"reconfigure">> \in Seq(Actions) /\ <<"abort">> \in Seq(Actions)
      /\ <<"pause", "release">> \in Seq(Actions) /\ "stop" \in ToSet(<<"stop">>)
  BY DEF Actions, ToSet
<1>1. ASSUME NEW n \in Node, AssignNode(n) PROVE AreGood(w)' /\ ServerTyped'
  <2>1. /\ w' = [w EXCEPT ![n] = NewWorker] /\ nodes' = nodes \cup {n}
        /\ UNCHANGED command /\ command.at \in Before
    BY <1>1 DEF AssignNode, Serving
  <2>2. ServerTyped'
    BY <2>1 DEF ServerTyped
  <2>3. ASSUME NEW m \in Node, m # n PROVE Good(w[m], m)'
    <3>1. w'[m] = w[m]
      BY <1>0, <2>1, <2>3
    <3> QED BY <1>0, <2>1, <3>1, GoodStill DEF StoppedByServer, JoinedByServer
  <2>4. /\ w'[n] = NewWorker
        /\ Typed(NewWorker) /\ NewWorker.connected /\ NewWorker.running
        /\ NewWorker.queuer = "get" /\ NewWorker.gear = "top"
    BY <1>0, <2>1, NewIsGood
  <2> DEFINE s == w'[n]
  <2>5. Typed(s) /\ s.connected /\ s.running /\ s.queuer = "get" /\ s.gear = "top"
    BY <2>4
  <2>6. n \in nodes' /\ command'.at # "join"
    BY <2>1
  <2>7. Good(w[n], n)'
    BY <2>5, <2>6
    DEF Good, Typed, IsRec, Owed, Reported, OnDuty, WillStop, WaitedFor, ToStop,
        JoinedByServer
  <2>8. w' = [m \in Node |-> w'[m]]
    BY <1>0, <2>1
  <2> QED BY <2>2, <2>3, <2>7, <2>8 DEF AreGood
<1>2. ASSUME NEW n \in Node, RevokeNode(n) PROVE AreGood(w)' /\ ServerTyped'
  BY <1>2, <1>b, <1>t DEF RevokeNode, ServerTyped
<1>3. ASSUME NEW b \in Build, StopJob(b) PROVE AreGood(w)' /\ ServerTyped'
  BY <1>3, <1>b, <1>t DEF StopJob, ServerTyped
<1>4. CASE Reap
  <2>1. /\ nodes' = nodes \ {Head(ended)} /\ UNCHANGED <<w, command>>
        /\ Head(ended) \in nodes => w[Head(ended)].life = "dead"
    BY <1>4 DEF Reap
  <2>2. ASSUME NEW n \in Node PROVE Good(w[n], n)'
    <3>1. Good(w'[n], n) /\ Typed(w'[n]) /\ w'[n] = w[n]
      BY <1>0, <2>1 DEF Good
    <3>2. n \in nodes => n \in nodes' \/ w'[n].queuer = "done"
      BY <2>1, <3>1 DEF Typed
    <3> QED BY <2>1, <3>1, <3>2, GoodStill DEF StoppedByServer, JoinedByServer
  <2> QED BY <1>0, <2>1, <2>2 DEF AreGood, ServerTyped
<1>5. CASE Pause \/ Unpause \/ ReleaseNodes \/ ReloadJobs
  BY <1>5, <1>b, <1>t DEF Pause, Unpause, ReleaseNodes, ReloadJobs, ServerTyped
<1>6. CASE Graceful
  <2>1. command.at = "commands" /\ command'.at = "draining"
    BY <1>6 DEF Graceful, Working
  <2> QED BY <1>6, <2>1, <1>a, <1>t DEF Graceful, ServerTyped
<1>7. CASE Stop \/ Drained \/ Stopped
  <2>1. /\ command.at \in {"commands", "draining", "stopping"}
        /\ command' = [at |-> "stopping", left |-> nodes] \/ command' = [at |-> "stopped"]
        /\ UNCHANGED <<w, nodes>>
    BY <1>7 DEF Stop, Drained, Stopped, Working
  <2> QED BY <2>1, <1>c DEF ServerTyped
<1>8. CASE StopNextNode
  <2>0. command.at = "stopping" /\ UNCHANGED nodes
    BY <1>8 DEF StopNextNode
  <2>1. PICK n \in command.left :
          IF w[n].life = "alive"
          THEN /\ command' = [at |-> "put", node |-> n, left |-> command.left \ {n}]
               /\ w' = [w EXCEPT ![n].running = FALSE, ![n].unpaused = TRUE]
          ELSE /\ command' = [at |-> "stopping", left |-> command.left \ {n}]
               /\ UNCHANGED w
    BY <1>8 DEF StopNextNode
  <2>2. n \in Node /\ command.left \subseteq Node
    BY <2>0, <2>1 DEF ServerTyped
  <2>3. ServerTyped'
    BY <2>0, <2>1, <2>2 DEF ServerTyped
  <2>4. CASE w[n].life # "alive"
    BY <2>0, <2>1, <2>3, <2>4, <1>c
  <2>5. CASE w[n].life = "alive"
    <3> DEFINE r == w[n]
               s == [r EXCEPT !.running = FALSE, !.unpaused = TRUE]
    <3>0. command'.at = "put" /\ command'.node = n
      BY <2>1, <2>5
    <3>1. Good(r, n) /\ Typed(r) /\ w' = [w EXCEPT ![n] = s]
      BY <1>0, <2>1, <2>2, <2>5 DEF Good
    <3>2. Changed(r, s, {"running"})
      BY <3>1 DEF Typed, Changed, IsRec, Fields
    <3> HIDE DEF s
    <3>3. w'[n] = s /\ \A m \in Node \ {n} : w'[m] = w[m]
      BY <1>0, <2>2, <3>1
    <3>4. /\ IsRec(s) /\ s.life = r.life /\ s.todo = r.todo /\ s.queuer = r.queuer
          /\ s.gear = r.gear /\ s.build = r.build /\ s.connected = r.connected
          /\ s.sentComplete = r.sentComplete /\ s.proc = r.proc /\ s.result = r.result
      BY <3>2 DEF Changed, Fields
    <3>5. Typed(s)
      BY <3>1, <3>4 DEF Typed
    <3>6. Good(w[n], n)'
      BY <2>0, <3>0, <3>1, <3>3, <3>4, <3>5
      DEF Good, Typed, IsRec, Owed, Reported, OnDuty, WillStop, WaitedFor, ToStop,
          StoppedByServer, JoinedByServer, StoppedByItself
    <3>7. ASSUME NEW m \in Node, m # n PROVE Good(w[m], m)'
      BY <1>0, <2>0, <3>0, <3>3, <3>7, GoodStill DEF StoppedByServer, JoinedByServer
    <3>8. w' = [m \in Node |-> w'[m]]
      BY <1>0, <3>1
    <3> QED BY <2>3, <3>6, <3>7, <3>8 DEF AreGood
  <2> QED BY <2>4, <2>5
<1>9. CASE PutStop
  <2>1. /\ command.at = "put" /\ w' = Tell({command.node}, <<"stop">>)
        /\ command' = [at |-> "join", node |-> command.node, left |-> command.left]
        /\ UNCHANGED nodes
    BY <1>9 DEF PutStop
  <2>2. ServerTyped'
    BY <2>1 DEF ServerTyped
  <2>3. w' = [n \in Node |-> w'[n]]
        /\ \A n \in Node : Good(w'[n], n) /\ (n = command.node => ToStop(w'[n]))
    BY <1>t, <2>1, TellGood
  <2>4. \A n \in Node : Good(w[n], n)'
    BY <2>1, <2>3, GoodStill DEF StoppedByServer, JoinedByServer
  <2> QED BY <2>2, <2>3, <2>4 DEF AreGood
<1>10. CASE JoinQueue
  <2>1. /\ command.at = "join" /\ QueueDone(command.node)
        /\ command' = [at |-> "stopping", left |-> command.left]
        /\ UNCHANGED <<nodes, w>>
    BY <1>10 DEF JoinQueue
  <2>2. ServerTyped'
    BY <2>1 DEF ServerTyped
  <2>3. ASSUME NEW n \in Node PROVE Good(w[n], n)'
    <3>1. Good(w'[n], n) /\ w'[n] = w[n]
      BY <1>0, <2>1
    <3>2. n = command.node => ~w'[n].connected
      BY <2>1, <3>1 DEF Good, WaitedFor, JoinedByServer, QueueDone, ToStop, ToSet
    <3> QED BY <2>1, <3>1, <3>2, GoodStill DEF StoppedByServer, JoinedByServer
  <2> QED BY <1>0, <2>1, <2>2, <2>3 DEF AreGood
<1> QED
  BY <1>1, <1>2, <1>3, <1>4, <1>5, <1>6, <1>7, <1>8, <1>9, <1>10 DEF CommandThread


-----------------------------------------------------------------------------
(* Where a build is, and who serves it.                                    *)

(* The worker of node n has build b.                                       *)
Holds(n, b) == w[n].gear \in AtWork /\ w[n].build = b

(* The client has seen the build start, or will.                           *)
DataSent(b, ps) == \E p \in ToSet(ps) : p.kind = "data" /\ p.build = b
Reached(b) == b \in started \/ DataSent(b, packets)

(* Only a build that was taken out of the queue starts, ...                *)
Unqueued(b) == b \notin launched \/ BeingSubmitted(b)
StartedIsTaken == \A b \in Build : Unqueued(b) \/ b \in waiting => ~Reached(b)

(* ... and one worker takes it.                                            *)
TakenOnce ==
  \A m, n \in Node : \A b \in Build : Holds(m, b) /\ Holds(n, b) => m = n

(* The launch server knows the worker of a build that prepares it, or whose*)
(* start the client was told of.                                           *)
Served ==
  \A n \in Node :
    /\ w[n].gear = "prepare" => serving[w[n].build] = n
    /\ \A b \in Build : Holds(n, b) /\ Reached(b) => serving[b] = n

ServedInv == StartedIsTaken /\ TakenOnce /\ Served

(* Nobody has a build that is in the queue or not yet there.               *)
LEMMA HeldIsTaken ==
  ASSUME LaunchInv, NEW n \in Node, NEW b \in Build, w[n].build = b
  PROVE  ~Unqueued(b) /\ b \notin waiting
<1>1. InHand(b)
  BY DEF InHand
<1>2. b \in launched /\ b \notin waiting
  BY <1>1 DEF LaunchInv, Unasked, Untouched, QueuedOrInHand
<1>3. ~BeingSubmitted(b)
  BY <1>1 DEF LaunchInv, Submitting, Untouched, BeingSubmitted
<1> QED BY <1>2, <1>3 DEF Unqueued

(* A step of the client alone: it takes builds from nowhere to the queue,  *)
(* and is not told of a start without a worker's word.                     *)
LEMMA ClientKeepsServed ==
  ASSUME ServedInv, UNCHANGED <<w, serving>>,
         \A b \in Build : Reached(b)' => Reached(b),
         \A b \in Build : (Unqueued(b) \/ b \in waiting)' => Unqueued(b) \/ b \in waiting
  PROVE  ServedInv'
<1>1. StartedIsTaken'
  BY DEF ServedInv, StartedIsTaken
<1>2. TakenOnce'
  BY DEF ServedInv, TakenOnce, Holds
<1>3. Served'
  BY DEF ServedInv, Served, Holds
<1> QED BY <1>1, <1>2, <1>3 DEF ServedInv

(* A step of the launch server in which no build is taken, none is about   *)
(* to start, and none ends.                                                *)
LEMMA QuietlyServed ==
  ASSUME ServedInv, \A n \in Node : Keeps(w[n], w'[n]),
         \A n \in Node : w'[n].gear = "prepare" => w[n].gear = "prepare",
         UNCHANGED <<serving, client>>, waiting' \subseteq waiting,
         \A b \in Build : DataSent(b, packets') => DataSent(b, packets)
  PROVE  ServedInv'
<1>1. \A n \in Node, b \in Build : Holds(n, b)' => Holds(n, b)
  BY DEF Holds, Keeps
<1>2. \A b \in Build : Reached(b)' => Reached(b)
  BY DEF Reached, client
<1>3. StartedIsTaken'
  BY <1>2 DEF ServedInv, StartedIsTaken, Unqueued, BeingSubmitted, client
<1>4. TakenOnce'
  BY <1>1 DEF ServedInv, TakenOnce
<1>5. ASSUME NEW n \in Node, w'[n].gear = "prepare" PROVE serving'[w'[n].build] = n
  <2>1. w[n].gear = "prepare" /\ w'[n].build = w[n].build
    BY <1>5 DEF Keeps, AtWork
  <2> QED BY <2>1 DEF ServedInv, Served
<1>6. ASSUME NEW n \in Node, NEW b \in Build, Holds(n, b)', Reached(b)'
      PROVE  serving'[b] = n
  BY <1>1, <1>2, <1>6 DEF ServedInv, Served
<1>7. Served'
  BY <1>5, <1>6 DEF Served
<1> QED BY <1>3, <1>4, <1>7 DEF ServedInv

(* What a packet on its way to the client says of the start of a build.    *)
LEMMA DataOnly ==
  ASSUME Shape, NEW p, ToClient(p) \/ packets' = Append(packets, p) \/ UNCHANGED packets
  PROVE  \A b : DataSent(b, packets') =>
                  DataSent(b, packets) \/ (p.kind = "data" /\ p.build = b)
<1>1. CASE packets' = Append(packets, p)
  <2>1. ToSet(packets') \subseteq ToSet(packets) \cup {p}
    BY <1>1, AddedAtTheEnd DEF Shape
  <2> QED BY <2>1 DEF DataSent
<1>2. CASE UNCHANGED packets
  BY <1>2
<1> QED BY <1>1, <1>2 DEF ToClient


(* What the queue thread calls takes the other thread nowhere but, from    *)
(* getJob, to the top of its loop.                                         *)
Goes(r, s) == IsRec(s) /\ s.gear \in {r.gear, "top"}
LEMMA CallsGo ==
  ASSUME NEW r, IsRec(r)
  PROVE  /\ Goes(r, PausedWorker(r)) /\ Goes(r, AbortedWorker(r)) /\ Goes(r, RegisterNow(r))
         /\ Goes(r, Farewell(r))
         /\ \A v : /\ Goes(r, [r EXCEPT !.running = v]) /\ Goes(r, [r EXCEPT !.unpaused = v])
                   /\ Goes(r, [r EXCEPT !.queuer = v]) /\ Goes(r, [r EXCEPT !.pending = v])
                   /\ Goes(r, [r EXCEPT !.queuer = "done", !.life = v])
                   /\ Goes(r, [r EXCEPT !.queuer = "check", !.todo = v])
                   /\ Goes(r, [r EXCEPT !.queuer = "check", !.unpaused = v])
                   /\ Goes(r, [r EXCEPT !.queuer = "releasing", !.wasUnpaused = v])
BY DEF Goes, IsRec, Fields, PausedWorker, AbortedWorker, RegisterNow, Farewell

(* Only one step takes a worker to the place where it prepares a build.    *)
LEMMA QueueThreadPrepares ==
  ASSUME AreGood(w), NEW n \in Node, QueueThread(n)
  PROVE  w'[n].gear = "prepare" => w[n].gear = "prepare"
<1> DEFINE r == w[n]
<1>0. w = [m \in Node |-> w[m]] /\ IsRec(r)
  BY DEF AreGood, Good, Typed
<1>r. Goes(r, Rest(n))
  BY <1>0 DEF Rest, Goes, IsRec, Fields
<1>w. ASSUME NEW s, w' = [w EXCEPT ![n] = s], Goes(r, s)
      PROVE  w'[n].gear = "prepare" => r.gear = "prepare"
  BY <1>0, <1>w DEF Goes
<1>c. ASSUME NEW t, Goes(r, t), NEW s, Goes(t, s) PROVE Goes(r, s)
  BY <1>c DEF Goes
<1>s. ASSUME NEW t, Goes(r, t), Shutdown(n, t)
      PROVE  w'[n].gear = "prepare" => r.gear = "prepare"
  <2>1. w' = [w EXCEPT ![n] = [t EXCEPT !.connected = FALSE, !.queuer = "check",
                                        !.gear = IF @ = "getting" THEN "top" ELSE @]]
    BY <1>s DEF Shutdown
  <2>2. Goes(t, [t EXCEPT !.connected = FALSE, !.queuer = "check",
                          !.gear = IF @ = "getting" THEN "top" ELSE @])
    BY <1>s DEF Goes, IsRec, Fields
  <2> QED BY <1>c, <1>s, <1>w, <2>1, <2>2
<1>g. \A t : Goes(r, t) => IsRec(t)
  BY DEF Goes
<1>1. CASE QueueLoop(n)
  BY <1>0, <1>1, <1>w, CallsGo DEF QueueLoop
<1>2. CASE TakeStop(n)
  <2> DEFINE q == [Rest(n) EXCEPT !.running = FALSE]
             u == AbortedWorker(q)
  <2>1. Goes(r, q)
    BY <1>c, <1>g, <1>r, CallsGo
  <2>2. Goes(r, u) /\ IsRec(u)
    BY <1>c, <1>g, <2>1, CallsGo
  <2>3. \/ w' = [w EXCEPT ![n] = [u EXCEPT !.queuer = "stopping"]]
        \/ Shutdown(n, Farewell(u))
    BY <1>2 DEF TakeStop
  <2> HIDE DEF u
  <2>4. Goes(r, [u EXCEPT !.queuer = "stopping"]) /\ Goes(r, Farewell(u))
    BY <1>c, <2>2, CallsGo
  <2> QED BY <1>s, <1>w, <2>3, <2>4
<1>3. CASE StopWaited(n)
  BY <1>0, <1>3, <1>s DEF StopWaited, Goes
<1>4. CASE TakePause(n) \/ TakeUnpause(n) \/ TakeAbort(n)
  <2>1. /\ Goes(r, PausedWorker(Rest(n))) /\ Goes(r, AbortedWorker(Rest(n)))
        /\ Goes(r, [Rest(n) EXCEPT !.unpaused = TRUE])
    BY <1>c, <1>g, <1>r, CallsGo
  <2> QED BY <1>4, <1>w, <2>1 DEF TakePause, TakeUnpause, TakeAbort
<1>5. CASE TakeRelease(n)
  <2> DEFINE t == IF r.unpaused THEN PausedWorker(Rest(n)) ELSE Rest(n)
  <2>1. Goes(r, t) /\ IsRec(t)
    BY <1>c, <1>g, <1>r, CallsGo
  <2>2. w' = [w EXCEPT ![n] = [t EXCEPT !.queuer = "releasing",
                                        !.wasUnpaused = r.unpaused]]
    BY <1>5 DEF TakeRelease
  <2> HIDE DEF t
  <2>3. Goes(t, [t EXCEPT !.queuer = "releasing", !.wasUnpaused = r.unpaused])
    BY <2>1, CallsGo
  <2>4. Goes(r, [t EXCEPT !.queuer = "releasing", !.wasUnpaused = r.unpaused])
    BY <1>c, <2>1, <2>3
  <2> QED BY <1>w, <2>2, <2>4
<1>6. CASE ReleaseLocked(n)
  BY <1>0, <1>6, <1>w, CallsGo DEF ReleaseLocked
<1>7. CASE TakeReconfigure(n)
  <2>1. /\ Goes(r, RegisterNow(Rest(n)))
        /\ \A v : Goes(r, [Rest(n) EXCEPT !.pending = v])
    BY <1>c, <1>g, <1>r, CallsGo
  <2> QED BY <1>7, <1>w, <2>1 DEF TakeReconfigure
<1> QED
  BY <1>1, <1>2, <1>3, <1>4, <1>5, <1>6, <1>7 DEF QueueThread

(* The same for the other thread.                                          *)
LEMMA GearThreadPrepares ==
  ASSUME AreGood(w), NEW n \in Node,
         GearThread(n) \/ AnsibleTimeout(n) \/ GotJob(n), ~BeginJob(n)
  PROVE  w'[n].gear = "prepare" => w[n].gear = "prepare"
<1> DEFINE r == w[n]
           Elsewhere(s) == s.gear # "prepare"
<1>0. w = [m \in Node |-> w[m]] /\ IsRec(r)
  BY DEF AreGood, Good, Typed
<1>w. ASSUME NEW s, w' = [w EXCEPT ![n] = s], Elsewhere(s)
      PROVE  w'[n].gear # "prepare"
  BY <1>0, <1>w
<1>f. ASSUME NEW result, NEW why PROVE Elsewhere(Finished(r, result, why))
  BY <1>0 DEF Finished, IsRec, Fields
<1>l. ASSUME NEW t, IsRec(t) PROVE Elsewhere(Looped(t))
  BY <1>l DEF Looped, IsRec, Fields
<1>1. CASE GearLoop(n) \/ GearRegister(n) \/ GetJob(n)
  <2>1. /\ \A g : g # "prepare" => Elsewhere([r EXCEPT !.gear = g])
        /\ Elsewhere([RegisterNow(r) EXCEPT !.gear = "ready"])
    BY <1>0 DEF RegisterNow, IsRec, Fields
  <2> HIDE DEF Elsewhere
  <2> QED BY <1>1, <1>w, <2>1 DEF GearLoop, GearRegister, GetJob
<1>2. CASE LaunchBuild(n)
  <2>1. \A v : Elsewhere([r EXCEPT !.gear = "launching", !.sentComplete = FALSE,
                                   !.aborted = FALSE, !.seen = v])
    BY <1>0 DEF IsRec, Fields
  <2>2. Elsewhere(Looped(r))
    BY <1>0, <1>l
  <2> HIDE DEF Elsewhere
  <2> QED BY <1>2, <1>w, <2>1, <2>2 DEF LaunchBuild
<1>3. CASE PrepareJob(n) \/ StartPlaybook(n) \/ EndJob(n) \/ PutOwnStop(n)
  <2>1. /\ Elsewhere([r EXCEPT !.gear = "starting"])
        /\ Elsewhere([r EXCEPT !.gear = "playing", !.proc = "on"])
        /\ Elsewhere([r EXCEPT !.gear = "reporting", !.runningJob = FALSE])
        /\ Elsewhere([r EXCEPT !.gear = "join", !.todo = Append(@, "stop")])
    BY <1>0 DEF IsRec, Fields
  <2> HIDE DEF Elsewhere
  <2> QED BY <1>3, <1>f, <1>w, <2>1 DEF PrepareJob, StartPlaybook, EndJob, PutOwnStop
<1>4. CASE PlaybookExits(n)
  <2>1. \A v, t : Elsewhere([r EXCEPT !.gear = "post", !.proc = "on", !.seen = v,
                                      !.status = t])
    BY <1>0 DEF IsRec, Fields
  <2>2. \/ \E exit : w' = [w EXCEPT ![n] = Finished(r, "none", {exit})]
        \/ \E v, t : w' = [w EXCEPT ![n] = [r EXCEPT !.gear = "post", !.proc = "on",
                                                      !.seen = v, !.status = t]]
    BY <1>4 DEF PlaybookExits
  <2> HIDE DEF Elsewhere
  <2> QED BY <1>f, <1>w, <2>1, <2>2
<1>5. CASE PostExits(n)
  <2> HIDE DEF Elsewhere
  <2> QED BY <1>5, <1>f, <1>w DEF PostExits
<1>6. CASE ReportJob(n)
  <2> DEFINE q == [r EXCEPT !.sentComplete = TRUE, !.complete = TRUE]
  <2>1. IsRec(q)
    BY <1>0 DEF IsRec, Fields
  <2>2. \/ w' = [w EXCEPT ![n] = [q EXCEPT !.gear = "put", !.running = FALSE,
                                           !.unpaused = TRUE]]
        \/ w' = [w EXCEPT ![n] = Looped(q)]
    BY <1>6 DEF ReportJob
  <2> HIDE DEF q
  <2>3. Elsewhere([q EXCEPT !.gear = "put", !.running = FALSE, !.unpaused = TRUE])
    BY <2>1 DEF IsRec, Fields
  <2> HIDE DEF Elsewhere
  <2> QED BY <1>l, <1>w, <2>1, <2>2, <2>3
<1>7. CASE JoinOwnQueue(n)
  BY <1>0, <1>7, <1>l, <1>w DEF JoinOwnQueue
<1>8. CASE AnsibleTimeout(n)
  <2>1. /\ r.gear # "prepare"
        /\ \E v : w' = [w EXCEPT ![n] = [r EXCEPT !.timedOut = TRUE, !.proc = "killed",
                                                  !.seen = v]]
    BY <1>8 DEF AnsibleTimeout
  <2>2. \A v : Elsewhere([r EXCEPT !.timedOut = TRUE, !.proc = "killed", !.seen = v])
    BY <1>0, <2>1 DEF IsRec, Fields
  <2> HIDE DEF Elsewhere
  <2> QED BY <1>w, <2>1, <2>2
<1>9. CASE GotJob(n)
  <2>1. \E b : w' = [w EXCEPT ![n] = [r EXCEPT !.gear = "got", !.build = b, !.gotJob = TRUE]]
    BY <1>9 DEF GotJob
  <2>2. \A b : Elsewhere([r EXCEPT !.gear = "got", !.build = b, !.gotJob = TRUE])
    BY <1>0 DEF IsRec, Fields
  <2> HIDE DEF Elsewhere
  <2> QED BY <1>w, <2>1, <2>2
<1> QED
  BY <1>1, <1>2, <1>3, <1>4, <1>5, <1>6, <1>7, <1>8, <1>9 DEF GearThread


(* Word of an end is not word of a start.                                  *)
LEMMA EndIsNoStart ==
  ASSUME Shape,
         \/ UNCHANGED packets
         \/ \E b, r, seen : ToClient(WorkDone(b, r, seen))
         \/ \E b, seen : packets' = Append(packets, MetaDone(b, seen))
  PROVE  \A b \in Build : DataSent(b, packets') => DataSent(b, packets)
<1>1. \A b, r, seen : WorkDone(b, r, seen).kind # "data"
  BY DEF WorkDone
<1>2. \A b, seen : MetaDone(b, seen).kind # "data"
  BY DEF MetaDone
<1>3. ASSUME NEW p, p.kind # "data", ToClient(p) \/ packets' = Append(packets, p)
      PROVE  \A b \in Build : DataSent(b, packets') => DataSent(b, packets)
  BY <1>3, DataOnly
<1>4. CASE UNCHANGED packets
  BY <1>4
<1> QED BY <1>1, <1>2, <1>3, <1>4

(* Every step of the queue thread, and the other thread's but three.       *)
LEMMA WorkerQuiet ==
  ASSUME LaunchInv, AreGood(w), ServedInv, UNCHANGED client, NEW n \in Node,
         \/ QueueThread(n)
         \/ /\ GearThread(n) \/ AnsibleTimeout(n)
            /\ ~BeginJob(n) /\ ~PrepareJob(n) /\ ~ReportJob(n)
  PROVE  ServedInv'
<1>1. w = [m \in Node |-> w[m]]
  BY DEF AreGood
<1>2. Moves(n)
  BY QueueThreadMoves, GearThreadMoves
<1>3. \A m \in Node : Keeps(w[m], w'[m])
  BY <1>1, <1>2 DEF Moves, Keeps
<1>4. w'[n].gear = "prepare" => w[n].gear = "prepare"
  BY QueueThreadPrepares, GearThreadPrepares
<1>5. \A m \in Node : w'[m].gear = "prepare" => w[m].gear = "prepare"
  BY <1>1, <1>2, <1>4 DEF Moves
<1>6. UNCHANGED <<serving, waiting>> /\
        (UNCHANGED packets \/ \E b, r, seen : ToClient(WorkDone(b, r, seen)))
  <2>1. CASE QueueThread(n)
    BY <2>1
    DEF QueueThread, QueueLoop, TakeStop, StopWaited, TakePause, TakeUnpause, TakeRelease,
        ReleaseLocked, TakeReconfigure, TakeAbort, Shutdown, gearman, server
  <2>2. CASE (GearThread(n) \/ AnsibleTimeout(n)) /\ ~BeginJob(n) /\ ~PrepareJob(n)
             /\ ~ReportJob(n)
    BY <2>2
    DEF GearThread, GearLoop, GearRegister, GetJob, LaunchBuild, StartPlaybook,
        PlaybookExits, PostExits, EndJob, PutOwnStop, JoinOwnQueue, AnsibleTimeout,
        Respond, gearman, server
  <2> QED BY <2>1, <2>2
<1>7. \A b \in Build : DataSent(b, packets') => DataSent(b, packets)
  BY <1>6, EndIsNoStart DEF LaunchInv
<1> QED BY <1>3, <1>5, <1>6, <1>7, QuietlyServed

(* Every step of the launch server.                                        *)
LEMMA ServerQuiet ==
  ASSUME LaunchInv, AreGood(w), ServedInv, UNCHANGED client,
         \/ \E n \in Node : AssignNode(n) \/ RevokeNode(n)
         \/ \E b \in Build : StopJob(b)
         \/ Reap \/ Pause \/ Unpause \/ ReleaseNodes \/ ReloadJobs \/ Graceful \/ Stop
         \/ CommandThread
  PROVE  ServedInv'
<1> DEFINE AllStay == \A n \in Node : w'[n].gear = "top" \/
                        (w'[n].gear = w[n].gear /\ w'[n].build = w[n].build)
<1>0. w = [n \in Node |-> w[n]] /\ \A n \in Node : IsRec(w[n])
  BY DEF AreGood, Good, Typed
<1>t. ASSUME NEW S, NEW actions, w' = Tell(S, actions) PROVE AllStay
  <2>1. ASSUME NEW n \in Node, w'[n] = [w[n] EXCEPT !.todo = @ \o actions]
        PROVE  w'[n].gear = w[n].gear /\ w'[n].build = w[n].build
    BY <1>0, <2>1 DEF IsRec, Fields
  <2>2. \A n \in Node : \/ w'[n] = [w[n] EXCEPT !.todo = @ \o actions]
                        \/ w'[n] = w[n]
    BY <1>t DEF Tell
  <2> QED BY <2>1, <2>2
<1>1. UNCHANGED <<serving, waiting>> /\
        (UNCHANGED packets \/ \E b, seen : packets' = Append(packets, MetaDone(b, seen)))
  BY DEF AssignNode, RevokeNode, StopJob, Reap, Pause, Unpause, ReleaseNodes, ReloadJobs,
         Graceful, Stop, CommandThread, Drained, StopNextNode, PutStop, JoinQueue, Stopped,
         gearman
<1>2. AllStay
  <2>1. ASSUME NEW n \in Node, AssignNode(n) PROVE AllStay
    <3>1. w' = [w EXCEPT ![n] = NewWorker] /\ NewWorker.gear = "top"
      BY <2>1, NewIsGood DEF AssignNode
    <3> QED BY <1>0, <3>1
  <2>2. CASE StopNextNode
    <3>1. PICK n \in command.left :
            IF w[n].life = "alive"
            THEN /\ command' = [at |-> "put", node |-> n, left |-> command.left \ {n}]
                 /\ w' = [w EXCEPT ![n].running = FALSE, ![n].unpaused = TRUE]
            ELSE /\ command' = [at |-> "stopping", left |-> command.left \ {n}]
                 /\ UNCHANGED w
      BY <2>2 DEF StopNextNode
    <3> DEFINE s == [w[n] EXCEPT !.running = FALSE, !.unpaused = TRUE]
    <3>2. UNCHANGED w \/ w' = [w EXCEPT ![n] = s]
      BY <3>1
    <3>3. n \in Node => s.gear = w[n].gear /\ s.build = w[n].build
      BY <1>0 DEF IsRec, Fields
    <3> HIDE DEF s
    <3> QED BY <1>0, <3>2, <3>3
  <2>3. CASE UNCHANGED w \/ \E S, actions : w' = Tell(S, actions)
    BY <1>t, <2>3
  <2> QED BY <2>1, <2>2, <2>3
    DEF RevokeNode, StopJob, Reap, Pause, Unpause, ReleaseNodes, ReloadJobs, Graceful, Stop,
        CommandThread, Drained, PutStop, JoinQueue, Stopped
<1>3. \A n \in Node : Keeps(w[n], w'[n]) /\ (w'[n].gear = "prepare" => w[n].gear = "prepare")
  BY <1>2 DEF Keeps, AtWork
<1>4. \A b \in Build : DataSent(b, packets') => DataSent(b, packets)
  BY <1>1, EndIsNoStart DEF LaunchInv
<1> QED BY <1>1, <1>3, <1>4, QuietlyServed


(* A worker goes on with its build, is done with it, or says that it       *)
(* starts; nobody else has the build.                                      *)
LEMMA OneServed ==
  ASSUME LaunchInv, AreGood(w), ServedInv, UNCHANGED <<client, waiting>>,
         NEW n \in Node, NEW s, w' = [w EXCEPT ![n] = s],
         NEW b \in Build, Holds(n, b),
         \A c \in Build : c # b => serving'[c] = serving[c],
         s.gear \in AtWork => s.build = b,
         s.gear \in AtWork => (s.gear = "prepare" \/ Reached(b)' => serving'[b] = n),
         \A c \in Build : DataSent(c, packets') => DataSent(c, packets) \/ c = b
  PROVE  ServedInv'
<1>1. /\ w'[n] = s /\ \A m \in Node : m # n => w'[m] = w[m]
      /\ \A m \in Node : w[m].gear \in AtWork => w[m].build \in Build
  BY DEF AreGood, Good, Typed
<1>2. \A m \in Node : \A c \in Build : Holds(m, c)' => Holds(m, c)
  BY <1>1 DEF Holds
<1>3. \A m \in Node : Holds(m, b) => m = n
  BY DEF ServedInv, TakenOnce
<1>4. \A c \in Build : Reached(c)' => Reached(c) \/ c = b
  BY DEF Reached, client
<1>5. StartedIsTaken'
  <2>1. ~Unqueued(b) /\ b \notin waiting
    BY HeldIsTaken DEF Holds
  <2> QED BY <1>4, <2>1 DEF ServedInv, StartedIsTaken, Unqueued, BeingSubmitted, client
<1>6. TakenOnce'
  BY <1>2 DEF ServedInv, TakenOnce
<1>7. ASSUME NEW m \in Node, w'[m].gear = "prepare" PROVE serving'[w'[m].build] = m
  <2>1. CASE m = n
    BY <1>1, <1>7, <2>1 DEF AtWork
  <2>2. CASE m # n
    <3>1. w'[m] = w[m] /\ w[m].gear \in AtWork
      BY <1>1, <1>7, <2>2 DEF AtWork
    <3>2. w[m].build \in Build /\ w[m].build # b
      BY <1>1, <1>3, <2>2, <3>1 DEF Holds
    <3> QED BY <1>7, <3>1, <3>2 DEF ServedInv, Served
  <2> QED BY <2>1, <2>2
<1>8. ASSUME NEW m \in Node, NEW c \in Build, Holds(m, c)', Reached(c)'
      PROVE  serving'[c] = m
  <2>1. Holds(m, c)
    BY <1>2, <1>8
  <2>2. CASE c = b
    <3>1. m = n
      BY <1>3, <2>1, <2>2
    <3> QED BY <1>1, <1>8, <2>2, <3>1 DEF Holds
  <2>3. CASE c # b
    BY <1>4, <1>8, <2>1, <2>3 DEF ServedInv, Served
  <2> QED BY <2>2, <2>3
<1>9. Served'
  BY <1>7, <1>8 DEF Served
<1> QED BY <1>5, <1>6, <1>9 DEF ServedInv

(* A build is taken out of the queue: it had not started.                  *)
LEMMA GotJobServed ==
  ASSUME LaunchInv, AreGood(w), ServedInv, UNCHANGED client, waiting \subseteq Build,
         NEW n \in Node, GotJob(n)
  PROVE  ServedInv'
<1>1. PICK b \in waiting :
        /\ waiting' = waiting \ {b}
        /\ w' = [w EXCEPT ![n].gear = "got", ![n].build = b, ![n].gotJob = TRUE]
  BY DEF GotJob
<1>2. UNCHANGED <<packets, serving>> /\ b \in Build
  BY <1>1 DEF GotJob
<1> DEFINE s == [w[n] EXCEPT !.gear = "got", !.build = b, !.gotJob = TRUE]
<1>3. s.gear = "got" /\ s.build = b
  BY DEF AreGood, Good, Typed, IsRec, Fields
<1>4. w' = [w EXCEPT ![n] = s]
  BY <1>1
<1> HIDE DEF s
<1>5. w'[n] = s /\ \A m \in Node : m # n => w'[m] = w[m]
  BY <1>4 DEF AreGood
<1>6. \A c \in Build : Reached(c)' <=> Reached(c)
  BY <1>2 DEF Reached, client
<1>7. StartedIsTaken' /\ ~Reached(b)
  BY <1>1, <1>2, <1>6 DEF ServedInv, StartedIsTaken, Unqueued, BeingSubmitted, client
<1>8. \A m \in Node : ~Holds(m, b)
  BY <1>1, <1>2, HeldIsTaken DEF Holds
<1>9. \A c \in Build : Holds(n, c)' => c = b
  BY <1>3, <1>5 DEF Holds
<1>10. \A m \in Node : \A c \in Build : m # n => (Holds(m, c)' <=> Holds(m, c))
  BY <1>5 DEF Holds
<1>11. TakenOnce'
  BY <1>8, <1>9, <1>10 DEF ServedInv, TakenOnce
<1>12. Served'
  <2>1. ASSUME NEW m \in Node, w'[m].gear = "prepare" PROVE serving'[w'[m].build] = m
    BY <1>2, <1>3, <1>5, <2>1 DEF ServedInv, Served
  <2>2. ASSUME NEW m \in Node, NEW c \in Build, Holds(m, c)', Reached(c)'
        PROVE  serving'[c] = m
    BY <1>2, <1>6, <1>7, <1>9, <1>10, <2>2 DEF ServedInv, Served
  <2> QED BY <2>1, <2>2 DEF Served
<1> QED BY <1>7, <1>11, <1>12 DEF ServedInv

(* The start of a build, the word of it, and its end.                      *)
LEMMA BuildServed ==
  ASSUME LaunchInv, AreGood(w), ServedInv, UNCHANGED client,
         serving = [b \in Build |-> serving[b]],
         NEW n \in Node, BeginJob(n) \/ PrepareJob(n) \/ ReportJob(n)
  PROVE  ServedInv'
<1> DEFINE r == w[n]
<1>0. IsRec(r) /\ r.gear \in AtWork /\ r.build \in Build /\ Shape
  BY DEF AreGood, Good, Typed, BeginJob, PrepareJob, ReportJob, AtWork, LaunchInv
<1>b. PICK b \in Build : b = r.build
  BY <1>0
<1>1. IsRec(r) /\ r.build = b /\ Holds(n, b) /\ Shape
  BY <1>0, <1>b DEF Holds
<1>2. UNCHANGED waiting
  BY DEF BeginJob, PrepareJob, ReportJob, gearman
<1>f. ASSUME NEW result, NEW why
      PROVE  LET s == Finished(r, result, why) IN s.gear = "finished" /\ s.build = b
  BY <1>1 DEF Finished, IsRec, Fields
<1>3. CASE BeginJob(n)
  <2>1. UNCHANGED packets
    BY <1>3 DEF BeginJob, gearman
  <2>2. CASE r.running
    <3> DEFINE s == [r EXCEPT !.gear = "prepare", !.runningJob = TRUE, !.complete = FALSE]
    <3>1. w' = [w EXCEPT ![n] = s] /\ serving' = [serving EXCEPT ![b] = n]
      BY <1>1, <1>3, <2>2 DEF BeginJob
    <3>2. s.gear = "prepare" /\ s.build = b
      BY <1>1 DEF IsRec, Fields
    <3>3. serving'[b] = n /\ \A c \in Build : c # b => serving'[c] = serving[c]
      BY <1>1, <3>1
    <3> HIDE DEF r, s
    <3>4. w' = [w EXCEPT ![n] = s]
      BY <3>1
    <3> QED BY <1>1, <1>2, <2>1, <3>2, <3>3, <3>4, OneServed
  <2>3. CASE ~r.running
    <3> DEFINE s == Finished(r, "none", {"stopped"})
    <3>1. w' = [w EXCEPT ![n] = s] /\ serving' = serving
      BY <1>3, <2>3 DEF BeginJob
    <3>2. s.gear = "finished" /\ s.build = b
      BY <1>f
    <3>3. Reached(b)' => serving'[b] = n
      BY <1>1, <2>1, <3>1 DEF ServedInv, Served, Reached, client
    <3> HIDE DEF s
    <3> QED BY <1>1, <1>2, <2>1, <3>1, <3>2, <3>3, OneServed
  <2> QED BY <2>2, <2>3
<1>4. CASE PrepareJob(n)
  <2>1. UNCHANGED serving /\ serving[b] = n
    BY <1>1, <1>4 DEF PrepareJob, ServedInv, Served
  <2>2. \E s : w' = [w EXCEPT ![n] = s] /\ s.build = b /\ s.gear \in {"starting", "finished"}
    <3> DEFINE s == [r EXCEPT !.gear = "starting"]
    <3>1. s.gear = "starting" /\ s.build = b
      BY <1>1 DEF IsRec, Fields
    <3>2. w' = [w EXCEPT ![n] = s] \/ w' = [w EXCEPT ![n] = Finished(r, "none", {"error"})]
      BY <1>4 DEF PrepareJob
    <3> HIDE DEF s
    <3> QED BY <1>f, <3>1, <3>2
  <2>3. \A c \in Build : DataSent(c, packets') => DataSent(c, packets) \/ c = b
    <3>1. ToClient(WorkData(b)) \/ UNCHANGED packets
      BY <1>1, <1>4 DEF PrepareJob
    <3>2. WorkData(b).build = b
      BY DEF WorkData
    <3> QED BY <1>1, <3>1, <3>2, DataOnly
  <2> HIDE DEF r
  <2>4. PICK s : w' = [w EXCEPT ![n] = s] /\ s.build = b
                 /\ s.gear \in {"starting", "finished"}
    BY <2>2
  <2>5. serving'[b] = n /\ \A c \in Build : serving'[c] = serving[c]
    BY <2>1
  <2>6. /\ s.gear \in AtWork => s.build = b
        /\ s.gear \in AtWork => (s.gear = "prepare" \/ Reached(b)' => serving'[b] = n)
        /\ \A c \in Build : c # b => serving'[c] = serving[c]
    BY <2>4, <2>5
  <2>7. w' = [w EXCEPT ![n] = s]
    BY <2>4
  <2> QED BY <1>1, <1>2, <2>3, <2>6, <2>7, OneServed
<1>5. CASE ReportJob(n)
  <2>1. serving' = [serving EXCEPT ![b] = NoNode]
    BY <1>1, <1>5 DEF ReportJob
  <2>2. \A c \in Build : c # b => serving'[c] = serving[c]
    BY <2>1
  <2>3. \E s : w' = [w EXCEPT ![n] = s] /\ s.gear \in {"put", "top"}
    <3> DEFINE q == [r EXCEPT !.sentComplete = TRUE, !.complete = TRUE]
    <3>1. IsRec(q)
      BY <1>1 DEF IsRec, Fields
    <3>2. \/ w' = [w EXCEPT ![n] = [q EXCEPT !.gear = "put", !.running = FALSE,
                                             !.unpaused = TRUE]]
          \/ w' = [w EXCEPT ![n] = Looped(q)]
      BY <1>5 DEF ReportJob
    <3> HIDE DEF q
    <3>3. /\ [q EXCEPT !.gear = "put", !.running = FALSE, !.unpaused = TRUE].gear = "put"
          /\ Looped(q).gear = "top"
      BY <3>1 DEF IsRec, Fields, Looped
    <3> QED BY <3>2, <3>3
  <2>4. \A c \in Build : DataSent(c, packets') => DataSent(c, packets)
    <3>1. ToClient(WorkDone(b, r.result, r.seen)) \/ UNCHANGED packets
      BY <1>1, <1>5 DEF ReportJob, Respond
    <3> QED BY <1>1, <3>1, EndIsNoStart
  <2> HIDE DEF r
  <2> QED BY <1>1, <1>2, <2>2, <2>3, <2>4, OneServed DEF AtWork
<1> QED BY <1>3, <1>4, <1>5

(* Every step of the launch server and its workers.                        *)
LEMMA LauncherKeepsServed ==
  ASSUME LaunchInv, AreGood(w), ServedInv, UNCHANGED client, waiting \subseteq Build,
         serving = [b \in Build |-> serving[b]], LauncherNext
  PROVE  ServedInv'
BY ServerQuiet, WorkerQuiet, GotJobServed, BuildServed DEF LauncherNext



-----------------------------------------------------------------------------
(* The types of the rest.                                                  *)

PacketsTyped(ps) == \A p \in ToSet(ps) : p.build \in Build /\ p.result \in Results

RestTyped ==
  /\ waiting \subseteq Build /\ attached \subseteq Build /\ stops \subseteq Build
  /\ started \subseteq launched /\ metaJobs \subseteq canceled
  /\ cache \subseteq Job /\ jobs \subseteq Job
  /\ functions \in [Node -> SUBSET Job]
  /\ serving \in [Build -> Node \cup {NoNode}]
  /\ ended \in Seq(Node)
  /\ PacketsTyped(packets)

(* A packet of a build, with a result, is sent.                            *)
LEMMA SentTyped ==
  ASSUME Shape, PacketsTyped(packets), NEW p, p.build \in Build, p.result \in Results,
         ToClient(p) \/ packets' = Append(packets, p)
  PROVE  PacketsTyped(packets')
<1>1. CASE packets' = Append(packets, p)
  <2>1. ToSet(packets') \subseteq ToSet(packets) \cup {p}
    BY <1>1, AddedAtTheEnd DEF Shape
  <2> QED BY <2>1 DEF PacketsTyped
<1>2. CASE packets' = packets
  BY <1>2
<1> QED BY <1>1, <1>2 DEF ToClient

(* A queue of workers that one is added to.                                *)
LEMMA OneMoreEnded ==
  ASSUME ended \in Seq(Node), NEW n \in Node PROVE Append(ended, n) \in Seq(Node)
OBVIOUS

(* A worker's thread that ends says so of a build it has.                  *)
LEMMA QueueThreadSends ==
  ASSUME AreGood(w), NEW n \in Node, QueueThread(n)
  PROVE  \/ UNCHANGED packets
         \/ \E b \in Build : \E seen : ToClient(WorkDone(b, "none", seen))
<1> DEFINE r == w[n]
           Sends == \/ UNCHANGED packets
                    \/ \E b \in Build : \E seen : ToClient(WorkDone(b, "none", seen))
<1>0. IsRec(r) /\ (r.gear \in AtWork => r.build \in Build)
  BY DEF AreGood, Good, Typed
<1>s. ASSUME NEW t, t.gear = r.gear, t.build = r.build, Shutdown(n, t) PROVE Sends
  <2>1. Busy(t) => t.build \in Build
    BY <1>0, <1>s, BusyAtWork
  <2> QED BY <1>s, <2>1 DEF Shutdown
<1>1. CASE TakeStop(n)
  <2> DEFINE q == [Rest(n) EXCEPT !.running = FALSE]
             u == AbortedWorker(q)
             x == Farewell(u)
  <2>1. IsRec(q) /\ q.gear = r.gear /\ q.build = r.build
    BY <1>0 DEF Rest, IsRec, Fields
  <2>2. UNCHANGED packets \/ Shutdown(n, x)
    BY <1>1 DEF TakeStop
  <2> HIDE DEF q
  <2>3. x.gear = r.gear /\ x.build = r.build
    BY <2>1 DEF AbortedWorker, Farewell, IsRec, Fields
  <2> HIDE DEF x
  <2> QED BY <1>s, <2>2, <2>3
<1>2. CASE StopWaited(n)
  BY <1>2, <1>s DEF StopWaited
<1>3. CASE QueueThread(n) /\ ~TakeStop(n) /\ ~StopWaited(n)
  BY <1>3
  DEF QueueThread, QueueLoop, TakePause, TakeUnpause, TakeRelease, ReleaseLocked,
      TakeReconfigure, TakeAbort, gearman, server
<1> QED BY <1>1, <1>2, <1>3

(* The other thread says of its build that it starts, or how it ends.      *)
LEMMA GearThreadSends ==
  ASSUME AreGood(w), NEW n \in Node, GearThread(n) \/ AnsibleTimeout(n) \/ GotJob(n)
  PROVE  \/ UNCHANGED packets
         \/ \E b \in Build : ToClient(WorkData(b))
         \/ \E b \in Build, result \in Results : \E seen : ToClient(WorkDone(b, result, seen))
<1> DEFINE r == w[n]
<1>0. r.result \in Results /\ (r.gear \in AtWork => r.build \in Build) /\ "none" \in Results
  BY DEF AreGood, Good, Typed, Results
<1>1. CASE LaunchBuild(n)
  BY <1>0, <1>1 DEF LaunchBuild, Respond, AtWork
<1>2. CASE PrepareJob(n)
  BY <1>0, <1>2 DEF PrepareJob, AtWork
<1>3. CASE ReportJob(n)
  BY <1>0, <1>3 DEF ReportJob, Respond, AtWork
<1>4. CASE /\ GearThread(n) \/ AnsibleTimeout(n) \/ GotJob(n)
           /\ ~LaunchBuild(n) /\ ~PrepareJob(n) /\ ~ReportJob(n)
  BY <1>4
  DEF GearThread, GearLoop, GearRegister, GetJob, BeginJob, StartPlaybook, PlaybookExits,
      PostExits, EndJob, PutOwnStop, JoinOwnQueue, AnsibleTimeout, GotJob, gearman, server
<1> QED BY <1>1, <1>2, <1>3, <1>4

(* Every step of a worker.                                                 *)
LEMMA WorkerTypes ==
  ASSUME Shape, AreGood(w), RestTyped, UNCHANGED client, NEW n \in Node,
         QueueThread(n) \/ GearThread(n) \/ AnsibleTimeout(n) \/ GotJob(n)
  PROVE  RestTyped'
<1>1. PacketsTyped(packets')
  <2>1. \A b, result, seen : /\ WorkDone(b, result, seen).build = b
                             /\ WorkDone(b, result, seen).result = result
    BY DEF WorkDone
  <2>2. \A b : WorkData(b).build = b /\ WorkData(b).result = "none"
    BY DEF WorkData
  <2>3. \/ UNCHANGED packets
        \/ \E b \in Build : ToClient(WorkData(b))
        \/ \E b \in Build, result \in Results : \E seen : ToClient(WorkDone(b, result, seen))
    BY QueueThreadSends, GearThreadSends DEF Results
  <2>4. CASE UNCHANGED packets
    BY <2>4 DEF RestTyped
  <2>5. ASSUME NEW b \in Build, ToClient(WorkData(b)) PROVE PacketsTyped(packets')
    BY <2>2, <2>5, SentTyped DEF RestTyped, Results
  <2>6. ASSUME NEW b \in Build, NEW result \in Results, NEW seen,
               ToClient(WorkDone(b, result, seen))
        PROVE  PacketsTyped(packets')
    BY <2>1, <2>6, SentTyped DEF RestTyped
  <2> QED BY <2>3, <2>4, <2>5, <2>6
<1>2. waiting' \subseteq waiting /\ UNCHANGED <<attached, stops, jobs>>
  <2>1. CASE QueueThread(n)
    BY <2>1
    DEF QueueThread, QueueLoop, TakeStop, StopWaited, TakePause, TakeUnpause, TakeRelease,
        ReleaseLocked, TakeReconfigure, TakeAbort, gearman, server, manager
  <2>2. CASE GearThread(n) \/ AnsibleTimeout(n) \/ GotJob(n)
    BY <2>2
    DEF GearThread, GearLoop, GearRegister, GetJob, LaunchBuild, BeginJob, PrepareJob,
        StartPlaybook, PlaybookExits, PostExits, EndJob, ReportJob, PutOwnStop,
        JoinOwnQueue, AnsibleTimeout, GotJob, gearman, server, manager
  <2> QED BY <2>1, <2>2
<1>3. \/ UNCHANGED functions
      \/ \E S \in {{}, jobs} : functions' = [functions EXCEPT ![n] = S]
  <2>1. CASE QueueThread(n)
    BY <2>1
    DEF QueueThread, QueueLoop, TakeStop, StopWaited, TakePause, TakeUnpause, TakeRelease,
        ReleaseLocked, TakeReconfigure, TakeAbort, Shutdown, SetFunctions, gearman
  <2>2. CASE GearThread(n) \/ AnsibleTimeout(n) \/ GotJob(n)
    BY <2>2
    DEF GearThread, GearLoop, GearRegister, GetJob, LaunchBuild, BeginJob, PrepareJob,
        StartPlaybook, PlaybookExits, PostExits, EndJob, ReportJob, PutOwnStop,
        JoinOwnQueue, AnsibleTimeout, GotJob, SetFunctions, gearman
  <2> QED BY <2>1, <2>2
<1>4. functions' \in [Node -> SUBSET Job]
  BY <1>3 DEF RestTyped
<1>5. serving' \in [Build -> Node \cup {NoNode}]
  <2>1. CASE BeginJob(n) \/ ReportJob(n)
    <3>1. \/ serving' = [serving EXCEPT ![w[n].build] = n]
          \/ serving' = [serving EXCEPT ![w[n].build] = NoNode]
          \/ UNCHANGED serving
      BY <2>1 DEF BeginJob, ReportJob
    <3> QED BY <3>1 DEF RestTyped
  <2>2. CASE QueueThread(n)
    <3>1. UNCHANGED serving
      BY <2>2
      DEF QueueThread, QueueLoop, TakeStop, StopWaited, TakePause, TakeUnpause,
          TakeRelease, ReleaseLocked, TakeReconfigure, TakeAbort
    <3> QED BY <3>1 DEF RestTyped
  <2>3. CASE /\ GearThread(n) \/ AnsibleTimeout(n) \/ GotJob(n)
             /\ ~BeginJob(n) /\ ~ReportJob(n)
    <3>1. UNCHANGED serving
      BY <2>3
      DEF GearThread, GearLoop, GearRegister, GetJob, LaunchBuild, PrepareJob,
          StartPlaybook, PlaybookExits, PostExits, EndJob, PutOwnStop, JoinOwnQueue,
          AnsibleTimeout, GotJob
    <3> QED BY <3>1 DEF RestTyped
  <2> QED BY <2>1, <2>2, <2>3
<1>6. ended' \in Seq(Node)
  <2>1. UNCHANGED ended \/ ended' = Append(ended, n)
    BY DEF QueueThread, QueueLoop, TakeStop, StopWaited, TakePause, TakeUnpause, TakeRelease,
        ReleaseLocked, TakeReconfigure, TakeAbort, GearThread, GearLoop, GearRegister,
        GetJob, LaunchBuild, BeginJob, PrepareJob, StartPlaybook, PlaybookExits, PostExits,
        EndJob, ReportJob, PutOwnStop, JoinOwnQueue, AnsibleTimeout, GotJob
  <2> QED BY <2>1, OneMoreEnded DEF RestTyped
<1> QED BY <1>1, <1>2, <1>4, <1>5, <1>6 DEF RestTyped, client


(* Every step of the launch server.                                        *)
LEMMA ServerTypes ==
  ASSUME Shape, AreGood(w), RestTyped, ServerTyped, UNCHANGED client,
         \/ \E n \in Node : AssignNode(n) \/ RevokeNode(n)
         \/ \E b \in Build : StopJob(b)
         \/ Reap \/ Pause \/ Unpause \/ ReleaseNodes \/ ReloadJobs \/ Graceful \/ Stop
         \/ CommandThread
  PROVE  RestTyped'
<1> USE DEF RestTyped, client
<1>1. ASSUME NEW n \in Node, AssignNode(n) PROVE RestTyped'
  <2>1. functions' = [functions EXCEPT ![n] = jobs]
        /\ UNCHANGED <<waiting, attached, packets, stops, jobs, serving, ended>>
    BY <1>1 DEF AssignNode
  <2> QED BY <2>1
<1>2. ASSUME NEW b \in Build, StopJob(b) PROVE RestTyped'
  <2>1. /\ packets' = Append(packets, MetaDone(b, {})) /\ stops' = stops \ {b}
        /\ UNCHANGED <<waiting, attached, functions, jobs, serving, ended>>
    BY <1>2 DEF StopJob
  <2>2. MetaDone(b, {}).build = b /\ MetaDone(b, {}).result \in Results
    BY DEF MetaDone, Results
  <2>3. PacketsTyped(packets')
    BY <2>1, <2>2, SentTyped
  <2> QED BY <2>1, <2>3
<1>3. CASE Reap
  <2>1. ended # <<>> /\ ended' = Tail(ended)
        /\ UNCHANGED <<gearman, jobs, serving>>
    BY <1>3 DEF Reap
  <2>2. ended' \in Seq(Node)
    BY <2>1
  <2> QED BY <2>1, <2>2 DEF gearman
<1>4. CASE ReloadJobs
  <2>1. jobs' \in Configs /\ UNCHANGED <<gearman, serving, ended>>
    BY <1>4 DEF ReloadJobs
  <2>2. jobs' \subseteq Job
    BY <2>1, LaunchAssumption
  <2> QED BY <2>1, <2>2 DEF gearman
<1>5. CASE \/ \E n \in Node : RevokeNode(n)
           \/ Pause \/ Unpause \/ ReleaseNodes \/ Graceful \/ Stop \/ CommandThread
  <2>1. UNCHANGED <<gearman, jobs, serving, ended>>
    BY <1>5
    DEF RevokeNode, Pause, Unpause, ReleaseNodes, Graceful, Stop, CommandThread, Drained,
        StopNextNode, PutStop, JoinQueue, Stopped
  <2> QED BY <2>1 DEF gearman
<1> QED BY <1>1, <1>2, <1>3, <1>4, <1>5



-----------------------------------------------------------------------------
(* The steps of the launcher client.                                       *)

(* The scheduler's thread.                                                 *)
LEMMA SchedulerKeepsServed ==
  ASSUME LaunchInv, ServedInv, RestTyped, UNCHANGED launcher,
         (\E b \in Build : Launch(b) \/ Cancel(b)) \/ SchedulerThread
  PROVE  ServedInv' /\ RestTyped'
<1>0. /\ UNCHANGED <<w, serving, jobs, ended, packets, functions, started>>
      /\ launched \subseteq Build
  BY DEF launcher, Launch, Cancel, SchedulerThread, Submit, CancelJobInQueue, CancelAgain,
         gearman, LaunchInv, Shape
<1>1. \A b \in Build : Reached(b)' => Reached(b)
  BY <1>0 DEF Reached
<1>2. ASSUME NEW b \in Build, Launch(b) PROVE ServedInv' /\ RestTyped'
  <2>1. /\ scheduler.at = "idle" /\ b \notin launched /\ launched' = launched \cup {b}
        /\ UNCHANGED <<waiting, attached, stops, metaJobs, canceled>>
    BY <1>2 DEF Launch, gearman, Free
  <2>2. scheduler' = scheduler \/ scheduler' = [at |-> "submit", build |-> b]
    BY <1>2 DEF Launch
  <2>3. \A c \in Build : (Unqueued(c) \/ c \in waiting)' => Unqueued(c) \/ c \in waiting
    BY <2>1, <2>2 DEF Unqueued, BeingSubmitted
  <2>4. cache' \subseteq Job
    <3>1. cache' = cache \/ \E asked \in {{}, Registered} : cache' = cache \cup asked
      BY <1>2 DEF Launch, IsJobRegistered
    <3>2. Registered \subseteq Job
      BY DEF Registered, RestTyped
    <3> QED BY <3>1, <3>2 DEF RestTyped
  <2> QED BY <1>0, <1>1, <2>1, <2>3, <2>4, ClientKeepsServed DEF RestTyped
<1>3. ASSUME NEW b \in Build, Cancel(b) PROVE ServedInv' /\ RestTyped'
  <2>1. /\ scheduler.at = "idle" /\ canceled' = canceled \cup {b}
        /\ metaJobs' \subseteq metaJobs \cup {b} /\ stops' \subseteq stops \cup {b}
        /\ scheduler'.at # "submit"
        /\ UNCHANGED <<waiting, attached, launched, cache>>
    BY <1>3 DEF Cancel, CancelRunningBuild, Free
  <2>2. \A c \in Build : (Unqueued(c) \/ c \in waiting)' => Unqueued(c) \/ c \in waiting
    BY <2>1 DEF Unqueued, BeingSubmitted
  <2> QED BY <1>0, <1>1, <2>1, <2>2, ClientKeepsServed DEF RestTyped
<1>4. CASE Submit
  <2> DEFINE b == scheduler.build
  <2>1. b \in Build
    BY <1>4 DEF Submit, LaunchInv, Shape, Submitting
  <2>2. /\ waiting' \subseteq waiting \cup {b} /\ attached' \subseteq attached \cup {b}
        /\ scheduler' = Free /\ BeingSubmitted(b)
        /\ UNCHANGED <<stops, launched, metaJobs, canceled, cache>>
    BY <1>4 DEF Submit, BeingSubmitted
  <2> HIDE DEF b
  <2>3. \A c \in Build : (Unqueued(c) \/ c \in waiting)' => Unqueued(c) \/ c \in waiting
    BY <2>2 DEF Unqueued, BeingSubmitted, Free
  <2> QED BY <1>0, <1>1, <2>1, <2>2, <2>3, ClientKeepsServed DEF RestTyped
<1>5. CASE CancelJobInQueue \/ CancelAgain
  <2> DEFINE b == scheduler.build
  <2>1. b \in canceled /\ b \in Build
    BY <1>5 DEF CancelJobInQueue, CancelAgain, LaunchInv, Shape, LookedFor
  <2>2. /\ waiting' \subseteq waiting /\ attached' = attached
        /\ scheduler.at \in {"lookup", "sleep"} /\ scheduler'.at \in {"idle", "sleep"}
        /\ metaJobs' \subseteq metaJobs \cup {b} /\ stops' \subseteq stops \cup {b}
        /\ UNCHANGED <<launched, canceled, cache>>
    BY <1>5 DEF CancelJobInQueue, CancelAgain, CancelRunningBuild, Free
  <2> HIDE DEF b
  <2>3. \A c \in Build : (Unqueued(c) \/ c \in waiting)' => Unqueued(c) \/ c \in waiting
    BY <2>2 DEF Unqueued, BeingSubmitted
  <2> QED BY <1>0, <1>1, <2>1, <2>2, <2>3, ClientKeepsServed DEF RestTyped
<1> QED BY <1>2, <1>3, <1>4, <1>5 DEF SchedulerThread

(* The client's thread, and the loss of the connection.                    *)
LEMMA ClientThreadKeepsServed ==
  ASSUME LaunchInv, ServedInv, RestTyped, UNCHANGED launcher, ClientThread \/ OnDisconnect
  PROVE  ServedInv' /\ RestTyped'
<1>0. /\ UNCHANGED <<w, serving, jobs, ended, functions, launched, canceled, scheduler>>
      /\ table \subseteq launched /\ metaJobs \subseteq launched /\ launched \subseteq Build
  BY DEF launcher, ClientThread, OnWorkStatus, OnMetaJobCompleted, OnBuildCompleted,
         TellScheduler, OnDisconnect, gearman, LaunchInv, Shape
<1>1. /\ waiting' \subseteq waiting /\ attached' \subseteq attached
      /\ stops' \subseteq stops /\ cache' \subseteq cache /\ metaJobs' \subseteq metaJobs
  BY DEF ClientThread, OnWorkStatus, OnMetaJobCompleted, OnBuildCompleted,
         TellScheduler, OnDisconnect, gearman
<1>2. started' \subseteq launched /\ PacketsTyped(packets')
      /\ \A b \in Build : Reached(b)' => Reached(b)
  <2>1. CASE OnWorkStatus \/ OnMetaJobCompleted \/ OnBuildCompleted
    <3>1. packets # <<>> /\ packets' = Tail(packets)
      BY <2>1 DEF OnWorkStatus, OnMetaJobCompleted, OnBuildCompleted, Received
    <3>2. ToSet(packets') \subseteq ToSet(packets) /\ Head(packets) \in ToSet(packets)
      BY <3>1, TakenFromTheFront DEF LaunchInv, Shape
    <3>3. \/ started' = started
          \/ /\ Head(packets).kind = "data"
             /\ started' = started \cup ({Head(packets).build} \cap table)
      BY <2>1 DEF OnWorkStatus, OnMetaJobCompleted, OnBuildCompleted
    <3>4. \A b \in Build : Reached(b)' => Reached(b)
      BY <3>2, <3>3 DEF Reached, DataSent
    <3> QED BY <1>0, <3>2, <3>3, <3>4 DEF RestTyped, PacketsTyped
  <2>2. CASE TellScheduler
    BY <2>2 DEF TellScheduler, gearman, Reached, RestTyped
  <2>3. CASE OnDisconnect
    <3>1. UNCHANGED started
      BY <2>3 DEF OnDisconnect
    <3>2. ASSUME NEW p \in ToSet(packets')
          PROVE  p.kind # "data" /\ p.build \in Build /\ p.result \in Results
      <4>1. \/ \E b \in attached \cap table : p = WorkDone(b, "none", {"lost"})
            \/ \E b \in metaJobs : p = MetaDone(b, {"lost"})
        BY <2>3, LostPackets
      <4> QED BY <1>0, <4>1 DEF WorkDone, MetaDone, Results
    <3>3. \A b \in Build : Reached(b)' => Reached(b)
      BY <3>1, <3>2 DEF Reached, DataSent
    <3> QED BY <3>1, <3>2, <3>3 DEF RestTyped, PacketsTyped
  <2> QED BY <2>1, <2>2, <2>3 DEF ClientThread
<1>3. \A b \in Build : (Unqueued(b) \/ b \in waiting)' => Unqueued(b) \/ b \in waiting
  BY <1>0, <1>1 DEF Unqueued, BeingSubmitted
<1> QED BY <1>0, <1>1, <1>2, <1>3, ClientKeepsServed DEF RestTyped

-----------------------------------------------------------------------------
(* The invariant, and the theorems.                                        *)

WorkerInv == AreGood(w) /\ ServerTyped /\ ServedInv /\ RestTyped

(* Every worker starts good, and nothing is on its way.                    *)
LEMMA InitWorkerInv == Init => WorkerInv
<1> SUFFICES ASSUME Init PROVE WorkerInv
  OBVIOUS
<1> USE DEF Init, GearmanInit, ClientInit, LauncherInit
<1>0. /\ w = [n \in Node |-> w[n]] /\ \A n \in Node : w[n] = NoWorker
      /\ ToSet(packets) = {} /\ command.at = "commands"
  BY DEF ToSet, Working
<1>1. AreGood(w)
  <2>1. \A n \in Node : Good(NoWorker, n)
    BY <1>0, NewIsGood
    DEF Good, Owed, Reported, OnDuty, WillStop, WaitedFor, JoinedByServer
  <2> QED BY <1>0, <2>1 DEF AreGood
<1>2. ServerTyped
  BY <1>0 DEF ServerTyped
<1>3. ServedInv
  <2>1. \A b \in Build : ~Reached(b)
    BY <1>0 DEF Reached, DataSent
  <2>2. \A n \in Node : w[n].gear \notin AtWork
    BY <1>0, NewIsGood DEF AtWork
  <2> QED BY <2>1, <2>2
      DEF ServedInv, StartedIsTaken, TakenOnce, Served, Holds, AtWork
<1>4. RestTyped
  BY <1>0, LaunchAssumption DEF RestTyped, PacketsTyped
<1> QED BY <1>1, <1>2, <1>3, <1>4 DEF WorkerInv

(* Every step of the two programs and the Gearman server.                  *)
LEMMA NextWorkerInv == LaunchInv /\ WorkerInv /\ [Next]_vars => WorkerInv'
<1> SUFFICES ASSUME LaunchInv, WorkerInv, [Next]_vars PROVE WorkerInv'
  OBVIOUS
<1> USE DEF WorkerInv
<1>0. Shape /\ waiting \subseteq Build /\ serving = [b \in Build |-> serving[b]]
  BY DEF LaunchInv, RestTyped
<1>1. CASE ClientNext /\ UNCHANGED launcher
  <2>1. ServedInv' /\ RestTyped'
    BY <1>1, SchedulerKeepsServed, ClientThreadKeepsServed DEF ClientNext
  <2>2. UNCHANGED <<w, nodes, command>>
    BY <1>1 DEF launcher
  <2>3. AreGood(w)' /\ ServerTyped'
    BY <2>2, GoodAgain DEF AreGood, ServerTyped
  <2> QED BY <2>1, <2>3
<1>2. CASE LauncherNext /\ UNCHANGED client
  <2>1. ServedInv'
    BY <1>0, <1>2, LauncherKeepsServed
  <2>2. CASE \/ \E n \in Node : AssignNode(n) \/ RevokeNode(n)
             \/ \E b \in Build : StopJob(b)
             \/ Reap \/ Pause \/ Unpause \/ ReleaseNodes \/ ReloadJobs \/ Graceful
             \/ Stop \/ CommandThread
    BY <1>0, <1>2, <2>1, <2>2, ServerKeepsGood, ServerTypes
  <2>3. ASSUME NEW n \in Node,
               QueueThread(n) \/ GearThread(n) \/ AnsibleTimeout(n) \/ GotJob(n)
        PROVE  WorkerInv'
    <3>1. RestTyped'
      BY <1>0, <1>2, <2>3, WorkerTypes
    <3>2. UNCHANGED <<nodes, command>>
      BY <2>3
      DEF QueueThread, QueueLoop, TakeStop, StopWaited, TakePause, TakeUnpause,
          TakeRelease, ReleaseLocked, TakeReconfigure, TakeAbort, GearThread, GearLoop,
          GearRegister, GetJob, LaunchBuild, BeginJob, PrepareJob, StartPlaybook,
          PlaybookExits, PostExits, EndJob, ReportJob, PutOwnStop, JoinOwnQueue,
          AnsibleTimeout, GotJob, manager
    <3>3. AreGood(w)'
      <4>1. CASE QueueThread(n) \/ GearThread(n) \/ AnsibleTimeout(n)
        <5>1. Moves(n)
          BY <4>1, QueueThreadMoves, GearThreadMoves
        <5> QED BY <3>2, <5>1, OneMoves DEF Moves
      <4>2. CASE GotJob(n)
        BY <1>0, <4>2, GotJobGood
      <4> QED BY <2>3, <4>1, <4>2
    <3> QED BY <2>1, <3>1, <3>2, <3>3 DEF ServerTyped
  <2> QED BY <1>2, <2>2, <2>3 DEF LauncherNext
<1>3. CASE UNCHANGED vars
  <2>1. /\ UNCHANGED <<w, nodes, command, serving, jobs, ended, functions, packets, waiting,
                       attached, stops, started, launched, metaJobs, canceled, cache,
                       scheduler>>
    BY <1>3 DEF vars, gearman, client, launcher
  <2>2. AreGood(w)' /\ ServerTyped'
    BY <2>1, GoodAgain DEF AreGood, ServerTyped
  <2>3. ServedInv'
    BY <2>1, ClientKeepsServed DEF Reached, Unqueued, BeingSubmitted
  <2>4. RestTyped'
    BY <2>1 DEF RestTyped
  <2> QED BY <2>2, <2>3, <2>4
<1> QED BY <1>1, <1>2, <1>3 DEF Next


(* The invariants of the launcher client and of the builds, with this one. *)
LEMMA WorkerInvariance == Spec => []WorkerInv
BY InitWorkerInv, NextWorkerInv, LaunchInvariance, PTL DEF Spec

(* The types of both programs and the Gearman server, for any parameters;  *)
(* among them: a playbook only runs in the two places of a worker that wait*)
(* for one, and a worker's thread is alive as long as its queue is served. *)
THEOREM LaunchingTypeOK == Spec => []TypeOK
<1>1. LaunchInv /\ WorkerInv => TypeOK
  <2> SUFFICES ASSUME LaunchInv, WorkerInv PROVE TypeOK
    OBVIOUS
  <2>1. RestTyped /\ Shape /\ nodes \subseteq Node
    BY DEF LaunchInv, WorkerInv, ServerTyped
  <2>2. \A k \in DOMAIN packets : packets[k].build \in Build /\ packets[k].result \in Results
    BY <2>1 DEF RestTyped, PacketsTyped, ToSet
  <2>3. \A n \in Node : Typed(w[n])
    BY DEF WorkerInv, AreGood, Good
  <2> QED BY <2>1, <2>2, <2>3 DEF TypeOK, RestTyped, Shape, Typed
<1> QED BY <1>1, LaunchInvariance, WorkerInvariance, PTL

(* Nodepool gets every node back: whatever the operator, the scheduler and *)
(* the node do, a worker whose thread has ended has sent an onFinalized    *)
(* event since its last onStarted, unless a build it took before is still  *)
(* being run down, or a stop that found its thread ending is under way.    *)
THEOREM DeadNodesAreReported == Spec => []DeadNodesReported
<1>1. WorkerInv => DeadNodesReported
  <2> SUFFICES ASSUME WorkerInv, NEW n \in Node, w[n].life = "dead"
               PROVE  w[n].sentComplete \/ StopUnderWay(n) \/ Busy(w[n])
    BY DEF DeadNodesReported
  <2>1. Typed(w[n]) /\ Owed(w[n]) /\ OnDuty(w[n], n)
    BY DEF WorkerInv, AreGood, Good
  <2>2. w[n].queuer = "done"
    BY <2>1 DEF Typed
  <2>3. CASE w[n].connected
    BY <2>1, <2>2, <2>3 DEF OnDuty, StoppedByServer, StoppedByItself, StopUnderWay
  <2>4. CASE ~w[n].connected
    BY <2>1, <2>4, BusyAtWork DEF Owed, Reported
  <2> QED BY <2>3, <2>4
<1> QED BY <1>1, WorkerInvariance, PTL

(* A stop job finds its build: while the client waits for a build it has   *)
(* seen start, and no word of its end is under way, LaunchServer.builds    *)
(* names the node whose worker has it, which is connected and served by    *)
(* its queue thread unless a stop is under way in it.                      *)
THEOREM StartedBuildsCanBeStopped == Spec => []StartedCanBeStopped
<1>1. LaunchInv /\ WorkerInv /\ NoBuildLost => StartedCanBeStopped
  <2> SUFFICES ASSUME LaunchInv, WorkerInv, NoBuildLost,
                      NEW b \in started \cap table, ~EndUnderWay(b)
               PROVE  /\ serving[b] \in Node /\ w[serving[b]].build = b
                      /\ w[serving[b]].connected
                      /\ \/ serving[b] \in nodes /\ w[serving[b]].queuer # "done"
                         \/ StopUnderWay(serving[b])
    BY DEF StartedCanBeStopped, LaunchInv, Shape
  <2>1. b \in Build /\ Reached(b)
    BY DEF LaunchInv, Shape, Reached
  <2>2. ~Unqueued(b) /\ b \notin waiting
    BY <2>1 DEF WorkerInv, ServedInv, StartedIsTaken
  <2>3. PICK n \in Node : Busy(w[n]) /\ w[n].build = b /\ w[n].connected
    BY <2>2 DEF NoBuildLost, Unqueued, BeingSubmitted
  <2>4. serving[b] = n
    BY <2>1, <2>3, BusyAtWork DEF WorkerInv, ServedInv, Served, Holds
  <2>5. OnDuty(w[n], n)
    BY DEF WorkerInv, AreGood, Good
  <2>6. (n \in nodes /\ w[n].queuer # "done") \/ StopUnderWay(n)
    BY <2>3, <2>5 DEF OnDuty, StoppedByServer, StoppedByItself, StopUnderWay
  <2> QED BY <2>3, <2>4, <2>6
<1> QED BY <1>1, LaunchInvariance, WorkerInvariance, NoBuildIsLost, PTL

=============================================================================
