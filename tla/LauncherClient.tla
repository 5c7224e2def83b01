--------------------------- MODULE LauncherClient ---------------------------
(***************************************************************************)
(* Zuul's end of Gearman (zuul/launcher/gearman.py, class Gearman): the    *)
(* scheduler thread launches and cancels builds, one at a time, and blocks *)
(* in between; the Gearman client thread handles the packets that arrive.  *)
(* Both work on the table of outstanding builds without a lock.            *)
(***************************************************************************)
EXTENDS GearmanServer

CONSTANTS
  Noop             (* the job named noop, which runs nowhere                *)

VARIABLES
  launched,        (* builds the scheduler asked for                        *)
  table,           (* Gearman.builds                                        *)
  metaJobs,        (* Gearman.meta_jobs: stop jobs sent, by build           *)
  canceled,        (* builds with build.canceled                            *)
  started,         (* builds with build.number set                          *)
  cache,           (* function_cache                                        *)
  scheduler,       (* where the scheduler thread is in launch or cancel     *)
  handler,         (* where the client thread is in onBuildCompleted        *)
  answers          (* history: what sched.onBuildCompleted was told         *)

client == <<launched, table, metaJobs, canceled, started, cache, scheduler,
            handler, answers>>

Free == [at |-> "idle"]

ClientInit ==
  /\ launched = {} /\ table = {} /\ metaJobs = {} /\ canceled = {} /\ started = {}
  /\ cache = {}
  /\ scheduler = Free /\ handler = Free
  /\ answers = [b \in Build |-> <<>>]

Answer(b, r, seen) ==
  answers' = [answers EXCEPT ![b] = Append(@, [result |-> r, seen |-> seen])]

-----------------------------------------------------------------------------
(* isJobRegistered: the functions seen so far count as registered until    *)
(* the connection is new; the server is asked again for an unknown one,    *)
(* but not within five seconds of the last time.                           *)
IsJobRegistered(j) ==
  \E asked \in {{}, Registered} :
    cache' = IF j \in cache THEN cache ELSE cache \cup asked

(* launch.  A noop succeeds on the spot.  The build enters the table, and  *)
(* leaves it at once if nobody has registered its function.                *)
Launch(b) ==
  /\ scheduler = Free /\ b \notin launched
  /\ launched' = launched \cup {b}
  /\ \/ /\ JobOf[b] = Noop
        /\ Answer(b, "SUCCESS", {"noop"})
        /\ UNCHANGED <<table, scheduler, cache>>
     \/ /\ JobOf[b] # Noop
        /\ IsJobRegistered(JobOf[b])
        /\ IF JobOf[b] \in cache'
           THEN /\ table' = table \cup {b}
                /\ scheduler' = [at |-> "submit", build |-> b]
                /\ UNCHANGED answers
           ELSE /\ Answer(b, "NOT_REGISTERED", {"unknown"})
                /\ UNCHANGED <<table, scheduler>>
  /\ UNCHANGED <<gearman, metaJobs, canceled, started, handler>>

(* mutant: a submission that raised is only logged.                        *)
SubmitLogged ==
  /\ scheduler.at = "submit"
  /\ \/ /\ waiting' = waiting \cup {scheduler.build}
        /\ attached' = attached \cup {scheduler.build}
        /\ UNCHANGED faults
     \/ Fault("submit") /\ UNCHANGED <<waiting, attached>>
  /\ scheduler' = Free
  /\ UNCHANGED <<packets, stops, functions, launched, table, metaJobs, canceled,
                 started, cache, handler, answers>>

(* The submission: the client gets a handle; or it raises, or no handle    *)
(* comes in 300 seconds, and the job may be in the queue all the same.     *)
Submit ==
  /\ scheduler.at = "submit"
  /\ LET b == scheduler.build
     IN \/ /\ waiting' = waiting \cup {b}
           /\ attached' = attached \cup {b}
           /\ UNCHANGED <<faults, table, answers>>
        \/ /\ Fault("submit")
           /\ waiting' \in {waiting, waiting \cup {b}}
           /\ \E r \in {"EXCEPTION", "NO_HANDLE"} : Answer(b, r, {"unsubmitted"})
           /\ table' = table \ {b}
           /\ UNCHANGED attached
  /\ scheduler' = Free
  /\ UNCHANGED <<packets, stops, functions, launched, metaJobs, canceled, started,
                 cache, handler>>

(* cancelRunningBuild: a stop job; submitting it may raise.                *)
CancelRunningBuild(b) ==
  /\ metaJobs' = metaJobs \cup {b}
  /\ \/ stops' = stops \cup {b} /\ UNCHANGED faults
     \/ Fault("submit") /\ UNCHANGED stops

(* cancel: a build that has started is stopped; one that has not is looked *)
(* for in the queue.  Without a handle the look-up raises.                 *)
Cancel(b) ==
  /\ scheduler = Free /\ b \in launched \ canceled
  /\ canceled' = canceled \cup {b}
  /\ \/ /\ b \in started
        /\ CancelRunningBuild(b)
        /\ UNCHANGED scheduler
     \/ /\ b \notin started
        /\ scheduler' = IF b \in attached THEN [at |-> "lookup", build |-> b] ELSE Free
        /\ UNCHANGED <<metaJobs, stops, faults>>
  /\ UNCHANGED <<waiting, attached, packets, functions, launched, table, started,
                 cache, handler, answers>>

(* cancelJobInQueue: the server removes the job if it still has it.        *)
CancelJobInQueue ==
  /\ scheduler.at = "lookup"
  /\ LET b == scheduler.build
     IN \/ /\ b \in waiting
           /\ waiting' = waiting \ {b}
           /\ table' = table \ {b}
           /\ scheduler' = Free
           /\ UNCHANGED faults
        \/ /\ b \notin waiting
           /\ scheduler' = [at |-> "sleep", build |-> b]
           /\ UNCHANGED <<waiting, table, faults>>
        \/ /\ \/ b \notin attached /\ UNCHANGED faults
              \/ Fault("admin")
           /\ scheduler' = Free
           /\ UNCHANGED <<waiting, table>>
  /\ UNCHANGED <<attached, packets, stops, functions, launched, metaJobs, canceled,
                 started, cache, handler, answers>>

(* A second later the build may have started; if not, cancel gives up.     *)
CancelAgain ==
  /\ scheduler.at = "sleep"
  /\ IF scheduler.build \in started
     THEN CancelRunningBuild(scheduler.build)
     ELSE UNCHANGED <<metaJobs, stops, faults>>
  /\ scheduler' = Free
  /\ UNCHANGED <<waiting, attached, packets, functions, launched, table, canceled,
                 started, cache, handler, answers>>

-----------------------------------------------------------------------------
Received == packets # <<>> /\ handler = Free /\ packets' = Tail(packets)

(* onWorkStatus.                                                           *)
OnWorkStatus ==
  /\ Received /\ Head(packets).kind = "data"
  /\ started' = started \cup ({Head(packets).build} \cap table)
  /\ UNCHANGED <<waiting, attached, stops, functions, faults, launched, table,
                 metaJobs, canceled, cache, scheduler, handler, answers>>

(* onBuildCompleted of a meta job.                                         *)
OnMetaJobCompleted ==
  /\ Received /\ Head(packets).kind = "meta"
  /\ metaJobs' = metaJobs \ {Head(packets).build}
  /\ UNCHANGED <<waiting, attached, stops, functions, faults, launched, table,
                 canceled, started, cache, scheduler, handler, answers>>

(* onBuildCompleted of a build: a canceled one is only forgotten.  The     *)
(* flag is read here and the scheduler told in the next step: a cancel may *)
(* come in between.                                                        *)
OnBuildCompleted ==
  /\ Received /\ Head(packets).kind = "done"
  /\ LET p == Head(packets)
     IN IF p.build \in table \ canceled
        THEN /\ handler' = [at |-> "answer", packet |-> p]
             /\ UNCHANGED table
        ELSE /\ table' = table \ {p.build}
             /\ UNCHANGED handler
  /\ UNCHANGED <<waiting, attached, stops, functions, faults, launched, metaJobs,
                 canceled, started, cache, scheduler, answers>>

(* mutant: a build that was reported stays in the table.                   *)
TellSchedulerOnly ==
  /\ handler.at = "answer"
  /\ Answer(handler.packet.build, handler.packet.result, handler.packet.seen)
  /\ handler' = Free
  /\ UNCHANGED <<gearman, launched, table, metaJobs, canceled, started, cache, scheduler>>

(* sched.onBuildCompleted; a null result asks for a retry.  The build is   *)
(* removed from the table after it was reported.                           *)
TellScheduler ==
  /\ handler.at = "answer"
  /\ LET p == handler.packet
     IN /\ Answer(p.build, p.result, p.seen)
        /\ table' = table \ {p.build}
  /\ handler' = Free
  /\ UNCHANGED <<gearman, launched, metaJobs, canceled, started, cache, scheduler>>

(* onDisconnect: the connection is lost.  The server forgets the jobs the  *)
(* client has in its queue; every job the connection knew, meta jobs       *)
(* included, is taken for lost, and what was under way never arrives.  The *)
(* client thread does not notice another loss before all that is done.     *)
IsLost(p) == p.seen = {"lost"}

OnDisconnect ==
  /\ Fault("disconnect")
  /\ \A p \in ToSet(packets) : ~IsLost(p)
  /\ waiting' = waiting \ attached
  /\ attached' = {}
  /\ stops' = {}
  /\ packets' = SetToSeq({WorkDone(b, "none", {"lost"}) : b \in attached \cap table}
                         \cup {MetaDone(b, {"lost"}) : b \in metaJobs})
  /\ cache' = {}
  /\ UNCHANGED <<functions, launched, table, metaJobs, canceled, started, scheduler,
                 handler, answers>>

ClientThread == OnWorkStatus \/ OnMetaJobCompleted \/ OnBuildCompleted \/ TellScheduler
SchedulerThread == Submit \/ CancelJobInQueue \/ CancelAgain

ClientNext ==
  \/ \E b \in Build : Launch(b) \/ Cancel(b)
  \/ SchedulerThread
  \/ ClientThread
  \/ OnDisconnect
=============================================================================
