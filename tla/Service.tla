------------------------------ MODULE Service ------------------------------
(***************************************************************************)
(* The HTTP service (service/controllers.go): concurrent requests to       *)
(* create a job, the goroutine of the job, status websockets, and the      *)
(* end and restart of the process.                                         *)
(*                                                                         *)
(* c.masterController and c.memSnapshotWriter are the shared state.  They  *)
(* are written under c.lock; HandleJobCreate and the job's goroutine also  *)
(* read c.masterController without it.  A job is identified with the       *)
(* request that creates it, its controller and its snapshot writer with    *)
(* the job.  What Run does is JobRun, which Master implements.             *)
(***************************************************************************)
EXTENDS Integers, FiniteSets

CONSTANTS
    Jobs,        \* the requests to create a job, and the jobs
    Sockets,     \* the connections to /job/status
    NumDials,    \* agents listed in a request
    MaxRestarts, \* bound: restarts of the process
    None         \* nil, or the writer made by NewServiceMux

ASSUME ServiceAssumption ==
    /\ None \notin Jobs
    /\ NumDials \in Nat \ {0}
    /\ MaxRestarts \in Nat

VARIABLES
    up,        \* the process runs
    restarts,  \* how often it was restarted
    exiting,   \* HandleMasterExit has been called
    ctl,       \* c.masterController
    writer,    \* c.memSnapshotWriter
    req,       \* control of each HandleJobCreate, then of the job's goroutine
    dialled,   \* agents each handler has registered
    live,      \* jobs whose goroutines belong to the running process
    phase,     \* JobRun, for each job
    watch,
    shown,
    sock       \* the handler of each status websocket

procVars == <<up, restarts, exiting>>
jobVars  == <<live, phase, watch, shown>>
reqVars  == <<req, dialled>>
vars     == <<procVars, ctl, writer, reqVars, jobVars, sock>>

RunOf(j) == INSTANCE JobRun WITH phase <- phase[j], watch <- watch[j], shown <- shown[j]

InHandler == {"checking", "locking", "registering"}
Refused   == "A job is still running"
ReqStates == InHandler \cup {"none", "bad", Refused, "failed", "created", "cleared", "cut"}
SockStates == {"off", "waiting", "read", "finished", "broken", "cut"}
Snapshots  == {"nobody", "watch", "final"}

\* A status handler: its control, its local variables sw and lastFlush, and
\* the last payload it has sent.
SocketHandlers ==
    [st : SockStates, sw : Jobs \cup {None}, last : BOOLEAN,
     got : [job : Jobs \cup {None}, what : Snapshots]]

\* A payload: whose snapshot it is, and which.
Payload(j) == [job |-> j, what |-> IF j = None THEN "nobody" ELSE shown[j]]

Init ==
    /\ up = TRUE
    /\ restarts = 0
    /\ exiting = FALSE
    /\ ctl = None
    /\ writer = None
    /\ req = [j \in Jobs |-> "none"]
    /\ dialled = [j \in Jobs |-> 0]
    /\ live = {}
    /\ phase = [j \in Jobs |-> "new"]
    /\ watch = [j \in Jobs |-> "none"]
    /\ shown = [j \in Jobs |-> "nobody"]
    /\ sock = [s \in Sockets |-> [st |-> "off", sw |-> None, last |-> FALSE, got |-> Payload(None)]]

-----------------------------------------------------------------------------
(***************************************************************************)
(* HandleJobCreate.                                                        *)
(***************************************************************************)
Goto(j, st) == req' = [req EXCEPT ![j] = st]

\* The form and the job in it are parsed and validated.
ParseJob(j) ==
    /\ up
    /\ req[j] = "none"
    /\ \E st \in {"bad", "checking"} : Goto(j, st)
    /\ UNCHANGED <<procVars, ctl, writer, dialled, jobVars, sock>>

\* The check under the read lock.
CheckIdle(j) ==
    /\ req[j] = "checking"
    /\ Goto(j, IF ctl # None THEN Refused ELSE "locking")
    /\ UNCHANGED <<procVars, ctl, writer, dialled, jobVars, sock>>

\* Faulty variant: the check is not repeated under the write lock.
InstallUnchecked(j) ==
    /\ req[j] = "locking"
    /\ Goto(j, "registering")
    /\ ctl' = j
    /\ writer' = j
    /\ UNCHANGED <<procVars, dialled, jobVars, sock>>

\* The second check and the new writer and controller, under the write lock.
InstallController(j) ==
    /\ req[j] = "locking"
    /\ IF ctl # None
         THEN Goto(j, Refused) /\ UNCHANGED <<ctl, writer>>
         ELSE Goto(j, "registering") /\ ctl' = j /\ writer' = j
    /\ UNCHANGED <<procVars, dialled, jobVars, sock>>

\* One agent of the list is dialled and appended to the agents of
\* c.masterController, which is read without the lock: a nil one would panic,
\* another job's would get this job's agents (OneJobWithItsController).
RegisterAgent(j) ==
    /\ req[j] = "registering"
    /\ ctl # None
    /\ dialled[j] < NumDials
    /\ dialled' = [dialled EXCEPT ![j] = @ + 1]
    /\ UNCHANGED <<procVars, ctl, writer, req, jobVars, sock>>

\* An agent cannot be dialled: an early return that leaves ctl as it is.
RegisterFails(j) ==
    /\ req[j] = "registering"
    /\ dialled[j] < NumDials
    /\ Goto(j, "failed")
    /\ UNCHANGED <<procVars, ctl, writer, dialled, jobVars, sock>>

\* Faulty variant: a copy of the config is saved first, and when that fails
\* the handler returns.
SpawnJobAfterSaving(j) ==
    /\ req[j] = "registering"
    /\ dialled[j] = NumDials
    /\ \/ Goto(j, "created") /\ live' = live \cup {j}
       \/ Goto(j, "bad") /\ UNCHANGED live
    /\ UNCHANGED <<procVars, ctl, writer, dialled, phase, watch, shown, sock>>

\* The loop ends, the job's goroutine is started, the answer is 201.
SpawnJob(j) ==
    /\ req[j] = "registering"
    /\ dialled[j] = NumDials
    /\ Goto(j, "created")
    /\ live' = live \cup {j}
    /\ UNCHANGED <<procVars, ctl, writer, dialled, phase, watch, shown, sock>>

-----------------------------------------------------------------------------
(***************************************************************************)
(* The goroutine of a job: c.masterController.Run, then the reset.         *)
(***************************************************************************)

\* Run begins: the goroutine reads c.masterController, no lock held.
BeginJob(j) ==
    /\ j \in live
    /\ phase[j] = "new"
    /\ ctl # None
    /\ phase' = [phase EXCEPT ![j] = "running"]
    /\ UNCHANGED <<procVars, ctl, writer, reqVars, live, watch, shown, sock>>

WatcherStarts(j) ==
    /\ j \in live
    /\ phase[j] = "running" /\ watch[j] = "none"
    /\ watch' = [watch EXCEPT ![j] = "idle"]
    /\ UNCHANGED <<procVars, ctl, writer, reqVars, live, phase, shown, sock>>

WatcherCollects(j) ==
    /\ j \in live
    /\ watch[j] = "idle"
    /\ watch' = [watch EXCEPT ![j] = "busy"]
    /\ UNCHANGED <<procVars, ctl, writer, reqVars, live, phase, shown, sock>>

WatcherWrites(j) ==
    /\ j \in live
    /\ watch[j] = "busy"
    /\ watch' = [watch EXCEPT ![j] = "idle"]
    /\ shown' = [shown EXCEPT ![j] = "watch"]
    /\ UNCHANGED <<procVars, ctl, writer, reqVars, live, phase, sock>>

WatcherStops(j) ==
    /\ j \in live
    /\ watch[j] = "idle"
    /\ watch' = [watch EXCEPT ![j] = "ended"]
    /\ UNCHANGED <<procVars, ctl, writer, reqVars, live, phase, shown, sock>>

\* Faulty variant: Run returns without its last snapshot.
RunReturnsUnwritten(j) ==
    /\ j \in live
    /\ phase[j] = "running" /\ watch[j] # "none"
    /\ phase' = [phase EXCEPT ![j] = "returned"]
    /\ UNCHANGED <<procVars, ctl, writer, reqVars, live, watch, shown, sock>>

\* Run writes its last snapshot and returns.
RunReturns(j) ==
    /\ j \in live
    /\ phase[j] = "running" /\ watch[j] # "none"
    /\ phase' = [phase EXCEPT ![j] = "returned"]
    /\ shown' = [shown EXCEPT ![j] = "final"]
    /\ UNCHANGED <<procVars, ctl, writer, reqVars, live, watch, sock>>

\* Faulty variant: the lock is taken and released, the reset is missing.
ClearNothing(j) ==
    /\ j \in live
    /\ phase[j] = "returned"
    /\ req[j] = "created"
    /\ Goto(j, "cleared")
    /\ UNCHANGED <<procVars, ctl, writer, dialled, jobVars, sock>>

\* Whatever controller is installed is given up, under the lock.
ClearController(j) ==
    /\ j \in live
    /\ phase[j] = "returned"
    /\ req[j] = "created"
    /\ Goto(j, "cleared")
    /\ ctl' = None
    /\ UNCHANGED <<procVars, writer, dialled, jobVars, sock>>

-----------------------------------------------------------------------------
(***************************************************************************)
(* HandleJobStatus.                                                        *)
(***************************************************************************)
Connect(s) ==
    /\ up
    /\ sock[s].st = "off"
    /\ sock' = [sock EXCEPT ![s].st = "waiting"]
    /\ UNCHANGED <<procVars, ctl, writer, reqVars, jobVars>>

\* A tick: lastFlush and the writer are read together under the read lock.
ReadStatus(s) ==
    /\ sock[s].st = "waiting"
    /\ sock' = [sock EXCEPT ![s] = [st |-> "read", sw |-> writer, last |-> (ctl = None), got |-> @.got]]
    /\ UNCHANGED <<procVars, ctl, writer, reqVars, jobVars>>

\* Faulty variant: the writer is looked up again after the unlock.
SendStatusOfCurrent(s) ==
    /\ sock[s].st = "read"
    /\ sock' = [sock EXCEPT ![s] = [st |-> IF @.last THEN "finished" ELSE "waiting",
                                    sw |-> @.sw, last |-> @.last, got |-> Payload(writer)]]
    /\ UNCHANGED <<procVars, ctl, writer, reqVars, jobVars>>

\* The writer is dumped and sent; after a last flush the socket is closed.
SendStatus(s) ==
    /\ sock[s].st = "read"
    /\ sock' = [sock EXCEPT ![s] = [st |-> IF @.last THEN "finished" ELSE "waiting",
                                    sw |-> @.sw, last |-> @.last, got |-> Payload(@.sw)]]
    /\ UNCHANGED <<procVars, ctl, writer, reqVars, jobVars>>

\* The peer is gone.
SendFails(s) ==
    /\ sock[s].st = "read"
    /\ sock' = [sock EXCEPT ![s].st = "broken"]
    /\ UNCHANGED <<procVars, ctl, writer, reqVars, jobVars>>

-----------------------------------------------------------------------------
(***************************************************************************)
(* The process.                                                            *)
(***************************************************************************)

\* HandleMasterExit: os.Exit follows a second later.
HandleMasterExit ==
    /\ up
    /\ ~exiting
    /\ exiting' = TRUE
    /\ UNCHANGED <<up, restarts, ctl, writer, reqVars, jobVars, sock>>

\* The process ends and everything in it: os.Exit, or a job that takes it down
\* (log.Fatalln in the setup of the agents, a panic).
ProcessEnds ==
    /\ up
    /\ exiting \/ \E j \in live : phase[j] = "running"
    /\ up' = FALSE
    /\ exiting' = FALSE
    /\ live' = {}
    /\ phase' = [j \in Jobs |-> IF phase[j] = "running" THEN "dead" ELSE phase[j]]
    /\ req' = [j \in Jobs |-> IF req[j] \in InHandler THEN "cut" ELSE req[j]]
    /\ sock' = [s \in Sockets |->
                  IF sock[s].st \in {"waiting", "read"} THEN [sock[s] EXCEPT !.st = "cut"] ELSE sock[s]]
    /\ UNCHANGED <<restarts, ctl, writer, dialled, watch, shown>>

\* The service is started anew (by its supervisor): NewServiceMux.
Restart ==
    /\ ~up
    /\ restarts < MaxRestarts
    /\ up' = TRUE
    /\ restarts' = restarts + 1
    /\ ctl' = None
    /\ writer' = None
    /\ UNCHANGED <<exiting, reqVars, jobVars, sock>>

-----------------------------------------------------------------------------
HandlerStep(j) ==
    \/ CheckIdle(j) \/ InstallController(j)
    \/ RegisterAgent(j) \/ RegisterFails(j) \/ SpawnJob(j)

JobStep(j) ==
    \/ BeginJob(j) \/ RunReturns(j) \/ ClearController(j)
    \/ WatcherStarts(j) \/ WatcherCollects(j) \/ WatcherWrites(j) \/ WatcherStops(j)

SocketStep(s) == Connect(s) \/ ReadStatus(s) \/ SendStatus(s) \/ SendFails(s)

Next ==
    \/ \E j \in Jobs : ParseJob(j) \/ HandlerStep(j) \/ JobStep(j)
    \/ \E s \in Sockets : SocketStep(s)
    \/ HandleMasterExit \/ ProcessEnds \/ Restart

Spec == Init /\ [][Next]_vars

\* Handlers and goroutines run.  Nothing makes a request arrive, an agent
\* answer wrongly, a job end, or the process end.
FairSpec ==
    /\ Spec
    /\ \A j \in Jobs :
        /\ WF_vars(HandlerStep(j))
        /\ WF_vars(BeginJob(j)) /\ WF_vars(WatcherStarts(j)) /\ WF_vars(ClearController(j))
    /\ \A s \in Sockets : WF_vars(ReadStatus(s)) /\ WF_vars(SendStatus(s) \/ SendFails(s))

-----------------------------------------------------------------------------
(***************************************************************************)
(* Properties.                                                             *)
(***************************************************************************)

\* Job j occupies the service: its handler has installed the controller and
\* goes on, or its goroutine has not yet given the controller up.
Active(j) ==
    \/ req[j] = "registering"
    \/ j \in live /\ phase[j] \in {"new", "running"}
    \/ j \in live /\ phase[j] = "returned" /\ req[j] = "created"

\* The type invariant.
TypeOK ==
    /\ up \in BOOLEAN /\ exiting \in BOOLEAN
    /\ restarts \in 0..MaxRestarts
    /\ ctl \in Jobs \cup {None}
    /\ writer \in Jobs \cup {None}
    /\ req \in [Jobs -> ReqStates]
    /\ dialled \in [Jobs -> 0..NumDials]
    /\ live \subseteq Jobs
    /\ phase \in [Jobs -> {"new", "running", "returned", "dead"}]
    /\ watch \in [Jobs -> {"none", "idle", "busy", "ended"}]
    /\ shown \in [Jobs -> Snapshots]
    /\ sock \in [Sockets -> SocketHandlers]

\* Two requests never both get past the check: at most one job registers its
\* agents or runs, and the unlocked reads of c.masterController, in the loop
\* of the handler and in the goroutine, find the job's own controller.
OneJobWithItsController ==
    \A j \in Jobs : Active(j) => ctl = j

\* While a controller is installed, status is read from its job's writer.
StatusOfCurrentJob == up /\ ctl # None => writer = ctl

\* A status stream that the service ends has shown a job whose Run had
\* returned, or the empty writer of a service that has run nothing.
FlushAfterReturn ==
    \A s \in Sockets :
        sock[s].st = "finished" =>
            sock[s].got.job = None \/ phase[sock[s].got.job] = "returned"

\* A controller that no active job owns is left by a failed registration.
ControllerIsOwned ==
    up /\ ctl # None => Active(ctl) \/ req[ctl] = "failed"

\* Each job goes through what JobRun allows, in spite of restarts and of the
\* requests around it.
JobsFollowJobRun ==
    /\ \A j \in Jobs : RunOf(j)!Init
    /\ [][\A j \in Jobs : [RunOf(j)!Next]_(RunOf(j)!vars)]_vars

\* When the Run of a job has returned, the service becomes free for the next,
\* unless the process ends.
JobIsCleared == \A j \in Jobs : (phase[j] = "returned") ~> (ctl # j \/ ~up)

\* controllers.go:212 and :220 refuse a request with "A job is still running":
\* then there is a job that registers, runs or is about to be cleared.
RefusedOnlyWhileRunning ==
    [][\A j \in Jobs : req[j] # Refused /\ req'[j] = Refused => \E k \in Jobs : Active(k)]_vars
=============================================================================
