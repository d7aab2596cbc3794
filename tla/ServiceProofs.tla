--------------------------- MODULE ServiceProofs ---------------------------
(***************************************************************************)
(* The service runs one job at a time, with its own controller, and shows  *)
(* the right job's counters: for any number of requests, sockets, agents   *)
(* and restarts.                                                           *)
(***************************************************************************)
EXTENDS Service, TLAPS

\* A process that is down has no handler and no goroutine.
DownInv ==
    ~up => /\ live = {}
           /\ \A j \in Jobs : req[j] \notin InHandler
           /\ \A s \in Sockets : sock[s].st \notin {"waiting", "read"}

\* How the control of a request and the state of its job go together.
RequestInv ==
    \A j \in Jobs :
        /\ req[j] \in InHandler \cup {"none"} => phase[j] = "new" /\ j \notin live
        /\ j \in live => req[j] \in {"created", "cleared"}
        /\ req[j] = "cleared" => phase[j] = "returned"
        /\ phase[j] = "dead" => j \notin live

\* When the service is free, its writer is that of a job that has returned,
\* and so is one that a status handler has read for its last flush.
Returned(j) == j = None \/ phase[j] = "returned"

FreeInv == up /\ ctl = None => Returned(writer)

FlushOf(s) ==
    /\ sock[s].st = "read" /\ sock[s].last => Returned(sock[s].sw)
    /\ sock[s].st = "finished" => Returned(sock[s].got.job)

FlushInv == \A s \in Sockets : FlushOf(s)

\* The inductive invariant.
ServiceInv ==
    /\ TypeOK /\ DownInv /\ RequestInv
    /\ OneJobWithItsController /\ StatusOfCurrentJob /\ ControllerIsOwned
    /\ FreeInv /\ FlushInv

-----------------------------------------------------------------------------
\* A payload of a job or of the empty writer.
LEMMA PayloadType ==
    ASSUME TypeOK, NEW j \in Jobs \cup {None}
    PROVE  Payload(j) \in [job : Jobs \cup {None}, what : Snapshots]
BY ServiceAssumption DEF TypeOK, Payload, Snapshots

\* A status handler remains one.
LEMMA SocketType ==
    ASSUME TypeOK, NEW s \in Sockets, SocketStep(s)
    PROVE  sock' \in [Sockets -> SocketHandlers]
<1>1. sock[s] \in SocketHandlers
  BY DEF TypeOK
<1>2. CASE Connect(s)
  <2>1. [sock[s] EXCEPT !.st = "waiting"] \in SocketHandlers
    BY <1>1 DEF SocketHandlers, SockStates
  <2>. QED  BY <1>2, <2>1 DEF Connect, TypeOK
<1>3. CASE ReadStatus(s)
  <2>1. [st |-> "read", sw |-> writer, last |-> (ctl = None), got |-> sock[s].got] \in SocketHandlers
    BY <1>1 DEF SocketHandlers, SockStates, TypeOK
  <2>. QED  BY <1>3, <2>1 DEF ReadStatus, TypeOK
<1>4. CASE SendStatus(s)
  <2>1. Payload(sock[s].sw) \in [job : Jobs \cup {None}, what : Snapshots]
    BY <1>1, PayloadType DEF SocketHandlers
  <2>2. [st |-> IF sock[s].last THEN "finished" ELSE "waiting", sw |-> sock[s].sw,
         last |-> sock[s].last, got |-> Payload(sock[s].sw)] \in SocketHandlers
    BY <1>1, <2>1 DEF SocketHandlers, SockStates
  <2>. QED  BY <1>4, <2>2 DEF SendStatus, TypeOK
<1>5. CASE SendFails(s)
  <2>1. [sock[s] EXCEPT !.st = "broken"] \in SocketHandlers
    BY <1>1 DEF SocketHandlers, SockStates
  <2>. QED  BY <1>5, <2>1 DEF SendFails, TypeOK
<1>. QED  BY <1>2, <1>3, <1>4, <1>5 DEF SocketStep

\* So do the handlers that the end of the process cuts.
LEMMA CutSocketType ==
    ASSUME TypeOK, ProcessEnds
    PROVE  sock' \in [Sockets -> SocketHandlers]
<1>1. ASSUME NEW s \in Sockets PROVE [sock[s] EXCEPT !.st = "cut"] \in SocketHandlers
  BY DEF TypeOK, SocketHandlers, SockStates
<1>. QED  BY <1>1 DEF ProcessEnds, TypeOK

\* A counter below its bound can be incremented.
LEMMA BoundedIncrement ==
    ASSUME NEW n \in Nat, NEW i \in 0..n, i < n
    PROVE  i + 1 \in 0..n
OBVIOUS

\* The initial state is well typed.
LEMMA InitType ==
    ASSUME Init
    PROVE  TypeOK
<1>1. [st |-> "off", sw |-> None, last |-> FALSE, got |-> Payload(None)] \in SocketHandlers
  BY DEF SocketHandlers, SockStates, Payload, Snapshots
<1>2. sock \in [Sockets -> SocketHandlers]
  BY <1>1 DEF Init
<1>3. restarts \in 0..MaxRestarts /\ dialled \in [Jobs -> 0..NumDials]
  BY ServiceAssumption DEF Init
<1>4. req \in [Jobs -> ReqStates] /\ shown \in [Jobs -> Snapshots]
  BY DEF Init, ReqStates, Snapshots
<1>. QED  BY <1>2, <1>3, <1>4 DEF Init, TypeOK

\* Type correctness.
THEOREM TypeCorrect == Spec => []TypeOK
<1>1. Init => TypeOK
  BY InitType
<1>2. TypeOK /\ [Next]_vars => TypeOK'
  <2> SUFFICES ASSUME TypeOK, [Next]_vars PROVE TypeOK'
    OBVIOUS
  <2> USE ServiceAssumption DEF TypeOK, ReqStates, InHandler, Refused, Snapshots, Goto,
                                procVars, jobVars, reqVars
  <2>1. ASSUME NEW j \in Jobs, ParseJob(j) PROVE TypeOK'
    BY <2>1 DEF ParseJob
  <2>2. ASSUME NEW j \in Jobs, HandlerStep(j) PROVE TypeOK'
    <3>1. CASE CheckIdle(j)  BY <3>1 DEF CheckIdle
    <3>2. CASE InstallController(j)
      <4>1. CASE ctl # None  BY <3>2, <4>1 DEF InstallController
      <4>2. CASE ctl = None  BY <3>2, <4>2 DEF InstallController
      <4>. QED  BY <4>1, <4>2
    <3>3. CASE RegisterAgent(j)
      <4>1. dialled[j] + 1 \in 0..NumDials
        <5>1. dialled[j] \in 0..NumDials /\ NumDials \in Nat
          OBVIOUS
        <5>2. dialled[j] < NumDials
          BY <3>3 DEF RegisterAgent
        <5>. QED  BY <5>1, <5>2, BoundedIncrement
      <4>2. dialled' \in [Jobs -> 0..NumDials]
        BY <3>3, <4>1 DEF RegisterAgent
      <4>. QED  BY <3>3, <4>2 DEF RegisterAgent
    <3>4. CASE RegisterFails(j)  BY <3>4 DEF RegisterFails
    <3>5. CASE SpawnJob(j)  BY <3>5 DEF SpawnJob
    <3>. QED  BY <2>2, <3>1, <3>2, <3>3, <3>4, <3>5 DEF HandlerStep
  <2>3. ASSUME NEW j \in Jobs, JobStep(j) PROVE TypeOK'
    <3>1. CASE BeginJob(j)  BY <3>1 DEF BeginJob
    <3>2. CASE RunReturns(j)  BY <3>2 DEF RunReturns
    <3>3. CASE ClearController(j)  BY <3>3 DEF ClearController
    <3>4. CASE WatcherStarts(j)  BY <3>4 DEF WatcherStarts
    <3>5. CASE WatcherCollects(j)  BY <3>5 DEF WatcherCollects
    <3>6. CASE WatcherWrites(j)  BY <3>6 DEF WatcherWrites
    <3>7. CASE WatcherStops(j)  BY <3>7 DEF WatcherStops
    <3>. QED  BY <2>3, <3>1, <3>2, <3>3, <3>4, <3>5, <3>6, <3>7 DEF JobStep
  <2>4. ASSUME NEW s \in Sockets, SocketStep(s) PROVE TypeOK'
    BY <2>4, SocketType DEF SocketStep, Connect, ReadStatus, SendStatus, SendFails
  <2>5. CASE HandleMasterExit
    BY <2>5 DEF HandleMasterExit
  <2>6. CASE ProcessEnds
    <3>1. phase' \in [Jobs -> {"new", "running", "returned", "dead"}]
      BY <2>6 DEF ProcessEnds
    <3>2. req' \in [Jobs -> ReqStates]
      BY <2>6 DEF ProcessEnds
    <3>. QED  BY <2>6, <3>1, <3>2, CutSocketType DEF ProcessEnds
  <2>7. CASE Restart
    <3>1. restarts' \in 0..MaxRestarts
      <4>1. restarts \in 0..MaxRestarts /\ MaxRestarts \in Nat
        OBVIOUS
      <4>2. restarts < MaxRestarts /\ restarts' = restarts + 1
        BY <2>7 DEF Restart
      <4>. QED  BY <4>1, <4>2, BoundedIncrement
    <3>. QED  BY <2>7, <3>1 DEF Restart
  <2>8. CASE UNCHANGED vars
    BY <2>8 DEF vars
  <2>. QED  BY <2>1, <2>2, <2>3, <2>4, <2>5, <2>6, <2>7, <2>8 DEF Next
<1>. QED  BY <1>1, <1>2, PTL DEF Spec

-----------------------------------------------------------------------------
(***************************************************************************)
(* Each part of the invariant is kept by every step.                       *)
(***************************************************************************)

\* Handlers and goroutines exist only while the process runs.
LEMMA DownStep ==
    ASSUME TypeOK, DownInv, RequestInv, [Next]_vars
    PROVE  DownInv'
<1> USE DEF DownInv, TypeOK, InHandler, Goto, procVars, jobVars, reqVars
<1>1. ASSUME NEW j \in Jobs, ParseJob(j) \/ HandlerStep(j) PROVE DownInv'
  BY <1>1 DEF ParseJob, HandlerStep, CheckIdle, InstallController, RegisterAgent,
              RegisterFails, SpawnJob
<1>2. ASSUME NEW j \in Jobs, JobStep(j) PROVE DownInv'
  BY <1>2 DEF JobStep, BeginJob, RunReturns, ClearController, WatcherStarts,
              WatcherCollects, WatcherWrites, WatcherStops
<1>3. ASSUME NEW s \in Sockets, SocketStep(s) PROVE DownInv'
  <2>1. up' = up /\ up
    BY <1>3 DEF SocketStep, Connect, ReadStatus, SendStatus, SendFails
  <2>. QED  BY <2>1
<1>4. CASE HandleMasterExit \/ Restart \/ UNCHANGED vars
  BY <1>4 DEF HandleMasterExit, Restart, vars
<1>5. CASE ProcessEnds
  BY <1>5 DEF ProcessEnds
<1>. QED  BY <1>1, <1>2, <1>3, <1>4, <1>5 DEF Next

\* The control of a request and its job keep in step.
LEMMA RequestStep ==
    ASSUME TypeOK, RequestInv, [Next]_vars
    PROVE  RequestInv'
<1> USE DEF RequestInv, TypeOK, InHandler, Refused, Goto, procVars, jobVars, reqVars
<1>1. ASSUME NEW j \in Jobs, ParseJob(j) \/ CheckIdle(j) PROVE RequestInv'
  BY <1>1 DEF ParseJob, CheckIdle
<1>2. ASSUME NEW j \in Jobs, InstallController(j) PROVE RequestInv'
  <2>1. CASE ctl # None  BY <1>2, <2>1 DEF InstallController
  <2>2. CASE ctl = None  BY <1>2, <2>2 DEF InstallController
  <2>. QED  BY <2>1, <2>2
<1>3. ASSUME NEW j \in Jobs, RegisterAgent(j) \/ RegisterFails(j) PROVE RequestInv'
  BY <1>3 DEF RegisterAgent, RegisterFails
<1>4. ASSUME NEW j \in Jobs, SpawnJob(j) PROVE RequestInv'
  BY <1>4 DEF SpawnJob
<1>5. ASSUME NEW j \in Jobs, BeginJob(j) \/ RunReturns(j) PROVE RequestInv'
  BY <1>5 DEF BeginJob, RunReturns
<1>6. ASSUME NEW j \in Jobs, ClearController(j) PROVE RequestInv'
  BY <1>6 DEF ClearController
<1>7. ASSUME NEW j \in Jobs,
             WatcherStarts(j) \/ WatcherCollects(j) \/ WatcherWrites(j) \/ WatcherStops(j)
      PROVE  RequestInv'
  BY <1>7 DEF WatcherStarts, WatcherCollects, WatcherWrites, WatcherStops
<1>8. ASSUME NEW s \in Sockets, SocketStep(s) PROVE RequestInv'
  BY <1>8 DEF SocketStep, Connect, ReadStatus, SendStatus, SendFails
<1>9. CASE HandleMasterExit \/ Restart \/ UNCHANGED vars
  BY <1>9 DEF HandleMasterExit, Restart, vars
<1>10. CASE ProcessEnds
  BY <1>10 DEF ProcessEnds
<1>. QED
  BY <1>1, <1>2, <1>3, <1>4, <1>5, <1>6, <1>7, <1>8, <1>9, <1>10 DEF Next, HandlerStep, JobStep

\* The double-checked lock admits one job at a time.
LEMMA OneJobStep ==
    ASSUME TypeOK, DownInv, RequestInv, OneJobWithItsController, [Next]_vars
    PROVE  OneJobWithItsController'
<1> USE ServiceAssumption
    DEF OneJobWithItsController, Active, RequestInv, TypeOK, InHandler, Refused, Goto,
        procVars, jobVars, reqVars
<1>1. ASSUME NEW j \in Jobs, ParseJob(j) \/ CheckIdle(j) PROVE OneJobWithItsController'
  <2>1. \A k \in Jobs : req'[k] = "registering" \/ req'[k] = "created" => req'[k] = req[k]
    BY <1>1 DEF ParseJob, CheckIdle
  <2>2. UNCHANGED <<ctl, live, phase>>
    BY <1>1 DEF ParseJob, CheckIdle
  <2>. QED  BY <2>1, <2>2
<1>2. ASSUME NEW j \in Jobs, InstallController(j) PROVE OneJobWithItsController'
  <2>1. CASE ctl # None  BY <1>2, <2>1 DEF InstallController
  <2>2. CASE ctl = None
    <3>1. \A k \in Jobs : ~Active(k)
      BY <2>2
    <3>2. \A k \in Jobs \ {j} : ~Active(k)'
      BY <1>2, <2>2, <3>1 DEF InstallController
    <3>3. ctl' = j
      BY <1>2, <2>2 DEF InstallController
    <3>. QED  BY <3>2, <3>3
  <2>. QED  BY <2>1, <2>2
<1>3. ASSUME NEW j \in Jobs, RegisterAgent(j) \/ RegisterFails(j) PROVE OneJobWithItsController'
  BY <1>3 DEF RegisterAgent, RegisterFails
<1>4. ASSUME NEW j \in Jobs, SpawnJob(j) PROVE OneJobWithItsController'
  BY <1>4 DEF SpawnJob
<1>5. ASSUME NEW j \in Jobs, BeginJob(j) \/ RunReturns(j) PROVE OneJobWithItsController'
  BY <1>5 DEF BeginJob, RunReturns
<1>6. ASSUME NEW j \in Jobs, ClearController(j) PROVE OneJobWithItsController'
  <2>1. \A k \in Jobs \ {j} : ~Active(k)
    BY <1>6 DEF ClearController
  <2>2. \A k \in Jobs : ~Active(k)'
    BY <1>6, <2>1 DEF ClearController
  <2>. QED  BY <2>2
<1>7. ASSUME NEW j \in Jobs,
             WatcherStarts(j) \/ WatcherCollects(j) \/ WatcherWrites(j) \/ WatcherStops(j)
      PROVE  OneJobWithItsController'
  BY <1>7 DEF WatcherStarts, WatcherCollects, WatcherWrites, WatcherStops
<1>8. ASSUME NEW s \in Sockets, SocketStep(s) PROVE OneJobWithItsController'
  BY <1>8 DEF SocketStep, Connect, ReadStatus, SendStatus, SendFails
<1>9. CASE HandleMasterExit \/ UNCHANGED vars
  BY <1>9 DEF HandleMasterExit, vars
<1>10. CASE ProcessEnds
  BY <1>10 DEF ProcessEnds
<1>11. CASE Restart
  BY <1>11 DEF Restart, DownInv
<1>. QED
  BY <1>1, <1>2, <1>3, <1>4, <1>5, <1>6, <1>7, <1>8, <1>9, <1>10, <1>11
  DEF Next, HandlerStep, JobStep

\* The writer is installed with the controller.
LEMMA WriterStep ==
    ASSUME TypeOK, StatusOfCurrentJob, [Next]_vars
    PROVE  StatusOfCurrentJob'
<1> USE ServiceAssumption DEF StatusOfCurrentJob, TypeOK, Goto, procVars, jobVars, reqVars
<1>1. ASSUME NEW j \in Jobs, ParseJob(j) \/ HandlerStep(j) PROVE StatusOfCurrentJob'
  <2>1. UNCHANGED <<up, ctl, writer>> \/ (ctl' = j /\ writer' = j)
    BY <1>1 DEF ParseJob, HandlerStep, CheckIdle, InstallController, RegisterAgent,
                RegisterFails, SpawnJob
  <2>2. CASE UNCHANGED <<up, ctl, writer>>  BY <2>2
  <2>3. CASE ctl' = j /\ writer' = j  BY <2>3
  <2>. QED  BY <2>1, <2>2, <2>3
<1>2. ASSUME NEW j \in Jobs, JobStep(j) PROVE StatusOfCurrentJob'
  BY <1>2 DEF JobStep, BeginJob, RunReturns, ClearController, WatcherStarts,
              WatcherCollects, WatcherWrites, WatcherStops
<1>3. ASSUME NEW s \in Sockets, SocketStep(s) PROVE StatusOfCurrentJob'
  BY <1>3 DEF SocketStep, Connect, ReadStatus, SendStatus, SendFails
<1>4. CASE HandleMasterExit \/ ProcessEnds \/ Restart \/ UNCHANGED vars
  BY <1>4 DEF HandleMasterExit, ProcessEnds, Restart, vars
<1>. QED  BY <1>1, <1>2, <1>3, <1>4 DEF Next

\* An installed controller has an owner, or its registration has failed.
LEMMA OwnerStep ==
    ASSUME TypeOK, RequestInv, OneJobWithItsController, ControllerIsOwned, [Next]_vars
    PROVE  ControllerIsOwned'
<1> USE ServiceAssumption
    DEF ControllerIsOwned, OneJobWithItsController, Active, RequestInv, TypeOK,
        InHandler, Refused, Goto, procVars, jobVars, reqVars
<1>1. ASSUME NEW j \in Jobs, ParseJob(j) \/ CheckIdle(j) PROVE ControllerIsOwned'
  <2>1. \A k \in Jobs : req[k] \in {"registering", "created", "failed"} => req'[k] = req[k]
    BY <1>1 DEF ParseJob, CheckIdle
  <2>2. UNCHANGED <<up, ctl, live, phase>>
    BY <1>1 DEF ParseJob, CheckIdle
  <2>. QED  BY <2>1, <2>2
<1>2. ASSUME NEW j \in Jobs, InstallController(j) PROVE ControllerIsOwned'
  <2>1. CASE ctl # None
    <3>1. \A k \in Jobs : req[k] \in {"registering", "created", "failed"} => req'[k] = req[k]
      BY <1>2, <2>1 DEF InstallController
    <3>2. UNCHANGED <<up, ctl, live, phase>>
      BY <1>2, <2>1 DEF InstallController
    <3>. QED  BY <3>1, <3>2
  <2>2. CASE ctl = None  BY <1>2, <2>2 DEF InstallController
  <2>. QED  BY <2>1, <2>2
<1>3. ASSUME NEW j \in Jobs, RegisterAgent(j) \/ RegisterFails(j) PROVE ControllerIsOwned'
  BY <1>3 DEF RegisterAgent, RegisterFails
<1>4. ASSUME NEW j \in Jobs, SpawnJob(j) PROVE ControllerIsOwned'
  BY <1>4 DEF SpawnJob
<1>5. ASSUME NEW j \in Jobs, BeginJob(j) \/ RunReturns(j) PROVE ControllerIsOwned'
  <2>1. UNCHANGED <<up, ctl, live, req>>
    BY <1>5 DEF BeginJob, RunReturns
  <2>2. \A k \in Jobs \ {j} : phase'[k] = phase[k]
    BY <1>5 DEF BeginJob, RunReturns
  <2>3. j \in live /\ phase'[j] \in {"running", "returned"} /\ phase[j] \in {"new", "running"}
    BY <1>5 DEF BeginJob, RunReturns
  <2>. QED  BY <2>1, <2>2, <2>3
<1>6. ASSUME NEW j \in Jobs, ClearController(j) PROVE ControllerIsOwned'
  BY <1>6 DEF ClearController
<1>7. ASSUME UNCHANGED <<up, ctl, req, live, phase>> PROVE ControllerIsOwned'
  BY <1>7
<1>8. ASSUME NEW j \in Jobs,
             WatcherStarts(j) \/ WatcherCollects(j) \/ WatcherWrites(j) \/ WatcherStops(j)
      PROVE  UNCHANGED <<up, ctl, req, live, phase>>
  BY <1>8 DEF WatcherStarts, WatcherCollects, WatcherWrites, WatcherStops
<1>9. ASSUME NEW s \in Sockets, SocketStep(s) PROVE UNCHANGED <<up, ctl, req, live, phase>>
  BY <1>9 DEF SocketStep, Connect, ReadStatus, SendStatus, SendFails
<1>10. CASE HandleMasterExit \/ UNCHANGED vars
  BY <1>7, <1>10 DEF HandleMasterExit, vars
<1>11. CASE ProcessEnds \/ Restart
  BY <1>11 DEF ProcessEnds, Restart
<1>. QED
  BY <1>1, <1>2, <1>3, <1>4, <1>5, <1>6, <1>7, <1>8, <1>9, <1>10, <1>11
  DEF Next, HandlerStep, JobStep

\* A job that has returned remains so.
LEMMA ReturnedStays ==
    ASSUME TypeOK, [Next]_vars, NEW j \in Jobs \cup {None}, Returned(j)
    PROVE  Returned(j)'
<1> USE DEF Returned, TypeOK, procVars, jobVars, reqVars
<1>1. ASSUME NEW k \in Jobs, ParseJob(k) \/ HandlerStep(k) PROVE UNCHANGED phase
  BY <1>1 DEF ParseJob, HandlerStep, CheckIdle, InstallController, RegisterAgent,
              RegisterFails, SpawnJob
<1>2. ASSUME NEW k \in Jobs, JobStep(k) PROVE Returned(j)'
  BY <1>2 DEF JobStep, BeginJob, RunReturns, ClearController, WatcherStarts,
              WatcherCollects, WatcherWrites, WatcherStops
<1>3. ASSUME NEW s \in Sockets, SocketStep(s) PROVE UNCHANGED phase
  BY <1>3 DEF SocketStep, Connect, ReadStatus, SendStatus, SendFails
<1>4. CASE HandleMasterExit \/ Restart \/ UNCHANGED vars
  BY <1>4 DEF HandleMasterExit, Restart, vars
<1>5. CASE ProcessEnds
  BY <1>5 DEF ProcessEnds
<1>. QED  BY <1>1, <1>2, <1>3, <1>4, <1>5 DEF Next

\* The service becomes free when a job has returned, or at its start.
LEMMA FreeStep ==
    ASSUME TypeOK, RequestInv, OneJobWithItsController, StatusOfCurrentJob, DownInv,
           FreeInv, [Next]_vars
    PROVE  FreeInv'
<1> USE ServiceAssumption DEF FreeInv, TypeOK, Goto, procVars, jobVars, reqVars
<1>1. ASSUME UNCHANGED <<up, ctl, writer>> PROVE FreeInv'
  BY <1>1, ReturnedStays
<1>2. ASSUME NEW j \in Jobs, ParseJob(j) \/ HandlerStep(j) PROVE FreeInv'
  <2>1. CASE InstallController(j) /\ ctl = None
    BY <2>1 DEF InstallController
  <2>2. CASE ~(InstallController(j) /\ ctl = None)
    <3>1. UNCHANGED <<up, ctl, writer>>
      BY <1>2, <2>2 DEF ParseJob, HandlerStep, CheckIdle, InstallController, RegisterAgent,
                        RegisterFails, SpawnJob
    <3>. QED  BY <1>1, <3>1
  <2>. QED  BY <2>1, <2>2
<1>3. ASSUME NEW j \in Jobs, ClearController(j) PROVE FreeInv'
  <2>1. up /\ ctl = j
    BY <1>3 DEF ClearController, DownInv, OneJobWithItsController, Active
  <2>2. writer' = j
    BY <1>3, <2>1 DEF ClearController, StatusOfCurrentJob
  <2>3. phase'[j] = "returned"
    BY <1>3 DEF ClearController
  <2>. QED  BY <2>2, <2>3 DEF Returned
<1>4. ASSUME NEW j \in Jobs, JobStep(j), ~ClearController(j) PROVE FreeInv'
  <2>1. UNCHANGED <<up, ctl, writer>>
    BY <1>4 DEF JobStep, BeginJob, RunReturns, WatcherStarts,
                WatcherCollects, WatcherWrites, WatcherStops
  <2>. QED  BY <1>1, <2>1
<1>5. ASSUME NEW s \in Sockets, SocketStep(s) PROVE FreeInv'
  <2>1. UNCHANGED <<up, ctl, writer>>
    BY <1>5 DEF SocketStep, Connect, ReadStatus, SendStatus, SendFails
  <2>. QED  BY <1>1, <2>1
<1>6. CASE HandleMasterExit \/ UNCHANGED vars
  BY <1>1, <1>6 DEF HandleMasterExit, vars
<1>7. CASE ProcessEnds
  BY <1>7 DEF ProcessEnds
<1>8. CASE Restart
  BY <1>8 DEF Restart, Returned
<1>. QED  BY <1>2, <1>3, <1>4, <1>5, <1>6, <1>7, <1>8 DEF Next

\* What a status handler decides under the lock remains true after it.
LEMMA FlushStep ==
    ASSUME TypeOK, DownInv, FreeInv, FlushInv, [Next]_vars
    PROVE  FlushInv'
<1> USE DEF FlushInv
<1>1. ASSUME NEW s \in Sockets
      PROVE  sock[s] \in SocketHandlers
  BY DEF TypeOK
<1>2. ASSUME UNCHANGED sock PROVE FlushInv'
  BY <1>1, <1>2, ReturnedStays DEF SocketHandlers, FlushOf
<1>3. ASSUME NEW j \in Jobs, ParseJob(j) \/ HandlerStep(j) PROVE UNCHANGED sock
  BY <1>3 DEF ParseJob, HandlerStep, CheckIdle, InstallController, RegisterAgent,
              RegisterFails, SpawnJob
<1>4. ASSUME NEW j \in Jobs, JobStep(j) PROVE UNCHANGED sock
  BY <1>4 DEF JobStep, BeginJob, RunReturns, ClearController, WatcherStarts,
              WatcherCollects, WatcherWrites, WatcherStops
<1>5. ASSUME NEW s \in Sockets, SocketStep(s) PROVE FlushInv'
  <2> SUFFICES ASSUME NEW r \in Sockets
               PROVE  FlushOf(r)'
    OBVIOUS
  <2>1. UNCHANGED phase
    BY <1>5 DEF SocketStep, Connect, ReadStatus, SendStatus, SendFails, jobVars
  <2>3. CASE r # s
    <3>1. sock'[r] = sock[r]
      BY <1>5, <2>3 DEF SocketStep, Connect, ReadStatus, SendStatus, SendFails, TypeOK
    <3>. QED  BY <2>1, <3>1 DEF FlushOf, Returned
  <2>4. CASE r = s /\ (Connect(s) \/ SendFails(s))
    <3>1. sock'[s].st \in {"waiting", "broken"}
      BY <1>1, <2>4 DEF Connect, SendFails, TypeOK, SocketHandlers
    <3>. QED  BY <2>4, <3>1 DEF FlushOf
  <2>5. CASE r = s /\ ReadStatus(s)
    <3>1. sock'[s].st = "read" /\ sock'[s].sw = writer /\ sock'[s].last = (ctl = None)
      BY <2>5 DEF ReadStatus, TypeOK
    <3>2. up
      BY <2>5 DEF ReadStatus, DownInv, TypeOK
    <3>. QED  BY <2>1, <2>5, <3>1, <3>2 DEF FreeInv, FlushOf, Returned
  <2>6. CASE r = s /\ SendStatus(s)
    <3>1. sock[s].st = "read"
      BY <2>6 DEF SendStatus
    <3>2. sock'[s].st = IF sock[s].last THEN "finished" ELSE "waiting"
      BY <2>6 DEF SendStatus, TypeOK
    <3>3. sock'[s].got.job = sock[s].sw
      BY <2>6 DEF SendStatus, TypeOK, Payload
    <3>. QED  BY <2>1, <2>6, <3>1, <3>2, <3>3 DEF FlushOf, Returned
  <2>. QED  BY <1>5, <2>3, <2>4, <2>5, <2>6 DEF SocketStep
<1>6. CASE HandleMasterExit \/ Restart \/ UNCHANGED vars
  BY <1>2, <1>6 DEF HandleMasterExit, Restart, vars
<1>7. CASE ProcessEnds
  <2> SUFFICES ASSUME NEW r \in Sockets
               PROVE  FlushOf(r)'
    OBVIOUS
  <2>1. CASE sock[r].st \in {"waiting", "read"}
    <3>1. sock'[r].st = "cut"
      BY <1>1, <1>7, <2>1 DEF ProcessEnds, SocketHandlers
    <3>. QED  BY <3>1 DEF FlushOf
  <2>2. CASE sock[r].st \notin {"waiting", "read"}
    <3>1. sock'[r] = sock[r]
      BY <1>7, <2>2 DEF ProcessEnds
    <3>. QED  BY <1>1, <3>1, ReturnedStays DEF SocketHandlers, FlushOf
  <2>. QED  BY <2>1, <2>2
<1>. QED  BY <1>2, <1>3, <1>4, <1>5, <1>6, <1>7 DEF Next

-----------------------------------------------------------------------------
\* ServiceInv is an invariant of the service.
THEOREM Inductive == Spec => []ServiceInv
<1>1. Init => ServiceInv
  <2> SUFFICES ASSUME Init PROVE DownInv /\ RequestInv /\ OneJobWithItsController
                                 /\ StatusOfCurrentJob /\ ControllerIsOwned
                                 /\ FreeInv /\ FlushInv
    BY InitType DEF ServiceInv
  <2>1. DownInv /\ RequestInv /\ OneJobWithItsController
    BY DEF Init, DownInv, RequestInv, OneJobWithItsController, Active, InHandler
  <2>2. StatusOfCurrentJob /\ ControllerIsOwned /\ FreeInv
    BY DEF Init, StatusOfCurrentJob, ControllerIsOwned, FreeInv, Returned
  <2>3. FlushInv
    BY DEF Init, FlushInv, FlushOf
  <2>. QED  BY <2>1, <2>2, <2>3
<1>2. ServiceInv /\ [Next]_vars /\ TypeOK' => ServiceInv'
  BY DownStep, RequestStep, OneJobStep, WriterStep, OwnerStep, FreeStep, FlushStep DEF ServiceInv
<1>. QED  BY <1>1, <1>2, TypeCorrect, PTL DEF Spec

\* At most one job registers its agents or runs, and the unlocked reads of
\* c.masterController find the job's own controller: however requests, jobs,
\* exits and restarts interleave.
THEOREM OneJob == Spec => []OneJobWithItsController
<1>1. ServiceInv => OneJobWithItsController
  BY DEF ServiceInv
<1>. QED  BY <1>1, Inductive, PTL

\* While a controller is installed, status is read from its job's writer.
THEOREM CurrentStatus == Spec => []StatusOfCurrentJob
<1>1. ServiceInv => StatusOfCurrentJob
  BY DEF ServiceInv
<1>. QED  BY <1>1, Inductive, PTL

\* Only a failed registration leaves a controller that no job owns.
THEOREM OwnedController == Spec => []ControllerIsOwned
<1>1. ServiceInv => ControllerIsOwned
  BY DEF ServiceInv
<1>. QED  BY <1>1, Inductive, PTL

\* A status stream ends with a job whose Run had returned: the decision is
\* taken under the lock and the snapshot read after it.
THEOREM FlushedAfterReturn == Spec => []FlushAfterReturn
<1>1. ServiceInv => FlushAfterReturn
  BY DEF ServiceInv, FlushInv, FlushOf, FlushAfterReturn, Returned
<1>. QED  BY <1>1, Inductive, PTL
-----------------------------------------------------------------------------
\* A job that has not begun has no watcher.
WatchInv == \A j \in Jobs : phase[j] = "new" => watch[j] = "none"

\* WatchInv is an invariant of the service.
LEMMA WatchStep ==
    ASSUME ServiceInv, WatchInv, [Next]_vars
    PROVE  WatchInv'
<1>1. TypeOK /\ RequestInv
  BY DEF ServiceInv
<1>2. ASSUME NEW j \in Jobs, ParseJob(j) \/ HandlerStep(j) \/ ClearController(j)
      PROVE  WatchInv'
  BY <1>2 DEF WatchInv, ParseJob, HandlerStep, CheckIdle, InstallController, RegisterAgent,
              RegisterFails, SpawnJob, ClearController, jobVars
<1>3. ASSUME NEW j \in Jobs, BeginJob(j) \/ RunReturns(j)
      PROVE  WatchInv'
  BY <1>1, <1>3 DEF WatchInv, TypeOK, BeginJob, RunReturns
<1>4. ASSUME NEW j \in Jobs,
             WatcherStarts(j) \/ WatcherCollects(j) \/ WatcherWrites(j) \/ WatcherStops(j)
      PROVE  WatchInv'
  BY <1>1, <1>4 DEF WatchInv, TypeOK, WatcherStarts, WatcherCollects, WatcherWrites, WatcherStops
<1>5. ASSUME NEW s \in Sockets, SocketStep(s)
      PROVE  WatchInv'
  BY <1>5 DEF WatchInv, SocketStep, Connect, ReadStatus, SendStatus, SendFails, jobVars
<1>6. CASE HandleMasterExit \/ Restart \/ UNCHANGED vars
  BY <1>6 DEF WatchInv, HandleMasterExit, Restart, vars, jobVars
<1>7. CASE ProcessEnds
  BY <1>1, <1>7 DEF WatchInv, ProcessEnds, TypeOK
<1>. QED  BY <1>2, <1>3, <1>4, <1>5, <1>6, <1>7 DEF Next, JobStep

\* What a step of the service does to a job is a step of its JobRun, or none.
LEMMA RunStep ==
    ASSUME ServiceInv, WatchInv, [Next]_vars, NEW k \in Jobs
    PROVE  [RunOf(k)!Next]_(RunOf(k)!vars)
<1>1. TypeOK /\ RequestInv
  BY DEF ServiceInv
<1>2. CASE phase' = phase /\ watch' = watch /\ shown' = shown
  BY <1>2 DEF RunOf!vars
<1>3. ASSUME NEW j \in Jobs, ParseJob(j) \/ HandlerStep(j) \/ ClearController(j)
      PROVE  phase' = phase /\ watch' = watch /\ shown' = shown
  BY <1>3 DEF ParseJob, HandlerStep, CheckIdle, InstallController, RegisterAgent,
              RegisterFails, SpawnJob, ClearController, jobVars
<1>4. ASSUME NEW s \in Sockets, SocketStep(s)
      PROVE  phase' = phase /\ watch' = watch /\ shown' = shown
  BY <1>4 DEF SocketStep, Connect, ReadStatus, SendStatus, SendFails, jobVars
<1>5. CASE HandleMasterExit \/ Restart \/ UNCHANGED vars
  BY <1>2, <1>5 DEF HandleMasterExit, Restart, vars, jobVars
<1>6. ASSUME NEW j \in Jobs, BeginJob(j)
      PROVE  [RunOf(k)!Next]_(RunOf(k)!vars)
  BY <1>1, <1>6 DEF TypeOK, BeginJob, RunOf!Next, RunOf!vars, RunOf!Begin
<1>7. ASSUME NEW j \in Jobs, RunReturns(j)
      PROVE  [RunOf(k)!Next]_(RunOf(k)!vars)
  BY <1>1, <1>7 DEF TypeOK, RunReturns, RunOf!Next, RunOf!vars, RunOf!Finish
<1>8. ASSUME NEW j \in Jobs, WatcherStarts(j)
      PROVE  [RunOf(k)!Next]_(RunOf(k)!vars)
  BY <1>1, <1>8 DEF TypeOK, WatcherStarts, RunOf!Next, RunOf!vars, RunOf!StartWatching
<1>9. ASSUME NEW j \in Jobs, j \in live, watch[j] # "none"
      PROVE  phase[j] \in {"running", "returned"}
  BY <1>1, <1>9 DEF TypeOK, RequestInv, WatchInv
<1>10. ASSUME NEW j \in Jobs, WatcherCollects(j)
       PROVE  [RunOf(k)!Next]_(RunOf(k)!vars)
  <2>1. phase[j] \in {"running", "returned"}
    BY <1>9, <1>10 DEF WatcherCollects
  <2>. QED  BY <1>1, <1>10, <2>1 DEF TypeOK, WatcherCollects, RunOf!Next, RunOf!vars, RunOf!Collect
<1>11. ASSUME NEW j \in Jobs, WatcherWrites(j)
       PROVE  [RunOf(k)!Next]_(RunOf(k)!vars)
  <2>1. phase[j] \in {"running", "returned"}
    BY <1>9, <1>11 DEF WatcherWrites
  <2>. QED  BY <1>1, <1>11, <2>1 DEF TypeOK, WatcherWrites, RunOf!Next, RunOf!vars, RunOf!WriteSnapshot
<1>12. ASSUME NEW j \in Jobs, WatcherStops(j)
       PROVE  [RunOf(k)!Next]_(RunOf(k)!vars)
  <2>1. phase[j] \in {"running", "returned"}
    BY <1>9, <1>12 DEF WatcherStops
  <2>. QED  BY <1>1, <1>12, <2>1 DEF TypeOK, WatcherStops, RunOf!Next, RunOf!vars, RunOf!StopWatching
<1>13. CASE ProcessEnds
  BY <1>1, <1>13 DEF TypeOK, ProcessEnds, RunOf!Next, RunOf!vars, RunOf!Die
<1>. QED
  BY <1>2, <1>3, <1>4, <1>5, <1>6, <1>7, <1>8, <1>10, <1>11, <1>12, <1>13 DEF Next, JobStep

\* Every job goes through a behaviour of JobRun, however requests, other jobs,
\* exits and restarts of the process interleave with it.
THEOREM JobsImplementJobRun == Spec => JobsFollowJobRun
<1>1. Init => \A j \in Jobs : RunOf(j)!Init
  BY DEF Init, RunOf!Init
<1>2. Init => WatchInv
  BY DEF Init, WatchInv
<1>3. ServiceInv /\ WatchInv /\ [Next]_vars => WatchInv'
  BY WatchStep
<1>4. ServiceInv /\ WatchInv /\ [Next]_vars => \A j \in Jobs : [RunOf(j)!Next]_(RunOf(j)!vars)
  BY RunStep
<1>. QED  BY <1>1, <1>2, <1>3, <1>4, Inductive, PTL DEF Spec, JobsFollowJobRun
=============================================================================
