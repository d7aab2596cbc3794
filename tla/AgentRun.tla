------------------------------ MODULE AgentRun ------------------------------
(***************************************************************************)
(* One call of AgentController.Run on one agent (agent/agent_controller.go) *)
(*                                                                         *)
(* Run executes the job's phases one after the other.  In a phase,         *)
(* runPhase starts one launcher goroutine per entry of job.SessionNames;   *)
(* a launcher starts user goroutines (executeSession) as long as its       *)
(* channel sessUserChan has a free slot and its phase timer has not been   *)
(* taken, then waits for its users (wg) and reports to runPhase (swg).     *)
(*                                                                         *)
(* A "crew" <<p, s>> is the launcher of session entry s in phase p with    *)
(* its channel, its timer, its WaitGroup and its users.  The channel and   *)
(* the WaitGroup are created anew in every phase, so every crew has its    *)
(* own.  Users of a crew are interchangeable: the model counts how many    *)
(* of them stand at each statement of executeSession.                      *)
(***************************************************************************)
EXTENDS Integers, FiniteSets

CONSTANTS
    NumPhases,    \* len(args.Job.Phases)
    NumSessions,  \* len(job.SessionNames)
    Quota,        \* Quota[c]: this agent's share, getSessionUsers, for crew c
    MaxUndone     \* bound: goroutines of a crew that have yet to call wg.Done

Sessions == 1..NumSessions
Crews == (1..NumPhases) \X Sessions

ASSUME AgentRunAssumption ==
    /\ NumPhases \in Nat
    /\ NumSessions \in Nat
    /\ Quota \in [Crews -> Nat]
    /\ MaxUndone \in Nat

VARIABLES
    pc,         \* control of Run/runPhase: "phases", "sessions", "returned", "dead"
    phase,      \* the phase Run is in, 0 before the first
    next,       \* the next entry of job.SessionNames runPhase will start
    swg,        \* counter of runPhase's WaitGroup
    runnable,   \* the job's entries with a percentage and a registered session
    launcher,   \* control of each launcher goroutine
    timer,      \* the channel `after' of each crew
    slots,      \* tokens in each crew's sessUserChan
    wg,         \* counter of each crew's WaitGroup
    started,    \* users spawned, before shortid.Generate returns
    executing,  \* users in session.Execute
    sleeping,   \* users in the five seconds' sleep after an error
    finished,   \* users about to receive from their channel
    released,   \* users past the receive, about to call wg.Done
    lost        \* users that returned early because they got no uid

userVars == <<started, executing, sleeping, finished, released, lost>>
crewVars == <<launcher, timer, slots, wg>>
runVars  == <<pc, phase, next, swg, runnable>>
vars     == <<runVars, crewVars, userVars>>

LauncherStates == {"none", "select", "waiting", "done"}
TimerStates    == {"off", "running", "fired", "taken"}
RunStates      == {"phases", "sessions", "returned", "dead"}

(***************************************************************************)
(* The type invariant.  The WaitGroup counters are integers: Go panics     *)
(* when one becomes negative, and that it does not is to be shown.         *)
(***************************************************************************)
TypeOK ==
    /\ pc \in RunStates
    /\ phase \in 0..NumPhases
    /\ next \in 1..(NumSessions + 1)
    /\ swg \in Int
    /\ runnable \subseteq Sessions
    /\ launcher \in [Crews -> LauncherStates]
    /\ timer \in [Crews -> TimerStates]
    /\ slots \in [Crews -> Nat]
    /\ wg \in [Crews -> Int]
    /\ started \in [Crews -> Nat]
    /\ executing \in [Crews -> Nat]
    /\ sleeping \in [Crews -> Nat]
    /\ finished \in [Crews -> Nat]
    /\ released \in [Crews -> Nat]
    /\ lost \in [Crews -> Nat]

Init ==
    /\ pc = "phases"
    /\ phase = 0
    /\ next = NumSessions + 1
    /\ swg = 0
    /\ runnable \in SUBSET Sessions
    /\ launcher = [c \in Crews |-> "none"]
    /\ timer = [c \in Crews |-> "off"]
    /\ slots = [c \in Crews |-> 0]
    /\ wg = [c \in Crews |-> 0]
    /\ started = [c \in Crews |-> 0]
    /\ executing = [c \in Crews |-> 0]
    /\ sleeping = [c \in Crews |-> 0]
    /\ finished = [c \in Crews |-> 0]
    /\ released = [c \in Crews |-> 0]
    /\ lost = [c \in Crews |-> 0]

\* The agent process runs: log.Fatalln and a panic end every goroutine of it.
Alive == pc # "dead"

\* Users of crew c between their launch and the release of their slot.
InFlight(c) == started[c] + executing[c] + sleeping[c] + finished[c]

\* Users of crew c that still owe a wg.Done, the lost ones included.
Undone(c) == InFlight(c) + released[c] + lost[c]

Inc(f, c) == [f EXCEPT ![c] = @ + 1]
Dec(f, c) == [f EXCEPT ![c] = @ - 1]

-----------------------------------------------------------------------------
(***************************************************************************)
(* The goroutine of the Run call.                                          *)
(***************************************************************************)

\* The loop over Job.Phases: into runPhase, whose first statement is
\* swg.Add(len(job.SessionNames)).
EnterPhase ==
    /\ pc = "phases"
    /\ phase < NumPhases
    /\ pc' = "sessions"
    /\ phase' = phase + 1
    /\ next' = 1
    /\ swg' = NumSessions
    /\ UNCHANGED <<runnable, crewVars, userVars>>

Return ==
    /\ pc = "phases"
    /\ phase = NumPhases
    /\ pc' = "returned"
    /\ UNCHANGED <<phase, next, swg, runnable, crewVars, userVars>>

\* One iteration of runPhase's loop: the timer starts, the launcher is spawned.
SpawnLauncher ==
    /\ pc = "sessions"
    /\ next \in runnable
    /\ launcher' = [launcher EXCEPT ![<<phase, next>>] = "select"]
    /\ timer' = [timer EXCEPT ![<<phase, next>>] = "running"]
    /\ next' = next + 1
    /\ UNCHANGED <<pc, phase, swg, runnable, slots, wg, userVars>>

\* An entry without a percentage (index out of range) or without a registered
\* session (log.Fatalln) takes the whole agent process down.
DieOnBadEntry ==
    /\ pc = "sessions"
    /\ next \in Sessions \ runnable
    /\ pc' = "dead"
    /\ UNCHANGED <<phase, next, swg, runnable, crewVars, userVars>>

\* Faulty variant: runPhase returns once every launcher has been started.
LeavePhaseWithoutWait ==
    /\ pc = "sessions"
    /\ next > NumSessions
    /\ pc' = "phases"
    /\ UNCHANGED <<phase, next, swg, runnable, crewVars, userVars>>

\* swg.Wait returns, and with it runPhase.
LeavePhase ==
    /\ pc = "sessions"
    /\ next > NumSessions
    /\ swg = 0
    /\ pc' = "phases"
    /\ UNCHANGED <<phase, next, swg, runnable, crewVars, userVars>>

-----------------------------------------------------------------------------
(***************************************************************************)
(* The launcher goroutine of a crew, and its timer.                        *)
(***************************************************************************)

\* time.After(phase.GetDuration()) puts its value in the channel.
TimerFires(c) ==
    /\ Alive
    /\ timer[c] = "running"
    /\ timer' = [timer EXCEPT ![c] = "fired"]
    /\ UNCHANGED <<runVars, launcher, slots, wg, userVars>>

\* The select takes the send.  It may do so after the timer has fired too: a
\* select with two ready cases picks either.  With a share of zero the channel
\* is unbuffered and has no receiver: the send is never ready.  The share
\* bounds the tokens, not the goroutines: users that have given their token
\* back and not yet called wg.Done can pile up, so the model bounds them.
LaunchUser(c) ==
    /\ Alive
    /\ launcher[c] = "select"
    /\ slots[c] < Quota[c]
    /\ Undone(c) < MaxUndone
    /\ slots' = Inc(slots, c)
    /\ wg' = Inc(wg, c)
    /\ started' = Inc(started, c)
    /\ UNCHANGED <<runVars, launcher, timer,
                   executing, sleeping, finished, released, lost>>

\* The select takes the timer; the deferred wg.Wait begins.
StopLaunching(c) ==
    /\ Alive
    /\ launcher[c] = "select"
    /\ timer[c] = "fired"
    /\ launcher' = [launcher EXCEPT ![c] = "waiting"]
    /\ timer' = [timer EXCEPT ![c] = "taken"]
    /\ UNCHANGED <<runVars, slots, wg, userVars>>

\* wg.Wait returns, swg.Done is called and the goroutine ends.
LauncherDone(c) ==
    /\ Alive
    /\ launcher[c] = "waiting"
    /\ wg[c] = 0
    /\ launcher' = [launcher EXCEPT ![c] = "done"]
    /\ swg' = swg - 1
    /\ UNCHANGED <<pc, phase, next, runnable, timer, slots, wg, userVars>>

-----------------------------------------------------------------------------
(***************************************************************************)
(* executeSession, the goroutine of one user of a crew.                    *)
(***************************************************************************)

\* shortid.Generate fails: an early return past `<-done' and wg.Done.
UidFails(c) ==
    /\ Alive
    /\ started[c] > 0
    /\ started' = Dec(started, c)
    /\ lost' = Inc(lost, c)
    /\ UNCHANGED <<runVars, crewVars, executing, sleeping, finished, released>>

\* Faulty variant: the slot is given back when Execute begins.
BeginExecuteReleasing(c) ==
    /\ Alive
    /\ started[c] > 0
    /\ started' = Dec(started, c)
    /\ executing' = Inc(executing, c)
    /\ slots' = Dec(slots, c)
    /\ UNCHANGED <<runVars, launcher, timer, wg, sleeping, finished, released, lost>>

BeginExecute(c) ==
    /\ Alive
    /\ started[c] > 0
    /\ started' = Dec(started, c)
    /\ executing' = Inc(executing, c)
    /\ UNCHANGED <<runVars, crewVars, sleeping, finished, released, lost>>

ExecuteSucceeds(c) ==
    /\ Alive
    /\ executing[c] > 0
    /\ executing' = Dec(executing, c)
    /\ finished' = Inc(finished, c)
    /\ UNCHANGED <<runVars, crewVars, started, sleeping, released, lost>>

\* Faulty variant: the error path gives the slot back as well.
ExecuteFailsReleasing(c) ==
    /\ Alive
    /\ executing[c] > 0
    /\ executing' = Dec(executing, c)
    /\ sleeping' = Inc(sleeping, c)
    /\ slots' = Dec(slots, c)
    /\ UNCHANGED <<runVars, launcher, timer, wg, started, finished, released, lost>>

ExecuteFails(c) ==
    /\ Alive
    /\ executing[c] > 0
    /\ executing' = Dec(executing, c)
    /\ sleeping' = Inc(sleeping, c)
    /\ UNCHANGED <<runVars, crewVars, started, finished, released, lost>>

\* Nothing recovers a panic of a session's Execute: the process ends.
ExecutePanics(c) ==
    /\ Alive
    /\ executing[c] > 0
    /\ pc' = "dead"
    /\ UNCHANGED <<phase, next, swg, runnable, crewVars, userVars>>

\* Faulty variant: the error path returns past `<-done' and wg.Done.
WakeUpReturning(c) ==
    /\ Alive
    /\ sleeping[c] > 0
    /\ sleeping' = Dec(sleeping, c)
    /\ UNCHANGED <<runVars, crewVars, started, executing, finished, released, lost>>

\* The five seconds after an error are over.
WakeUp(c) ==
    /\ Alive
    /\ sleeping[c] > 0
    /\ sleeping' = Dec(sleeping, c)
    /\ finished' = Inc(finished, c)
    /\ UNCHANGED <<runVars, crewVars, started, executing, released, lost>>

\* `<-done': blocks while the channel is empty.
ReleaseSlot(c) ==
    /\ Alive
    /\ finished[c] > 0
    /\ slots[c] > 0
    /\ slots' = Dec(slots, c)
    /\ finished' = Dec(finished, c)
    /\ released' = Inc(released, c)
    /\ UNCHANGED <<runVars, launcher, timer, wg, started, executing, sleeping, lost>>

\* Faulty variant: wg.Done is called twice.
UserDoneTwice(c) ==
    /\ Alive
    /\ released[c] > 0
    /\ released' = Dec(released, c)
    /\ wg' = [wg EXCEPT ![c] = @ - 2]
    /\ UNCHANGED <<runVars, launcher, timer, slots,
                   started, executing, sleeping, finished, lost>>

UserDone(c) ==
    /\ Alive
    /\ released[c] > 0
    /\ released' = Dec(released, c)
    /\ wg' = Dec(wg, c)
    /\ UNCHANGED <<runVars, launcher, timer, slots,
                   started, executing, sleeping, finished, lost>>

-----------------------------------------------------------------------------
RunStep == EnterPhase \/ SpawnLauncher \/ DieOnBadEntry \/ LeavePhase \/ Return

LauncherStep(c) ==
    TimerFires(c) \/ LaunchUser(c) \/ StopLaunching(c) \/ LauncherDone(c)

UserStep(c) ==
    \/ UidFails(c) \/ BeginExecute(c)
    \/ ExecuteSucceeds(c) \/ ExecuteFails(c) \/ ExecutePanics(c)
    \/ WakeUp(c) \/ ReleaseSlot(c) \/ UserDone(c)

Next == RunStep \/ \E c \in Crews : LauncherStep(c) \/ UserStep(c)

(***************************************************************************)
(* Goroutines that can run do run, timers fire, and session.Execute        *)
(* returns (what the sessions owe the agent).  A fired timer stays ready   *)
(* until it is taken, and Go's select picks at random among ready cases:   *)
(* hence weak fairness of StopLaunching, and none of LaunchUser.           *)
(***************************************************************************)
Fairness ==
    /\ WF_vars(RunStep)
    /\ \A c \in Crews :
        /\ WF_vars(TimerFires(c))
        /\ WF_vars(StopLaunching(c))
        /\ WF_vars(LauncherDone(c))
        /\ WF_vars(UidFails(c) \/ BeginExecute(c))
        /\ WF_vars(ExecuteSucceeds(c) \/ ExecuteFails(c) \/ ExecutePanics(c))
        /\ WF_vars(WakeUp(c))
        /\ WF_vars(ReleaseSlot(c))
        /\ WF_vars(UserDone(c))

Spec == Init /\ [][Next]_vars
FairSpec == Spec /\ Fairness

-----------------------------------------------------------------------------
(***************************************************************************)
(* Properties.                                                             *)
(***************************************************************************)

\* runPhase has returned for the phase of crew c.
PhaseOver(c) == c[1] < phase \/ (c[1] = phase /\ pc \in {"phases", "returned"})

\* The users of one session that an agent runs at any time are at most the
\* share getSessionUsers gave it: sessUserChan works as a semaphore whatever
\* the order in which users fail, sleep, release and finish.
InFlightWithinQuota == \A c \in Crews : InFlight(c) <= Quota[c]

\* `<-done' never blocks a user that has executed: its own token, or one just
\* like it, is still in the channel.
ReleaseNeverBlocks == \A c \in Crews : finished[c] > 0 => slots[c] > 0

\* Each WaitGroup counter is the number of goroutines it stands for (so none
\* becomes negative, which panics, and no Wait returns early).
WaitGroupsCount ==
    /\ \A c \in Crews : wg[c] = Undone(c)
    /\ pc = "sessions" => swg = Cardinality({s \in Sessions : launcher[<<phase, s>>] # "done"})

\* Phases are sequential: when runPhase has returned, no user of that phase
\* and no launcher of it is left, and those of later phases have not begun.
PhasesDoNotOverlap ==
    \A c \in Crews :
        /\ PhaseOver(c) => launcher[c] = "done" /\ Undone(c) = 0
        /\ c[1] > phase => launcher[c] = "none" /\ Undone(c) = 0

\* A user that got no uid keeps its launcher, hence its phase, from ever ending.
LostUserBlocksPhase == \A c \in Crews : lost[c] > 0 => launcher[c] # "done"

\* Run ends (or the process dies) unless some user gets no uid.
RunEnds == <>(pc \in {"returned", "dead"} \/ \E c \in Crews : lost[c] > 0)
=============================================================================
