------------------------------- MODULE Master -------------------------------
(***************************************************************************)
(* One call of MasterController.Run (master/master_controller.go) with the *)
(* goroutines it starts and the agents it talks to over net/rpc.           *)
(*                                                                         *)
(* Run sets every agent up, starts one goroutine per agent that calls the  *)
(* agent's Run, starts the watcher, waits for the calls, closes the stop   *)
(* channel, collects the counters once more and writes the last snapshot.  *)
(* The watcher collects and writes a snapshot at every tick of one second. *)
(* Nobody waits for the watcher.                                           *)
(*                                                                         *)
(* The data is abstracted to one counter per agent that only grows during  *)
(* a run (the sessions' "completed" counters), and to the time since       *)
(* job.StartTime in half seconds, which is what separates the guard of     *)
(* AggregateCounters from its divisor.  The writer is the one the service  *)
(* reads back, MemorySnapshotWriter: it keeps the last snapshot.           *)
(***************************************************************************)
EXTENDS Integers, FiniteSets, FiniteSetsExt

CONSTANTS
    NumAgents,    \* len(c.Agents)
    MaxWork,      \* bound: sessions an agent completes in this job
    MaxLeftover,  \* bound: what a counter may hold from an earlier job
    MaxClock,     \* bound: half seconds after which the clock is not followed
    Aggregates    \* some session of the job is a CounterAggregator (http:get)

Agents == 1..NumAgents

ASSUME MasterAssumption ==
    /\ NumAgents \in Nat
    /\ MaxWork \in Nat
    /\ MaxLeftover \in Nat
    /\ MaxClock \in Nat /\ MaxClock >= 2
    /\ Aggregates \in BOOLEAN

VARIABLES
    pc,       \* control of Run: "start", "setup", "running", "final", "returned", "dead"
    setup,    \* the Setup call of each agent
    run,      \* the Run call of each agent
    link,     \* the RPC connection to each agent
    cnt,      \* the counter on each agent
    work,     \* what each agent has done for this job
    watcher,  \* control of watchCounters
    tick,     \* a tick waits in the ticker's channel
    ticker,   \* half seconds since the ticker last fired
    stop,     \* stopWatchCounterChan is closed
    clock,    \* half seconds since job.StartTime
    col,      \* the collectCounters call of "watch" and of "final"
    snap      \* the snapshot the writer holds

agentVars == <<setup, run, link, cnt, work>>
timeVars  == <<tick, ticker, clock>>
vars      == <<pc, agentVars, watcher, timeVars, stop, col, snap>>

Collectors == {"watch", "final"}
CallStates == {"none", "calling", "handled", "finished", "returned"}

\* A collection: the next agent to ask, the sum so far, the agents that failed
\* to answer, and whether the derived counters have been added.
Collections == [at : 0..(NumAgents + 1), sum : Nat, missed : SUBSET Agents, aggregated : BOOLEAN]
Snapshots   == [by : Collectors \cup {"nobody"}, sum : Nat, missed : SUBSET Agents]

Idle  == [at |-> 0, sum |-> 0, missed |-> {}, aggregated |-> FALSE]
Fresh == [at |-> 1, sum |-> 0, missed |-> {}, aggregated |-> FALSE]

SumOver(f, S) == MapThenSumSet(LAMBDA a : f[a], S)
Total(f)      == SumOver(f, Agents)

\* The master process runs: log.Fatalln and panics end all its goroutines.
Alive == pc # "dead"

Init ==
    /\ pc = "start"
    /\ setup = [a \in Agents |-> "none"]
    /\ run = [a \in Agents |-> "none"]
    /\ link = [a \in Agents |-> "up"]
    /\ cnt \in [Agents -> 0..MaxLeftover]
    /\ work = [a \in Agents |-> 0]
    /\ watcher = "none"
    /\ tick = FALSE
    /\ ticker = 0
    /\ stop = FALSE
    /\ clock = 0
    /\ col = [w \in Collectors |-> Idle]
    /\ snap = [by |-> "nobody", sum |-> 0, missed |-> {}]

-----------------------------------------------------------------------------
(***************************************************************************)
(* setupAllAgents.                                                         *)
(***************************************************************************)

\* job.StartTime is taken and a goroutine per agent calls Setup.
Start ==
    /\ pc = "start"
    /\ pc' = "setup"
    /\ setup' = [a \in Agents |-> "calling"]
    /\ UNCHANGED <<run, link, cnt, work, watcher, timeVars, stop, col, snap>>

\* Faulty variant: Setup leaves the counters as they are.
HandleSetupKeeping(a) ==
    /\ Alive
    /\ setup[a] = "calling"
    /\ link[a] = "up"
    /\ setup' = [setup EXCEPT ![a] = "handled"]
    /\ UNCHANGED <<pc, run, link, cnt, work, watcher, timeVars, stop, col, snap>>

\* The agent executes AgentController.Setup: the sessions' counters restart.
HandleSetup(a) ==
    /\ Alive
    /\ setup[a] = "calling"
    /\ link[a] = "up"
    /\ cnt' = [cnt EXCEPT ![a] = 0]
    /\ setup' = [setup EXCEPT ![a] = "handled"]
    /\ UNCHANGED <<pc, run, link, work, watcher, timeVars, stop, col, snap>>

\* The reply arrives; the goroutine calls wg.Done.
SetupReturns(a) ==
    /\ Alive
    /\ setup[a] = "handled"
    /\ link[a] = "up"
    /\ setup' = [setup EXCEPT ![a] = "returned"]
    /\ UNCHANGED <<pc, run, link, cnt, work, watcher, timeVars, stop, col, snap>>

\* A session's Setup fails, or the connection does: log.Fatalln.
SetupFails(a) ==
    /\ Alive
    /\ setup[a] = "calling" \/ (setup[a] = "handled" /\ link[a] = "down")
    /\ pc' = "dead"
    /\ UNCHANGED <<agentVars, watcher, timeVars, stop, col, snap>>

-----------------------------------------------------------------------------
(***************************************************************************)
(* The calls of AgentController.Run, and the agents.                       *)
(***************************************************************************)

\* Faulty variant: the run calls are started while Setup calls are under way.
SpawnRunsEarly ==
    /\ pc = "setup"
    /\ \E a \in Agents : setup[a] = "returned"
    /\ pc' = "running"
    /\ run' = [a \in Agents |-> "calling"]
    /\ watcher' = "select"
    /\ ticker' = 0
    /\ UNCHANGED <<setup, link, cnt, work, tick, clock, stop, col, snap>>

\* Faulty variant: the watcher collects at once instead of at its first tick.
SpawnRunsTicking ==
    /\ pc = "setup"
    /\ \A a \in Agents : setup[a] = "returned"
    /\ pc' = "running"
    /\ run' = [a \in Agents |-> "calling"]
    /\ watcher' = "select"
    /\ ticker' = 0
    /\ tick' = TRUE
    /\ UNCHANGED <<setup, link, cnt, work, clock, stop, col, snap>>

\* setupAllAgents' wg.Wait returns; the goroutines of the calls and the
\* watcher are started, and with the watcher its ticker.
SpawnRuns ==
    /\ pc = "setup"
    /\ \A a \in Agents : setup[a] = "returned"
    /\ pc' = "running"
    /\ run' = [a \in Agents |-> "calling"]
    /\ watcher' = "select"
    /\ ticker' = 0
    /\ UNCHANGED <<setup, link, cnt, work, tick, clock, stop, col, snap>>

\* The agent begins to execute Run.
HandleRun(a) ==
    /\ Alive
    /\ run[a] = "calling"
    /\ link[a] = "up"
    /\ run' = [run EXCEPT ![a] = "handled"]
    /\ UNCHANGED <<pc, setup, link, cnt, work, watcher, timeVars, stop, col, snap>>

\* A user of the agent completes its session.
CompleteSession(a) ==
    /\ Alive
    /\ run[a] = "handled"
    /\ work[a] < MaxWork
    /\ cnt' = [cnt EXCEPT ![a] = @ + 1]
    /\ work' = [work EXCEPT ![a] = @ + 1]
    /\ UNCHANGED <<pc, setup, run, link, watcher, timeVars, stop, col, snap>>

\* Run returns on the agent (AgentRun says when it does).
FinishRun(a) ==
    /\ Alive
    /\ run[a] = "handled"
    /\ run' = [run EXCEPT ![a] = "finished"]
    /\ UNCHANGED <<pc, setup, link, cnt, work, watcher, timeVars, stop, col, snap>>

\* The answer arrives; the goroutine calls wg.Done.
RunReturns(a) ==
    /\ Alive
    /\ run[a] = "finished"
    /\ link[a] = "up"
    /\ run' = [run EXCEPT ![a] = "returned"]
    /\ UNCHANGED <<pc, setup, link, cnt, work, watcher, timeVars, stop, col, snap>>

\* Faulty variant: the error path returns past wg.Done.
RunFailsSilently(a) ==
    /\ Alive
    /\ run[a] \in {"calling", "handled", "finished"}
    /\ link[a] = "down"
    /\ run' = [run EXCEPT ![a] = "none"]
    /\ UNCHANGED <<pc, setup, link, cnt, work, watcher, timeVars, stop, col, snap>>

\* The call fails with the connection: the error is logged, then wg.Done.
RunFails(a) ==
    /\ Alive
    /\ run[a] \in {"calling", "handled", "finished"}
    /\ link[a] = "down"
    /\ run' = [run EXCEPT ![a] = "returned"]
    /\ UNCHANGED <<pc, setup, link, cnt, work, watcher, timeVars, stop, col, snap>>

\* The agent dies or the connection breaks.  An rpc.Client does not reconnect:
\* every pending and later call on it fails.
LinkBreaks(a) ==
    /\ Alive
    /\ link[a] = "up"
    /\ link' = [link EXCEPT ![a] = "down"]
    /\ UNCHANGED <<pc, setup, run, cnt, work, watcher, timeVars, stop, col, snap>>

-----------------------------------------------------------------------------
(***************************************************************************)
(* Time.                                                                   *)
(***************************************************************************)

\* Half a second passes.  The ticker's channel holds one tick; a tick that
\* finds it full is dropped.
ClockStep ==
    /\ Alive
    /\ pc # "start"
    /\ clock' = IF clock < MaxClock THEN clock + 1 ELSE clock
    /\ IF watcher \in {"none", "stopped"}
         THEN UNCHANGED <<tick, ticker>>
         ELSE /\ ticker' = (ticker + 1) % 2
              /\ tick' = (tick \/ ticker = 1)
    /\ UNCHANGED <<pc, agentVars, watcher, stop, col, snap>>

-----------------------------------------------------------------------------
(***************************************************************************)
(* collectCounters, called by the watcher and, at the end, by Run.         *)
(***************************************************************************)

\* The goroutine of collection w is alive and in collectCounters.
Collecting(w) == Alive /\ col[w].at > 0 /\ ~col[w].aggregated

\* One iteration of the loop over the agents: the call of ListCounters.  An
\* agent that fails to answer is logged and skipped.
AskAgent(w) ==
    /\ Collecting(w)
    /\ col[w].at <= NumAgents
    /\ LET a == col[w].at IN
         col' = [col EXCEPT ![w] =
                   [at         |-> a + 1,
                    sum        |-> @.sum + (IF link[a] = "up" THEN cnt[a] ELSE 0),
                    missed     |-> @.missed \cup (IF link[a] = "up" THEN {} ELSE {a}),
                    aggregated |-> FALSE]]
    /\ UNCHANGED <<pc, agentVars, watcher, timeVars, stop, snap>>

\* job.Duration() > 0, but less than the whole second it is divided by.
DividesByZero == Aggregates /\ clock > 0 /\ clock \div 2 = 0

\* AggregateCounters of the job's sessions; a division by zero is a panic.
AggregateCounters(w) ==
    /\ Collecting(w)
    /\ col[w].at = NumAgents + 1
    /\ IF DividesByZero
         THEN pc' = "dead" /\ UNCHANGED col
         ELSE col' = [col EXCEPT ![w].aggregated = TRUE] /\ UNCHANGED pc
    /\ UNCHANGED <<agentVars, watcher, timeVars, stop, snap>>

\* What SnapshotWriter.WriteCounters stores for collection w.
SnapshotOf(w) == [by |-> w, sum |-> col[w].sum, missed |-> col[w].missed]

-----------------------------------------------------------------------------
(***************************************************************************)
(* watchCounters.                                                          *)
(***************************************************************************)

\* The select takes a tick, also when stop is closed as well.
WatcherTicks ==
    /\ Alive
    /\ watcher = "select"
    /\ tick
    /\ tick' = FALSE
    /\ watcher' = "collect"
    /\ col' = [col EXCEPT !["watch"] = Fresh]
    /\ UNCHANGED <<pc, agentVars, ticker, clock, stop, snap>>

\* WriteCounters, then back to the select.
WatcherWrites ==
    /\ Alive
    /\ watcher = "collect"
    /\ col["watch"].aggregated
    /\ snap' = SnapshotOf("watch")
    /\ watcher' = "select"
    /\ col' = [col EXCEPT !["watch"] = Idle]
    /\ UNCHANGED <<pc, agentVars, timeVars, stop>>

\* The select takes the closed stop channel; the ticker is stopped.
WatcherStops ==
    /\ Alive
    /\ watcher = "select"
    /\ stop
    /\ watcher' = "stopped"
    /\ UNCHANGED <<pc, agentVars, timeVars, stop, col, snap>>

-----------------------------------------------------------------------------
(***************************************************************************)
(* The end of Run.                                                         *)
(***************************************************************************)

\* Faulty variant: wg.Wait is missing.
CloseStopAtOnce ==
    /\ pc = "running"
    /\ pc' = "final"
    /\ stop' = TRUE
    /\ col' = [col EXCEPT !["final"] = Fresh]
    /\ UNCHANGED <<agentVars, watcher, timeVars, snap>>

\* wg.Wait returns, the stop channel is closed, the last collection begins.
CloseStop ==
    /\ pc = "running"
    /\ \A a \in Agents : run[a] = "returned"
    /\ pc' = "final"
    /\ stop' = TRUE
    /\ col' = [col EXCEPT !["final"] = Fresh]
    /\ UNCHANGED <<agentVars, watcher, timeVars, snap>>

\* Faulty variant: the last snapshot is not written.
ReturnWithoutWriting ==
    /\ pc = "final"
    /\ col["final"].aggregated
    /\ pc' = "returned"
    /\ UNCHANGED <<agentVars, watcher, timeVars, stop, col, snap>>

\* The last snapshot is written and Run returns.
WriteFinal ==
    /\ pc = "final"
    /\ col["final"].aggregated
    /\ snap' = SnapshotOf("final")
    /\ pc' = "returned"
    /\ UNCHANGED <<agentVars, watcher, timeVars, stop, col>>

-----------------------------------------------------------------------------
SetupStep(a) == HandleSetup(a) \/ SetupReturns(a) \/ SetupFails(a)
RunStep(a)   == HandleRun(a) \/ CompleteSession(a) \/ FinishRun(a) \/ RunReturns(a) \/ RunFails(a)
MainStep     == Start \/ SpawnRuns \/ CloseStop \/ WriteFinal
CollectStep(w) == AskAgent(w) \/ AggregateCounters(w)
WatcherStep  == WatcherTicks \/ WatcherWrites \/ WatcherStops

Next ==
    \/ MainStep
    \/ WatcherStep
    \/ ClockStep
    \/ \E a \in Agents : SetupStep(a) \/ RunStep(a) \/ LinkBreaks(a)
    \/ \E w \in Collectors : CollectStep(w)

Spec == Init /\ [][Next]_vars

(***************************************************************************)
(* Goroutines run, replies on an unbroken connection arrive, time passes.  *)
(* Nothing says that an agent's Run returns (FinishRun) or that links      *)
(* break.  A select that finds both the tick and the stop ready picks one  *)
(* at random, so the stop is taken in the end: strong fairness.            *)
(***************************************************************************)
FairSpec ==
    /\ Spec
    /\ WF_vars(MainStep)
    /\ WF_vars(ClockStep)
    /\ WF_vars(WatcherTicks) /\ WF_vars(WatcherWrites) /\ SF_vars(WatcherStops)
    /\ \A a \in Agents :
        /\ WF_vars(SetupStep(a))
        /\ WF_vars(HandleRun(a) \/ RunReturns(a) \/ RunFails(a))
    /\ \A w \in Collectors : WF_vars(CollectStep(w))

-----------------------------------------------------------------------------
(***************************************************************************)
(* Properties.                                                             *)
(***************************************************************************)

\* The type invariant.
TypeOK ==
    /\ pc \in {"start", "setup", "running", "final", "returned", "dead"}
    /\ setup \in [Agents -> CallStates]
    /\ run \in [Agents -> CallStates]
    /\ link \in [Agents -> {"up", "down"}]
    /\ cnt \in [Agents -> Nat]
    /\ work \in [Agents -> Nat]
    /\ watcher \in {"none", "select", "collect", "stopped"}
    /\ tick \in BOOLEAN
    /\ ticker \in {0, 1}
    /\ stop \in BOOLEAN
    /\ clock \in 0..MaxClock
    /\ col \in [Collectors -> Collections]
    /\ snap \in Snapshots

\* No snapshot counts a session this job has not completed: each agent's
\* counters were reset before any agent began to run, and a collection that
\* takes long is never ahead of the agents.
SnapshotCountsThisJob ==
    /\ snap.sum <= Total(work)
    /\ \A w \in Collectors : col[w].sum <= Total(work)

\* The last collection begins after every agent has finished: but for the
\* agents that could not be asked, it counts every session completed.
FinalCountIsComplete ==
    pc = "returned" =>
        col["final"].sum = SumOver(work, Agents \ col["final"].missed)

\* The counts that the writer shows go back only when an agent was lost since,
\* or when a watcher that began to collect before Run's end writes last.
CountsGoBackOnlyWhen ==
    [][snap'.sum < snap.sum =>
         \/ snap'.missed # {}
         \/ snap.by = "final" /\ snap'.by = "watch"]_vars

\* When the last snapshot has been overwritten, it was by the watcher, with
\* at most what Run itself had counted plus what a lost agent had done.
LastSnapshotOvertaken ==
    pc = "returned" =>
        \/ snap = SnapshotOf("final")
        \/ /\ snap.by = "watch"
           /\ snap.missed = col["final"].missed => snap.sum <= col["final"].sum

\* If every agent's Run ends or loses its connection, Run returns.
RunReturnsEventually ==
    (\A a \in Agents : []<>(run[a] # "handled" \/ link[a] = "down"))
        => <>(pc \in {"returned", "dead"})

\* The collection of w is about to aggregate and would not divide by zero.
DivisionSafe(w) == Collecting(w) /\ col[w].at = NumAgents + 1 => ~DividesByZero

\* The watcher never divides by zero: its first tick comes a whole second
\* after the ticker starts, and the job started before that.
WatcherNeverDividesByZero == DivisionSafe("watch")

\* http_get.go:247 guards the division with `duration > 0': no collection
\* divides by zero, whenever the agents finish.
NoDivisionByZero == \A w \in Collectors : DivisionSafe(w)

(***************************************************************************)
(* What the service relies on: JobRun.                                     *)
(***************************************************************************)
JobPhase ==
    CASE pc = "start" -> "new"
      [] pc \in {"setup", "running", "final"} -> "running"
      [] OTHER -> pc

JobWatch ==
    CASE watcher = "select" -> "idle"
      [] watcher = "collect" -> "busy"
      [] watcher = "stopped" -> "ended"
      [] OTHER -> "none"

Job == INSTANCE JobRun WITH phase <- JobPhase, watch <- JobWatch, shown <- snap.by

\* Every behaviour of Run is one that JobRun allows its caller to see, and
\* the watcher's end is among the promises kept.
RefinesJobRun == Job!FairSpec
=============================================================================
