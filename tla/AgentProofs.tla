---------------------------- MODULE AgentProofs ----------------------------
(***************************************************************************)
(* The agent's run, for every number of phases and sessions, every         *)
(* distribution of shares and every bound on the goroutines; and, further  *)
(* below, the two sessions an agent executes that wait for an echo, for    *)
(* every number of messages and whatever the server sends.                 *)
(***************************************************************************)
EXTENDS AgentRun, MCEcho, FiniteSetTheorems, TLAPS

\* The session entries of the current phase whose launcher has not ended.
Pending == {s \in Sessions : launcher[<<phase, s>>] # "done"}

\* A crew's channel holds one token per user that has not released its own,
\* lost users included, and never more than its capacity.
TokensInv ==
    \A c \in Crews : slots[c] = InFlight(c) + lost[c] /\ slots[c] <= Quota[c]

\* A crew's WaitGroup counts its goroutines; before the launcher starts and
\* after it ends there are none.
CrewInv ==
    \A c \in Crews :
        /\ wg[c] = Undone(c)
        /\ launcher[c] \in {"none", "done"} => Undone(c) = 0

\* Where the launchers of the phases stand with respect to Run's loop.
PhaseInv ==
    /\ pc = "sessions" => phase \in 1..NumPhases
    /\ \A c \in Crews :
        /\ c[1] > phase => launcher[c] = "none"
        /\ PhaseOver(c) => launcher[c] = "done"
        /\ pc = "sessions" /\ c[1] = phase /\ c[2] >= next => launcher[c] = "none"

\* runPhase's WaitGroup counts the launchers of the phase that have not ended.
PendingInv == pc = "sessions" => swg = Cardinality(Pending)

\* The inductive invariant.
IndInv == TypeOK /\ TokensInv /\ CrewInv /\ PhaseInv /\ PendingInv

-----------------------------------------------------------------------------
\* Every crew is a pair of a phase and a session entry, and conversely.
LEMMA CrewPair ==
    /\ \A c \in Crews : c = <<c[1], c[2]>> /\ c[1] \in 1..NumPhases /\ c[2] \in Sessions
    /\ \A p \in 1..NumPhases, s \in Sessions : <<p, s>> \in Crews
BY DEF Crews

\* The pending entries are a finite set.
LEMMA PendingFinite == IsFiniteSet(Pending) /\ Cardinality(Pending) \in Nat
<1>1. IsFiniteSet(Sessions)
  BY FS_Interval, AgentRunAssumption DEF Sessions
<1>2. Pending \subseteq Sessions
  BY DEF Pending
<1>. QED  BY <1>1, <1>2, FS_Subset, FS_CardinalityType

\* Type correctness: counters stay natural numbers because every decrement is
\* guarded, in the code by the goroutine that performs it.
THEOREM TypeCorrect == Spec => []TypeOK
<1>1. Init => TypeOK
  BY AgentRunAssumption DEF Init, TypeOK, RunStates, LauncherStates, TimerStates
<1>2. TypeOK /\ [Next]_vars => TypeOK'
  <2> SUFFICES ASSUME TypeOK, [Next]_vars PROVE TypeOK'
    OBVIOUS
  <2> USE AgentRunAssumption DEF TypeOK, RunStates, LauncherStates, TimerStates,
          crewVars, userVars, runVars
  <2>1. CASE RunStep
    <3>1. CASE EnterPhase  BY <3>1 DEF EnterPhase
    <3>2. CASE Return  BY <3>2 DEF Return
    <3>3. CASE SpawnLauncher
      <4>1. next' \in 1..(NumSessions + 1)
        BY <3>3 DEF SpawnLauncher, Sessions
      <4>2. launcher' \in [Crews -> LauncherStates] /\ timer' \in [Crews -> TimerStates]
        BY <3>3 DEF SpawnLauncher
      <4>. QED  BY <3>3, <4>1, <4>2 DEF SpawnLauncher
    <3>4. CASE DieOnBadEntry  BY <3>4 DEF DieOnBadEntry
    <3>5. CASE LeavePhase  BY <3>5 DEF LeavePhase
    <3>. QED  BY <2>1, <3>1, <3>2, <3>3, <3>4, <3>5 DEF RunStep
  <2>2. ASSUME NEW c \in Crews, LauncherStep(c) PROVE TypeOK'
    <3>1. CASE TimerFires(c)  BY <3>1 DEF TimerFires
    <3>2. CASE LaunchUser(c)  BY <3>2 DEF LaunchUser, Inc
    <3>3. CASE StopLaunching(c)  BY <3>3 DEF StopLaunching
    <3>4. CASE LauncherDone(c)  BY <3>4 DEF LauncherDone
    <3>. QED  BY <2>2, <3>1, <3>2, <3>3, <3>4 DEF LauncherStep
  <2>3. ASSUME NEW c \in Crews, UserStep(c) PROVE TypeOK'
    <3>1. CASE UidFails(c)  BY <3>1 DEF UidFails, Inc, Dec
    <3>2. CASE BeginExecute(c)  BY <3>2 DEF BeginExecute, Inc, Dec
    <3>3. CASE ExecuteSucceeds(c)  BY <3>3 DEF ExecuteSucceeds, Inc, Dec
    <3>4. CASE ExecuteFails(c)  BY <3>4 DEF ExecuteFails, Inc, Dec
    <3>5. CASE ExecutePanics(c)  BY <3>5 DEF ExecutePanics
    <3>6. CASE WakeUp(c)  BY <3>6 DEF WakeUp, Inc, Dec
    <3>7. CASE ReleaseSlot(c)  BY <3>7 DEF ReleaseSlot, Inc, Dec
    <3>8. CASE UserDone(c)  BY <3>8 DEF UserDone, Dec
    <3>. QED
      BY <2>3, <3>1, <3>2, <3>3, <3>4, <3>5, <3>6, <3>7, <3>8 DEF UserStep
  <2>4. CASE UNCHANGED vars  BY <2>4 DEF vars
  <2>. QED  BY <2>1, <2>2, <2>3, <2>4 DEF Next
<1>. QED  BY <1>1, <1>2, PTL DEF Spec

-----------------------------------------------------------------------------
\* The initial state satisfies the inductive invariant.
LEMMA InitInd == Init => IndInv
<1> SUFFICES ASSUME Init PROVE IndInv
  OBVIOUS
<1>1. TypeOK
  BY AgentRunAssumption DEF Init, TypeOK, RunStates, LauncherStates, TimerStates
<1>2. TokensInv /\ CrewInv
  BY AgentRunAssumption DEF Init, TokensInv, CrewInv, InFlight, Undone
<1>3. PhaseInv
  BY CrewPair DEF Init, PhaseInv, PhaseOver
<1>4. PendingInv
  BY DEF Init, PendingInv
<1>. QED  BY <1>1, <1>2, <1>3, <1>4 DEF IndInv

\* The counters of crew d are integers.
IntegersAt(d) ==
    /\ slots[d] \in Nat /\ wg[d] \in Int
    /\ started[d] \in Nat /\ executing[d] \in Nat /\ sleeping[d] \in Nat
    /\ finished[d] \in Nat /\ released[d] \in Nat /\ lost[d] \in Nat

\* A step keeps the accounts of crew d: tokens and WaitGroup change by as much
\* as what they count, and the crew gains no token and no goroutine.
CountsKept(d) ==
    /\ slots'[d] - slots[d] = (InFlight(d) + lost[d])' - (InFlight(d) + lost[d])
    /\ wg'[d] - wg[d] = Undone(d)' - Undone(d)
    /\ slots'[d] <= slots[d]
    /\ Undone(d)' <= Undone(d)

\* Such a step preserves the accounting invariants.
LEMMA CountsKeptInv ==
    ASSUME IndInv, TypeOK', UNCHANGED launcher, \A d \in Crews : CountsKept(d)
    PROVE  TokensInv' /\ CrewInv'
<1> SUFFICES ASSUME NEW d \in Crews
             PROVE  /\ slots'[d] = InFlight(d)' + lost'[d] /\ slots'[d] <= Quota[d]
                    /\ wg'[d] = Undone(d)'
                    /\ launcher'[d] \in {"none", "done"} => Undone(d)' = 0
  BY DEF TokensInv, CrewInv
<1>1. IntegersAt(d) /\ IntegersAt(d)' /\ Quota[d] \in Nat
  BY AgentRunAssumption DEF IndInv, TypeOK, IntegersAt
<1>2. /\ slots[d] = InFlight(d) + lost[d] /\ slots[d] <= Quota[d]
      /\ wg[d] = Undone(d)
      /\ launcher[d] \in {"none", "done"} => Undone(d) = 0
  BY DEF IndInv, TokensInv, CrewInv
<1>3. CountsKept(d)
  OBVIOUS
<1>4. InFlight(d) \in Nat /\ Undone(d) \in Nat /\ InFlight(d)' \in Nat /\ Undone(d)' \in Nat
  BY <1>1 DEF IntegersAt, InFlight, Undone
<1>5. slots'[d] = InFlight(d)' + lost'[d] /\ slots'[d] <= Quota[d]
  BY <1>1, <1>2, <1>3, <1>4 DEF IntegersAt, CountsKept
<1>6. wg'[d] = Undone(d)'
  BY <1>1, <1>2, <1>3, <1>4 DEF IntegersAt, CountsKept
<1>7. launcher'[d] \in {"none", "done"} => Undone(d)' = 0
  BY <1>2, <1>3, <1>4 DEF CountsKept
<1>. QED  BY <1>5, <1>6, <1>7

\* Steps of a user goroutine move it from one statement to the next: tokens and
\* WaitGroup keep counting it, and launchers and phases are not touched.
LEMMA UserStepInd ==
    ASSUME IndInv, TypeOK', NEW c \in Crews, UserStep(c)
    PROVE  IndInv'
<1>1. TokensInv' /\ CrewInv' /\ UNCHANGED <<phase, next, swg, launcher>>
  <2>1. UNCHANGED <<phase, next, swg, launcher>>
    BY DEF UserStep, UidFails, BeginExecute, ExecuteSucceeds, ExecuteFails,
           ExecutePanics, WakeUp, ReleaseSlot, UserDone, crewVars, runVars
  <2>2. ASSUME NEW d \in Crews PROVE CountsKept(d)
    <3>1. IntegersAt(d) /\ IntegersAt(d)'
      BY DEF IndInv, TypeOK, IntegersAt
    <3> USE <3>1 DEF IntegersAt, CountsKept, Inc, Dec, InFlight, Undone,
                     crewVars, userVars, runVars
    <3>2. started \in [Crews -> Nat] /\ executing \in [Crews -> Nat]
          /\ sleeping \in [Crews -> Nat] /\ finished \in [Crews -> Nat]
          /\ released \in [Crews -> Nat] /\ lost \in [Crews -> Nat]
          /\ slots \in [Crews -> Nat] /\ wg \in [Crews -> Int]
      BY DEF IndInv, TypeOK
    <3>3. CASE UidFails(c)  BY <3>2, <3>3 DEF UidFails
    <3>4. CASE BeginExecute(c)  BY <3>2, <3>4 DEF BeginExecute
    <3>5. CASE ExecuteSucceeds(c)  BY <3>2, <3>5 DEF ExecuteSucceeds
    <3>6. CASE ExecuteFails(c)  BY <3>2, <3>6 DEF ExecuteFails
    <3>7. CASE ExecutePanics(c)  BY <3>7 DEF ExecutePanics
    <3>8. CASE WakeUp(c)  BY <3>2, <3>8 DEF WakeUp
    <3>9. CASE ReleaseSlot(c)  BY <3>2, <3>9 DEF ReleaseSlot
    <3>10. CASE UserDone(c)  BY <3>2, <3>10 DEF UserDone
    <3>. QED
      BY <3>3, <3>4, <3>5, <3>6, <3>7, <3>8, <3>9, <3>10 DEF UserStep
  <2>3. TokensInv' /\ CrewInv'
    BY <2>1, <2>2, CountsKeptInv
  <2>. QED  BY <2>1, <2>3
<1>2. pc' = pc \/ pc' = "dead"
  BY DEF UserStep, UidFails, BeginExecute, ExecuteSucceeds, ExecuteFails,
         ExecutePanics, WakeUp, ReleaseSlot, UserDone, runVars
<1>3. PhaseInv'
  BY <1>1, <1>2 DEF IndInv, PhaseInv, PhaseOver
<1>4. PendingInv'
  BY <1>1, <1>2 DEF IndInv, PendingInv, Pending
<1>. QED  BY <1>1, <1>3, <1>4 DEF IndInv

\* Steps of a launcher and of its timer.
LEMMA LauncherStepInd ==
    ASSUME IndInv, TypeOK', NEW c \in Crews, LauncherStep(c)
    PROVE  IndInv'
<1> USE DEF IndInv, TypeOK, Inc, Dec, InFlight, Undone, crewVars, userVars, runVars
<1>1. CASE TimerFires(c)
  <2>1. TokensInv' /\ CrewInv'
    BY <1>1 DEF TimerFires, TokensInv, CrewInv
  <2>2. PhaseInv' /\ PendingInv'
    BY <1>1 DEF TimerFires, PhaseInv, PhaseOver, PendingInv, Pending
  <2>. QED  BY <2>1, <2>2
<1>2. CASE LaunchUser(c)
  <2>1. ASSUME NEW d \in Crews
        PROVE  /\ slots'[d] = InFlight(d)' + lost'[d] /\ slots'[d] <= Quota[d]
               /\ wg'[d] = Undone(d)'
               /\ launcher'[d] \in {"none", "done"} => Undone(d)' = 0
    <3>1. IntegersAt(d) /\ Quota[d] \in Nat
      BY AgentRunAssumption DEF IntegersAt
    <3>2. /\ slots[d] = InFlight(d) + lost[d] /\ slots[d] <= Quota[d]
          /\ wg[d] = Undone(d)
          /\ launcher[d] \in {"none", "done"} => Undone(d) = 0
      BY DEF TokensInv, CrewInv
    <3>3. CASE d = c
      <4>1. /\ slots'[d] = slots[d] + 1 /\ wg'[d] = wg[d] + 1
            /\ started'[d] = started[d] + 1 /\ slots[d] < Quota[d]
        BY <1>2, <3>3 DEF LaunchUser
      <4>2. /\ UNCHANGED <<executing, sleeping, finished, released, lost>>
            /\ launcher'[d] = "select"
        BY <1>2, <3>3 DEF LaunchUser
      <4> HIDE DEF IndInv, TypeOK
      <4>3. slots'[d] = InFlight(d)' + lost'[d] /\ slots'[d] <= Quota[d]
        BY <3>1, <3>2, <4>1, <4>2 DEF IntegersAt
      <4>4. wg'[d] = Undone(d)'
        BY <3>1, <3>2, <4>1, <4>2 DEF IntegersAt
      <4>. QED  BY <4>2, <4>3, <4>4
    <3>4. CASE d # c  BY <1>2, <3>2, <3>4 DEF LaunchUser
    <3>. QED  BY <3>3, <3>4
  <2>2. PhaseInv' /\ PendingInv'
    BY <1>2 DEF LaunchUser, PhaseInv, PhaseOver, PendingInv, Pending
  <2>. QED  BY <2>1, <2>2 DEF TokensInv, CrewInv
<1>3. CASE StopLaunching(c)
  <2>1. TokensInv' /\ CrewInv'
    BY <1>3 DEF StopLaunching, TokensInv, CrewInv
  <2>2. PhaseInv'
    BY <1>3 DEF StopLaunching, PhaseInv, PhaseOver
  <2>3. Pending' = Pending
    BY <1>3 DEF StopLaunching, Pending
  <2>4. PendingInv'
    BY <1>3, <2>3 DEF StopLaunching, PendingInv
  <2>. QED  BY <2>1, <2>2, <2>4
<1>4. CASE LauncherDone(c)
  <2>1. TokensInv' /\ CrewInv'
    BY <1>4 DEF LauncherDone, TokensInv, CrewInv
  <2>2. PhaseInv'
    BY <1>4 DEF LauncherDone, PhaseInv, PhaseOver
  <2>3. PendingInv'
    <3> SUFFICES ASSUME pc' = "sessions" PROVE swg' = Cardinality(Pending')
      BY DEF PendingInv
    <3>1. pc = "sessions" /\ phase' = phase /\ swg' = swg - 1
      BY <1>4 DEF LauncherDone
    <3>2. c[1] = phase
      <4>1. launcher[c] = "waiting"  BY <1>4 DEF LauncherDone
      <4>2. c[1] \in Int /\ phase \in Int
        BY CrewPair, AgentRunAssumption
      <4>3. c[1] > phase => launcher[c] = "none"
        BY DEF PhaseInv
      <4>4. c[1] < phase => launcher[c] = "done"
        BY DEF PhaseInv, PhaseOver
      <4>. QED  BY <4>1, <4>2, <4>3, <4>4
    <3>3. c = <<phase, c[2]>> /\ c[2] \in Sessions
      BY <3>2, CrewPair
    <3>4. c[2] \in Pending
      BY <1>4, <3>3 DEF LauncherDone, Pending
    <3>5. phase \in 1..NumPhases
      BY <3>2, CrewPair
    <3>6. Pending' = Pending \ {c[2]}
      <4>1. \A s \in Sessions : launcher'[<<phase, s>>]
                 = IF s = c[2] THEN "done" ELSE launcher[<<phase, s>>]
        BY <1>4, <3>3, <3>5, CrewPair DEF LauncherDone
      <4>. QED  BY <3>1, <4>1 DEF Pending
    <3>7. Cardinality(Pending \ {c[2]}) = Cardinality(Pending) - 1
      <4> HIDE DEF Pending, IndInv, TypeOK
      <4>. QED  BY <3>4, PendingFinite, FS_RemoveElement
    <3>. QED  BY <3>1, <3>6, <3>7 DEF PendingInv
  <2>. QED  BY <2>1, <2>2, <2>3
<1>. QED  BY <1>1, <1>2, <1>3, <1>4 DEF LauncherStep

\* Steps of the Run call itself.
LEMMA RunStepInd ==
    ASSUME IndInv, TypeOK', RunStep
    PROVE  IndInv'
<1> USE AgentRunAssumption DEF IndInv, TypeOK, crewVars, userVars, runVars
<1>1. CASE EnterPhase
  <2>1. TokensInv' /\ CrewInv'
    BY <1>1 DEF EnterPhase, TokensInv, CrewInv, InFlight, Undone
  <2>2. PhaseInv'
    <3>1. \A d \in Crews : d[1] \in 1..NumPhases /\ d[2] \in 1..NumSessions
      BY CrewPair DEF Sessions
    <3>2. pc = "phases" /\ pc' = "sessions" /\ phase' = phase + 1 /\ next' = 1
          /\ phase \in 0..NumPhases /\ phase < NumPhases /\ launcher' = launcher
      BY <1>1 DEF EnterPhase
    <3>3. ASSUME NEW d \in Crews
          PROVE  /\ d[1] > phase => launcher[d] = "none"
                 /\ d[1] <= phase => launcher[d] = "done"
      <4>1. d[1] > phase => launcher[d] = "none"
        BY DEF PhaseInv
      <4>2. d[1] <= phase => PhaseOver(d)
        <5>1. d[1] \in Int /\ phase \in Int /\ pc = "phases"
          BY <3>1, <3>2
        <5> HIDE DEF IndInv, TypeOK
        <5>. QED  BY <5>1 DEF PhaseOver
      <4>. QED  BY <4>1, <4>2 DEF PhaseInv
    <3>. QED  BY <3>1, <3>2, <3>3 DEF PhaseInv, PhaseOver
  <2>3. Pending' = Sessions
    <3>1. \A s \in Sessions : <<phase + 1, s>> \in Crews
      BY <1>1, CrewPair DEF EnterPhase
    <3>2. \A s \in Sessions : <<phase + 1, s>>[1] > phase
      BY <1>1
    <3>3. \A s \in Sessions : launcher[<<phase + 1, s>>] = "none"
      BY <3>1, <3>2 DEF PhaseInv
    <3>. QED  BY <1>1, <3>3 DEF EnterPhase, Pending
  <2>4. Cardinality(Sessions) = NumSessions
    BY FS_Interval DEF Sessions
  <2>5. PendingInv'
    BY <1>1, <2>3, <2>4 DEF EnterPhase, PendingInv
  <2>. QED  BY <2>1, <2>2, <2>5
<1>2. CASE Return
  <2>1. TokensInv' /\ CrewInv'
    BY <1>2 DEF Return, TokensInv, CrewInv, InFlight, Undone
  <2>2. PhaseInv' /\ PendingInv'
    BY <1>2 DEF Return, PhaseInv, PhaseOver, PendingInv
  <2>. QED  BY <2>1, <2>2
<1>3. CASE SpawnLauncher
  <2>1. phase \in 1..NumPhases /\ next \in Sessions /\ <<phase, next>> \in Crews
    BY <1>3, CrewPair DEF SpawnLauncher, PhaseInv
  <2>2. launcher[<<phase, next>>] = "none"
    BY <1>3, <2>1, CrewPair DEF SpawnLauncher, PhaseInv, Sessions
  <2>3. TokensInv' /\ CrewInv'
    BY <1>3, <2>1, <2>2 DEF SpawnLauncher, TokensInv, CrewInv, InFlight, Undone
  <2>4. PhaseInv'
    <3> SUFFICES ASSUME NEW d \in Crews
                 PROVE  /\ d[1] > phase => launcher'[d] = "none"
                        /\ d[1] < phase => launcher'[d] = "done"
                        /\ d[1] = phase /\ d[2] >= next + 1 => launcher'[d] = "none"
      BY <1>3, <2>1 DEF SpawnLauncher, PhaseInv, PhaseOver
    <3>1. d[1] \in Int /\ d[2] \in Int /\ next \in Int
      BY <2>1, CrewPair DEF Sessions
    <3>2. d = <<phase, next>> => d[1] = phase /\ d[2] = next
      OBVIOUS
    <3>3. d # <<phase, next>> => launcher'[d] = launcher[d]
      BY <1>3 DEF SpawnLauncher
    <3>4. /\ d[1] > phase => launcher[d] = "none"
          /\ d[1] < phase => launcher[d] = "done"
          /\ d[1] = phase /\ d[2] >= next => launcher[d] = "none"
      BY <1>3 DEF SpawnLauncher, PhaseInv, PhaseOver
    <3>. QED  BY <2>1, <3>1, <3>2, <3>3, <3>4
  <2>5. Pending' = Pending
    BY <1>3, <2>1, <2>2, CrewPair DEF SpawnLauncher, Pending
  <2>6. PendingInv'
    BY <1>3, <2>5 DEF SpawnLauncher, PendingInv
  <2>. QED  BY <2>3, <2>4, <2>6
<1>4. CASE DieOnBadEntry
  <2>1. TokensInv' /\ CrewInv'
    BY <1>4 DEF DieOnBadEntry, TokensInv, CrewInv, InFlight, Undone
  <2>2. PhaseInv' /\ PendingInv'
    BY <1>4 DEF DieOnBadEntry, PhaseInv, PhaseOver, PendingInv
  <2>. QED  BY <2>1, <2>2
<1>5. CASE LeavePhase
  <2>1. TokensInv' /\ CrewInv'
    BY <1>5 DEF LeavePhase, TokensInv, CrewInv, InFlight, Undone
  <2>2. Pending = {}
    BY <1>5, PendingFinite, FS_EmptySet DEF LeavePhase, PendingInv
  <2>3. \A d \in Crews : d[1] = phase => launcher[d] = "done"
    BY <2>2, CrewPair DEF Pending
  <2>4. PhaseInv' /\ PendingInv'
    BY <1>5, <2>3 DEF LeavePhase, PhaseInv, PhaseOver, PendingInv
  <2>. QED  BY <2>1, <2>4
<1>. QED  BY <1>1, <1>2, <1>3, <1>4, <1>5 DEF RunStep

\* The invariant is inductive.
THEOREM Inductive == Spec => []IndInv
<1>1. IndInv /\ TypeOK' /\ [Next]_vars => IndInv'
  <2> SUFFICES ASSUME IndInv, TypeOK', [Next]_vars PROVE IndInv'
    OBVIOUS
  <2>1. CASE RunStep  BY <2>1, RunStepInd
  <2>2. ASSUME NEW c \in Crews, LauncherStep(c) PROVE IndInv'
    BY <2>2, LauncherStepInd
  <2>3. ASSUME NEW c \in Crews, UserStep(c) PROVE IndInv'
    BY <2>3, UserStepInd
  <2>4. CASE UNCHANGED vars
    BY <2>4 DEF vars, runVars, crewVars, userVars, IndInv, TypeOK, TokensInv,
                CrewInv, PhaseInv, PendingInv, Pending, PhaseOver, InFlight, Undone
  <2>. QED  BY <2>1, <2>2, <2>3, <2>4 DEF Next
<1>. QED  BY <1>1, InitInd, TypeCorrect, PTL DEF Spec

-----------------------------------------------------------------------------
\* The users in flight never exceed the agent's share: tokens outnumber them.
THEOREM QuotaRespected == Spec => []InFlightWithinQuota
<1>1. IndInv => InFlightWithinQuota
  <2> SUFFICES ASSUME IndInv, NEW c \in Crews PROVE InFlight(c) <= Quota[c]
    BY DEF InFlightWithinQuota
  <2>1. IntegersAt(c) /\ Quota[c] \in Nat
    BY AgentRunAssumption DEF IndInv, TypeOK, IntegersAt
  <2>2. slots[c] = InFlight(c) + lost[c] /\ slots[c] <= Quota[c]
    BY DEF IndInv, TokensInv
  <2>. QED  BY <2>1, <2>2 DEF IntegersAt, InFlight
<1>. QED  BY <1>1, Inductive, PTL

\* A user that has executed finds a token to take back.
THEOREM ReleaseReady == Spec => []ReleaseNeverBlocks
<1>1. IndInv => ReleaseNeverBlocks
  <2> SUFFICES ASSUME IndInv, NEW c \in Crews, finished[c] > 0 PROVE slots[c] > 0
    BY DEF ReleaseNeverBlocks
  <2>1. IntegersAt(c)
    BY DEF IndInv, TypeOK, IntegersAt
  <2>2. slots[c] = InFlight(c) + lost[c]
    BY DEF IndInv, TokensInv
  <2>. QED  BY <2>1, <2>2 DEF IntegersAt, InFlight
<1>. QED  BY <1>1, Inductive, PTL

\* The WaitGroups of runPhase and of its launchers count their goroutines.
THEOREM WaitGroupsExact == Spec => []WaitGroupsCount
<1>1. IndInv => WaitGroupsCount
  BY DEF IndInv, CrewInv, PendingInv, Pending, WaitGroupsCount
<1>. QED  BY <1>1, Inductive, PTL

\* Run never has goroutines of two phases at once.
THEOREM PhasesSequential == Spec => []PhasesDoNotOverlap
<1>1. IndInv => PhasesDoNotOverlap
  BY DEF IndInv, CrewInv, PhaseInv, PhasesDoNotOverlap
<1>. QED  BY <1>1, Inductive, PTL

\* A launcher with a lost user has not ended.
THEOREM LostUserBlocks == Spec => []LostUserBlocksPhase
<1>1. IndInv => LostUserBlocksPhase
  <2> SUFFICES ASSUME IndInv, NEW c \in Crews, lost[c] > 0, launcher[c] = "done" PROVE FALSE
    BY DEF LostUserBlocksPhase
  <2>1. IntegersAt(c)
    BY DEF IndInv, TypeOK, IntegersAt
  <2>2. Undone(c) = 0
    BY DEF IndInv, CrewInv
  <2>. QED  BY <2>1, <2>2 DEF IntegersAt, InFlight, Undone
<1>. QED  BY <1>1, Inductive, PTL

-----------------------------------------------------------------------------
(***************************************************************************)
(* The sessions webpubsub:echo and signalrcore:echo (MCEcho), which share  *)
(* no state with the run.                                                  *)
(***************************************************************************)
\* How far the exchange of webpubsub:echo has come, by the state of Execute:
\* what a select has let pass is all that Execute has received.
ExchangeInv ==
    /\ taken \in Seq(Events \cup {Closed})
    /\ success = IF main = "succeeded" THEN 1 ELSE 0
    /\ main \in {"new", "connecting"} => taken = <<>>
    /\ main = "joining" => taken = <<"connected">>
    /\ main = "echoing" =>
          /\ Len(taken) >= 2 /\ taken[1] = "connected" /\ taken[2] = "ack1"
          /\ \A i \in 3..Len(taken) : taken[i] = "ack2"
    /\ SuccessIsCompleteExchange

\* The channels tell in which select Execute is.
LEMMA ListensInSelect ==
    /\ "onConnChan" \in Listens => main = "connecting"
    /\ "msgChan" \in Listens => main = "echoing"
    /\ \A c : c \in Listens => InSelect
BY DEF Listens, InSelect

\* What a receipt appends comes last and leaves the rest as it was.
LEMMA AppendedIsLast ==
    ASSUME NEW S, NEW s \in Seq(S), NEW e \in S
    PROVE  /\ Append(s, e) \in Seq(S) /\ Append(s, e) # <<>>
           /\ Len(Append(s, e)) = Len(s) + 1
           /\ Append(s, e)[Len(s) + 1] = e
           /\ \A i \in 1..Len(s) : Append(s, e)[i] = s[i]
           /\ Last(Append(s, e)) = e
<1>1. Append(s, e) \in Seq(S) /\ Len(s) \in Nat /\ Len(Append(s, e)) = Len(s) + 1
  OBVIOUS
<1>2. Append(s, e)[Len(s) + 1] = e /\ \A i \in 1..Len(s) : Append(s, e)[i] = s[i]
  OBVIOUS
<1>3. Append(s, e) # <<>>
  BY <1>1
<1>. QED  BY <1>1, <1>2, <1>3 DEF Last

\* The receipts keep ExchangeInv.
LEMMA ReceiptExchange ==
    ASSUME ExchangeInv, Receipt
    PROVE  ExchangeInv'
<1> DEFINE All == Events \cup {Closed}
<1>0. taken \in Seq(All) /\ Len(taken) \in Nat
  BY DEF ExchangeInv
<1>1. held \in All /\ taken' = Append(taken, held) /\ ChanOf(held) \in Listens
  BY DEF Receipt, OnConnected, OnJoinAck, OnEchoAck, OnEcho,
         OnUnexpected, HandOver, Events
<1>2. /\ taken' \in Seq(All) /\ Len(taken') = Len(taken) + 1
      /\ taken'[Len(taken) + 1] = held
      /\ \A i \in 1..Len(taken) : taken'[i] = taken[i]
      /\ Last(taken') = held
  <2> HIDE DEF All
  <2>. QED  BY <1>0, <1>1, AppendedIsLast
<1>3. InSelect
  BY <1>1, ListensInSelect
<1>4. ASSUME Fail PROVE ExchangeInv'
  <2>1. success = 0
    BY <1>3 DEF ExchangeInv, InSelect
  <2>2. main' = "failed" /\ success' = 0
    BY <1>4, <2>1 DEF Fail
  <2>. QED  BY <1>2, <2>2 DEF ExchangeInv, SuccessIsCompleteExchange
<1>5. CASE OnConnected
  <2>1. main = "connecting"
    BY <1>1, <1>5, ListensInSelect DEF OnConnected, ChanOf, Closed
  <2>2. CASE Advance("joining")
    <3>1. taken = <<>> /\ success = 0 /\ held = "connected"
      BY <1>5, <2>1 DEF ExchangeInv, OnConnected
    <3>2. main' = "joining" /\ success' = 0 /\ taken' = <<"connected">>
      BY <1>1, <2>2, <3>1 DEF Advance
    <3>. QED  BY <1>2, <3>2 DEF ExchangeInv, SuccessIsCompleteExchange
  <2>. QED  BY <1>4, <1>5, <2>2 DEF OnConnected
<1>6. CASE OnJoinAck
  <2>1. CASE Advance("echoing")
    <3>1. taken = <<"connected">> /\ success = 0 /\ held = "ack1"
      BY <1>6 DEF ExchangeInv, OnJoinAck
    <3>2. main' = "echoing" /\ success' = 0
      BY <2>1, <3>1 DEF Advance
    <3>3. Len(taken) = 1 /\ taken[1] = "connected"
      BY <3>1
    <3>4. Len(taken') = 2 /\ taken'[1] = "connected" /\ taken'[2] = "ack1"
      BY <1>2, <3>1, <3>3
    <3>5. \A i \in 3..Len(taken') : taken'[i] = "ack2"
      BY <3>4
    <3>6. SuccessIsCompleteExchange'
      BY <3>2 DEF SuccessIsCompleteExchange
    <3>7. taken' \in Seq(Events \cup {Closed}) /\ Len(taken') >= 2
      BY <1>2, <3>4
    <3>. QED  BY <3>2, <3>4, <3>5, <3>6, <3>7 DEF ExchangeInv
  <2>. QED  BY <1>4, <1>6, <2>1 DEF OnJoinAck
<1>7. CASE OnEchoAck
  <2>1. main' = "echoing" /\ success' = 0 /\ held = "ack2" /\ main = "echoing"
    BY <1>7 DEF ExchangeInv, OnEchoAck, Advance
  <2>2. /\ Len(taken) >= 2 /\ taken[1] = "connected" /\ taken[2] = "ack1"
        /\ \A i \in 3..Len(taken) : taken[i] = "ack2"
    BY <2>1 DEF ExchangeInv
  <2>3. /\ Len(taken') >= 2 /\ taken'[1] = "connected" /\ taken'[2] = "ack1"
        /\ \A i \in 3..Len(taken') : taken'[i] = "ack2"
    BY <1>0, <1>2, <2>1, <2>2
  <2>. QED  BY <1>2, <2>1, <2>3 DEF ExchangeInv, SuccessIsCompleteExchange
<1>8. CASE OnEcho
  <2>1. main = "echoing" /\ held = "foobar"
    BY <1>1, <1>8, ListensInSelect DEF OnEcho, ChanOf, Closed
  <2>2. main' = "succeeded" /\ success' = 1
    BY <1>8, <2>1 DEF ExchangeInv, OnEcho
  <2>3. /\ Len(taken) >= 2 /\ taken[1] = "connected" /\ taken[2] = "ack1"
        /\ \A i \in 3..Len(taken) : taken[i] = "ack2"
    BY <2>1 DEF ExchangeInv
  <2>4. /\ Len(taken') >= 3 /\ taken'[1] = "connected" /\ taken'[2] = "ack1"
        /\ \A i \in 3..(Len(taken') - 1) : taken'[i] = "ack2"
    BY <1>0, <1>2, <2>3
  <2>. QED  BY <1>2, <2>1, <2>2, <2>4 DEF ExchangeInv, SuccessIsCompleteExchange
<1>9. CASE OnUnexpected
  BY <1>4, <1>9 DEF OnUnexpected
<1>. QED  BY <1>5, <1>6, <1>7, <1>8, <1>9 DEF Receipt

\* Every step of webpubsub:echo keeps ExchangeInv.
LEMMA ExchangeStep ==
    ASSUME ExchangeInv, [EchoNext]_echoVars
    PROVE  ExchangeInv'
<1>1. CASE taken' = taken /\ main' = main /\ success' = success
  BY <1>1 DEF ExchangeInv, SuccessIsCompleteExchange
<1>2. CASE Dial \/ DialFails
  BY <1>2 DEF ExchangeInv, Dial, DialFails, SuccessIsCompleteExchange
<1>3. CASE Timeout
  BY <1>3 DEF ExchangeInv, Timeout, InSelect, Fail, SuccessIsCompleteExchange
<1>4. CASE Receipt
  BY <1>4, ReceiptExchange
<1>5. CASE Read \/ ReadFails
  BY <1>1, <1>5 DEF Read, ReadFails
<1>6. ASSUME NEW e \in Events, ServerSends(e)
      PROVE  ExchangeInv'
  BY <1>1, <1>6 DEF ServerSends
<1>7. CASE UNCHANGED echoVars
  BY <1>1, <1>7 DEF echoVars
<1>. QED  BY <1>2, <1>3, <1>4, <1>5, <1>6, <1>7 DEF EchoNext

\* A success of webpubsub:echo is counted for a complete exchange only, whatever
\* the server sends and however long it takes.
THEOREM EchoSuccessRight == MCSpec => []WebSuccess
<1> DEFINE Inv == kind = "web" => ExchangeInv
<1>1. MCInit => Inv
  BY DEF MCInit, EchoInit, ExchangeInv, SuccessIsCompleteExchange
<1>2. Inv /\ [MCNext]_mcVars => Inv'
  BY ExchangeStep DEF MCNext, OfWeb, OfCore, mcVars
<1>3. Inv => WebSuccess
  BY DEF ExchangeInv, WebSuccess
<1> HIDE DEF Inv
<1>. QED  BY <1>1, <1>2, <1>3, PTL DEF MCSpec

-----------------------------------------------------------------------------
\* What is no JSON has been sent.
GarbageSent == \E i \in 1..Len(sent) : sent[i] = "garbage"

\* The reader of webpubsub:echo ends by what it has handed over last, or by what
\* the server has sent.
LeftInv ==
    /\ taken \in Seq(Events \cup {Closed})
    /\ inbox \in Seq(Events) /\ sent \in Seq(Events)
    /\ (\E i \in 1..Len(inbox) : inbox[i] = "garbage") => GarbageSent
    /\ reader = "ended" => (taken # <<>> /\ Last(taken) = Closed) \/ GarbageSent

\* Every step of webpubsub:echo keeps LeftInv.
LEMMA LeftStep ==
    ASSUME LeftInv, [EchoNext]_echoVars
    PROVE  LeftInv'
<1> DEFINE All == Events \cup {Closed}
<1>0. inbox \in Seq(Events) /\ sent \in Seq(Events) /\ taken \in Seq(All)
  BY DEF LeftInv
<1>1. CASE taken' = taken /\ inbox' = inbox /\ sent' = sent /\ (reader' = "ended" => reader = "ended")
  BY <1>1 DEF LeftInv, GarbageSent
<1>2. CASE Dial \/ DialFails \/ Timeout \/ ReadFails \/ UNCHANGED echoVars
  BY <1>1, <1>2 DEF Dial, DialFails, Timeout, ReadFails, echoVars
<1>3. CASE Receipt
  <2>1. /\ held \in All /\ taken' = Append(taken, held) /\ UNCHANGED <<inbox, sent>>
        /\ reader' = IF held = Closed THEN "ended" ELSE "reading"
    BY <1>3 DEF Receipt, OnConnected, OnJoinAck, OnEchoAck, OnEcho,
                OnUnexpected, HandOver, Events
  <2>2. taken' \in Seq(All) /\ taken' # <<>> /\ Last(taken') = held
    <3> HIDE DEF All
    <3>. QED  BY <1>0, <2>1, AppendedIsLast
  <2>3. reader' = "ended" => taken' # <<>> /\ Last(taken') = Closed
    BY <2>1, <2>2
  <2>. QED  BY <2>1, <2>2, <2>3 DEF LeftInv, GarbageSent
<1>4. CASE Read
  <2>1. /\ inbox # <<>> /\ inbox' = Tail(inbox) /\ UNCHANGED <<taken, sent>>
        /\ reader' = "ended" => Head(inbox) = "garbage"
    BY <1>4 DEF Read
  <2>2. /\ inbox' \in Seq(Events) /\ Len(inbox) \in Nat /\ Len(inbox') = Len(inbox) - 1
        /\ \A i \in 1..Len(inbox') : inbox'[i] = inbox[i + 1]
        /\ Head(inbox) = inbox[1] /\ 1 \in 1..Len(inbox)
    BY <1>0, <2>1
  <2>3. (\E i \in 1..Len(inbox') : inbox'[i] = "garbage") => GarbageSent
    <3> SUFFICES ASSUME NEW i \in 1..Len(inbox'), inbox'[i] = "garbage"
                 PROVE  \E k \in 1..Len(inbox) : inbox[k] = "garbage"
      BY DEF LeftInv
    <3>1. i + 1 \in 1..Len(inbox) /\ inbox[i + 1] = "garbage"
      BY <2>2
    <3>. QED  BY <3>1
  <2>4. reader' = "ended" => GarbageSent
    BY <2>1, <2>2 DEF LeftInv
  <2>. QED  BY <1>0, <2>1, <2>2, <2>3, <2>4 DEF LeftInv, GarbageSent
<1>5. ASSUME NEW e \in Events, ServerSends(e)
      PROVE  LeftInv'
  <2>1. sent' = Append(sent, e) /\ inbox' = Append(inbox, e) /\ UNCHANGED <<reader, taken>>
    BY <1>5 DEF ServerSends
  <2>2. /\ sent' \in Seq(Events) /\ Len(sent) \in Nat /\ Len(sent') = Len(sent) + 1
        /\ sent'[Len(sent) + 1] = e
        /\ \A i \in 1..Len(sent) : sent'[i] = sent[i]
    BY <1>0, <2>1, AppendedIsLast
  <2>3. /\ inbox' \in Seq(Events) /\ Len(inbox) \in Nat /\ Len(inbox') = Len(inbox) + 1
        /\ inbox'[Len(inbox) + 1] = e
        /\ \A i \in 1..Len(inbox) : inbox'[i] = inbox[i]
    BY <1>0, <2>1, AppendedIsLast
  <2>4. GarbageSent => GarbageSent'
    <3> SUFFICES ASSUME NEW i \in 1..Len(sent), sent[i] = "garbage" PROVE GarbageSent'
      BY DEF GarbageSent
    <3>1. i \in 1..Len(sent') /\ sent'[i] = "garbage"
      BY <2>2
    <3>. QED  BY <3>1 DEF GarbageSent
  <2>5. e = "garbage" => GarbageSent'
    <3>1. Len(sent) + 1 \in 1..Len(sent')
      BY <2>2
    <3>. QED  BY <2>2, <3>1 DEF GarbageSent
  <2>6. ASSUME NEW i \in 1..Len(inbox'), inbox'[i] = "garbage"
        PROVE  GarbageSent'
    <3>1. CASE i \in 1..Len(inbox)
      BY <2>3, <2>4, <2>6, <3>1 DEF LeftInv
    <3>2. CASE i = Len(inbox) + 1
      BY <2>3, <2>5, <2>6, <3>2
    <3>. QED  BY <2>3, <3>1, <3>2
  <2>. QED  BY <2>1, <2>2, <2>3, <2>4, <2>6 DEF LeftInv
<1>. QED  BY <1>2, <1>3, <1>4, <1>5 DEF EchoNext

\* The reader of webpubsub:echo ends by closeChan, or by what is no JSON: any
\* other session leaves it behind.
THEOREM EchoReaderLeft == MCSpec => []WebReaderIsLeft
<1> DEFINE Inv == kind = "web" => LeftInv
<1>1. MCInit => Inv
  <2>1. <<>> \in Seq(Events) /\ <<>> \in Seq(Events \cup {Closed}) /\ Len(<<>>) = 0
    OBVIOUS
  <2>. QED  BY <2>1 DEF MCInit, EchoInit, LeftInv
<1>2. Inv /\ [MCNext]_mcVars => Inv'
  BY LeftStep DEF MCNext, OfWeb, OfCore, mcVars
<1>3. Inv => WebReaderIsLeft
  BY DEF LeftInv, GarbageSent, WebReaderIsLeft, ReaderIsLeft
<1> HIDE DEF Inv
<1>. QED  BY <1>1, <1>2, <1>3, PTL DEF MCSpec

-----------------------------------------------------------------------------
\* The echoes the reader of signalrcore:echo has read.
Echoes(s) == {i \in 1..Len(s) : s[i] = "echo"}

\* One message more is one echo more, or none.
LEMMA EchoCount ==
    ASSUME NEW S, NEW s \in Seq(S), NEW m \in S
    PROVE  /\ Cardinality(Echoes(s)) \in Nat
           /\ Cardinality(Echoes(Append(s, m))) =
                Cardinality(Echoes(s)) + IF m = "echo" THEN 1 ELSE 0
<1>1. /\ Len(s) \in Nat /\ Len(Append(s, m)) = Len(s) + 1
      /\ Append(s, m)[Len(s) + 1] = m
      /\ \A i \in 1..Len(s) : Append(s, m)[i] = s[i]
  BY AppendedIsLast
<1>2. IsFiniteSet(Echoes(s)) /\ Cardinality(Echoes(s)) \in Nat
  <2>1. IsFiniteSet(1..Len(s))
    BY <1>1, FS_Interval
  <2>2. Echoes(s) \subseteq 1..Len(s)
    BY DEF Echoes
  <2>3. IsFiniteSet(Echoes(s))
    BY <2>1, <2>2, FS_Subset
  <2>. QED  BY <2>3, FS_CardinalityType
<1>3. CASE m = "echo"
  <2>1. Echoes(Append(s, m)) = Echoes(s) \cup {Len(s) + 1}
    BY <1>1, <1>3 DEF Echoes
  <2>2. Len(s) + 1 \notin Echoes(s)
    BY <1>1 DEF Echoes
  <2>3. Cardinality(Echoes(s) \cup {Len(s) + 1}) = Cardinality(Echoes(s)) + 1
    BY <1>2, <2>2, FS_AddElement
  <2>. QED  BY <1>2, <1>3, <2>1, <2>3
<1>4. CASE m # "echo"
  <2>1. Echoes(Append(s, m)) = Echoes(s)
    BY <1>1, <1>4 DEF Echoes
  <2>. QED  BY <1>2, <1>4, <2>1
<1>. QED  BY <1>2, <1>3, <1>4

\* echoReceivedChan is closed by the first echo, and no echo follows it in a
\* process that lives.
EchoedInv ==
    /\ seen \in Seq(Core!Messages) /\ inbox \in Seq(Core!Messages)
    /\ alive \in BOOLEAN /\ echoed \in BOOLEAN
    /\ alive => Cardinality(Echoes(seen)) = IF echoed THEN 1 ELSE 0
    /\ ~alive => reader = "reading" /\ Core!PanicIsProvoked

\* Execute closes the connection after the echo, and succeeds after the end of
\* the reader, which counts one error at most.
SuccessInv ==
    /\ main \in {"closing", "succeeded"} => echoed
    /\ main = "succeeded" => reader = "ended"
    /\ main \in {"new", "connecting"} => reader = "none"
    /\ success = IF main = "succeeded" THEN 1 ELSE 0
    /\ errors \in Int
    /\ errors <= (IF reader = "ended" THEN 1 ELSE 0) + (IF main = "failed" THEN 1 ELSE 0)

\* Every step of signalrcore:echo keeps EchoedInv.
LEMMA EchoedStep ==
    ASSUME EchoedInv, [Core!Next]_(Core!vars)
    PROVE  EchoedInv'
<1>1. ASSUME UNCHANGED <<alive, seen, echoed>>, inbox' \in Seq(Core!Messages),
             alive \/ reader' = reader
      PROVE  EchoedInv'
  BY <1>1 DEF EchoedInv, Core!PanicIsProvoked, Echoes
<1>2. inbox \in Seq(Core!Messages) /\ seen \in Seq(Core!Messages)
  BY DEF EchoedInv
<1>3. CASE \/ Core!Enter \/ Core!Connect \/ Core!Fail("connecting")
           \/ Core!WriteStep \/ Core!OnEcho \/ Core!CloseFails
           \/ Core!OnDone \/ Core!Timeout
  BY <1>1, <1>2, <1>3
  DEF Core!Enter, Core!Connect, Core!Fail, Core!WriteStep,
      Core!WriteEcho, Core!OnEcho, Core!CloseFails, Core!OnDone,
      Core!Timeout, Core!Moves, Core!readerVars
<1>4. CASE Core!ReadFails \/ UNCHANGED Core!vars
  BY <1>1, <1>2, <1>4 DEF Core!ReadFails, Core!vars, Core!mainVars, Core!readerVars
<1>5. ASSUME NEW m \in Core!Messages, Core!ServerSends(m)
      PROVE  EchoedInv'
  BY <1>1, <1>2, <1>5 DEF Core!ServerSends, Core!readerVars
<1>6. CASE Core!Read
  <2> DEFINE m == Head(inbox)
  <2>1. /\ alive /\ inbox # <<>> /\ inbox' = Tail(inbox) /\ seen' = Append(seen, m)
        /\ alive' = ~Core!Panics(m) /\ echoed' = (echoed \/ m = "echo")
        /\ reader' = IF m = "garbage" THEN "ended" ELSE "reading"
    BY <1>6 DEF Core!Read
  <2>2. m \in Core!Messages /\ inbox' \in Seq(Core!Messages)
    BY <1>2, <2>1
  <2> HIDE DEF m
  <2>3. seen' \in Seq(Core!Messages) /\ Core!Last(seen') = m
    BY <1>2, <2>1, <2>2, AppendedIsLast DEF Core!Last, Last
  <2>4. Cardinality(Echoes(seen')) = Cardinality(Echoes(seen)) + IF m = "echo" THEN 1 ELSE 0
    BY <1>2, <2>1, <2>2, EchoCount
  <2>5. Cardinality(Echoes(seen)) = IF echoed THEN 1 ELSE 0
    BY <2>1 DEF EchoedInv
  <2>6. CASE Core!Panics(m)
    <3>1. reader' = "reading" /\ ~alive'
      BY <2>1, <2>6 DEF Core!Panics
    <3>2. m \in {"empty", "short"} \/ Cardinality(Echoes(seen')) = 2
      BY <2>4, <2>5, <2>6 DEF Core!Panics
    <3>3. Core!PanicIsProvoked'
      BY <2>3, <3>2 DEF Core!PanicIsProvoked, Echoes, Cardinality, Core!Cardinality
    <3>. QED  BY <2>1, <2>2, <2>3, <3>1, <3>3 DEF EchoedInv
  <2>7. CASE ~Core!Panics(m)
    <3>1. alive' /\ ~(m = "echo" /\ echoed)
      BY <2>1, <2>7 DEF Core!Panics
    <3>2. Cardinality(Echoes(seen')) = IF echoed' THEN 1 ELSE 0
      <4>1. CASE m = "echo"
        <5>1. ~echoed /\ echoed'
          BY <2>1, <3>1, <4>1
        <5>. QED  BY <2>4, <2>5, <4>1, <5>1
      <4>2. CASE m # "echo"
        <5>1. echoed' <=> echoed
          BY <2>1, <4>2
        <5>2. Cardinality(Echoes(seen')) = Cardinality(Echoes(seen))
          BY <2>4, <2>5, <4>2
        <5>. QED  BY <2>5, <5>1, <5>2
      <4>. QED  BY <4>1, <4>2
    <3>. QED  BY <2>1, <2>2, <2>3, <3>1, <3>2 DEF EchoedInv
  <2>. QED  BY <2>6, <2>7
<1>. QED  BY <1>3, <1>4, <1>5, <1>6 DEF Core!Next

\* Every step of signalrcore:echo keeps SuccessInv.
LEMMA SuccessStep ==
    ASSUME SuccessInv, [Core!Next]_(Core!vars)
    PROVE  SuccessInv'
<1>1. CASE Core!Enter \/ Core!Connect
  BY <1>1 DEF SuccessInv, Core!Enter, Core!Connect, Core!Moves, Core!readerVars
<1>2. ASSUME NEW st \in {"connecting", "writing", "echoing", "closing"}, Core!Fail(st)
      PROVE  SuccessInv'
  <2>1. /\ main = st /\ main' = "failed" /\ errors' = errors + 1
        /\ UNCHANGED <<reader, echoed, success>>
    BY <1>2 DEF Core!Fail, Core!Moves, Core!readerVars
  <2>2. success = 0 /\ errors \in Int /\ errors <= IF reader = "ended" THEN 1 ELSE 0
    BY <2>1 DEF SuccessInv
  <2>3. errors' \in Int /\ errors' <= (IF reader' = "ended" THEN 1 ELSE 0) + 1
    BY <2>1, <2>2
  <2>. QED  BY <2>1, <2>2, <2>3 DEF SuccessInv
<1>3. CASE Core!WriteEcho \/ Core!OnEcho \/ Core!OnDone
  BY <1>3 DEF SuccessInv, Core!WriteEcho, Core!OnEcho, Core!OnDone,
              Core!Moves, Core!readerVars
<1>4. CASE Core!Read
  <2>1. /\ reader = "reading" /\ UNCHANGED <<main, success>>
        /\ echoed => echoed'
        /\ \/ reader' = "ended" /\ errors' = errors + 1
           \/ reader' = "reading" /\ errors' = errors
    BY <1>4 DEF Core!Read, Core!mainVars
  <2>. QED  BY <2>1 DEF SuccessInv
<1>5. CASE Core!ReadFails
  BY <1>5 DEF SuccessInv, Core!ReadFails, Core!mainVars
<1>6. ASSUME NEW m \in Core!Messages, Core!ServerSends(m)
      PROVE  SuccessInv'
  BY <1>6 DEF SuccessInv, Core!ServerSends, Core!mainVars, Core!readerVars
<1>7. CASE UNCHANGED Core!vars
  BY <1>7 DEF SuccessInv, Core!vars, Core!mainVars, Core!readerVars
<1>. QED
  BY <1>1, <1>2, <1>3, <1>4, <1>5, <1>6, <1>7
  DEF Core!Next, Core!WriteStep, Core!CloseFails, Core!Timeout

\* Both are invariants of signalrcore:echo.
THEOREM EchoedInductive == MCSpec => [](kind = "core" => EchoedInv /\ SuccessInv)
<1> DEFINE Inv == kind = "core" => EchoedInv /\ SuccessInv
<1>1. MCInit => Inv
  <2>1. <<>> \in Seq(Core!Messages) /\ Echoes(<<>>) = {}
    BY DEF Echoes
  <2> SUFFICES ASSUME Core!Init PROVE EchoedInv /\ SuccessInv
    BY DEF MCInit
  <2>2. alive /\ alive = TRUE /\ echoed = FALSE /\ seen = <<>> /\ inbox = <<>>
    BY DEF Core!Init
  <2>3. Cardinality(Echoes(seen)) = 0
    BY <2>1, <2>2, FS_EmptySet
  <2>4. EchoedInv
    BY <2>1, <2>2, <2>3 DEF EchoedInv
  <2>5. SuccessInv
    BY DEF Core!Init, SuccessInv
  <2>. QED  BY <2>4, <2>5
<1>2. Inv /\ [MCNext]_mcVars => Inv'
  BY EchoedStep, SuccessStep
  DEF MCNext, OfWeb, OfCore, mcVars, echoVars, coreVars,
      Core!vars, Core!mainVars, Core!readerVars
<1> HIDE DEF Inv
<1>3. MCSpec => []Inv
  BY <1>1, <1>2, PTL DEF MCSpec
<1>. QED  BY <1>3 DEF Inv

\* A success of signalrcore:echo stands for exactly one echo, the end of the
\* reader, and no more than the reader's error, whatever the server sends.
THEOREM EchoSuccessCore == MCSpec => []CoreSuccess
<1>1. (kind = "core" => EchoedInv /\ SuccessInv) => CoreSuccess
  <2> SUFFICES ASSUME EchoedInv, SuccessInv, success = 1
               PROVE  /\ Cardinality(Echoes(seen)) = 1
                      /\ reader = "ended"
                      /\ errors <= 1
    BY DEF CoreSuccess, Core!SuccessIsEchoed, Echoes, Cardinality, Core!Cardinality
  <2>1. main = "succeeded" /\ reader = "ended" /\ echoed /\ errors <= 1
    BY DEF SuccessInv
  <2>2. Cardinality(Echoes(seen)) = 1
    BY <2>1 DEF EchoedInv
  <2>. QED  BY <2>1, <2>2
<1>. QED  BY <1>1, EchoedInductive, PTL

\* Only a second echo or a malformed message ends the process.
THEOREM EchoPanicProvoked == MCSpec => []CorePanicIsProvoked
<1>1. (kind = "core" => EchoedInv /\ SuccessInv) => CorePanicIsProvoked
  BY DEF EchoedInv, CorePanicIsProvoked, Core!PanicIsProvoked
<1>. QED  BY <1>1, EchoedInductive, PTL
=============================================================================
