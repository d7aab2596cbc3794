---------------------------- MODULE MasterProofs ----------------------------
(***************************************************************************)
(* Master implements JobRun, and what it counts is what the agents have    *)
(* done for its job: for every number of agents and all bounds.            *)
(***************************************************************************)
EXTENDS Master, FiniteSetTheorems, TLAPS

\* Where Run, its calls of Setup and the watcher stand with respect to each
\* other: after the setup no Setup call is left that could take the process
\* down, and before it there is no watcher.
ControlInv ==
    /\ pc \in {"start", "setup"} => watcher = "none"
    /\ pc \in {"running", "final", "returned"} => watcher # "none"
    /\ pc \notin {"setup", "dead"} => \A a \in Agents : setup[a] \notin {"calling", "handled"}

\* Who is in collectCounters: the watcher only between a tick and its write,
\* Run only at its end.
CollectInv ==
    /\ watcher # "collect" => col["watch"].at = 0
    /\ pc \in {"start", "setup", "running"} => col["final"].at = 0
    /\ pc = "returned" => col["final"].aggregated

\* A tick, and so a collection of the watcher, comes a second after the start.
TimeInv ==
    /\ ticker = 1 => clock >= 1
    /\ tick \/ watcher = "collect" => clock >= 2

\* The inductive invariant.
RefInv == TypeOK /\ ControlInv /\ CollectInv /\ TimeInv

-----------------------------------------------------------------------------
\* A collection that asks an agent remains one.
LEMMA AskAgentType ==
    ASSUME TypeOK, NEW w \in Collectors, AskAgent(w)
    PROVE  col' \in [Collectors -> Collections]
<1> DEFINE a == col[w].at
<1>1. col[w] \in Collections
  BY DEF TypeOK
<1>2. a \in Agents
  BY <1>1, MasterAssumption DEF AskAgent, Collecting, Collections, Agents
<1>3. cnt[a] \in Nat
  BY <1>2 DEF TypeOK
<1> DEFINE s == col[w].sum + (IF link[a] = "up" THEN cnt[a] ELSE 0)
           m == col[w].missed \cup (IF link[a] = "up" THEN {} ELSE {a})
<1>4. s \in Nat
  BY <1>1, <1>3 DEF Collections
<1>5. m \in SUBSET Agents
  BY <1>1, <1>2 DEF Collections
<1>6. a + 1 \in 0..(NumAgents + 1)
  BY <1>2, MasterAssumption DEF Agents
<1>7. [at |-> a + 1, sum |-> s, missed |-> m, aggregated |-> FALSE] \in Collections
  <2> HIDE DEF a, s, m
  <2>. QED  BY <1>4, <1>5, <1>6 DEF Collections
<1>8. col' = [col EXCEPT ![w] = [at |-> a + 1, sum |-> s, missed |-> m, aggregated |-> FALSE]]
  BY DEF AskAgent
<1>. QED
  <2> HIDE DEF a, s, m
  <2>. QED  BY <1>7, <1>8 DEF TypeOK

\* Fresh and idle collections are collections.
LEMMA NewCollections == Fresh \in Collections /\ Idle \in Collections
BY MasterAssumption DEF Fresh, Idle, Collections

\* A collection makes a snapshot.
LEMMA SnapshotType ==
    ASSUME TypeOK, NEW w \in Collectors
    PROVE  SnapshotOf(w) \in Snapshots
BY DEF TypeOK, SnapshotOf, Snapshots, Collections

\* Type correctness.
THEOREM TypeCorrect == Spec => []TypeOK
<1>1. Init => TypeOK
  <2> SUFFICES ASSUME Init PROVE TypeOK
    OBVIOUS
  <2>1. cnt \in [Agents -> Nat]
    BY MasterAssumption DEF Init
  <2>2. snap \in Snapshots
    BY DEF Init, Snapshots
  <2>3. col \in [Collectors -> Collections]
    BY NewCollections DEF Init
  <2>4. clock \in 0..MaxClock
    BY MasterAssumption DEF Init
  <2>. QED  BY <2>1, <2>2, <2>3, <2>4 DEF Init, TypeOK, CallStates
<1>2. TypeOK /\ [Next]_vars => TypeOK'
  <2> SUFFICES ASSUME TypeOK, [Next]_vars PROVE TypeOK'
    OBVIOUS
  <2> USE MasterAssumption, NewCollections DEF TypeOK, CallStates, Collectors, agentVars, timeVars
  <2>1. CASE MainStep
    <3>1. CASE Start  BY <3>1 DEF Start
    <3>2. CASE SpawnRuns  BY <3>2 DEF SpawnRuns
    <3>3. CASE CloseStop  BY <3>3 DEF CloseStop
    <3>4. CASE WriteFinal  BY <3>4, SnapshotType DEF WriteFinal
    <3>. QED  BY <2>1, <3>1, <3>2, <3>3, <3>4 DEF MainStep
  <2>2. CASE WatcherStep
    <3>1. CASE WatcherTicks  BY <3>1 DEF WatcherTicks
    <3>2. CASE WatcherWrites  BY <3>2, SnapshotType DEF WatcherWrites
    <3>3. CASE WatcherStops  BY <3>3 DEF WatcherStops
    <3>. QED  BY <2>2, <3>1, <3>2, <3>3 DEF WatcherStep
  <2>3. CASE ClockStep
    <3>1. clock' \in 0..MaxClock
      BY <2>3 DEF ClockStep
    <3>2. ticker' \in {0, 1}
      BY <2>3 DEF ClockStep
    <3>3. tick' \in BOOLEAN
      <4>1. CASE watcher \in {"none", "stopped"}  BY <2>3, <4>1 DEF ClockStep
      <4>2. CASE watcher \notin {"none", "stopped"}
        <5>1. tick' = (tick \/ ticker = 1)  BY <2>3, <4>2 DEF ClockStep
        <5>. QED  BY <5>1
      <4>. QED  BY <4>1, <4>2
    <3>. QED  BY <2>3, <3>1, <3>2, <3>3 DEF ClockStep
  <2>4. ASSUME NEW a \in Agents, SetupStep(a) PROVE TypeOK'
    BY <2>4 DEF SetupStep, HandleSetup, SetupReturns, SetupFails
  <2>5. ASSUME NEW a \in Agents, RunStep(a) PROVE TypeOK'
    <3>1. CASE CompleteSession(a)  BY <3>1 DEF CompleteSession
    <3>2. CASE HandleRun(a) \/ FinishRun(a) \/ RunReturns(a) \/ RunFails(a)
      BY <3>2 DEF HandleRun, FinishRun, RunReturns, RunFails
    <3>. QED  BY <2>5, <3>1, <3>2 DEF RunStep
  <2>6. ASSUME NEW a \in Agents, LinkBreaks(a) PROVE TypeOK'
    BY <2>6 DEF LinkBreaks
  <2>7. ASSUME NEW w \in Collectors, AskAgent(w) PROVE TypeOK'
    BY <2>7, AskAgentType DEF AskAgent
  <2>8. ASSUME NEW w \in Collectors, AggregateCounters(w) PROVE TypeOK'
    <3>1. [col[w] EXCEPT !.aggregated = TRUE] \in Collections
      BY DEF Collections
    <3>. QED  BY <2>8, <3>1 DEF AggregateCounters
  <2>9. CASE UNCHANGED vars
    BY <2>9 DEF vars
  <2>. QED
    BY <2>1, <2>2, <2>3, <2>4, <2>5, <2>6, <2>7, <2>8, <2>9 DEF Next, CollectStep
<1>. QED  BY <1>1, <1>2, PTL DEF Spec

-----------------------------------------------------------------------------
\* The control of Run, of its Setup calls and of the watcher keep in step.
LEMMA ControlStep ==
    ASSUME TypeOK, ControlInv, [Next]_vars
    PROVE  ControlInv'
<1> USE DEF TypeOK, ControlInv, CallStates, agentVars, timeVars, Alive
<1>1. CASE MainStep
  BY <1>1 DEF MainStep, Start, SpawnRuns, CloseStop, WriteFinal
<1>2. CASE WatcherStep
  BY <1>2 DEF WatcherStep, WatcherTicks, WatcherWrites, WatcherStops
<1>3. CASE ClockStep
  BY <1>3 DEF ClockStep
<1>4. ASSUME NEW a \in Agents, SetupStep(a) PROVE ControlInv'
  BY <1>4 DEF SetupStep, HandleSetup, SetupReturns, SetupFails
<1>5. ASSUME NEW a \in Agents, RunStep(a) PROVE ControlInv'
  BY <1>5 DEF RunStep, HandleRun, CompleteSession, FinishRun, RunReturns, RunFails
<1>6. ASSUME NEW a \in Agents, LinkBreaks(a) PROVE ControlInv'
  BY <1>6 DEF LinkBreaks
<1>7. ASSUME NEW w \in Collectors, AskAgent(w) PROVE ControlInv'
  BY <1>7 DEF AskAgent
<1>8. ASSUME NEW w \in Collectors, AggregateCounters(w) PROVE ControlInv'
  BY <1>8 DEF AggregateCounters
<1>9. CASE UNCHANGED vars
  BY <1>9 DEF vars
<1>. QED
  BY <1>1, <1>2, <1>3, <1>4, <1>5, <1>6, <1>7, <1>8, <1>9 DEF Next, CollectStep

\* Only the watcher in its collection, and Run at its end, collect.
LEMMA CollectorsStep ==
    ASSUME TypeOK, ControlInv, CollectInv, [Next]_vars
    PROVE  CollectInv'
<1> USE DEF TypeOK, ControlInv, CollectInv, Collectors, agentVars, timeVars, Alive
<1>1. CASE MainStep
  BY <1>1 DEF MainStep, Start, SpawnRuns, CloseStop, WriteFinal
<1>2. CASE WatcherStep
  BY <1>2 DEF WatcherStep, WatcherTicks, WatcherWrites, WatcherStops, Idle
<1>3. CASE ClockStep
  BY <1>3 DEF ClockStep
<1>4. ASSUME NEW a \in Agents, SetupStep(a) PROVE CollectInv'
  BY <1>4 DEF SetupStep, HandleSetup, SetupReturns, SetupFails
<1>5. ASSUME NEW a \in Agents, RunStep(a) PROVE CollectInv'
  BY <1>5 DEF RunStep, HandleRun, CompleteSession, FinishRun, RunReturns, RunFails
<1>6. ASSUME NEW a \in Agents, LinkBreaks(a) PROVE CollectInv'
  BY <1>6 DEF LinkBreaks
<1>7. ASSUME NEW w \in Collectors, AskAgent(w) PROVE CollectInv'
  BY <1>7 DEF AskAgent, Collecting
<1>8. ASSUME NEW w \in Collectors, AggregateCounters(w) PROVE CollectInv'
  <2>1. pc' = pc \/ pc' = "dead"
    BY <1>8 DEF AggregateCounters
  <2>2. \A v \in Collectors : col'[v].at = col[v].at
    BY <1>8 DEF AggregateCounters, Collections
  <2>3. col["final"].aggregated => col'["final"].aggregated
    BY <1>8 DEF AggregateCounters, Collections
  <2>. QED  BY <1>8, <2>1, <2>2, <2>3 DEF AggregateCounters
<1>9. CASE UNCHANGED vars
  BY <1>9 DEF vars
<1>. QED
  BY <1>1, <1>2, <1>3, <1>4, <1>5, <1>6, <1>7, <1>8, <1>9 DEF Next, CollectStep

\* The ticker fires only after it has run for a whole second.
LEMMA TimeStep ==
    ASSUME TypeOK, TimeInv, [Next]_vars
    PROVE  TimeInv'
<1> USE MasterAssumption DEF TypeOK, TimeInv, agentVars, timeVars
<1>1. CASE MainStep
  BY <1>1 DEF MainStep, Start, SpawnRuns, CloseStop, WriteFinal
<1>2. CASE WatcherStep
  BY <1>2 DEF WatcherStep, WatcherTicks, WatcherWrites, WatcherStops
<1>3. CASE ClockStep
  <2>1. clock' >= clock /\ (clock' > clock \/ clock' >= 2)
    BY <1>3 DEF ClockStep
  <2>2. watcher' = watcher
    BY <1>3 DEF ClockStep
  <2>3. tick' => tick \/ ticker = 1
    BY <1>3 DEF ClockStep
  <2>4. ticker' = 1 => ticker = 1 \/ clock' > 0
    BY <1>3, <2>1 DEF ClockStep
  <2>5. clock \in Nat /\ clock' \in Nat
    BY <1>3 DEF ClockStep
  <2>. QED  BY <2>1, <2>2, <2>3, <2>4, <2>5
<1>4. ASSUME NEW a \in Agents, SetupStep(a) PROVE TimeInv'
  BY <1>4 DEF SetupStep, HandleSetup, SetupReturns, SetupFails
<1>5. ASSUME NEW a \in Agents, RunStep(a) PROVE TimeInv'
  BY <1>5 DEF RunStep, HandleRun, CompleteSession, FinishRun, RunReturns, RunFails
<1>6. ASSUME NEW a \in Agents, LinkBreaks(a) PROVE TimeInv'
  BY <1>6 DEF LinkBreaks
<1>7. ASSUME NEW w \in Collectors, CollectStep(w) PROVE TimeInv'
  BY <1>7 DEF CollectStep, AskAgent, AggregateCounters
<1>8. CASE UNCHANGED vars
  BY <1>8 DEF vars
<1>. QED
  BY <1>1, <1>2, <1>3, <1>4, <1>5, <1>6, <1>7, <1>8 DEF Next

\* RefInv is an invariant of Run.
THEOREM Inductive == Spec => []RefInv
<1>1. Init => ControlInv /\ CollectInv /\ TimeInv
  BY DEF Init, ControlInv, CollectInv, TimeInv, Collectors, Idle
<1>2. TypeOK /\ ControlInv /\ CollectInv /\ TimeInv /\ [Next]_vars
        => ControlInv' /\ CollectInv' /\ TimeInv'
  BY ControlStep, CollectorsStep, TimeStep
<1>. QED  BY <1>1, <1>2, TypeCorrect, PTL DEF Spec, RefInv

\* The watcher never divides by zero, however long the setup takes and
\* however the collection is interleaved with the rest.
THEOREM WatcherDivisionSafe == Spec => []WatcherNeverDividesByZero
<1>1. RefInv => WatcherNeverDividesByZero
  <2> SUFFICES ASSUME RefInv, Collecting("watch") PROVE ~DividesByZero
    BY DEF WatcherNeverDividesByZero, DivisionSafe
  <2>1. col["watch"] \in Collections
    BY DEF RefInv, TypeOK, Collectors
  <2>2. watcher = "collect"
    BY <2>1 DEF Collecting, RefInv, CollectInv, Collections
  <2>3. clock >= 2 /\ clock \in Nat
    BY <2>2, MasterAssumption DEF RefInv, TimeInv, TypeOK
  <2>. QED  BY <2>3 DEF DividesByZero
<1>. QED  BY <1>1, Inductive, PTL

-----------------------------------------------------------------------------
\* A step that leaves Run's control, the watcher's and the snapshot alone is
\* not seen by the caller.
LEMMA Unseen ==
    ASSUME UNCHANGED <<pc, watcher, snap>>
    PROVE  UNCHANGED Job!vars
BY DEF Job!vars, JobPhase, JobWatch

\* Every step of Run is a step of JobRun, or one the caller does not see.
LEMMA StepRefines ==
    ASSUME RefInv, [Next]_vars
    PROVE  [Job!Next]_(Job!vars)
<1> USE DEF RefInv, agentVars, timeVars, Alive
<1>1. CASE Start
  <2>1. Job!Begin
    BY <1>1 DEF Start, Job!Begin, JobPhase, JobWatch
  <2>. QED  BY <2>1 DEF Job!Next
<1>2. CASE SpawnRuns
  <2>1. Job!StartWatching
    BY <1>2 DEF SpawnRuns, ControlInv, Job!StartWatching, JobPhase, JobWatch
  <2>. QED  BY <2>1 DEF Job!Next
<1>3. CASE CloseStop
  <2>1. UNCHANGED Job!vars
    BY <1>3 DEF CloseStop, Job!vars, JobPhase, JobWatch
  <2>. QED  BY <2>1
<1>4. CASE WriteFinal
  <2>1. snap'.by = "final"
    BY <1>4 DEF WriteFinal, SnapshotOf
  <2>2. Job!Finish
    BY <1>4, <2>1 DEF WriteFinal, TypeOK, ControlInv, Job!Finish, JobPhase, JobWatch
  <2>. QED  BY <2>2 DEF Job!Next
<1>5. CASE WatcherTicks
  <2>1. Job!Collect
    BY <1>5 DEF WatcherTicks, TypeOK, ControlInv, Job!Collect, JobPhase, JobWatch
  <2>. QED  BY <2>1 DEF Job!Next
<1>6. CASE WatcherWrites
  <2>1. snap'.by = "watch"
    BY <1>6 DEF WatcherWrites, SnapshotOf
  <2>2. Job!WriteSnapshot
    BY <1>6, <2>1 DEF WatcherWrites, TypeOK, ControlInv, Job!WriteSnapshot, JobPhase, JobWatch
  <2>. QED  BY <2>2 DEF Job!Next
<1>7. CASE WatcherStops
  <2>1. Job!StopWatching
    BY <1>7 DEF WatcherStops, TypeOK, ControlInv, Job!StopWatching, JobPhase, JobWatch
  <2>. QED  BY <2>1 DEF Job!Next
<1>8. ASSUME NEW a \in Agents, SetupFails(a) PROVE [Job!Next]_(Job!vars)
  <2>1. pc = "setup"
    BY <1>8 DEF SetupFails, ControlInv
  <2>2. Job!Die
    BY <1>8, <2>1 DEF SetupFails, Job!Die, JobPhase, JobWatch
  <2>. QED  BY <2>2 DEF Job!Next
<1>9. ASSUME NEW w \in Collectors, AggregateCounters(w) PROVE [Job!Next]_(Job!vars)
  <2>1. CASE ~DividesByZero
    BY <1>9, <2>1, Unseen DEF AggregateCounters
  <2>2. CASE DividesByZero
    <3>1. w = "final"
      <4> SUFFICES ASSUME w = "watch" PROVE FALSE
        BY DEF Collectors
      <4>1. col["watch"] \in Collections
        BY DEF TypeOK, Collectors
      <4>2. watcher = "collect"
        BY <1>9, <4>1 DEF AggregateCounters, Collecting, CollectInv, Collections
      <4>3. clock >= 2 /\ clock \in Nat
        BY <4>2, MasterAssumption DEF TimeInv, TypeOK
      <4>. QED  BY <2>2, <4>3 DEF DividesByZero
    <3>2. pc = "final"
      <4>1. pc # "dead" /\ col["final"].at > 0 /\ ~col["final"].aggregated
        BY <1>9, <3>1 DEF AggregateCounters, Collecting
      <4>. QED  BY <4>1 DEF CollectInv, TypeOK
    <3>3. Job!Die
      BY <1>9, <2>2, <3>2 DEF AggregateCounters, Job!Die, JobPhase, JobWatch
    <3>. QED  BY <3>3 DEF Job!Next
  <2>. QED  BY <2>1, <2>2
<1>10. ASSUME NEW a \in Agents, HandleSetup(a) \/ SetupReturns(a) \/ RunStep(a) \/ LinkBreaks(a)
       PROVE  [Job!Next]_(Job!vars)
  <2>1. UNCHANGED <<pc, watcher, snap>>
    BY <1>10 DEF HandleSetup, SetupReturns, RunStep, HandleRun, CompleteSession,
                 FinishRun, RunReturns, RunFails, LinkBreaks
  <2>. QED  BY <2>1, Unseen
<1>11. ASSUME NEW w \in Collectors, AskAgent(w) PROVE [Job!Next]_(Job!vars)
  BY <1>11, Unseen DEF AskAgent
<1>12. CASE ClockStep
  BY <1>12, Unseen DEF ClockStep
<1>13. CASE UNCHANGED vars
  BY <1>13, Unseen DEF vars
<1>. QED
  BY <1>1, <1>2, <1>3, <1>4, <1>5, <1>6, <1>7, <1>8, <1>9, <1>10, <1>11, <1>12, <1>13
  DEF Next, MainStep, WatcherStep, SetupStep, CollectStep

\* Run implements JobRun: the last snapshot is written before the return, the
\* watcher may write once more over it, and only a run that has not returned
\* takes the process down.
THEOREM ImplementsJobRun == Spec => Job!Spec
<1>1. Init => Job!Init
  BY DEF Init, Job!Init, JobPhase, JobWatch
<1>2. RefInv /\ [Next]_vars => [Job!Next]_(Job!vars)
  BY StepRefines
<1>. QED  BY <1>1, <1>2, Inductive, PTL DEF Spec, Job!Spec

-----------------------------------------------------------------------------
(***************************************************************************)
(* Sums over sets of agents.  MapThenSumSet is a recursive function on the *)
(* subsets of a set: that it satisfies its equation, and what follows from *)
(* it, is shown by induction over subsets, for which the sets without a    *)
(* property have a minimal one.                                            *)
(***************************************************************************)

\* A set G of subsets of a finite set S that has each one whose proper subsets
\* it has is the set of all.
LEMMA SubsetInduction ==
    ASSUME NEW S, IsFiniteSet(S), NEW G,
           \A T \in SUBSET S : (\A U \in SUBSET T : U # T => U \in G) => T \in G
    PROVE  \A T \in SUBSET S : T \in G
<1> SUFFICES ASSUME NEW T0 \in SUBSET S, T0 \notin G PROVE FALSE
  OBVIOUS
<1> DEFINE B == {T \in SUBSET S : T \notin G}
           R == StrictSubsetOrdering(S)
           W == SUBSET S
<1>1. IsWellFoundedOn(R, W)
  <2>1. IsWellFoundedOn(R, FiniteSubsetsOf(S))
    BY FS_StrictSubsetOrderingWellFounded
  <2>2. FiniteSubsetsOf(S) = W
    BY FS_FiniteSubsetsOfFinite
  <2>. QED  BY <2>1, <2>2
<1>2. B \subseteq W /\ B # {}
  OBVIOUS
<1>3. PICK T \in B : \A U \in B : ~(<<U, T>> \in R)
  <2> HIDE DEF B, R, W
  <2>. QED  BY <1>1, <1>2, WFMin
<1>4. \A U \in SUBSET T : U # T => U \in G
  BY <1>3 DEF StrictSubsetOrdering
<1>. QED  BY <1>3, <1>4

\* The element that a sum over s takes first, and the others.
First(s) == CHOOSE x \in s : TRUE
Rest(s)  == s \ {First(s)}

\* The equation of the recursive function behind SumOver, and the function.
Sums(f, g, S) == g = [s \in SUBSET S |-> IF s = {} THEN 0 ELSE f[First(s)] + g[Rest(s)]]
Summing(f, S) == CHOOSE g : Sums(f, g, S)

\* SumOver by this function.
LEMMA SumBySumming ==
    ASSUME NEW f, NEW S
    PROVE  SumOver(f, S) = Summing(f, S)[S]
BY DEF SumOver, MapThenSumSet, MapThenFoldSet, Summing, Sums, First, Rest

\* The recursion goes to a proper subset.
LEMMA RestSmaller ==
    ASSUME NEW s, s # {}
    PROVE  First(s) \in s /\ Rest(s) \in SUBSET s /\ Rest(s) # s
BY DEF First, Rest

\* Two solutions of the equation agree where both are defined.
LEMMA SumsAgree ==
    ASSUME NEW f, NEW S, IsFiniteSet(S), NEW T, NEW g, NEW h, Sums(f, g, S), Sums(f, h, T)
    PROVE  \A s \in SUBSET S : s \in SUBSET T => g[s] = h[s]
<1> DEFINE G == {s \in SUBSET S : s \in SUBSET T => g[s] = h[s]}
<1>1. ASSUME NEW s \in SUBSET S, \A u \in SUBSET s : u # s => u \in G
      PROVE  s \in G
  <2> SUFFICES ASSUME s \in SUBSET T PROVE g[s] = h[s]
    OBVIOUS
  <2>1. CASE s = {}
    BY <2>1 DEF Sums
  <2>2. CASE s # {}
    <3>1. Rest(s) \in SUBSET s /\ Rest(s) # s
      BY <2>2, RestSmaller
    <3>2. g[Rest(s)] = h[Rest(s)]
      BY <1>1, <3>1
    <3>3. g[s] = f[First(s)] + g[Rest(s)] /\ h[s] = f[First(s)] + h[Rest(s)]
      BY <2>2 DEF Sums
    <3>. QED  BY <3>2, <3>3
  <2>. QED  BY <2>1, <2>2
<1>2. \A s \in SUBSET S : s \in G
  <2> HIDE DEF G
  <2>. QED  BY <1>1, SubsetInduction
<1>. QED  BY <1>2

\* The equation has a solution on a finite set: one is put together from those
\* on the proper subsets.
LEMMA SumsExist ==
    ASSUME NEW f, NEW S, IsFiniteSet(S)
    PROVE  Sums(f, Summing(f, S), S)
<1> DEFINE G == {s \in SUBSET S : \E g : Sums(f, g, s)}
<1>1. ASSUME NEW s \in SUBSET S, \A u \in SUBSET s : u # s => u \in G
      PROVE  s \in G
  <2> SUFFICES \E g : Sums(f, g, s)
    OBVIOUS
  <2>1. \A u \in SUBSET s : u # s => Sums(f, Summing(f, u), u)
    BY <1>1 DEF Summing
  <2> DEFINE v(u) == IF u = {} THEN 0 ELSE f[First(u)] + Summing(f, Rest(u))[Rest(u)]
             g == [u \in SUBSET s |-> v(u)]
  <2>2. ASSUME NEW u \in SUBSET s, u # {} PROVE g[Rest(u)] = Summing(f, Rest(u))[Rest(u)]
    <3> DEFINE w == Rest(u)
    <3>1. w \in SUBSET u /\ w # u
      BY <2>2, RestSmaller
    <3>2. w \in SUBSET s /\ w # s
      BY <3>1
    <3>3. Sums(f, Summing(f, w), w)
      BY <2>1, <3>2
    <3>4. g[w] = v(w)
      BY <3>2
    <3>5. CASE w = {}
      <4>1. Summing(f, w)[w] = 0 /\ v(w) = 0
        BY <3>3, <3>5 DEF Sums
      <4>. QED  BY <3>4, <4>1
    <3>6. CASE w # {}
      <4> DEFINE x == Rest(w)
      <4>1. x \in SUBSET w /\ x # w
        BY <3>6, RestSmaller
      <4>2. x \in SUBSET s /\ x # s
        BY <3>2, <4>1
      <4>3. Sums(f, Summing(f, x), x) /\ IsFiniteSet(x)
        BY <2>1, <4>2, FS_Subset
      <4>4. Summing(f, x)[x] = Summing(f, w)[x]
        BY <3>3, <4>1, <4>3, SumsAgree
      <4>5. Summing(f, w)[w] = f[First(w)] + Summing(f, w)[x]
        BY <3>3, <3>6 DEF Sums
      <4>6. v(w) = f[First(w)] + Summing(f, x)[x]
        BY <3>6
      <4>. QED  BY <3>4, <4>4, <4>5, <4>6
    <3>. QED  BY <3>5, <3>6
  <2>3. Sums(f, g, s)
    <3>1. ASSUME NEW u \in SUBSET s
          PROVE  g[u] = IF u = {} THEN 0 ELSE f[First(u)] + g[Rest(u)]
      BY <2>2
    <3>2. g = [u \in SUBSET s |-> g[u]]
      OBVIOUS
    <3> HIDE DEF g
    <3>. QED  BY <3>1, <3>2 DEF Sums
  <2>. QED  BY <2>3
<1>2. \A s \in SUBSET S : s \in G
  <2> HIDE DEF G
  <2>. QED  BY <1>1, SubsetInduction
<1>3. \E g : Sums(f, g, S)
  BY <1>2
<1>. QED  BY <1>3 DEF Summing

\* A sum over nothing is zero.
LEMMA SumEmpty ==
    ASSUME NEW f
    PROVE  SumOver(f, {}) = 0
<1>1. Sums(f, Summing(f, {}), {})
  BY FS_EmptySet, SumsExist
<1>. QED  BY <1>1, SumBySumming DEF Sums

\* A sum is its first summand and the sum of the others.
LEMMA SumFirst ==
    ASSUME NEW f, NEW S, IsFiniteSet(S), S # {}
    PROVE  SumOver(f, S) = f[First(S)] + SumOver(f, Rest(S))
<1>1. Rest(S) \in SUBSET S /\ IsFiniteSet(Rest(S))
  BY RestSmaller, FS_Subset
<1>2. Sums(f, Summing(f, S), S) /\ Sums(f, Summing(f, Rest(S)), Rest(S))
  BY <1>1, SumsExist
<1>3. Summing(f, Rest(S))[Rest(S)] = Summing(f, S)[Rest(S)]
  BY <1>1, <1>2, SumsAgree
<1>4. Summing(f, S)[S] = f[First(S)] + Summing(f, S)[Rest(S)]
  BY <1>2 DEF Sums
<1>. QED  BY <1>3, <1>4, SumBySumming

\* A sum of naturals is one.
LEMMA SumNat ==
    ASSUME NEW S, IsFiniteSet(S), NEW f \in [S -> Nat]
    PROVE  \A T \in SUBSET S : SumOver(f, T) \in Nat
<1> DEFINE G == {T \in SUBSET S : SumOver(f, T) \in Nat}
<1>1. ASSUME NEW s \in SUBSET S, \A u \in SUBSET s : u # s => u \in G
      PROVE  s \in G
  <2>1. CASE s = {}
    BY <2>1, SumEmpty
  <2>2. CASE s # {}
    <3>1. SumOver(f, s) = f[First(s)] + SumOver(f, Rest(s))
      BY <2>2, SumFirst, FS_Subset
    <3>2. First(s) \in s /\ Rest(s) \in SUBSET s /\ Rest(s) # s
      BY <2>2, RestSmaller
    <3>3. SumOver(f, Rest(s)) \in Nat
      BY <1>1, <3>2
    <3>. QED  BY <3>1, <3>2, <3>3
  <2>. QED  BY <2>1, <2>2
<1>2. \A s \in SUBSET S : s \in G
  <2> HIDE DEF G
  <2>. QED  BY <1>1, SubsetInduction
<1>. QED  BY <1>2

\* Any summand may be taken out first.
LEMMA SumElement ==
    ASSUME NEW S, IsFiniteSet(S), NEW f \in [S -> Nat]
    PROVE  \A T \in SUBSET S : \A x \in T : SumOver(f, T) = f[x] + SumOver(f, T \ {x})
<1> DEFINE G == {T \in SUBSET S : \A x \in T : SumOver(f, T) = f[x] + SumOver(f, T \ {x})}
<1>1. ASSUME NEW s \in SUBSET S, \A u \in SUBSET s : u # s => u \in G
      PROVE  s \in G
  <2> SUFFICES ASSUME NEW x \in s PROVE SumOver(f, s) = f[x] + SumOver(f, s \ {x})
    OBVIOUS
  <2> DEFINE y == First(s)
  <2>1. SumOver(f, s) = f[y] + SumOver(f, s \ {y})
    BY SumFirst, FS_Subset DEF Rest
  <2>2. y \in s
    BY RestSmaller
  <2> HIDE DEF y
  <2>3. CASE x = y
    BY <2>1, <2>3
  <2>4. CASE x # y
    <3> DEFINE z == SumOver(f, (s \ {x}) \ {y})
    <3>1. s \ {y} \in G /\ s \ {x} \in G
      BY <1>1, <2>2
    <3>2. SumOver(f, s \ {x}) = f[y] + z
      BY <2>2, <2>4, <3>1
    <3>3. SumOver(f, s \ {y}) = f[x] + z
      <4>1. (s \ {y}) \ {x} = (s \ {x}) \ {y}
        OBVIOUS
      <4>. QED  BY <2>4, <3>1, <4>1
    <3>4. f[x] \in Nat /\ f[y] \in Nat /\ z \in Nat
      BY <2>2, SumNat
    <3> HIDE DEF z
    <3>5. SumOver(f, s) = f[y] + (f[x] + z)
      BY <2>1, <3>3
    <3>6. f[x] + SumOver(f, s \ {x}) = f[x] + (f[y] + z)
      BY <3>2
    <3>7. f[y] + (f[x] + z) = f[x] + (f[y] + z)
      BY <3>4
    <3>. QED  BY <3>5, <3>6, <3>7
  <2>. QED  BY <2>3, <2>4
<1>2. \A s \in SUBSET S : s \in G
  <2> HIDE DEF G
  <2>. QED  BY <1>1, SubsetInduction
<1>. QED  BY <1>2

\* A sum grows with its summands.
LEMMA SumMonotone ==
    ASSUME NEW S, IsFiniteSet(S), NEW f \in [S -> Nat], NEW g \in [S -> Nat],
           \A x \in S : f[x] <= g[x]
    PROVE  \A T \in SUBSET S : SumOver(f, T) <= SumOver(g, T)
<1> DEFINE G == {T \in SUBSET S : SumOver(f, T) <= SumOver(g, T)}
<1>1. ASSUME NEW s \in SUBSET S, \A u \in SUBSET s : u # s => u \in G
      PROVE  s \in G
  <2>1. CASE s = {}
    BY <2>1, SumEmpty
  <2>2. CASE s # {}
    <3> DEFINE y == First(s)
    <3>1. y \in s /\ Rest(s) \in SUBSET s /\ Rest(s) # s
      BY <2>2, RestSmaller
    <3>2. SumOver(f, s) = f[y] + SumOver(f, Rest(s)) /\ SumOver(g, s) = g[y] + SumOver(g, Rest(s))
      BY <2>2, SumFirst, FS_Subset
    <3>3. SumOver(f, Rest(s)) <= SumOver(g, Rest(s))
      BY <1>1, <3>1
    <3>4. SumOver(f, Rest(s)) \in Nat /\ SumOver(g, Rest(s)) \in Nat
      BY <3>1, SumNat
    <3>5. f[y] \in Nat /\ g[y] \in Nat /\ f[y] <= g[y]
      BY <3>1
    <3> HIDE DEF y
    <3>. QED  BY <3>2, <3>3, <3>4, <3>5
  <2>. QED  BY <2>1, <2>2
<1>2. \A s \in SUBSET S : s \in G
  <2> HIDE DEF G
  <2>. QED  BY <1>1, SubsetInduction
<1>. QED  BY <1>2

\* A sum grows with its set.
LEMMA SumSubset ==
    ASSUME NEW S, IsFiniteSet(S), NEW f \in [S -> Nat], NEW T \in SUBSET S
    PROVE  SumOver(f, T) <= SumOver(f, S)
<1> DEFINE G == {U \in SUBSET S : \A V \in SUBSET U : SumOver(f, V) <= SumOver(f, U)}
<1>1. ASSUME NEW s \in SUBSET S, \A u \in SUBSET s : u # s => u \in G
      PROVE  s \in G
  <2> SUFFICES ASSUME NEW v \in SUBSET s PROVE SumOver(f, v) <= SumOver(f, s)
    OBVIOUS
  <2>1. CASE v = s
    BY <2>1, SumNat
  <2>2. CASE v # s
    <3>1. PICK x \in s : x \notin v
      BY <2>2
    <3>2. s \ {x} \in G
      BY <1>1, <3>1
    <3>3. SumOver(f, v) <= SumOver(f, s \ {x})
      BY <3>1, <3>2
    <3>4. SumOver(f, s) = f[x] + SumOver(f, s \ {x})
      BY <3>1, SumElement
    <3>5. f[x] \in Nat /\ SumOver(f, v) \in Nat /\ SumOver(f, s \ {x}) \in Nat
      BY SumNat
    <3>. QED  BY <3>3, <3>4, <3>5
  <2>. QED  BY <2>1, <2>2
<1>2. \A s \in SUBSET S : s \in G
  <2> HIDE DEF G
  <2>. QED  BY <1>1, SubsetInduction
<1>. QED  BY <1>2

-----------------------------------------------------------------------------
(***************************************************************************)
(* What the snapshots count.                                               *)
(***************************************************************************)

\* The agents that collection w has asked, those it will ask, and those of the
\* former that have answered.
Asked(w)    == {a \in Agents : a < col[w].at}
Unasked(w)  == {a \in Agents : a >= col[w].at}
Answered(w) == Asked(w) \ col[w].missed

\* No agent works before every agent is set up, or after Run has ended there;
\* from its Setup on an agent's counter says what it has done for this job.
WorkInv ==
    /\ pc \in {"start", "setup"} => \A a \in Agents : run[a] = "none" /\ work[a] = 0
    /\ pc \in {"running", "final", "returned"} => \A a \in Agents : setup[a] = "returned"
    /\ pc \in {"final", "returned"} => \A a \in Agents : run[a] = "returned"
    /\ \A a \in Agents : setup[a] \in {"handled", "returned"} => cnt[a] = work[a]

\* A collection is never ahead of the agents that have answered it.
NeverAhead(w) ==
    /\ col[w].missed \subseteq Asked(w)
    /\ col[w].aggregated => col[w].at = NumAgents + 1
    /\ col[w].sum <= SumOver(work, Answered(w))

SumInv == \A w \in Collectors : NeverAhead(w)

\* The last collection counts all the work of those that have answered it.
FinalInv ==
    pc \in {"final", "returned"} => col["final"].sum = SumOver(work, Answered("final"))

\* The snapshot is never ahead of the agents it counts; Run's own is the one of
\* the last collection.
SnapInv ==
    /\ snap.sum <= SumOver(work, Agents \ snap.missed)
    /\ snap.by = "final" => snap = SnapshotOf("final") /\ pc \in {"returned", "dead"}
    /\ pc = "returned" => snap.by # "nobody"

\* A collection of the watcher that misses no agent will count at least what
\* is shown, as long as that is not Run's own.
ShownInv ==
    /\ watcher = "collect" => col["watch"].at > 0
    /\ watcher = "collect" /\ col["watch"].missed = {} /\ snap.by # "final"
         => snap.sum <= col["watch"].sum + SumOver(work, Unasked("watch"))

\* The inductive invariant of the counts.
CountInv == WorkInv /\ SumInv /\ FinalInv /\ SnapInv /\ ShownInv

\* The agents are finitely many, and sums of their work are naturals.
LEMMA WorkSums ==
    ASSUME TypeOK
    PROVE  /\ IsFiniteSet(Agents) /\ work \in [Agents -> Nat]
           /\ \A S \in SUBSET Agents : SumOver(work, S) \in Nat
<1>1. 1 \in Int /\ NumAgents \in Int
  BY MasterAssumption
<1>2. IsFiniteSet(Agents)
  BY <1>1, FS_Interval DEF Agents
<1>3. work \in [Agents -> Nat]
  BY DEF TypeOK
<1>. QED  BY <1>2, <1>3, SumNat

\* Work is never taken back, nor are sums of it.
LEMMA WorkGrows ==
    ASSUME TypeOK, TypeOK', [Next]_vars
    PROVE  \A S \in SUBSET Agents :
               /\ SumOver(work, S) \in Nat /\ SumOver(work', S) \in Nat
               /\ SumOver(work, S) <= SumOver(work', S)
<1>1. \A a \in Agents : work[a] <= work'[a]
  <2> USE DEF TypeOK, agentVars
  <2>1. ASSUME NEW b \in Agents, CompleteSession(b) PROVE \A a \in Agents : work[a] <= work'[a]
    BY <2>1 DEF CompleteSession
  <2>2. CASE UNCHANGED work
    BY <2>2
  <2>3. UNCHANGED work \/ \E b \in Agents : CompleteSession(b)
    BY DEF Next, vars, MainStep, Start, SpawnRuns, CloseStop, WriteFinal, WatcherStep, WatcherTicks,
           WatcherWrites, WatcherStops, ClockStep, SetupStep, HandleSetup, SetupReturns, SetupFails,
           RunStep, HandleRun, FinishRun, RunReturns, RunFails, LinkBreaks, CollectStep, AskAgent,
           AggregateCounters
  <2>. QED  BY <2>1, <2>2, <2>3
<1>2. work \in [Agents -> Nat] /\ work' \in [Agents -> Nat]
  BY DEF TypeOK
<1>3. \A S \in SUBSET Agents : SumOver(work, S) <= SumOver(work', S)
  BY <1>1, <1>2, WorkSums, SumMonotone
<1>4. \A S \in SUBSET Agents : SumOver(work', S) \in Nat
  BY <1>2, WorkSums, SumNat
<1>. QED  BY <1>3, <1>4, WorkSums

\* Agents work between their Setup and the end of their Run only.
LEMMA WorkStep ==
    ASSUME TypeOK, ControlInv, WorkInv, [Next]_vars
    PROVE  WorkInv'
<1> USE DEF TypeOK, ControlInv, WorkInv, CallStates, agentVars, timeVars, Alive
<1>1. CASE MainStep
  BY <1>1 DEF MainStep, Start, SpawnRuns, CloseStop, WriteFinal
<1>2. CASE WatcherStep
  BY <1>2 DEF WatcherStep, WatcherTicks, WatcherWrites, WatcherStops
<1>3. CASE ClockStep
  BY <1>3 DEF ClockStep
<1>4. ASSUME NEW a \in Agents, SetupStep(a) PROVE WorkInv'
  BY <1>4 DEF SetupStep, HandleSetup, SetupReturns, SetupFails
<1>5. ASSUME NEW a \in Agents, RunStep(a) PROVE WorkInv'
  BY <1>5 DEF RunStep, HandleRun, CompleteSession, FinishRun, RunReturns, RunFails
<1>6. ASSUME NEW a \in Agents, LinkBreaks(a) PROVE WorkInv'
  BY <1>6 DEF LinkBreaks
<1>7. ASSUME NEW w \in Collectors, CollectStep(w) PROVE WorkInv'
  BY <1>7 DEF CollectStep, AskAgent, AggregateCounters
<1>8. CASE UNCHANGED vars
  BY <1>8 DEF vars
<1>. QED
  BY <1>1, <1>2, <1>3, <1>4, <1>5, <1>6, <1>7, <1>8 DEF Next

\* Work is done while Run waits for the agents, not after.
LEMMA WorkFrozen ==
    ASSUME WorkInv, [Next]_vars, pc \in {"final", "returned"}
    PROVE  UNCHANGED work
<1>1. \A a \in Agents : run[a] = "returned"
  BY DEF WorkInv
<1> USE DEF agentVars
<1>2. CASE MainStep
  BY <1>2 DEF MainStep, Start, SpawnRuns, CloseStop, WriteFinal
<1>3. CASE WatcherStep
  BY <1>3 DEF WatcherStep, WatcherTicks, WatcherWrites, WatcherStops
<1>4. CASE ClockStep
  BY <1>4 DEF ClockStep
<1>5. ASSUME NEW a \in Agents, SetupStep(a) \/ LinkBreaks(a) PROVE UNCHANGED work
  BY <1>5 DEF SetupStep, HandleSetup, SetupReturns, SetupFails, LinkBreaks
<1>6. ASSUME NEW a \in Agents, RunStep(a) PROVE UNCHANGED work
  BY <1>1, <1>6 DEF RunStep, HandleRun, CompleteSession, FinishRun, RunReturns, RunFails
<1>7. ASSUME NEW w \in Collectors, CollectStep(w) PROVE UNCHANGED work
  BY <1>7 DEF CollectStep, AskAgent, AggregateCounters
<1>8. CASE UNCHANGED vars
  BY <1>8 DEF vars
<1>. QED
  BY <1>2, <1>3, <1>4, <1>5, <1>6, <1>7, <1>8 DEF Next

\* A step that neither collects nor writes.
Quiet ==
    /\ UNCHANGED <<col, snap>>
    /\ pc' = pc \/ pc' = "dead" \/ (pc \in {"start", "setup"} /\ pc' \in {"setup", "running"})
    /\ watcher' = "collect" => watcher = "collect"

\* A collection passes AggregateCounters.
Aggregated(w) ==
    /\ Collecting(w)
    /\ col[w].at = NumAgents + 1
    /\ col' = [col EXCEPT ![w].aggregated = TRUE]
    /\ UNCHANGED <<pc, work, watcher, snap>>

\* What a step can do to the collections and the snapshot.
LEMMA StepKinds ==
    ASSUME [Next]_vars
    PROVE  \/ Quiet \/ WatcherTicks \/ WatcherWrites \/ CloseStop \/ WriteFinal
           \/ \E w \in Collectors : AskAgent(w) \/ Aggregated(w)
<1> USE DEF agentVars, Quiet
<1>1. CASE Start \/ SpawnRuns
  BY <1>1 DEF Start, SpawnRuns
<1>2. CASE WatcherStops \/ ClockStep
  BY <1>2 DEF WatcherStops, ClockStep
<1>3. ASSUME NEW a \in Agents, SetupStep(a) \/ LinkBreaks(a) PROVE Quiet
  BY <1>3 DEF SetupStep, HandleSetup, SetupReturns, SetupFails, LinkBreaks
<1>4. ASSUME NEW a \in Agents, RunStep(a) PROVE Quiet
  BY <1>4 DEF RunStep, HandleRun, CompleteSession, FinishRun, RunReturns, RunFails
<1>5. ASSUME NEW w \in Collectors, AggregateCounters(w) PROVE Quiet \/ Aggregated(w)
  BY <1>5 DEF AggregateCounters, Aggregated
<1>6. CASE UNCHANGED vars
  BY <1>6 DEF vars
<1> HIDE DEF Quiet
<1>. QED
  BY <1>1, <1>2, <1>3, <1>4, <1>5, <1>6 DEF Next, MainStep, WatcherStep, CollectStep

\* Who collects does so after the setup of the agents.
LEMMA CollectingLate ==
    ASSUME TypeOK, ControlInv, CollectInv, NEW w \in Collectors, Collecting(w)
    PROVE  pc \in {"running", "final", "returned"}
<1>1. CASE w = "watch"
  <2>1. col["watch"].at > 0
    BY <1>1 DEF Collecting
  <2>2. watcher = "collect"
    BY <2>1 DEF CollectInv
  <2>. QED  BY <2>2 DEF ControlInv, TypeOK, Collecting, Alive
<1>2. CASE w = "final"
  <2>1. col["final"].at > 0
    BY <1>2 DEF Collecting
  <2>2. pc \notin {"start", "setup", "running"}
    BY <2>1 DEF CollectInv
  <2>. QED  BY <2>2 DEF TypeOK, Collecting, Alive
<1>. QED  BY <1>1, <1>2 DEF Collectors

\* What asking an agent does to a collection: the agent's work is counted in,
\* or the agent is missed.
LEMMA AskEffect ==
    ASSUME TypeOK, ControlInv, CollectInv, WorkInv, NEW w \in Collectors, AskAgent(w),
           col[w].missed \subseteq Asked(w), NEW a, a = col[w].at
    PROVE  /\ a \in Agents
           /\ \A v \in Collectors : v # w => col'[v] = col[v]
           /\ col'[w].at = a + 1 /\ ~col'[w].aggregated
           /\ Asked(w)' = Asked(w) \cup {a}
           /\ SumOver(work, Unasked(w)) = work[a] + SumOver(work, Unasked(w)')
           /\ \/ /\ col'[w].missed = col[w].missed
                 /\ col'[w].sum = col[w].sum + work[a]
                 /\ SumOver(work, Answered(w)') = work[a] + SumOver(work, Answered(w))
              \/ /\ col'[w].missed = col[w].missed \cup {a}
                 /\ col'[w].sum = col[w].sum
                 /\ Answered(w)' = Answered(w)
<1>1. col[w] \in Collections
  BY DEF TypeOK
<1>2. a \in Agents
  BY <1>1, MasterAssumption DEF AskAgent, Collecting, Collections, Agents
<1>3. cnt[a] = work[a] /\ work[a] \in Nat
  BY <1>2, CollectingLate DEF AskAgent, WorkInv, TypeOK
<1>4. \A v \in Collectors : v # w => col'[v] = col[v]
  BY DEF AskAgent, TypeOK
<1> DEFINE s == col[w].sum + (IF link[a] = "up" THEN cnt[a] ELSE 0)
           m == col[w].missed \cup (IF link[a] = "up" THEN {} ELSE {a})
<1>5. col'[w] = [at |-> a + 1, sum |-> s, missed |-> m, aggregated |-> FALSE]
  BY DEF AskAgent, TypeOK
<1>6. col'[w].at = a + 1 /\ ~col'[w].aggregated /\ col'[w].sum = s /\ col'[w].missed = m
  BY <1>5
<1>7. a \in Int /\ \A b \in Agents : b \in Int
  BY <1>2, MasterAssumption DEF Agents
<1>8. Asked(w)' = Asked(w) \cup {a} /\ a \notin Asked(w)
  <2>1. \A b \in Agents : b < col'[w].at <=> b < col[w].at \/ b = a
    BY <1>6, <1>7
  <2>2. ~(a < col[w].at)
    BY <1>7
  <2>. QED  BY <1>2, <2>1, <2>2 DEF Asked
<1>9. SumOver(work, Unasked(w)) = work[a] + SumOver(work, Unasked(w)')
  <2>1. a \in Unasked(w) /\ Unasked(w)' = Unasked(w) \ {a} /\ Unasked(w) \in SUBSET Agents
    <3>1. \A b \in Agents : b >= col'[w].at <=> b >= col[w].at /\ b # a
      BY <1>6, <1>7
    <3>2. a >= col[w].at
      BY <1>7
    <3>. QED  BY <1>2, <3>1, <3>2 DEF Unasked
  <2>. QED  BY <2>1, WorkSums, SumElement
<1>10. CASE link[a] = "up"
  <2>1. m = col[w].missed /\ s = col[w].sum + work[a]
    BY <1>3, <1>10
  <2>2. a \notin col[w].missed
    BY <1>8
  <2>3. Answered(w)' = Answered(w) \cup {a} /\ a \notin Answered(w)
    <3>1. col'[w].missed = col[w].missed
      BY <1>6, <2>1
    <3> HIDE DEF m, s
    <3>. QED  BY <1>8, <2>2, <3>1 DEF Answered
  <2>4. /\ a \in Answered(w)' /\ Answered(w) = Answered(w)' \ {a}
        /\ Answered(w)' \in SUBSET Agents
    BY <1>2, <2>3 DEF Answered, Asked
  <2>5. SumOver(work, Answered(w)') = work[a] + SumOver(work, Answered(w))
    BY <2>4, WorkSums, SumElement
  <2>. QED  BY <1>2, <1>4, <1>6, <1>8, <1>9, <2>1, <2>5
<1>11. CASE link[a] # "up"
  <2>1. m = col[w].missed \cup {a} /\ s = col[w].sum
    BY <1>1, <1>11 DEF Collections
  <2>2. Answered(w)' = Answered(w)
    <3>1. col'[w].missed = col[w].missed \cup {a}
      BY <1>6, <2>1
    <3> HIDE DEF m, s
    <3>. QED  BY <1>8, <3>1 DEF Answered
  <2>. QED  BY <1>2, <1>4, <1>6, <1>8, <1>9, <2>1, <2>2
<1>. QED  BY <1>10, <1>11

\* A collection that is through the loop has asked every agent.
LEMMA AllAsked ==
    ASSUME NEW w, col[w].at = NumAgents + 1
    PROVE  Asked(w) = Agents /\ Answered(w) = Agents \ col[w].missed /\ Unasked(w) = {}
<1>1. \A a \in Agents : a < NumAgents + 1 /\ ~(a >= NumAgents + 1)
  BY MasterAssumption DEF Agents
<1>. QED  BY <1>1 DEF Asked, Answered, Unasked

\* A collection that begins or is over is ahead of nobody.
LEMMA NewNeverAhead ==
    ASSUME TypeOK, TypeOK', [Next]_vars, NEW w \in Collectors, col'[w] \in {Fresh, Idle}
    PROVE  NeverAhead(w)'
<1>1. col'[w].missed = {} /\ col'[w].sum = 0 /\ col'[w].aggregated = FALSE
  BY DEF Fresh, Idle
<1>2. Answered(w)' \in SUBSET Agents
  BY DEF Answered, Asked
<1>3. SumOver(work', Answered(w)') \in Nat
  BY <1>2, WorkGrows
<1>. QED  BY <1>1, <1>3 DEF NeverAhead

\* A collection that a step leaves alone stays behind.
LEMMA SameNeverAhead ==
    ASSUME TypeOK, TypeOK', [Next]_vars, NEW w \in Collectors, NeverAhead(w), col'[w] = col[w]
    PROVE  NeverAhead(w)'
<1>1. Asked(w)' = Asked(w) /\ Answered(w)' = Answered(w) /\ Answered(w) \in SUBSET Agents
  BY DEF Answered, Asked
<1>2. SumOver(work, Answered(w)) <= SumOver(work', Answered(w))
  BY <1>1, WorkGrows
<1>3. /\ SumOver(work, Answered(w)) \in Nat /\ SumOver(work', Answered(w)) \in Nat
      /\ col[w].sum \in Nat
  BY <1>1, WorkGrows DEF TypeOK, Collections
<1>4. col[w].sum <= SumOver(work', Answered(w))
  BY <1>2, <1>3 DEF NeverAhead
<1>. QED  BY <1>1, <1>4 DEF NeverAhead

\* No step puts a collection ahead of the agents.
LEMMA SumStep ==
    ASSUME TypeOK, TypeOK', ControlInv, CollectInv, WorkInv, SumInv, [Next]_vars
    PROVE  SumInv'
<1> SUFFICES ASSUME NEW w \in Collectors PROVE NeverAhead(w)'
  BY DEF SumInv
<1>1. NeverAhead(w)
  BY DEF SumInv
<1>2. CASE col'[w] = col[w]
  BY <1>1, <1>2, SameNeverAhead
<1>3. CASE col'[w] \in {Fresh, Idle}
  BY <1>3, NewNeverAhead
<1>4. CASE AskAgent(w)
  <2> DEFINE a == col[w].at
  <2>1. col[w].missed \subseteq Asked(w)
    BY <1>1 DEF NeverAhead
  <2>2. /\ a \in Agents /\ ~col'[w].aggregated /\ Asked(w)' = Asked(w) \cup {a}
        /\ \/ /\ col'[w].missed = col[w].missed
              /\ col'[w].sum = col[w].sum + work[a]
              /\ SumOver(work, Answered(w)') = work[a] + SumOver(work, Answered(w))
           \/ /\ col'[w].missed = col[w].missed \cup {a}
              /\ col'[w].sum = col[w].sum
              /\ Answered(w)' = Answered(w)
    BY <1>4, <2>1, AskEffect
  <2>3. work' = work
    BY <1>4 DEF AskAgent, agentVars
  <2>4. col'[w].missed \subseteq Asked(w)'
    BY <2>1, <2>2
  <2>5. col[w].sum \in Nat /\ work[a] \in Nat /\ SumOver(work, Answered(w)) \in Nat
    <3>1. Answered(w) \in SUBSET Agents
      BY DEF Answered, Asked
    <3>. QED  BY <2>2, <3>1, WorkSums DEF TypeOK, Collections
  <2>6. col[w].sum <= SumOver(work, Answered(w))
    BY <1>1 DEF NeverAhead
  <2>7. col'[w].sum <= SumOver(work, Answered(w)')
    <3> HIDE DEF a
    <3>. QED  BY <2>2, <2>5, <2>6
  <2>. QED  BY <2>2, <2>3, <2>4, <2>7 DEF NeverAhead
<1>5. CASE Aggregated(w)
  <2>1. /\ col'[w].at = col[w].at /\ col'[w].missed = col[w].missed
        /\ col'[w].sum = col[w].sum /\ work' = work /\ col[w].at = NumAgents + 1
    BY <1>5 DEF Aggregated, TypeOK, Collections
  <2>2. Asked(w)' = Asked(w) /\ Answered(w)' = Answered(w)
    BY <2>1 DEF Asked, Answered
  <2>. QED  BY <1>1, <2>1, <2>2 DEF NeverAhead
<1>6. \/ AskAgent(w) \/ Aggregated(w) \/ col'[w] = col[w] \/ col'[w] \in {Fresh, Idle}
  <2> USE DEF TypeOK, Collectors
  <2>1. CASE Quiet  BY <2>1 DEF Quiet
  <2>2. CASE WatcherTicks  BY <2>2 DEF WatcherTicks
  <2>3. CASE WatcherWrites  BY <2>3 DEF WatcherWrites
  <2>4. CASE CloseStop  BY <2>4 DEF CloseStop
  <2>5. CASE WriteFinal  BY <2>5 DEF WriteFinal
  <2>6. ASSUME NEW v \in Collectors, v # w, AskAgent(v) \/ Aggregated(v) PROVE col'[w] = col[w]
    BY <2>6 DEF AskAgent, Aggregated
  <2>. QED  BY <2>1, <2>2, <2>3, <2>4, <2>5, <2>6, StepKinds
<1>. QED  BY <1>2, <1>3, <1>4, <1>5, <1>6

\* What the last collection has not missed, it counts whole: nobody works on.
LEMMA FinalStep ==
    ASSUME TypeOK, TypeOK', ControlInv, CollectInv, WorkInv, SumInv, FinalInv, [Next]_vars
    PROVE  FinalInv'
<1> DEFINE Whole == col["final"].sum = SumOver(work, Answered("final"))
<1> SUFFICES ASSUME pc' \in {"final", "returned"} PROVE Whole'
  BY DEF FinalInv
<1> USE DEF Collectors
<1>1. CASE CloseStop
  <2>1. col'["final"].at = 1 /\ col'["final"].sum = 0
    BY <1>1 DEF CloseStop, Fresh, TypeOK
  <2>2. \A a \in Agents : ~(a < 1)
    BY MasterAssumption DEF Agents
  <2>3. Answered("final")' = {}
    BY <2>1, <2>2 DEF Answered, Asked
  <2>. QED  BY <2>1, <2>3, SumEmpty
<1>2. CASE ~CloseStop
  <2>1. pc \in {"final", "returned"}
    <3>1. CASE Quiet  BY <3>1 DEF Quiet
    <3>2. CASE WatcherTicks \/ WatcherWrites \/ WriteFinal
      BY <3>2 DEF WatcherTicks, WatcherWrites, WriteFinal
    <3>3. ASSUME NEW w \in Collectors, AskAgent(w) \/ Aggregated(w) PROVE pc' = pc
      BY <3>3 DEF AskAgent, Aggregated
    <3>. QED  BY <1>2, <3>1, <3>2, <3>3, StepKinds
  <2>2. work' = work /\ Whole
    BY <2>1, WorkFrozen DEF FinalInv
  <2>3. CASE col'["final"] = col["final"]
    <3>1. Answered("final")' = Answered("final")
      BY <2>3 DEF Answered, Asked
    <3>. QED  BY <2>2, <2>3, <3>1
  <2>4. CASE Aggregated("final")
    <3>1. /\ col'["final"].at = col["final"].at /\ col'["final"].missed = col["final"].missed
          /\ col'["final"].sum = col["final"].sum
      BY <2>4 DEF Aggregated, TypeOK, Collections
    <3>2. Answered("final")' = Answered("final")
      BY <3>1 DEF Answered, Asked
    <3>. QED  BY <2>2, <3>1, <3>2
  <2>5. CASE AskAgent("final")
    <3> DEFINE a == col["final"].at
    <3>1. col["final"].missed \subseteq Asked("final")
      BY DEF SumInv, NeverAhead
    <3>2. /\ a \in Agents
          /\ \/ /\ col'["final"].sum = col["final"].sum + work[a]
                /\ SumOver(work, Answered("final")') = work[a] + SumOver(work, Answered("final"))
             \/ /\ col'["final"].sum = col["final"].sum
                /\ Answered("final")' = Answered("final")
      BY <2>5, <3>1, AskEffect
    <3>3. col["final"].sum \in Nat /\ work[a] \in Nat
      BY <3>2 DEF TypeOK, Collections
    <3>4. col'["final"].sum = SumOver(work, Answered("final")')
      <4> HIDE DEF a
      <4>. QED  BY <2>2, <3>2, <3>3
    <3>. QED  BY <2>2, <3>4
  <2>6. col'["final"] = col["final"] \/ Aggregated("final") \/ AskAgent("final")
    <3> USE DEF TypeOK
    <3>1. CASE Quiet  BY <3>1 DEF Quiet
    <3>2. CASE WatcherTicks \/ WatcherWrites \/ WriteFinal
      BY <3>2 DEF WatcherTicks, WatcherWrites, WriteFinal
    <3>3. CASE AskAgent("watch") \/ Aggregated("watch")
      BY <3>3 DEF AskAgent, Aggregated
    <3>. QED  BY <1>2, <3>1, <3>2, <3>3, StepKinds
  <2>. QED  BY <2>3, <2>4, <2>5, <2>6
<1>. QED  BY <1>1, <1>2

\* A step that writes nothing leaves the snapshot behind the agents.
LEMMA SameSnap ==
    ASSUME TypeOK, TypeOK', [Next]_vars, SnapInv, snap' = snap
    PROVE  snap'.sum <= SumOver(work', Agents \ snap'.missed)
<1>1. Agents \ snap.missed \in SUBSET Agents
  OBVIOUS
<1>2. /\ SumOver(work, Agents \ snap.missed) <= SumOver(work', Agents \ snap.missed)
      /\ SumOver(work, Agents \ snap.missed) \in Nat
      /\ SumOver(work', Agents \ snap.missed) \in Nat
  BY <1>1, WorkGrows
<1>3. snap.sum \in Nat /\ snap.sum <= SumOver(work, Agents \ snap.missed)
  BY DEF TypeOK, Snapshots, SnapInv
<1>4. snap.sum <= SumOver(work', Agents \ snap.missed)
  BY <1>2, <1>3
<1>. QED  BY <1>4

\* A collection that is written is not ahead of the agents it has counted.
LEMMA WrittenSnap ==
    ASSUME SumInv, NEW w \in Collectors, col[w].aggregated, snap' = SnapshotOf(w), work' = work
    PROVE  snap'.sum <= SumOver(work', Agents \ snap'.missed)
<1>1. col[w].at = NumAgents + 1 /\ col[w].sum <= SumOver(work, Answered(w))
  BY DEF SumInv, NeverAhead
<1>2. Answered(w) = Agents \ col[w].missed
  BY <1>1, AllAsked
<1>3. snap'.sum = col[w].sum /\ snap'.missed = col[w].missed
  BY DEF SnapshotOf
<1>. QED  BY <1>1, <1>2, <1>3

\* The snapshot stays behind the agents; Run's own is never changed in place.
LEMMA SnapStep ==
    ASSUME TypeOK, TypeOK', ControlInv, CollectInv, WorkInv, SumInv, SnapInv, [Next]_vars
    PROVE  SnapInv'
<1> DEFINE Own == snap.by = "final" => snap = SnapshotOf("final") /\ pc \in {"returned", "dead"}
           Some == pc = "returned" => snap.by # "nobody"
<1>1. Own /\ Some
  BY DEF SnapInv
<1> USE DEF Collectors, agentVars
<1>2. CASE WatcherWrites
  <2>1. col["watch"].aggregated /\ snap' = SnapshotOf("watch") /\ work' = work
    BY <1>2 DEF WatcherWrites
  <2>2. snap'.by = "watch"
    BY <2>1 DEF SnapshotOf
  <2>. QED  BY <2>1, <2>2, WrittenSnap DEF SnapInv
<1>3. CASE WriteFinal
  <2>1. col["final"].aggregated /\ snap' = SnapshotOf("final") /\ work' = work
        /\ pc' = "returned" /\ col' = col
    BY <1>3 DEF WriteFinal
  <2>2. snap'.by = "final" /\ SnapshotOf("final")' = SnapshotOf("final")
    BY <2>1 DEF SnapshotOf
  <2>. QED  BY <2>1, <2>2, WrittenSnap DEF SnapInv
<1>4. CASE CloseStop
  <2>1. snap' = snap /\ pc' = "final" /\ snap.by # "final"
    BY <1>1, <1>4 DEF CloseStop
  <2>. QED  BY <2>1, SameSnap DEF SnapInv
<1>5. CASE ~WatcherWrites /\ ~WriteFinal /\ ~CloseStop
  <2> DEFINE Keeps == /\ snap' = snap
                      /\ pc' = "returned" => pc = "returned"
                      /\ pc \in {"returned", "dead"} => pc' \in {"returned", "dead"}
  <2>1. Keeps
    <3>1. CASE Quiet  BY <3>1 DEF Quiet
    <3>2. CASE WatcherTicks  BY <3>2 DEF WatcherTicks
    <3>3. ASSUME NEW w \in Collectors, AskAgent(w) \/ Aggregated(w) PROVE Keeps
      BY <3>3 DEF AskAgent, Aggregated
    <3>. QED  BY <1>5, <3>1, <3>2, <3>3, StepKinds
  <2>2. snap.by = "final" => col'["final"] = col["final"]
    <3> SUFFICES ASSUME snap.by = "final" PROVE col'["final"] = col["final"]
      OBVIOUS
    <3>1. ~Collecting("final")
      BY <1>1 DEF Collecting, CollectInv, Alive
    <3> USE DEF TypeOK
    <3>2. CASE Quiet  BY <3>2 DEF Quiet
    <3>3. CASE WatcherTicks  BY <3>3 DEF WatcherTicks
    <3>4. CASE AskAgent("watch") \/ Aggregated("watch")
      BY <3>4 DEF AskAgent, Aggregated
    <3>5. CASE AskAgent("final") \/ Aggregated("final")
      BY <3>1, <3>5 DEF AskAgent, Aggregated
    <3>. QED  BY <1>5, <3>2, <3>3, <3>4, <3>5, StepKinds
  <2>3. snap.by = "final" => SnapshotOf("final")' = SnapshotOf("final")
    BY <2>2 DEF SnapshotOf
  <2>4. snap'.sum <= SumOver(work', Agents \ snap'.missed)
    BY <2>1, SameSnap
  <2>5. Own' /\ Some'
    BY <1>1, <2>1, <2>3
  <2>. QED  BY <2>4, <2>5 DEF SnapInv
<1>. QED  BY <1>2, <1>3, <1>4, <1>5

\* The watcher's collection, with what is left to ask, keeps up with what is
\* shown.
LEMMA ShownStep ==
    ASSUME TypeOK, TypeOK', ControlInv, CollectInv, WorkInv, SumInv, SnapInv, ShownInv, [Next]_vars
    PROVE  ShownInv'
<1> USE DEF Collectors
<1> DEFINE c == col["watch"]
           rest == SumOver(work, Unasked("watch"))
           Room == snap.sum <= c.sum + rest
<1>1. c \in Collections /\ c' \in Collections /\ snap.sum \in Nat /\ rest \in Nat
  <2>1. Unasked("watch") \in SUBSET Agents
    BY DEF Unasked
  <2>. QED  BY <2>1, WorkSums DEF TypeOK, Snapshots
<1>2. CASE WatcherTicks
  <2>1. c' = Fresh /\ snap' = snap /\ work' = work
    BY <1>2 DEF WatcherTicks, agentVars, TypeOK
  <2>2. c'.at = 1 /\ c'.sum = 0 /\ c'.missed = {}
    BY <2>1 DEF Fresh
  <2>3. \A a \in Agents : a >= 1
    BY MasterAssumption DEF Agents
  <2>4. Unasked("watch")' = Agents
    BY <2>2, <2>3 DEF Unasked
  <2>5. /\ snap.sum <= SumOver(work, Agents \ snap.missed)
        /\ SumOver(work, Agents \ snap.missed) <= SumOver(work, Agents)
        /\ SumOver(work, Agents \ snap.missed) \in Nat
        /\ SumOver(work, Agents) \in Nat
    <3>1. Agents \ snap.missed \in SUBSET Agents
      OBVIOUS
    <3>. QED  BY <3>1, WorkSums, SumSubset DEF SnapInv
  <2>6. snap.sum <= 0 + SumOver(work, Agents)
    BY <1>1, <2>5
  <2>7. Room'
    BY <2>1, <2>2, <2>4, <2>6
  <2>. QED  BY <2>2, <2>7 DEF ShownInv
<1>3. CASE WatcherWrites
  BY <1>3 DEF WatcherWrites, ShownInv
<1>4. CASE WriteFinal
  <2>1. col' = col /\ watcher' = watcher /\ snap'.by = "final"
    BY <1>4 DEF WriteFinal, SnapshotOf
  <2>. QED  BY <2>1 DEF ShownInv
<1>5. CASE AskAgent("watch")
  <2> DEFINE a == c.at
  <2>1. c.missed \subseteq Asked("watch")
    BY DEF SumInv, NeverAhead
  <2>2. /\ a \in Agents /\ c'.at = a + 1
        /\ rest = work[a] + SumOver(work, Unasked("watch")')
        /\ \/ c'.missed = c.missed /\ c'.sum = c.sum + work[a]
           \/ c'.missed = c.missed \cup {a}
    BY <1>5, <2>1, AskEffect
  <2>3. snap' = snap /\ watcher' = watcher /\ work' = work
    BY <1>5 DEF AskAgent, agentVars
  <2>4. c'.at > 0
    BY <2>2, MasterAssumption DEF Agents
  <2>5. ASSUME Room, c'.missed = {} PROVE Room'
    <3>1. c'.sum = c.sum + work[a] /\ rest = work[a] + SumOver(work, Unasked("watch")')
      BY <2>2, <2>5
    <3>2. c.sum \in Nat /\ work[a] \in Nat /\ SumOver(work, Unasked("watch")') \in Nat
      <4>1. Unasked("watch")' \in SUBSET Agents
        BY DEF Unasked
      <4>. QED  BY <1>1, <2>2, <4>1, WorkSums DEF TypeOK, Collections
    <3>3. snap.sum <= c.sum + rest
      BY <2>5
    <3>4. snap.sum <= c'.sum + SumOver(work, Unasked("watch")')
      <4> HIDE DEF a, c, rest
      <4>. QED  BY <1>1, <3>1, <3>2, <3>3
    <3>. QED  BY <2>3, <3>4
  <2>6. c'.missed = {} => c.missed = {}
    BY <2>2
  <2>. QED  BY <2>3, <2>4, <2>5, <2>6 DEF ShownInv
<1>6. CASE ~WatcherTicks /\ ~WatcherWrites /\ ~WriteFinal /\ ~AskAgent("watch")
  <2>1. /\ c'.at = c.at /\ c'.sum = c.sum /\ c'.missed = c.missed
        /\ snap' = snap /\ (watcher' = "collect" => watcher = "collect")
    <3> USE DEF TypeOK
    <3>1. CASE Quiet  BY <3>1 DEF Quiet
    <3>2. CASE CloseStop  BY <3>2 DEF CloseStop
    <3>3. CASE AskAgent("final") \/ Aggregated("final")  BY <3>3 DEF AskAgent, Aggregated
    <3>4. CASE Aggregated("watch")  BY <3>4 DEF Aggregated, Collections
    <3>. QED  BY <1>6, <3>1, <3>2, <3>3, <3>4, StepKinds
  <2>2. Unasked("watch")' = Unasked("watch") /\ Unasked("watch") \in SUBSET Agents
    BY <2>1 DEF Unasked
  <2>3. rest <= rest' /\ rest' \in Nat
    BY <2>2, WorkGrows
  <2>4. ASSUME Room PROVE Room'
    <3>1. snap.sum <= c.sum + rest /\ c.sum \in Nat
      BY <1>1, <2>4 DEF Collections
    <3>2. snap.sum <= c.sum + rest'
      <4> HIDE DEF c, rest
      <4>. QED  BY <1>1, <2>3, <3>1
    <3>. QED  BY <2>1, <3>2
  <2>. QED  BY <2>1, <2>4 DEF ShownInv
<1>. QED  BY <1>2, <1>3, <1>4, <1>5, <1>6

\* CountInv is an invariant of Run.
THEOREM CountInductive == Spec => []CountInv
<1>1. Init => CountInv
  <2> SUFFICES ASSUME Init PROVE CountInv
    OBVIOUS
  <2>1. work = [a \in Agents |-> 0] /\ work \in [Agents -> Nat] /\ IsFiniteSet(Agents)
    <3>1. 1 \in Int /\ NumAgents \in Int
      BY MasterAssumption
    <3>. QED  BY <3>1, FS_Interval DEF Init, Agents
  <2>2. \A S \in SUBSET Agents : 0 <= SumOver(work, S)
    <3>1. \A S \in SUBSET Agents : SumOver(work, S) \in Nat
      BY <2>1, SumNat
    <3>. QED  BY <3>1
  <2>3. WorkInv
    BY <2>1 DEF Init, WorkInv
  <2>4. SumInv
    <3> SUFFICES ASSUME NEW w \in Collectors PROVE NeverAhead(w)
      BY DEF SumInv
    <3>1. col[w] = Idle
      BY DEF Init
    <3>2. Answered(w) \in SUBSET Agents
      BY DEF Answered, Asked
    <3>. QED  BY <2>2, <3>1, <3>2 DEF NeverAhead, Idle
  <2>5. SnapInv
    <3>1. Agents \ snap.missed \in SUBSET Agents /\ snap.sum = 0 /\ snap.by = "nobody"
      BY DEF Init
    <3>. QED  BY <2>2, <3>1 DEF SnapInv, Init
  <2>. QED  BY <2>3, <2>4, <2>5 DEF CountInv, FinalInv, ShownInv, Init
<1>2. RefInv /\ RefInv' /\ CountInv /\ [Next]_vars => CountInv'
  BY WorkStep, SumStep, FinalStep, SnapStep, ShownStep DEF RefInv, CountInv
<1>. QED  BY <1>1, <1>2, Inductive, PTL DEF Spec

\* No snapshot, and no collection under way, counts a session that this job
\* has not completed, for every number of agents and all leftovers of earlier
\* jobs.
THEOREM CountsThisJob == Spec => []SnapshotCountsThisJob
<1>1. RefInv /\ CountInv => SnapshotCountsThisJob
  <2> SUFFICES ASSUME RefInv, CountInv PROVE SnapshotCountsThisJob
    OBVIOUS
  <2>1. TypeOK
    BY DEF RefInv
  <2>2. \A S \in SUBSET Agents :
            /\ SumOver(work, S) \in Nat /\ Total(work) \in Nat
            /\ SumOver(work, S) <= Total(work)
    BY <2>1, WorkSums, SumSubset DEF Total
  <2>3. snap.sum <= Total(work)
    <3>1. Agents \ snap.missed \in SUBSET Agents
      OBVIOUS
    <3>2. snap.sum \in Nat /\ snap.sum <= SumOver(work, Agents \ snap.missed)
      BY <2>1 DEF TypeOK, Snapshots, CountInv, SnapInv
    <3>. QED  BY <2>2, <3>1, <3>2
  <2>4. ASSUME NEW w \in Collectors PROVE col[w].sum <= Total(work)
    <3>1. Answered(w) \in SUBSET Agents
      BY DEF Answered, Asked
    <3>2. col[w].sum \in Nat /\ col[w].sum <= SumOver(work, Answered(w))
      BY <2>1 DEF TypeOK, Collections, CountInv, SumInv, NeverAhead
    <3>. QED  BY <2>2, <3>1, <3>2
  <2>. QED  BY <2>3, <2>4 DEF SnapshotCountsThisJob
<1>. QED  BY <1>1, Inductive, CountInductive, PTL

\* What Run has counted in the end is all that the agents it could ask have
\* done for the job.
THEOREM FinalComplete == Spec => []FinalCountIsComplete
<1>1. RefInv /\ CountInv => FinalCountIsComplete
  <2> SUFFICES ASSUME RefInv, CountInv, pc = "returned"
               PROVE  col["final"].sum = SumOver(work, Agents \ col["final"].missed)
    BY DEF FinalCountIsComplete
  <2>1. col["final"].at = NumAgents + 1
    BY DEF RefInv, CollectInv, CountInv, SumInv, NeverAhead, Collectors
  <2>2. Answered("final") = Agents \ col["final"].missed
    BY <2>1, AllAsked
  <2>. QED  BY <2>2 DEF CountInv, FinalInv
<1>. QED  BY <1>1, Inductive, CountInductive, PTL

\* When Run has returned, the writer holds its last snapshot or one that the
\* watcher wrote over it, which shows no more unless other agents were missed.
THEOREM LastOvertaken == Spec => []LastSnapshotOvertaken
<1>1. RefInv /\ CountInv /\ FinalCountIsComplete => LastSnapshotOvertaken
  <2> SUFFICES ASSUME RefInv, CountInv, FinalCountIsComplete, pc = "returned", snap.by # "final"
               PROVE  /\ snap.by = "watch"
                      /\ snap.missed = col["final"].missed => snap.sum <= col["final"].sum
    BY DEF LastSnapshotOvertaken, CountInv, SnapInv
  <2>1. snap.by = "watch"
    BY DEF RefInv, TypeOK, Snapshots, Collectors, CountInv, SnapInv
  <2>2. snap.sum <= SumOver(work, Agents \ snap.missed)
    BY DEF CountInv, SnapInv
  <2>3. col["final"].sum = SumOver(work, Agents \ col["final"].missed)
    BY DEF FinalCountIsComplete
  <2>. QED  BY <2>1, <2>2, <2>3
<1>. QED  BY <1>1, Inductive, CountInductive, FinalComplete, PTL

\* The counts shown go back only with a snapshot that misses an agent, or with
\* the watcher's over Run's own.
THEOREM GoBackOnlyWhen == Spec => CountsGoBackOnlyWhen
<1>1. RefInv /\ CountInv /\ [Next]_vars
        => [snap'.sum < snap.sum => \/ snap'.missed # {}
                                    \/ snap.by = "final" /\ snap'.by = "watch"]_vars
  <2> SUFFICES ASSUME RefInv, CountInv, [Next]_vars, snap'.missed = {},
                      ~(snap.by = "final" /\ snap'.by = "watch")
               PROVE  ~(snap'.sum < snap.sum)
    OBVIOUS
  <2>1. TypeOK /\ snap.sum \in Nat
    BY DEF RefInv, TypeOK, Snapshots
  <2> USE DEF Collectors
  <2>2. CASE WatcherWrites
    <3>1. col["watch"].aggregated /\ watcher = "collect" /\ snap' = SnapshotOf("watch")
      BY <2>2 DEF WatcherWrites
    <3>2. snap'.by = "watch" /\ snap'.sum = col["watch"].sum /\ col["watch"].missed = {}
      BY <3>1 DEF SnapshotOf
    <3>3. col["watch"].at = NumAgents + 1
      BY <3>1 DEF CountInv, SumInv, NeverAhead
    <3>4. SumOver(work, Unasked("watch")) = 0
      BY <3>3, AllAsked, SumEmpty
    <3>5. snap.sum <= col["watch"].sum + 0 /\ col["watch"].sum \in Nat
      BY <2>1, <3>1, <3>2, <3>4 DEF CountInv, ShownInv, TypeOK, Collections
    <3>. QED  BY <2>1, <3>2, <3>5
  <2>3. CASE WriteFinal
    <3>1. col["final"].aggregated /\ pc = "final" /\ snap' = SnapshotOf("final")
      BY <2>3 DEF WriteFinal
    <3>2. snap'.sum = col["final"].sum /\ col["final"].missed = {}
      BY <3>1 DEF SnapshotOf
    <3>3. col["final"].at = NumAgents + 1
      BY <3>1 DEF CountInv, SumInv, NeverAhead
    <3>4. Answered("final") = Agents
      BY <3>2, <3>3, AllAsked
    <3>5. col["final"].sum = SumOver(work, Agents)
      BY <3>1, <3>4 DEF CountInv, FinalInv
    <3>6. Agents \ snap.missed \in SUBSET Agents
      OBVIOUS
    <3>7. /\ snap.sum <= SumOver(work, Agents \ snap.missed)
          /\ SumOver(work, Agents \ snap.missed) <= SumOver(work, Agents)
          /\ SumOver(work, Agents \ snap.missed) \in Nat /\ SumOver(work, Agents) \in Nat
      BY <2>1, <3>6, WorkSums, SumSubset DEF CountInv, SnapInv
    <3>. QED  BY <2>1, <3>2, <3>5, <3>7
  <2>4. CASE ~WatcherWrites /\ ~WriteFinal
    <3>1. snap' = snap
      <4>1. CASE Quiet  BY <4>1 DEF Quiet
      <4>2. CASE WatcherTicks \/ CloseStop  BY <4>2 DEF WatcherTicks, CloseStop
      <4>3. ASSUME NEW w \in Collectors, AskAgent(w) \/ Aggregated(w) PROVE snap' = snap
        BY <4>3 DEF AskAgent, Aggregated
      <4>. QED  BY <2>4, <4>1, <4>2, <4>3, StepKinds
    <3>. QED  BY <2>1, <3>1
  <2>. QED  BY <2>2, <2>3, <2>4
<1>. QED  BY <1>1, Inductive, CountInductive, PTL DEF Spec, CountsGoBackOnlyWhen
=============================================================================
