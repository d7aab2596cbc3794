------------------------ MODULE AgentRegistryProofs ------------------------
(***************************************************************************)
(* The bounds of AgentRegistry for every set of agents and all periods.    *)
(***************************************************************************)
EXTENDS AgentRegistry, TLAPS

\* A hanging request is on record.
HangIsNoted(a) == post[a] = Hanging => hung[a]

\* The time until an agent that is not busy posts.
Wait(a) == IF due[a] = Overdue THEN 0 ELSE due[a]

\* Silence lasts for the requests lost in a row, one period each, and a period
\* to the next one.  A request under way was sent by then, and should it be lost
\* as well, the next one is due a period later at most.
QuietBound(a) ==
    alive[a] /\ ~hung[a] =>
        /\ post[a] = Idle => quiet[a] + Wait(a) <= missed[a] * Period + Period
        /\ post[a] # Idle =>
              /\ quiet[a] <= missed[a] * Period + Period + post[a]
              /\ quiet[a] + Wait(a) <= missed[a] * Period + Period + Period

\* An entry is no older than the silence of its agent.
EntryIsRecent(a) == reg[a] # Unlisted => reg[a] <= quiet[a]

\* What a dead agent has sent, it sent before it died.
SentBeforeDeath(a) ==
    ~alive[a] =>
        /\ post[a] # Idle => gone[a] <= post[a]
        /\ reg[a] # Unlisted => gone[a] <= reg[a] + MaxLatency

\* An expired entry outlives the expiry by the time since the last check.
EntryIsChecked(a) == reg[a] # Unlisted => reg[a] <= Expiry + (CheckEvery - check)

AgentInv(a) ==
    /\ HangIsNoted(a) /\ QuietBound(a) /\ EntryIsRecent(a)
    /\ SentBeforeDeath(a) /\ EntryIsChecked(a)

\* The inductive invariant.
IndInv == TypeOK /\ \A a \in Agents : AgentInv(a)

\* The types of one agent's variables.
TypeAt(a) ==
    /\ alive[a] \in BOOLEAN /\ hung[a] \in BOOLEAN
    /\ due[a] \in Int /\ -1 <= due[a] /\ due[a] <= Period
    /\ post[a] \in Int /\ -2 <= post[a] /\ post[a] <= MaxLatency
    /\ missed[a] \in Int /\ 0 <= missed[a] /\ missed[a] <= MaxMissed
    /\ reg[a] \in Int /\ -1 <= reg[a] /\ reg[a] <= MaxAge
    /\ quiet[a] \in Int /\ 0 <= quiet[a] /\ quiet[a] <= MaxAge
    /\ gone[a] \in Int /\ 0 <= gone[a] /\ gone[a] <= MaxAge

-----------------------------------------------------------------------------
\* Multiplication by the period.
LEMMA Periods ==
    ASSUME NEW m \in Nat, NEW k \in Nat, NEW p \in Nat
    PROVE  /\ m * p \in Nat
           /\ (m + 1) * p = m * p + p
           /\ m <= k => m * p <= k * p
           /\ 0 * p = 0
OBVIOUS

\* Type correctness gives each agent's types.
LEMMA TypesOfAgents ==
    ASSUME TypeOK, NEW a \in Agents
    PROVE  TypeAt(a) /\ check \in Int /\ 0 <= check /\ check <= CheckEvery
BY RegistryAssumption DEF TypeOK, TypeAt, Idle, Hanging, Overdue, Unlisted

\* The types of one agent's numbers that do not depend on the others.
LEMMA OlderBounded ==
    ASSUME NEW t \in Int, 0 <= t, t <= MaxAge
    PROVE  Older(t) \in Int /\ t <= Older(t) /\ Older(t) <= t + 1 /\ Older(t) <= MaxAge
BY RegistryAssumption DEF Older

\* Type correctness: ages saturate, countdowns are restarted in time.
THEOREM TypeCorrect == Spec => []TypeOK
<1>1. Init => TypeOK
  BY RegistryAssumption DEF Init, TypeOK, Idle, Hanging, Overdue, Unlisted
<1>2. TypeOK /\ [Next]_vars => TypeOK'
  <2> SUFFICES ASSUME TypeOK, [Next]_vars PROVE TypeOK'
    OBVIOUS
  <2> USE RegistryAssumption DEF TypeOK, Idle, Hanging, Overdue, Unlisted
  <2>1. ASSUME NEW a \in Agents, AutoRegister(a) PROVE TypeOK'
    <3>1. PICK t \in 1..Period : due' = [due EXCEPT ![a] = t]
      BY <2>1 DEF AutoRegister
    <3>2. due' \in [Agents -> Overdue..Period]
      BY <3>1
    <3>. QED  BY <2>1, <3>2 DEF AutoRegister
  <2>2. ASSUME NEW a \in Agents, HandleAgentRegister(a) PROVE TypeOK'
    BY <2>2 DEF HandleAgentRegister
  <2>3. ASSUME NEW a \in Agents, RegisterFails(a) PROVE TypeOK'
    BY <2>3 DEF RegisterFails
  <2>4. ASSUME NEW a \in Agents, AgentDies(a) PROVE TypeOK'
    BY <2>4 DEF AgentDies
  <2>5. CASE CheckExpiredAgents
    BY <2>5 DEF CheckExpiredAgents
  <2>6. CASE ServiceRestarts
    BY <2>6 DEF ServiceRestarts
  <2>7. CASE Pass
    <3>1. check' \in 0..CheckEvery /\ alive' = alive /\ hung' = hung /\ missed' = missed
      BY <2>7 DEF Pass
    <3>2. due' \in [Agents -> Overdue..Period] /\ post' \in [Agents -> Hanging..MaxLatency]
      BY <2>7 DEF Pass
    <3>3. reg' \in [Agents -> Unlisted..MaxAge]
      BY <2>7 DEF Pass, Older
    <3>4. quiet' \in [Agents -> 0..MaxAge] /\ gone' \in [Agents -> 0..MaxAge]
      BY <2>7 DEF Pass, Older
    <3>. QED  BY <3>1, <3>2, <3>3, <3>4
  <2>8. CASE UNCHANGED vars
    BY <2>8 DEF vars
  <2>9. ASSUME NEW a \in Agents, Hangs(a) \/ HangEnds(a) PROVE TypeOK'
    <3>1. UNCHANGED <<alive, due, missed, reg, check, quiet, gone>>
      BY <2>9 DEF Hangs, HangEnds
    <3>2. post' \in [Agents -> Hanging..MaxLatency]
      <4>1. PICK k \in {Idle, Hanging} : post' = [post EXCEPT ![a] = k]
        BY <2>9 DEF Hangs, HangEnds
      <4>2. k \in Hanging..MaxLatency
        OBVIOUS
      <4>. QED  BY <4>1, <4>2
    <3>3. hung' = hung \/ hung' = [hung EXCEPT ![a] = TRUE]
      BY <2>9 DEF Hangs, HangEnds
    <3>4. hung' \in [Agents -> BOOLEAN]
      BY <3>3, Zenon
    <3>. QED  BY <3>1, <3>2, <3>4
  <2>. QED  BY <2>1, <2>2, <2>3, <2>4, <2>5, <2>6, <2>7, <2>8, <2>9 DEF Next, AgentStep
<1>. QED  BY <1>1, <1>2, PTL DEF Spec

-----------------------------------------------------------------------------
\* The parts of AgentInv(a) speak of a's own variables and of check only.
LEMMA UntouchedAgent ==
    ASSUME NEW a, AgentInv(a), UNCHANGED check,
           alive'[a] = alive[a], due'[a] = due[a], post'[a] = post[a],
           hung'[a] = hung[a], missed'[a] = missed[a], reg'[a] = reg[a],
           quiet'[a] = quiet[a], gone'[a] = gone[a]
    PROVE  AgentInv(a)'
BY DEF AgentInv, HangIsNoted, QuietBound, Wait, EntryIsRecent, SentBeforeDeath, EntryIsChecked

\* Steps of one agent and of its request.
LEMMA AgentStepInd ==
    ASSUME TypeOK, TypeOK', NEW b \in Agents, AgentInv(b), AgentStep(b)
    PROVE  AgentInv(b)'
<1>1. /\ TypeAt(b) /\ check \in Int /\ 0 <= check /\ check <= CheckEvery
      /\ Period \in Nat /\ MaxLatency \in Nat /\ MaxLatency < Period
      /\ Expiry \in Nat /\ CheckEvery \in Nat
  BY TypesOfAgents, RegistryAssumption
<1>2. /\ missed[b] * Period \in Nat /\ 0 * Period = 0
      /\ (missed[b] + 1) * Period = missed[b] * Period + Period
  <2>1. missed[b] \in Nat
    BY <1>1 DEF TypeAt
  <2>. QED  BY <1>1, <2>1, Periods
<1> USE DEF AgentInv, HangIsNoted, QuietBound, Wait, EntryIsRecent, SentBeforeDeath, EntryIsChecked
<1>3. CASE AutoRegister(b)
  <2>1. PICK t \in 1..Period : due' = [due EXCEPT ![b] = t]
    BY <1>3 DEF AutoRegister
  <2>2. /\ alive[b] /\ post[b] = Idle /\ due[b] <= 0
        /\ alive'[b] = alive[b] /\ due'[b] = t /\ post'[b] = 0 /\ hung'[b] = hung[b]
        /\ missed'[b] = missed[b] /\ reg'[b] = reg[b] /\ quiet'[b] = quiet[b]
        /\ gone'[b] = gone[b] /\ check' = check
    BY <1>3, <2>1 DEF AutoRegister, TypeOK
  <2>3. ~hung[b] => quiet[b] <= missed[b] * Period + Period
    BY <1>1, <1>2, <2>2 DEF TypeAt, Overdue
  <2>4. QuietBound(b)'
    BY <1>1, <1>2, <2>2, <2>3 DEF TypeAt, Idle, Overdue
  <2>5. HangIsNoted(b)' /\ EntryIsRecent(b)' /\ SentBeforeDeath(b)' /\ EntryIsChecked(b)'
    BY <1>1, <2>2 DEF TypeAt, Idle, Hanging
  <2>. QED  BY <2>4, <2>5
<1>4. CASE HandleAgentRegister(b)
  <2>1. /\ post[b] # Idle /\ post'[b] = Idle /\ reg'[b] = 0 /\ missed'[b] = 0 /\ quiet'[b] = 0
        /\ alive'[b] = alive[b] /\ due'[b] = due[b] /\ gone'[b] = gone[b] /\ check' = check
    BY <1>4 DEF HandleAgentRegister, TypeOK
  <2>2. QuietBound(b)'
    BY <1>1, <1>2, <2>1 DEF TypeAt, Overdue
  <2>3. SentBeforeDeath(b)'
    BY <1>1, <2>1 DEF TypeAt
  <2>4. HangIsNoted(b)' /\ EntryIsRecent(b)' /\ EntryIsChecked(b)'
    BY <1>1, <2>1 DEF Idle, Hanging
  <2>. QED  BY <2>2, <2>3, <2>4
<1>5. CASE RegisterFails(b)
  <2>1. /\ post[b] # Idle /\ post[b] # Hanging /\ post'[b] = Idle
        /\ missed'[b] = missed[b] + 1 /\ hung'[b] = hung[b]
        /\ reg'[b] = reg[b] /\ quiet'[b] = quiet[b]
        /\ alive'[b] = alive[b] /\ due'[b] = due[b] /\ gone'[b] = gone[b] /\ check' = check
    BY <1>5 DEF RegisterFails, TypeOK
  <2>2. QuietBound(b)'
    BY <1>1, <1>2, <2>1 DEF TypeAt, Overdue
  <2>3. HangIsNoted(b)' /\ EntryIsRecent(b)' /\ SentBeforeDeath(b)' /\ EntryIsChecked(b)'
    BY <1>1, <2>1 DEF Idle, Hanging
  <2>. QED  BY <2>2, <2>3
<1>6. CASE AgentDies(b)
  <2>1. /\ ~alive'[b] /\ gone'[b] = 0 /\ reg'[b] = reg[b]
        /\ post'[b] = (IF post[b] = Hanging THEN Idle ELSE post[b])
        /\ quiet'[b] = quiet[b] /\ check' = check
    BY <1>6 DEF AgentDies, TypeOK
  <2>2. SentBeforeDeath(b)'
    <3>1. /\ post'[b] # Idle => 0 <= post'[b]
          /\ reg[b] # Unlisted => 0 <= reg[b] + MaxLatency
      <4> HIDE DEF AgentInv
      <4>. QED  BY <1>1, <2>1 DEF TypeAt, Idle, Hanging, Unlisted
    <3>. QED  BY <2>1, <3>1
  <2>3. HangIsNoted(b)' /\ QuietBound(b)' /\ EntryIsRecent(b)' /\ EntryIsChecked(b)'
    BY <2>1 DEF Idle, Hanging
  <2>. QED  BY <2>2, <2>3
<1>7. CASE Hangs(b) \/ HangEnds(b)
  <2>1. /\ alive[b] /\ hung'[b] /\ reg'[b] = reg[b] /\ quiet'[b] = quiet[b]
        /\ alive'[b] = alive[b] /\ check' = check
    <3>1. CASE Hangs(b)
      BY <3>1 DEF Hangs, TypeOK
    <3>2. CASE HangEnds(b)
      <4>1. post[b] = Hanging /\ alive'[b] = alive[b] /\ hung'[b] = hung[b]
        BY <3>2 DEF HangEnds, TypeOK
      <4>2. alive[b]
        <5>1. ~alive[b] => gone[b] <= post[b]
          BY <4>1 DEF Idle, Hanging
        <5>. QED  BY <1>1, <4>1, <5>1 DEF TypeAt, Hanging
      <4>. QED  BY <3>2, <4>1, <4>2 DEF HangEnds
    <3>. QED  BY <1>7, <3>1, <3>2
  <2>. QED  BY <2>1
<1>. QED  BY <1>3, <1>4, <1>5, <1>6, <1>7 DEF AgentStep

\* Time passes.
LEMMA PassInd ==
    ASSUME TypeOK, TypeOK', Pass, NEW a \in Agents, AgentInv(a)
    PROVE  AgentInv(a)'
<1>1. /\ TypeAt(a) /\ check \in Int /\ 0 <= check /\ check <= CheckEvery
      /\ Period \in Nat /\ MaxLatency \in Nat /\ MaxLatency < Period
      /\ Expiry \in Nat /\ CheckEvery \in Nat
  BY TypesOfAgents, RegistryAssumption
<1>2. /\ check' = check - 1 /\ alive'[a] = alive[a] /\ missed'[a] = missed[a]
      /\ hung'[a] = hung[a] /\ post[a] < MaxLatency
      /\ alive[a] /\ post[a] = Idle => due[a] > 0
      /\ due'[a] = (IF alive[a] /\ due[a] # Overdue THEN due[a] - 1 ELSE due[a])
      /\ post'[a] = (IF post[a] \in {Idle, Hanging} THEN post[a] ELSE post[a] + 1)
      /\ reg'[a] = (IF reg[a] = Unlisted THEN Unlisted ELSE Older(reg[a]))
      /\ quiet'[a] = Older(quiet[a])
      /\ gone'[a] = (IF alive[a] THEN 0 ELSE Older(gone[a]))
  BY DEF Pass, TypeOK
<1>3. missed[a] * Period \in Nat
  <2>1. missed[a] \in Nat
    BY <1>1 DEF TypeAt
  <2>. QED  BY <1>1, <2>1, Periods
<1>4. /\ Older(quiet[a]) \in Int /\ quiet[a] <= Older(quiet[a]) /\ Older(quiet[a]) <= quiet[a] + 1
      /\ Older(gone[a]) \in Int /\ Older(gone[a]) <= gone[a] + 1 /\ Older(gone[a]) <= MaxAge
  BY <1>1, OlderBounded DEF TypeAt
<1>5. /\ post'[a] = Idle => post[a] = Idle
      /\ post'[a] = Hanging => post[a] = Hanging
      /\ post'[a] # Idle /\ post[a] # Hanging => post[a] # Idle /\ post'[a] = post[a] + 1
  BY <1>1, <1>2 DEF TypeAt, Idle, Hanging
<1>6. reg'[a] # Unlisted =>
        /\ reg[a] # Unlisted /\ reg'[a] = Older(reg[a]) /\ Older(reg[a]) \in Int
        /\ reg[a] <= Older(reg[a]) /\ Older(reg[a]) <= reg[a] + 1
        /\ Older(reg[a]) = reg[a] + 1 \/ Older(reg[a]) = MaxAge
  BY <1>1, <1>2, RegistryAssumption DEF TypeAt, Unlisted, Older
<1> USE DEF AgentInv, HangIsNoted, QuietBound, Wait, EntryIsRecent, SentBeforeDeath, EntryIsChecked
<1>7. HangIsNoted(a)'
  BY <1>2, <1>5
<1>8. QuietBound(a)'
  <2> SUFFICES ASSUME alive[a], ~hung[a]
               PROVE  /\ post'[a] = Idle =>
                            quiet'[a] + Wait(a)' <= missed[a] * Period + Period
                      /\ post'[a] # Idle =>
                           /\ quiet'[a] <= missed[a] * Period + Period + post'[a]
                           /\ quiet'[a] + Wait(a)' <= missed[a] * Period + Period + Period
    BY <1>2
  <2>1. post[a] # Hanging
    OBVIOUS
  <2>2. CASE post[a] = Idle
    <3>1. post'[a] = Idle /\ due[a] > 0 /\ due'[a] = due[a] - 1
      BY <1>1, <1>2, <2>2 DEF TypeAt, Overdue
    <3>2. Wait(a) = due[a] /\ Wait(a)' = due[a] - 1
      BY <1>1, <3>1 DEF TypeAt, Overdue
    <3>. QED  BY <1>1, <1>2, <1>3, <1>4, <2>2, <3>1, <3>2 DEF TypeAt
  <2>3. CASE post[a] # Idle
    <3>1. post'[a] # Idle /\ post'[a] = post[a] + 1 /\ post[a] + 1 <= Period
      BY <1>1, <1>2, <1>5, <2>1, <2>3 DEF TypeAt
    <3>2. \/ Wait(a) = due[a] /\ Wait(a)' = due[a] - 1
          \/ Wait(a)' = 0
      BY <1>1, <1>2 DEF TypeAt, Overdue
    <3>3. due[a] \in Int /\ quiet[a] \in Int /\ post[a] \in Int
      BY <1>1 DEF TypeAt
    <3>. QED  BY <1>1, <1>2, <1>3, <1>4, <2>3, <3>1, <3>2, <3>3
  <2>. QED  BY <2>2, <2>3
<1>9. EntryIsRecent(a)'
  BY <1>1, <1>2, <1>6, RegistryAssumption DEF TypeAt, Unlisted, Older
<1>10. SentBeforeDeath(a)'
  <2> SUFFICES ASSUME ~alive'[a]
               PROVE  /\ post'[a] # Idle => gone'[a] <= post'[a]
                      /\ reg'[a] # Unlisted => gone'[a] <= reg'[a] + MaxLatency
    OBVIOUS
  <2>1. ~alive[a] /\ gone'[a] = Older(gone[a])
    BY <1>2
  <2>2. post'[a] # Idle => gone'[a] <= post'[a]
    <3>1. post[a] # Hanging
      BY <1>1, <2>1 DEF TypeAt, Idle, Hanging
    <3>. QED  BY <1>1, <1>4, <1>5, <2>1, <3>1 DEF TypeAt
  <2>3. reg'[a] # Unlisted => gone'[a] <= reg'[a] + MaxLatency
    BY <1>1, <1>4, <1>6, <2>1, RegistryAssumption DEF TypeAt
  <2>. QED  BY <2>2, <2>3
<1>11. EntryIsChecked(a)'
  BY <1>1, <1>2, <1>6 DEF TypeAt
<1>. QED  BY <1>7, <1>8, <1>9, <1>10, <1>11

\* The service's own steps.
LEMMA ServiceStepInd ==
    ASSUME TypeOK, TypeOK', CheckExpiredAgents \/ ServiceRestarts,
           NEW a \in Agents, AgentInv(a)
    PROVE  AgentInv(a)'
<1>1. /\ TypeAt(a) /\ Period \in Nat /\ MaxLatency \in Nat /\ Expiry \in Nat /\ CheckEvery \in Nat
  BY TypesOfAgents, RegistryAssumption
<1> USE DEF AgentInv, HangIsNoted, QuietBound, Wait, EntryIsRecent, SentBeforeDeath, EntryIsChecked
<1>2. CASE CheckExpiredAgents
  <2>1. /\ check' = CheckEvery /\ reg'[a] = (IF reg[a] > Expiry THEN Unlisted ELSE reg[a])
        /\ UNCHANGED <<alive, due, post, hung, missed, quiet, gone>>
    BY <1>2 DEF CheckExpiredAgents
  <2>. QED  BY <1>1, <2>1 DEF TypeAt, Unlisted
<1>3. CASE ServiceRestarts
  <2>1. reg'[a] = Unlisted /\ quiet'[a] = 0 /\ UNCHANGED <<alive, due, post, hung, missed, gone>>
    BY <1>3 DEF ServiceRestarts
  <2>2. missed[a] * Period \in Nat
    <3>1. missed[a] \in Nat
      BY <1>1 DEF TypeAt
    <3>. QED  BY <1>1, <3>1, Periods
  <2>. QED  BY <1>1, <2>1, <2>2 DEF TypeAt, Unlisted
<1>. QED  BY <1>2, <1>3

\* The invariant is inductive.
THEOREM Inductive == Spec => []IndInv
<1>1. Init => IndInv
  <2> SUFFICES ASSUME Init PROVE IndInv
    OBVIOUS
  <2>1. TypeOK
    BY RegistryAssumption DEF Init, TypeOK, Idle, Hanging, Overdue, Unlisted
  <2>2. ASSUME NEW a \in Agents PROVE AgentInv(a)
    <3>1. /\ alive[a] /\ due[a] \in 0..Period /\ post[a] = Idle /\ missed[a] = 0
          /\ reg[a] = Unlisted /\ quiet[a] = 0
      BY DEF Init
    <3>2. 0 * Period = 0
      BY Periods, RegistryAssumption
    <3>. QED
      BY <3>1, <3>2, RegistryAssumption
      DEF AgentInv, HangIsNoted, QuietBound, Wait, EntryIsRecent, SentBeforeDeath,
          EntryIsChecked, Idle, Hanging, Overdue
  <2>. QED  BY <2>1, <2>2 DEF IndInv
<1>2. IndInv /\ TypeOK' /\ [Next]_vars => IndInv'
  <2> SUFFICES ASSUME IndInv, TypeOK', [Next]_vars, NEW a \in Agents PROVE AgentInv(a)'
    BY DEF IndInv
  <2>1. TypeOK /\ AgentInv(a)
    BY DEF IndInv
  <2>2. ASSUME NEW b \in Agents, AgentStep(b) PROVE AgentInv(a)'
    <3>1. CASE a = b
      BY <2>1, <2>2, <3>1, AgentStepInd
    <3>2. CASE a # b
      <4>1. /\ UNCHANGED check
            /\ alive'[a] = alive[a] /\ due'[a] = due[a] /\ post'[a] = post[a]
            /\ missed'[a] = missed[a] /\ reg'[a] = reg[a] /\ quiet'[a] = quiet[a]
            /\ gone'[a] = gone[a] /\ hung'[a] = hung[a]
        BY <2>1, <2>2, <3>2
        DEF AgentStep, AutoRegister, HandleAgentRegister, RegisterFails, Hangs, HangEnds,
            AgentDies, TypeOK
      <4>. QED  BY <2>1, <4>1, UntouchedAgent
    <3>. QED  BY <3>1, <3>2
  <2>3. CASE CheckExpiredAgents \/ ServiceRestarts
    BY <2>1, <2>3, ServiceStepInd
  <2>4. CASE Pass
    BY <2>1, <2>4, PassInd
  <2>5. CASE UNCHANGED vars
    BY <2>1, <2>5, UntouchedAgent DEF vars
  <2>. QED  BY <2>2, <2>3, <2>4, <2>5 DEF Next
<1>. QED  BY <1>1, <1>2, TypeCorrect, PTL DEF Spec

-----------------------------------------------------------------------------
\* The bound on silence follows from the bound on lost requests.
LEMMA QuietIsBounded ==
    ASSUME IndInv, NEW a \in Agents, alive[a], ~hung[a]
    PROVE  quiet[a] <= MaxQuiet
<1>1. /\ TypeAt(a) /\ Period \in Nat /\ MaxLatency \in Nat /\ MaxMissed \in Nat
  BY TypesOfAgents, RegistryAssumption DEF IndInv
<1>2. missed[a] \in Nat /\ missed[a] + 1 <= MaxMissed + 1
  BY <1>1 DEF TypeAt
<1> DEFINE M == missed[a] * Period
           K == (MaxMissed + 1) * Period
<1>3. M \in Nat /\ K \in Nat /\ M + Period <= K
  <2>1. M \in Nat /\ (missed[a] + 1) * Period = M + Period
    BY <1>1, <1>2, Periods
  <2>2. K \in Nat
    BY <1>1, Periods
  <2>3. (missed[a] + 1) * Period <= K
    BY <1>1, <1>2, Periods
  <2>. QED  BY <2>1, <2>2, <2>3
<1>4. /\ post[a] = Idle => quiet[a] + Wait(a) <= M + Period
      /\ post[a] # Idle => quiet[a] <= M + Period + post[a]
  BY DEF IndInv, AgentInv, QuietBound
<1>5. Wait(a) \in Nat
  BY <1>1 DEF TypeAt, Wait, Overdue
<1> HIDE DEF M, K
<1>6. quiet[a] <= K + MaxLatency
  BY <1>1, <1>3, <1>4, <1>5 DEF TypeAt
<1>. QED  BY <1>6 DEF K, MaxQuiet

\* A live agent is heard of again within MaxQuiet.
THEOREM HeardOf == Spec => []HeardOfInTime
<1>1. IndInv => HeardOfInTime
  BY QuietIsBounded DEF HeardOfInTime
<1>. QED  BY <1>1, Inductive, PTL

\* A dead agent leaves the list.
THEOREM DeadDropped == Spec => []DeadAgentIsDropped
<1>1. IndInv => DeadAgentIsDropped
  <2> SUFFICES ASSUME IndInv, NEW a \in Agents, ~alive[a], reg[a] # Unlisted,
                      gone[a] > MaxLatency + Expiry + CheckEvery
               PROVE  FALSE
    BY DEF DeadAgentIsDropped
  <2>1. /\ TypeAt(a) /\ check \in Int /\ 0 <= check
        /\ MaxLatency \in Nat /\ Expiry \in Nat /\ CheckEvery \in Nat
    BY TypesOfAgents, RegistryAssumption DEF IndInv
  <2>2. gone[a] <= reg[a] + MaxLatency /\ reg[a] <= Expiry + (CheckEvery - check)
    BY DEF IndInv, AgentInv, SentBeforeDeath, EntryIsChecked
  <2>. QED  BY <2>1, <2>2 DEF TypeAt
<1>. QED  BY <1>1, Inductive, PTL

\* The check keeps live agents, when their silence is shorter than the expiry.
THEOREM LiveStays == Spec => LiveAgentStaysListed
<1>1. IndInv /\ [Next]_vars =>
        [MaxQuiet <= Expiry /\ CheckExpiredAgents =>
           \A a \in Agents :
              alive[a] /\ ~hung[a] /\ reg[a] # Unlisted => reg'[a] # Unlisted]_vars
  <2> SUFFICES ASSUME IndInv, MaxQuiet <= Expiry, CheckExpiredAgents,
                      NEW a \in Agents, alive[a], ~hung[a], reg[a] # Unlisted
               PROVE  reg'[a] # Unlisted
    OBVIOUS
  <2>1. quiet[a] <= MaxQuiet
    BY QuietIsBounded
  <2>2. reg[a] <= quiet[a]
    BY DEF IndInv, AgentInv, EntryIsRecent
  <2>3. TypeAt(a) /\ MaxQuiet \in Int /\ Expiry \in Int
    <3>1. TypeAt(a)
      BY TypesOfAgents DEF IndInv
    <3>2. (MaxMissed + 1) * Period \in Int
      BY RegistryAssumption
    <3>. QED  BY <3>1, <3>2, RegistryAssumption DEF MaxQuiet
  <2>4. ~(reg[a] > Expiry)
    BY <2>1, <2>2, <2>3 DEF TypeAt
  <2>5. reg'[a] = reg[a]
    BY <2>4 DEF CheckExpiredAgents
  <2>. QED  BY <2>5
<1>. QED  BY <1>1, Inductive, PTL DEF Spec, LiveAgentStaysListed
=============================================================================
