---------------------------- MODULE SessionUsers ----------------------------
(***************************************************************************)
(* How a phase's users are divided: AgentController.getSessionUsers        *)
(* (agent/agent_controller.go), called by every agent for every session.   *)
(*                                                                         *)
(* Agents do not talk to each other: each computes its own share from      *)
(* UsersPerSecond, the session's percentage, the number of agents and its  *)
(* index, and what they compute must fit together.  The calls share no     *)
(* state, so the model makes them one after the other, session by session  *)
(* and agent by agent, and adds up what has been given out.                *)
(***************************************************************************)
EXTENDS Integers

CONSTANTS
    NumSessions,  \* len(job.SessionNames)
    Percent,      \* SessionPercentages in hundredths
    MaxUsers,     \* bound: UsersPerSecond
    MaxNegative,  \* bound: how far below zero UsersPerSecond is
    MaxBelow,     \* bound: how far below zero the search for an agent is followed
    MaxAgents     \* bound: agentCount

ASSUME SessionUsersAssumption ==
    /\ NumSessions \in Nat
    /\ Percent \in [1..NumSessions -> 0..100]
    /\ MaxUsers \in Nat /\ MaxNegative \in Nat /\ MaxBelow \in Nat
    /\ MaxAgents \in Nat

VARIABLES
    users,       \* phase.UsersPerSecond: Validate accepts a negative one
    agentCount,
    session,     \* the sessions begun so far
    pc,          \* "next" session, or "search" for lastIdx in a call
    total,       \* totalSessionUsers
    major,
    agentIdx,
    lastIdx,
    allotted,    \* the sum of the shares of this session returned so far
    given,       \* the sum of all shares of the sessions that are complete
    percent      \* the sum of the percentages of the sessions begun

vars == <<users, agentCount, session, pc, total, major, agentIdx, lastIdx,
          allotted, given, percent>>

Least(a, b) == IF a <= b THEN a ELSE b

\* Faulty variant: the number of users is rounded up.
SessionTotalsUp(u, p) == {(u * p + 99) \div 100}

(***************************************************************************)
(* int64(float64(phase.UsersPerSecond) * percentage).  Quarters are        *)
(* float64 numbers and their products exact.  Another percentage is        *)
(* rounded to a float64 near it, and the product of a whole number of      *)
(* users can come out just below that number (100 * 0.29), which the       *)
(* conversion then truncates, towards zero.                                *)
(***************************************************************************)
Truncations(q, p) ==
    {q \div 100} \cup (IF q % 100 = 0 /\ q > 0 /\ p % 25 # 0 THEN {q \div 100 - 1} ELSE {})

SessionTotals(u, p) ==
    IF u >= 0 THEN Truncations(u * p, p) ELSE {-t : t \in Truncations((-u) * p, p)}

\* The ceiling divide of getSessionUsers; Go's division truncates towards zero.
CeilingDivide(t, n) ==
    LET q == t + n - 1 IN IF q >= 0 THEN q \div n ELSE -((-q) \div n)

Init ==
    /\ users \in (-MaxNegative)..MaxUsers
    /\ agentCount \in 1..MaxAgents
    /\ session = 0
    /\ pc = "next"
    /\ total = 0
    /\ major = 0
    /\ agentIdx = 0
    /\ lastIdx = 0
    /\ allotted = 0
    /\ given = 0
    /\ percent = 0

\* The agents come to the next session; agent 0 calls getSessionUsers.
NextSession ==
    /\ pc = "next"
    /\ session < NumSessions
    /\ session' = session + 1
    /\ percent' = percent + Percent[session']
    /\ \E t \in SessionTotals(users, Percent[session']) :
        /\ total' = t
        /\ major' = CeilingDivide(t, agentCount)
    /\ agentIdx' = 0
    /\ lastIdx' = agentCount - 1
    /\ allotted' = 0
    /\ pc' = "search"
    /\ UNCHANGED <<users, agentCount, given>>

\* Faulty variant: the loop condition does not depend on what it changes.
StepDownStuck ==
    /\ pc = "search"
    /\ total - major * lastIdx < 0
    /\ UNCHANGED vars

\* One iteration of the loop that looks for the last agent with users.
StepDown ==
    /\ pc = "search"
    /\ total - major * lastIdx < 0
    /\ lastIdx > -MaxBelow
    /\ lastIdx' = lastIdx - 1
    /\ UNCHANGED <<users, agentCount, session, pc, total, major, agentIdx,
                   allotted, given, percent>>

\* Faulty variant: the last agent gets a full share.
ShareWithoutLast(i) == IF i <= lastIdx THEN major ELSE 0

\* What the call of agent i returns when the loop has ended.
Share(i) ==
    CASE i < lastIdx -> major
      [] i = lastIdx -> total - lastIdx * major
      [] OTHER -> 0

\* The call returns; the next agent's call begins, or the session is complete.
ReturnShare ==
    /\ pc = "search"
    /\ total - major * lastIdx >= 0
    /\ allotted' = allotted + Share(agentIdx)
    /\ IF agentIdx + 1 < agentCount
         THEN /\ agentIdx' = agentIdx + 1
              /\ lastIdx' = agentCount - 1
              /\ UNCHANGED <<pc, given>>
         ELSE /\ pc' = "next"
              /\ given' = given + allotted'
              /\ UNCHANGED <<agentIdx, lastIdx>>
    /\ UNCHANGED <<users, agentCount, session, total, major, percent>>

Next == NextSession \/ StepDown \/ ReturnShare

Spec == Init /\ [][Next]_vars

\* The calls are sequential code that nothing blocks.
FairSpec == Spec /\ WF_vars(Next)

-----------------------------------------------------------------------------
\* The type invariant, unless the session's users are negative: in particular the
\* index never runs below the agents, and no share is negative (a channel of
\* negative size panics).
TypeOK ==
    /\ users \in Int
    /\ agentCount \in Nat \ {0}
    /\ session \in 0..NumSessions
    /\ pc \in {"next", "search"}
    /\ total \in Nat
    /\ major \in Nat
    /\ agentIdx \in 0..(agentCount - 1)
    /\ lastIdx \in 0..(agentCount - 1)
    /\ allotted \in Nat
    /\ given \in Nat
    /\ percent \in Nat

\* The agents before agentIdx have `major' users each, as long as there are
\* any: no user is given to two agents, and none is passed over.
PrefixAllotted == pc = "search" => allotted = Least(total, agentIdx * major)

\* The shares the agents compute independently add up to the session's users.
SharesAddUp == pc = "next" /\ session > 0 => allotted = total

\* The sessions together never get more users than the phase's percentages
\* say, and truncation loses at most one user per session.
UsersWithinPhase ==
    users >= 0 /\ pc = "next" =>
        /\ 100 * given <= users * percent
        /\ 100 * (given + session) >= users * percent

\* With a negative number of users, which nothing refuses, the loop for lastIdx
\* runs past the agents and never ends: no call of such a session returns.
NegativeIsStuck == total < 0 => pc = "search"

\* Every agent's calls return, and with them runPhase comes to its launchers,
\* unless the number of users is negative; then they never do.
CallsReturn ==
    /\ <>(total < 0 \/ (pc = "next" /\ session = NumSessions))
    /\ []NegativeIsStuck
=============================================================================
