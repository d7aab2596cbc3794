------------------------- MODULE SessionUsersProofs -------------------------
(***************************************************************************)
(* The shares add up for every number of users, agents and sessions; and   *)
(* the search for the last agent never ends for a negative number.         *)
(***************************************************************************)
EXTENDS SessionUsers, TLAPS

\* `major' shares for all agents cover the session.
Covered == pc = "search" => agentCount * major >= total

\* The agents above lastIdx get nothing because the ones up to it cover all.
LastIdxInv ==
    pc = "search" => lastIdx = agentCount - 1 \/ (lastIdx + 1) * major > total

\* Inside a session, the sessions before it account for what has been given.
\* (Outside, this is UsersWithinPhase.)
GivenInv ==
    pc = "search" => session > 0 /\ (users >= 0 =>
        /\ 100 * (given + total) <= users * percent
        /\ 100 * (given + total + session) >= users * percent)

\* What holds for negative numbers, too: `major' is then rounded towards zero,
\* and the agents together would owe no more than the session.
SearchInv ==
    /\ users \in Int /\ agentCount \in Nat \ {0} /\ session \in 0..NumSessions
    /\ total \in Int /\ major \in Int
    /\ lastIdx \in Int /\ lastIdx <= agentCount - 1
    /\ total < 0 => pc = "search" /\ major <= 0 /\ agentCount * (-major) <= -total

\* What holds for the others.
SharesInv ==
    /\ TypeOK /\ Covered /\ LastIdxInv /\ PrefixAllotted
    /\ SharesAddUp /\ GivenInv /\ UsersWithinPhase

\* The inductive invariant.
IndInv == SearchInv /\ (total >= 0 => SharesInv)

-----------------------------------------------------------------------------
\* The ceiling of a quotient covers the dividend.
LEMMA CeilingCovers ==
    ASSUME NEW t \in Nat, NEW n \in Nat \ {0}
    PROVE  CeilingDivide(t, n) \in Nat /\ n * CeilingDivide(t, n) >= t
<1> DEFINE q == t + n - 1
<1>1. q \in Nat
  OBVIOUS
<1> HIDE DEF q
<1>2. q \div n \in Nat
  BY <1>1
<1>3. n * (q \div n) + n - 1 >= q
  BY <1>1
<1>4. n * (q \div n) \in Nat
  BY <1>2
<1>5. n * (q \div n) >= t
  BY <1>3, <1>4 DEF q
<1>. QED  BY <1>2, <1>5 DEF CeilingDivide, q

\* The quotient of a negative dividend, rounded towards zero.
LEMMA CeilingOfNegative ==
    ASSUME NEW t \in Int, t < 0, NEW n \in Nat \ {0}
    PROVE  /\ CeilingDivide(t, n) \in Int /\ CeilingDivide(t, n) <= 0
           /\ n * (-CeilingDivide(t, n)) <= -t
<1> DEFINE q == t + n - 1
           r == -q
<1>1. q \in Int /\ r \in Int
  OBVIOUS
<1>2. CASE q >= 0
  <2>1. q \in Nat /\ q < n
    BY <1>2
  <2> HIDE DEF q
  <2>2. q \div n = 0
    BY <2>1
  <2>3. CeilingDivide(t, n) = 0
    BY <1>2, <2>2 DEF CeilingDivide, q
  <2>. QED  BY <2>3
<1>3. CASE q < 0
  <2>1. r \in Nat /\ r <= -t
    BY <1>3
  <2>2. CeilingDivide(t, n) = -(r \div n)
    BY <1>3 DEF CeilingDivide
  <2> HIDE DEF q, r
  <2>3. r \div n \in Nat /\ n * (r \div n) <= r
    BY <2>1
  <2>4. n * (r \div n) \in Nat /\ n * (r \div n) <= -t
    BY <2>1, <2>3
  <2>5. -CeilingDivide(t, n) = r \div n
    BY <2>2, <2>3
  <2>. QED  BY <2>2, <2>3, <2>4, <2>5
<1>. QED  BY <1>1, <1>2, <1>3

\* The loop condition of a negative number holds for every index below n.
LEMMA SearchGoesOn ==
    ASSUME NEW t \in Int, t < 0, NEW n \in Nat \ {0}, NEW m \in Int, m <= 0,
           n * (-m) <= -t, NEW i \in Int, i <= n - 1
    PROVE  t - m * i < 0
<1> DEFINE k == -m
<1>1. k \in Nat /\ m * i = -(k * i)
  OBVIOUS
<1> HIDE DEF k
<1>2. n - 1 - i \in Nat /\ k * (n - 1 - i) \in Nat
  BY <1>1
<1>3. k * (n - 1 - i) = n * k - k - k * i
  BY <1>1
<1>4. n * k \in Int /\ k * i \in Int /\ n * k <= -t
  BY <1>1 DEF k
<1>5. k * i <= n * k - k
  BY <1>1, <1>2, <1>3, <1>4
<1>6. k = 0 => k * i = 0
  OBVIOUS
<1>. QED  BY <1>1, <1>4, <1>5, <1>6

\* The users of a session: its percentage of the phase's, or up to one less.
LEMMA TotalsBounded ==
    ASSUME NEW u \in Nat, NEW p \in Nat, NEW t \in SessionTotals(u, p)
    PROVE  t \in Nat /\ 100 * t <= u * p /\ 100 * (t + 1) >= u * p
<1> DEFINE q == u * p
<1>1. q \in Nat
  OBVIOUS
<1>2. t = q \div 100 \/ (q % 100 = 0 /\ q > 0 /\ t = q \div 100 - 1)
  BY DEF SessionTotals, Truncations
<1> HIDE DEF q
<1>3. q \div 100 \in Nat /\ 100 * (q \div 100) <= q /\ 100 * (q \div 100) + 99 >= q
  BY <1>1
<1>4. q % 100 = 0 => 100 * (q \div 100) = q
  BY <1>1
<1>5. t \in Nat /\ 100 * t <= q /\ 100 * (t + 1) >= q
  BY <1>1, <1>2, <1>3, <1>4
<1>. QED  BY <1>5 DEF q

\* They are a number in any case.
LEMMA TotalsInt ==
    ASSUME NEW u \in Int, NEW p \in Nat, NEW t \in SessionTotals(u, p)
    PROVE  t \in Int
<1>1. CASE u >= 0
  BY <1>1, TotalsBounded
<1>2. CASE u < 0
  <2> DEFINE q == (-u) * p
  <2>1. q \in Nat
    <3>1. -u \in Nat
      BY <1>2
    <3>. QED  BY <3>1
  <2>2. PICK x \in Truncations(q, p) : t = -x
    BY <1>2 DEF SessionTotals
  <2> HIDE DEF q
  <2>3. q \div 100 \in Int
    BY <2>1
  <2>4. x \in Int
    BY <2>2, <2>3 DEF Truncations
  <2>. QED  BY <2>2, <2>4
<1>. QED  BY <1>1, <1>2

\* Multiplication by a natural number is monotone, and distributes over + 1.
LEMMA Products ==
    ASSUME NEW m \in Nat, NEW i \in Nat, NEW k \in Nat
    PROVE  /\ i * m \in Nat
           /\ i <= k => i * m <= k * m
           /\ (i + 1) * m = i * m + m
           /\ 0 * m = 0 /\ m * 0 = 0
OBVIOUS

\* The bounds of the sessions add up.
LEMMA BoundsAdd ==
    ASSUME NEW g \in Nat, NEW t \in Nat, NEW s \in Nat, NEW x \in Nat, NEW y \in Nat,
           100 * g <= x, 100 * (g + s) >= x, 100 * t <= y, 100 * (t + 1) >= y
    PROVE  100 * (g + t) <= x + y /\ 100 * (g + t + (s + 1)) >= x + y
OBVIOUS

-----------------------------------------------------------------------------
\* What a session begins with: its users, and the agents' shares of them.
LEMMA SessionBegins ==
    ASSUME SearchInv, NextSession
    PROVE  /\ total >= 0
           /\ users' = users /\ agentCount' = agentCount /\ given' = given
           /\ session' = session + 1 /\ session' \in 1..NumSessions
           /\ Percent[session'] \in Nat /\ percent' = percent + Percent[session']
           /\ agentIdx' = 0 /\ lastIdx' = agentCount - 1 /\ allotted' = 0
           /\ pc = "next" /\ pc' = "search"
           /\ total' \in SessionTotals(users, Percent[session']) /\ total' \in Int
           /\ major' = CeilingDivide(total', agentCount)
<1>1. /\ users' = users /\ agentCount' = agentCount /\ given' = given
      /\ session' = session + 1 /\ percent' = percent + Percent[session']
      /\ agentIdx' = 0 /\ lastIdx' = agentCount - 1 /\ allotted' = 0
      /\ pc = "next" /\ pc' = "search" /\ session < NumSessions
      /\ total' \in SessionTotals(users, Percent[session'])
      /\ major' = CeilingDivide(total', agentCount)
  BY DEF NextSession
<1>2. session' \in 1..NumSessions /\ total >= 0 /\ users \in Int
  BY <1>1, SessionUsersAssumption DEF SearchInv
<1>3. Percent[session'] \in Nat
  <2>1. \A s \in 1..NumSessions : Percent[s] \in 0..100
    BY SessionUsersAssumption
  <2>2. Percent[session'] \in 0..100
    BY <1>2, <2>1
  <2>. QED  BY <2>2
<1>4. total' \in Int
  BY <1>1, <1>2, <1>3, TotalsInt
<1>. QED  BY <1>1, <1>2, <1>3, <1>4

\* SearchInv is inductive by itself.
LEMMA SearchInd ==
    ASSUME SearchInv, [Next]_vars
    PROVE  SearchInv'
<1>1. CASE NextSession
  <2>1. agentCount \in Nat \ {0} /\ users \in Int
    BY DEF SearchInv
  <2>2. total' >= 0 => major' \in Int
    BY <1>1, <2>1, SessionBegins, CeilingCovers
  <2>3. total' < 0 => major' \in Int /\ major' <= 0 /\ agentCount * (-major') <= -total'
    BY <1>1, <2>1, SessionBegins, CeilingOfNegative
  <2>. QED  BY <1>1, <2>1, <2>2, <2>3, SessionBegins DEF SearchInv
<1>2. CASE StepDown
  BY <1>2 DEF StepDown, SearchInv
<1>3. CASE ReturnShare
  <2>1. total >= 0
    BY <1>3, SearchGoesOn DEF ReturnShare, SearchInv
  <2>. QED  BY <1>3, <2>1 DEF ReturnShare, SearchInv
<1>4. CASE UNCHANGED vars
  BY <1>4 DEF vars, SearchInv
<1>. QED  BY <1>1, <1>2, <1>3, <1>4 DEF Next

\* A session begins: lastIdx starts at the last agent, nothing is allotted.
LEMMA NextSessionInd ==
    ASSUME SearchInv, SharesInv, NextSession, total' >= 0
    PROVE  SharesInv'
<1>1. /\ users \in Int /\ agentCount \in Nat \ {0} /\ session \in Nat
      /\ given \in Nat /\ percent \in Nat
  BY SessionUsersAssumption DEF SharesInv, TypeOK
<1>2. /\ users' = users /\ agentCount' = agentCount /\ given' = given
      /\ session' = session + 1 /\ session' \in 1..NumSessions
      /\ Percent[session'] \in Nat /\ percent' = percent + Percent[session']
      /\ agentIdx' = 0 /\ lastIdx' = agentCount - 1 /\ allotted' = 0
      /\ pc = "next" /\ pc' = "search"
      /\ total' \in SessionTotals(users, Percent[session']) /\ total' \in Nat
      /\ major' = CeilingDivide(total', agentCount)
  BY SessionBegins
<1>3. major' \in Nat /\ agentCount * major' >= total'
  BY <1>1, <1>2, CeilingCovers
<1>4. TypeOK'
  BY <1>1, <1>2, <1>3 DEF TypeOK
<1>5. Covered' /\ LastIdxInv'
  BY <1>1, <1>2, <1>3 DEF Covered, LastIdxInv
<1>6. PrefixAllotted'
  <2>1. 0 * major' = 0
    BY <1>3, Products
  <2>. QED  BY <1>2, <2>1 DEF PrefixAllotted, Least
<1>7. SharesAddUp' /\ UsersWithinPhase'
  BY <1>2 DEF SharesAddUp, UsersWithinPhase
<1>8. GivenInv'
  <2> SUFFICES ASSUME users >= 0
               PROVE  /\ 100 * (given' + total') <= users' * percent'
                      /\ 100 * (given' + total' + session') >= users' * percent'
    BY <1>1, <1>2 DEF GivenInv
  <2>0. /\ 100 * total' <= users * Percent[session']
        /\ 100 * (total' + 1) >= users * Percent[session']
    BY <1>1, <1>2, TotalsBounded
  <2>1. 100 * given <= users * percent /\ 100 * (given + session) >= users * percent
    BY <1>2 DEF SharesInv, UsersWithinPhase
  <2>2. users * percent' = users * percent + users * Percent[session']
    BY <1>1, <1>2
  <2>3. users * percent \in Nat /\ users * Percent[session'] \in Nat
    BY <1>1, <1>2
  <2>4. /\ 100 * (given + total') <= users * percent + users * Percent[session']
        /\ 100 * (given + total' + (session + 1))
             >= users * percent + users * Percent[session']
    BY <1>1, <1>2, <2>0, <2>1, <2>3, BoundsAdd
  <2>. QED  BY <1>2, <2>2, <2>4
<1>. QED  BY <1>4, <1>5, <1>6, <1>7, <1>8 DEF SharesInv

\* The loop steps over an agent whose predecessors already cover the session.
LEMMA StepDownInd ==
    ASSUME SharesInv, StepDown
    PROVE  SharesInv'
<1> USE DEF SharesInv
<1>1. /\ pc = "search" /\ total \in Nat /\ major \in Nat /\ agentCount \in Nat \ {0}
      /\ lastIdx \in 0..(agentCount - 1) /\ lastIdx' = lastIdx - 1
      /\ total - major * lastIdx < 0
      /\ UNCHANGED <<users, agentCount, session, pc, total, major, agentIdx,
                     allotted, given, percent>>
  BY DEF StepDown, TypeOK
<1>2. lastIdx # 0
  <2>1. major * 0 = 0
    BY <1>1
  <2>. QED  BY <1>1, <2>1
<1>3. TypeOK'
  BY <1>1, <1>2 DEF TypeOK
<1>4. LastIdxInv'
  <2>1. (lastIdx' + 1) * major = major * lastIdx /\ major * lastIdx \in Int
    BY <1>1
  <2>. QED  BY <1>1, <2>1 DEF LastIdxInv
<1>5. Covered' /\ PrefixAllotted' /\ SharesAddUp' /\ GivenInv' /\ UsersWithinPhase'
  BY <1>1 DEF Covered, PrefixAllotted, SharesAddUp, GivenInv, UsersWithinPhase
<1>. QED  BY <1>3, <1>4, <1>5

\* What the call of the next agent adds keeps the prefix exact.
LEMMA ShareExtendsPrefix ==
    ASSUME SharesInv, pc = "search", total - major * lastIdx >= 0
    PROVE  /\ Share(agentIdx) \in Nat
           /\ allotted + Share(agentIdx) = Least(total, (agentIdx + 1) * major)
<1>1. /\ total \in Nat /\ major \in Nat /\ agentCount \in Nat \ {0}
      /\ lastIdx \in Nat /\ lastIdx <= agentCount - 1
      /\ agentIdx \in Nat /\ agentIdx <= agentCount - 1
  BY DEF SharesInv, TypeOK
<1> DEFINE A == agentIdx * major
           L == lastIdx * major
<1>2. A \in Nat /\ L \in Nat /\ (agentIdx + 1) * major = A + major
  BY <1>1, Products
<1>3. (lastIdx + 1) * major = L + major
  BY <1>1, Products
<1>4. L <= total
  <2>1. major * lastIdx = L  BY <1>1
  <2>2. total - L >= 0  BY <2>1
  <2>. QED  BY <1>1, <1>2, <2>2
<1>5. L + major >= total
  <2>1. CASE lastIdx = agentCount - 1
    <3>1. agentCount * major >= total
      BY DEF SharesInv, Covered
    <3>2. lastIdx + 1 = agentCount
      BY <1>1, <2>1
    <3>. QED  BY <1>3, <3>1, <3>2
  <2>2. CASE (lastIdx + 1) * major > total
    BY <1>1, <1>2, <1>3, <2>2
  <2>. QED  BY <2>1, <2>2 DEF SharesInv, LastIdxInv
<1>6. allotted = Least(total, A)
  BY DEF SharesInv, PrefixAllotted
<1>7. CASE agentIdx < lastIdx
  <2>1. (agentIdx + 1) * major <= L
    BY <1>1, <1>7, Products
  <2>2. A + major <= L
    BY <1>2, <2>1
  <2> HIDE DEF A, L
  <2>3. Share(agentIdx) = major
    BY <1>1, <1>7 DEF Share
  <2>. QED  BY <1>1, <1>2, <1>4, <1>6, <2>2, <2>3 DEF Least
<1>8. CASE agentIdx = lastIdx
  <2>1. A = L
    BY <1>8
  <2>2. Share(agentIdx) = total - L
    BY <1>1, <1>8 DEF Share
  <2> HIDE DEF A, L
  <2>. QED  BY <1>1, <1>2, <1>4, <1>5, <1>6, <2>1, <2>2 DEF Least
<1>9. CASE agentIdx > lastIdx
  <2>1. (lastIdx + 1) * major <= A
    BY <1>1, <1>9, Products
  <2>2. L + major <= A
    BY <1>3, <2>1
  <2>3. Share(agentIdx) = 0
    BY <1>1, <1>9 DEF Share
  <2> HIDE DEF A, L
  <2>. QED  BY <1>1, <1>2, <1>5, <1>6, <2>2, <2>3 DEF Least
<1>. QED  BY <1>1, <1>7, <1>8, <1>9

\* A call returns.
LEMMA ReturnShareInd ==
    ASSUME SharesInv, ReturnShare
    PROVE  SharesInv'
<1>1. /\ pc = "search" /\ total - major * lastIdx >= 0
      /\ allotted' = allotted + Share(agentIdx)
      /\ UNCHANGED <<users, agentCount, session, total, major, percent>>
  BY DEF ReturnShare
<1>2. /\ users \in Int /\ agentCount \in Nat \ {0} /\ session \in 0..NumSessions
      /\ total \in Nat /\ major \in Nat /\ given \in Nat /\ percent \in Nat
      /\ allotted \in Nat /\ agentIdx \in 0..(agentCount - 1)
      /\ lastIdx \in 0..(agentCount - 1)
  BY DEF SharesInv, TypeOK
<1>3. /\ Share(agentIdx) \in Nat
      /\ allotted' = Least(total, (agentIdx + 1) * major)
  BY <1>1, ShareExtendsPrefix
<1>4. allotted' \in Nat
  BY <1>1, <1>2, <1>3
<1>5. CASE agentIdx + 1 < agentCount
  <2>1. agentIdx' = agentIdx + 1 /\ lastIdx' = agentCount - 1 /\ pc' = pc /\ given' = given
    BY <1>5 DEF ReturnShare
  <2>2. TypeOK'
    BY <1>1, <1>2, <1>4, <1>5, <2>1 DEF TypeOK
  <2>3. Covered' /\ LastIdxInv' /\ PrefixAllotted'
    BY <1>1, <1>2, <1>3, <2>1 DEF SharesInv, Covered, LastIdxInv, PrefixAllotted
  <2>4. SharesAddUp' /\ GivenInv' /\ UsersWithinPhase'
    BY <1>1, <2>1 DEF SharesInv, SharesAddUp, GivenInv, UsersWithinPhase
  <2>. QED  BY <2>2, <2>3, <2>4 DEF SharesInv
<1>6. CASE ~(agentIdx + 1 < agentCount)
  <2>1. pc' = "next" /\ given' = given + allotted' /\ UNCHANGED <<agentIdx, lastIdx>>
    BY <1>6 DEF ReturnShare
  <2>2. allotted' = total
    <3>1. agentIdx + 1 = agentCount
      BY <1>2, <1>6
    <3>2. agentCount * major >= total /\ agentCount * major \in Nat
      BY <1>1, <1>2 DEF SharesInv, Covered
    <3>. QED  BY <1>2, <1>3, <3>1, <3>2 DEF Least
  <2>3. TypeOK'
    BY <1>1, <1>2, <1>4, <2>1 DEF TypeOK
  <2>4. Covered' /\ LastIdxInv' /\ PrefixAllotted' /\ SharesAddUp' /\ GivenInv'
    BY <1>1, <2>1, <2>2 DEF Covered, LastIdxInv, PrefixAllotted, SharesAddUp, GivenInv
  <2>5. UsersWithinPhase'
    BY <1>1, <2>1, <2>2 DEF SharesInv, GivenInv, UsersWithinPhase
  <2>. QED  BY <2>3, <2>4, <2>5 DEF SharesInv
<1>. QED  BY <1>5, <1>6

-----------------------------------------------------------------------------
\* The invariant is inductive.
THEOREM Inductive == Spec => []IndInv
<1>1. Init => IndInv
  <2> SUFFICES ASSUME Init PROVE IndInv
    OBVIOUS
  <2>1. TypeOK
    BY SessionUsersAssumption DEF Init, TypeOK
  <2>2. UsersWithinPhase
    <3>1. users \in Int /\ given = 0 /\ percent = 0 /\ session = 0
      BY SessionUsersAssumption DEF Init
    <3>2. users * 0 = 0
      BY <3>1
    <3>. QED  BY <3>1, <3>2 DEF UsersWithinPhase
  <2>3. Covered /\ LastIdxInv /\ PrefixAllotted /\ SharesAddUp /\ GivenInv
    BY DEF Init, Covered, LastIdxInv, PrefixAllotted, SharesAddUp, GivenInv
  <2>4. SearchInv
    BY SessionUsersAssumption DEF Init, SearchInv
  <2>. QED  BY <2>1, <2>2, <2>3, <2>4 DEF IndInv, SharesInv
<1>2. IndInv /\ [Next]_vars => IndInv'
  <2> SUFFICES ASSUME IndInv, [Next]_vars, total' >= 0 PROVE SharesInv'
    BY SearchInd DEF IndInv
  <2>1. SearchInv /\ total \in Int
    BY DEF IndInv, SearchInv
  <2>2. CASE NextSession
    <3>1. SharesInv
      BY <2>1, <2>2, SessionBegins DEF IndInv
    <3>. QED  BY <2>1, <2>2, <3>1, NextSessionInd
  <2>3. CASE StepDown \/ ReturnShare
    <3>1. SharesInv
      BY <2>3 DEF IndInv, StepDown, ReturnShare
    <3>. QED  BY <2>3, <3>1, StepDownInd, ReturnShareInd
  <2>4. CASE UNCHANGED vars
    BY <2>4 DEF vars, IndInv, SharesInv, TypeOK, Covered, LastIdxInv, PrefixAllotted,
                SharesAddUp, GivenInv, UsersWithinPhase
  <2>. QED  BY <2>2, <2>3, <2>4 DEF Next
<1>. QED  BY <1>1, <1>2, PTL DEF Spec

\* Type correctness: indices stay among the agents and no share is negative.
THEOREM TypeCorrect == Spec => [](total >= 0 => TypeOK)
<1>1. IndInv => (total >= 0 => TypeOK)
  BY DEF IndInv, SharesInv
<1>. QED  BY <1>1, Inductive, PTL

\* No call of a session with a negative number of users ever returns.
THEOREM NegativeStuck == Spec => []NegativeIsStuck
<1>1. IndInv => NegativeIsStuck
  BY DEF IndInv, SearchInv, NegativeIsStuck
<1>. QED  BY <1>1, Inductive, PTL

\* A session that comes to its end has no negative number of users.
LEMMA EndsWithShares ==
    ASSUME IndInv, pc = "next"
    PROVE  SharesInv
BY DEF IndInv, SearchInv

\* Whatever the number of agents, the shares of a session add up to its users.
THEOREM SharesExact == Spec => []SharesAddUp
<1>1. IndInv => SharesAddUp
  BY EndsWithShares DEF SharesInv, SharesAddUp
<1>. QED  BY <1>1, Inductive, PTL

\* Every prefix of the agents has its full shares, or all users there are.
THEOREM PrefixExact == Spec => [](total >= 0 => PrefixAllotted)
<1>1. IndInv => (total >= 0 => PrefixAllotted)
  BY DEF IndInv, SharesInv
<1>. QED  BY <1>1, Inductive, PTL

\* A phase never gets more users than its percentages say, and loses at most
\* one per session.
THEOREM PhaseRespected == Spec => []UsersWithinPhase
<1>1. IndInv => UsersWithinPhase
  BY EndsWithShares DEF SharesInv, UsersWithinPhase
<1>. QED  BY <1>1, Inductive, PTL
=============================================================================
