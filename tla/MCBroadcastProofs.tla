------------------------- MODULE MCBroadcastProofs -------------------------
(***************************************************************************)
(* The two sessions that broadcast, for any users, any number of messages  *)
(* and any hub that relays a message at most once: their gauges are exact, *)
(* a reader never blocks on its channel, and a hub that keeps to its       *)
(* protocol does not end the agent's process.                              *)
(***************************************************************************)
EXTENDS MCBroadcast, FiniteSetTheorems, TLAPS

\* The steps that both sessions take; the init messages have no part in them.
Shared(u) ==
    \/ Enter(u) \/ Dial(u) \/ DialNegative(u)
    \/ \E from \in {"connecting", "dialing", "protocol", "starting"} : Fail(u, from)
    \/ Send(u) \/ SendFails(u) \/ StartDraining(u)
    \/ WaitStep(u)
    \/ ReaderStep(u)
    \/ Relay(u)
    \/ \E k \in HubKinds : HubSends(u, k)

\* The steps of one session alone.
CoreOnly(u) == LogHostInstance(u) \/ SetProtocol(u)
FxOnly(u) ==
    \/ FxNegotiate(u) \/ FxOnInit(u) \/ FxStart(u) \/ FxStartHangs(u)
    \/ FxReadInit(u) \/ HubSendsInit(u)

\* Every step is one that both sessions take, or one of a single session.
LEMMA StepKinds ==
    ASSUME [MCNext]_mcVars
    PROVE  \/ UNCHANGED <<vars, fxVars, flavour>>
           \/ \E u \in Users :
                /\ UNCHANGED flavour
                /\ \/ Shared(u) /\ UNCHANGED fxVars
                   \/ CoreOnly(u) /\ flavour = "core" /\ UNCHANGED fxVars
                   \/ FxOnly(u) /\ flavour = "fx"
<1>1. CASE UNCHANGED mcVars
  BY <1>1 DEF mcVars
<1>2. ASSUME NEW u \in Users, flavour = "core", UNCHANGED <<flavour, fxVars>>,
             \/ Enter(u) \/ LogHostInstance(u) \/ Dial(u) \/ DialNegative(u)
             \/ Fail(u, "connecting") \/ Fail(u, "dialing")
             \/ WriteStep(u) \/ WaitStep(u) \/ ReaderStep(u)
             \/ Relay(u)
             \/ \E k \in HubKinds : HubSends(u, k)
      PROVE  Shared(u) \/ CoreOnly(u)
  <2>1. WriteStep(u) => Shared(u) \/ CoreOnly(u)
    BY DEF WriteStep, Shared, CoreOnly
  <2>. QED  BY <1>2, <2>1 DEF Shared, CoreOnly
<1>3. CASE Next /\ OfCore
  BY <1>2, <1>3 DEF Next, OfCore
<1>4. ASSUME NEW u \in Users, FxMainStep(u)
      PROVE  (Shared(u) /\ UNCHANGED fxVars) \/ FxOnly(u)
  BY <1>4 DEF FxMainStep, FxStartFails, FxSendStep, FxWaitStep, Shared, FxOnly
<1>5. ASSUME NEW u \in Users, FxReaderStep(u)
      PROVE  (Shared(u) /\ UNCHANGED fxVars) \/ FxOnly(u)
  <2>1. ASSUME NEW m \in Users, FxReadFrame(u, m) PROVE Shared(u) /\ UNCHANGED fxVars
    <3>1. ReaderStep(u)
      BY <2>1 DEF FxReadFrame, ReaderStep
    <3>. QED  BY <2>1, <3>1 DEF FxReadFrame, Shared
  <2>2. CASE FxReadRest(u) \/ FxReadOther(u)
    <3>1. ReaderStep(u) /\ UNCHANGED fxVars
      BY <2>2 DEF FxReadRest, FxReadOther, ReaderStep
    <3>. QED  BY <3>1 DEF Shared
  <2>. QED  BY <1>5, <2>1, <2>2 DEF FxReaderStep, FxOnly
<1>6. ASSUME NEW u \in Users,
             \/ Enter(u) /\ UNCHANGED fxVars
             \/ FxNegotiate(u) \/ FxDial(u) \/ FxConnectFails(u) \/ HubStep(u)
      PROVE  (Shared(u) /\ UNCHANGED fxVars) \/ FxOnly(u)
  BY <1>6 DEF FxDial, FxConnectFails, HubStep, Shared, FxOnly
<1>7. CASE FxNext /\ OfFx
  BY <1>4, <1>5, <1>6, <1>7 DEF FxNext, OfFx
<1>. QED  BY <1>1, <1>3, <1>7 DEF MCNext

-----------------------------------------------------------------------------
(***************************************************************************)
(* The gauges.                                                             *)
(***************************************************************************)

\* The users whose Execute is in one of the states S.
In(S) == {u \in Users : main[u] \in S}

\* 1 for a state of S, 0 for another.
Of(s, S) == IF s \in S THEN 1 ELSE 0

\* No user but u moves.
OnlyMoves(u) == \A x \in Users : x # u => main'[x] = main[x]

\* When one user moves, the number of users in S changes by what it left and
\* what it came to.
LEMMA MoveCounts ==
    ASSUME NEW S, NEW u \in Users, OnlyMoves(u)
    PROVE  /\ Cardinality(In(S)) \in Nat
           /\ main[u] \in S => Cardinality(In(S)) > 0
           /\ Cardinality(In(S)') = Cardinality(In(S)) + Of(main'[u], S) - Of(main[u], S)
<1>1. IsFiniteSet(In(S)) /\ IsFiniteSet(In(S)')
  <2>1. In(S) \in SUBSET Users /\ In(S)' \in SUBSET Users
    BY DEF In
  <2>. QED  BY <2>1, BroadcastAssumption, FS_Subset
<1>2. Cardinality(In(S)) \in Nat
  BY <1>1, FS_CardinalityType
<1>3. ASSUME main[u] \in S PROVE Cardinality(In(S)) > 0
  <2>1. u \in In(S)
    BY <1>3 DEF In
  <2>2. Cardinality(In(S)) # 0
    BY <1>1, <2>1, FS_EmptySet
  <2>. QED  BY <1>2, <2>2
<1>4. CASE (main'[u] \in S) <=> (main[u] \in S)
  <2>1. In(S)' = In(S)
    BY <1>4 DEF In, OnlyMoves
  <2>2. Of(main'[u], S) = Of(main[u], S) /\ Of(main[u], S) \in Int
    BY <1>4 DEF Of
  <2>. QED  BY <1>2, <1>3, <2>1, <2>2
<1>5. CASE main'[u] \in S /\ main[u] \notin S
  <2>1. In(S)' = In(S) \cup {u} /\ u \notin In(S)
    BY <1>5 DEF In, OnlyMoves
  <2>2. Cardinality(In(S)') = Cardinality(In(S)) + 1
    BY <1>1, <2>1, FS_AddElement
  <2>. QED  BY <1>2, <1>3, <1>5, <2>2 DEF Of
<1>6. CASE main'[u] \notin S /\ main[u] \in S
  <2>1. In(S)' = In(S) \ {u} /\ u \in In(S)
    BY <1>6 DEF In, OnlyMoves
  <2>2. Cardinality(In(S)') = Cardinality(In(S)) - 1
    BY <1>1, <2>1, FS_RemoveElement
  <2>. QED  BY <1>2, <1>3, <1>6, <2>2 DEF Of
<1>. QED  BY <1>4, <1>5, <1>6

\* What the gauges and the other counters are after a step of user u.
GaugesMove(u) ==
    /\ OnlyMoves(u)
    /\ cnt'["inprogress"] = cnt["inprogress"] + Of(main'[u], InProgress) - Of(main[u], InProgress)
    /\ cnt'["connected"] = cnt["connected"] + Of(main'[u], Connected) - Of(main[u], Connected)
    /\ \A c \in Counters \ {"inprogress", "connected"} : cnt'[c] \in Nat
    /\ cnt' = [c \in Counters |-> cnt'[c]]

\* Gauges that move with the user stay exact, and natural numbers.
LEMMA GaugesFollow ==
    ASSUME GaugesExact, NEW u \in Users, GaugesMove(u)
    PROVE  GaugesExact' /\ cnt' \in [Counters -> Nat]
<1>1. cnt["inprogress"] = Cardinality(In(InProgress)) /\ cnt["connected"] = Cardinality(In(Connected))
  BY DEF GaugesExact, In
<1>2. OnlyMoves(u)
  BY DEF GaugesMove
<1>3. \A S : /\ Cardinality(In(S)) \in Nat /\ Of(main'[u], S) \in {0, 1}
             /\ Of(main[u], S) \in {0, 1} /\ (Of(main[u], S) = 1 => Cardinality(In(S)) > 0)
             /\ Cardinality(In(S)') = Cardinality(In(S)) + Of(main'[u], S) - Of(main[u], S)
  BY <1>2, MoveCounts DEF Of
<1>4. /\ cnt'["inprogress"] = Cardinality(In(InProgress)')
      /\ cnt'["connected"] = Cardinality(In(Connected)')
  BY <1>1, <1>3 DEF GaugesMove
<1>5. Cardinality(In(InProgress)') \in Nat /\ Cardinality(In(Connected)') \in Nat
  BY <1>3
<1>6. cnt' \in [Counters -> Nat]
  BY <1>4, <1>5 DEF GaugesMove
<1>7. GaugesExact'
  BY <1>4 DEF GaugesExact, In
<1>. QED  BY <1>6, <1>7

\* A step that moves nobody, or within the same gauges, and counts something
\* else.
LEMMA OtherCounter ==
    ASSUME TypeOK, NEW u \in Users, OnlyMoves(u),
           main'[u] \in InProgress <=> main[u] \in InProgress,
           main'[u] \in Connected <=> main[u] \in Connected,
           \/ cnt' = cnt
           \/ \E c \in Counters \ {"inprogress", "connected"} : cnt' = Add(c)
           \/ cnt' = [Add("recv") EXCEPT !["error"] = @ + 1]
    PROVE  GaugesMove(u)
<1>1. cnt \in [Counters -> Nat] /\ cnt["inprogress"] \in Nat /\ cnt["connected"] \in Nat
  BY DEF TypeOK, Counters
<1>2. /\ cnt' \in [Counters -> Nat] /\ cnt'["inprogress"] = cnt["inprogress"]
      /\ cnt'["connected"] = cnt["connected"]
  <2>1. CASE cnt' = cnt
    BY <1>1, <2>1
  <2>2. ASSUME NEW c \in Counters \ {"inprogress", "connected"}, cnt' = Add(c)
        PROVE  /\ cnt' \in [Counters -> Nat] /\ cnt'["inprogress"] = cnt["inprogress"]
               /\ cnt'["connected"] = cnt["connected"]
    BY <1>1, <2>2 DEF Add, Counters
  <2>3. CASE cnt' = [Add("recv") EXCEPT !["error"] = @ + 1]
    BY <1>1, <2>3 DEF Add, Counters
  <2>. QED  BY <2>1, <2>2, <2>3
<1>3. /\ Of(main'[u], InProgress) = Of(main[u], InProgress)
      /\ Of(main'[u], Connected) = Of(main[u], Connected)
      /\ Of(main[u], InProgress) \in Nat /\ Of(main[u], Connected) \in Nat
  BY DEF Of
<1>4. /\ cnt'["inprogress"] = cnt["inprogress"] + Of(main'[u], InProgress) - Of(main[u], InProgress)
      /\ cnt'["connected"] = cnt["connected"] + Of(main'[u], Connected) - Of(main[u], Connected)
  BY <1>1, <1>2, <1>3
<1>. QED  BY <1>2, <1>4 DEF GaugesMove

\* The return from Execute takes u out of the gauges it was in.
LEMMA ReturnsGauges ==
    ASSUME TypeOK, NEW u \in Users, NEW from \in InProgress, NEW to \in Ended,
           NEW outcome \in {"error", "success", "closeerror"}, Returns(u, from, to, outcome)
    PROVE  GaugesMove(u)
<1>1. main[u] = from /\ main'[u] = to /\ OnlyMoves(u)
  BY DEF Returns, Moves, OnlyMoves, TypeOK
<1>2. /\ Of(from, InProgress) = 1 /\ Of(to, InProgress) = 0 /\ Of(to, Connected) = 0
      /\ Of(from, Connected) = IF from \in Connected THEN 1 ELSE 0
  BY DEF Of, InProgress, Ended, Connected
<1>3. /\ Add(outcome) \in [Counters -> Nat]
      /\ Add(outcome)["inprogress"] = cnt["inprogress"]
      /\ Add(outcome)["connected"] = cnt["connected"]
      /\ cnt["inprogress"] \in Nat /\ cnt["connected"] \in Nat
  BY DEF Add, TypeOK, Counters
<1>4. /\ cnt'["inprogress"] = cnt["inprogress"] - 1
      /\ cnt'["connected"] = IF from \in Connected THEN cnt["connected"] - 1 ELSE cnt["connected"]
      /\ \A c \in Counters \ {"inprogress", "connected"} : cnt'[c] \in Nat
      /\ cnt' = [c \in Counters |-> cnt'[c]]
  <2> DEFINE A == Add(outcome)
  <2>1. cnt' = [A EXCEPT !["inprogress"] = @ - 1,
                         !["connected"] = IF from \in Connected THEN @ - 1 ELSE @]
    BY DEF Returns
  <2>2. A \in [Counters -> Nat]
    BY <1>3
  <2> HIDE DEF A
  <2>3. /\ cnt'["inprogress"] = A["inprogress"] - 1
        /\ cnt'["connected"] = IF from \in Connected THEN A["connected"] - 1 ELSE A["connected"]
        /\ \A c \in Counters \ {"inprogress", "connected"} : cnt'[c] \in Nat
        /\ cnt' = [c \in Counters |-> cnt'[c]]
    BY <2>1, <2>2 DEF Counters
  <2>. QED  BY <1>3, <2>3 DEF A
<1>5. /\ cnt'["inprogress"] = cnt["inprogress"] + Of(main'[u], InProgress) - Of(main[u], InProgress)
      /\ cnt'["connected"] = cnt["connected"] + Of(main'[u], Connected) - Of(main[u], Connected)
  BY <1>1, <1>2, <1>3, <1>4
<1>. QED  BY <1>1, <1>4, <1>5 DEF GaugesMove

\* A user enters a gauge with the increment of it.
LEMMA EntersGauge ==
    ASSUME TypeOK, NEW u \in Users, OnlyMoves(u),
           \/ main[u] = "new" /\ main'[u] = "connecting" /\ cnt' = Add("inprogress")
           \/ main[u] \in {"protocol", "starting"} /\ main'[u] = "sending" /\ cnt' = Add("connected")
    PROVE  GaugesMove(u)
<1>1. cnt \in [Counters -> Nat] /\ cnt["inprogress"] \in Nat /\ cnt["connected"] \in Nat
  BY DEF TypeOK, Counters
<1>2. CASE main[u] = "new" /\ main'[u] = "connecting" /\ cnt' = Add("inprogress")
  <2>1. /\ Of(main[u], InProgress) = 0 /\ Of(main'[u], InProgress) = 1
        /\ Of(main[u], Connected) = 0 /\ Of(main'[u], Connected) = 0
    BY <1>2 DEF Of, InProgress, Connected
  <2>2. /\ cnt' \in [Counters -> Nat] /\ cnt'["inprogress"] = cnt["inprogress"] + 1
        /\ cnt'["connected"] = cnt["connected"]
    BY <1>1, <1>2 DEF Add, Counters
  <2>. QED  BY <1>1, <2>1, <2>2 DEF GaugesMove
<1>3. CASE main[u] \in {"protocol", "starting"} /\ main'[u] = "sending" /\ cnt' = Add("connected")
  <2>1. /\ Of(main[u], InProgress) = 1 /\ Of(main'[u], InProgress) = 1
        /\ Of(main[u], Connected) = 0 /\ Of(main'[u], Connected) = 1
    BY <1>3 DEF Of, InProgress, Connected
  <2>2. /\ cnt' \in [Counters -> Nat] /\ cnt'["inprogress"] = cnt["inprogress"]
        /\ cnt'["connected"] = cnt["connected"] + 1
    BY <1>1, <1>3 DEF Add, Counters
  <2>. QED  BY <1>1, <2>1, <2>2 DEF GaugesMove
<1>. QED  BY <1>2, <1>3

\* Every step of a user moves the gauges with it.
LEMMA GaugeStep ==
    ASSUME TypeOK, GaugesExact, [MCNext]_mcVars
    PROVE  GaugesExact' /\ cnt' \in [Counters -> Nat]
<1>1. CASE UNCHANGED <<vars, fxVars, flavour>>
  BY <1>1 DEF vars, mainVars, GaugesExact, TypeOK
<1> USE DEF mainVars, hubVars
<1>2. ASSUME NEW u \in Users,
             \/ Moves(u, "connecting", "dialing") /\ cnt' \in {cnt, Add("instance")}
             \/ Moves(u, "dialing", "protocol") /\ cnt' = cnt
             \/ Moves(u, "protocol", "starting") /\ cnt' = cnt
             \/ Moves(u, "starting", "hung") /\ cnt' = cnt
             \/ Moves(u, "sending", "draining") /\ cnt' = cnt
             \/ Moves(u, "draining", "closing") /\ cnt' = cnt
      PROVE  GaugesMove(u)
  <2>1. OnlyMoves(u)
    BY <1>2 DEF Moves, OnlyMoves, TypeOK
  <2>2. (main'[u] \in InProgress <=> main[u] \in InProgress)
        /\ (main'[u] \in Connected <=> main[u] \in Connected)
    BY <1>2 DEF Moves, InProgress, Connected, TypeOK
  <2>3. cnt' = cnt \/ \E c \in Counters \ {"inprogress", "connected"} : cnt' = Add(c)
    BY <1>2 DEF Counters
  <2>. QED  BY <2>1, <2>2, <2>3, OtherCounter
<1>3. ASSUME NEW u \in Users, main' = main,
             \/ cnt' \in {cnt, Add("send"), Add("latency"), Add("recv"), Add("error")}
             \/ cnt' = [Add("recv") EXCEPT !["error"] = @ + 1]
      PROVE  GaugesMove(u)
  <2>1. OnlyMoves(u)
    BY <1>3 DEF OnlyMoves
  <2>2. \/ cnt' = cnt
        \/ \E c \in Counters \ {"inprogress", "connected"} : cnt' = Add(c)
        \/ cnt' = [Add("recv") EXCEPT !["error"] = @ + 1]
    BY <1>3 DEF Counters
  <2>. QED  BY <1>3, <2>1, <2>2, OtherCounter
<1>4. ASSUME NEW u \in Users, Shared(u) PROVE GaugesMove(u)
  <2>1. CASE Enter(u)
    BY <2>1, EntersGauge DEF Enter, Moves, OnlyMoves, TypeOK
  <2>2. CASE Dial(u) \/ StartDraining(u) \/ StartClosing(u)
    BY <1>2, <2>2 DEF Dial, StartDraining, StartClosing
  <2>3. ASSUME NEW from \in {"connecting", "dialing", "protocol", "starting", "draining"}, Fail(u, from)
        PROVE  GaugesMove(u)
    <3>1. from \in InProgress /\ "failed" \in Ended
      BY DEF InProgress, Connected, Ended
    <3>. QED  BY <2>3, <3>1, ReturnsGauges DEF Fail
  <2>4. CASE SendFails(u)
    <3>1. "sending" \in InProgress /\ "failed" \in Ended
      BY DEF InProgress, Connected, Ended
    <3>. QED  BY <2>4, <3>1, ReturnsGauges DEF SendFails
  <2>5. CASE OnClose(u)
    <3>1. "closing" \in InProgress /\ "succeeded" \in Ended /\ "unclosed" \in Ended
      BY DEF InProgress, Connected, Ended
    <3>. QED  BY <2>5, <3>1, ReturnsGauges DEF OnClose
  <2>6. CASE Send(u) \/ TakeLatency(u) \/ SendLatency(u) \/ ReadGarbage(u) \/ ReadMalformed(u)
               \/ ReadFails(u) \/ Relay(u) \/ DialNegative(u) \/ ReadOther(u)
    BY <1>3, <2>6 DEF Send, TakeLatency, SendLatency, ReadGarbage, ReadMalformed, ReadFails, Relay,
                      DialNegative, ReadOther
  <2>7. ASSUME NEW m \in Users, ReadBroadcast(u, m) PROVE GaugesMove(u)
    BY <1>3, <2>7 DEF ReadBroadcast
  <2>8. ASSUME NEW k \in HubKinds, HubSends(u, k) PROVE GaugesMove(u)
    BY <1>3, <2>8 DEF HubSends
  <2>. QED
    BY <1>4, <2>1, <2>2, <2>3, <2>4, <2>5, <2>6, <2>7, <2>8
    DEF Shared, WaitStep, Timeout, CloseFails, ReaderStep
<1>5. ASSUME NEW u \in Users, CoreOnly(u) PROVE GaugesMove(u)
  <2>1. CASE LogHostInstance(u)
    BY <1>2, <1>3, <2>1 DEF LogHostInstance
  <2>2. CASE SetProtocol(u)
    BY <2>2, EntersGauge DEF SetProtocol, Moves, OnlyMoves, TypeOK
  <2>. QED  BY <1>5, <2>1, <2>2 DEF CoreOnly
<1>6. ASSUME NEW u \in Users, FxOnly(u) PROVE GaugesMove(u)
  <2>1. CASE FxNegotiate(u) \/ FxOnInit(u) \/ FxStartHangs(u)
    BY <1>2, <2>1 DEF FxNegotiate, FxOnInit, FxStartHangs
  <2>2. CASE FxStart(u)
    BY <2>2, EntersGauge DEF FxStart, Moves, OnlyMoves, TypeOK
  <2>3. CASE FxReadInit(u) \/ HubSendsInit(u)
    BY <1>3, <2>3 DEF FxReadInit, HubSendsInit
  <2>. QED  BY <1>6, <2>1, <2>2, <2>3 DEF FxOnly
<1>. QED  BY <1>1, <1>4, <1>5, <1>6, StepKinds, GaugesFollow

-----------------------------------------------------------------------------
(***************************************************************************)
(* Types.                                                                  *)
(***************************************************************************)

\* A message more, a message less, and none at all are bags of messages.
LEMMA Bags ==
    /\ \A b \in [Messages -> Nat], m \in Messages : [b EXCEPT ![m] = @ + 1] \in [Messages -> Nat]
    /\ \A b \in [Messages -> Nat], m \in Messages :
            b[m] > 0 => [b EXCEPT ![m] = @ - 1] \in [Messages -> Nat]
    /\ NoMessage \in [Messages -> Nat]
BY DEF NoMessage

\* A count below its bound can be incremented, one above zero decremented.
LEMMA BoundedStep ==
    ASSUME NEW n \in Nat, NEW i \in 0..n
    PROVE  /\ i < n => i + 1 \in 0..n
           /\ i > 0 => i - 1 \in 0..n
OBVIOUS

\* The types are kept; those of the counters follow from the gauges.
LEMMA TypeStep ==
    ASSUME TypeOK, [MCNext]_mcVars, cnt' \in [Counters -> Nat]
    PROVE  TypeOK'
<1>0. Total \in Nat /\ MaxOwn \in Nat
  BY BroadcastAssumption
<1>1. CASE UNCHANGED <<vars, fxVars, flavour>>
  BY <1>1 DEF vars, mainVars, hubVars, TypeOK
<1> USE DEF mainVars, hubVars
<1>2. ASSUME NEW u \in Users, NEW from, NEW to \in InProgress \cup Ended, Moves(u, from, to)
      PROVE  main' \in [Users -> InProgress \cup Ended \cup {"new"}]
  BY <1>2 DEF Moves, TypeOK
<1>3. "failed" \in InProgress \cup Ended /\ "succeeded" \in InProgress \cup Ended
      /\ "unclosed" \in InProgress \cup Ended /\ "connecting" \in InProgress \cup Ended
      /\ "dialing" \in InProgress \cup Ended /\ "protocol" \in InProgress \cup Ended
      /\ "starting" \in InProgress \cup Ended /\ "sending" \in InProgress \cup Ended
      /\ "draining" \in InProgress \cup Ended /\ "closing" \in InProgress \cup Ended
      /\ "hung" \in InProgress \cup Ended
  BY DEF InProgress, Connected, Ended
<1>4. ASSUME NEW u \in Users, NEW from, NEW to \in InProgress \cup Ended, NEW outcome,
             Returns(u, from, to, outcome)
      PROVE  /\ main' \in [Users -> InProgress \cup Ended \cup {"new"}]
             /\ closed' \in [Users -> BOOLEAN]
  BY <1>2, <1>4 DEF Returns, TypeOK
<1>5. ASSUME NEW u \in Users, NEW m \in Messages, Reads(u, m)
      PROVE  Taken(u, m) \in [Users -> [Messages -> Nat]]
  <2>1. [inbox[u] EXCEPT ![m] = @ - 1] \in [Messages -> Nat]
    BY <1>5, Bags DEF Reads, TypeOK
  <2>. QED  BY <2>1 DEF Taken, TypeOK
<1>6. ASSUME NEW u \in Users, Shared(u) PROVE TypeOK'
  <2>1. CASE Enter(u)
    BY <1>2, <1>3, <2>1 DEF Enter, TypeOK
  <2>2. CASE Dial(u)
    <3>1. reader' \in [Users -> {"none", "reading", "latency", "ended"}]
      BY <2>2 DEF Dial, TypeOK
    <3>2. main' \in [Users -> InProgress \cup Ended \cup {"new"}]
      BY <1>2, <1>3, <2>2 DEF Dial
    <3>. QED  BY <2>2, <3>1, <3>2 DEF Dial, TypeOK
  <2>3. ASSUME NEW from, Fail(u, from) PROVE TypeOK'
    BY <1>3, <1>4, <2>3 DEF Fail, TypeOK
  <2>4. CASE Send(u) \/ SendFails(u)
    <3>1. sent' \in [Users -> 0..Total]
      <4>1. sent[u] + 1 \in 0..Total
        BY <1>0, <2>4, BoundedStep DEF Send, SendFails, TypeOK
      <4>. QED  BY <2>4, <4>1 DEF Send, SendFails, TypeOK
    <3>2. main' \in [Users -> InProgress \cup Ended \cup {"new"}] /\ closed' \in [Users -> BOOLEAN]
      BY <1>3, <1>4, <2>4 DEF Send, SendFails, TypeOK
    <3>. QED  BY <2>4, <3>1, <3>2 DEF Send, SendFails, TypeOK
  <2>5. CASE StartDraining(u) \/ StartClosing(u)
    BY <1>2, <1>3, <2>5 DEF StartDraining, StartClosing, TypeOK
  <2>6. CASE OnClose(u)
    BY <1>3, <1>4, <2>6 DEF OnClose, TypeOK
  <2>7. CASE TakeLatency(u)
    <3>1. chan[u] - 1 \in 0..Total /\ got[u] + 1 \in 0..Total
      BY <1>0, <2>7, BoundedStep DEF TakeLatency, TypeOK
    <3>2. chan' \in [Users -> 0..Total] /\ got' \in [Users -> 0..Total]
      BY <2>7, <3>1 DEF TakeLatency, TypeOK
    <3>. QED  BY <2>7, <3>2 DEF TakeLatency, TypeOK
  <2>8. CASE SendLatency(u)
    <3>1. chan[u] + 1 \in 0..Total
      BY <1>0, <2>8, BoundedStep DEF SendLatency, TypeOK
    <3>2. chan' \in [Users -> 0..Total]
      BY <2>8, <3>1 DEF SendLatency, TypeOK
    <3>. QED  BY <2>8, <3>2 DEF SendLatency, TypeOK
  <2>9. CASE ReadGarbage(u) \/ ReadFails(u)
    <3>1. inbox' \in [Users -> [Messages -> Nat]]
      BY <2>9, Bags DEF ReadGarbage, ReadFails, ReaderReturns, TypeOK
    <3>. QED  BY <2>9, <3>1 DEF ReadGarbage, ReadFails, ReaderReturns, TypeOK
  <2>10. CASE ReadMalformed(u) \/ DialNegative(u)
    BY <2>10 DEF ReadMalformed, DialNegative, TypeOK
  <2>11. ASSUME NEW m \in Users, ReadBroadcast(u, m) PROVE TypeOK'
    <3>1. m \in Messages
      BY DEF Messages
    <3>. QED  BY <1>5, <2>11, <3>1 DEF ReadBroadcast, TypeOK
  <2>14. CASE ReadOther(u)
    <3>1. "other" \in Messages
      BY DEF Messages, HubKinds
    <3>2. inbox' \in [Users -> [Messages -> Nat]]
      BY <1>5, <2>14, <3>1 DEF ReadOther
    <3>. QED  BY <2>14, <3>2 DEF ReadOther, TypeOK
  <2>12. CASE Relay(u)
    <3>1. relayed[u] + 1 \in 0..Total
      BY <1>0, <2>12 DEF Relay, TypeOK
    <3>2. u \in Messages
      BY DEF Messages
    <3>3. \A v \in Users : [inbox[v] EXCEPT ![u] = @ + 1] \in [Messages -> Nat]
      BY <3>2, Bags DEF TypeOK
    <3>4. inbox' \in [Users -> [Messages -> Nat]]
      BY <2>12, <3>3 DEF Relay, TypeOK
    <3>5. relayed' \in [Users -> 0..Total]
      BY <2>12, <3>1 DEF Relay, TypeOK
    <3>. QED  BY <2>12, <3>4, <3>5 DEF Relay, TypeOK
  <2>13. ASSUME NEW k \in HubKinds, HubSends(u, k) PROVE TypeOK'
    <3>1. own' \in 0..MaxOwn
      BY <1>0, <2>13, BoundedStep DEF HubSends, TypeOK
    <3>2. [inbox[u] EXCEPT ![k] = @ + 1] \in [Messages -> Nat]
      BY Bags DEF Messages, TypeOK
    <3>3. inbox' \in [Users -> [Messages -> Nat]]
      BY <2>13, <3>2 DEF HubSends, TypeOK
    <3>4. breaches' \in 0..own'
      BY <1>0, <2>13 DEF HubSends, TypeOK
    <3>. QED  BY <2>13, <3>1, <3>3, <3>4 DEF HubSends, TypeOK
  <2>. QED
    BY <1>6, <2>1, <2>2, <2>3, <2>4, <2>5, <2>6, <2>7, <2>8, <2>9, <2>10, <2>11, <2>12, <2>13,
       <2>14
    DEF Shared, WaitStep, Timeout, CloseFails, ReaderStep
<1>7. ASSUME NEW u \in Users, CoreOnly(u) PROVE TypeOK'
  BY <1>2, <1>3, <1>7 DEF CoreOnly, LogHostInstance, SetProtocol, TypeOK
<1>8. ASSUME NEW u \in Users, FxOnly(u) PROVE TypeOK'
  <2>1. CASE FxNegotiate(u) \/ FxOnInit(u) \/ FxStart(u) \/ FxStartHangs(u)
    BY <1>2, <1>3, <2>1 DEF FxNegotiate, FxOnInit, FxStart, FxStartHangs, TypeOK
  <2>2. CASE FxReadInit(u)
    BY <2>2 DEF FxReadInit, TypeOK
  <2>4. CASE HubSendsInit(u)
    <3>1. own' \in 0..MaxOwn
      BY <1>0, <2>4, BoundedStep DEF HubSendsInit, TypeOK
    <3>2. breaches' \in 0..own'
      BY <1>0, <2>4 DEF HubSendsInit, TypeOK
    <3>. QED  BY <2>4, <3>1, <3>2 DEF HubSendsInit, TypeOK
  <2>. QED  BY <1>8, <2>1, <2>2, <2>4 DEF FxOnly
<1>. QED  BY <1>1, <1>6, <1>7, <1>8, StepKinds

\* The types and the gauges are kept together.
THEOREM TypesAndGauges == MCSpec => [](TypeOK /\ GaugesExact)
<1>1. MCInit => TypeOK
  <2> SUFFICES ASSUME MCInit PROVE TypeOK
    OBVIOUS
  <2>1. Init
    BY DEF MCInit, FxInit
  <2>2. 0 \in 0..Total /\ 0 \in 0..MaxOwn /\ 0 \in 0..0
    BY BroadcastAssumption
  <2>. QED  BY <2>1, <2>2, Bags DEF Init, TypeOK
<1>2. MCInit => GaugesExact
  <2> SUFFICES ASSUME MCInit PROVE GaugesExact
    OBVIOUS
  <2>1. \A u \in Users : main[u] = "new"
    BY DEF MCInit, FxInit, Init
  <2>2. /\ {u \in Users : main[u] \in InProgress} = {}
        /\ {u \in Users : main[u] \in Connected} = {}
    BY <2>1 DEF InProgress, Connected
  <2>3. cnt["inprogress"] = 0 /\ cnt["connected"] = 0
    BY DEF MCInit, FxInit, Init, Counters
  <2>. QED  BY <2>2, <2>3, FS_EmptySet DEF GaugesExact
<1>3. TypeOK /\ GaugesExact /\ [MCNext]_mcVars => TypeOK' /\ GaugesExact'
  BY GaugeStep, TypeStep
<1>. QED  BY <1>1, <1>2, <1>3, PTL DEF MCSpec

\* Type correctness.
THEOREM TypeCorrect == MCSpec => []TypeOK
BY TypesAndGauges, PTL

\* The gauges of either session are exact, in whatever order the users come and
\* go and whichever way each Execute ends.
THEOREM GaugesRight == MCSpec => []GaugesExact
BY TypesAndGauges, PTL

-----------------------------------------------------------------------------
(***************************************************************************)
(* A reader and its channel.                                               *)
(***************************************************************************)

\* Whether the reader of u holds a latency it has still to hand over.
Holding(u) == IF reader[u] = "latency" THEN 1 ELSE 0

\* Every message of its own that a user has taken, has in recvChan, or has on
\* the way back, the hub has relayed; and that it has sent.
OwnMessages(u) ==
    /\ got[u] + chan[u] + Holding(u) + inbox[u][u] <= relayed[u]
    /\ relayed[u] <= sent[u]

OwnInv == \A u \in Users : OwnMessages(u)

\* The numbers in OwnMessages are naturals.
LEMMA OwnType ==
    ASSUME TypeOK, NEW u \in Users
    PROVE  /\ got[u] \in Nat /\ chan[u] \in Nat /\ sent[u] \in Nat /\ relayed[u] \in Nat
           /\ Holding(u) \in Nat /\ inbox[u][u] \in Nat
BY BroadcastAssumption DEF TypeOK, Holding, Messages

\* No step makes a user receive what it has not sent.
LEMMA OwnStep ==
    ASSUME TypeOK, OwnInv, [MCNext]_mcVars
    PROVE  OwnInv'
<1> SUFFICES ASSUME NEW w \in Users PROVE OwnMessages(w)'
  BY DEF OwnInv
<1>0. OwnMessages(w)
  BY DEF OwnInv
<1>1. /\ got[w] \in Nat /\ chan[w] \in Nat /\ sent[w] \in Nat /\ relayed[w] \in Nat
      /\ Holding(w) \in Nat /\ inbox[w][w] \in Nat
  BY OwnType
<1>2. ASSUME got'[w] = got[w], chan'[w] = chan[w], Holding(w)' = Holding(w),
             inbox'[w][w] = inbox[w][w], relayed'[w] = relayed[w],
             sent'[w] \in {sent[w], sent[w] + 1}
      PROVE  OwnMessages(w)'
  BY <1>0, <1>1, <1>2 DEF OwnMessages
<1>3. w \in Messages /\ w \notin HubKinds
  BY BroadcastAssumption DEF Messages, HubKinds
<1> USE DEF mainVars, hubVars
<1>4. CASE UNCHANGED <<vars, fxVars, flavour>>
  <2>1. UNCHANGED <<got, chan, reader, inbox, relayed, sent>>
    BY <1>4 DEF vars
  <2>. QED  BY <1>2, <2>1 DEF Holding
<1>5. ASSUME UNCHANGED <<got, chan, reader, inbox, relayed, sent>> PROVE OwnMessages(w)'
  BY <1>2, <1>5 DEF Holding
<1>6. ASSUME NEW u \in Users, Shared(u) PROVE OwnMessages(w)'
  <2>1. CASE Enter(u) \/ StartDraining(u) \/ StartClosing(u) \/ OnClose(u) \/ ReadMalformed(u)
               \/ DialNegative(u)
    BY <1>5, <2>1 DEF Enter, StartDraining, StartClosing, OnClose, ReadMalformed, DialNegative
  <2>2. ASSUME NEW from, Fail(u, from) PROVE OwnMessages(w)'
    BY <1>5, <2>2 DEF Fail
  <2>3. CASE Dial(u)
    <3>1. UNCHANGED <<got, chan, inbox, relayed, sent>>
      BY <2>3 DEF Dial
    <3>2. Holding(w)' \in Nat /\ Holding(w)' <= Holding(w)
      BY <2>3 DEF Dial, Holding, TypeOK
    <3>. QED  BY <1>0, <1>1, <3>1, <3>2 DEF OwnMessages
  <2>4. CASE Send(u) \/ SendFails(u)
    <3>1. UNCHANGED <<got, chan, reader, inbox, relayed>>
      BY <2>4 DEF Send, SendFails
    <3>2. sent'[w] \in {sent[w], sent[w] + 1}
      BY <2>4 DEF Send, SendFails, TypeOK
    <3>. QED  BY <1>2, <3>1, <3>2 DEF Holding
  <2>5. CASE TakeLatency(u)
    <3>1. UNCHANGED <<reader, inbox, relayed, sent>>
      BY <2>5 DEF TakeLatency
    <3>2. got'[w] + chan'[w] = got[w] + chan[w]
      BY <1>1, <2>5 DEF TakeLatency, TypeOK
    <3>. QED  BY <1>0, <1>1, <3>1, <3>2 DEF OwnMessages, Holding
  <2>6. CASE SendLatency(u)
    <3>1. UNCHANGED <<got, inbox, relayed, sent>>
      BY <2>6 DEF SendLatency
    <3>2. CASE w = u
      <4>1. Holding(w) = 1 /\ Holding(w)' = 0 /\ chan'[w] = chan[w] + 1
        BY <2>6, <3>2 DEF SendLatency, Holding, TypeOK
      <4>. QED  BY <1>0, <1>1, <3>1, <4>1 DEF OwnMessages
    <3>3. CASE w # u
      <4>1. Holding(w)' = Holding(w) /\ chan'[w] = chan[w]
        BY <2>6, <3>3 DEF SendLatency, Holding, TypeOK
      <4>. QED  BY <1>2, <3>1, <4>1
    <3>. QED  BY <3>2, <3>3
  <2>7. CASE ReadGarbage(u) \/ ReadFails(u)
    <3>1. UNCHANGED <<got, chan, relayed, sent>>
      BY <2>7 DEF ReadGarbage, ReadFails
    <3>2. Holding(w)' = Holding(w)
      BY <2>7 DEF ReadGarbage, ReadFails, Reads, ReaderReturns, Holding, TypeOK
    <3>3. inbox'[w][w] = inbox[w][w] \/ inbox'[w][w] = 0
      BY <1>3, <2>7 DEF ReadGarbage, ReadFails, ReaderReturns, NoMessage, TypeOK
    <3>. QED  BY <1>0, <1>1, <3>1, <3>2, <3>3 DEF OwnMessages
  <2>8. ASSUME NEW m \in Users, ReadBroadcast(u, m) PROVE OwnMessages(w)'
    <3>1. UNCHANGED <<got, chan, relayed, sent>>
      BY <2>8 DEF ReadBroadcast
    <3>2. CASE w # u
      <4>1. Holding(w)' = Holding(w) /\ inbox'[w] = inbox[w]
        BY <2>8, <3>2 DEF ReadBroadcast, Taken, Holding, TypeOK
      <4>. QED  BY <1>2, <3>1, <4>1
    <3>3. CASE w = u
      <4>1. Holding(w) = 0 /\ Holding(w)' = IF m = w THEN 1 ELSE 0
        BY <2>8, <3>3 DEF ReadBroadcast, Reads, Holding, TypeOK
      <4>2. inbox'[w] = [inbox[w] EXCEPT ![m] = @ - 1]
        BY <2>8, <3>3 DEF ReadBroadcast, Taken, TypeOK
      <4>3. inbox'[w][w] = IF m = w THEN inbox[w][w] - 1 ELSE inbox[w][w]
        BY <1>3, <4>2 DEF TypeOK
      <4>. QED  BY <1>0, <1>1, <3>1, <4>1, <4>3 DEF OwnMessages
    <3>. QED  BY <3>2, <3>3
  <2>9. CASE Relay(u)
    <3>1. UNCHANGED <<got, chan, reader, sent>>
      BY <2>9 DEF Relay
    <3>2. inbox'[w] = inbox[w] \/ inbox'[w] = [inbox[w] EXCEPT ![u] = @ + 1]
      BY <2>9 DEF Relay
    <3>3. inbox'[w][w] \in {inbox[w][w], IF w = u THEN inbox[w][w] + 1 ELSE inbox[w][w]}
      BY <1>3, <3>2 DEF TypeOK
    <3>4. relayed'[w] = (IF w = u THEN relayed[w] + 1 ELSE relayed[w]) /\ (w = u => relayed[w] < sent[w])
      BY <2>9 DEF Relay, TypeOK
    <3>5. Holding(w)' = Holding(w)
      BY <3>1 DEF Holding
    <3>. QED  BY <1>0, <1>1, <3>1, <3>3, <3>4, <3>5 DEF OwnMessages
  <2>10. ASSUME NEW k \in HubKinds, HubSends(u, k) PROVE OwnMessages(w)'
    <3>1. UNCHANGED <<got, chan, reader, relayed, sent>>
      BY <2>10 DEF HubSends
    <3>2. inbox'[w] = inbox[w] \/ inbox'[w] = [inbox[w] EXCEPT ![k] = @ + 1]
      BY <2>10 DEF HubSends, TypeOK
    <3>3. inbox'[w][w] = inbox[w][w]
      BY <1>3, <3>2 DEF TypeOK
    <3>. QED  BY <1>2, <3>1, <3>3 DEF Holding
  <2>11. CASE ReadOther(u)
    <3>1. UNCHANGED <<got, chan, reader, relayed, sent>>
      BY <2>11 DEF ReadOther
    <3>2. inbox'[w] = inbox[w] \/ inbox'[w] = [inbox[w] EXCEPT !["other"] = @ - 1]
      BY <2>11 DEF ReadOther, Taken, TypeOK
    <3>3. inbox'[w][w] = inbox[w][w]
      BY <1>3, <3>2 DEF TypeOK, HubKinds
    <3>. QED  BY <1>2, <3>1, <3>3 DEF Holding
  <2>. QED
    BY <1>6, <2>1, <2>2, <2>3, <2>4, <2>5, <2>6, <2>7, <2>8, <2>9, <2>10, <2>11
    DEF Shared, WaitStep, Timeout, CloseFails, ReaderStep
<1>7. ASSUME NEW u \in Users, CoreOnly(u) PROVE OwnMessages(w)'
  BY <1>5, <1>7 DEF CoreOnly, LogHostInstance, SetProtocol
<1>8. ASSUME NEW u \in Users, FxOnly(u) PROVE OwnMessages(w)'
  BY <1>5, <1>8 DEF FxOnly, FxNegotiate, FxOnInit, FxStart, FxStartHangs, FxReadInit, HubSendsInit
<1>. QED  BY <1>4, <1>6, <1>7, <1>8, StepKinds

\* The reader of a user never blocks on recvChan, in either session, also when
\* Execute has failed and nobody receives.
THEOREM NeverBlocks == MCSpec => []ReaderNeverBlocks
<1>1. MCInit => OwnInv
  BY DEF MCInit, FxInit, Init, OwnInv, OwnMessages, Holding, NoMessage, Messages
<1>2. TypeOK /\ OwnInv /\ [MCNext]_mcVars => OwnInv'
  BY OwnStep
<1>3. TypeOK /\ OwnInv => ReaderNeverBlocks
  <2> SUFFICES ASSUME TypeOK, OwnInv, NEW u \in Users, reader[u] = "latency" PROVE chan[u] < Total
    BY DEF ReaderNeverBlocks
  <2>1. OwnMessages(u) /\ Holding(u) = 1
    BY DEF OwnInv, Holding
  <2>2. sent[u] <= Total /\ Total \in Nat
    BY BroadcastAssumption DEF TypeOK
  <2>. QED  BY <2>1, <2>2, OwnType DEF OwnMessages
<1>. QED  BY <1>1, <1>2, <1>3, TypeCorrect, PTL DEF MCSpec

-----------------------------------------------------------------------------
(***************************************************************************)
(* What ends the agent's process in the session of ASP.NET.                *)
(***************************************************************************)

\* The init messages that have been sent to u: those on the way, and the one
\* that closed connectChan.
InitsOf(u) == inits[u] + (IF ready[u] THEN 1 ELSE 0)

\* The types of what the session of ASP.NET adds.
FxTypes ==
    /\ inits \in [Users -> Nat]
    /\ ready \in [Users -> BOOLEAN]

\* As long as the hub keeps to its protocol no connection gets a second init
\* message or a malformed one, and the process runs, if the duration is valid.
ProtocolInv ==
    /\ FxTypes
    /\ breaches = 0 =>
        /\ \A u \in Users : InitsOf(u) <= 1 /\ inbox[u]["malformed"] = 0
        /\ flavour = "fx" /\ duration = "valid" => alive

\* The parameters of a job do not change.
LEMMA DurationFixed ==
    ASSUME [MCNext]_mcVars
    PROVE  duration' = duration
<1> USE DEF mainVars, hubVars
<1>1. CASE UNCHANGED <<vars, fxVars, flavour>>
  BY <1>1 DEF vars
<1>2. ASSUME NEW u \in Users, Shared(u) PROVE duration' = duration
  <2>1. CASE ReaderStep(u)
    BY <2>1 DEF ReaderStep, ReadBroadcast, ReadOther, SendLatency, ReadGarbage, ReadMalformed,
                ReadFails
  <2>2. CASE WaitStep(u)
    BY <2>2 DEF WaitStep, TakeLatency, Timeout, StartClosing, CloseFails, OnClose, Fail
  <2>. QED
    BY <1>2, <2>1, <2>2 DEF Shared, Enter, Dial, DialNegative, Fail, Send, SendFails,
                            StartDraining, Relay, HubSends
<1>3. ASSUME NEW u \in Users, CoreOnly(u) \/ FxOnly(u) PROVE duration' = duration
  BY <1>3 DEF CoreOnly, LogHostInstance, SetProtocol, FxOnly, FxNegotiate, FxOnInit, FxStart,
              FxStartHangs, FxReadInit, HubSendsInit
<1>. QED  BY <1>1, <1>2, <1>3, StepKinds

\* No step of a user makes the hub break its protocol, and what the hub does
\* against it counts as a breach.
LEMMA ProtocolStep ==
    ASSUME TypeOK, ProtocolInv, [MCNext]_mcVars
    PROVE  ProtocolInv'
<1> DEFINE Quiet(w) == inbox[w]["malformed"] = 0
<1>0. "malformed" \in Messages /\ "malformed" \notin Users /\ breaches \in Nat /\ FxTypes
      /\ duration' = duration
  BY BroadcastAssumption, DurationFixed DEF Messages, HubKinds, TypeOK, ProtocolInv
<1>1. ASSUME breaches' = 0, breaches = 0, UNCHANGED <<flavour, fxVars>>,
             \A w \in Users : Quiet(w) => Quiet(w)',
             flavour = "fx" /\ duration = "valid" => (alive => alive')
      PROVE  ProtocolInv'
  BY <1>0, <1>1 DEF ProtocolInv, InitsOf, FxTypes, fxVars
<1>2. ASSUME breaches' # 0, FxTypes' PROVE ProtocolInv'
  BY <1>2 DEF ProtocolInv
<1> USE DEF mainVars, hubVars
<1>3. CASE UNCHANGED <<vars, fxVars, flavour>>
  BY <1>3 DEF vars, fxVars, ProtocolInv, InitsOf, FxTypes
<1>4. ASSUME UNCHANGED <<flavour, fxVars, breaches>>, \A w \in Users : Quiet(w) => Quiet(w)',
             breaches = 0 /\ flavour = "fx" /\ duration = "valid" => (alive => alive')
      PROVE  ProtocolInv'
  <2>1. CASE breaches = 0
    BY <1>1, <1>4, <2>1
  <2>2. CASE breaches # 0
    BY <1>0, <1>2, <1>4, <2>2 DEF FxTypes, fxVars
  <2>. QED  BY <2>1, <2>2
<1>5. ASSUME NEW u \in Users, Shared(u), UNCHANGED <<flavour, fxVars>> PROVE ProtocolInv'
  <2>1. CASE Enter(u) \/ Dial(u) \/ Send(u) \/ SendFails(u) \/ StartDraining(u) \/ StartClosing(u)
               \/ OnClose(u) \/ TakeLatency(u) \/ SendLatency(u)
    <3>1. UNCHANGED <<breaches, inbox, alive>>
      BY <2>1 DEF Enter, Dial, Send, SendFails, StartDraining, StartClosing, OnClose,
                  TakeLatency, SendLatency
    <3>. QED  BY <1>4, <1>5, <3>1
  <2>2. ASSUME NEW from, Fail(u, from) PROVE ProtocolInv'
    BY <1>4, <1>5, <2>2 DEF Fail
  <2>3. CASE ReadGarbage(u) \/ ReadFails(u)
    <3>1. UNCHANGED <<breaches, alive>>
      BY <2>3 DEF ReadGarbage, ReadFails
    <3>2. \A w \in Users : Quiet(w) => Quiet(w)'
      BY <1>0, <2>3 DEF ReadGarbage, ReadFails, ReaderReturns, NoMessage, TypeOK
    <3>. QED  BY <1>4, <1>5, <3>1, <3>2
  <2>4. CASE ReadMalformed(u)
    <3>1. inbox[u]["malformed"] > 0 /\ UNCHANGED <<breaches, inbox>>
      BY <2>4 DEF ReadMalformed, Reads
    <3>2. breaches # 0
      BY <3>1 DEF ProtocolInv
    <3>. QED  BY <1>4, <1>5, <3>1, <3>2
  <2>8. CASE DialNegative(u)
    <3>1. UNCHANGED <<breaches, inbox>> /\ duration = "negative"
      BY <2>8 DEF DialNegative
    <3>. QED  BY <1>4, <1>5, <3>1
  <2>9. CASE ReadOther(u)
    <3>1. UNCHANGED <<breaches, alive>>
      BY <2>9 DEF ReadOther
    <3>2. \A w \in Users : inbox'[w] = inbox[w] \/ inbox'[w] = [inbox[w] EXCEPT !["other"] = @ - 1]
      BY <2>9 DEF ReadOther, Taken, TypeOK
    <3>3. ASSUME NEW w \in Users PROVE inbox'[w]["malformed"] = inbox[w]["malformed"]
      <4>1. inbox[w] \in [Messages -> Nat]
        BY DEF TypeOK
      <4>. QED  BY <1>0, <3>2, <4>1
    <3>. QED  BY <1>4, <1>5, <3>1, <3>3
  <2>5. ASSUME NEW m \in Users, ReadBroadcast(u, m) PROVE ProtocolInv'
    <3>1. UNCHANGED <<breaches, alive>> /\ m # "malformed"
      BY <1>0, <2>5 DEF ReadBroadcast
    <3>2. \A w \in Users : inbox'[w] = inbox[w] \/ inbox'[w] = [inbox[w] EXCEPT ![m] = @ - 1]
      BY <2>5 DEF ReadBroadcast, Taken, TypeOK
    <3>3. ASSUME NEW w \in Users PROVE inbox'[w]["malformed"] = inbox[w]["malformed"]
      <4>1. inbox[w] \in [Messages -> Nat]
        BY DEF TypeOK
      <4>. QED  BY <1>0, <3>1, <3>2, <4>1
    <3>. QED  BY <1>4, <1>5, <3>1, <3>3
  <2>6. CASE Relay(u)
    <3>1. UNCHANGED <<breaches, alive>> /\ u # "malformed"
      BY <1>0, <2>6 DEF Relay
    <3>2. \A w \in Users : inbox'[w] = inbox[w] \/ inbox'[w] = [inbox[w] EXCEPT ![u] = @ + 1]
      BY <2>6 DEF Relay
    <3>3. ASSUME NEW w \in Users PROVE inbox'[w]["malformed"] = inbox[w]["malformed"]
      <4>1. inbox[w] \in [Messages -> Nat]
        BY DEF TypeOK
      <4>. QED  BY <1>0, <3>1, <3>2, <4>1
    <3>. QED  BY <1>4, <1>5, <3>1, <3>3
  <2>7. ASSUME NEW k \in HubKinds, HubSends(u, k) PROVE ProtocolInv'
    <3>1. CASE k = "malformed"
      <4>1. breaches' # 0
        BY <1>0, <2>7, <3>1 DEF HubSends
      <4>. QED  BY <1>0, <1>2, <1>5, <4>1 DEF FxTypes, fxVars
    <3>2. CASE k # "malformed"
      <4>1. UNCHANGED <<breaches, alive>>
        BY <2>7, <3>2 DEF HubSends
      <4>2. \A w \in Users : inbox'[w] = inbox[w] \/ inbox'[w] = [inbox[w] EXCEPT ![k] = @ + 1]
        BY <2>7 DEF HubSends, TypeOK
      <4>3. ASSUME NEW w \in Users PROVE inbox'[w]["malformed"] = inbox[w]["malformed"]
        <5>1. inbox[w] \in [Messages -> Nat]
          BY DEF TypeOK
        <5>. QED  BY <1>0, <3>2, <4>2, <5>1
      <4>. QED  BY <1>4, <1>5, <4>1, <4>3
    <3>. QED  BY <3>1, <3>2
  <2>. QED
    BY <1>5, <2>1, <2>2, <2>3, <2>4, <2>5, <2>6, <2>7, <2>8, <2>9
    DEF Shared, WaitStep, Timeout, CloseFails, ReaderStep
<1>6. ASSUME NEW u \in Users, CoreOnly(u), flavour = "core", UNCHANGED <<flavour, fxVars>>
      PROVE  ProtocolInv'
  <2>1. UNCHANGED <<breaches, inbox>>
    BY <1>6 DEF CoreOnly, LogHostInstance, SetProtocol
  <2>. QED  BY <1>4, <1>6, <2>1
<1>7. ASSUME NEW u \in Users, FxOnly(u), UNCHANGED flavour PROVE ProtocolInv'
  <2>1. CASE FxNegotiate(u) \/ FxOnInit(u) \/ FxStart(u) \/ FxStartHangs(u)
    <3>1. UNCHANGED <<breaches, inbox, alive, fxVars>>
      BY <2>1 DEF FxNegotiate, FxOnInit, FxStart, FxStartHangs
    <3>. QED  BY <1>4, <1>7, <3>1
  <2>3. CASE FxReadInit(u)
    <3>1. /\ UNCHANGED <<breaches, inbox>> /\ inits[u] > 0 /\ alive' = ~ready[u]
          /\ inits' = [inits EXCEPT ![u] = @ - 1] /\ ready' = [ready EXCEPT ![u] = TRUE]
      BY <2>3 DEF FxReadInit
    <3>2. FxTypes'
      BY <1>0, <3>1 DEF FxTypes
    <3>3. CASE breaches = 0
      <4>1. InitsOf(u) <= 1
        BY <3>3 DEF ProtocolInv
      <4>2. ~ready[u] /\ inits[u] = 1
        BY <1>0, <3>1, <4>1 DEF InitsOf, FxTypes
      <4>3. InitsOf(u)' = 1
        BY <1>0, <3>1, <4>2 DEF InitsOf, FxTypes
      <4>4. \A w \in Users : w # u => InitsOf(w)' = InitsOf(w)
        BY <1>0, <3>1 DEF InitsOf, FxTypes
      <4>5. \A w \in Users : InitsOf(w)' <= 1
        BY <3>3, <4>3, <4>4 DEF ProtocolInv
      <4>. QED  BY <3>1, <3>2, <3>3, <4>2, <4>5 DEF ProtocolInv
    <3>4. CASE breaches # 0
      BY <1>2, <3>1, <3>2, <3>4
    <3>. QED  BY <3>3, <3>4
  <2>4. CASE HubSendsInit(u)
    <3>1. /\ UNCHANGED <<inbox, alive, ready>> /\ inits' = [inits EXCEPT ![u] = @ + 1]
          /\ IF ready[u] \/ inits[u] > 0 THEN breaches' = breaches + 1 ELSE UNCHANGED breaches
      BY <2>4 DEF HubSendsInit
    <3>2. FxTypes'
      BY <1>0, <3>1 DEF FxTypes
    <3>3. CASE breaches' = 0
      <4>1. breaches = 0 /\ ~ready[u] /\ inits[u] = 0
        BY <1>0, <3>1, <3>3 DEF FxTypes
      <4>2. InitsOf(u)' = 1
        BY <1>0, <3>1, <4>1 DEF InitsOf, FxTypes
      <4>3. \A w \in Users : w # u => InitsOf(w)' = InitsOf(w)
        BY <1>0, <3>1 DEF InitsOf, FxTypes
      <4>4. \A w \in Users : InitsOf(w)' <= 1
        BY <4>1, <4>2, <4>3 DEF ProtocolInv
      <4>. QED  BY <1>0, <1>7, <3>1, <3>2, <4>1, <4>4 DEF ProtocolInv
    <3>4. CASE breaches' # 0
      BY <1>2, <3>2, <3>4
    <3>. QED  BY <3>3, <3>4
  <2>. QED  BY <1>7, <2>1, <2>3, <2>4 DEF FxOnly
<1>. QED  BY <1>3, <1>5, <1>6, <1>7, StepKinds

\* In the session of ASP.NET, with a valid duration, a hub that acknowledges,
\* relays and sends each connection one init message never ends the agent's
\* process, however the messages arrive.
THEOREM FxPanicProvoked == MCSpec => []FxPanicIsProvoked
<1>1. MCInit => ProtocolInv
  BY DEF MCInit, FxInit, Init, ProtocolInv, FxTypes, InitsOf, NoMessage, Messages, HubKinds
<1>2. TypeOK /\ ProtocolInv /\ [MCNext]_mcVars => ProtocolInv'
  BY ProtocolStep
<1>3. TypeOK /\ ProtocolInv => FxPanicIsProvoked
  <2>1. TypeOK => breaches \in Nat /\ duration \in {"valid", "negative"}
    BY BroadcastAssumption DEF TypeOK
  <2>. QED  BY <2>1 DEF ProtocolInv, FxPanicIsProvoked, PanicIsProvoked
<1>. QED  BY <1>1, <1>2, <1>3, TypeCorrect, PTL DEF MCSpec
=============================================================================
