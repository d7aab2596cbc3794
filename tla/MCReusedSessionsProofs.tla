----------------------- MODULE MCReusedSessionsProofs -----------------------
(***************************************************************************)
(* The sessions whose objects outlive a job, for any calls, any number of  *)
(* messages, channels and connections: what their counters are worth when  *)
(* a Setup has reset them under calls, which client a Setup leaves, that a *)
(* success stands for a complete exchange, and that the pool grows for     *)
(* want of channels only.                                                  *)
(***************************************************************************)
EXTENDS MCReusedSessions, FiniteSetTheorems, WellFoundedInduction, TLAPS

\* 1 for TRUE, 0 for FALSE.
Bit(b) == IF b THEN 1 ELSE 0

\* Two sets of calls that differ in u at most: their sizes differ by that.
LEMMA SetMoves ==
    ASSUME NEW A \in SUBSET Calls, NEW B \in SUBSET Calls, NEW u, A \ {u} = B \ {u}
    PROVE  /\ Cardinality(A) \in Nat
           /\ Cardinality(B) \in Nat
           /\ Cardinality(B) = Cardinality(A) + Bit(u \in B) - Bit(u \in A)
<1>1. IsFiniteSet(A) /\ IsFiniteSet(B)
  BY RabbitMQAssumption, FS_Subset
<1>2. Cardinality(A) \in Nat /\ Cardinality(B) \in Nat
  BY <1>1, FS_CardinalityType
<1>3. /\ Cardinality(A \ {u}) = IF u \in A THEN Cardinality(A) - 1 ELSE Cardinality(A)
      /\ Cardinality(B \ {u}) = IF u \in B THEN Cardinality(B) - 1 ELSE Cardinality(B)
  BY <1>1, FS_RemoveElement
<1>. QED  BY <1>2, <1>3 DEF Bit

-----------------------------------------------------------------------------
(***************************************************************************)
(* The gauge of calls in progress.                                         *)
(***************************************************************************)
GaugeInv ==
    /\ main = [u \in Calls |-> main[u]]
    /\ progress \in Int /\ offset \in Int
    /\ kind # "rabbitmq" => progress + offset = Cardinality(UnderWay)

\* What a step does to the calls under way and to the gauge: nothing; one call
\* moves, and the gauge with it; or the gauge starts again.
CallMoves(u, to) ==
    /\ main' = [main EXCEPT ![u] = to]
    /\ progress' = progress + Bit(to \notin {"new", "returned"}) - Bit(u \in UnderWay)
    /\ offset' = offset

GaugeMoves ==
    \/ main' = main /\ progress' = progress /\ offset' = offset
    \/ \E u \in Calls : \E to : CallMoves(u, to)
    \/ main' = main /\ progress' = 0 /\ offset' = Cardinality(UnderWay)

\* A move of the gauge keeps it right.
LEMMA GaugeFollows ==
    ASSUME GaugeInv, kind # "rabbitmq", kind' = kind, GaugeMoves
    PROVE  GaugeInv'
<1>0. Cardinality(UnderWay) \in Nat
  BY SetMoves DEF UnderWay
<1>1. CASE main' = main /\ progress' = progress /\ offset' = offset
  BY <1>1 DEF GaugeInv, UnderWay
<1>2. ASSUME NEW u \in Calls, NEW to, main' = [main EXCEPT ![u] = to],
             progress' = progress + Bit(to \notin {"new", "returned"}) - Bit(u \in UnderWay),
             offset' = offset
      PROVE  GaugeInv'
  <2>1. main' = [x \in Calls |-> main'[x]] /\ main'[u] = to /\ \A x \in Calls : x # u => main'[x] = main[x]
    BY <1>2 DEF GaugeInv
  <2>2. /\ UnderWay \in SUBSET Calls /\ UnderWay' \in SUBSET Calls
        /\ UnderWay \ {u} = UnderWay' \ {u}
        /\ u \in UnderWay' <=> to \notin {"new", "returned"}
    BY <2>1 DEF UnderWay
  <2>3. Cardinality(UnderWay') = Cardinality(UnderWay) + Bit(u \in UnderWay') - Bit(u \in UnderWay)
    BY <2>2, SetMoves
  <2>4. Bit(u \in UnderWay') = Bit(to \notin {"new", "returned"}) /\ Bit(u \in UnderWay) \in Int
        /\ Bit(u \in UnderWay') \in Int
    BY <2>2 DEF Bit
  <2>5. Cardinality(UnderWay)' = Cardinality(UnderWay')
    OBVIOUS
  <2>. QED  BY <1>0, <1>2, <2>1, <2>3, <2>4, <2>5 DEF GaugeInv
<1>3. CASE main' = main /\ progress' = 0 /\ offset' = Cardinality(UnderWay)
  <2>1. UnderWay' = UnderWay
    BY <1>3 DEF UnderWay
  <2>. QED  BY <1>0, <1>3, <2>1 DEF GaugeInv
<1>. QED  BY <1>1, <1>2, <1>3 DEF GaugeMoves, CallMoves

\* A call that moves to a state of the same kind, and a gauge that is left.
LEMMA GaugeStays ==
    ASSUME NEW u \in Calls, NEW to, main' = [main EXCEPT ![u] = to],
           main[u] \notin {"new", "returned"}, to \notin {"new", "returned"},
           progress \in Int, progress' = progress, offset' = offset
    PROVE  GaugeMoves
<1>1. u \in UnderWay
  BY DEF UnderWay
<1>2. Bit(to \notin {"new", "returned"}) = 1 /\ Bit(u \in UnderWay) = 1
  BY <1>1 DEF Bit
<1>3. CallMoves(u, to)
  BY <1>2 DEF CallMoves
<1>. QED  BY <1>3 DEF GaugeMoves

\* A call that begins, with the increment.
LEMMA GaugeEnters ==
    ASSUME NEW u \in Calls, NEW to, main' = [main EXCEPT ![u] = to],
           main[u] = "new", to \notin {"new", "returned"},
           progress \in Int, progress' = progress + 1, offset' = offset
    PROVE  GaugeMoves
<1>1. u \notin UnderWay
  BY DEF UnderWay
<1>2. Bit(to \notin {"new", "returned"}) = 1 /\ Bit(u \in UnderWay) = 0
  BY <1>1 DEF Bit
<1>3. CallMoves(u, to)
  BY <1>2 DEF CallMoves
<1>. QED  BY <1>3 DEF GaugeMoves

\* A call that returns, with the decrement.
LEMMA GaugeLeaves ==
    ASSUME NEW u \in Calls, main' = [main EXCEPT ![u] = "returned"],
           main[u] \notin {"new", "returned"},
           progress \in Int, progress' = progress - 1, offset' = offset
    PROVE  GaugeMoves
<1>1. u \in UnderWay
  BY DEF UnderWay
<1>2. Bit("returned" \notin {"new", "returned"}) = 0 /\ Bit(u \in UnderWay) = 1
  BY <1>1 DEF Bit
<1>3. CallMoves(u, "returned")
  BY <1>2 DEF CallMoves
<1>. QED  BY <1>3 DEF GaugeMoves

\* The calls under way are the same in all the sessions' modules.
LEMMA SameUnderWay ==
    Pulsar!UnderWay = UnderWay /\ Http!UnderWay = UnderWay /\ Kafka!UnderWay = UnderWay
BY DEF UnderWay, Pulsar!UnderWay, Http!UnderWay, Kafka!UnderWay

\* So is the number of elements of a set.
LEMMA SameCardinality ==
    ASSUME NEW S
    PROVE  /\ Pulsar!Cardinality(S) = Cardinality(S)
           /\ Http!Cardinality(S) = Cardinality(S)
           /\ Kafka!Cardinality(S) = Cardinality(S)
<1>1. Pulsar!Cardinality(S) = Cardinality(S)
  BY DEF Cardinality, Pulsar!Cardinality
<1>2. Http!Cardinality(S) = Cardinality(S)
  BY DEF Cardinality, Http!Cardinality
<1>3. Kafka!Cardinality(S) = Cardinality(S)
  BY DEF Cardinality, Kafka!Cardinality
<1>. QED  BY <1>1, <1>2, <1>3

\* pulsar:massive_queue.
LEMMA PulsarGauge ==
    ASSUME progress \in Int, Pulsar!Next
    PROVE  GaugeMoves
<1>1. ASSUME NEW u \in Calls, Pulsar!Begin(u) PROVE GaugeMoves
  <2>1. /\ main' = [main EXCEPT ![u] = "producer"] /\ main[u] = "new"
        /\ "producer" \notin {"new", "returned"}
        /\ progress' = progress + 1 /\ offset' = offset
    BY <1>1 DEF Pulsar!Begin, Pulsar!Goto, Pulsar!setupVars
  <2>. QED  BY <2>1, GaugeEnters
<1>2. ASSUME NEW u \in Calls, NEW from \in {"producer", "consumer", "closing"}, Pulsar!Return(u, from)
      PROVE  GaugeMoves
  <2>1. /\ main' = [main EXCEPT ![u] = "returned"] /\ main[u] \notin {"new", "returned"}
        /\ progress' = progress - 1 /\ offset' = offset
    BY <1>2 DEF Pulsar!Return, Pulsar!Goto, Pulsar!setupVars
  <2>. QED  BY <2>1, GaugeLeaves
<1>3. ASSUME NEW u \in Calls, Pulsar!MainStep(u), ~Pulsar!NilClient(u) PROVE GaugeMoves
  <2>1. \/ \E from \in {"producer", "consumer", "closing"} : Pulsar!Return(u, from)
        \/ /\ \E to \in {"consumer", "publishing", "waiting", "closing"} :
                main' = [main EXCEPT ![u] = to]
           /\ main[u] \in {"producer", "consumer", "publishing", "waiting"}
           /\ progress' = progress /\ offset' = offset
    BY <1>3 DEF Pulsar!MainStep, Pulsar!CreateProducer, Pulsar!Subscribe, Pulsar!Publish,
                Pulsar!StartWaiting, Pulsar!OnExit, Pulsar!Close, Pulsar!Goto, Pulsar!setupVars
  <2>2. ASSUME NEW to \in {"consumer", "publishing", "waiting", "closing"},
               main' = [main EXCEPT ![u] = to],
               main[u] \in {"producer", "consumer", "publishing", "waiting"},
               progress' = progress, offset' = offset
        PROVE  GaugeMoves
    BY <2>2, GaugeStays
  <2>. QED  BY <1>2, <2>1, <2>2
<1>4. ASSUME NEW u \in Calls, Pulsar!NilClient(u) \/ Pulsar!SubStep(u) PROVE GaugeMoves
  <2>1. main' = main /\ progress' = progress /\ offset' = offset
    BY <1>4 DEF Pulsar!NilClient, Pulsar!SubStep, Pulsar!SubLoop, Pulsar!Receive,
                Pulsar!ReceiveFails, Pulsar!SubGoto, Pulsar!callVars, Pulsar!setupVars
  <2>. QED  BY <2>1 DEF GaugeMoves
<1>5. CASE Pulsar!SetupReset
  BY <1>5, SameUnderWay, SameCardinality DEF GaugeMoves, Pulsar!SetupReset, Pulsar!SetupGoto
<1>6. CASE Pulsar!ClientClose \/ Pulsar!NewClient \/ Pulsar!SetLimit \/ Pulsar!NegativeSize
  BY <1>6 DEF GaugeMoves, Pulsar!ClientClose, Pulsar!NewClient, Pulsar!SetLimit,
              Pulsar!NegativeSize, Pulsar!SetupGoto, Pulsar!callVars, Pulsar!setupVars
<1>. QED  BY <1>1, <1>3, <1>4, <1>5, <1>6 DEF Pulsar!Next

\* http-get.
LEMMA HttpGauge ==
    ASSUME progress \in Int, Http!Next
    PROVE  GaugeMoves
<1>1. ASSUME NEW u \in Calls, Http!Begin(u) PROVE GaugeMoves
  <2>1. /\ main' = [main EXCEPT ![u] = "begun"] /\ main[u] = "new"
        /\ "begun" \notin {"new", "returned"}
        /\ progress' = progress + 1 /\ offset' = offset
    BY <1>1 DEF Http!Begin, Http!Goto
  <2>. QED  BY <2>1, GaugeEnters
<1>2. ASSUME NEW u \in Calls, Http!GetFails(u) \/ Http!Complete(u) PROVE GaugeMoves
  <2>1. /\ main' = [main EXCEPT ![u] = "returned"] /\ main[u] \notin {"new", "returned"}
        /\ progress' = progress - 1 /\ offset' = offset
    BY <1>2 DEF Http!GetFails, Http!Complete, Http!Goto
  <2>. QED  BY <2>1, GaugeLeaves
<1>3. ASSUME NEW u \in Calls, Http!Send(u) \/ Http!EmptyPool(u) \/ Http!Measure(u) PROVE GaugeMoves
  <2>1. /\ \E to \in {"sent", "measured"} : main' = [main EXCEPT ![u] = to]
        /\ main[u] \in {"begun", "sent"}
        /\ progress' = progress /\ offset' = offset
    BY <1>3 DEF Http!Send, Http!EmptyPool, Http!Measure, Http!Goto, Http!countVars
  <2>2. ASSUME NEW to \in {"sent", "measured"}, main' = [main EXCEPT ![u] = to],
               main[u] \in {"begun", "sent"}, progress' = progress, offset' = offset
        PROVE  GaugeMoves
    BY <2>2, GaugeStays
  <2>. QED  BY <2>1, <2>2
<1>4. CASE Http!SetupReset
  BY <1>4, SameUnderWay, SameCardinality DEF GaugeMoves, Http!SetupReset, Http!SetupGoto
<1>5. CASE Http!NewClient \/ Http!QuicDial \/ Http!SetProxy \/ Http!DisableH2
  BY <1>5 DEF GaugeMoves, Http!NewClient, Http!QuicDial, Http!SetProxy, Http!DisableH2,
              Http!SetupGoto, Http!countVars
<1>. QED  BY <1>1, <1>2, <1>3, <1>4, <1>5 DEF Http!Next, Http!CallStep, Http!SetupStep

\* kafka:producer.
LEMMA KafkaGauge ==
    ASSUME progress \in Int, Kafka!Next
    PROVE  GaugeMoves
<1>1. ASSUME NEW u \in Calls, Kafka!Begin(u) PROVE GaugeMoves
  <2>1. /\ main' = [main EXCEPT ![u] = "dialing"] /\ main[u] = "new"
        /\ "dialing" \notin {"new", "returned"}
        /\ progress' = progress + 1 /\ offset' = offset
    BY <1>1 DEF Kafka!Begin, Kafka!Goto, Kafka!setupVars
  <2>. QED  BY <2>1, GaugeEnters
<1>2. ASSUME NEW u \in Calls, Kafka!Fails(u) \/ Kafka!Succeed(u) PROVE GaugeMoves
  <2>1. /\ main' = [main EXCEPT ![u] = "returned"] /\ main[u] \notin {"new", "returned"}
        /\ progress' = progress - 1 /\ offset' = offset
    BY <1>2 DEF Kafka!Fails, Kafka!Succeed, Kafka!Goto, Kafka!setupVars
  <2>. QED  BY <2>1, GaugeLeaves
<1>3. ASSUME NEW u \in Calls, Kafka!Dial(u) \/ Kafka!Write(u) \/ Kafka!Hangs(u)
      PROVE  GaugeMoves
  <2>1. /\ \E to \in {"writing", "hung"} : main' = [main EXCEPT ![u] = to]
        /\ main[u] \in {"dialing", "writing"}
        /\ progress' = progress /\ offset' = offset
    BY <1>3 DEF Kafka!Dial, Kafka!Write, Kafka!Hangs, Kafka!Goto, Kafka!counters,
                Kafka!setupVars
  <2>2. ASSUME NEW to \in {"writing", "hung"}, main' = [main EXCEPT ![u] = to],
               main[u] \in {"dialing", "writing"}, progress' = progress, offset' = offset
        PROVE  GaugeMoves
    BY <2>2, GaugeStays
  <2>. QED  BY <2>1, <2>2
<1>4. CASE Kafka!SetupReset
  BY <1>4, SameUnderWay, SameCardinality DEF GaugeMoves, Kafka!SetupReset, Kafka!SetupGoto
<1>5. CASE Kafka!SetPayload \/ Kafka!NegativeSize \/ Kafka!SetDefault \/ Kafka!SetLimit
  BY <1>5 DEF GaugeMoves, Kafka!SetPayload, Kafka!NegativeSize, Kafka!SetDefault,
              Kafka!SetLimit, Kafka!SetupGoto, Kafka!counters
<1>. QED  BY <1>1, <1>2, <1>3, <1>4, <1>5 DEF Kafka!Next, Kafka!CallStep

-----------------------------------------------------------------------------
(***************************************************************************)
(* The other counters of http-get and kafka:producer.                      *)
(***************************************************************************)

\* The calls of http-get whose duration is counted and whose completion is not.
Measured == {u \in Calls : main[u] = "measured"}

HttpCounts ==
    kind = "http" /\ offset = 0 => measured = completed + Cardinality(Measured)

\* The messages of kafka:producer that calls under way have written.
Written == {w \in Calls \X (1..Messages) : main[w[1]] = "writing" /\ w[2] <= sent[w[1]]}

KafkaCounts ==
    kind = "kafka" =>
        /\ sent \in [Calls -> Nat]
        /\ size \in Nat
        /\ setup = "reset" =>
             /\ limit = Messages
             /\ \A u \in Calls :
                  sent[u] <= limit /\ (main[u] \in {"new", "dialing"} => sent[u] = 0)
             /\ measured >= (completed * limit + Cardinality(Written)) * size

CountInv == measured \in Int /\ completed \in Int /\ HttpCounts /\ KafkaCounts

\* A step of http-get keeps the durations and the completions in balance.
LEMMA HttpCountStep ==
    ASSUME GaugeInv, measured \in Int, completed \in Int, HttpCounts,
           kind = "http", kind' = kind, Http!Next
    PROVE  measured' \in Int /\ completed' \in Int /\ HttpCounts'
<1>0. Cardinality(Measured) \in Nat /\ Cardinality(UnderWay) \in Nat
  BY SetMoves DEF Measured, UnderWay
<1>1. ASSUME NEW u \in Calls, NEW to, main' = [main EXCEPT ![u] = to], offset' = offset,
             measured' \in Int, completed' \in Int,
             measured' - completed' = measured - completed + Bit(to = "measured") - Bit(main[u] = "measured")
      PROVE  measured' \in Int /\ completed' \in Int /\ HttpCounts'
  <2>1. main'[u] = to /\ \A x \in Calls : x # u => main'[x] = main[x]
    BY <1>1 DEF GaugeInv
  <2>2. /\ Measured \in SUBSET Calls /\ Measured' \in SUBSET Calls
        /\ Measured \ {u} = Measured' \ {u}
        /\ u \in Measured <=> main[u] = "measured"
        /\ u \in Measured' <=> to = "measured"
    BY <2>1 DEF Measured
  <2>3. /\ Cardinality(Measured') = Cardinality(Measured) + Bit(u \in Measured') - Bit(u \in Measured)
        /\ Cardinality(Measured') \in Nat
    BY <2>2, SetMoves
  <2>4. /\ Bit(u \in Measured) = Bit(main[u] = "measured") /\ Bit(u \in Measured') = Bit(to = "measured")
        /\ Bit(u \in Measured) \in Int /\ Bit(u \in Measured') \in Int
    BY <2>2 DEF Bit
  <2>5. offset = 0 => measured = completed + Cardinality(Measured)
    BY DEF HttpCounts
  <2>6. offset' = 0 => measured' = completed' + Cardinality(Measured')
    BY <1>0, <1>1, <2>3, <2>4, <2>5
  <2>. QED  BY <1>1, <2>6 DEF HttpCounts
<1>2. ASSUME NEW u \in Calls, Http!Begin(u) \/ Http!CallStep(u)
      PROVE  measured' \in Int /\ completed' \in Int /\ HttpCounts'
  <2>1. /\ \E to \in {"begun", "sent", "measured", "returned"} :
             /\ main' = [main EXCEPT ![u] = to]
             /\ \/ measured' = measured /\ completed' = completed /\ main[u] # "measured" /\ to # "measured"
                \/ measured' = measured + 1 /\ completed' = completed /\ main[u] = "sent" /\ to = "measured"
                \/ measured' = measured /\ completed' = completed + 1 /\ main[u] = "measured" /\ to = "returned"
        /\ offset' = offset
    BY <1>2 DEF Http!Begin, Http!CallStep, Http!Send, Http!EmptyPool, Http!GetFails, Http!Measure,
                Http!Complete, Http!Goto, Http!countVars
  <2>2. PICK to \in {"begun", "sent", "measured", "returned"} :
             /\ main' = [main EXCEPT ![u] = to]
             /\ \/ measured' = measured /\ completed' = completed /\ main[u] # "measured" /\ to # "measured"
                \/ measured' = measured + 1 /\ completed' = completed /\ main[u] = "sent" /\ to = "measured"
                \/ measured' = measured /\ completed' = completed + 1 /\ main[u] = "measured" /\ to = "returned"
    BY <2>1
  <2>3. /\ measured' \in Int /\ completed' \in Int
        /\ measured' - completed' = measured - completed + Bit(to = "measured") - Bit(main[u] = "measured")
    BY <2>2 DEF Bit
  <2>. QED  BY <1>1, <2>1, <2>2, <2>3
<1>3. CASE Http!SetupReset
  <2>1. /\ main' = main /\ measured' = 0 /\ completed' = 0 /\ offset' = Cardinality(UnderWay)
    BY <1>3, SameUnderWay, SameCardinality DEF Http!SetupReset, Http!SetupGoto
  <2>2. ASSUME offset' = 0 PROVE Cardinality(Measured') = 0
    <3>1. IsFiniteSet(UnderWay)
      BY RabbitMQAssumption, FS_Subset DEF UnderWay
    <3>2. UnderWay = {}
      BY <2>1, <2>2, <3>1, FS_EmptySet
    <3>3. Measured' = {}
      BY <2>1, <3>2 DEF Measured, UnderWay
    <3>. QED  BY <3>3, FS_EmptySet
  <2>. QED  BY <2>1, <2>2 DEF HttpCounts
<1>4. CASE Http!NewClient \/ Http!QuicDial \/ Http!SetProxy \/ Http!DisableH2
  <2>1. main' = main /\ measured' = measured /\ completed' = completed /\ offset' = offset
    BY <1>4 DEF Http!NewClient, Http!QuicDial, Http!SetProxy, Http!DisableH2, Http!SetupGoto, Http!countVars
  <2>. QED  BY <2>1 DEF HttpCounts, Measured
<1>. QED  BY <1>2, <1>3, <1>4 DEF Http!Next, Http!SetupStep

\* There are finitely many messages.
LEMMA WrittenFinite == IsFiniteSet(Written) /\ Cardinality(Written) \in Nat
<1>1. 1 \in Int /\ Messages \in Int
  BY RabbitMQAssumption
<1>2. IsFiniteSet(1..Messages)
  BY <1>1, FS_Interval
<1>3. IsFiniteSet(Calls \X (1..Messages))
  BY <1>2, RabbitMQAssumption, FS_Product
<1>4. Written \in SUBSET (Calls \X (1..Messages))
  BY DEF Written
<1>5. IsFiniteSet(Written)
  BY <1>3, <1>4, FS_Subset
<1>. QED  BY <1>5, FS_CardinalityType

\* Fewer payloads are no more bytes, and one more is the size of one more.
LEMMA Bytes ==
    ASSUME NEW a \in Int, NEW b \in Int, NEW s \in Nat, a <= b
    PROVE  a * s <= b * s /\ (b + 1) * s = b * s + s
<1>1. (b + 1) * s = b * s + s
  OBVIOUS
<1>2. b * s - a * s = (b - a) * s
  OBVIOUS
<1>3. (b - a) * s \in Nat
  OBVIOUS
<1>4. a * s \in Int /\ b * s \in Int
  OBVIOUS
<1>. QED  BY <1>1, <1>2, <1>3, <1>4

\* A step of kafka:producer: each success stands for the bytes of as many
\* payloads as a call of the first job writes.
LEMMA KafkaCountStep ==
    ASSUME GaugeInv, measured \in Int, completed \in Int, KafkaCounts,
           kind = "kafka", kind' = kind, Kafka!Next
    PROVE  measured' \in Int /\ completed' \in Int /\ KafkaCounts'
<1>0. /\ sent \in [Calls -> Nat] /\ size \in Nat /\ Messages \in Nat /\ MaxSize \in Nat
      /\ main = [x \in Calls |-> main[x]]
  BY RabbitMQAssumption, SizeAssumption DEF KafkaCounts, GaugeInv
<1>1. ASSUME NEW u \in Calls, Kafka!Begin(u) \/ Kafka!CallStep(u)
      PROVE  measured' \in Int /\ completed' \in Int /\ KafkaCounts'
  <2>1. /\ limit' = limit /\ setup' = setup /\ size' = size
        /\ \A x \in Calls : x # u => main'[x] = main[x]
        /\ sent' \in [Calls -> Nat] /\ \A x \in Calls : x # u => sent'[x] = sent[x]
        /\ measured' \in Int /\ completed' \in Int
    BY <1>0, <1>1 DEF Kafka!Begin, Kafka!CallStep, Kafka!Dial, Kafka!Write,
                      Kafka!Fails, Kafka!Hangs, Kafka!Succeed, Kafka!Goto, Kafka!setupVars, Kafka!counters
  <2>2. SUFFICES ASSUME setup = "reset"
                 PROVE  /\ sent'[u] <= limit /\ (main'[u] \in {"new", "dialing"} => sent'[u] = 0)
                        /\ measured' >= (completed' * limit + Cardinality(Written')) * size
    <3>1. setup = "reset" =>
             /\ limit = Messages
             /\ \A x \in Calls :
                  sent[x] <= limit /\ (main[x] \in {"new", "dialing"} => sent[x] = 0)
      BY DEF KafkaCounts
    <3>. QED  BY <1>0, <2>1, <2>2, <3>1 DEF KafkaCounts
  <2>3. /\ limit = Messages /\ sent[u] \in Nat /\ sent[u] <= limit
        /\ main[u] \in {"new", "dialing"} => sent[u] = 0
        /\ measured >= (completed * limit + Cardinality(Written)) * size
    BY <1>0, <2>2 DEF KafkaCounts
  <2>4. IsFiniteSet(Written) /\ Cardinality(Written) \in Nat
    BY WrittenFinite
  <2>. DEFINE payloads == completed * limit + Cardinality(Written)
              payloads1 == completed' * limit + Cardinality(Written')
  <2>5. payloads \in Int
    BY <1>0, <2>3, <2>4
  <2>6. CASE Kafka!Begin(u) \/ Kafka!Dial(u)
    <3>1. /\ sent' = sent /\ measured' = measured /\ completed' = completed
          /\ main[u] \in {"new", "dialing"} /\ main'[u] \in {"dialing", "writing"}
      BY <1>0, <2>6 DEF Kafka!Begin, Kafka!Dial, Kafka!Goto, Kafka!counters
    <3>2. \A w \in Calls \X (1..Messages) :
             (main'[w[1]] = "writing" /\ w[2] <= sent'[w[1]]) <=> (main[w[1]] = "writing" /\ w[2] <= sent[w[1]])
      BY <1>0, <2>1, <2>3, <3>1
    <3>3. Written' = Written
      BY <3>2 DEF Written
    <3>. QED  BY <2>3, <3>1, <3>3
  <2>7. CASE Kafka!Write(u)
    <3>1. /\ sent[u] < limit /\ sent'[u] = sent[u] + 1 /\ measured' = measured + size /\ completed' = completed
          /\ main[u] = "writing" /\ main'[u] = "writing"
      BY <1>0, <2>7 DEF Kafka!Write, Kafka!Goto
    <3>2. \A w \in Calls \X (1..Messages) :
             (main'[w[1]] = "writing" /\ w[2] <= sent'[w[1]]) <=>
             ((main[w[1]] = "writing" /\ w[2] <= sent[w[1]]) \/ w = <<u, sent[u] + 1>>)
      BY <1>0, <2>1, <2>3, <3>1
    <3>3. <<u, sent[u] + 1>> \in Calls \X (1..Messages)
      BY <1>0, <2>3, <3>1
    <3>4. Written' = Written \cup {<<u, sent[u] + 1>>}
      BY <3>2, <3>3 DEF Written
    <3>5. Cardinality(Written') \in {Cardinality(Written), Cardinality(Written) + 1}
      BY <2>4, <3>4, FS_AddElement
    <3>6. payloads1 \in Int /\ payloads1 <= payloads + 1
      BY <1>0, <2>3, <2>4, <3>1, <3>5
    <3>7. measured' >= payloads1 * size
      <4>. HIDE DEF payloads, payloads1
      <4>1. measured >= payloads * size
        BY <2>3 DEF payloads
      <4>2. payloads1 * size <= (payloads + 1) * size
        BY <1>0, <2>5, <3>6, Bytes
      <4>3. (payloads + 1) * size = payloads * size + size
        BY <1>0, <2>5, Bytes
      <4>4. payloads * size \in Int /\ payloads1 * size \in Int
        BY <1>0, <2>5, <3>6
      <4>. QED  BY <1>0, <3>1, <4>1, <4>2, <4>3, <4>4
    <3>. QED  BY <1>0, <2>3, <3>1, <3>7
  <2>8. CASE Kafka!Fails(u) \/ Kafka!Hangs(u)
    <3>1. /\ sent' = sent /\ measured' = measured /\ completed' = completed
          /\ main'[u] \in {"returned", "hung"}
      BY <1>0, <2>8 DEF Kafka!Fails, Kafka!Hangs, Kafka!Goto, Kafka!counters
    <3>2. \A w \in Calls \X (1..Messages) :
             (main'[w[1]] = "writing" /\ w[2] <= sent'[w[1]]) => (main[w[1]] = "writing" /\ w[2] <= sent[w[1]])
      BY <1>0, <2>1, <2>3, <3>1
    <3>3. Written' \in SUBSET Written
      BY <3>2 DEF Written
    <3>4. Cardinality(Written') <= Cardinality(Written) /\ IsFiniteSet(Written')
      BY <2>4, <3>3, FS_Subset
    <3>5. Cardinality(Written') \in Nat
      BY <3>4, FS_CardinalityType
    <3>6. payloads1 \in Int /\ payloads1 <= payloads
      BY <1>0, <2>3, <2>4, <3>1, <3>4, <3>5
    <3>7. measured' >= payloads1 * size
      <4>. HIDE DEF payloads, payloads1
      <4>1. measured >= payloads * size
        BY <2>3 DEF payloads
      <4>2. payloads1 * size <= payloads * size
        BY <1>0, <2>5, <3>6, Bytes
      <4>3. payloads * size \in Int /\ payloads1 * size \in Int
        BY <1>0, <2>5, <3>6
      <4>. QED  BY <3>1, <4>1, <4>2, <4>3
    <3>. QED  BY <2>3, <3>1, <3>7
  <2>9. CASE Kafka!Succeed(u)
    <3>1. /\ sent' = sent /\ measured' = measured /\ completed' = completed + 1 /\ main'[u] = "returned"
          /\ sent[u] >= limit /\ main[u] = "writing"
      BY <1>0, <2>9 DEF Kafka!Succeed, Kafka!Goto
    <3>. DEFINE own == {u} \X (1..Messages)
    <3>2. \A w \in Calls \X (1..Messages) :
             (main'[w[1]] = "writing" /\ w[2] <= sent'[w[1]]) <=>
             ((main[w[1]] = "writing" /\ w[2] <= sent[w[1]]) /\ w[1] # u)
      BY <1>0, <2>1, <2>3, <3>1
    <3>3. \A w \in own : w \in Written
      <4>1. ASSUME NEW i \in 1..Messages PROVE i <= sent[u]
        BY <1>0, <2>3, <3>1
      <4>. QED  BY <3>1, <4>1 DEF Written
    <3>4. Written' = Written \ own /\ Written \cap own = own
      BY <3>2, <3>3 DEF Written
    <3>5. Cardinality(own) = Messages
      <4>1. 1 \in Int /\ Messages \in Int
        BY <1>0
      <4>2. IsFiniteSet(1..Messages) /\ Cardinality(1..Messages) = Messages
        <5>1. /\ IsFiniteSet(1..Messages)
              /\ Cardinality(1..Messages) = IF 1 > Messages THEN 0 ELSE Messages - 1 + 1
          BY <4>1, FS_Interval
        <5>. QED  BY <1>0, <5>1
      <4>3. IsFiniteSet({u}) /\ Cardinality({u}) = 1
        BY FS_Singleton
      <4>4. Cardinality(own) = 1 * Messages
        BY <4>2, <4>3, FS_Product
      <4>. QED  BY <1>0, <4>4
    <3>6. Cardinality(Written') = Cardinality(Written) - Messages
      <4>. HIDE DEF own
      <4>1. Cardinality(Written') = Cardinality(Written) - Cardinality(Written \cap own)
        BY <2>4, <3>4, FS_Difference
      <4>. QED  BY <3>4, <3>5, <4>1
    <3>7. payloads1 = payloads
      <4>1. completed' * limit = completed * limit + limit
        BY <1>0, <2>3, <3>1
      <4>2. completed * limit \in Int
        BY <1>0, <2>3
      <4>. QED  BY <1>0, <2>3, <2>4, <3>6, <4>1, <4>2
    <3>8. measured' >= payloads1 * size
      BY <2>3, <3>1, <3>7
    <3>. QED  BY <2>3, <3>1, <3>8
  <2>. QED  BY <1>1, <2>6, <2>7, <2>8, <2>9 DEF Kafka!CallStep
<1>2. CASE Kafka!SetupReset
  BY <1>0, <1>2 DEF KafkaCounts, Kafka!SetupReset, Kafka!SetupGoto
<1>3. CASE Kafka!SetPayload \/ Kafka!NegativeSize \/ Kafka!SetDefault \/ Kafka!SetLimit
  <2>1. sent' = sent /\ size' \in Nat /\ setup' # "reset"
        /\ measured' = measured /\ completed' = completed
    BY <1>0, <1>3 DEF Kafka!SetPayload, Kafka!NegativeSize, Kafka!SetDefault, Kafka!SetLimit,
                      Kafka!SetupGoto, Kafka!counters
  <2>. QED  BY <1>0, <2>1 DEF KafkaCounts
<1>. QED  BY <1>1, <1>2, <1>3 DEF Kafka!Next

\* The states of a call of rabbitmq:massive_queue after the first.
Later == {"pub", "sub", "publishing", "waiting", "delete", "returned"}

\* A step of rabbitmq:massive_queue moves one call at most.
LEMMA RabbitMain ==
    ASSUME Next
    PROVE  main' = main \/ \E u \in Calls : \E to \in Later : main' = [main EXCEPT ![u] = to]
<1>. DEFINE Moves(u) == \E to \in Later : main' = [main EXCEPT ![u] = to]
<1>1. ASSUME NEW u \in Calls, Return(u) PROVE Moves(u)
  BY <1>1 DEF Return, Later
<1>2. ASSUME NEW u \in Calls, Leave(u) PROVE Moves(u)
  BY <1>2 DEF Leave, Goto, Later
<1>3. ASSUME NEW u \in Calls, Spawn(u) PROVE Moves(u)
  BY <1>3 DEF Spawn, Goto, Later
<1>4. ASSUME NEW u \in Calls, NEW c, ChannelReturns(u, c) PROVE Moves(u)
  <2>1. CASE QueueDeclare(u, c)
    BY <2>1, <1>1, <1>3 DEF QueueDeclare, Goto, Later
  <2>2. CASE Consume(u, c)
    BY <2>2, <1>2, <1>3 DEF Consume
  <2>. QED  BY <1>1, <1>4, <2>1, <2>2 DEF ChannelReturns
<1>5. ASSUME NEW u \in Calls, ChannelFails(u) PROVE Moves(u)
  BY <1>1, <1>2, <1>5 DEF ChannelFails
<1>6. ASSUME NEW u \in Calls, PoolStep(u) PROVE main' = main \/ Moves(u)
  <2>. HIDE DEF Moves
  <2>1. CASE LoadSlice(u)
    BY <2>1 DEF LoadSlice, callVars
  <2>2. CASE TryView(u)
    BY <1>4, <2>2 DEF TryView, callVars
  <2>3. CASE LockPool(u)
    BY <1>4, <2>3 DEF LockPool, callVars
  <2>4. CASE DialConn(u)
    BY <1>4, <2>4 DEF DialConn
  <2>5. CASE DialFails(u)
    BY <1>5, <2>5 DEF DialFails
  <2>. QED  BY <1>6, <2>1, <2>2, <2>3, <2>4, <2>5 DEF PoolStep
<1>7. ASSUME NEW u \in Calls, Begin(u) \/ MainStep(u) \/ SubStep(u) PROVE main' = main \/ Moves(u)
  BY <1>2, <1>7 DEF Begin, MainStep, Publish, PublishFails, StartWaiting, OnExit, Goto, Later,
                    SubStep, SubLoop, Receive, ReceiveFails, Ack, SubGoto, callVars
<1>8. CASE PoolClose \/ NegativeSize \/ SetLimit \/ \E c \in 1..MaxDials : Breaks(c)
  BY <1>8 DEF PoolClose, NegativeSize, SetLimit, SetupGoto, Breaks, callVars
<1>. QED  BY <1>6, <1>7, <1>8 DEF Next

\* A step of any of the sessions keeps the counters right.
LEMMA CountStep ==
    ASSUME GaugeInv, CountInv, [MCNext]_mcVars
    PROVE  GaugeInv' /\ CountInv'
<1>1. CASE UNCHANGED mcVars
  <2>1. UNCHANGED <<kind, main, progress, offset, measured, completed, sent, size, limit, setup>>
    BY <1>1 DEF mcVars, vars, callVars, setupVars, gaugeVars, countVars
  <2>. QED  BY <2>1 DEF GaugeInv, UnderWay, CountInv, HttpCounts, Measured, KafkaCounts, Written
<1>2. CASE Next /\ OfRabbitMQ
  <2>1. kind = "rabbitmq" /\ UNCHANGED <<kind, progress, offset, measured, completed>>
    BY <1>2 DEF OfRabbitMQ, Of, gaugeVars, countVars
  <2>2. main' = [x \in Calls |-> main'[x]]
    BY <1>2, RabbitMain DEF GaugeInv
  <2>. QED  BY <2>1, <2>2 DEF GaugeInv, CountInv, HttpCounts, KafkaCounts
<1>3. CASE Pulsar!Next /\ OfPulsar
  <2>1. kind = "pulsar" /\ UNCHANGED <<kind, measured, completed>>
    BY <1>3 DEF OfPulsar, Of, countVars
  <2>2. GaugeMoves
    BY <1>3, PulsarGauge DEF GaugeInv
  <2>3. GaugeInv'
    BY <2>1, <2>2, GaugeFollows
  <2>. QED  BY <2>1, <2>3 DEF CountInv, HttpCounts, KafkaCounts
<1>4. CASE Http!Next /\ OfHttp
  <2>1. kind = "http" /\ kind' = kind
    BY <1>4 DEF OfHttp, Of
  <2>2. GaugeMoves
    BY <1>4, HttpGauge DEF GaugeInv
  <2>3. GaugeInv'
    BY <2>1, <2>2, GaugeFollows
  <2>4. measured' \in Int /\ completed' \in Int /\ HttpCounts'
    BY <1>4, <2>1, HttpCountStep DEF CountInv
  <2>. QED  BY <2>1, <2>3, <2>4 DEF CountInv, KafkaCounts
<1>5. CASE Kafka!Next /\ OfKafka
  <2>1. kind = "kafka" /\ kind' = kind
    BY <1>5 DEF OfKafka, Of
  <2>2. GaugeMoves
    BY <1>5, KafkaGauge DEF GaugeInv
  <2>3. GaugeInv'
    BY <2>1, <2>2, GaugeFollows
  <2>4. measured' \in Int /\ completed' \in Int /\ KafkaCounts'
    BY <1>5, <2>1, KafkaCountStep DEF CountInv
  <2>. QED  BY <2>1, <2>3, <2>4 DEF CountInv, HttpCounts
<1>. QED  BY <1>1, <1>2, <1>3, <1>4, <1>5 DEF MCNext

\* In the beginning no call is under way and nothing is counted.
LEMMA CountInit ==
    ASSUME MCInit
    PROVE  GaugeInv /\ CountInv
<1>1. /\ main = [u \in Calls |-> "new"]
      /\ progress = 0 /\ offset = 0 /\ measured = 0 /\ completed = 0
  BY DEF MCInit, Init, Pulsar!Init, Http!Init, Kafka!Init, GaugeRests, CountsRest
<1>2. UnderWay = {} /\ Measured = {} /\ Written = {}
  BY <1>1 DEF UnderWay, Measured, Written
<1>3. Cardinality({}) = 0
  BY FS_EmptySet
<1>4. kind = "kafka" => sent = [u \in Calls |-> 0] /\ limit = Messages /\ size \in 0..MaxSize
  BY DEF MCInit, Kafka!Init
<1>5. KafkaCounts
  <2>. SUFFICES ASSUME kind = "kafka" PROVE KafkaCounts
    BY DEF KafkaCounts
  <2>1. size \in Nat /\ limit \in Nat
    BY <1>4, RabbitMQAssumption, SizeAssumption
  <2>2. (completed * limit + Cardinality(Written)) * size = 0
    BY <1>1, <1>2, <1>3, <2>1
  <2>3. /\ sent \in [Calls -> Nat]
        /\ \A u \in Calls : sent[u] = 0
    BY <1>4
  <2>. QED  BY <1>1, <1>4, <2>1, <2>2, <2>3 DEF KafkaCounts
<1>. QED  BY <1>1, <1>2, <1>3, <1>5 DEF GaugeInv, CountInv, HttpCounts

\* The counters of the sessions that reset them in a next job's Setup, whatever
\* the calls under way are doing: the gauge is short by exactly the calls that
\* the reset found, http-get counts as many durations as completions, and each
\* success of kafka:producer stands for the bytes of all the messages of a call.
THEOREM CountersRight == MCSpec => []CountersBalance
<1>1. MCInit => GaugeInv /\ CountInv
  BY CountInit
<1>2. GaugeInv /\ CountInv /\ [MCNext]_mcVars => (GaugeInv /\ CountInv)'
  BY CountStep
<1>3. GaugeInv /\ CountInv => CountersBalance
  <2>. SUFFICES ASSUME GaugeInv, CountInv PROVE CountersBalance
    OBVIOUS
  <2>1. kind # "rabbitmq" => progress + offset = Cardinality(UnderWay)
    BY DEF GaugeInv
  <2>2. kind = "pulsar" => Pulsar!GaugeOff
    BY <2>1, SameUnderWay, SameCardinality DEF Pulsar!GaugeOff
  <2>3. kind = "http" => Http!CountersBalance
    BY <2>1, SameUnderWay, SameCardinality DEF Http!CountersBalance, CountInv, HttpCounts, Measured
  <2>4. kind = "kafka" => Kafka!CountersBalance
    <3>. SUFFICES ASSUME kind = "kafka", setup = "reset"
                  PROVE  measured >= completed * limit * size
      BY <2>1, SameUnderWay, SameCardinality DEF Kafka!CountersBalance
    <3>. DEFINE successes == completed * limit
                payloads  == successes + Cardinality(Written)
    <3>1. measured \in Int /\ successes \in Int /\ size \in Nat
      BY RabbitMQAssumption DEF CountInv, KafkaCounts
    <3>2. measured >= payloads * size
      BY DEF CountInv, KafkaCounts
    <3>3. Cardinality(Written) \in Nat
      BY WrittenFinite
    <3>4. successes <= payloads /\ payloads \in Int
      BY <3>1, <3>3
    <3>5. measured >= successes * size
      <4>. HIDE DEF successes, payloads
      <4>1. successes * size <= payloads * size
        BY <3>1, <3>4, Bytes
      <4>2. successes * size \in Int /\ payloads * size \in Int
        BY <3>1, <3>4
      <4>. QED  BY <3>1, <3>2, <4>1, <4>2
    <3>. QED  BY <3>5
  <2>. QED  BY <2>2, <2>3, <2>4 DEF CountersBalance
<1>. QED  BY <1>1, <1>2, <1>3, PTL DEF MCSpec

-----------------------------------------------------------------------------
(***************************************************************************)
(* Setup of http-get: how far the client is at each of its steps.          *)
(***************************************************************************)

\* The parameters have all their fields.
ParamTypes ==
    /\ params.proxy \in BOOLEAN /\ params.quic \in BOOLEAN /\ params.httpProxy \in BOOLEAN
    /\ params.tls \in BOOLEAN /\ params.h2 \in BOOLEAN
    /\ params.httpProxy => params.proxy

\* The transport when the pool of quic connections is in place, if there is one.
Dialled(p) ==
    [dial  |-> IF p.quic THEN "quic" ELSE Http!Direct(p.tls).dial,
     conns |-> IF p.quic THEN p.conns ELSE 1,
     via   |-> "origin", h2 |-> TRUE]

\* The transport that is asked for, but for HTTP/2.
Almost(p) ==
    [dial |-> Http!Asked(p).dial, conns |-> Http!Asked(p).conns, via |-> Http!Asked(p).via, h2 |-> TRUE]

Stages ==
    /\ setup = "quic" => params.proxy /\ transport = Http!Direct(params.tls)
    /\ setup = "proxy" =>
         params.proxy /\ (params.quic => params.tls) /\ transport = Dialled(params)
    /\ setup = "h2" =>
         (params.proxy /\ params.quic => params.tls) /\ transport = Almost(params)
    /\ setup = "done" => transport = Http!Asked(params) /\ ~Http!Fatal(params)

SetupInv ==
    kind = "http" =>
        /\ ParamTypes
        /\ Stages
        /\ ~alive => Http!Fatal(params) \/ \E u \in Calls : links[u] = 0

\* The parameters of a job.
LEMMA ParamsTyped ==
    ASSUME NEW p \in Http!Params
    PROVE  /\ p.proxy \in BOOLEAN /\ p.quic \in BOOLEAN /\ p.httpProxy \in BOOLEAN
           /\ p.tls \in BOOLEAN /\ p.h2 \in BOOLEAN
           /\ p.httpProxy => p.proxy
BY DEF Http!Params, Http!NoProxy, Http!WithQuic, Http!NoQuic

\* What the assignments to the fields of a transport do.
LEMMA FieldsSet ==
    ASSUME NEW d, NEW c, NEW v, NEW h, NEW x, NEW y, NEW r, NEW q,
           r = [dial |-> d, conns |-> c, via |-> v, h2 |-> h]
    PROVE  /\ q = [r EXCEPT !.dial = x, !.conns = y] => q = [dial |-> x, conns |-> y, via |-> v, h2 |-> h]
           /\ q = [r EXCEPT !.via = x] => q = [dial |-> d, conns |-> c, via |-> x, h2 |-> h]
OBVIOUS

\* A step of http-get: Setup moves from one stage to the next, and the process
\* ends for one of the known reasons.
LEMMA SetupHolds ==
    ASSUME SetupInv, kind = "http", kind' = kind, Http!Next
    PROVE  SetupInv'
<1>0. /\ ParamTypes /\ Stages
      /\ ~alive => Http!Fatal(params) \/ \E u \in Calls : links[u] = 0
  BY DEF SetupInv
<1>1. CASE Http!SetupReset
  <2>1. params' \in Http!Params /\ setup' = "client" /\ alive /\ alive' = alive
    BY <1>1 DEF Http!SetupReset, Http!SetupGoto
  <2>2. ParamTypes'
    BY <2>1, ParamsTyped DEF ParamTypes
  <2>. QED  BY <2>1, <2>2 DEF SetupInv, Stages
<1>2. CASE Http!NewClient
  <2>1. /\ setup' = IF params.proxy THEN "quic" ELSE "h2"
        /\ transport' = Http!Direct(params.tls) /\ params' = params /\ alive /\ alive' = alive
    BY <1>2 DEF Http!NewClient, Http!SetupGoto
  <2>2. ~params.proxy => Http!Direct(params.tls) = Almost(params)
    BY DEF Almost, Http!Asked, Http!Direct
  <2>. QED  BY <1>0, <2>1, <2>2 DEF SetupInv, Stages, ParamTypes
<1>3. CASE Http!QuicDial
  <2>1. params' = params /\ setup = "quic" /\ alive
    BY <1>3 DEF Http!QuicDial, Http!SetupGoto
  <2>2. CASE ~params.quic /\ setup' = "proxy" /\ alive' = alive /\ transport' = transport
    <3>1. transport' = Dialled(params)
      BY <1>0, <2>1, <2>2 DEF Stages, Dialled, Http!Direct
    <3>. QED  BY <1>0, <2>1, <2>2, <3>1 DEF SetupInv, Stages, ParamTypes
  <2>3. CASE params.quic /\ ~params.tls /\ setup' = "failed" /\ alive' = FALSE
    <3>1. Http!Fatal(params)
      BY <1>0, <2>1, <2>3 DEF Stages, Http!Fatal
    <3>. QED  BY <1>0, <2>1, <2>3, <3>1 DEF SetupInv, Stages, ParamTypes, Http!Fatal
  <2>4. CASE /\ params.quic /\ params.tls /\ setup' = "proxy" /\ alive' = alive
             /\ transport' = [transport EXCEPT !.dial = "quic", !.conns = params.conns]
    <3>1. transport' = Dialled(params)
      <4>1. transport = [dial |-> "tls", conns |-> 1, via |-> "origin", h2 |-> TRUE]
        BY <1>0, <2>1, <2>4 DEF Stages, Http!Direct
      <4>2. transport' = [dial |-> "quic", conns |-> params.conns, via |-> "origin", h2 |-> TRUE]
        BY <2>4, <4>1, FieldsSet
      <4>. QED  BY <2>4, <4>2 DEF Dialled
    <3>. QED  BY <1>0, <2>1, <2>4, <3>1 DEF SetupInv, Stages, ParamTypes
  <2>5. CASE setup' = "failed" /\ alive' = alive
    BY <1>0, <2>1, <2>5 DEF SetupInv, Stages, ParamTypes
  <2>. QED  BY <1>3, <2>2, <2>3, <2>4, <2>5 DEF Http!QuicDial, Http!SetupGoto
<1>4. CASE Http!SetProxy
  <2>1. /\ setup = "proxy" /\ setup' = "h2" /\ params' = params /\ alive /\ alive' = alive
        /\ transport' = [transport EXCEPT !.via = IF params.httpProxy THEN "wrapper" ELSE "proxy"]
    BY <1>4 DEF Http!SetProxy, Http!SetupGoto
  <2>2. transport' = Almost(params)
    <3>1. params.proxy /\ transport = Dialled(params)
      BY <1>0, <2>1 DEF Stages
    <3>2. transport' = [dial  |-> Dialled(params).dial, conns |-> Dialled(params).conns,
                        via   |-> IF params.httpProxy THEN "wrapper" ELSE "proxy", h2 |-> TRUE]
      BY <2>1, <3>1, FieldsSet DEF Dialled
    <3>3. /\ Dialled(params).dial = Http!Asked(params).dial
          /\ Dialled(params).conns = Http!Asked(params).conns
          /\ Http!Asked(params).via = IF params.httpProxy THEN "wrapper" ELSE "proxy"
      BY <3>1 DEF Dialled, Http!Asked
    <3>. QED  BY <3>2, <3>3 DEF Almost
  <2>. QED  BY <1>0, <2>1, <2>2 DEF SetupInv, Stages, ParamTypes
<1>5. CASE Http!DisableH2
  <2>1. params' = params /\ setup = "h2" /\ alive
    BY <1>5 DEF Http!DisableH2, Http!SetupGoto
  <2>2. transport = Almost(params) /\ (params.proxy /\ params.quic => params.tls)
    BY <1>0, <2>1 DEF Stages
  <2>3. /\ (Almost(params).via = "wrapper" <=> params.httpProxy)
        /\ [Almost(params) EXCEPT !.h2 = params.h2] = Http!Asked(params)
    BY <1>0 DEF ParamTypes, Almost, Http!Asked
  <2>4. CASE /\ params.h2 \/ transport.via # "wrapper"
             /\ setup' = "done" /\ alive' = alive
             /\ transport' = [transport EXCEPT !.h2 = params.h2]
    <3>1. ~Http!Fatal(params)
      BY <1>0, <2>2, <2>3, <2>4 DEF ParamTypes, Http!Fatal
    <3>. QED  BY <1>0, <2>1, <2>2, <2>3, <2>4, <3>1 DEF SetupInv, Stages, ParamTypes, Http!Fatal
  <2>5. CASE ~params.h2 /\ transport.via = "wrapper" /\ setup' = "failed" /\ alive' = FALSE
    <3>1. Http!Fatal(params)
      BY <1>0, <2>2, <2>3, <2>5 DEF ParamTypes, Http!Fatal
    <3>. QED  BY <1>0, <2>1, <2>5, <3>1 DEF SetupInv, Stages, ParamTypes, Http!Fatal
  <2>. QED  BY <1>5, <2>4, <2>5 DEF Http!DisableH2, Http!SetupGoto
<1>6. ASSUME NEW u \in Calls, Http!Begin(u) \/ Http!CallStep(u)
      PROVE  SetupInv'
  <2>1. /\ alive /\ UNCHANGED <<setup, params, transport>>
        /\ alive' = alive \/ (links[u] = 0 /\ links' = links)
    BY <1>6 DEF Http!Begin, Http!CallStep, Http!Send, Http!EmptyPool, Http!GetFails, Http!Measure,
                Http!Complete, Http!Goto, Http!setupVars
  <2>. QED  BY <1>0, <2>1 DEF SetupInv, Stages, ParamTypes
<1>. QED  BY <1>1, <1>2, <1>3, <1>4, <1>5, <1>6 DEF Http!Next, Http!SetupStep

\* A Setup of http-get that succeeds leaves the client its parameters ask for,
\* for all parameters, although it builds it in place, step by step, under the
\* calls that use it; and the process ends for the known reasons only.
THEOREM SetupRight == MCSpec => []SetupAsAsked
<1>1. MCInit => SetupInv
  <2>. SUFFICES ASSUME MCInit, kind = "http" PROVE SetupInv
    BY DEF SetupInv
  <2>1. /\ alive = TRUE /\ setup = "done" /\ params \in Http!Params /\ ~Http!Fatal(params)
        /\ transport = Http!Asked(params)
    BY DEF MCInit, Http!Init
  <2>. QED  BY <2>1, ParamsTyped DEF SetupInv, Stages, ParamTypes
<1>2. SetupInv /\ [MCNext]_mcVars => SetupInv'
  <2>. SUFFICES ASSUME SetupInv, [MCNext]_mcVars PROVE SetupInv'
    OBVIOUS
  <2>1. CASE UNCHANGED mcVars
    <3>1. UNCHANGED <<kind, alive, setup, params, transport, links>>
      BY <2>1 DEF mcVars, vars, setupVars, httpVars
    <3>. QED  BY <3>1 DEF SetupInv, Stages, ParamTypes
  <2>2. CASE Http!Next /\ OfHttp
    BY <2>2, SetupHolds DEF OfHttp, Of
  <2>3. CASE OfRabbitMQ \/ OfPulsar \/ OfKafka
    BY <2>3 DEF OfRabbitMQ, OfPulsar, OfKafka, Of, SetupInv
  <2>. QED  BY <2>1, <2>2, <2>3 DEF MCNext
<1>3. SetupInv => SetupAsAsked
  BY DEF SetupInv, Stages, SetupAsAsked, Http!SetupAsAsked
<1>. QED  BY <1>1, <1>2, <1>3, PTL DEF MCSpec

-----------------------------------------------------------------------------
(***************************************************************************)
(* The exchange of messages of rabbitmq and pulsar.                        *)
(***************************************************************************)
Early      == {"new", "pub", "sub", "producer", "consumer"}
Exchanging == {"publishing", "waiting"}
InHand(u)  == Bit(sub[u] = "ack")

\* How far a call is: before the subscriber is spawned nothing has happened; until
\* doQueue has its result, no more messages have come than were sent, and if
\* queueMessages was left alone, no more were sent than that, a subscriber that is
\* content has received as many, and a publisher that waits has sent as many.
Nothing(u)  == sub[u] = "none" /\ sent[u] = 0 /\ ready[u] = 0 /\ got[u] = 0
Balanced(u) == ready[u] + got[u] + InHand(u) <= sent[u]
Complete(u) ==
    /\ sent[u] <= limit
    /\ sub[u] = "exit_nil" => got[u] >= limit
    /\ main[u] = "waiting" => sent[u] >= limit

Exchange(u) ==
    /\ main[u] \in Early => Nothing(u) /\ ~failed[u]
    /\ main[u] \in Exchanging => Balanced(u) /\ ~failed[u] /\ (~raced[u] => Complete(u))

ExchangeTypes ==
    /\ limit \in Nat
    /\ main = [u \in Calls |-> main[u]] /\ sub = [u \in Calls |-> sub[u]]
    /\ sent \in [Calls -> Nat] /\ ready \in [Calls -> Nat] /\ got \in [Calls -> Nat]
    /\ raced \in [Calls -> BOOLEAN] /\ failed \in [Calls -> BOOLEAN]

ExchangeInv ==
    /\ ExchangeTypes
    /\ kind \in {"rabbitmq", "pulsar"} => \A u \in Calls : Exchange(u)
    /\ kind \in {"http", "kafka"} => \A u \in Calls : sub[u] = "none"

\* A call's exchange depends on these values only.
SameCall(u) ==
    /\ main'[u] = main[u] /\ sub'[u] = sub[u] /\ sent'[u] = sent[u] /\ ready'[u] = ready[u]
    /\ got'[u] = got[u] /\ raced'[u] = raced[u] /\ failed'[u] = failed[u]

\* It is enough to look at the call that moves.
LEMMA OneCallMoves ==
    ASSUME ExchangeInv, kind \in {"rabbitmq", "pulsar"}, kind' = kind, limit' = limit,
           NEW u \in Calls, \A x \in Calls : x # u => SameCall(x),
           ExchangeTypes', Exchange(u)'
    PROVE  ExchangeInv'
<1>1. ASSUME NEW x \in Calls, x # u PROVE Exchange(x)'
  <2>1. SameCall(x) /\ Exchange(x)
    BY <1>1 DEF ExchangeInv
  <2>2. /\ Nothing(x) => Nothing(x)'
        /\ Balanced(x) => Balanced(x)'
        /\ Complete(x) => Complete(x)'
    BY <2>1 DEF SameCall, Nothing, Balanced, Complete, InHand
  <2>. QED  BY <2>1, <2>2 DEF SameCall, Exchange
<1>. QED  BY <1>1 DEF ExchangeInv

\* What a call of connPool.Channel that is over does to the exchange of its call.
ChannelEffect(u) ==
    \/ /\ main' = [main EXCEPT ![u] = "returned"] /\ sub' = sub
       /\ sent' = [sent EXCEPT ![u] = 0] /\ ready' = [ready EXCEPT ![u] = 0]
       /\ got' = [got EXCEPT ![u] = 0] /\ raced' = [raced EXCEPT ![u] = FALSE]
    \/ /\ main' = [main EXCEPT ![u] = "delete"]
       /\ UNCHANGED <<sub, sent, ready, got, raced>>
    \/ /\ main[u] = "pub" /\ main' = [main EXCEPT ![u] = "sub"]
       /\ UNCHANGED <<sub, sent, ready, got, raced>>
    \/ /\ main[u] \in {"pub", "sub"} /\ main' = [main EXCEPT ![u] = "publishing"]
       /\ sub' = [sub EXCEPT ![u] = "loop"]
       /\ UNCHANGED <<sent, ready, got, raced>>

\* Channel returns a channel, or an error.
LEMMA ChannelEffects ==
    ASSUME NEW u \in Calls
    PROVE  /\ \A c : ChannelReturns(u, c) => ChannelEffect(u)
           /\ ChannelFails(u) => ChannelEffect(u)
<1>1. Return(u) => ChannelEffect(u)
  BY DEF Return, ChannelEffect
<1>2. Leave(u) /\ UNCHANGED queueVars => ChannelEffect(u)
  BY DEF Leave, Goto, queueVars, ChannelEffect
<1>3. Spawn(u) /\ main[u] \in {"pub", "sub"} => ChannelEffect(u)
  BY DEF Spawn, Goto, ChannelEffect
<1>4. main[u] = "pub" /\ Goto(u, "sub") /\ UNCHANGED queueVars => ChannelEffect(u)
  BY DEF Goto, queueVars, ChannelEffect
<1>5. ASSUME NEW c, ChannelReturns(u, c) PROVE ChannelEffect(u)
  <2>1. main[u] = "pub" /\ QueueDeclare(u, c) => ChannelEffect(u)
    BY <1>1, <1>3, <1>4 DEF QueueDeclare
  <2>2. main[u] = "sub" /\ Consume(u, c) => ChannelEffect(u)
    BY <1>2, <1>3 DEF Consume, queueVars
  <2>. QED  BY <1>1, <1>5, <2>1, <2>2 DEF ChannelReturns
<1>6. ChannelFails(u) => ChannelEffect(u)
  BY <1>1, <1>2 DEF ChannelFails, queueVars
<1>. QED  BY <1>5, <1>6

\* The calls that a step of Setup overtakes are marked, and the others are left.
LEMMA SetupExchange ==
    ASSUME ExchangeInv, kind \in {"rabbitmq", "pulsar"}, kind' = kind, limit' \in Nat,
           UNCHANGED <<main, sub, sent, ready, got, failed>>,
           \/ raced' = [u \in Calls |-> raced[u] \/ (u \in UnderWay /\ limit' # limit)]
           \/ raced' = raced /\ limit' = limit
    PROVE  ExchangeInv'
<1>1. ExchangeTypes'
  BY DEF ExchangeInv, ExchangeTypes
<1>2. ASSUME NEW u \in Calls PROVE Exchange(u)'
  <2>1. Exchange(u) /\ (raced[u] => raced'[u])
    BY DEF ExchangeInv, ExchangeTypes
  <2>2. main[u] \in Exchanging /\ ~raced'[u] => limit' = limit
    BY DEF UnderWay, Exchanging, ExchangeInv, ExchangeTypes
  <2>3. /\ Nothing(u) => Nothing(u)'
        /\ Balanced(u) => Balanced(u)'
        /\ limit' = limit /\ Complete(u) => Complete(u)'
    BY DEF Nothing, Balanced, Complete, InHand
  <2>. QED  BY <2>1, <2>2, <2>3 DEF Exchange
<1>. QED  BY <1>1, <1>2 DEF ExchangeInv

\* A step of rabbitmq:massive_queue.
LEMMA RabbitExchange ==
    ASSUME ExchangeInv, kind = "rabbitmq", kind' = kind, failed' = failed, Next
    PROVE  ExchangeInv'
<1>0. /\ ExchangeTypes /\ \A x \in Calls : Exchange(x)
  BY DEF ExchangeInv
<1>1. ASSUME NEW u \in Calls, ChannelEffect(u), limit' = limit PROVE ExchangeInv'
  <2>1. /\ ExchangeTypes' /\ \A x \in Calls : x # u => SameCall(x)
    <3>1. main' = [x \in Calls |-> main'[x]] /\ \A x \in Calls : x # u => main'[x] = main[x]
      BY <1>0, <1>1 DEF ChannelEffect, ExchangeTypes
    <3>2. sub' = [x \in Calls |-> sub'[x]] /\ \A x \in Calls : x # u => sub'[x] = sub[x]
      BY <1>0, <1>1 DEF ChannelEffect, ExchangeTypes
    <3>3. sent' \in [Calls -> Nat] /\ \A x \in Calls : x # u => sent'[x] = sent[x]
      BY <1>0, <1>1 DEF ChannelEffect, ExchangeTypes
    <3>4. ready' \in [Calls -> Nat] /\ \A x \in Calls : x # u => ready'[x] = ready[x]
      BY <1>0, <1>1 DEF ChannelEffect, ExchangeTypes
    <3>5. got' \in [Calls -> Nat] /\ \A x \in Calls : x # u => got'[x] = got[x]
      BY <1>0, <1>1 DEF ChannelEffect, ExchangeTypes
    <3>6. raced' \in [Calls -> BOOLEAN] /\ \A x \in Calls : x # u => raced'[x] = raced[x]
      BY <1>0, <1>1 DEF ChannelEffect, ExchangeTypes
    <3>. QED  BY <1>0, <1>1, <3>1, <3>2, <3>3, <3>4, <3>5, <3>6 DEF ExchangeTypes, SameCall
  <2>2. /\ Exchange(u) /\ sent[u] \in Nat /\ ready[u] \in Nat /\ got[u] \in Nat /\ limit \in Nat
    BY <1>0 DEF ExchangeTypes
  <2>3. Exchange(u)'
    <3>1. CASE main'[u] \in {"returned", "delete"}
      BY <3>1 DEF Exchange, Early, Exchanging
    <3>2. CASE main[u] = "pub" /\ main'[u] = "sub" /\ UNCHANGED <<sub, sent, ready, got, raced>>
      BY <2>2, <3>2 DEF Exchange, Early, Exchanging, Nothing
    <3>3. CASE /\ main[u] \in {"pub", "sub"} /\ main'[u] = "publishing" /\ sub'[u] = "loop"
               /\ UNCHANGED <<sent, ready, got, raced>>
      <4>1. sent[u] = 0 /\ ready[u] = 0 /\ got[u] = 0 /\ ~failed[u]
        BY <2>2, <3>3 DEF Exchange, Early, Nothing
      <4>2. InHand(u)' = 0
        BY <3>3 DEF InHand, Bit
      <4>3. Balanced(u)' /\ Complete(u)'
        BY <1>1, <2>2, <3>3, <4>1, <4>2 DEF Balanced, Complete
      <4>. QED  BY <3>3, <4>1, <4>3 DEF Exchange, Early, Exchanging
    <3>4. \/ main'[u] \in {"returned", "delete"}
          \/ main[u] = "pub" /\ main'[u] = "sub" /\ UNCHANGED <<sub, sent, ready, got, raced>>
          \/ /\ main[u] \in {"pub", "sub"} /\ main'[u] = "publishing" /\ sub'[u] = "loop"
             /\ UNCHANGED <<sent, ready, got, raced>>
      BY <1>0, <1>1 DEF ChannelEffect, ExchangeTypes
    <3>. QED  BY <3>1, <3>2, <3>3, <3>4
  <2>. QED  BY <1>1, <2>1, <2>3, OneCallMoves
<1>2. ASSUME UNCHANGED <<main, sub, sent, ready, got, raced, limit>> PROVE ExchangeInv'
  BY <1>0, <1>2 DEF ExchangeInv, ExchangeTypes, Exchange, Nothing, Balanced, Complete, InHand
<1>3. ASSUME NEW u \in Calls, PoolStep(u) PROVE ExchangeInv'
  <2>1. CASE LoadSlice(u)
    BY <1>2, <2>1 DEF LoadSlice, callVars, queueVars, setupVars
  <2>2. CASE TryView(u)
    <3>1. limit' = limit
      BY <2>2 DEF TryView, setupVars
    <3>2. (\E c : ChannelReturns(u, c)) \/ UNCHANGED <<callVars, queueVars>>
      BY <2>2 DEF TryView
    <3>. QED  BY <1>1, <1>2, <3>1, <3>2, ChannelEffects DEF callVars, queueVars
  <2>3. CASE LockPool(u)
    <3>1. limit' = limit
      BY <2>3 DEF LockPool, setupVars
    <3>2. (\E c : ChannelReturns(u, c)) \/ UNCHANGED <<callVars, queueVars>>
      BY <2>3 DEF LockPool
    <3>. QED  BY <1>1, <1>2, <3>1, <3>2, ChannelEffects DEF callVars, queueVars
  <2>4. CASE DialConn(u) \/ DialFails(u)
    <3>1. limit' = limit /\ ((\E c : ChannelReturns(u, c)) \/ ChannelFails(u))
      BY <2>4 DEF DialConn, DialFails, setupVars
    <3>. QED  BY <1>1, <3>1, ChannelEffects
  <2>. QED  BY <1>3, <2>1, <2>2, <2>3, <2>4 DEF PoolStep
<1>4. ASSUME NEW u \in Calls, Begin(u) \/ MainStep(u) PROVE ExchangeInv'
  <2>0. /\ Exchange(u) /\ sent[u] \in Nat /\ ready[u] \in Nat /\ got[u] \in Nat /\ limit \in Nat
        /\ limit' = limit
    BY <1>0, <1>4 DEF ExchangeTypes, Begin, MainStep, Publish, PublishFails, StartWaiting, OnExit, setupVars
  <2>1. ExchangeTypes' /\ \A x \in Calls : x # u => SameCall(x)
    <3>1. main' = [x \in Calls |-> main'[x]] /\ \A x \in Calls : x # u => main'[x] = main[x]
      BY <1>0, <1>4 DEF ExchangeTypes, Begin, MainStep, Publish, PublishFails, StartWaiting,
                        OnExit, Leave, Goto, queueVars
    <3>2. sub' = [x \in Calls |-> sub'[x]] /\ \A x \in Calls : x # u => sub'[x] = sub[x]
      BY <1>0, <1>4 DEF ExchangeTypes, Begin, MainStep, Publish, PublishFails, StartWaiting,
                        OnExit, Leave, Goto, queueVars
    <3>3. sent' \in [Calls -> Nat] /\ \A x \in Calls : x # u => sent'[x] = sent[x]
      BY <1>0, <1>4 DEF ExchangeTypes, Begin, MainStep, Publish, PublishFails, StartWaiting,
                        OnExit, Leave, Goto, queueVars
    <3>4. ready' \in [Calls -> Nat] /\ \A x \in Calls : x # u => ready'[x] = ready[x]
      BY <1>0, <1>4 DEF ExchangeTypes, Begin, MainStep, Publish, PublishFails, StartWaiting,
                        OnExit, Leave, Goto, queueVars
    <3>5. got' \in [Calls -> Nat] /\ \A x \in Calls : x # u => got'[x] = got[x]
      BY <1>0, <1>4 DEF ExchangeTypes, Begin, MainStep, Publish, PublishFails, StartWaiting,
                        OnExit, Leave, Goto, queueVars
    <3>6. raced' \in [Calls -> BOOLEAN] /\ \A x \in Calls : x # u => raced'[x] = raced[x]
      BY <1>0, <1>4 DEF ExchangeTypes, Begin, MainStep, Publish, PublishFails, StartWaiting,
                        OnExit, Leave, Goto, queueVars
    <3>. QED  BY <1>0, <2>0, <3>1, <3>2, <3>3, <3>4, <3>5, <3>6 DEF ExchangeTypes, SameCall
  <2>2. Exchange(u)'
    <3>1. CASE Begin(u)
      <4>1. main[u] = "new" /\ main'[u] = "pub" /\ UNCHANGED <<sub, sent, ready, got, raced>>
        BY <1>0, <3>1 DEF ExchangeTypes, Begin, queueVars
      <4>. QED  BY <2>0, <4>1 DEF Exchange, Early, Exchanging, Nothing
    <3>2. CASE Publish(u)
      <4>1. /\ main[u] = "publishing" /\ main'[u] = main[u] /\ sent[u] < limit
            /\ sent'[u] = sent[u] + 1 /\ ready'[u] = ready[u] + 1 /\ UNCHANGED <<sub, got, raced>>
        BY <1>0, <3>2 DEF ExchangeTypes, Publish
      <4>2. InHand(u)' = InHand(u) /\ InHand(u) \in Nat
        BY <4>1 DEF InHand, Bit
      <4>3. Balanced(u) => Balanced(u)'
        BY <2>0, <4>1, <4>2 DEF Balanced
      <4>4. Complete(u) => Complete(u)'
        BY <2>0, <4>1 DEF Complete
      <4>. QED  BY <2>0, <4>1, <4>3, <4>4 DEF Exchange, Early, Exchanging
    <3>3. CASE PublishFails(u) \/ OnExit(u)
      <4>1. main'[u] = "delete"
        BY <1>0, <3>3 DEF ExchangeTypes, PublishFails, OnExit, Leave, Goto
      <4>. QED  BY <4>1 DEF Exchange, Early, Exchanging
    <3>4. CASE StartWaiting(u)
      <4>1. /\ main[u] = "publishing" /\ main'[u] = "waiting" /\ sent[u] >= limit
            /\ UNCHANGED <<sent, sub, ready, got, raced>>
        BY <1>0, <3>4 DEF ExchangeTypes, StartWaiting, Goto, queueVars
      <4>2. InHand(u)' = InHand(u)
        BY <4>1 DEF InHand
      <4>3. (Balanced(u) => Balanced(u)') /\ (Complete(u) => Complete(u)')
        BY <2>0, <4>1, <4>2 DEF Balanced, Complete
      <4>. QED  BY <2>0, <4>1, <4>3 DEF Exchange, Early, Exchanging
    <3>. QED  BY <1>4, <3>1, <3>2, <3>3, <3>4 DEF MainStep
  <2>. QED  BY <2>0, <2>1, <2>2, OneCallMoves
<1>5. ASSUME NEW u \in Calls, SubStep(u) PROVE ExchangeInv'
  <2>0. /\ Exchange(u) /\ sent[u] \in Nat /\ ready[u] \in Nat /\ got[u] \in Nat /\ limit \in Nat
        /\ limit' = limit
    BY <1>0, <1>5 DEF ExchangeTypes, SubStep, SubLoop, Receive, ReceiveFails, Ack, SubGoto, setupVars
  <2>1. ExchangeTypes' /\ \A x \in Calls : x # u => SameCall(x)
    <3>1. main' = [x \in Calls |-> main'[x]] /\ \A x \in Calls : x # u => main'[x] = main[x]
      BY <1>0, <1>5 DEF ExchangeTypes, SubStep, SubLoop, Receive, ReceiveFails, Ack, SubGoto, callVars
    <3>2. sub' = [x \in Calls |-> sub'[x]] /\ \A x \in Calls : x # u => sub'[x] = sub[x]
      BY <1>0, <1>5 DEF ExchangeTypes, SubStep, SubLoop, Receive, ReceiveFails, Ack, SubGoto, callVars
    <3>3. sent' \in [Calls -> Nat] /\ \A x \in Calls : x # u => sent'[x] = sent[x]
      BY <1>0, <1>5 DEF ExchangeTypes, SubStep, SubLoop, Receive, ReceiveFails, Ack, SubGoto, callVars
    <3>4. ready' \in [Calls -> Nat] /\ \A x \in Calls : x # u => ready'[x] = ready[x]
      BY <1>0, <1>5 DEF ExchangeTypes, SubStep, SubLoop, Receive, ReceiveFails, Ack, SubGoto, callVars
    <3>5. got' \in [Calls -> Nat] /\ \A x \in Calls : x # u => got'[x] = got[x]
      BY <1>0, <1>5 DEF ExchangeTypes, SubStep, SubLoop, Receive, ReceiveFails, Ack, SubGoto, callVars
    <3>6. raced' \in [Calls -> BOOLEAN] /\ \A x \in Calls : x # u => raced'[x] = raced[x]
      BY <1>0, <1>5 DEF ExchangeTypes, SubStep, SubLoop, Receive, ReceiveFails, Ack, SubGoto, callVars
    <3>. QED  BY <1>0, <2>0, <3>1, <3>2, <3>3, <3>4, <3>5, <3>6 DEF ExchangeTypes, SameCall
  <2>2. /\ main'[u] = main[u] /\ sent'[u] = sent[u] /\ raced'[u] = raced[u]
        /\ \/ /\ sub[u] = "loop" /\ sub'[u] = LoopHead(got[u])
              /\ ready'[u] = ready[u] /\ got'[u] = got[u]
           \/ /\ sub[u] = "receive" /\ sub'[u] = "ack" /\ ready[u] > 0
              /\ ready'[u] = ready[u] - 1 /\ got'[u] = got[u]
           \/ /\ sub[u] \in {"receive", "ack"} /\ sub'[u] = "exit_error"
              /\ ready'[u] = ready[u] /\ got'[u] = got[u]
           \/ /\ sub[u] = "ack" /\ sub'[u] = LoopHead(got[u] + 1)
              /\ got'[u] = got[u] + 1 /\ ready'[u] = ready[u]
    BY <1>0, <1>5 DEF ExchangeTypes, SubStep, SubLoop, Receive, ReceiveFails, Ack, SubGoto, callVars
  <2>3. Exchange(u)'
    <3>1. main[u] \notin Early
      BY <2>0, <2>2 DEF Exchange, Nothing
    <3>2. /\ LoopHead(got[u]) # "ack" /\ LoopHead(got[u] + 1) # "ack"
          /\ LoopHead(got[u]) = "exit_nil" => got[u] >= limit
          /\ LoopHead(got[u] + 1) = "exit_nil" => got[u] + 1 >= limit
      BY <2>0 DEF LoopHead
    <3>3. /\ sub'[u] = "exit_nil" => got'[u] >= limit
          /\ ready'[u] + got'[u] + InHand(u)' <= ready[u] + got[u] + InHand(u)
          /\ InHand(u) \in Nat /\ InHand(u)' \in Nat /\ ready'[u] \in Nat /\ got'[u] \in Nat
      <4>0. /\ InHand(u) = IF sub[u] = "ack" THEN 1 ELSE 0
            /\ InHand(u)' = IF sub'[u] = "ack" THEN 1 ELSE 0
        BY DEF InHand, Bit
      <4>. HIDE DEF InHand
      <4>1. CASE /\ sub[u] = "loop" /\ sub'[u] = LoopHead(got[u])
                 /\ ready'[u] = ready[u] /\ got'[u] = got[u]
        BY <2>0, <3>2, <4>0, <4>1
      <4>2. CASE /\ sub[u] = "receive" /\ sub'[u] = "ack" /\ ready[u] > 0
                 /\ ready'[u] = ready[u] - 1 /\ got'[u] = got[u]
        BY <2>0, <4>0, <4>2
      <4>3. CASE /\ sub[u] \in {"receive", "ack"} /\ sub'[u] = "exit_error"
                 /\ ready'[u] = ready[u] /\ got'[u] = got[u]
        BY <2>0, <4>0, <4>3
      <4>4. CASE /\ sub[u] = "ack" /\ sub'[u] = LoopHead(got[u] + 1)
                 /\ got'[u] = got[u] + 1 /\ ready'[u] = ready[u]
        BY <2>0, <3>2, <4>0, <4>4
      <4>. QED  BY <2>2, <4>1, <4>2, <4>3, <4>4
    <3>4. Balanced(u) => Balanced(u)'
      BY <2>0, <2>2, <3>3 DEF Balanced
    <3>5. Complete(u) => Complete(u)'
      BY <2>0, <2>2, <3>3 DEF Complete
    <3>. QED  BY <2>0, <2>2, <3>1, <3>4, <3>5 DEF Exchange
  <2>. QED  BY <2>0, <2>1, <2>3, OneCallMoves
<1>6. CASE PoolClose \/ NegativeSize \/ SetLimit
  <2>1. /\ limit' \in Nat /\ UNCHANGED <<main, sub, sent, ready, got>>
        /\ \/ raced' = [u \in Calls |-> raced[u] \/ (u \in UnderWay /\ limit' # limit)]
           \/ raced' = raced /\ limit' = limit
    BY <1>0, <1>6, RabbitMQAssumption
       DEF PoolClose, NegativeSize, SetLimit, SetupGoto, ExchangeTypes, callVars, queueVars,
           setupVars
  <2>. QED  BY <2>1, SetupExchange
<1>7. ASSUME NEW c \in 1..MaxDials, Breaks(c) PROVE ExchangeInv'
  <2>1. PICK lost \in SUBSET Calls : ready' = [u \in Calls |-> IF u \in lost THEN 0 ELSE ready[u]]
    BY <1>7 DEF Breaks
  <2>2. UNCHANGED <<main, sent, sub, got, raced, limit>>
    BY <1>7 DEF Breaks, callVars, setupVars
  <2>3. ready' \in [Calls -> Nat] /\ \A u \in Calls : ready'[u] <= ready[u]
    BY <1>0, <2>1 DEF ExchangeTypes
  <2>4. ExchangeTypes'
    BY <1>0, <2>2, <2>3 DEF ExchangeTypes
  <2>5. ASSUME NEW u \in Calls PROVE Exchange(u)'
    <3>1. /\ Exchange(u) /\ ready[u] \in Nat /\ ready'[u] \in Nat /\ ready'[u] <= ready[u]
          /\ got[u] \in Nat /\ sent[u] \in Nat
      BY <1>0, <2>3 DEF ExchangeTypes
    <3>2. InHand(u)' = InHand(u) /\ InHand(u) \in Nat
      BY <2>2 DEF InHand, Bit
    <3>3. Balanced(u) => Balanced(u)'
      BY <2>2, <3>1, <3>2 DEF Balanced
    <3>4. (Nothing(u) => Nothing(u)') /\ (Complete(u) => Complete(u)')
      BY <2>2, <3>1 DEF Nothing, Complete
    <3>. QED  BY <2>2, <3>1, <3>3, <3>4 DEF Exchange
  <2>. QED  BY <2>4, <2>5 DEF ExchangeInv
<1>. QED  BY <1>3, <1>4, <1>5, <1>6, <1>7 DEF Next

\* A step of pulsar:massive_queue.
LEMMA PulsarExchange ==
    ASSUME ExchangeInv, kind = "pulsar", kind' = kind, Pulsar!Next
    PROVE  ExchangeInv'
<1>0. /\ ExchangeTypes /\ \A x \in Calls : Exchange(x)
  BY DEF ExchangeInv
<1>1. ASSUME NEW u \in Calls, Pulsar!Begin(u) \/ Pulsar!MainStep(u), ~Pulsar!NilClient(u)
      PROVE  ExchangeInv'
  <2>0. /\ Exchange(u) /\ sent[u] \in Nat /\ ready[u] \in Nat /\ got[u] \in Nat /\ limit \in Nat
        /\ limit' = limit
    BY <1>0, <1>1 DEF ExchangeTypes, Pulsar!setupVars, Pulsar!Begin, Pulsar!MainStep, Pulsar!CreateProducer, Pulsar!Subscribe,
             Pulsar!Publish, Pulsar!StartWaiting, Pulsar!OnExit, Pulsar!Close, Pulsar!Return,
             Pulsar!Goto, Pulsar!subVars
  <2>1. ExchangeTypes' /\ \A x \in Calls : x # u => SameCall(x)
    <3>1. main' = [x \in Calls |-> main'[x]] /\ \A x \in Calls : x # u => main'[x] = main[x]
      BY <1>0, <1>1 DEF ExchangeTypes, Pulsar!Begin, Pulsar!MainStep, Pulsar!CreateProducer, Pulsar!Subscribe,
             Pulsar!Publish, Pulsar!StartWaiting, Pulsar!OnExit, Pulsar!Close, Pulsar!Return,
             Pulsar!Goto, Pulsar!subVars
    <3>2. sub' = [x \in Calls |-> sub'[x]] /\ \A x \in Calls : x # u => sub'[x] = sub[x]
      BY <1>0, <1>1 DEF ExchangeTypes, Pulsar!Begin, Pulsar!MainStep, Pulsar!CreateProducer, Pulsar!Subscribe,
             Pulsar!Publish, Pulsar!StartWaiting, Pulsar!OnExit, Pulsar!Close, Pulsar!Return,
             Pulsar!Goto, Pulsar!subVars
    <3>3. sent' \in [Calls -> Nat] /\ \A x \in Calls : x # u => sent'[x] = sent[x]
      BY <1>0, <1>1 DEF ExchangeTypes, Pulsar!Begin, Pulsar!MainStep, Pulsar!CreateProducer, Pulsar!Subscribe,
             Pulsar!Publish, Pulsar!StartWaiting, Pulsar!OnExit, Pulsar!Close, Pulsar!Return,
             Pulsar!Goto, Pulsar!subVars
    <3>4. ready' \in [Calls -> Nat] /\ \A x \in Calls : x # u => ready'[x] = ready[x]
      BY <1>0, <1>1 DEF ExchangeTypes, Pulsar!Begin, Pulsar!MainStep, Pulsar!CreateProducer, Pulsar!Subscribe,
             Pulsar!Publish, Pulsar!StartWaiting, Pulsar!OnExit, Pulsar!Close, Pulsar!Return,
             Pulsar!Goto, Pulsar!subVars
    <3>5. got' \in [Calls -> Nat] /\ \A x \in Calls : x # u => got'[x] = got[x]
      BY <1>0, <1>1 DEF ExchangeTypes, Pulsar!Begin, Pulsar!MainStep, Pulsar!CreateProducer, Pulsar!Subscribe,
             Pulsar!Publish, Pulsar!StartWaiting, Pulsar!OnExit, Pulsar!Close, Pulsar!Return,
             Pulsar!Goto, Pulsar!subVars
    <3>6. raced' \in [Calls -> BOOLEAN] /\ \A x \in Calls : x # u => raced'[x] = raced[x]
      BY <1>0, <1>1 DEF ExchangeTypes, Pulsar!Begin, Pulsar!MainStep, Pulsar!CreateProducer, Pulsar!Subscribe,
             Pulsar!Publish, Pulsar!StartWaiting, Pulsar!OnExit, Pulsar!Close, Pulsar!Return,
             Pulsar!Goto, Pulsar!subVars
    <3>7. failed' \in [Calls -> BOOLEAN] /\ \A x \in Calls : x # u => failed'[x] = failed[x]
      BY <1>0, <1>1 DEF ExchangeTypes, Pulsar!Begin, Pulsar!MainStep, Pulsar!CreateProducer, Pulsar!Subscribe,
             Pulsar!Publish, Pulsar!StartWaiting, Pulsar!OnExit, Pulsar!Close, Pulsar!Return,
             Pulsar!Goto, Pulsar!subVars
    <3>. QED  BY <1>0, <2>0, <3>1, <3>2, <3>3, <3>4, <3>5, <3>6, <3>7 DEF ExchangeTypes, SameCall
  <2>2. Exchange(u)'
    <3>1. CASE \/ Pulsar!Begin(u)
               \/ main[u] = "producer" /\ main'[u] = "consumer" /\ Pulsar!CreateProducer(u)
      <4>1. /\ main[u] \in Early /\ main'[u] \in {"producer", "consumer"}
            /\ UNCHANGED <<sub, sent, ready, got, raced, failed>>
        BY <1>0, <3>1 DEF ExchangeTypes, Early, Pulsar!Begin, Pulsar!MainStep, Pulsar!CreateProducer, Pulsar!Subscribe,
             Pulsar!Publish, Pulsar!StartWaiting, Pulsar!OnExit, Pulsar!Close, Pulsar!Return,
             Pulsar!Goto, Pulsar!subVars
      <4>. QED  BY <2>0, <4>1 DEF Exchange, Early, Exchanging, Nothing
    <3>2. CASE main'[u] \in {"returned", "closing"}
      BY <3>2 DEF Exchange, Early, Exchanging
    <3>3. CASE main[u] = "consumer" /\ main'[u] = "publishing" /\ Pulsar!Subscribe(u)
      <4>1. /\ sub'[u] = "loop" /\ UNCHANGED <<sent, ready, got, raced, failed>>
        BY <1>0, <3>3 DEF ExchangeTypes, Pulsar!Subscribe, Pulsar!Goto, Pulsar!Return
      <4>2. sent[u] = 0 /\ ready[u] = 0 /\ got[u] = 0 /\ ~failed[u]
        BY <2>0, <3>3 DEF Exchange, Early, Nothing
      <4>3. InHand(u)' = 0
        BY <4>1 DEF InHand, Bit
      <4>4. Balanced(u)' /\ Complete(u)'
        BY <2>0, <3>3, <4>1, <4>2, <4>3 DEF Balanced, Complete
      <4>. QED  BY <3>3, <4>1, <4>2, <4>4 DEF Exchange, Early, Exchanging
    <3>4. CASE Pulsar!Publish(u)
      <4>1. /\ main[u] = "publishing" /\ main'[u] = main[u] /\ sent[u] < limit
            /\ sent'[u] = sent[u] + 1 /\ ready'[u] \in {ready[u], ready[u] + 1}
            /\ UNCHANGED <<sub, got, raced, failed>>
        BY <1>0, <3>4 DEF ExchangeTypes, Pulsar!Publish, Pulsar!Goto, Pulsar!subVars
      <4>2. InHand(u)' = InHand(u) /\ InHand(u) \in Nat
        BY <4>1 DEF InHand, Bit
      <4>3. Balanced(u) => Balanced(u)'
        BY <2>0, <4>1, <4>2 DEF Balanced
      <4>4. Complete(u) => Complete(u)'
        BY <2>0, <4>1 DEF Complete
      <4>. QED  BY <2>0, <4>1, <4>3, <4>4 DEF Exchange, Early, Exchanging
    <3>5. CASE Pulsar!StartWaiting(u)
      <4>1. /\ main[u] = "publishing" /\ main'[u] = "waiting" /\ sent[u] >= limit
            /\ UNCHANGED <<sent, sub, ready, got, raced, failed>>
        BY <1>0, <3>5 DEF ExchangeTypes, Pulsar!StartWaiting, Pulsar!Goto, Pulsar!subVars
      <4>2. InHand(u)' = InHand(u)
        BY <4>1 DEF InHand
      <4>3. (Balanced(u) => Balanced(u)') /\ (Complete(u) => Complete(u)')
        BY <2>0, <4>1, <4>2 DEF Balanced, Complete
      <4>. QED  BY <2>0, <4>1, <4>3 DEF Exchange, Early, Exchanging
    <3>6. Pulsar!CreateProducer(u) =>
             main'[u] = "returned" \/ (main[u] = "producer" /\ main'[u] = "consumer")
      BY <1>0 DEF ExchangeTypes, Pulsar!CreateProducer, Pulsar!Goto, Pulsar!Return
    <3>7. Pulsar!Subscribe(u) =>
             main'[u] = "returned" \/ (main[u] = "consumer" /\ main'[u] = "publishing")
      BY <1>0 DEF ExchangeTypes, Pulsar!Subscribe, Pulsar!Goto, Pulsar!Return
    <3>8. Pulsar!OnExit(u) \/ Pulsar!Close(u) => main'[u] \in {"returned", "closing"}
      BY <1>0 DEF ExchangeTypes, Pulsar!OnExit, Pulsar!Close, Pulsar!Goto, Pulsar!Return
    <3>. QED  BY <1>1, <3>1, <3>2, <3>3, <3>4, <3>5, <3>6, <3>7, <3>8 DEF Pulsar!MainStep
  <2>. QED  BY <2>0, <2>1, <2>2, OneCallMoves
<1>2. ASSUME NEW u \in Calls, Pulsar!SubStep(u) PROVE ExchangeInv'
  <2>0. /\ Exchange(u) /\ sent[u] \in Nat /\ ready[u] \in Nat /\ got[u] \in Nat /\ limit \in Nat
        /\ limit' = limit
    BY <1>0, <1>2 DEF ExchangeTypes, Pulsar!setupVars, Pulsar!SubStep, Pulsar!SubLoop, Pulsar!Receive, Pulsar!ReceiveFails, Pulsar!SubGoto
  <2>1. ExchangeTypes' /\ \A x \in Calls : x # u => SameCall(x)
    <3>1. main' = [x \in Calls |-> main'[x]] /\ \A x \in Calls : x # u => main'[x] = main[x]
      BY <1>0, <1>2 DEF ExchangeTypes, Pulsar!SubStep, Pulsar!SubLoop, Pulsar!Receive, Pulsar!ReceiveFails, Pulsar!SubGoto,
             Pulsar!setupVars
    <3>2. sub' = [x \in Calls |-> sub'[x]] /\ \A x \in Calls : x # u => sub'[x] = sub[x]
      BY <1>0, <1>2 DEF ExchangeTypes, Pulsar!SubStep, Pulsar!SubLoop, Pulsar!Receive, Pulsar!ReceiveFails, Pulsar!SubGoto,
             Pulsar!setupVars
    <3>3. sent' \in [Calls -> Nat] /\ \A x \in Calls : x # u => sent'[x] = sent[x]
      BY <1>0, <1>2 DEF ExchangeTypes, Pulsar!SubStep, Pulsar!SubLoop, Pulsar!Receive, Pulsar!ReceiveFails, Pulsar!SubGoto,
             Pulsar!setupVars
    <3>4. ready' \in [Calls -> Nat] /\ \A x \in Calls : x # u => ready'[x] = ready[x]
      BY <1>0, <1>2 DEF ExchangeTypes, Pulsar!SubStep, Pulsar!SubLoop, Pulsar!Receive, Pulsar!ReceiveFails, Pulsar!SubGoto,
             Pulsar!setupVars
    <3>5. got' \in [Calls -> Nat] /\ \A x \in Calls : x # u => got'[x] = got[x]
      BY <1>0, <1>2 DEF ExchangeTypes, Pulsar!SubStep, Pulsar!SubLoop, Pulsar!Receive, Pulsar!ReceiveFails, Pulsar!SubGoto,
             Pulsar!setupVars
    <3>6. raced' \in [Calls -> BOOLEAN] /\ \A x \in Calls : x # u => raced'[x] = raced[x]
      BY <1>0, <1>2 DEF ExchangeTypes, Pulsar!SubStep, Pulsar!SubLoop, Pulsar!Receive, Pulsar!ReceiveFails, Pulsar!SubGoto,
             Pulsar!setupVars
    <3>7. failed' \in [Calls -> BOOLEAN] /\ \A x \in Calls : x # u => failed'[x] = failed[x]
      BY <1>0, <1>2 DEF ExchangeTypes, Pulsar!SubStep, Pulsar!SubLoop, Pulsar!Receive, Pulsar!ReceiveFails, Pulsar!SubGoto,
             Pulsar!setupVars
    <3>. QED  BY <1>0, <2>0, <3>1, <3>2, <3>3, <3>4, <3>5, <3>6, <3>7 DEF ExchangeTypes, SameCall
  <2>2. /\ main'[u] = main[u] /\ sent'[u] = sent[u] /\ raced'[u] = raced[u] /\ failed'[u] = failed[u]
        /\ \/ /\ sub[u] = "loop" /\ sub'[u] = "exit_nil" /\ Pulsar!Rounds(u) >= limit
              /\ ready'[u] = ready[u] /\ got'[u] = got[u]
           \/ /\ sub[u] \in {"loop", "receive"} /\ sub'[u] \in {"receive", "exit_timeout", "exit_failure"}
              /\ ready'[u] = ready[u] /\ got'[u] = got[u]
           \/ /\ sub[u] = "receive" /\ sub'[u] = "loop" /\ ready[u] > 0
              /\ ready'[u] = ready[u] - 1 /\ got'[u] = got[u] + 1
    BY <1>0, <1>2 DEF ExchangeTypes, Pulsar!SubStep, Pulsar!SubLoop, Pulsar!Receive, Pulsar!ReceiveFails, Pulsar!SubGoto
  <2>3. Exchange(u)'
    <3>1. main[u] \notin Early
      BY <2>0, <2>2 DEF Exchange, Nothing
    <3>2. InHand(u)' = 0 /\ InHand(u) = 0
      BY <2>2 DEF InHand, Bit
    <3>3. /\ ready'[u] + got'[u] = ready[u] + got[u] /\ ready'[u] \in Nat /\ got'[u] \in Nat
      BY <2>0, <2>2
    <3>4. ~failed[u] => Pulsar!Rounds(u) = got[u]
      BY <2>0 DEF Pulsar!Rounds
    <3>5. ~failed[u] /\ sub'[u] = "exit_nil" => got'[u] >= limit
      BY <2>0, <2>2, <3>4
    <3>6. Balanced(u) => Balanced(u)'
      BY <2>0, <2>2, <3>2, <3>3 DEF Balanced
    <3>7. ~failed[u] /\ Complete(u) => Complete(u)'
      BY <2>0, <2>2, <3>5 DEF Complete
    <3>. QED  BY <2>0, <2>2, <3>1, <3>6, <3>7 DEF Exchange
  <2>. QED  BY <2>0, <2>1, <2>3, OneCallMoves
<1>3. ASSUME Pulsar!NegativeSize \/ \E u \in Calls : Pulsar!NilClient(u) PROVE ExchangeInv'
  <2>1. UNCHANGED <<main, sub, sent, ready, got, raced, failed, limit>>
    BY <1>3 DEF Pulsar!NilClient, Pulsar!NegativeSize, Pulsar!callVars, Pulsar!subVars, Pulsar!setupVars
  <2>. QED  BY <1>0, <2>1 DEF ExchangeInv, ExchangeTypes, Exchange, Nothing, Balanced, Complete, InHand
<1>4. CASE Pulsar!SetupReset \/ Pulsar!ClientClose \/ Pulsar!NewClient \/ Pulsar!SetLimit
  <2>1. /\ limit' \in Nat /\ UNCHANGED <<main, sub, sent, ready, got, failed>>
        /\ \/ raced' = [u \in Calls |-> raced[u] \/ (u \in UnderWay /\ limit' # limit)]
           \/ raced' = raced /\ limit' = limit
    BY <1>0, <1>4, RabbitMQAssumption, SameUnderWay
       DEF ExchangeTypes, Pulsar!SetupReset, Pulsar!ClientClose, Pulsar!NewClient, Pulsar!SetLimit,
           Pulsar!SetupGoto, Pulsar!subVars
  <2>. QED  BY <2>1, SetupExchange
<1>. QED  BY <1>1, <1>2, <1>3, <1>4 DEF Pulsar!Next

\* With rabbitmq and with pulsar a success of a call that no Setup has overtaken
\* stands for a complete exchange: for any calls, numbers of messages and
\* connections, and whatever breaks.
THEOREM SuccessRight == MCSpec => []SuccessIsComplete
<1>1. MCInit => ExchangeInv
  <2>. SUFFICES ASSUME MCInit PROVE ExchangeInv
    OBVIOUS
  <2>1. /\ limit = Messages /\ main = [u \in Calls |-> "new"] /\ sub = [u \in Calls |-> "none"]
        /\ sent = [u \in Calls |-> 0] /\ ready = [u \in Calls |-> 0] /\ got = [u \in Calls |-> 0]
        /\ raced = [u \in Calls |-> FALSE] /\ failed = [u \in Calls |-> FALSE]
    BY DEF MCInit, Init, Pulsar!Init, Http!Init, Kafka!Init, PulsarRests, QueuesRest, SendRests
  <2>2. ExchangeTypes
    BY <2>1, RabbitMQAssumption DEF ExchangeTypes
  <2>. QED  BY <2>1, <2>2 DEF ExchangeInv, Exchange, Nothing, Early, Exchanging
<1>2. ExchangeInv /\ [MCNext]_mcVars => ExchangeInv'
  <2>. SUFFICES ASSUME ExchangeInv, [MCNext]_mcVars PROVE ExchangeInv'
    OBVIOUS
  <2>1. CASE UNCHANGED mcVars
    <3>1. UNCHANGED <<kind, main, sub, sent, ready, got, raced, failed, limit>>
      BY <2>1 DEF mcVars, vars, callVars, queueVars, setupVars, pulsarVars
    <3>. QED  BY <3>1 DEF ExchangeInv, ExchangeTypes, Exchange, Nothing, Balanced, Complete, InHand
  <2>2. CASE Next /\ OfRabbitMQ
    BY <2>2, RabbitExchange DEF OfRabbitMQ, Of, pulsarVars
  <2>3. CASE Pulsar!Next /\ OfPulsar
    BY <2>3, PulsarExchange DEF OfPulsar, Of
  <2>4. ASSUME kind \in {"http", "kafka"}, UNCHANGED <<kind, sub, ready, got, raced, failed>>,
               main' = [u \in Calls |-> main'[u]], limit' \in Nat, sent' \in [Calls -> Nat]
        PROVE  ExchangeInv'
    BY <2>4 DEF ExchangeInv, ExchangeTypes
  <2>5. CASE Http!Next /\ OfHttp
    <3>1. kind = "http" /\ UNCHANGED <<kind, sub, ready, got, raced, failed, limit, sent>>
      BY <2>5 DEF OfHttp, Of, queueVars, pulsarVars
    <3>2. main' = main \/ \E u \in Calls : \E to : main' = [main EXCEPT ![u] = to]
      BY <2>5 DEF Http!Next, Http!SetupStep, Http!SetupReset, Http!NewClient, Http!QuicDial,
                  Http!SetProxy, Http!DisableH2, Http!SetupGoto, Http!Begin, Http!CallStep, Http!Send,
                  Http!EmptyPool, Http!GetFails, Http!Measure, Http!Complete, Http!Goto
    <3>3. main' = [u \in Calls |-> main'[u]]
      BY <3>2 DEF ExchangeInv, ExchangeTypes
    <3>. QED  BY <2>4, <3>1, <3>3 DEF ExchangeInv, ExchangeTypes
  <2>6. CASE Kafka!Next /\ OfKafka
    <3>1. kind = "kafka" /\ UNCHANGED <<kind, sub, ready, got, raced, failed>>
      BY <2>6 DEF OfKafka, Of, queueVars, pulsarVars
    <3>2. main' = main \/ \E u \in Calls : \E to : main' = [main EXCEPT ![u] = to]
      BY <2>6 DEF Kafka!Next, Kafka!SetupReset, Kafka!SetPayload, Kafka!NegativeSize,
                  Kafka!SetDefault, Kafka!SetLimit, Kafka!SetupGoto, Kafka!Begin, Kafka!CallStep,
                  Kafka!Dial, Kafka!Write, Kafka!Fails, Kafka!Hangs, Kafka!Succeed, Kafka!Goto
    <3>3. main' = [u \in Calls |-> main'[u]]
      BY <3>2 DEF ExchangeInv, ExchangeTypes
    <3>4. limit' \in Nat /\ sent' \in [Calls -> Nat]
      BY <2>6, RabbitMQAssumption
         DEF Kafka!Next, Kafka!SetupReset, Kafka!SetPayload, Kafka!NegativeSize,
             Kafka!SetDefault, Kafka!SetLimit, Kafka!SetupGoto, Kafka!Begin, Kafka!CallStep,
             Kafka!Dial, Kafka!Write, Kafka!Fails, Kafka!Hangs, Kafka!Succeed, Kafka!Goto,
             Kafka!setupVars, ExchangeInv, ExchangeTypes
    <3>. QED  BY <2>4, <3>1, <3>3, <3>4
  <2>. QED  BY <2>1, <2>2, <2>3, <2>5, <2>6 DEF MCNext
<1>3. ExchangeInv /\ kind \in {"rabbitmq", "pulsar", "http", "kafka"} => SuccessIsComplete
  <2>. SUFFICES ASSUME ExchangeInv, kind \in {"rabbitmq", "pulsar", "http", "kafka"}, NEW u \in Calls,
                       main[u] = "waiting", sub[u] = "exit_nil", ~raced[u]
                PROVE  sent[u] = limit /\ got[u] = limit /\ ready[u] = 0
    BY DEF SuccessIsComplete
  <2>1. Exchange(u) /\ sent[u] \in Nat /\ got[u] \in Nat /\ ready[u] \in Nat /\ limit \in Nat
    BY DEF ExchangeInv, ExchangeTypes
  <2>2. Balanced(u) /\ Complete(u)
    BY <2>1 DEF Exchange, Exchanging
  <2>3. InHand(u) = 0
    BY DEF InHand, Bit
  <2>. QED  BY <2>1, <2>2, <2>3 DEF Balanced, Complete
<1>4. MCSpec => [](kind \in {"rabbitmq", "pulsar", "http", "kafka"})
  <2>1. MCInit => kind \in {"rabbitmq", "pulsar", "http", "kafka"}
    BY DEF MCInit
  <2>2. /\ kind \in {"rabbitmq", "pulsar", "http", "kafka"} /\ [MCNext]_mcVars
        => (kind \in {"rabbitmq", "pulsar", "http", "kafka"})'
    BY DEF MCNext, mcVars, OfRabbitMQ, OfPulsar, OfHttp, OfKafka, Of
  <2>. QED  BY <2>1, <2>2, PTL DEF MCSpec
<1>. QED  BY <1>1, <1>2, <1>3, <1>4, PTL DEF MCSpec

-----------------------------------------------------------------------------
(***************************************************************************)
(* The pool of connections of rabbitmq.                                    *)
(***************************************************************************)
PoolTypes ==
    /\ dialled \in 0..MaxDials
    /\ conns \in Seq(Nat) /\ view \in [Calls -> Seq(Nat)]
    /\ pool = [u \in Calls |-> pool[u]]
    /\ pub \in [Calls -> Int] /\ subc \in [Calls -> Int]
    /\ \A u \in Calls : pub[u] <= dialled /\ subc[u] <= dialled
    /\ leaked \in [1..MaxDials -> Nat]
    /\ \A c \in 1..MaxDials : c > dialled => leaked[c] = 0

\* What is out of channels has been found so, and all are when a call is about to
\* dial: nobody else dials meanwhile, and no connection that is full is forgotten.
PoolInv ==
    /\ PoolTypes
    /\ open \subseteq 1..dialled
    /\ open \subseteq Range(conns)
    /\ \A c \in open : Channels(c) >= ChannelMax => c \in full
    /\ \A c \in open : c < dialled => c \in full
    /\ \A u \in Calls : pool[u] = "dial" => lock = u /\ open \subseteq full

\* The loop over the connections finds the first that has room, if any has.
LEMMA FirstOpenFinds ==
    ASSUME NEW s \in Seq(Nat)
    PROVE  /\ FirstOpen(s) \in 0..Len(s)
           /\ FirstOpen(s) = 0 => \A j \in 1..Len(s) : ~HasRoom(s[j])
           /\ FirstOpen(s) > 0 => HasRoom(s[FirstOpen(s)])
<1>. DEFINE I == {i \in 1..Len(s) : HasRoom(s[i])}
<1>1. FirstOpen(s) = IF I # {} THEN Min(I) ELSE 0
  BY DEF FirstOpen, SelectInSeq
<1>2. I \subseteq Nat /\ Len(s) \in Nat
  OBVIOUS
<1>3. ASSUME I # {} PROVE Min(I) \in I
  <2>. HIDE DEF I
  <2>. DEFINE R == OpToRel(<, Nat)
  <2>1. IsWellFoundedOn(R, Nat)
    BY NatLessThanWellFounded, Zenon
  <2>2. \A x, y \in Nat : y < x => <<y, x>> \in R
    BY Zenon DEF OpToRel
  <2>. HIDE DEF R
  <2>3. PICK x \in I : \A y \in I : ~(<<y, x>> \in R)
    BY <1>2, <1>3, <2>1, WFMin
  <2>4. \A y \in I : x <= y
    <3>. SUFFICES ASSUME NEW y \in I PROVE x <= y
      OBVIOUS
    <3>1. x \in Nat /\ y \in Nat
      BY <1>2
    <3>2. ~(y < x)
      BY <2>2, <2>3, <3>1, Zenon
    <3>. QED  BY <3>1, <3>2
  <2>. QED  BY <2>4 DEF Min
<1>4. CASE I # {}
  <2>1. FirstOpen(s) \in I
    BY <1>1, <1>3, <1>4
  <2>. QED  BY <1>2, <2>1
<1>5. CASE I = {}
  BY <1>1, <1>2, <1>5
<1>. QED  BY <1>4, <1>5

\* The calls whose channels are on connection c.
Pubs(c) == {u \in Calls : pub[u] = c}
Subs(c) == {u \in Calls : subc[u] = c}

\* The channels in use on a connection, before and after a step that moves the
\* channels of call u only.
LEMMA ChannelsMove ==
    ASSUME PoolTypes, NEW u \in Calls, NEW d \in 1..MaxDials,
           leaked'[d] \in Nat,
           \A x \in Calls : x # u => pub'[x] = pub[x] /\ subc'[x] = subc[x]
    PROVE  /\ Channels(d) \in Nat /\ Channels(d)' \in Nat
           /\ Channels(d)' = Channels(d) + (leaked'[d] - leaked[d])
                + (Bit(pub'[u] = d) - Bit(pub[u] = d)) + (Bit(subc'[u] = d) - Bit(subc[u] = d))
<1>1. /\ Channels(d) = leaked[d] + Cardinality(Pubs(d)) + Cardinality(Subs(d))
      /\ Channels(d)' = leaked'[d] + Cardinality(Pubs(d)') + Cardinality(Subs(d)')
  BY DEF Channels, Pubs, Subs
<1>2. /\ Pubs(d) \in SUBSET Calls /\ Pubs(d)' \in SUBSET Calls /\ Pubs(d) \ {u} = Pubs(d)' \ {u}
      /\ Subs(d) \in SUBSET Calls /\ Subs(d)' \in SUBSET Calls /\ Subs(d) \ {u} = Subs(d)' \ {u}
  BY DEF Pubs, Subs
<1>3. /\ Cardinality(Pubs(d)) \in Nat /\ Cardinality(Pubs(d)') \in Nat
      /\ Cardinality(Pubs(d)') = Cardinality(Pubs(d)) + Bit(u \in Pubs(d)') - Bit(u \in Pubs(d))
  BY <1>2, SetMoves
<1>4. /\ Cardinality(Subs(d)) \in Nat /\ Cardinality(Subs(d)') \in Nat
      /\ Cardinality(Subs(d)') = Cardinality(Subs(d)) + Bit(u \in Subs(d)') - Bit(u \in Subs(d))
  BY <1>2, SetMoves
<1>5. /\ u \in Pubs(d)' <=> pub'[u] = d
      /\ u \in Pubs(d) <=> pub[u] = d
      /\ u \in Subs(d)' <=> subc'[u] = d
      /\ u \in Subs(d) <=> subc[u] = d
  BY DEF Pubs, Subs
<1>6. /\ Bit(u \in Pubs(d)') = Bit(pub'[u] = d) /\ Bit(u \in Pubs(d)) = Bit(pub[u] = d)
      /\ Bit(u \in Subs(d)') = Bit(subc'[u] = d) /\ Bit(u \in Subs(d)) = Bit(subc[u] = d)
      /\ Bit(pub'[u] = d) \in Int /\ Bit(pub[u] = d) \in Int
      /\ Bit(subc'[u] = d) \in Int /\ Bit(subc[u] = d) \in Int
  BY <1>5 DEF Bit
<1>7. leaked[d] \in Nat
  BY DEF PoolTypes
<1>. HIDE DEF Bit, Pubs, Subs
<1>. QED  BY <1>1, <1>3, <1>4, <1>6, <1>7

\* What a call does to its channels: it gives one back, or takes one on
\* connection c for itself or to leak.
Gives(u) ==
    /\ \/ pub' = [pub EXCEPT ![u] = Nil] /\ subc' = subc
       \/ pub' = pub /\ subc' = [subc EXCEPT ![u] = IF @ = Nil THEN Nil ELSE Closed]
       \/ pub' = pub /\ subc' = subc
    /\ leaked' = leaked

Takes(u, c) ==
    \/ pub' = [pub EXCEPT ![u] = c] /\ subc' = subc /\ leaked' = leaked
    \/ pub' = pub /\ subc' = [subc EXCEPT ![u] = c] /\ leaked' = leaked
    \/ pub' = [pub EXCEPT ![u] = Nil] /\ subc' = subc /\ leaked' = [leaked EXCEPT ![c] = @ + 1]

\* Taking uses one channel more of that connection at most, and none of another.
LEMMA ChannelsTaken ==
    ASSUME PoolTypes, NEW u \in Calls, NEW c \in 1..MaxDials, Gives(u) \/ Takes(u, c),
           NEW d \in 1..MaxDials
    PROVE  /\ Channels(d) \in Nat /\ Channels(d)' \in Nat
           /\ Gives(u) \/ d # c => Channels(d)' <= Channels(d)
           /\ Channels(d)' <= Channels(d) + 1
<1>1. /\ pub \in [Calls -> Int] /\ subc \in [Calls -> Int] /\ leaked \in [1..MaxDials -> Nat]
      /\ MaxDials \in Nat /\ d \in Int /\ d > 0 /\ c \in Int /\ leaked[d] \in Nat
  BY RabbitMQAssumption DEF PoolTypes
<1>2. \A x \in Calls : x # u => pub'[x] = pub[x] /\ subc'[x] = subc[x]
  BY <1>1 DEF Gives, Takes
<1>3. \/ Gives(u) /\ pub'[u] \in {Nil, pub[u]} /\ subc'[u] \in {Nil, Closed, subc[u]} /\ leaked'[d] = leaked[d]
      \/ pub'[u] = c /\ subc'[u] = subc[u] /\ leaked'[d] = leaked[d]
      \/ pub'[u] = pub[u] /\ subc'[u] = c /\ leaked'[d] = leaked[d]
      \/ pub'[u] = Nil /\ subc'[u] = subc[u] /\ leaked'[d] = IF d = c THEN leaked[d] + 1 ELSE leaked[d]
  BY <1>1 DEF Gives, Takes
<1>4. leaked'[d] \in Nat
  BY <1>1, <1>3
<1>5. /\ Channels(d) \in Nat /\ Channels(d)' \in Nat
      /\ Channels(d)' = Channels(d) + (leaked'[d] - leaked[d])
            + (Bit(pub'[u] = d) - Bit(pub[u] = d)) + (Bit(subc'[u] = d) - Bit(subc[u] = d))
  BY <1>2, <1>4, ChannelsMove
<1>6. Nil # d /\ Closed # d
  BY <1>1 DEF Nil, Closed
<1>7. /\ Bit(pub'[u] = d) = IF pub'[u] = d THEN 1 ELSE 0
      /\ Bit(pub[u] = d) = IF pub[u] = d THEN 1 ELSE 0
      /\ Bit(subc'[u] = d) = IF subc'[u] = d THEN 1 ELSE 0
      /\ Bit(subc[u] = d) = IF subc[u] = d THEN 1 ELSE 0
  BY DEF Bit
<1>. DEFINE p == Bit(pub[u] = d)  pp == Bit(pub'[u] = d)
            q == Bit(subc[u] = d) qq == Bit(subc'[u] = d)
<1>8. /\ p \in {0, 1} /\ pp \in {0, 1} /\ q \in {0, 1} /\ qq \in {0, 1}
      /\ \/ Gives(u) /\ pp <= p /\ qq <= q /\ leaked'[d] = leaked[d]
         \/ (d # c => pp = 0) /\ qq = q /\ leaked'[d] = leaked[d]
         \/ pp = p /\ (d # c => qq = 0) /\ leaked'[d] = leaked[d]
         \/ pp = 0 /\ qq = q /\ leaked'[d] = IF d = c THEN leaked[d] + 1 ELSE leaked[d]
  BY <1>1, <1>3, <1>6, <1>7
<1>9. Channels(d)' = Channels(d) + (leaked'[d] - leaked[d]) + (pp - p) + (qq - q)
  BY <1>5
<1>. HIDE DEF p, pp, q, qq
<1>10. ASSUME Gives(u) PROVE Channels(d)' <= Channels(d)
  <2>1. leaked' = leaked
    BY <1>10 DEF Gives
  <2>2. pub'[u] \in {Nil, pub[u]} /\ subc'[u] \in {Nil, Closed, subc[u]}
    BY <1>1, <1>10 DEF Gives
  <2>3. pp <= p /\ qq <= q
    BY <1>6, <1>7, <2>2 DEF p, pp, q, qq
  <2>. QED  BY <1>1, <1>5, <1>8, <1>9, <2>1, <2>3
<1>11. d # c => Channels(d)' <= Channels(d)
  BY <1>1, <1>5, <1>8, <1>9
<1>12. Channels(d)' <= Channels(d) + 1
  BY <1>1, <1>5, <1>8, <1>9
<1>. QED  BY <1>5, <1>10, <1>11, <1>12

\* The control of Channel after it has returned to call u.
Over(u) == \E to \in {"read", "none"} : pool' = [pool EXCEPT ![u] = to]

\* What the end of a call of Channel does to the pool.
LEMMA ChannelPool ==
    ASSUME NEW u \in Calls
    PROVE  /\ \A c : ChannelReturns(u, c) =>
                /\ Over(u) /\ (Gives(u) \/ Takes(u, c))
                /\ full' = IF Channels(c) + 1 = ChannelMax THEN full \cup {c} ELSE full
           /\ ChannelFails(u) => Over(u) /\ Gives(u) /\ full' = full
           /\ Leave(u) /\ pub' = pub /\ leaked' = leaked => Over(u) /\ Gives(u)
<1>1. Return(u) => Over(u) /\ pub' = [pub EXCEPT ![u] = Nil] /\ subc' = subc
  BY DEF Return, Over
<1>2. Leave(u) /\ pub' = pub /\ leaked' = leaked => Over(u) /\ Gives(u)
  BY DEF Leave, Goto, Over, Gives
<1>3. ASSUME NEW to, Goto(u, to) PROVE Over(u)
  BY <1>3 DEF Goto, Over
<1>4. ASSUME NEW c, ChannelReturns(u, c) PROVE Over(u) /\ (Gives(u) \/ Takes(u, c))
  <2>1. main[u] = "pub" /\ QueueDeclare(u, c) /\ leaked' = leaked => Over(u) /\ (Gives(u) \/ Takes(u, c))
    BY <1>1, <1>3 DEF QueueDeclare, Spawn, Gives, Takes
  <2>2. main[u] = "sub" /\ Consume(u, c) /\ leaked' = leaked => Over(u) /\ (Gives(u) \/ Takes(u, c))
    BY <1>2, <1>3 DEF Consume, Spawn, Takes
  <2>3. Return(u) /\ leaked' = [leaked EXCEPT ![c] = @ + 1] => Over(u) /\ Takes(u, c)
    BY <1>1 DEF Takes
  <2>. QED  BY <1>4, <2>1, <2>2, <2>3 DEF ChannelReturns
<1>5. ChannelFails(u) => Over(u) /\ Gives(u) /\ full' = full
  BY <1>1, <1>2 DEF ChannelFails, Gives, channels
<1>. QED  BY <1>2, <1>4, <1>5 DEF ChannelReturns

\* An assignment below a bound keeps a function below it.
LEMMA BoundedUpdate ==
    ASSUME NEW m \in Int, NEW n \in Int, m <= n, NEW f \in [Calls -> Int], \A x \in Calls : f[x] <= m,
           NEW u \in Calls, NEW v \in Int, v <= n, NEW g, g = f \/ g = [f EXCEPT ![u] = v]
    PROVE  g \in [Calls -> Int] /\ \A x \in Calls : g[x] <= n
<1>1. g \in [Calls -> Int]
  OBVIOUS
<1>2. ASSUME NEW x \in Calls PROVE g[x] <= n
  <2>1. f[x] \in Int /\ f[x] <= m /\ (g[x] = f[x] \/ g[x] = v)
    OBVIOUS
  <2>. QED  BY <2>1
<1>. QED  BY <1>1, <1>2

\* The channels that a call gives and takes are those of connections dialled.
LEMMA ChannelTypes ==
    ASSUME PoolTypes, NEW u \in Calls, dialled' \in dialled..MaxDials, NEW c \in 1..dialled',
           Gives(u) \/ Takes(u, c)
    PROVE  /\ pub' \in [Calls -> Int] /\ subc' \in [Calls -> Int]
           /\ \A x \in Calls : pub'[x] <= dialled' /\ subc'[x] <= dialled'
           /\ leaked' \in [1..MaxDials -> Nat]
           /\ \A d \in 1..MaxDials : d > dialled' => leaked'[d] = 0
<1>1. /\ dialled \in Nat /\ MaxDials \in Nat /\ dialled' \in Nat /\ c \in 1..MaxDials
      /\ c \in Int /\ c <= dialled' /\ dialled <= dialled'
  BY RabbitMQAssumption DEF PoolTypes
<1>2. /\ pub \in [Calls -> Int] /\ \A x \in Calls : pub[x] <= dialled
      /\ subc \in [Calls -> Int] /\ \A x \in Calls : subc[x] <= dialled
      /\ leaked \in [1..MaxDials -> Nat] /\ \A d \in 1..MaxDials : d > dialled => leaked[d] = 0
  BY DEF PoolTypes
<1>3. Nil \in Int /\ Closed \in Int /\ Nil <= dialled' /\ Closed <= dialled'
  BY <1>1 DEF Nil, Closed
<1>4. pub' \in [Calls -> Int] /\ \A x \in Calls : pub'[x] <= dialled'
  <2>1. pub' = pub \/ pub' = [pub EXCEPT ![u] = Nil] \/ pub' = [pub EXCEPT ![u] = c]
    BY DEF Gives, Takes
  <2>2. PICK v \in {Nil, c} : pub' = pub \/ pub' = [pub EXCEPT ![u] = v]
    BY <2>1
  <2>3. dialled \in Int /\ dialled' \in Int /\ v \in Int /\ v <= dialled' /\ dialled <= dialled'
    BY <1>1, <1>3
  <2>4. pub \in [Calls -> Int] /\ \A x \in Calls : pub[x] <= dialled
    BY <1>2
  <2>. QED  BY <2>2, <2>3, <2>4, BoundedUpdate
<1>5. subc' \in [Calls -> Int] /\ \A x \in Calls : subc'[x] <= dialled'
  <2>1. \/ subc' = subc \/ subc' = [subc EXCEPT ![u] = Nil]
        \/ subc' = [subc EXCEPT ![u] = Closed] \/ subc' = [subc EXCEPT ![u] = c]
    BY <1>2 DEF Gives, Takes
  <2>2. PICK v \in {Nil, Closed, c} : subc' = subc \/ subc' = [subc EXCEPT ![u] = v]
    BY <2>1
  <2>3. dialled \in Int /\ dialled' \in Int /\ v \in Int /\ v <= dialled' /\ dialled <= dialled'
    BY <1>1, <1>3
  <2>4. subc \in [Calls -> Int] /\ \A x \in Calls : subc[x] <= dialled
    BY <1>2
  <2>. QED  BY <2>2, <2>3, <2>4, BoundedUpdate
<1>6. leaked' \in [1..MaxDials -> Nat] /\ \A d \in 1..MaxDials : d > dialled' => leaked'[d] = 0
  <2>1. leaked' = leaked \/ leaked' = [leaked EXCEPT ![c] = @ + 1]
    BY DEF Gives, Takes
  <2>. QED  BY <1>1, <1>2, <2>1
<1>. QED  BY <1>4, <1>5, <1>6

\* A step that dials nothing keeps the pool right, when it lets no connection
\* become full unnoticed, and no call dial that has not seen all of them full.
LEMMA PoolKept ==
    ASSUME PoolInv, dialled' = dialled, open' \subseteq open, open' \subseteq Range(conns'),
           full \subseteq full', PoolTypes',
           \A d \in open' : Channels(d)' >= ChannelMax => d \in full',
           \A v \in Calls : pool'[v] = "dial" =>
                lock' = v /\ (pool[v] = "dial" \/ open' \subseteq full')
    PROVE  PoolInv'
<1>1. /\ open \subseteq 1..dialled /\ \A c \in open : c < dialled => c \in full
      /\ \A u \in Calls : pool[u] = "dial" => open \subseteq full
  BY DEF PoolInv
<1>2. open' \subseteq 1..dialled' /\ \A c \in open' : c < dialled' => c \in full'
  BY <1>1
<1>3. \A v \in Calls : pool'[v] = "dial" => lock' = v /\ open' \subseteq full'
  BY <1>1
<1>. QED  BY <1>2, <1>3 DEF PoolInv

\* Where a step leaves the channels, their numbers stay as they are.
LEMMA ChannelsStay ==
    ASSUME PoolTypes, pub' = pub, subc' = subc, leaked' = leaked, NEW d
    PROVE  Channels(d)' = Channels(d)
BY DEF Channels

\* A call uses a connection of the list that has room.
LEMMA PoolUsed ==
    ASSUME PoolInv, NEW u \in Calls, NEW c, HasRoom(c), ChannelReturns(u, c),
           UNCHANGED poolVars, view' \in [Calls -> Seq(Nat)]
    PROVE  PoolInv'
<1>0. UNCHANGED <<conns, open, dialled, lock>>
  BY DEF poolVars
<1>1. /\ PoolTypes /\ dialled \in 0..MaxDials /\ open \subseteq 1..dialled /\ MaxDials \in Nat
      /\ ChannelMax \in Nat
  BY RabbitMQAssumption DEF PoolInv, PoolTypes
<1>2. c \in 1..dialled /\ c \in 1..MaxDials /\ Channels(c) < ChannelMax
  BY <1>1 DEF HasRoom
<1>3. /\ Over(u) /\ (Gives(u) \/ Takes(u, c))
      /\ full' = IF Channels(c) + 1 = ChannelMax THEN full \cup {c} ELSE full
  BY ChannelPool
<1>4. PoolTypes'
  <2>1. dialled' \in dialled..MaxDials /\ c \in 1..dialled'
    BY <1>0, <1>1, <1>2
  <2>2. /\ pub' \in [Calls -> Int] /\ subc' \in [Calls -> Int]
        /\ \A x \in Calls : pub'[x] <= dialled' /\ subc'[x] <= dialled'
        /\ leaked' \in [1..MaxDials -> Nat]
        /\ \A d \in 1..MaxDials : d > dialled' => leaked'[d] = 0
    BY <1>1, <1>3, <2>1, ChannelTypes
  <2>3. pool' = [x \in Calls |-> pool'[x]]
    BY <1>1, <1>3 DEF PoolTypes, Over
  <2>4. dialled' \in 0..MaxDials /\ conns' \in Seq(Nat)
    BY <1>0, <1>1 DEF PoolTypes
  <2>. QED  BY <2>2, <2>3, <2>4 DEF PoolTypes
<1>5. ASSUME NEW d \in open', Channels(d)' >= ChannelMax PROVE d \in full'
  <2>1. d \in open /\ d \in 1..MaxDials
    BY <1>0, <1>1
  <2>2. /\ Channels(d) \in Nat /\ Channels(d)' \in Nat
        /\ d # c => Channels(d)' <= Channels(d)
        /\ Channels(d)' <= Channels(d) + 1
    BY <1>1, <1>2, <1>3, <2>1, ChannelsTaken
  <2>3. CASE d # c
    <3>1. Channels(d) >= ChannelMax
      BY <1>1, <1>5, <2>2, <2>3
    <3>. QED  BY <1>3, <2>1, <3>1 DEF PoolInv
  <2>4. CASE d = c
    <3>1. Channels(c) + 1 = ChannelMax
      BY <1>1, <1>2, <1>5, <2>2, <2>4
    <3>. QED  BY <1>3, <2>4, <3>1
  <2>. QED  BY <2>3, <2>4
<1>6. ASSUME NEW v \in Calls, pool'[v] = "dial" PROVE lock' = v /\ pool[v] = "dial"
  <2>1. pool[v] = "dial"
    BY <1>1, <1>3, <1>6 DEF PoolTypes, Over
  <2>. QED  BY <1>0, <2>1 DEF PoolInv
<1>7. open' \subseteq open /\ open' \subseteq Range(conns') /\ full \subseteq full'
  BY <1>0, <1>3 DEF PoolInv
<1>. QED  BY <1>0, <1>4, <1>5, <1>6, <1>7, PoolKept

\* A call gives a channel back, or only its control moves.
LEMMA PoolGiven ==
    ASSUME PoolInv, NEW u \in Calls, Gives(u), UNCHANGED <<conns, open, dialled, full>>,
           view' \in [Calls -> Seq(Nat)], pool' = [x \in Calls |-> pool'[x]],
           \A v \in Calls : pool'[v] = "dial" =>
                lock' = v /\ (pool[v] = "dial" \/ open' \subseteq full')
    PROVE  PoolInv'
<1>1. PoolTypes /\ dialled \in 0..MaxDials /\ open \subseteq 1..dialled /\ MaxDials \in Nat /\ ChannelMax \in Nat
  BY RabbitMQAssumption DEF PoolInv, PoolTypes
<1>2. PoolTypes'
  <2>1. CASE dialled = 0
    <3>1. /\ pub' = pub \/ pub' = [pub EXCEPT ![u] = Nil]
          /\ \/ subc' = subc \/ subc' = [subc EXCEPT ![u] = Nil]
             \/ subc' = [subc EXCEPT ![u] = Closed]
          /\ leaked' = leaked
      BY <1>1 DEF Gives, PoolTypes
    <3>2. pub \in [Calls -> Int] /\ subc \in [Calls -> Int] /\ \A x \in Calls : pub[x] <= 0 /\ subc[x] <= 0
      BY <1>1, <2>1 DEF PoolTypes
    <3>3. Nil \in Int /\ Nil <= 0 /\ Closed \in Int /\ Closed <= 0 /\ 0 \in Int /\ 0 <= 0
      BY DEF Nil, Closed
    <3>4. pub' \in [Calls -> Int] /\ \A x \in Calls : pub'[x] <= 0
      BY <3>1, <3>2, <3>3, BoundedUpdate
    <3>5. PICK v \in {Nil, Closed} : subc' = subc \/ subc' = [subc EXCEPT ![u] = v]
      BY <3>1
    <3>6. v \in Int /\ v <= 0
      BY <3>3
    <3>7. subc' \in [Calls -> Int] /\ \A x \in Calls : subc'[x] <= 0
      BY <3>2, <3>3, <3>5, <3>6, BoundedUpdate
    <3>. QED  BY <1>1, <2>1, <3>1, <3>4, <3>7 DEF PoolTypes
  <2>2. CASE dialled # 0
    <3>1. dialled' \in dialled..MaxDials /\ dialled \in 1..dialled'
      BY <1>1, <2>2
    <3>2. /\ pub' \in [Calls -> Int] /\ subc' \in [Calls -> Int]
          /\ \A x \in Calls : pub'[x] <= dialled' /\ subc'[x] <= dialled'
          /\ leaked' \in [1..MaxDials -> Nat]
          /\ \A d \in 1..MaxDials : d > dialled' => leaked'[d] = 0
      BY <1>1, <3>1, ChannelTypes
    <3>. QED  BY <1>1, <3>2 DEF PoolTypes
  <2>. QED  BY <2>1, <2>2
<1>3. ASSUME NEW d \in open', Channels(d)' >= ChannelMax PROVE d \in full'
  <2>1. d \in open /\ d \in 1..MaxDials
    BY <1>1
  <2>2. Channels(d) \in Nat /\ Channels(d)' \in Nat /\ Channels(d)' <= Channels(d)
    BY <1>1, <2>1, ChannelsTaken
  <2>3. Channels(d) >= ChannelMax
    BY <1>1, <1>3, <2>2
  <2>. QED  BY <2>1, <2>3 DEF PoolInv
<1>4. open' \subseteq open /\ open' \subseteq Range(conns') /\ full \subseteq full'
  BY DEF PoolInv
<1>. QED  BY <1>2, <1>3, <1>4, PoolKept

\* The loop of Channel without the lock: a connection that has room, seen through
\* a torn slice, is one of the pool.
LEMMA TryViewUses ==
    ASSUME PoolTypes, NEW u \in Calls, TryView(u)
    PROVE  /\ UNCHANGED poolVars /\ view' \in [Calls -> Seq(Nat)]
           /\ \/ \E c : HasRoom(c) /\ ChannelReturns(u, c)
              \/ pool' = pool /\ UNCHANGED <<pub, subc, channels>>
              \/ pool' = [pool EXCEPT ![u] = "lock"] /\ UNCHANGED <<pub, subc, channels>>
<1>1. UNCHANGED poolVars /\ view' = [view EXCEPT ![u] = <<>>]
  BY DEF TryView
<1>2. view' \in [Calls -> Seq(Nat)]
  BY <1>1 DEF PoolTypes
<1>3. view[u] \in Seq(Nat) /\ conns \in Seq(Nat)
  BY DEF PoolTypes
<1>4. ASSUME NEW array \in {view[u], conns}, NEW length \in {view[u], conns},
             NEW whole, whole = IF Len(array) >= Len(length) THEN array ELSE length,
             NEW i, i = FirstOpen(SubSeq(whole, 1, Len(length))), i > 0
      PROVE  HasRoom(whole[i])
  <2>1. whole \in Seq(Nat) /\ Len(length) \in Nat /\ Len(whole) \in Nat /\ Len(length) <= Len(whole)
    <3>1. array \in Seq(Nat) /\ length \in Seq(Nat) /\ Len(array) \in Nat /\ Len(length) \in Nat
      BY <1>3
    <3>. QED  BY <1>4, <3>1
  <2>. DEFINE s == SubSeq(whole, 1, Len(length))
  <2>2. s \in Seq(Nat) /\ Len(s) = Len(length) /\ \A j \in 1..Len(length) : s[j] = whole[j]
    BY <2>1
  <2>. HIDE DEF s
  <2>3. FirstOpen(s) \in 0..Len(s) /\ (FirstOpen(s) > 0 => HasRoom(s[FirstOpen(s)]))
    BY <2>2, FirstOpenFinds
  <2>4. i = FirstOpen(s)
    BY <1>4 DEF s
  <2>5. i \in 1..Len(length)
    BY <1>4, <2>1, <2>2, <2>3, <2>4
  <2>6. s[i] = whole[i]
    BY <2>2, <2>5
  <2>7. HasRoom(s[i])
    BY <1>4, <2>3, <2>4
  <2>. QED  BY <2>6, <2>7
<1>5. PICK array \in {view[u], conns}, length \in {view[u], conns} :
         LET n     == Len(length)
             whole == IF Len(array) >= n THEN array ELSE length
             i     == FirstOpen(SubSeq(whole, 1, n))
         IN  \/ pool' = pool /\ UNCHANGED <<pub, subc, channels>>
             \/ i > 0 /\ ChannelReturns(u, whole[i])
             \/ pool' = [pool EXCEPT ![u] = "lock"] /\ UNCHANGED <<pub, subc, channels>>
  BY DEF TryView
<1>. DEFINE whole == IF Len(array) >= Len(length) THEN array ELSE length
            i     == FirstOpen(SubSeq(whole, 1, Len(length)))
<1>6. i > 0 => HasRoom(whole[i])
  BY <1>4
<1>7. \/ pool' = pool /\ UNCHANGED <<pub, subc, channels>>
      \/ i > 0 /\ ChannelReturns(u, whole[i])
      \/ pool' = [pool EXCEPT ![u] = "lock"] /\ UNCHANGED <<pub, subc, channels>>
  BY <1>5
<1>. HIDE DEF i, whole
<1>. QED  BY <1>1, <1>2, <1>6, <1>7

\* The loop under the lock: a connection that has room is used, and without one
\* all that are open have been full when the call goes on to dial.
LEMMA LockPoolKeeps ==
    ASSUME PoolInv, NEW u \in Calls, LockPool(u)
    PROVE  PoolInv'
<1>0. /\ PoolTypes /\ conns \in Seq(Nat) /\ view \in [Calls -> Seq(Nat)]
      /\ dialled \in Nat /\ open \subseteq 1..MaxDials /\ ChannelMax \in Nat
  BY RabbitMQAssumption DEF PoolInv, PoolTypes
<1>1. UNCHANGED <<view, conns, open, dialled>> /\ lock = Nil
  BY DEF LockPool
<1>2. CASE FirstOpen(conns) > 0 /\ ChannelReturns(u, conns[FirstOpen(conns)]) /\ UNCHANGED lock
  <2>1. HasRoom(conns[FirstOpen(conns)])
    BY <1>0, <1>2, FirstOpenFinds
  <2>2. UNCHANGED poolVars /\ view' \in [Calls -> Seq(Nat)]
    BY <1>0, <1>1, <1>2 DEF poolVars
  <2>. QED  BY <1>2, <2>1, <2>2, PoolUsed
<1>3. CASE /\ FirstOpen(conns) = 0 /\ lock' = u /\ pool' = [pool EXCEPT ![u] = "dial"]
           /\ UNCHANGED <<pub, subc, channels>>
  <2>1. \A j \in 1..Len(conns) : ~HasRoom(conns[j])
    BY <1>0, <1>3, FirstOpenFinds
  <2>2. ASSUME NEW c \in open PROVE c \in full
    <3>1. PICK j \in 1..Len(conns) : c = conns[j]
      <4>1. c \in Range(conns) /\ DOMAIN conns = 1..Len(conns)
        BY <1>0 DEF PoolInv
      <4>. QED  BY <4>1 DEF Range
    <3>2. ~(Channels(c) < ChannelMax)
      BY <2>1, <3>1 DEF HasRoom
    <3>3. Channels(c) \in Nat
      <4>1. c \in 1..MaxDials /\ leaked[c] \in Nat
        BY <1>0 DEF PoolTypes
      <4>2. Pubs(c) \in SUBSET Calls /\ Subs(c) \in SUBSET Calls
        BY DEF Pubs, Subs
      <4>3. Cardinality(Pubs(c)) \in Nat /\ Cardinality(Subs(c)) \in Nat
        BY <4>2, SetMoves
      <4>. QED  BY <4>1, <4>3 DEF Channels, Pubs, Subs
    <3>4. Channels(c) >= ChannelMax
      BY <1>0, <3>2, <3>3
    <3>. QED  BY <3>4 DEF PoolInv
  <2>3. ASSUME NEW v \in Calls, pool'[v] = "dial" PROVE v = u
    <3>1. v # u => pool[v] = "dial"
      BY <1>0, <1>3, <2>3 DEF PoolTypes
    <3>2. pool[v] = "dial" => lock = v
      BY DEF PoolInv
    <3>. QED  BY <1>1, <3>1, <3>2, RabbitMQAssumption
  <2>4. Gives(u) /\ full' = full
    BY <1>3 DEF Gives, channels
  <2>5. pool' = [x \in Calls |-> pool'[x]]
    BY <1>0, <1>3 DEF PoolTypes
  <2>6. \A v \in Calls : pool'[v] = "dial" => lock' = v /\ open' \subseteq full'
    BY <1>1, <1>3, <2>2, <2>3, <2>4
  <2>. QED  BY <1>0, <1>1, <2>4, <2>5, <2>6, PoolGiven
<1>. QED  BY <1>2, <1>3 DEF LockPool

\* A dialled connection is a new one, without channels.
LEMMA DialConnKeeps ==
    ASSUME PoolInv, NEW u \in Calls, DialConn(u)
    PROVE  PoolInv'
<1>0. PICK c \in Nat : c = dialled + 1
  BY DEF PoolInv, PoolTypes
<1>1. /\ PoolTypes /\ dialled \in 0..MaxDials /\ MaxDials \in Nat /\ ChannelMax \in Nat /\ ChannelMax > 0
      /\ conns \in Seq(Nat) /\ open \subseteq 1..dialled /\ open \subseteq Range(conns)
  BY RabbitMQAssumption DEF PoolInv, PoolTypes
<1>2. /\ pool[u] = "dial" /\ dialled < MaxDials /\ dialled' = c /\ open' = open \cup {c}
      /\ conns' = Append(conns, c) /\ view' = view /\ ChannelReturns(u, c)
  BY <1>0 DEF DialConn
<1>3. /\ Over(u) /\ (Gives(u) \/ Takes(u, c))
      /\ full' = IF Channels(c) + 1 = ChannelMax THEN full \cup {c} ELSE full
  BY <1>2, ChannelPool
<1>4. c \in Nat /\ c \in 1..MaxDials /\ dialled' \in dialled..MaxDials /\ c \in 1..dialled'
  BY <1>0, <1>1, <1>2
<1>5. Channels(c) = 0
  <2>1. leaked[c] = 0 /\ \A x \in Calls : pub[x] # c /\ subc[x] # c
    <3>1. c > dialled /\ dialled \in Int
      BY <1>0, <1>1
    <3>2. ASSUME NEW x \in Calls PROVE pub[x] # c /\ subc[x] # c
      <4>1. pub[x] \in Int /\ subc[x] \in Int /\ pub[x] <= dialled /\ subc[x] <= dialled
        BY <1>1 DEF PoolTypes
      <4>. QED  BY <3>1, <4>1
    <3>. QED  BY <1>1, <1>4, <3>1, <3>2 DEF PoolTypes
  <2>2. Pubs(c) = {} /\ Subs(c) = {}
    BY <2>1 DEF Pubs, Subs
  <2>3. Channels(c) = leaked[c] + Cardinality(Pubs(c)) + Cardinality(Subs(c))
    BY DEF Channels, Pubs, Subs
  <2>. QED  BY <2>1, <2>2, <2>3, FS_EmptySet
<1>6. open \subseteq full /\ full \subseteq full' /\ lock = u
  BY <1>2, <1>3 DEF PoolInv
<1>7. PoolTypes'
  <2>1. /\ pub' \in [Calls -> Int] /\ subc' \in [Calls -> Int]
        /\ \A x \in Calls : pub'[x] <= dialled' /\ subc'[x] <= dialled'
        /\ leaked' \in [1..MaxDials -> Nat]
        /\ \A d \in 1..MaxDials : d > dialled' => leaked'[d] = 0
    BY <1>1, <1>3, <1>4, ChannelTypes
  <2>2. pool' = [x \in Calls |-> pool'[x]]
    BY <1>1, <1>3 DEF PoolTypes, Over
  <2>3. dialled' \in 0..MaxDials /\ conns' \in Seq(Nat) /\ view' \in [Calls -> Seq(Nat)]
    BY <1>1, <1>2, <1>4 DEF PoolTypes
  <2>. QED  BY <2>1, <2>2, <2>3 DEF PoolTypes
<1>8. open' \subseteq 1..dialled' /\ \A d \in open' : d < dialled' => d \in full'
  <2>1. \A d \in open : d \in 1..dialled'
    BY <1>0, <1>1, <1>2
  <2>. QED  BY <1>1, <1>2, <1>4, <1>6, <2>1
<1>9. open' \subseteq Range(conns')
  <2>1. conns' \in Seq(Nat) /\ Len(conns') = Len(conns) + 1 /\ Len(conns) \in Nat
    BY <1>1, <1>2, <1>4
  <2>2. conns'[Len(conns) + 1] = c /\ \A j \in 1..Len(conns) : conns'[j] = conns[j]
    BY <1>1, <1>2, <1>4
  <2>3. DOMAIN conns' = 1..(Len(conns) + 1) /\ DOMAIN conns = 1..Len(conns)
    BY <1>1, <2>1
  <2>4. c \in Range(conns')
    <3>1. Len(conns) + 1 \in DOMAIN conns'
      BY <2>1, <2>3
    <3>. QED  BY <2>2, <3>1 DEF Range
  <2>5. ASSUME NEW d \in Range(conns) PROVE d \in Range(conns')
    <3>1. PICK j \in 1..Len(conns) : d = conns[j]
      BY <2>3 DEF Range
    <3>2. j \in DOMAIN conns' /\ d = conns'[j]
      BY <2>1, <2>2, <2>3, <3>1
    <3>. QED  BY <3>2 DEF Range
  <2>. QED  BY <1>1, <1>2, <2>4, <2>5
<1>10. ASSUME NEW d \in open', Channels(d)' >= ChannelMax PROVE d \in full'
  <2>1. CASE d \in open
    BY <1>6, <2>1
  <2>2. CASE d = c
    <3>1. Channels(c)' \in Nat /\ Channels(c)' <= Channels(c) + 1
      BY <1>1, <1>3, <1>4, ChannelsTaken
    <3>2. Channels(c) + 1 = ChannelMax
      BY <1>1, <1>5, <1>10, <2>2, <3>1
    <3>. QED  BY <1>3, <2>2, <3>2
  <2>. QED  BY <1>2, <2>1, <2>2
<1>11. ASSUME NEW v \in Calls, pool'[v] = "dial" PROVE FALSE
  <2>1. v # u /\ pool[v] = "dial"
    BY <1>1, <1>3, <1>11 DEF PoolTypes, Over
  <2>. QED  BY <1>6, <2>1 DEF PoolInv
<1>. QED  BY <1>7, <1>8, <1>9, <1>10, <1>11 DEF PoolInv

\* A step of rabbitmq:massive_queue keeps the pool right.
LEMMA PoolHolds ==
    ASSUME PoolInv, Next
    PROVE  PoolInv'
<1>0. /\ PoolTypes /\ view \in [Calls -> Seq(Nat)] /\ conns \in Seq(Nat)
      /\ pool = [x \in Calls |-> pool[x]]
  BY DEF PoolInv, PoolTypes
<1>1. ASSUME NEW u \in Calls, Gives(u), UNCHANGED <<conns, open, dialled, full, lock>>,
             view' \in [Calls -> Seq(Nat)],
             NEW to, to # "dial", pool' = pool \/ pool' = [pool EXCEPT ![u] = to]
      PROVE  PoolInv'
  <2>1. pool' = [x \in Calls |-> pool'[x]]
    BY <1>0, <1>1
  <2>2. \A v \in Calls : pool'[v] = "dial" => pool[v] = "dial"
    BY <1>0, <1>1
  <2>3. \A v \in Calls : pool'[v] = "dial" => lock' = v /\ pool[v] = "dial"
    BY <1>1, <2>2 DEF PoolInv
  <2>. QED  BY <1>1, <2>1, <2>3, PoolGiven
<1>2. ASSUME NEW u \in Calls, Over(u), Gives(u), UNCHANGED <<conns, open, dialled, full, lock, view>>
      PROVE  PoolInv'
  <2>1. PICK to \in {"read", "none"} : pool' = [pool EXCEPT ![u] = to]
    BY <1>2 DEF Over
  <2>. QED  BY <1>0, <1>1, <1>2, <2>1
<1>3. ASSUME NEW u \in Calls, PoolStep(u) PROVE PoolInv'
  <2>1. CASE LoadSlice(u)
    <3>1. /\ Gives(u) /\ UNCHANGED <<conns, open, dialled, full, lock>>
          /\ pool' = [pool EXCEPT ![u] = "try"] /\ view' = [view EXCEPT ![u] = conns]
      BY <2>1 DEF LoadSlice, Gives, poolVars, channels
    <3>2. view' \in [Calls -> Seq(Nat)] /\ "try" # "dial"
      BY <1>0, <3>1
    <3>. QED  BY <1>1, <3>1, <3>2
  <2>2. CASE TryView(u)
    <3>1. UNCHANGED poolVars /\ view' \in [Calls -> Seq(Nat)]
      BY <1>0, <2>2, TryViewUses
    <3>2. CASE \E c : HasRoom(c) /\ ChannelReturns(u, c)
      BY <3>1, <3>2, PoolUsed
    <3>3. CASE /\ pool' = pool \/ pool' = [pool EXCEPT ![u] = "lock"]
               /\ UNCHANGED <<pub, subc, channels>>
      <4>1. Gives(u) /\ UNCHANGED <<conns, open, dialled, full, lock>> /\ "lock" # "dial"
        BY <3>1, <3>3 DEF Gives, poolVars, channels
      <4>. QED  BY <1>1, <3>1, <3>3, <4>1
    <3>. QED  BY <1>0, <2>2, <3>2, <3>3, TryViewUses
  <2>3. CASE LockPool(u)
    BY <2>3, LockPoolKeeps
  <2>4. CASE DialConn(u)
    BY <2>4, DialConnKeeps
  <2>5. CASE DialFails(u)
    <3>1. /\ Over(u) /\ Gives(u) /\ UNCHANGED <<conns, open, dialled, full, view>> /\ pool[u] = "dial"
      BY <2>5, ChannelPool DEF DialFails
    <3>2. pool' = [x \in Calls |-> pool'[x]]
      BY <1>0, <3>1 DEF Over
    <3>3. ASSUME NEW v \in Calls, pool'[v] = "dial" PROVE FALSE
      <4>1. v # u /\ pool[v] = "dial"
        BY <1>0, <3>1, <3>3 DEF Over
      <4>. QED  BY <3>1, <4>1 DEF PoolInv
    <3>. QED  BY <1>0, <3>1, <3>2, <3>3, PoolGiven
  <2>. QED  BY <1>3, <2>1, <2>2, <2>3, <2>4, <2>5 DEF PoolStep
<1>4. ASSUME NEW u \in Calls, Begin(u) \/ Publish(u) \/ StartWaiting(u) \/ SubStep(u) PROVE PoolInv'
  <2>1. Gives(u) /\ UNCHANGED <<conns, open, dialled, full, lock, view>>
    BY <1>4 DEF Begin, Publish, StartWaiting, SubStep, SubLoop, Receive, ReceiveFails, Ack, SubGoto,
                Gives, poolVars, channels, chanVars
  <2>2. pool' = pool \/ Over(u)
    BY <1>4 DEF Begin, Publish, StartWaiting, SubStep, SubLoop, Receive, ReceiveFails, Ack, SubGoto,
                Goto, Over, chanVars
  <2>3. CASE pool' = pool
    <3>1. "none" # "dial" /\ view' \in [Calls -> Seq(Nat)]
      BY <1>0, <2>1
    <3>2. pool' = pool \/ pool' = [pool EXCEPT ![u] = "none"]
      BY <2>3
    <3>. QED  BY <1>1, <2>1, <3>1, <3>2
  <2>4. CASE Over(u)
    BY <1>2, <2>1, <2>4
  <2>. QED  BY <2>2, <2>3, <2>4
<1>5. ASSUME NEW u \in Calls, PublishFails(u) \/ OnExit(u) PROVE PoolInv'
  <2>1. /\ Leave(u) /\ pub' = pub /\ leaked' = leaked
        /\ UNCHANGED <<conns, open, dialled, full, lock, view>>
    BY <1>5 DEF PublishFails, OnExit, poolVars, channels
  <2>. QED  BY <1>2, <2>1, ChannelPool
<1>6. ASSUME UNCHANGED <<pool, view, pub, subc, leaked, full, dialled, lock>>,
             open' \subseteq open, open' \subseteq Range(conns'), conns' \in Seq(Nat)
      PROVE  PoolInv'
  <2>1. PoolTypes'
    BY <1>0, <1>6 DEF PoolTypes
  <2>2. \A d \in open' : Channels(d)' >= ChannelMax => d \in full'
    BY <1>0, <1>6, ChannelsStay DEF PoolInv
  <2>3. \A v \in Calls : pool'[v] = "dial" => lock' = v /\ pool[v] = "dial"
    BY <1>6 DEF PoolInv
  <2>. QED  BY <1>6, <2>1, <2>2, <2>3, PoolKept
<1>7. CASE PoolClose \/ NegativeSize
  <2>1. /\ UNCHANGED <<pool, view, pub, subc, leaked, full, dialled, lock>>
        /\ open' = open \ Range(conns) /\ conns' = <<>>
    BY <1>7 DEF PoolClose, NegativeSize, Close, SetupGoto, chanVars, channels
  <2>2. open' = {}
    BY <2>1 DEF PoolInv
  <2>3. conns' \in Seq(Nat)
    BY <2>1
  <2>. QED  BY <1>6, <2>1, <2>2, <2>3
<1>8. CASE SetLimit
  <2>1. UNCHANGED <<pool, view, pub, subc, leaked, full, dialled, lock, open, conns>>
    BY <1>8 DEF SetLimit, SetupGoto, chanVars, channels, poolVars
  <2>2. open' \subseteq Range(conns') /\ conns' \in Seq(Nat)
    BY <1>0, <2>1 DEF PoolInv
  <2>. QED  BY <1>6, <2>1, <2>2
<1>9. ASSUME NEW c \in 1..MaxDials, Breaks(c) PROVE PoolInv'
  <2>1. /\ UNCHANGED <<pool, view, pub, subc, leaked, full, dialled, lock, conns>>
        /\ open' = open \ {c}
    BY <1>9 DEF Breaks, chanVars, channels
  <2>2. open' \subseteq Range(conns') /\ conns' \in Seq(Nat)
    BY <1>0, <2>1 DEF PoolInv
  <2>. QED  BY <1>6, <2>1, <2>2
<1>. QED  BY <1>3, <1>4, <1>5, <1>7, <1>8, <1>9 DEF Next, MainStep

\* The pool grows for want of channels only, and Close finds every connection
\* that is open: for any number of calls, channels and connections, although the
\* list is read without the lock while it grows.
THEOREM PoolRight == MCSpec => []GrowsWhenFull
<1>1. MCInit => PoolInv
  <2>. SUFFICES ASSUME MCInit PROVE PoolInv
    OBVIOUS
  <2>1. PoolRests
    BY DEF MCInit, Init, PoolRests
  <2>2. PoolTypes
    BY <2>1, RabbitMQAssumption DEF PoolRests, PoolTypes, Nil
  <2>. QED  BY <2>1, <2>2 DEF PoolRests, PoolInv
<1>2. PoolInv /\ [MCNext]_mcVars => PoolInv'
  <2>. SUFFICES ASSUME PoolInv, [MCNext]_mcVars PROVE PoolInv'
    OBVIOUS
  <2>1. CASE Next
    BY <2>1, PoolHolds
  <2>2. CASE UNCHANGED mcVars \/ OfPulsar \/ OfHttp \/ OfKafka
    <3>1. UNCHANGED <<pool, view, pub, subc, conns, open, dialled, lock, leaked, full>>
      BY <2>2 DEF mcVars, vars, OfPulsar, OfHttp, OfKafka, Of, chanVars, poolVars, channels
    <3>2. PoolTypes' /\ \A d : Channels(d)' = Channels(d)
      BY <3>1 DEF PoolInv, PoolTypes, Channels
    <3>. QED  BY <3>1, <3>2 DEF PoolInv
  <2>. QED  BY <2>1, <2>2 DEF MCNext
<1>3. PoolInv => GrowsWhenFull
  <2>. SUFFICES ASSUME PoolInv, NEW c \in open, NEW d \in (c + 1)..dialled PROVE c \in full
    BY DEF PoolInv, GrowsWhenFull
  <2>1. c \in Int /\ dialled \in Int /\ d \in Int
    BY RabbitMQAssumption DEF PoolInv, PoolTypes
  <2>2. c < dialled
    BY <2>1
  <2>. QED  BY <2>2 DEF PoolInv
<1>. QED  BY <1>1, <1>2, <1>3, PTL DEF MCSpec
=============================================================================
