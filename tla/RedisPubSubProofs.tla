------------------------- MODULE RedisPubSubProofs -------------------------
(***************************************************************************)
(* The subscriber of redis:pubsub never blocks on its channel, and the     *)
(* gauges are exact: for any users, any number of messages, and whatever   *)
(* Redis answers, breaks, or leaves unanswered.                            *)
(***************************************************************************)
EXTENDS RedisPubSub, FiniteSetTheorems, TLAPS

\* Whether the subscriber of u holds a message it has still to hand over.
Holding(u) == IF sub[u] = "sending" THEN 1 ELSE 0

\* Every message of its own that a user has taken, has in recvChan, or has on
\* the way, it has published.
OwnMessages(u) == got[u] + chan[u] + Holding(u) + inbox[u][u] <= sent[u]

OwnInv == \A u \in Users : OwnMessages(u)

\* A message is counted late only by a subscriber that was in Receive when
\* exit was set, and that looks at exit next.
LateOf(u) ==
    /\ late[u] <= 1
    /\ late[u] = 1 => exit[u] /\ sub[u] # "receive"

LateInv == \A u \in Users : LateOf(u)

-----------------------------------------------------------------------------
\* Incrementing one entry of a bag of messages leaves a bag.
LEMMA BagInc ==
    ASSUME NEW b \in [Messages -> Nat], NEW m \in Messages
    PROVE  [b EXCEPT ![m] = @ + 1] \in [Messages -> Nat]
OBVIOUS

LEMMA BagDec ==
    ASSUME NEW b \in [Messages -> Nat], NEW m \in Messages, b[m] > 0
    PROVE  [b EXCEPT ![m] = @ - 1] \in [Messages -> Nat]
OBVIOUS

\* Publishing and disconnecting leave inboxes inboxes.
LEMMA InboxType ==
    ASSUME TypeOK
    PROVE  /\ \A m \in Messages : Published(m) \in [Users -> [Messages -> Nat]]
           /\ NoMessage \in [Messages -> Nat]
<1>1. ASSUME NEW m \in Messages, NEW u \in Users
      PROVE  [inbox[u] EXCEPT ![m] = @ + 1] \in [Messages -> Nat]
  BY BagInc DEF TypeOK
<1>. QED  BY <1>1 DEF Published, NoMessage, TypeOK

\* A counter of the session remains an integer.
LEMMA CounterType ==
    ASSUME TypeOK
    PROVE  /\ \A c \in Counters : Inc(c) \in [Counters -> Int]
           /\ \A d \in [Counters -> Int] : Released(d) \in [Counters -> Int]
           /\ \A m : Counted(m) \in [Counters -> Int]
<1>1. \A c \in Counters : Inc(c) \in [Counters -> Int]
  BY DEF Inc, TypeOK
<1>2. \A d \in [Counters -> Int] : Released(d) \in [Counters -> Int]
  BY DEF Released, Counters
<1>3. \A m : Counted(m) \in [Counters -> Int]
  <2>1. [cnt EXCEPT !["recv"] = @ + 1, !["error"] = @ + 1] \in [Counters -> Int]
    BY DEF TypeOK, Counters
  <2>2. Inc("recv") \in [Counters -> Int]
    BY <1>1 DEF Counters
  <2>3. cnt \in [Counters -> Int]
    BY DEF TypeOK
  <2>. QED  BY <2>1, <2>2, <2>3 DEF Counted
<1>. QED  BY <1>1, <1>2, <1>3

\* A count below its bound can be incremented, one above zero decremented.
LEMMA BoundedStep ==
    ASSUME NEW n \in Nat, NEW i \in 0..n
    PROVE  /\ i < n => i + 1 \in 0..n
           /\ i > 0 => i - 1 \in 0..n
OBVIOUS

-----------------------------------------------------------------------------
\* Type correctness.
THEOREM TypeCorrect == Spec => []TypeOK
<1>1. Init => TypeOK
  <2> SUFFICES ASSUME Init PROVE TypeOK
    OBVIOUS
  <2>1. inbox \in [Users -> [Messages -> Nat]]
    BY DEF Init, NoMessage
  <2>2. cnt \in [Counters -> Int]
    BY DEF Init
  <2>3. /\ sent \in [Users -> 0..Total] /\ chan \in [Users -> 0..Total]
        /\ got \in [Users -> 0..Total] /\ foreign \in 0..MaxForeign
    BY RedisAssumption DEF Init
  <2>. QED  BY <2>1, <2>2, <2>3 DEF Init, TypeOK, MainStates, SubStates
<1>2. TypeOK /\ [Next]_vars => TypeOK'
  <2> SUFFICES ASSUME TypeOK, [Next]_vars PROVE TypeOK'
    OBVIOUS
  <2> USE DEF mainVars, subVars, redisVars
  <2>0. Total \in Nat /\ MaxForeign \in Nat
    BY RedisAssumption
  <2>1. ASSUME NEW u \in Users, Begin(u) PROVE TypeOK'
    <3>1. cnt' \in [Counters -> Int]
      BY <2>1, CounterType DEF Begin, Counters
    <3>. QED  BY <2>1, <3>1 DEF Begin, TypeOK, MainStates, SubStates
  <2>2. ASSUME NEW u \in Users, BeginFails(u) PROVE TypeOK'
    <3>1. cnt' \in [Counters -> Int]
      BY <2>2, CounterType DEF BeginFails, Counters, TypeOK
    <3>2. main' \in [Users -> MainStates] /\ alive' \in BOOLEAN
      BY <2>2 DEF BeginFails, TypeOK, MainStates
    <3>. QED  BY <2>2, <3>1, <3>2 DEF BeginFails, TypeOK
  <2>3. ASSUME NEW u \in Users, StartPublishing(u) PROVE TypeOK'
    <3>1. cnt' \in [Counters -> Int]
      BY <2>3, CounterType DEF StartPublishing, Counters
    <3>. QED  BY <2>3, <3>1 DEF StartPublishing, TypeOK, MainStates
  <2>4. ASSUME NEW u \in Users, Publish(u) PROVE TypeOK'
    <3>1. cnt' \in [Counters -> Int]
      BY <2>4, CounterType DEF Publish, Counters
    <3>2. inbox' \in [Users -> [Messages -> Nat]]
      BY <2>4, InboxType DEF Publish, Messages
    <3>3. sent[u] + 1 \in 0..Total
      BY <2>0, <2>4, BoundedStep DEF Publish, TypeOK
    <3>4. sent' \in [Users -> 0..Total]
      BY <2>4, <3>3 DEF Publish, TypeOK
    <3>. QED  BY <2>4, <3>1, <3>2, <3>4 DEF Publish, TypeOK
  <2>5. ASSUME NEW u \in Users, PublishFails(u) PROVE TypeOK'
    <3>1. cnt' \in [Counters -> Int]
      BY <2>5, CounterType DEF PublishFails, Counters
    <3>2. inbox' \in [Users -> [Messages -> Nat]]
      <4>1. inbox' = inbox \/ inbox' = Published(u)
        BY <2>5 DEF PublishFails
      <4>2. u \in Messages
        BY DEF Messages
      <4>. QED  BY <4>1, <4>2, InboxType DEF TypeOK
    <3>3. sent[u] + 1 \in 0..Total
      BY <2>0, <2>5, BoundedStep DEF PublishFails, TypeOK
    <3>4. sent' \in [Users -> 0..Total]
      BY <2>5, <3>3 DEF PublishFails, TypeOK
    <3>. QED  BY <2>5, <3>1, <3>2, <3>4 DEF PublishFails, TypeOK, MainStates
  <2>17. ASSUME NEW u \in Users, PublishHangs(u) PROVE TypeOK'
    <3>1. inbox' \in [Users -> [Messages -> Nat]]
      <4>1. inbox' = inbox \/ inbox' = Published(u)
        BY <2>17 DEF PublishHangs
      <4>2. u \in Messages
        BY DEF Messages
      <4>. QED  BY <4>1, <4>2, InboxType DEF TypeOK
    <3>2. sent[u] + 1 \in 0..Total
      BY <2>0, <2>17, BoundedStep DEF PublishHangs, TypeOK
    <3>3. sent' \in [Users -> 0..Total]
      BY <2>17, <3>2 DEF PublishHangs, TypeOK
    <3>. QED  BY <2>17, <3>1, <3>3 DEF PublishHangs, TypeOK, MainStates
  <2>6. ASSUME NEW u \in Users, StartDraining(u) PROVE TypeOK'
    BY <2>6 DEF StartDraining, TypeOK, MainStates
  <2>7. ASSUME NEW u \in Users, TakeLatency(u) PROVE TypeOK'
    <3>1. cnt' \in [Counters -> Int]
      BY <2>7, CounterType DEF TakeLatency, Counters
    <3>2. chan[u] - 1 \in 0..Total /\ got[u] + 1 \in 0..Total
      BY <2>0, <2>7, BoundedStep DEF TakeLatency, TypeOK
    <3>3. chan' \in [Users -> 0..Total] /\ got' \in [Users -> 0..Total]
      BY <2>7, <3>2 DEF TakeLatency, TypeOK
    <3>. QED  BY <2>7, <3>1, <3>3 DEF TakeLatency, TypeOK
  <2>8. ASSUME NEW u \in Users, Succeed(u) \/ Timeout(u) PROVE TypeOK'
    <3>1. cnt' \in [Counters -> Int]
      BY <2>8, CounterType DEF Succeed, Timeout, Counters
    <3>. QED  BY <2>8, <3>1 DEF Succeed, Timeout, TypeOK, MainStates
  <2>9. ASSUME NEW u \in Users, SubscribeStep(u) PROVE TypeOK'
    <3> USE DEF SubscribeStep, Subscribe, SubscribeFails, SubscribeHangs
    <3>1. cnt' \in [Counters -> Int]
      BY <2>9, CounterType DEF Counters, TypeOK
    <3>. QED  BY <2>9, <3>1 DEF TypeOK, SubStates
  <2>10. ASSUME NEW u \in Users, LoopCheck(u) PROVE TypeOK'
    <3>1. inbox' \in [Users -> [Messages -> Nat]] /\ known' \subseteq Users
      BY <2>10, InboxType DEF LoopCheck, Disconnected, TypeOK
    <3>2. sub' \in [Users -> SubStates]
      BY <2>10 DEF LoopCheck, TypeOK, SubStates
    <3>. QED  BY <2>10, <3>1, <3>2 DEF LoopCheck, TypeOK
  <2>11. ASSUME NEW u \in Users, SendLatency(u) PROVE TypeOK'
    <3>1. chan[u] + 1 \in 0..Total
      BY <2>0, <2>11, BoundedStep DEF SendLatency, TypeOK
    <3>2. chan' \in [Users -> 0..Total]
      BY <2>11, <3>1 DEF SendLatency, TypeOK
    <3>. QED  BY <2>11, <3>2 DEF SendLatency, TypeOK, SubStates
  <2>12. ASSUME NEW u \in Users, ReceiveFails(u) PROVE TypeOK'
    <3>1. cnt' \in [Counters -> Int]
      BY <2>12, CounterType DEF ReceiveFails, Counters, TypeOK
    <3>2. inbox' \in [Users -> [Messages -> Nat]] /\ known' \subseteq Users
      BY <2>12, InboxType DEF ReceiveFails, Disconnected, TypeOK
    <3>. QED  BY <2>12, <3>1, <3>2 DEF ReceiveFails, TypeOK, SubStates
  <2>13. ASSUME NEW u \in Users, NEW m \in Messages, Receive(u, m) PROVE TypeOK'
    <3>1. cnt' \in [Counters -> Int]
      BY <2>13, CounterType DEF Receive
    <3>2. [inbox[u] EXCEPT ![m] = @ - 1] \in [Messages -> Nat]
      BY <2>13, BagDec DEF Receive, TypeOK
    <3>3. inbox' \in [Users -> [Messages -> Nat]]
      BY <2>13, <3>2 DEF Receive, TypeOK
    <3>4. sub' \in [Users -> SubStates] /\ late' \in [Users -> Nat]
      BY <2>13 DEF Receive, TypeOK, SubStates
    <3>. QED  BY <2>13, <3>1, <3>3, <3>4 DEF Receive, TypeOK
  <2>14. ASSUME NEW u \in Users, HandleSubscribe(u) PROVE TypeOK'
    <3>1. [inbox[u] EXCEPT ![Confirm] = @ + 1] \in [Messages -> Nat]
      BY BagInc DEF TypeOK, Messages
    <3>2. inbox' \in [Users -> [Messages -> Nat]]
      BY <2>14, <3>1 DEF HandleSubscribe, TypeOK
    <3>. QED  BY <2>14, <3>2 DEF HandleSubscribe, TypeOK
  <2>15. CASE PublishForeign
    <3>1. foreign' \in 0..MaxForeign
      BY <2>0, <2>15, BoundedStep DEF PublishForeign, TypeOK
    <3>2. inbox' \in [Users -> [Messages -> Nat]]
      BY <2>15, InboxType DEF PublishForeign, Messages
    <3>. QED  BY <2>15, <3>1, <3>2 DEF PublishForeign, TypeOK
  <2>16. CASE UNCHANGED vars
    BY <2>16 DEF vars, TypeOK
  <2>. QED
    BY <2>1, <2>2, <2>3, <2>4, <2>5, <2>6, <2>7, <2>8, <2>9, <2>10, <2>11, <2>12, <2>13,
       <2>14, <2>15, <2>16, <2>17
    DEF Next, PublishStep, DrainStep, SubStep
<1>. QED  BY <1>1, <1>2, PTL DEF Spec

-----------------------------------------------------------------------------
\* What Redis hands to a subscriber of u's own messages when it publishes m.
LEMMA OwnPublished ==
    ASSUME TypeOK, NEW m \in Messages, NEW u \in Users
    PROVE  /\ Published(m)[u][u] <= inbox[u][u] + 1
           /\ m # u => Published(m)[u][u] = inbox[u][u]
           /\ Published(m)[u][u] \in Nat
<1>1. u \in Messages
  BY DEF Messages
<1>2. inbox[u] \in [Messages -> Nat]
  BY DEF TypeOK
<1>3. CASE u \in known
  <2>1. Published(m)[u] = [inbox[u] EXCEPT ![m] = @ + 1]
    BY <1>3 DEF Published
  <2>. QED  BY <1>1, <1>2, <2>1
<1>4. CASE u \notin known
  <2>1. Published(m)[u] = inbox[u]
    BY <1>4 DEF Published
  <2>. QED  BY <1>1, <1>2, <2>1
<1>. QED  BY <1>3, <1>4

\* The numbers in OwnMessages are naturals.
LEMMA OwnType ==
    ASSUME TypeOK, NEW u \in Users
    PROVE  /\ got[u] \in Nat /\ chan[u] \in Nat /\ sent[u] \in Nat
           /\ Holding(u) \in Nat /\ inbox[u][u] \in Nat
BY RedisAssumption DEF TypeOK, Holding, Messages

\* No step makes a user receive what it has not published.
LEMMA OwnStep ==
    ASSUME TypeOK, OwnInv, [Next]_vars
    PROVE  OwnInv'
<1> SUFFICES ASSUME NEW w \in Users PROVE OwnMessages(w)'
  BY DEF OwnInv
<1>0. OwnMessages(w)
  BY DEF OwnInv
<1>1. /\ got[w] \in Nat /\ chan[w] \in Nat /\ sent[w] \in Nat
      /\ Holding(w) \in Nat /\ inbox[w][w] \in Nat
  BY OwnType
<1> USE DEF mainVars, subVars, redisVars
<1>2. ASSUME got'[w] = got[w], chan'[w] = chan[w], Holding(w)' = Holding(w),
             inbox'[w][w] = inbox[w][w], sent'[w] = sent[w]
      PROVE  OwnMessages(w)'
  BY <1>0, <1>2 DEF OwnMessages
<1>3. ASSUME NEW u \in Users,
             Begin(u) \/ BeginFails(u) \/ StartPublishing(u) \/ StartDraining(u) \/ Succeed(u)
               \/ Timeout(u) \/ SubscribeStep(u)
      PROVE  OwnMessages(w)'
  <2>1. UNCHANGED <<got, chan, inbox, sent>>
    BY <1>3 DEF Begin, BeginFails, StartPublishing, StartDraining, Succeed, Timeout,
                SubscribeStep, Subscribe, SubscribeFails, SubscribeHangs
  <2>2. sub'[w] = sub[w] \/ sub'[w] # "sending"
    BY <1>3 DEF Begin, BeginFails, StartPublishing, StartDraining, Succeed, Timeout,
                SubscribeStep, Subscribe, SubscribeFails, SubscribeHangs, TypeOK
  <2>3. Holding(w)' <= Holding(w) /\ Holding(w)' \in Nat
    BY <2>2 DEF Holding
  <2>. QED  BY <1>0, <1>1, <2>1, <2>3 DEF OwnMessages
<1>4. ASSUME NEW u \in Users, Publish(u) \/ PublishFails(u) \/ PublishHangs(u)
      PROVE  OwnMessages(w)'
  <2>1. UNCHANGED <<got, chan, sub>>
    BY <1>4 DEF Publish, PublishFails, PublishHangs
  <2>2. CASE UNCHANGED <<sent, inbox>>
    BY <1>2, <2>1, <2>2 DEF Holding
  <2>3. CASE sent' = [sent EXCEPT ![u] = @ + 1] /\ inbox' = Published(u)
    <3>1. u \in Messages
      BY DEF Messages
    <3>2. /\ inbox'[w][w] <= inbox[w][w] + 1 /\ (u # w => inbox'[w][w] = inbox[w][w])
          /\ inbox'[w][w] \in Nat
      BY <2>3, <3>1, OwnPublished
    <3>3. sent'[w] = IF w = u THEN sent[w] + 1 ELSE sent[w]
      BY <2>3 DEF TypeOK
    <3>4. Holding(w)' = Holding(w)
      BY <2>1 DEF Holding
    <3>. QED  BY <1>0, <1>1, <2>1, <3>2, <3>3, <3>4 DEF OwnMessages
  <2>. QED  BY <1>4, <2>2, <2>3 DEF Publish, PublishFails, PublishHangs
<1>5. ASSUME NEW u \in Users, TakeLatency(u) PROVE OwnMessages(w)'
  <2>1. UNCHANGED <<sub, inbox, sent>>
    BY <1>5 DEF TakeLatency
  <2>2. got'[w] + chan'[w] = got[w] + chan[w]
    BY <1>1, <1>5 DEF TakeLatency, TypeOK
  <2>. QED  BY <1>0, <1>1, <2>1, <2>2 DEF OwnMessages, Holding
<1>6. ASSUME NEW u \in Users, SendLatency(u) PROVE OwnMessages(w)'
  <2>1. UNCHANGED <<got, inbox, sent>>
    BY <1>6 DEF SendLatency
  <2>2. CASE w = u
    <3>1. Holding(w) = 1 /\ Holding(w)' = 0 /\ chan'[w] = chan[w] + 1
      BY <1>6, <2>2 DEF SendLatency, Holding, TypeOK
    <3>. QED  BY <1>0, <1>1, <2>1, <3>1 DEF OwnMessages
  <2>3. CASE w # u
    <3>1. Holding(w)' = Holding(w) /\ chan'[w] = chan[w]
      BY <1>6, <2>3 DEF SendLatency, Holding, TypeOK
    <3>. QED  BY <1>2, <2>1, <3>1
  <2>. QED  BY <2>2, <2>3
<1>7. ASSUME NEW u \in Users, LoopCheck(u) \/ ReceiveFails(u) PROVE OwnMessages(w)'
  <2>1. UNCHANGED <<got, chan, sent>>
    BY <1>7 DEF LoopCheck, ReceiveFails
  <2>2. Holding(w)' = Holding(w)
    BY <1>7 DEF LoopCheck, ReceiveFails, Holding, TypeOK
  <2>3. inbox'[w][w] = inbox[w][w] \/ inbox'[w][w] = 0
    BY <1>7 DEF LoopCheck, ReceiveFails, Disconnected, NoMessage, Messages, TypeOK
  <2>. QED  BY <1>0, <1>1, <2>1, <2>2, <2>3 DEF OwnMessages
<1>8. ASSUME NEW u \in Users, NEW m \in Messages, Receive(u, m) PROVE OwnMessages(w)'
  <2>1. UNCHANGED <<got, chan, sent>>
    BY <1>8 DEF Receive
  <2>2. CASE w # u
    <3>1. Holding(w)' = Holding(w) /\ inbox'[w] = inbox[w]
      BY <1>8, <2>2 DEF Receive, Holding, TypeOK
    <3>. QED  BY <1>2, <2>1, <3>1
  <2>3. CASE w = u
    <3>1. Holding(w) = 0 /\ Holding(w)' = IF m = w THEN 1 ELSE 0
      BY <1>8, <2>3 DEF Receive, Holding, TypeOK
    <3>2. inbox'[w] = [inbox[w] EXCEPT ![m] = @ - 1]
      BY <1>8, <2>3 DEF Receive, TypeOK
    <3>3. inbox'[w][w] = IF m = w THEN inbox[w][w] - 1 ELSE inbox[w][w]
      BY <3>2 DEF TypeOK, Messages
    <3>. QED  BY <1>0, <1>1, <2>1, <3>1, <3>3 DEF OwnMessages
  <2>. QED  BY <2>2, <2>3
<1>9. ASSUME NEW u \in Users, HandleSubscribe(u) PROVE OwnMessages(w)'
  <2>1. UNCHANGED <<got, chan, sent, sub>>
    BY <1>9 DEF HandleSubscribe
  <2>2. inbox'[w][w] = inbox[w][w]
    BY <1>9, RedisAssumption DEF HandleSubscribe, TypeOK, Messages
  <2>. QED  BY <1>2, <2>1, <2>2 DEF Holding
<1>10. CASE PublishForeign
  <2>1. UNCHANGED <<got, chan, sent, sub>>
    BY <1>10 DEF PublishForeign
  <2>2. inbox'[w][w] = inbox[w][w]
    BY <1>10, RedisAssumption, OwnPublished DEF PublishForeign, Messages
  <2>. QED  BY <1>2, <2>1, <2>2 DEF Holding
<1>11. CASE UNCHANGED vars
  BY <1>2, <1>11 DEF vars, Holding
<1>. QED
  BY <1>3, <1>4, <1>5, <1>6, <1>7, <1>8, <1>9, <1>10, <1>11
  DEF Next, PublishStep, DrainStep, SubStep

\* The subscriber of a user never blocks on recvChan.
THEOREM NeverBlocks == Spec => []SubscriberNeverBlocks
<1>1. Init => OwnInv
  BY DEF Init, OwnInv, OwnMessages, Holding, NoMessage, Messages
<1>2. TypeOK /\ OwnInv /\ [Next]_vars => OwnInv'
  BY OwnStep
<1>3. TypeOK /\ OwnInv => SubscriberNeverBlocks
  <2> SUFFICES ASSUME TypeOK, OwnInv, NEW u \in Users, sub[u] = "sending" PROVE chan[u] < Total
    BY DEF SubscriberNeverBlocks
  <2>1. OwnMessages(u) /\ Holding(u) = 1
    BY DEF OwnInv, Holding
  <2>2. sent[u] <= Total /\ Total \in Nat
    BY RedisAssumption DEF TypeOK
  <2>. QED  BY <2>1, <2>2, OwnType DEF OwnMessages
<1>. QED  BY <1>1, <1>2, <1>3, TypeCorrect, PTL DEF Spec

-----------------------------------------------------------------------------
\* A subscriber looks at exit between two messages.
LEMMA LateStep ==
    ASSUME TypeOK, LateInv, [Next]_vars
    PROVE  LateInv'
<1> SUFFICES ASSUME NEW w \in Users PROVE LateOf(w)'
  BY DEF LateInv
<1>0. LateOf(w) /\ late[w] \in Nat
  BY DEF LateInv, TypeOK
<1> USE DEF mainVars, subVars, redisVars
<1>1. ASSUME late'[w] = late[w], exit[w] => exit'[w],
             sub'[w] = "receive" => sub[w] = "receive" \/ ~exit[w]
      PROVE  LateOf(w)'
  BY <1>0, <1>1 DEF LateOf
<1>2. ASSUME NEW u \in Users,
             Begin(u) \/ BeginFails(u) \/ StartPublishing(u) \/ PublishStep(u) \/ TakeLatency(u)
               \/ SubscribeStep(u) \/ SendLatency(u) \/ ReceiveFails(u)
               \/ HandleSubscribe(u)
      PROVE  LateOf(w)'
  <2>1. UNCHANGED <<late, exit>>
    BY <1>2 DEF Begin, BeginFails, StartPublishing, PublishStep, Publish, PublishFails,
                PublishHangs, StartDraining, TakeLatency, SubscribeStep, Subscribe,
                SubscribeFails, SubscribeHangs, SendLatency, ReceiveFails, HandleSubscribe
  <2>2. sub'[w] = sub[w] \/ sub'[w] # "receive"
    BY <1>2 DEF Begin, BeginFails, StartPublishing, PublishStep, Publish, PublishFails,
                PublishHangs, StartDraining, TakeLatency, SubscribeStep, Subscribe,
                SubscribeFails, SubscribeHangs, SendLatency, ReceiveFails, HandleSubscribe, TypeOK
  <2>. QED  BY <1>1, <2>1, <2>2
<1>3. ASSUME NEW u \in Users, Succeed(u) \/ Timeout(u) PROVE LateOf(w)'
  <2>1. UNCHANGED <<late, sub>> /\ (exit[w] => exit'[w])
    BY <1>3 DEF Succeed, Timeout, TypeOK
  <2>. QED  BY <1>1, <2>1
<1>4. ASSUME NEW u \in Users, LoopCheck(u) PROVE LateOf(w)'
  <2>1. UNCHANGED <<late, exit>>
    BY <1>4 DEF LoopCheck
  <2>2. sub'[w] = "receive" => sub[w] = "receive" \/ ~exit[w]
    BY <1>4 DEF LoopCheck, TypeOK
  <2>. QED  BY <1>1, <2>1, <2>2
<1>5. ASSUME NEW u \in Users, NEW m \in Messages, Receive(u, m) PROVE LateOf(w)'
  <2>1. UNCHANGED exit
    BY <1>5 DEF Receive
  <2>2. CASE w # u
    BY <1>1, <1>5, <2>1, <2>2 DEF Receive, TypeOK
  <2>3. CASE w = u
    <3>1. sub'[w] # "receive"
      BY <1>5, <2>3 DEF Receive, TypeOK
    <3>2. late[w] = 0
      BY <1>0, <1>5, <2>3 DEF Receive, LateOf
    <3>3. late'[w] = IF exit[w] /\ m # Confirm THEN 1 ELSE 0
      BY <1>5, <2>3, <3>2 DEF Receive, TypeOK
    <3>. QED  BY <2>1, <3>1, <3>3 DEF LateOf
  <2>. QED  BY <2>2, <2>3
<1>6. CASE PublishForeign \/ UNCHANGED vars
  BY <1>1, <1>6 DEF PublishForeign, vars
<1>. QED
  BY <1>2, <1>3, <1>4, <1>5, <1>6 DEF Next, DrainStep, SubStep

\* A subscriber that is told to exit counts at most one more message.
THEOREM AtMostOneLate == Spec => []OneLateMessage
<1>1. Init => LateInv
  BY DEF Init, LateInv, LateOf
<1>2. TypeOK /\ LateInv /\ [Next]_vars => LateInv'
  BY LateStep
<1>3. LateInv => OneLateMessage
  BY DEF LateInv, LateOf, OneLateMessage
<1>. QED  BY <1>1, <1>2, <1>3, TypeCorrect, PTL DEF Spec

-----------------------------------------------------------------------------
\* The users whose Execute is in one of the states S.
In(S) == {u \in Users : main[u] \in S}

\* 1 for a state of S, 0 for another.
Of(s, S) == IF s \in S THEN 1 ELSE 0

\* No user but u moves.
OnlyMoves(u) == \A x \in Users : x # u => main'[x] = main[x]

\* When one user moves, the number of users in S changes by what it left and
\* what it came to.
LEMMA MoveCounts ==
    ASSUME NEW S, NEW u \in Users, OnlyMoves(u)
    PROVE  /\ Cardinality(In(S)) \in Int
           /\ Cardinality(In(S)') = Cardinality(In(S)) + Of(main'[u], S) - Of(main[u], S)
<1>1. IsFiniteSet(In(S)) /\ IsFiniteSet(In(S)')
  <2>1. In(S) \in SUBSET Users /\ In(S)' \in SUBSET Users
    BY DEF In
  <2>. QED  BY <2>1, RedisAssumption, FS_Subset
<1>2. Cardinality(In(S)) \in Int
  BY <1>1, FS_CardinalityType
<1>3. \A x \in Users : x # u => main'[x] = main[x]
  BY DEF OnlyMoves
<1>4. CASE main'[u] \in S /\ main[u] \in S
  <2>1. In(S)' = In(S)
    BY <1>3, <1>4 DEF In
  <2>. QED  BY <1>2, <1>4, <2>1 DEF Of
<1>5. CASE main'[u] \in S /\ main[u] \notin S
  <2>1. In(S)' = In(S) \cup {u} /\ u \notin In(S)
    BY <1>3, <1>5 DEF In
  <2>2. Cardinality(In(S)') = Cardinality(In(S)) + 1
    BY <1>1, <2>1, FS_AddElement
  <2>. QED  BY <1>2, <1>5, <2>2 DEF Of
<1>6. CASE main'[u] \notin S /\ main[u] \in S
  <2>1. In(S)' = In(S) \ {u} /\ u \in In(S)
    BY <1>3, <1>6 DEF In
  <2>2. Cardinality(In(S)') = Cardinality(In(S)) - 1
    BY <1>1, <2>1, FS_RemoveElement
  <2>. QED  BY <1>2, <1>6, <2>2 DEF Of
<1>7. CASE main'[u] \notin S /\ main[u] \notin S
  <2>1. In(S)' = In(S)
    BY <1>3, <1>7 DEF In
  <2>. QED  BY <1>2, <1>7, <2>1 DEF Of
<1>. QED  BY <1>4, <1>5, <1>6, <1>7

\* The gauges, in terms of In.
LEMMA GaugesIn ==
    GaugesExact <=> /\ cnt["inprogress"] =
                         Cardinality(In({"waiting", "publishing", "draining", "hung"}))
                    /\ cnt["connected"] = Cardinality(In({"publishing", "draining", "hung"}))
BY DEF GaugesExact, In

\* Every way into and out of Execute moves the gauges with the user.
LEMMA GaugeStep ==
    ASSUME TypeOK, GaugesExact, [Next]_vars
    PROVE  GaugesExact'
<1> DEFINE S == {"waiting", "publishing", "draining", "hung"}
           T == {"publishing", "draining", "hung"}
<1>0. cnt["inprogress"] = Cardinality(In(S)) /\ cnt["connected"] = Cardinality(In(T))
  BY GaugesIn
<1>1. /\ cnt \in [Counters -> Int]
      /\ cnt["inprogress"] \in Int /\ cnt["connected"] \in Int
  BY DEF TypeOK, Counters
<1>2. ASSUME NEW u \in Users, OnlyMoves(u),
             cnt'["inprogress"] = cnt["inprogress"] + Of(main'[u], S) - Of(main[u], S),
             cnt'["connected"] = cnt["connected"] + Of(main'[u], T) - Of(main[u], T)
      PROVE  GaugesExact'
  <2>1. /\ Cardinality(In(S)) \in Int
        /\ Cardinality(In(S)') = Cardinality(In(S)) + Of(main'[u], S) - Of(main[u], S)
        /\ Cardinality(In(T)) \in Int
        /\ Cardinality(In(T)') = Cardinality(In(T)) + Of(main'[u], T) - Of(main[u], T)
    BY <1>2, MoveCounts
  <2>2. /\ Of(main'[u], S) \in Int /\ Of(main[u], S) \in Int
        /\ Of(main'[u], T) \in Int /\ Of(main[u], T) \in Int
    BY DEF Of
  <2>3. cnt'["inprogress"] = Cardinality(In(S)') /\ cnt'["connected"] = Cardinality(In(T)')
    <3> HIDE DEF S, T
    <3>. QED  BY <1>0, <1>2, <2>1, <2>2
  <2>. QED  BY <2>3 DEF GaugesExact, In
<1>3. ASSUME main' = main, cnt'["inprogress"] = cnt["inprogress"],
             cnt'["connected"] = cnt["connected"]
      PROVE  GaugesExact'
  BY <1>3 DEF GaugesExact
<1> USE DEF mainVars, subVars, redisVars
<1>4. ASSUME NEW u \in Users, Begin(u) PROVE GaugesExact'
  <2>1. main[u] = "new" /\ main'[u] = "waiting" /\ OnlyMoves(u)
    BY <1>4 DEF Begin, OnlyMoves, TypeOK
  <2>2. cnt'["inprogress"] = cnt["inprogress"] + 1 /\ cnt'["connected"] = cnt["connected"]
    BY <1>1, <1>4 DEF Begin, Inc, Counters
  <2>3. Of("waiting", S) = 1 /\ Of("new", S) = 0 /\ Of("waiting", T) = 0 /\ Of("new", T) = 0
    BY DEF Of
  <2>. QED
    <3> HIDE DEF S, T
    <3>. QED  BY <1>1, <1>2, <2>1, <2>2, <2>3
<1>5. ASSUME NEW u \in Users, BeginFails(u) PROVE GaugesExact'
  <2>1. CASE interval = "zero"
    BY <1>3, <1>5, <2>1 DEF BeginFails
  <2>2. CASE interval # "zero"
    <3>1. main[u] = "new" /\ main'[u] = "failed" /\ OnlyMoves(u)
      BY <1>5, <2>2 DEF BeginFails, OnlyMoves, TypeOK
    <3>2. cnt'["inprogress"] = cnt["inprogress"] /\ cnt'["connected"] = cnt["connected"]
      BY <1>1, <1>5, <2>2 DEF BeginFails, Inc, Counters
    <3>3. Of("failed", S) = 0 /\ Of("new", S) = 0 /\ Of("failed", T) = 0 /\ Of("new", T) = 0
      BY DEF Of
    <3>. QED
      <4> HIDE DEF S, T
      <4>. QED  BY <1>1, <1>2, <3>1, <3>2, <3>3
  <2>. QED  BY <2>1, <2>2
<1>6. ASSUME NEW u \in Users, StartPublishing(u) PROVE GaugesExact'
  <2>1. main[u] = "waiting" /\ main'[u] = "publishing" /\ OnlyMoves(u)
    BY <1>6 DEF StartPublishing, OnlyMoves, TypeOK
  <2>2. cnt'["inprogress"] = cnt["inprogress"] /\ cnt'["connected"] = cnt["connected"] + 1
    BY <1>1, <1>6 DEF StartPublishing, Inc, Counters
  <2>3. /\ Of("publishing", S) = 1 /\ Of("waiting", S) = 1
        /\ Of("publishing", T) = 1 /\ Of("waiting", T) = 0
    BY DEF Of
  <2>. QED
    <3> HIDE DEF S, T
    <3>. QED  BY <1>1, <1>2, <2>1, <2>2, <2>3
<1>7. ASSUME NEW u \in Users, StartDraining(u) PROVE GaugesExact'
  <2>1. main[u] = "publishing" /\ main'[u] = "draining" /\ OnlyMoves(u)
    BY <1>7 DEF StartDraining, OnlyMoves, TypeOK
  <2>2. cnt'["inprogress"] = cnt["inprogress"] /\ cnt'["connected"] = cnt["connected"]
    BY <1>1, <1>7 DEF StartDraining, Counters
  <2>3. /\ Of("publishing", S) = 1 /\ Of("draining", S) = 1
        /\ Of("publishing", T) = 1 /\ Of("draining", T) = 1
    BY DEF Of
  <2>. QED
    <3> HIDE DEF S, T
    <3>. QED  BY <1>1, <1>2, <2>1, <2>2, <2>3
<1>13. ASSUME NEW u \in Users, PublishHangs(u) PROVE GaugesExact'
  <2>1. main[u] = "publishing" /\ main'[u] = "hung" /\ OnlyMoves(u)
    BY <1>13 DEF PublishHangs, OnlyMoves, TypeOK
  <2>2. cnt'["inprogress"] = cnt["inprogress"] /\ cnt'["connected"] = cnt["connected"]
    BY <1>13 DEF PublishHangs
  <2>3. /\ Of("publishing", S) = 1 /\ Of("hung", S) = 1
        /\ Of("publishing", T) = 1 /\ Of("hung", T) = 1
    BY DEF Of
  <2>. QED
    <3> HIDE DEF S, T
    <3>. QED  BY <1>1, <1>2, <2>1, <2>2, <2>3
<1>8. ASSUME NEW u \in Users, NEW c \in {"error", "success", "notrecvall"},
             OnlyMoves(u), main[u] \in T, main'[u] \in {"succeeded", "failed"},
             cnt' = Released(Inc(c))
      PROVE  GaugesExact'
  <2>1. Of(main[u], S) = 1 /\ Of(main[u], T) = 1 /\ Of(main'[u], S) = 0 /\ Of(main'[u], T) = 0
    BY <1>8 DEF Of
  <2>2. cnt'["inprogress"] = cnt["inprogress"] - 1 /\ cnt'["connected"] = cnt["connected"] - 1
    <3>1. /\ Inc(c) \in [Counters -> Int] /\ Inc(c)["inprogress"] = cnt["inprogress"]
          /\ Inc(c)["connected"] = cnt["connected"]
      BY <1>1, <1>8 DEF Inc, Counters
    <3>2. /\ Released(Inc(c))["inprogress"] = cnt["inprogress"] - 1
          /\ Released(Inc(c))["connected"] = cnt["connected"] - 1
      BY <3>1 DEF Released, Counters
    <3>. QED  BY <1>1, <1>8, <3>2 DEF Counters
  <2>. QED
    <3> HIDE DEF S, T
    <3>. QED  BY <1>1, <1>2, <1>8, <2>1, <2>2
<1>9. ASSUME NEW u \in Users, PublishFails(u) \/ Succeed(u) \/ Timeout(u) PROVE GaugesExact'
  <2>1. OnlyMoves(u) /\ main[u] \in T /\ main'[u] \in {"succeeded", "failed"}
    BY <1>9 DEF PublishFails, Succeed, Timeout, OnlyMoves, TypeOK
  <2>2. \E c \in {"error", "success", "notrecvall"} : cnt' = Released(Inc(c))
    BY <1>9 DEF PublishFails, Succeed, Timeout
  <2>. QED
    <3> HIDE DEF S, T
    <3>. QED  BY <1>8, <2>1, <2>2
<1>10. ASSUME NEW u \in Users,
              Publish(u) \/ TakeLatency(u) \/ SubscribeStep(u) \/ LoopCheck(u)
                \/ SendLatency(u) \/ ReceiveFails(u) \/ HandleSubscribe(u)
       PROVE  GaugesExact'
  <2>1. main' = main /\ cnt' \in {cnt, Inc("send"), Inc("latency"), Inc("error")}
    BY <1>10 DEF Publish, TakeLatency, SubscribeStep, Subscribe, SubscribeFails,
                 SubscribeHangs, LoopCheck, SendLatency, ReceiveFails, HandleSubscribe
  <2>2. cnt'["inprogress"] = cnt["inprogress"] /\ cnt'["connected"] = cnt["connected"]
    BY <1>1, <2>1 DEF Inc, Counters
  <2>. QED  BY <1>3, <2>1, <2>2
<1>11. ASSUME NEW u \in Users, NEW m \in Messages, Receive(u, m) PROVE GaugesExact'
  <2>1. main' = main /\ cnt' = Counted(m)
    BY <1>11 DEF Receive
  <2>2. cnt'["inprogress"] = cnt["inprogress"] /\ cnt'["connected"] = cnt["connected"]
    BY <1>1, <2>1 DEF Counted, Inc, Counters
  <2>. QED  BY <1>3, <2>1, <2>2
<1>12. CASE PublishForeign \/ UNCHANGED vars
  BY <1>3, <1>12 DEF PublishForeign, vars
<1>. QED
  BY <1>4, <1>5, <1>6, <1>7, <1>9, <1>10, <1>11, <1>12, <1>13
  DEF Next, PublishStep, DrainStep, SubStep

\* The gauges are exact, for any number of users, in whatever order they come
\* and go and whichever way each Execute ends.
THEOREM GaugesRight == Spec => []GaugesExact
<1>1. Init => GaugesExact
  <2> SUFFICES ASSUME Init PROVE GaugesExact
    OBVIOUS
  <2>1. \A u \in Users : main[u] = "new"
    BY DEF Init
  <2>2. /\ {u \in Users : main[u] \in {"waiting", "publishing", "draining", "hung"}} = {}
        /\ {u \in Users : main[u] \in {"publishing", "draining", "hung"}} = {}
    BY <2>1
  <2>3. cnt["inprogress"] = 0 /\ cnt["connected"] = 0
    BY DEF Init, Counters
  <2>. QED  BY <2>2, <2>3, FS_EmptySet DEF GaugesExact
<1>2. TypeOK /\ GaugesExact /\ [Next]_vars => GaugesExact'
  BY GaugeStep
<1>. QED  BY <1>1, <1>2, TypeCorrect, PTL DEF Spec
=============================================================================
