---------------------------- MODULE RedisPubSub ----------------------------
(***************************************************************************)
(* The session redis:pubsub (sessions/redis_pubsub.go): users of one agent *)
(* that each publish on a common channel and wait until their own          *)
(* subscription has brought their messages back.                           *)
(*                                                                         *)
(* A user is one call of Execute with its subscriber goroutine.  Redis is  *)
(* external: it handles the SUBSCRIBE of a connection some time after it   *)
(* was sent, hands every message to the subscriptions it knows at that     *)
(* moment, and a reply or a connection may be lost.  The connections have  *)
(* no timeout, so that a reply that never comes blocks its caller for      *)
(* good: "hung".  A message is its publisher; the order in which messages  *)
(* wait for a subscriber is not kept.                                      *)
(***************************************************************************)
EXTENDS Integers, FiniteSets

CONSTANTS
    Users,
    Total,       \* totalMsgCnt
    Foreign,     \* a message of somebody else, which is no JSON
    Confirm,     \* the reply to SUBSCRIBE, a redis.Subscription
    MaxForeign   \* bound: such messages

ASSUME RedisAssumption ==
    /\ IsFiniteSet(Users)
    /\ Total \in Nat
    /\ MaxForeign \in Nat
    /\ Foreign \notin Users /\ Confirm \notin Users /\ Foreign # Confirm

VARIABLES
    alive,     \* the agent process runs
    interval,  \* publishInterval: "valid", "invalid", or "zero" (or totalMsgCnt is below 0)
    main,      \* control of Execute
    sub,       \* control of the subscriber goroutine
    started,   \* startChan is closed
    exit,      \* the flag exit
    sent,      \* messages of the user that Redis has published
    chan,      \* latencies in recvChan
    got,       \* latencies taken from recvChan
    cnt,       \* the counters
    known,     \* Redis: the users whose subscription it has handled
    inbox,     \* Redis: the messages on the way to each subscriber
    foreign,   \* foreign messages published
    late       \* messages each subscriber has counted after exit was set

redisVars == <<known, inbox, foreign>>
mainVars  == <<main, sent, got>>
subVars   == <<sub, started, late>>
vars      == <<alive, interval, mainVars, subVars, exit, chan, cnt, redisVars>>

Messages   == Users \cup {Foreign, Confirm}
MainStates == {"new", "waiting", "publishing", "draining", "hung", "succeeded", "failed"}
SubStates  == {"none", "subscribing", "loop", "receive", "sending", "hung", "ended"}
Counters   ==
    {"inprogress", "connected", "success", "error", "notrecvall", "recv", "send", "latency"}

Inc(c)    == [cnt EXCEPT ![c] = @ + 1]
NoMessage == [m \in Messages |-> 0]

\* The inboxes after Redis has published message m.
Published(m) ==
    [u \in Users |-> IF u \in known THEN [inbox[u] EXCEPT ![m] = @ + 1] ELSE inbox[u]]

Init ==
    /\ alive = TRUE
    /\ interval \in {"valid", "invalid", "zero"}
    /\ main = [u \in Users |-> "new"]
    /\ sub = [u \in Users |-> "none"]
    /\ started = [u \in Users |-> FALSE]
    /\ exit = [u \in Users |-> FALSE]
    /\ sent = [u \in Users |-> 0]
    /\ chan = [u \in Users |-> 0]
    /\ got = [u \in Users |-> 0]
    /\ cnt = [c \in Counters |-> 0]
    /\ known = {}
    /\ inbox = [u \in Users |-> NoMessage]
    /\ foreign = 0
    /\ late = [u \in Users |-> 0]

-----------------------------------------------------------------------------
(***************************************************************************)
(* Execute.                                                                *)
(***************************************************************************)

\* The parameters are good: the subscriber is spawned.
Begin(u) ==
    /\ alive
    /\ interval = "valid"
    /\ main[u] = "new"
    /\ main' = [main EXCEPT ![u] = "waiting"]
    /\ sub' = [sub EXCEPT ![u] = "subscribing"]
    /\ cnt' = Inc("inprogress")
    /\ UNCHANGED <<alive, interval, sent, got, started, late, exit, chan, redisVars>>

\* An interval that is no number is an error; one of zero is a division by
\* zero, and a negative totalMsgCnt makes a channel of negative size: either
\* panics.
BeginFails(u) ==
    /\ alive
    /\ interval # "valid"
    /\ main[u] = "new"
    /\ IF interval = "zero"
         THEN alive' = FALSE /\ UNCHANGED <<main, cnt>>
         ELSE /\ main' = [main EXCEPT ![u] = "failed"]
              /\ cnt' = Inc("error")
              /\ UNCHANGED alive
    /\ UNCHANGED <<interval, sent, got, subVars, exit, chan, redisVars>>

\* `<-startChan'.
StartPublishing(u) ==
    /\ main[u] = "waiting"
    /\ started[u]
    /\ main' = [main EXCEPT ![u] = "publishing"]
    /\ cnt' = Inc("connected")
    /\ UNCHANGED <<alive, interval, sent, got, subVars, exit, chan, redisVars>>

\* One message is published.
Publish(u) ==
    /\ main[u] = "publishing"
    /\ sent[u] < Total
    /\ sent' = [sent EXCEPT ![u] = @ + 1]
    /\ inbox' = Published(u)
    /\ cnt' = Inc("send")
    /\ UNCHANGED <<alive, interval, main, got, subVars, exit, chan, known, foreign>>

\* The gauges after the deferred decrements of Execute.
Released(c) == [c EXCEPT !["inprogress"] = @ - 1, !["connected"] = @ - 1]

\* Faulty variant: the deferred decrement of cntConnected comes after the loop.
PublishFailsConnected(u) ==
    /\ main[u] = "publishing"
    /\ sent[u] < Total
    /\ UNCHANGED <<sent, inbox>>
    /\ main' = [main EXCEPT ![u] = "failed"]
    /\ cnt' = [Inc("error") EXCEPT !["inprogress"] = @ - 1]
    /\ UNCHANGED <<alive, interval, got, subVars, exit, chan, known, foreign>>

\* PUBLISH fails, possibly after Redis has handled it: Execute returns before
\* it has deferred the setting of exit.
PublishFails(u) ==
    /\ main[u] = "publishing"
    /\ sent[u] < Total
    /\ \/ UNCHANGED <<sent, inbox>>
       \/ sent' = [sent EXCEPT ![u] = @ + 1] /\ inbox' = Published(u)
    /\ main' = [main EXCEPT ![u] = "failed"]
    /\ cnt' = Released(Inc("error"))
    /\ UNCHANGED <<alive, interval, got, subVars, exit, chan, known, foreign>>

\* The reply to PUBLISH, or to the PING or AUTH before it, never comes.
PublishHangs(u) ==
    /\ main[u] = "publishing"
    /\ sent[u] < Total
    /\ \/ UNCHANGED <<sent, inbox>>
       \/ sent' = [sent EXCEPT ![u] = @ + 1] /\ inbox' = Published(u)
    /\ main' = [main EXCEPT ![u] = "hung"]
    /\ UNCHANGED <<alive, interval, got, subVars, exit, chan, cnt, known, foreign>>

\* All are published: the timeout starts.
StartDraining(u) ==
    /\ main[u] = "publishing"
    /\ sent[u] = Total
    /\ main' = [main EXCEPT ![u] = "draining"]
    /\ UNCHANGED <<alive, interval, sent, got, subVars, exit, chan, cnt, redisVars>>

\* A latency is taken and logged.
TakeLatency(u) ==
    /\ main[u] = "draining"
    /\ got[u] < Total
    /\ chan[u] > 0
    /\ chan' = [chan EXCEPT ![u] = @ - 1]
    /\ got' = [got EXCEPT ![u] = @ + 1]
    /\ cnt' = Inc("latency")
    /\ UNCHANGED <<alive, interval, main, sent, subVars, exit, redisVars>>

\* Every message has come back; the deferred statements run.
Succeed(u) ==
    /\ main[u] = "draining"
    /\ got[u] = Total
    /\ main' = [main EXCEPT ![u] = "succeeded"]
    /\ exit' = [exit EXCEPT ![u] = TRUE]
    /\ cnt' = Released(Inc("success"))
    /\ UNCHANGED <<alive, interval, sent, got, subVars, chan, redisVars>>

\* Faulty variant: the timeout is logged and the loop goes on.
TimeoutLogged(u) ==
    /\ main[u] = "draining"
    /\ got[u] < Total
    /\ UNCHANGED vars

\* The minute is over before all messages have come back.
Timeout(u) ==
    /\ main[u] = "draining"
    /\ got[u] < Total
    /\ main' = [main EXCEPT ![u] = "failed"]
    /\ exit' = [exit EXCEPT ![u] = TRUE]
    /\ cnt' = Released(Inc("notrecvall"))
    /\ UNCHANGED <<alive, interval, sent, got, subVars, chan, redisVars>>

-----------------------------------------------------------------------------
(***************************************************************************)
(* The subscriber goroutine.                                               *)
(***************************************************************************)

\* The SUBSCRIBE command is on its way: nothing waits for the reply.
Subscribe(u) ==
    /\ sub[u] = "subscribing"
    /\ sub' = [sub EXCEPT ![u] = "loop"]
    /\ started' = [started EXCEPT ![u] = TRUE]
    /\ UNCHANGED <<alive, interval, mainVars, late, exit, chan, cnt, redisVars>>

\* No connection: the goroutine returns, and Execute waits for ever.
SubscribeFails(u) ==
    /\ sub[u] = "subscribing"
    /\ sub' = [sub EXCEPT ![u] = "ended"]
    /\ cnt' = Inc("error")
    /\ UNCHANGED <<alive, interval, mainVars, started, late, exit, chan, redisVars>>

\* The connection is not made, or the reply to PING or AUTH never comes.
SubscribeHangs(u) ==
    /\ sub[u] = "subscribing"
    /\ sub' = [sub EXCEPT ![u] = "hung"]
    /\ UNCHANGED <<alive, interval, mainVars, started, late, exit, chan, cnt, redisVars>>

\* The subscription of u ends with its connection.
Disconnected(u) ==
    /\ known' = known \ {u}
    /\ inbox' = [inbox EXCEPT ![u] = NoMessage]

\* Faulty variant: exit is not looked at.
LoopCheckForgotten(u) ==
    /\ sub[u] = "loop"
    /\ sub' = [sub EXCEPT ![u] = "receive"]
    /\ UNCHANGED <<alive, interval, mainVars, started, late, exit, chan, cnt, redisVars>>

\* The loop's condition: into Receive, or out of the goroutine.
LoopCheck(u) ==
    /\ sub[u] = "loop"
    /\ IF exit[u]
         THEN sub' = [sub EXCEPT ![u] = "ended"] /\ Disconnected(u)
         ELSE sub' = [sub EXCEPT ![u] = "receive"] /\ UNCHANGED <<known, inbox>>
    /\ UNCHANGED <<alive, interval, mainVars, started, late, exit, chan, cnt, foreign>>

\* What a received message changes in the counters.
Counted(m) ==
    CASE m = Confirm -> cnt
      [] m = Foreign -> [cnt EXCEPT !["recv"] = @ + 1, !["error"] = @ + 1]
      [] OTHER -> Inc("recv")

\* Faulty variant: the message's Uid is not compared.
ReceiveAny(u, m) ==
    /\ sub[u] = "receive"
    /\ inbox[u][m] > 0
    /\ inbox' = [inbox EXCEPT ![u] = [inbox[u] EXCEPT ![m] = @ - 1]]
    /\ cnt' = Counted(m)
    /\ sub' = [sub EXCEPT ![u] = IF m \in Users THEN "sending" ELSE "loop"]
    /\ late' = [late EXCEPT ![u] = IF exit[u] /\ m # Confirm THEN @ + 1 ELSE @]
    /\ UNCHANGED <<alive, interval, mainVars, started, exit, chan, known, foreign>>

\* Receive returns message m; one of the user's own goes to recvChan.
Receive(u, m) ==
    /\ sub[u] = "receive"
    /\ inbox[u][m] > 0
    /\ inbox' = [inbox EXCEPT ![u] = [inbox[u] EXCEPT ![m] = @ - 1]]
    /\ cnt' = Counted(m)
    /\ sub' = [sub EXCEPT ![u] = IF m = u THEN "sending" ELSE "loop"]
    /\ late' = [late EXCEPT ![u] = IF exit[u] /\ m # Confirm THEN @ + 1 ELSE @]
    /\ UNCHANGED <<alive, interval, mainVars, started, exit, chan, known, foreign>>

\* The send on recvChan: blocks while the channel is full.
SendLatency(u) ==
    /\ sub[u] = "sending"
    /\ chan[u] < Total
    /\ chan' = [chan EXCEPT ![u] = @ + 1]
    /\ sub' = [sub EXCEPT ![u] = "loop"]
    /\ UNCHANGED <<alive, interval, mainVars, started, late, exit, cnt, redisVars>>

\* Receive returns an error, which is counted unless it says that the
\* connection has been closed.
ReceiveFails(u) ==
    /\ sub[u] = "receive"
    /\ sub' = [sub EXCEPT ![u] = "ended"]
    /\ cnt' \in {cnt, Inc("error")}
    /\ Disconnected(u)
    /\ UNCHANGED <<alive, interval, mainVars, started, late, exit, chan, foreign>>

-----------------------------------------------------------------------------
(***************************************************************************)
(* Redis.                                                                  *)
(***************************************************************************)

\* The SUBSCRIBE of u's connection is handled, and confirmed.
HandleSubscribe(u) ==
    /\ sub[u] \in {"loop", "receive"}
    /\ u \notin known
    /\ known' = known \cup {u}
    /\ inbox' = [inbox EXCEPT ![u] = [inbox[u] EXCEPT ![Confirm] = @ + 1]]
    /\ UNCHANGED <<alive, interval, mainVars, subVars, exit, chan, cnt, foreign>>

\* Somebody else publishes on the channel.
PublishForeign ==
    /\ foreign < MaxForeign
    /\ foreign' = foreign + 1
    /\ inbox' = Published(Foreign)
    /\ UNCHANGED <<alive, interval, mainVars, subVars, exit, chan, cnt, known>>

-----------------------------------------------------------------------------
DrainStep(u) == TakeLatency(u) \/ Succeed(u) \/ Timeout(u)
PublishStep(u) == Publish(u) \/ PublishFails(u) \/ PublishHangs(u) \/ StartDraining(u)
SubscribeStep(u) == Subscribe(u) \/ SubscribeFails(u) \/ SubscribeHangs(u)
SubStep(u) ==
    \/ SubscribeStep(u) \/ LoopCheck(u) \/ SendLatency(u) \/ ReceiveFails(u)
    \/ \E m \in Messages : Receive(u, m)

Next ==
    \/ \E u \in Users :
        \/ Begin(u) \/ BeginFails(u) \/ StartPublishing(u)
        \/ PublishStep(u) \/ DrainStep(u) \/ SubStep(u) \/ HandleSubscribe(u)
    \/ PublishForeign

Spec == Init /\ [][Next]_vars

\* Goroutines run and the timeout fires.  Redis owes nothing: it may handle a
\* subscription never, no message need arrive, and a call that waits for a
\* reply returns, fails, or hangs.
FairSpec ==
    /\ Spec
    /\ \A u \in Users :
        /\ WF_vars(StartPublishing(u))
        /\ WF_vars(PublishStep(u))
        /\ WF_vars(DrainStep(u))
        /\ WF_vars(SubscribeStep(u))

-----------------------------------------------------------------------------
(***************************************************************************)
(* Properties.                                                             *)
(***************************************************************************)

\* The type invariant.
TypeOK ==
    /\ alive \in BOOLEAN
    /\ interval \in {"valid", "invalid", "zero"}
    /\ main \in [Users -> MainStates]
    /\ sub \in [Users -> SubStates]
    /\ started \in [Users -> BOOLEAN]
    /\ exit \in [Users -> BOOLEAN]
    /\ sent \in [Users -> 0..Total]
    /\ chan \in [Users -> 0..Total]
    /\ got \in [Users -> 0..Total]
    /\ cnt \in [Counters -> Int]
    /\ known \subseteq Users
    /\ inbox \in [Users -> [Messages -> Nat]]
    /\ foreign \in 0..MaxForeign
    /\ late \in [Users -> Nat]

\* The send on recvChan never blocks the subscriber: the channel has room for
\* every message of its user, and only those are sent to it, also when Execute
\* has returned and nobody receives.
SubscriberNeverBlocks ==
    \A u \in Users : sub[u] = "sending" => chan[u] < Total

\* A subscriber that is told to exit counts at most one more message; it is
\* in Receive when the flag is set and looks at it after the next message.
OneLateMessage == \A u \in Users : late[u] <= 1

\* The gauges count the users that are in Execute, and those of them that
\* publish or wait, whichever way Execute ends; a user that hangs in PUBLISH
\* remains in both.
GaugesExact ==
    /\ cnt["inprogress"] =
         Cardinality({u \in Users : main[u] \in {"waiting", "publishing", "draining", "hung"}})
    /\ cnt["connected"] =
         Cardinality({u \in Users : main[u] \in {"publishing", "draining", "hung"}})

\* Execute returns, except in two cases.  A reply to its own PUBLISH that never
\* comes blocks it: no connection has a timeout.  And when its subscriber ends
\* or hangs before it has sent SUBSCRIBE, startChan is never closed.  The
\* messages that Redis owes it are no such case: the minute ends that wait.
ExecuteReturns ==
    \A u \in Users :
        (main[u] = "waiting") ~>
            \/ main[u] \in {"succeeded", "failed", "hung"}
            \/ sub[u] \in {"ended", "hung"} /\ ~started[u]
=============================================================================
