------------------------ MODULE RabbitMQMassiveQueue ------------------------
(***************************************************************************)
(* The session rabbitmq:massive_queue (sessions/rabbitmq_massive_queue.go) *)
(* and its pool of connections.                                            *)
(*                                                                         *)
(* A call is one call of doQueue: the queues of one user, which Execute    *)
(* tests one after the other, and those of different users.  The session   *)
(* object, with its counters, its pool and its parameters, outlives a job: *)
(* Setup of a next job may come while calls of the job before are under    *)
(* way, when that job's master is gone and its agents still run.  The      *)
(* counters, which nothing else depends on, are left out.                  *)
(*                                                                         *)
(* RabbitMQ is external: it delivers what is published on a connection     *)
(* that stays open, and loses it or not when the connection breaks.        *)
(***************************************************************************)
EXTENDS Integers, Sequences, FiniteSets, SequencesExt

CONSTANTS
    Calls,
    Messages,    \* the largest queueMessages of a job
    ChannelMax,  \* the channels a connection has room for
    MaxDials     \* bound: connections that are dialled

Nil    == 0
Closed == -1

ASSUME RabbitMQAssumption ==
    /\ IsFiniteSet(Calls) /\ Nil \notin Calls
    /\ Messages \in Nat
    /\ ChannelMax \in Nat \ {0}
    /\ MaxDials \in Nat

VARIABLES
    alive,    \* the agent process runs
    main,     \* control of doQueue
    sub,      \* control of its subscriber goroutine
    sent,     \* messages it has published
    ready,    \* those that are in the queue or on the way to the subscriber
    got,      \* messages it has received and acknowledged
    raced,    \* a Setup has changed queueMessages during the call
    limit,    \* s.queueMessages
    setup,    \* control of the next job's Setup
    pool,     \* control of the call of connPool.Channel
    view,     \* the connections it looks at
    pub,      \* the connection of pubCh, or Nil
    subc,     \* the connection of subCh, Nil without one, or Closed
    conns,    \* p.conns
    open,     \* connections that are open
    dialled,  \* connections dialled so far
    leaked,   \* channels of a connection that nobody closes
    full,     \* connections that have been out of channels
    lock      \* the call that holds p.lock, or Nil

callVars  == <<main, sent>>
queueVars == <<sub, ready, got, raced>>
setupVars == <<limit, setup>>
channels  == <<leaked, full>>
poolVars  == <<conns, open, dialled, lock>>
chanVars  == <<pool, view, pub, subc>>
vars      == <<alive, callVars, queueVars, setupVars, chanVars, poolVars, channels>>

UnderWay    == {u \in Calls : main[u] \notin {"new", "returned"}}
Live(ch, u) == ch[u] \in open

\* The channels in use on connection c.
Channels(c) ==
    leaked[c] + Cardinality({u \in Calls : pub[u] = c}) + Cardinality({u \in Calls : subc[u] = c})
HasRoom(c)  == c \in open /\ Channels(c) < ChannelMax

Init ==
    /\ alive = TRUE
    /\ main = [u \in Calls |-> "new"]
    /\ sub = [u \in Calls |-> "none"]
    /\ sent = [u \in Calls |-> 0]
    /\ ready = [u \in Calls |-> 0]
    /\ got = [u \in Calls |-> 0]
    /\ raced = [u \in Calls |-> FALSE]
    /\ limit = Messages
    /\ setup = "close"
    /\ pool = [u \in Calls |-> "none"]
    /\ view = [u \in Calls |-> <<>>]
    /\ pub = [u \in Calls |-> Nil]
    /\ subc = [u \in Calls |-> Nil]
    /\ conns = <<>>
    /\ open = {}
    /\ dialled = 0
    /\ leaked = [c \in 1..MaxDials |-> 0]
    /\ full = {}
    /\ lock = Nil

-----------------------------------------------------------------------------
(***************************************************************************)
(* RabbitMQChannelPool.Channel.  It is called in the states "pub", "sub"   *)
(* and "delete" of a call, and ends in ChannelReturns or ChannelFails.     *)
(***************************************************************************)
Calling == {"pub", "sub", "delete"}

\* The control moves on, and with a new call of Channel to its first line.
Goto(u, to) ==
    /\ main' = [main EXCEPT ![u] = to]
    /\ pool' = [pool EXCEPT ![u] = IF to \in Calling THEN "read" ELSE "none"]
    /\ UNCHANGED sent

\* doQueue returns an error or its result: the deferred subCh.Close, and on to
\* the deferred deletion of the queue.
Leave(u) ==
    /\ Goto(u, "delete")
    /\ subc' = [subc EXCEPT ![u] = IF @ = Nil THEN Nil ELSE Closed]

\* The end of doQueue: the queue is gone, or has no consumer; the deferred
\* pubCh.Close; Execute counts the result.  Nobody reads how far the call came
\* any more: a subscriber that is left can only get to a send that blocks.
Return(u) ==
    /\ main' = [main EXCEPT ![u] = "returned"]
    /\ pool' = [pool EXCEPT ![u] = "none"]
    /\ pub' = [pub EXCEPT ![u] = Nil]
    /\ sent' = [sent EXCEPT ![u] = 0]
    /\ ready' = [ready EXCEPT ![u] = 0]
    /\ got' = [got EXCEPT ![u] = 0]
    /\ raced' = [raced EXCEPT ![u] = FALSE]
    /\ UNCHANGED <<sub, subc>>

\* The subscriber goroutine is spawned, and the publishing loop begins.
Spawn(u) ==
    /\ Goto(u, "publishing")
    /\ sub' = [sub EXCEPT ![u] = "loop"]
    /\ UNCHANGED <<ready, got, raced>>

\* QueueDeclare on pubCh, on connection c; without messages there will be no
\* subscription.
QueueDeclare(u, c) ==
    \/ /\ pub' = [pub EXCEPT ![u] = c]
       /\ IF limit > 0 THEN Goto(u, "sub") /\ UNCHANGED queueVars ELSE Spawn(u)
       /\ UNCHANGED subc
    \/ Return(u)

\* Consume on subCh, on connection c.
Consume(u, c) ==
    \/ Spawn(u) /\ subc' = [subc EXCEPT ![u] = c] /\ UNCHANGED pub
    \/ Leave(u) /\ UNCHANGED <<pub, queueVars>>

\* Channel returns a channel on connection c, which is used at once: a break
\* of the connection in between fails the use.  The channel for the deletion
\* of the queue is not closed by anybody.
ChannelReturns(u, c) ==
    /\ full' = IF Channels(c) + 1 = ChannelMax THEN full \cup {c} ELSE full
    /\ \/ main[u] = "pub" /\ QueueDeclare(u, c) /\ UNCHANGED leaked
       \/ main[u] = "sub" /\ Consume(u, c) /\ UNCHANGED leaked
       \/ main[u] = "delete" /\ Return(u) /\ leaked' = [leaked EXCEPT ![c] = @ + 1]

\* Channel returns an error, which is logged.
ChannelFails(u) ==
    /\ \/ main[u] \in {"pub", "delete"} /\ Return(u)
       \/ main[u] = "sub" /\ Leave(u) /\ UNCHANGED <<pub, queueVars>>
    /\ UNCHANGED channels

\* The range over p.conns loads one word of the slice without the lock ...
LoadSlice(u) ==
    /\ alive /\ pool[u] = "read"
    /\ pool' = [pool EXCEPT ![u] = "try"]
    /\ view' = [view EXCEPT ![u] = conns]
    /\ UNCHANGED <<alive, callVars, queueVars, setupVars, pub, subc, poolVars, channels>>

\* The length of the array behind a slice that append has grown from nothing.
Cap(s) == CHOOSE n \in {Len(s), Len(s) + 1} : n \in {0, 1, 2, 4}

\* The first connection of a list that opens a channel.
FirstOpen(s) == SelectInSeq(s, HasRoom)

\* ... and then the other, a data race: the array and the length are those of
\* either time.  A length beyond the array reads what is no connection, and
\* panics; otherwise the loop tries the connections, of which closed and full
\* ones fail.
TryView(u) ==
    /\ alive /\ pool[u] = "try"
    /\ view' = [view EXCEPT ![u] = <<>>]
    /\ \E array, length \in {view[u], conns} :
         LET n     == Len(length)
             whole == IF Len(array) >= n THEN array ELSE length
             i     == FirstOpen(SubSeq(whole, 1, n))
         IN  \/ /\ n > Cap(array)
                /\ alive' = FALSE
                /\ UNCHANGED <<callVars, queueVars, pool, pub, subc, channels>>
             \/ /\ n <= Cap(array) /\ i > 0
                /\ ChannelReturns(u, whole[i])
                /\ UNCHANGED alive
             \/ /\ n <= Cap(array) /\ i = 0
                /\ pool' = [pool EXCEPT ![u] = "lock"]
                /\ UNCHANGED <<alive, callVars, queueVars, pub, subc, channels>>
    /\ UNCHANGED <<setupVars, poolVars>>

\* Faulty variant: the pool is not looked at again under the lock.
LockPoolUnchecked(u) ==
    /\ alive /\ pool[u] = "lock" /\ lock = Nil
    /\ lock' = u
    /\ pool' = [pool EXCEPT ![u] = "dial"]
    /\ UNCHANGED <<alive, callVars, queueVars, setupVars, view, pub, subc,
                   conns, open, dialled, channels>>

\* The lock, and the loop under it.
LockPool(u) ==
    /\ alive /\ pool[u] = "lock" /\ lock = Nil
    /\ LET i == FirstOpen(conns)
       IN  \/ i > 0 /\ ChannelReturns(u, conns[i]) /\ UNCHANGED lock
           \/ /\ i = 0
              /\ lock' = u
              /\ pool' = [pool EXCEPT ![u] = "dial"]
              /\ UNCHANGED <<callVars, queueVars, pub, subc, channels>>
    /\ UNCHANGED <<alive, setupVars, view, conns, open, dialled>>

\* A new connection is dialled, has a channel, and joins the pool.
DialConn(u) ==
    /\ alive /\ pool[u] = "dial"
    /\ dialled < MaxDials
    /\ dialled' = dialled + 1
    /\ open' = open \cup {dialled + 1}
    /\ conns' = Append(conns, dialled + 1)
    /\ lock' = Nil
    /\ ChannelReturns(u, dialled + 1)
    /\ UNCHANGED <<alive, setupVars, view>>

\* The dial fails, or the first channel does and the connection is closed.
DialFails(u) ==
    /\ alive /\ pool[u] = "dial"
    /\ lock' = Nil
    /\ ChannelFails(u)
    /\ UNCHANGED <<alive, setupVars, view, conns, open, dialled>>

-----------------------------------------------------------------------------
(***************************************************************************)
(* doQueue, and the lines of Execute around it.                            *)
(***************************************************************************)
Begin(u) ==
    /\ alive /\ main[u] = "new"
    /\ main' = [main EXCEPT ![u] = "pub"]
    /\ pool' = [pool EXCEPT ![u] = "read"]
    /\ UNCHANGED <<alive, sent, queueVars, setupVars, view, pub, subc, poolVars, channels>>

\* Publish writes to the connection: it succeeds when the connection is open,
\* whatever becomes of the message.
Publish(u) ==
    /\ alive /\ main[u] = "publishing" /\ sent[u] < limit
    /\ Live(pub, u)
    /\ sent' = [sent EXCEPT ![u] = @ + 1]
    /\ ready' = [ready EXCEPT ![u] = @ + 1]
    /\ UNCHANGED <<alive, main, sub, got, raced, setupVars, chanVars, poolVars, channels>>

PublishFails(u) ==
    /\ alive /\ main[u] = "publishing" /\ sent[u] < limit
    /\ ~Live(pub, u)
    /\ Leave(u)
    /\ UNCHANGED <<alive, queueVars, setupVars, view, pub, poolVars, channels>>

StartWaiting(u) ==
    /\ alive /\ main[u] = "publishing" /\ sent[u] >= limit
    /\ Goto(u, "waiting")
    /\ UNCHANGED <<alive, queueVars, setupVars, view, pub, subc, poolVars, channels>>

\* exitChan has no buffer: the subscriber's send and the receipt are one step.
OnExit(u) ==
    /\ alive /\ main[u] = "waiting" /\ sub[u] \in {"exit_nil", "exit_error"}
    /\ Leave(u)
    /\ sub' = [sub EXCEPT ![u] = "ended"]
    /\ UNCHANGED <<alive, ready, got, raced, setupVars, view, pub, poolVars, channels>>

-----------------------------------------------------------------------------
(***************************************************************************)
(* The subscriber goroutine.                                               *)
(***************************************************************************)
SubGoto(u, from, to) ==
    /\ alive /\ sub[u] = from
    /\ sub' = [sub EXCEPT ![u] = to]
    /\ UNCHANGED <<alive, callVars, raced, setupVars, chanVars, poolVars, channels>>

\* The head of the loop, where s.queueMessages is read anew, with n received.
LoopHead(n) == IF n < limit THEN "receive" ELSE "exit_nil"

SubLoop(u) ==
    /\ SubGoto(u, "loop", LoopHead(got[u]))
    /\ UNCHANGED <<ready, got>>

Receive(u) ==
    /\ ready[u] > 0 /\ subc[u] # Nil
    /\ SubGoto(u, "receive", "ack")
    /\ ready' = [ready EXCEPT ![u] = @ - 1]
    /\ UNCHANGED got

\* Faulty variant: the loop ends with the channel of deliveries, and no error.
ReceiveFailsUnreported(u) ==
    /\ subc[u] # Nil /\ ~Live(subc, u)
    /\ SubGoto(u, "receive", "exit_nil") \/ SubGoto(u, "ack", "exit_error")
    /\ UNCHANGED <<ready, got>>

\* The channel of deliveries is closed, by subCh.Close or with the connection;
\* or the acknowledgement fails.  Without a subscription
\* the receipt from the nil channel blocks for ever.
ReceiveFails(u) ==
    /\ subc[u] # Nil /\ ~Live(subc, u)
    /\ SubGoto(u, "receive", "exit_error") \/ SubGoto(u, "ack", "exit_error")
    /\ UNCHANGED <<ready, got>>

Ack(u) ==
    /\ Live(subc, u)
    /\ SubGoto(u, "ack", LoopHead(got[u] + 1))
    /\ got' = [got EXCEPT ![u] = @ + 1]
    /\ UNCHANGED ready

-----------------------------------------------------------------------------
(***************************************************************************)
(* Setup of the next job, with calls of the job before under way.          *)
(***************************************************************************)
SetupGoto(from, to) ==
    /\ alive /\ setup = from
    /\ setup' = to
    /\ raced' = [u \in Calls |-> raced[u] \/ (u \in UnderWay /\ limit' # limit)]
    /\ UNCHANGED <<alive, main, sent, sub, ready, got, chanVars, channels>>

\* RabbitMQChannelPool.Close, under the lock.
Close ==
    /\ lock = Nil
    /\ open' = open \ Range(conns)
    /\ conns' = <<>>

\* connPool.Close; then s.queueMessages is set to its default, unless a parameter
\* before it is no number and Setup fails.
PoolClose ==
    /\ Close
    /\ \/ limit' = 1 /\ SetupGoto("close", "queueMessages")
       \/ limit' = limit /\ SetupGoto("close", "done")
    /\ UNCHANGED <<dialled, lock>>

\* connPool.Close; then make panics on a negative messageSize.
NegativeSize ==
    /\ alive /\ setup = "close"
    /\ Close
    /\ alive' = FALSE
    /\ UNCHANGED <<callVars, queueVars, setupVars, chanVars, dialled, lock, channels>>

\* s.queueMessages is set to the parameter; to zero when that is no number, and
\* Setup fails.
SetLimit ==
    /\ limit' \in 0..Messages
    /\ SetupGoto("queueMessages", "done")
    /\ UNCHANGED poolVars

-----------------------------------------------------------------------------
\* A connection breaks, and what was published on it may be lost.
Breaks(c) ==
    /\ alive /\ c \in open
    /\ open' = open \ {c}
    /\ \E lost \in SUBSET {u \in Calls : pub[u] = c} :
         ready' = [u \in Calls |-> IF u \in lost THEN 0 ELSE ready[u]]
    /\ UNCHANGED <<alive, callVars, sub, got, raced, setupVars, chanVars, conns, dialled, lock, channels>>

PoolStep(u) == LoadSlice(u) \/ TryView(u) \/ LockPool(u) \/ DialConn(u) \/ DialFails(u)
MainStep(u) ==
    Publish(u) \/ PublishFails(u) \/ StartWaiting(u) \/ OnExit(u)
SubStep(u)  == SubLoop(u) \/ Receive(u) \/ ReceiveFails(u) \/ Ack(u)

Next ==
    \/ \E u \in Calls : Begin(u) \/ PoolStep(u) \/ MainStep(u) \/ SubStep(u)
    \/ PoolClose \/ NegativeSize \/ SetLimit
    \/ \E c \in 1..MaxDials : Breaks(c)

Spec == Init /\ [][Next]_vars

-----------------------------------------------------------------------------
(***************************************************************************)
(* Properties.                                                             *)
(***************************************************************************)

\* The pool grows for want of channels only, although its list is read without
\* the lock first: a connection that is open while a later one was dialled has
\* been full.  Close finds all that are open in the list.
GrowsWhenFull ==
    /\ open \subseteq Range(conns)
    /\ \A c \in open : \A d \in (c + 1)..dialled : c \in full

\* A call that was not overtaken by a Setup succeeds with a complete exchange
\* only: each message that was published has come back.
SuccessIsComplete ==
    \A u \in Calls :
        main[u] = "waiting" /\ sub[u] = "exit_nil" /\ ~raced[u] =>
            sent[u] = limit /\ got[u] = limit /\ ready[u] = 0
=============================================================================
