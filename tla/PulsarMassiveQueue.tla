------------------------- MODULE PulsarMassiveQueue -------------------------
(***************************************************************************)
(* The session pulsar:massive_queue (sessions/pulsar_massive_queue.go).    *)
(*                                                                         *)
(* A call is one call of doQueue, which Execute runs in a goroutine of its *)
(* own for each queue, and waits for.  As with the RabbitMQ session, Setup *)
(* of a next job may come while calls of the job before are under way: it  *)
(* resets the counters and replaces the client under them.                 *)
(*                                                                         *)
(* Pulsar is external: an operation on an open client succeeds or fails,   *)
(* and on a closed one it fails; a message whose sending has failed may    *)
(* have arrived all the same.                                              *)
(***************************************************************************)
EXTENDS Integers, FiniteSets

CONSTANTS
    Calls,
    Messages  \* the largest queueMessages of a job

VARIABLES
    alive,    \* the agent process runs
    main,     \* control of doQueue
    sub,      \* control of its subscriber goroutine
    sent,     \* sendings it has tried
    ready,    \* messages that have arrived and are not yet received
    got,      \* messages the subscriber has received
    failed,   \* a receipt of the subscriber has failed, and was reported
    raced,    \* a Setup has changed queueMessages during the call
    limit,    \* s.queueMessages
    setup,    \* control of the next job's Setup
    client,   \* s.client: the first, the second, or Nil
    clients,  \* clients that are open
    prod,     \* the client of the call's producer
    cons,     \* the client of its consumer, or Nil when there is none or it is closed
    progress, \* cntInProgress
    offset    \* calls under way when the counters were reset last

callVars   == <<main, sent, ready, raced, progress>>
subVars    == <<sub, got, failed>>
setupVars  == <<limit, setup, client, clients, offset>>
vars       == <<alive, callVars, subVars, setupVars, prod, cons>>

Nil         == 0
UnderWay    == {u \in Calls : main[u] \notin {"new", "returned"}}
Live(of, u) == of[u] \in clients

Init ==
    /\ alive = TRUE
    /\ main = [u \in Calls |-> "new"]
    /\ sub = [u \in Calls |-> "none"]
    /\ sent = [u \in Calls |-> 0]
    /\ ready = [u \in Calls |-> 0]
    /\ got = [u \in Calls |-> 0]
    /\ failed = [u \in Calls |-> FALSE]
    /\ raced = [u \in Calls |-> FALSE]
    /\ limit = Messages
    /\ setup = "reset"
    /\ client = 1
    /\ clients = {1}
    /\ prod = [u \in Calls |-> Nil]
    /\ cons = [u \in Calls |-> Nil]
    /\ progress = 0
    /\ offset = 0

-----------------------------------------------------------------------------
(***************************************************************************)
(* doQueue.                                                                *)
(***************************************************************************)
Goto(u, from, to) ==
    /\ alive /\ main[u] = from
    /\ main' = [main EXCEPT ![u] = to]

Begin(u) ==
    /\ Goto(u, "new", "producer")
    /\ progress' = progress + 1
    /\ UNCHANGED <<alive, sent, ready, raced, subVars, setupVars, prod, cons>>

\* The deferred Unsubscribe, whose failing is logged, Close of the consumer and
\* of the producer, as far as there are any, and decrement; Execute counts the
\* result.
Return(u, from) ==
    /\ Goto(u, from, "returned")
    /\ progress' = progress - 1
    /\ sent' = [sent EXCEPT ![u] = 0]
    /\ ready' = [ready EXCEPT ![u] = 0]
    /\ raced' = [raced EXCEPT ![u] = FALSE]
    /\ prod' = [prod EXCEPT ![u] = Nil]
    /\ cons' = [cons EXCEPT ![u] = Nil]
    /\ UNCHANGED <<alive, subVars, setupVars>>

\* A call of a method of s.client that has become nil panics.
NilClient(u) ==
    /\ alive /\ main[u] \in {"producer", "consumer"} /\ client = Nil
    /\ alive' = FALSE
    /\ UNCHANGED <<callVars, subVars, setupVars, prod, cons>>

CreateProducer(u) ==
    \/ /\ client \in clients
       /\ Goto(u, "producer", "consumer")
       /\ prod' = [prod EXCEPT ![u] = client]
       /\ UNCHANGED <<alive, sent, ready, raced, progress, subVars, setupVars, cons>>
    \/ client # Nil /\ Return(u, "producer")

\* Subscribe, and with it the start of the subscriber goroutine.
Subscribe(u) ==
    \/ /\ client \in clients
       /\ Goto(u, "consumer", "publishing")
       /\ cons' = [cons EXCEPT ![u] = client]
       /\ sub' = [sub EXCEPT ![u] = "loop"]
       /\ UNCHANGED <<alive, sent, ready, raced, progress, got, failed, setupVars, prod>>
    \/ client # Nil /\ Return(u, "consumer")

\* One round of the publishing loop: an error is counted, and the loop goes on.
\* What is sent on an open client may arrive, also when an error is returned;
\* without an error it has arrived.
Publish(u) ==
    /\ Goto(u, "publishing", "publishing") /\ sent[u] < limit
    /\ sent' = [sent EXCEPT ![u] = @ + 1]
    /\ \/ Live(prod, u) /\ ready' = [ready EXCEPT ![u] = @ + 1]
       \/ UNCHANGED ready
    /\ UNCHANGED <<alive, raced, progress, subVars, setupVars, prod, cons>>

StartWaiting(u) ==
    /\ Goto(u, "publishing", "waiting") /\ sent[u] >= limit
    /\ UNCHANGED <<alive, sent, ready, raced, progress, subVars, setupVars, prod, cons>>

\* exitChan has no buffer: the send and the receipt are one step.  After the
\* report of a failed receipt the subscriber goes on with its loop.
OnExit(u) ==
    /\ Goto(u, "waiting", "closing")
    /\ sub[u] \in {"exit_nil", "exit_timeout", "exit_failure"}
    /\ sub' = [sub EXCEPT ![u] = IF @ = "exit_failure" THEN "loop" ELSE "ended"]
    /\ failed' = [failed EXCEPT ![u] = sub[u] = "exit_failure"]
    /\ UNCHANGED <<alive, sent, ready, raced, progress, got, setupVars, prod, cons>>

Close(u) == Return(u, "closing")

-----------------------------------------------------------------------------
(***************************************************************************)
(* The subscriber goroutine.                                               *)
(***************************************************************************)
SubGoto(u, from, to) ==
    /\ alive /\ sub[u] = from
    /\ sub' = [sub EXCEPT ![u] = to]
    /\ UNCHANGED <<alive, main, sent, raced, progress, failed, setupVars, prod, cons>>

\* Its rounds so far: the failed one that was reported counts.
Rounds(u) == got[u] + IF failed[u] THEN 1 ELSE 0

\* The head of the loop, where s.queueMessages is read anew; the time allowed
\* for the messages may be over.
SubLoop(u) ==
    /\ \/ Rounds(u) < limit /\ SubGoto(u, "loop", "receive")
       \/ Rounds(u) < limit /\ SubGoto(u, "loop", "exit_timeout")
       \/ Rounds(u) >= limit /\ SubGoto(u, "loop", "exit_nil")
    /\ UNCHANGED <<ready, got>>

Receive(u) ==
    /\ ready[u] > 0 /\ Live(cons, u)
    /\ SubGoto(u, "receive", "loop")
    /\ ready' = [ready EXCEPT ![u] = @ - 1]
    /\ got' = [got EXCEPT ![u] = @ + 1]

\* Faulty variant: the receipt has no timeout.
ReceiveFailsUntimed(u) ==
    /\ ~Live(cons, u)
    /\ SubGoto(u, "receive", "exit_failure")
    /\ UNCHANGED <<ready, got>>

\* A minute is over, or the consumer or its client is closed.
ReceiveFails(u) ==
    /\ SubGoto(u, "receive", "exit_failure")
    /\ UNCHANGED <<ready, got>>

-----------------------------------------------------------------------------
(***************************************************************************)
(* Setup of the next job, with calls of the job before under way.          *)
(***************************************************************************)
SetupGoto(from, to) ==
    /\ alive /\ setup = from
    /\ setup' = to
    /\ UNCHANGED <<alive, main, sent, ready, subVars, prod, cons>>

\* The counters are reset.
SetupReset ==
    /\ SetupGoto("reset", "close")
    /\ progress' = 0
    /\ offset' = Cardinality(UnderWay)
    /\ UNCHANGED <<raced, limit, client, clients>>

ClientClose ==
    /\ SetupGoto("close", "client")
    /\ clients' = clients \ {client}
    /\ UNCHANGED <<raced, limit, client, offset, progress>>

\* NewClient; when it fails, s.client is nil and Setup returns the error.
NewClient ==
    /\ \/ SetupGoto("client", "params") /\ client' = 2 /\ clients' = clients \cup {2}
       \/ SetupGoto("client", "done") /\ client' = Nil /\ UNCHANGED clients
    /\ UNCHANGED <<raced, limit, offset, progress>>

\* As in the RabbitMQ session: the default, and then the parameter; zero when
\* that is no number; the old value when a parameter before it is none.
SetLimit ==
    /\ \/ SetupGoto("params", "queueMessages") /\ limit' = 1
       \/ SetupGoto("queueMessages", "done") /\ limit' \in 0..Messages
       \/ SetupGoto("params", "done") /\ UNCHANGED limit
    /\ raced' = [u \in Calls |-> raced[u] \/ (u \in UnderWay /\ limit' # limit)]
    /\ UNCHANGED <<client, clients, offset, progress>>

\* A negative messageSize: make panics.
NegativeSize ==
    /\ alive /\ setup = "params"
    /\ alive' = FALSE
    /\ UNCHANGED <<callVars, subVars, setupVars, prod, cons>>

-----------------------------------------------------------------------------
MainStep(u) ==
    \/ NilClient(u) \/ CreateProducer(u) \/ Subscribe(u) \/ Publish(u)
    \/ StartWaiting(u) \/ OnExit(u) \/ Close(u)
SubStep(u)  == SubLoop(u) \/ Receive(u) \/ ReceiveFails(u)

Next ==
    \/ \E u \in Calls : Begin(u) \/ MainStep(u) \/ SubStep(u)
    \/ SetupReset \/ ClientClose \/ NewClient \/ SetLimit \/ NegativeSize

Spec == Init /\ [][Next]_vars

-----------------------------------------------------------------------------
(***************************************************************************)
(* Properties.                                                             *)
(***************************************************************************)

\* The gauge of calls in progress is short by those that were under way when a
\* next job's Setup reset it, however their calls end: it may be negative.
GaugeOff == progress + offset = Cardinality(UnderWay)
=============================================================================
