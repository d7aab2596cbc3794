---------------------------- MODULE KafkaProducer ----------------------------
(***************************************************************************)
(* The session kafka:producer (sessions/kafka.go): a call of Execute dials *)
(* the leader of a partition and writes its messages.  Nobody closes the   *)
(* connection.  Setup of a next job may come while calls of the job before *)
(* are under way: it resets the counters and changes the payload and       *)
(* msgCnt under them.                                                      *)
(*                                                                         *)
(* Kafka is external.  Neither the dial nor a write has a deadline: it     *)
(* returns, fails, or hangs for ever on a broker that is silent.           *)
(***************************************************************************)
EXTENDS Integers, FiniteSets

CONSTANTS
    Calls,
    Messages,  \* the largest msgCnt of a job
    MaxSize    \* bound: the bytes of a payload

VARIABLES
    alive,     \* the agent process runs
    main,      \* control of Execute; "hung" in a call of the library
    sent,      \* messages the call has written
    size,      \* len(s.payload)
    limit,     \* s.msgCnt
    setup,     \* control of the next job's Setup
    progress,  \* cntInProgress
    offset,    \* calls under way when the counters were reset last
    written,   \* cntWritten, in bytes
    success    \* cntSuccess

counters  == <<progress, written, success>>
setupVars == <<alive, size, limit, setup, offset>>
vars      == <<main, sent, counters, setupVars>>

UnderWay == {u \in Calls : main[u] \notin {"new", "returned"}}

Init ==
    /\ alive = TRUE
    /\ main = [u \in Calls |-> "new"]
    /\ sent = [u \in Calls |-> 0]
    /\ size \in 0..MaxSize
    /\ limit = Messages
    /\ setup = "reset"
    /\ progress = 0 /\ offset = 0 /\ written = 0 /\ success = 0

-----------------------------------------------------------------------------
Goto(u, from, to) ==
    /\ alive /\ main[u] = from
    /\ main' = [main EXCEPT ![u] = to]
    /\ UNCHANGED setupVars

Begin(u) ==
    /\ Goto(u, "new", "dialing")
    /\ progress' = progress + 1
    /\ UNCHANGED <<sent, written, success>>

Dial(u) ==
    /\ Goto(u, "dialing", "writing")
    /\ UNCHANGED <<sent, counters>>

\* The loop reads s.msgCnt and s.payload anew in every round.  WriteMessages
\* returns the bytes it has written: those of the payload, for a message without
\* a key.
Write(u) ==
    /\ sent[u] < limit
    /\ Goto(u, "writing", "writing")
    /\ sent' = [sent EXCEPT ![u] = @ + 1]
    /\ written' = written + size
    /\ UNCHANGED <<progress, success>>

\* A bad partition, a failing dial or a failing write; the deferred decrement.
Fails(u) ==
    /\ \/ Goto(u, "dialing", "returned")
       \/ sent[u] < limit /\ Goto(u, "writing", "returned")
    /\ progress' = progress - 1
    /\ UNCHANGED <<sent, written, success>>

Hangs(u) ==
    /\ \/ Goto(u, "dialing", "hung")
       \/ sent[u] < limit /\ Goto(u, "writing", "hung")
    /\ UNCHANGED <<sent, counters>>

Succeed(u) ==
    /\ sent[u] >= limit
    /\ Goto(u, "writing", "returned")
    /\ progress' = progress - 1
    /\ success' = success + 1
    /\ UNCHANGED <<sent, written>>

SetupGoto(from, to) ==
    /\ alive /\ setup = from
    /\ setup' = to
    /\ UNCHANGED <<main, sent>>

SetupReset ==
    /\ SetupGoto("reset", "payload")
    /\ progress' = 0 /\ written' = 0 /\ success' = 0
    /\ offset' = Cardinality(UnderWay)
    /\ UNCHANGED <<alive, size, limit>>

\* A messageSize that is no number ends Setup.
SetPayload ==
    /\ \/ SetupGoto("payload", "default") /\ size' \in 0..MaxSize
       \/ SetupGoto("payload", "done") /\ UNCHANGED size
    /\ UNCHANGED <<alive, limit, offset, counters>>

\* A negative messageSize: make panics.
NegativeSize ==
    /\ SetupGoto("payload", "done")
    /\ alive' = FALSE
    /\ UNCHANGED <<size, limit, offset, counters>>

SetDefault ==
    /\ SetupGoto("default", "messageCount")
    /\ limit' = 1
    /\ UNCHANGED <<alive, size, offset, counters>>

\* The parameter, if there is one; zero when it is no number.  Zero stands for
\* the negative ones, with which the loop has no round either.
SetLimit ==
    /\ SetupGoto("messageCount", "done")
    /\ limit' \in {limit} \cup 0..Messages
    /\ UNCHANGED <<alive, size, offset, counters>>

CallStep(u) == Dial(u) \/ Write(u) \/ Fails(u) \/ Hangs(u) \/ Succeed(u)

Next ==
    \/ SetupReset \/ SetPayload \/ NegativeSize \/ SetDefault \/ SetLimit
    \/ \E u \in Calls : Begin(u) \/ CallStep(u)

Spec == Init /\ [][Next]_vars

-----------------------------------------------------------------------------
\* The gauge is short by the calls that were under way when it was reset; before
\* a Setup changes them, each success stands for msgCnt payloads in written bytes.
CountersBalance ==
    /\ progress + offset = Cardinality(UnderWay)
    /\ setup = "reset" => written >= success * limit * size
=============================================================================
