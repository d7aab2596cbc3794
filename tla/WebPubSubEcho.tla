--------------------------- MODULE WebPubSubEcho ---------------------------
(***************************************************************************)
(* The session webpubsub:echo (sessions/webpubsub_echo.go): one call of    *)
(* Execute, its reader goroutine, and a server that may send anything.     *)
(*                                                                         *)
(* The reader hands each event to Execute over the unbuffered channel of   *)
(* its kind: it goes on only when Execute is in a select that listens to   *)
(* that channel.  A send and its receipt are one step of both.             *)
(***************************************************************************)
EXTENDS Integers, Sequences, SequencesExt

CONSTANT MaxEvents  \* bound: events the server sends

ASSUME EchoAssumption == MaxEvents \in Nat

VARIABLES
    main,     \* control of Execute
    reader,   \* control of the reader goroutine
    held,     \* the event the reader has read last
    inbox,    \* events on the way to the reader
    taken,    \* events Execute has received
    sent,     \* events the server has sent
    closed,   \* c.Close has been called
    errors,   \* cntError
    success   \* cntSuccess

echoVars == <<main, reader, held, inbox, taken, sent, closed, errors, success>>

Nothing == "nothing"
Closed  == "closed"

\* What the server may send: two acks, the echo and other data, an event of
\* no expected type, and what is no JSON.
Events == {"connected", "ack1", "ack2", "foobar", "other", "unexpected", "garbage"}

\* The channel the reader uses for an event.
ChanOf(e) ==
    CASE e = "connected" -> "onConnChan"
      [] e \in {"ack1", "ack2"} -> "ackChan"
      [] e \in {"foobar", "other"} -> "msgChan"
      [] e = "unexpected" -> "errChan"
      [] e = Closed -> "closeChan"

\* The channels of the select that Execute is in.
Listens ==
    CASE main = "connecting" -> {"onConnChan", "errChan", "closeChan"}
      [] main = "joining" -> {"ackChan", "errChan", "closeChan"}
      [] main = "echoing" -> {"ackChan", "msgChan", "errChan", "closeChan"}
      [] OTHER -> {}

InSelect == main \in {"connecting", "joining", "echoing"}
Returned == main \in {"succeeded", "failed"}

EchoInit ==
    /\ main = "new"
    /\ reader = "none"
    /\ held = Nothing
    /\ inbox = <<>>
    /\ taken = <<>>
    /\ sent = <<>>
    /\ closed = FALSE
    /\ errors = 0
    /\ success = 0

-----------------------------------------------------------------------------
(***************************************************************************)
(* Execute.                                                                *)
(***************************************************************************)

\* logError, then the deferred c.Close.
Fail ==
    /\ main' = "failed"
    /\ errors' = errors + 1
    /\ closed' = TRUE
    /\ UNCHANGED success

Dial ==
    /\ main = "new"
    /\ main' = "connecting"
    /\ reader' = "reading"
    /\ UNCHANGED <<held, inbox, taken, sent, closed, errors, success>>

DialFails ==
    /\ main = "new"
    /\ main' = "failed"
    /\ errors' = errors + 1
    /\ UNCHANGED <<reader, held, inbox, taken, sent, closed, success>>

\* The reader hands its event over.  It ends after closeChan, and otherwise
\* reads on.
HandOver ==
    /\ reader = "sending"
    /\ ChanOf(held) \in Listens
    /\ reader' = IF held = Closed THEN "ended" ELSE "reading"
    /\ taken' = Append(taken, held)
    /\ held' = Nothing
    /\ UNCHANGED <<inbox, sent>>

Advance(to) ==
    /\ main' = to
    /\ UNCHANGED <<errors, success, closed>>

\* onConnChan: joinGroup is written.
OnConnected ==
    /\ held = "connected"
    /\ HandOver
    /\ Advance("joining") \/ Fail

\* ackChan while joining: sendToGroup is written.
OnJoinAck ==
    /\ main = "joining"
    /\ held = "ack1"
    /\ HandOver
    /\ Advance("echoing") \/ Fail

\* Faulty variant: the wait is over with the ack.
OnEchoAckReturning ==
    /\ main = "echoing"
    /\ held = "ack2"
    /\ HandOver
    /\ main' = "succeeded"
    /\ success' = success + 1
    /\ closed' = TRUE
    /\ UNCHANGED errors

\* ackChan while waiting for the echo: the loop goes on.
OnEchoAck ==
    /\ main = "echoing"
    /\ held = "ack2"
    /\ HandOver
    /\ Advance("echoing")

\* msgChan with the data that was sent.
OnEcho ==
    /\ held = "foobar"
    /\ HandOver
    /\ main' = "succeeded"
    /\ success' = success + 1
    /\ closed' = TRUE
    /\ UNCHANGED errors

\* A wrong ack, other data, errChan or closeChan.
OnUnexpected ==
    /\ \/ held \in {"other", "unexpected", Closed}
       \/ held = "ack2" /\ main = "joining"
       \/ held = "ack1" /\ main = "echoing"
    /\ HandOver
    /\ Fail

\* Faulty variant: the timeout of the last select is missing.
TimeoutBeforeEcho ==
    /\ InSelect
    /\ main # "echoing"
    /\ Fail
    /\ UNCHANGED <<reader, held, inbox, taken, sent>>

\* A minute has passed in a select.
Timeout ==
    /\ InSelect
    /\ Fail
    /\ UNCHANGED <<reader, held, inbox, taken, sent>>

-----------------------------------------------------------------------------
(***************************************************************************)
(* The reader goroutine.                                                   *)
(***************************************************************************)

\* ReadMessage returns an event, possibly one that the connection had buffered
\* when it was closed.
Read ==
    /\ reader = "reading"
    /\ inbox # <<>>
    /\ inbox' = Tail(inbox)
    /\ IF Head(inbox) = "garbage"
         THEN reader' = "ended" /\ errors' = errors + 1 /\ UNCHANGED held
         ELSE reader' = "sending" /\ held' = Head(inbox) /\ UNCHANGED errors
    /\ UNCHANGED <<main, taken, sent, closed, success>>

\* Faulty variant: the reader does not wait for closeChan to be received.
ReadFailsAtOnce ==
    /\ reader = "reading"
    /\ reader' = "ended"
    /\ UNCHANGED <<main, held, inbox, taken, sent, closed, success, errors>>

\* ReadMessage fails.  An abnormal closure by the server is counted, also when
\* it was read before the own c.Close and is looked at after it; a normal one,
\* a broken connection and the own c.Close are not.
ReadFails ==
    /\ reader = "reading"
    /\ reader' = "sending"
    /\ held' = Closed
    /\ errors' \in {errors, errors + 1}
    /\ UNCHANGED <<main, inbox, taken, sent, closed, success>>

-----------------------------------------------------------------------------
\* The server sends an event.
ServerSends(e) ==
    /\ main # "new"
    /\ ~closed
    /\ Len(sent) < MaxEvents
    /\ sent' = Append(sent, e)
    /\ inbox' = Append(inbox, e)
    /\ UNCHANGED <<main, reader, held, taken, closed, errors, success>>

Receipt == OnConnected \/ OnJoinAck \/ OnEchoAck \/ OnEcho \/ OnUnexpected

EchoNext ==
    \/ Dial \/ DialFails \/ Receipt \/ Timeout
    \/ Read \/ ReadFails
    \/ \E e \in Events : ServerSends(e)

EchoSpec == EchoInit /\ [][EchoNext]_echoVars

-----------------------------------------------------------------------------
(***************************************************************************)
(* Properties.                                                             *)
(***************************************************************************)

\* The type invariant.
EchoTypeOK ==
    /\ main \in {"new", "connecting", "joining", "echoing", "succeeded", "failed"}
    /\ reader \in {"none", "reading", "sending", "ended"}
    /\ held \in Events \cup {Nothing, Closed}
    /\ inbox \in Seq(Events)
    /\ taken \in Seq(Events \cup {Closed})
    /\ sent \in Seq(Events)
    /\ closed \in BOOLEAN
    /\ errors \in 0..2
    /\ success \in 0..1

\* A success is counted for a complete exchange only: the connection, the ack
\* of the join, acks of the message, and the echo, with nothing in between.
SuccessIsCompleteExchange ==
    success = 1 =>
        /\ Len(taken) >= 3
        /\ taken[1] = "connected" /\ taken[2] = "ack1" /\ Last(taken) = "foobar"
        /\ \A i \in 3..(Len(taken) - 1) : taken[i] = "ack2"

\* The reader goroutine of a session that ends otherwise than by closeChan, or
\* by an event that is no JSON, does not end: it waits for a receiver of its
\* next event, or of closeChan, that will never come.
ReaderIsLeft ==
    Returned /\ reader = "ended" =>
        \/ taken # <<>> /\ Last(taken) = Closed
        \/ \E i \in 1..Len(sent) : sent[i] = "garbage"
=============================================================================
