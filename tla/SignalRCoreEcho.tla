-------------------------- MODULE SignalRCoreEcho --------------------------
(***************************************************************************)
(* The session signalrcore:echo (sessions/signalr_core_echo.go): one call  *)
(* of Execute, its reader goroutine, and a server that may send anything.  *)
(*                                                                         *)
(* The two meet in two channels that the reader closes: echoReceivedChan   *)
(* with the echo and doneChan when it returns.  A panic in either ends the *)
(* agent process.                                                          *)
(***************************************************************************)
EXTENDS Integers, Sequences, FiniteSets, SequencesExt

CONSTANT MaxMessages  \* bound: messages the server sends

VARIABLES
    alive,     \* the agent process runs
    main,      \* control of Execute
    reader,    \* control of the reader goroutine; "ended" is a closed doneChan
    echoed,    \* echoReceivedChan is closed
    inbox,     \* messages on the way to the reader
    seen,      \* messages the reader has read
    closed,    \* c.Close has been called, or Execute has failed without it
    progress,  \* cntInProgress
    errors,    \* cntError
    success    \* cntSuccess

mainVars   == <<main, closed, progress, success>>
readerVars == <<reader, echoed, seen>>
vars       == <<alive, mainVars, readerVars, inbox, errors>>

\* What the server may send: the echo, an invocation of echo with too few
\* arguments, a message without a byte, what is no JSON, and anything else.
Messages == {"echo", "short", "empty", "garbage", "other"}

Returned == main \in {"succeeded", "failed"}

Init ==
    /\ alive = TRUE
    /\ main = "new"
    /\ reader = "none"
    /\ echoed = FALSE
    /\ inbox = <<>>
    /\ seen = <<>>
    /\ closed = FALSE
    /\ progress = 0
    /\ errors = 0
    /\ success = 0

-----------------------------------------------------------------------------
(***************************************************************************)
(* Execute.                                                                *)
(***************************************************************************)

\* The control moves from one state to another.
Moves(from, to) ==
    /\ alive
    /\ main = from
    /\ main' = to
    /\ UNCHANGED <<alive, inbox>>

\* logError and a return, with the deferred c.Close and decrement.
Fail(from) ==
    /\ Moves(from, "failed")
    /\ errors' = errors + 1
    /\ closed' = TRUE
    /\ progress' = progress - 1
    /\ UNCHANGED <<readerVars, success>>

Enter ==
    /\ Moves("new", "connecting")
    /\ progress' = progress + 1
    /\ UNCHANGED <<readerVars, closed, errors, success>>

\* The handshake and the dial have succeeded: the reader is spawned.
Connect ==
    /\ Moves("connecting", "writing")
    /\ reader' = "reading"
    /\ UNCHANGED <<echoed, seen, closed, progress, errors, success>>

\* The protocol and the invocation of echo are written.
WriteEcho ==
    /\ Moves("writing", "echoing")
    /\ UNCHANGED <<readerVars, closed, progress, errors, success>>

\* Faulty variant: the first select has doneChan instead of echoReceivedChan.
OnEchoOrDone ==
    /\ echoed \/ reader = "ended"
    /\ Moves("echoing", "closing")
    /\ UNCHANGED <<readerVars, closed, progress, errors, success>>

\* echoReceivedChan is closed: the close message is written.
OnEcho ==
    /\ echoed
    /\ Moves("echoing", "closing")
    /\ UNCHANGED <<readerVars, closed, progress, errors, success>>

\* The write of the close message fails.
CloseFails == echoed /\ Fail("echoing")

\* Faulty variant: the timeout of the first select is missing.
TimeoutOfClose == Fail("closing")

\* A minute has passed in one of the selects.
Timeout == Fail("echoing") \/ Fail("closing")

\* doneChan is closed, for whatever reason the reader has returned.
OnDone ==
    /\ reader = "ended"
    /\ Moves("closing", "succeeded")
    /\ success' = success + 1
    /\ closed' = TRUE
    /\ progress' = progress - 1
    /\ UNCHANGED <<readerVars, errors>>

-----------------------------------------------------------------------------
(***************************************************************************)
(* The reader goroutine.                                                   *)
(***************************************************************************)

\* The statements that panic: a slice of an empty message, an index beyond
\* the arguments, and a second close of echoReceivedChan.
Panics(m) == m \in {"empty", "short"} \/ (m = "echo" /\ echoed)

\* Faulty variant: any invocation of echo will do.
ReadAnyEcho ==
    /\ alive /\ reader = "reading" /\ inbox # <<>>
    /\ inbox' = Tail(inbox)
    /\ LET m == Head(inbox) IN
        /\ seen' = Append(seen, m)
        /\ alive' = ~(m = "empty" \/ (m \in {"echo", "short"} /\ echoed))
        /\ echoed' = (echoed \/ m \in {"echo", "short"})
        /\ reader' = IF m = "garbage" THEN "ended" ELSE "reading"
        /\ errors' = IF m = "garbage" THEN errors + 1 ELSE errors
    /\ UNCHANGED mainVars

\* ReadMessage returns a message.
Read ==
    /\ alive /\ reader = "reading" /\ inbox # <<>>
    /\ inbox' = Tail(inbox)
    /\ LET m == Head(inbox) IN
        /\ seen' = Append(seen, m)
        /\ alive' = ~Panics(m)
        /\ echoed' = (echoed \/ m = "echo")
        /\ reader' = IF m = "garbage" THEN "ended" ELSE "reading"
        /\ errors' = IF m = "garbage" THEN errors + 1 ELSE errors
    /\ UNCHANGED mainVars

\* ReadMessage fails: the connection is closed by either side, or broken.  An
\* abnormal closure by the server is counted.
ReadFails ==
    /\ alive /\ reader = "reading"
    /\ reader' = "ended"
    /\ errors' \in {errors, errors + 1}
    /\ UNCHANGED <<alive, mainVars, echoed, seen, inbox>>

-----------------------------------------------------------------------------
\* The server sends message m.
ServerSends(m) ==
    /\ alive /\ reader # "none" /\ ~closed
    /\ Len(seen) + Len(inbox) < MaxMessages
    /\ inbox' = Append(inbox, m)
    /\ UNCHANGED <<alive, mainVars, readerVars, errors>>

WriteStep == WriteEcho \/ Fail("writing")

Next ==
    \/ Enter \/ Connect \/ Fail("connecting") \/ WriteStep
    \/ OnEcho \/ CloseFails \/ OnDone \/ Timeout
    \/ Read \/ ReadFails
    \/ \E m \in Messages : ServerSends(m)

Spec == Init /\ [][Next]_vars

-----------------------------------------------------------------------------
(***************************************************************************)
(* Properties.                                                             *)
(***************************************************************************)

\* The type invariant.
TypeOK ==
    /\ alive \in BOOLEAN
    /\ main \in {"new", "connecting", "writing", "echoing", "closing", "succeeded", "failed"}
    /\ reader \in {"none", "reading", "ended"}
    /\ echoed \in BOOLEAN
    /\ inbox \in Seq(Messages)
    /\ seen \in Seq(Messages)
    /\ closed \in BOOLEAN
    /\ progress \in 0..1
    /\ errors \in 0..2
    /\ success \in 0..1

\* A success stands for exactly one echo, although Execute only sees channels
\* being closed, and its reader is gone; but the reader may have ended by an
\* error, which is then counted beside the success.
SuccessIsEchoed ==
    success = 1 =>
        /\ Cardinality({i \in 1..Len(seen) : seen[i] = "echo"}) = 1
        /\ reader = "ended"
        /\ errors <= 1

\* The process ends by nothing but a server that echoes twice or sends a
\* malformed message: the two goroutines never close a channel twice.
PanicIsProvoked ==
    ~alive =>
        \/ Last(seen) \in {"empty", "short"}
        \/ Cardinality({i \in 1..Len(seen) : seen[i] = "echo"}) = 2
=============================================================================
