------------------------- MODULE SignalRFxBroadcast -------------------------
(***************************************************************************)
(* The session signalrfx:broadcast:sender                                  *)
(* (sessions/signalr_fx_broadcast_sender.go).  From the first message on   *)
(* its Execute is that of the ASP.NET Core session, whose actions it       *)
(* shares; its connection is another one: a negotiation, the websocket, an *)
(* init message that the reader turns into a closed connectChan, and a     *)
(* request to start.  "protocol" is the wait for the init message here.    *)
(*                                                                         *)
(* A message of several frames is taken for several messages of one.  The  *)
(* hub owes each connection one init message.                              *)
(***************************************************************************)
EXTENDS SignalRCoreBroadcast

VARIABLES
    inits,  \* init messages on the way to a reader
    ready   \* connectChan is closed

fxVars == <<inits, ready>>

FxInit ==
    /\ Init
    /\ inits = [u \in Users |-> 0]
    /\ ready = [u \in Users |-> FALSE]

-----------------------------------------------------------------------------
\* The token is negotiated.
FxNegotiate(u) ==
    /\ Moves(u, "connecting", "dialing")
    /\ UNCHANGED <<alive, sent, got, reader, closed, duration, hubVars, inbox, chan, cnt, fxVars>>

FxDial(u) == (Dial(u) \/ DialNegative(u)) /\ UNCHANGED fxVars

\* The negotiation or the dial fails.
FxConnectFails(u) ==
    /\ Fail(u, "connecting") \/ Fail(u, "dialing")
    /\ UNCHANGED fxVars

\* connectChan is closed: the wait for the init message is over.
FxOnInit(u) ==
    /\ ready[u]
    /\ Moves(u, "protocol", "starting")
    /\ UNCHANGED <<alive, sent, got, reader, closed, duration, hubVars, inbox, chan, cnt, fxVars>>

\* The request to start is answered, over a connection of its own.
FxStart(u) ==
    /\ Moves(u, "starting", "sending")
    /\ cnt' = Add("connected")
    /\ UNCHANGED <<alive, sent, got, reader, closed, duration, hubVars, inbox, chan, fxVars>>

\* The answer to the request never comes: the default client has no timeout.
FxStartHangs(u) ==
    /\ Moves(u, "starting", "hung")
    /\ UNCHANGED <<alive, sent, got, reader, closed, duration, hubVars, inbox, chan, cnt, fxVars>>

\* No init message within a minute, or the start is refused.
FxStartFails(u) ==
    /\ Fail(u, "protocol") \/ Fail(u, "starting")
    /\ UNCHANGED fxVars

FxSendStep(u) == (Send(u) \/ SendFails(u) \/ StartDraining(u)) /\ UNCHANGED fxVars
FxWaitStep(u) == WaitStep(u) /\ UNCHANGED fxVars

-----------------------------------------------------------------------------
\* The init message closes connectChan; a second one panics.
FxReadInit(u) ==
    /\ alive /\ reader[u] = "reading" /\ inits[u] > 0
    /\ inits' = [inits EXCEPT ![u] = @ - 1]
    /\ alive' = ~ready[u]
    /\ ready' = [ready EXCEPT ![u] = TRUE]
    /\ cnt' = Add("recv")
    /\ UNCHANGED <<mainVars, reader, closed, duration, hubVars, inbox, chan>>

\* Faulty variant: every message is taken for the init message as well.
FxReadFrameClosing(u, m) ==
    /\ Reads(u, m)
    /\ inbox' = Taken(u, m)
    /\ cnt' = Add("recv")
    /\ alive' = ~ready[u]
    /\ ready' = [ready EXCEPT ![u] = TRUE]
    /\ UNCHANGED <<mainVars, reader, closed, duration, hubVars, chan, inits>>

\* A frame of a user is counted, and an own one goes to recvChan.
FxReadFrame(u, m) == ReadBroadcast(u, m) /\ UNCHANGED fxVars

\* An ack, a message without frames, and one that carries no time.
FxReadOther(u) == ReadOther(u) /\ UNCHANGED fxVars

\* The send on recvChan; a message that is no JSON; a frame without arguments;
\* and a read that fails.
FxReadRest(u) ==
    /\ SendLatency(u) \/ ReadGarbage(u) \/ ReadMalformed(u) \/ ReadFails(u)
    /\ UNCHANGED fxVars

FxReaderStep(u) ==
    FxReadInit(u) \/ (\E m \in Users : FxReadFrame(u, m)) \/ FxReadOther(u) \/ FxReadRest(u)

-----------------------------------------------------------------------------
\* The hub sends the init message, or another one, which counts as its own and
\* is a breach.
HubSendsInit(u) ==
    /\ alive /\ Open(u)
    /\ IF ready[u] \/ inits[u] > 0
         THEN own < MaxOwn /\ own' = own + 1 /\ breaches' = breaches + 1
         ELSE UNCHANGED <<own, breaches>>
    /\ inits' = [inits EXCEPT ![u] = @ + 1]
    /\ UNCHANGED <<alive, mainVars, reader, closed, duration, relayed, inbox, chan, cnt, ready>>

HubStep(u) ==
    \/ HubSendsInit(u)
    \/ Relay(u) /\ UNCHANGED fxVars
    \/ (\E k \in HubKinds : HubSends(u, k)) /\ UNCHANGED fxVars

FxMainStep(u) ==
    \/ FxOnInit(u) \/ FxStart(u) \/ FxStartHangs(u) \/ FxStartFails(u)
    \/ FxSendStep(u) \/ FxWaitStep(u)

FxNext ==
    \E u \in Users :
        \/ Enter(u) /\ UNCHANGED fxVars
        \/ FxNegotiate(u) \/ FxDial(u) \/ FxConnectFails(u)
        \/ FxMainStep(u) \/ FxReaderStep(u) \/ HubStep(u)

-----------------------------------------------------------------------------
(***************************************************************************)
(* Property.                                                               *)
(***************************************************************************)

\* A hub that sends each connection one init message, acknowledges, relays, and
\* sends what the reader understands or can refuse, never ends the agent's
\* process, whatever the order of it: a second init message or a malformed one
\* is needed to close connectChan twice or to panic, or a negative
\* broadcastDurationSecs.
PanicIsProvoked == ~alive => breaches > 0 \/ duration = "negative"
=============================================================================
