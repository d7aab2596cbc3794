------------------------ MODULE SignalRCoreBroadcast ------------------------
(***************************************************************************)
(* The session signalrcore:broadcast:sender                                *)
(* (sessions/signalr_core_broadcast_sender.go): users of one agent that    *)
(* each send broadcasts through a hub and wait for their own.              *)
(*                                                                         *)
(* A user is one call of Execute with its reader goroutine.  The hub is    *)
(* external: it relays a message at most once to each open connection, may *)
(* stop doing so, and may send messages of its own.  A message is its      *)
(* sender, or the kind of a message of the hub; the order in which         *)
(* messages wait for a reader is not kept.                                 *)
(***************************************************************************)
EXTENDS Integers, FiniteSets

CONSTANTS
    Users,
    Total,    \* broadcastDurationSecs, when it is not negative
    MaxOwn    \* bound: messages of the hub's own

ASSUME BroadcastAssumption ==
    /\ IsFiniteSet(Users)
    /\ Total \in Nat
    /\ MaxOwn \in Nat
    /\ {"other", "garbage", "malformed"} \cap Users = {}

VARIABLES
    alive,     \* the agent process runs
    duration,  \* the parameter broadcastDurationSecs: "valid" or "negative"
    main,      \* control of Execute
    reader,    \* control of the reader; "ended" is a closed closeChan
    closed,    \* c.Close has been called
    sent,      \* messages of the user that are on the way to the hub, or there
    relayed,   \* messages of the user the hub has relayed
    inbox,     \* messages on the way to each reader
    chan,      \* latencies in recvChan
    got,       \* latencies taken from recvChan
    own,       \* messages of the hub's own
    breaches,  \* those of them that no hub that keeps to its protocol sends
    cnt        \* the counters

hubVars  == <<relayed, own, breaches>>
mainVars == <<main, sent, got>>
vars     == <<alive, duration, mainVars, reader, closed, hubVars, inbox, chan, cnt>>

\* Messages of the hub: valid JSON, no JSON, and one the reader panics on (no
\* byte at all, or a broadcastMessage without arguments).
HubKinds == {"other", "garbage", "malformed"}
Messages == Users \cup HubKinds
Counters == {"inprogress", "connected", "success", "error", "closeerror", "recv", "send", "latency",
             "instance"}

Connected  == {"sending", "draining", "closing"}
InProgress == Connected \cup {"connecting", "dialing", "protocol", "starting", "hung"}
Ended      == {"succeeded", "unclosed", "failed"}

NoMessage == [m \in Messages |-> 0]
Add(c)    == [cnt EXCEPT ![c] = @ + 1]

Init ==
    /\ alive = TRUE
    /\ duration \in {"valid", "negative"}
    /\ main = [u \in Users |-> "new"]
    /\ reader = [u \in Users |-> "none"]
    /\ closed = [u \in Users |-> FALSE]
    /\ sent = [u \in Users |-> 0]
    /\ relayed = [u \in Users |-> 0]
    /\ inbox = [u \in Users |-> NoMessage]
    /\ chan = [u \in Users |-> 0]
    /\ got = [u \in Users |-> 0]
    /\ own = 0
    /\ breaches = 0
    /\ cnt = [c \in Counters |-> 0]

-----------------------------------------------------------------------------
(***************************************************************************)
(* Execute.                                                                *)
(***************************************************************************)
Moves(u, from, to) ==
    /\ alive
    /\ main[u] = from
    /\ main' = [main EXCEPT ![u] = to]

\* Execute of u leaves state `from' for `to': the deferred decrements and the
\* deferred c.Close.
Returns(u, from, to, outcome) ==
    /\ Moves(u, from, to)
    /\ closed' = [closed EXCEPT ![u] = TRUE]
    /\ cnt' = [Add(outcome) EXCEPT !["inprogress"] = @ - 1,
                                   !["connected"] = IF from \in Connected THEN @ - 1 ELSE @]

\* Faulty variant: the connected gauge is decremented at the end only.
FailConnected(u, from) ==
    /\ Moves(u, from, "failed")
    /\ closed' = [closed EXCEPT ![u] = TRUE]
    /\ cnt' = [Add("error") EXCEPT !["inprogress"] = @ - 1]
    /\ UNCHANGED <<alive, reader, duration, hubVars, inbox, chan, got, sent>>

\* logError and a return.
Fail(u, from) ==
    /\ Returns(u, from, "failed", "error")
    /\ UNCHANGED <<alive, reader, duration, hubVars, inbox, chan, got, sent>>

Enter(u) ==
    /\ Moves(u, "new", "connecting")
    /\ cnt' = Add("inprogress")
    /\ UNCHANGED <<alive, sent, got, reader, closed, duration, hubVars, inbox, chan>>

\* The host has answered and its instance is counted: the id in its name is
\* below MaxInstances, or the index panics.
LogHostInstance(u) ==
    \/ /\ Moves(u, "connecting", "dialing")
       /\ cnt' = Add("instance")
       /\ UNCHANGED <<alive, sent, got, reader, closed, duration, hubVars, inbox, chan>>
    \/ /\ alive /\ main[u] = "connecting"
       /\ alive' = FALSE
       /\ UNCHANGED <<mainVars, reader, closed, duration, hubVars, inbox, chan, cnt>>

\* The websocket is open: the reader is spawned.
Dial(u) ==
    /\ duration = "valid"
    /\ Moves(u, "dialing", "protocol")
    /\ reader' = [reader EXCEPT ![u] = "reading"]
    /\ UNCHANGED <<alive, sent, got, closed, duration, hubVars, inbox, chan, cnt>>

\* The websocket is open, and a channel of negative size is made: a panic.
DialNegative(u) ==
    /\ alive /\ main[u] = "dialing"
    /\ duration = "negative"
    /\ alive' = FALSE
    /\ UNCHANGED <<mainVars, reader, closed, duration, hubVars, inbox, chan, cnt>>

\* The protocol is written.
SetProtocol(u) ==
    /\ ~closed[u]
    /\ Moves(u, "protocol", "sending")
    /\ cnt' = Add("connected")
    /\ UNCHANGED <<alive, sent, got, reader, closed, duration, hubVars, inbox, chan>>

\* A message is written.
Send(u) ==
    /\ alive /\ main[u] = "sending" /\ ~closed[u]
    /\ sent[u] < Total
    /\ sent' = [sent EXCEPT ![u] = @ + 1]
    /\ cnt' = Add("send")
    /\ UNCHANGED <<alive, main, got, reader, closed, duration, hubVars, inbox, chan>>

\* The write fails, possibly after the message has left.
SendFails(u) ==
    /\ sent[u] < Total
    /\ Returns(u, "sending", "failed", "error")
    /\ sent' \in {sent, [sent EXCEPT ![u] = @ + 1]}
    /\ UNCHANGED <<alive, reader, duration, hubVars, inbox, chan, got>>

StartDraining(u) ==
    /\ sent[u] = Total
    /\ Moves(u, "sending", "draining")
    /\ UNCHANGED <<alive, sent, got, reader, closed, duration, hubVars, inbox, chan, cnt>>

TakeLatency(u) ==
    /\ alive /\ main[u] = "draining"
    /\ got[u] < Total /\ chan[u] > 0
    /\ chan' = [chan EXCEPT ![u] = @ - 1]
    /\ got' = [got EXCEPT ![u] = @ + 1]
    /\ cnt' = Add("latency")
    /\ UNCHANGED <<alive, main, sent, reader, closed, duration, hubVars, inbox>>

\* The minute is over before all own messages have come back.
Timeout(u) == got[u] < Total /\ Fail(u, "draining")

\* All have come back: the close message is written.
StartClosing(u) ==
    /\ got[u] = Total /\ ~closed[u]
    /\ Moves(u, "draining", "closing")
    /\ UNCHANGED <<alive, sent, got, reader, closed, duration, hubVars, inbox, chan, cnt>>

CloseFails(u) == got[u] = Total /\ Fail(u, "draining")

\* closeChan, or a minute without it: a warning that is counted apart.
OnClose(u) ==
    /\ \/ reader[u] = "ended" /\ Returns(u, "closing", "succeeded", "success")
       \/ Returns(u, "closing", "unclosed", "closeerror")
    /\ UNCHANGED <<alive, reader, duration, hubVars, inbox, chan, got, sent>>

-----------------------------------------------------------------------------
(***************************************************************************)
(* The reader goroutine.                                                   *)
(***************************************************************************)

\* The reader returns: closeChan and the connection are closed.
ReaderReturns(u) ==
    /\ reader' = [reader EXCEPT ![u] = "ended"]
    /\ closed' = [closed EXCEPT ![u] = TRUE]
    /\ inbox' = [inbox EXCEPT ![u] = NoMessage]

Reads(u, m) ==
    /\ alive /\ reader[u] = "reading"
    /\ inbox[u][m] > 0

Taken(u, m) == [inbox EXCEPT ![u] = [inbox[u] EXCEPT ![m] = @ - 1]]

\* Faulty variant: the sender in the arguments is not compared.
ReadBroadcastOfAny(u, m) ==
    /\ Reads(u, m)
    /\ inbox' = Taken(u, m)
    /\ cnt' = Add("recv")
    /\ reader' = [reader EXCEPT ![u] = "latency"]
    /\ UNCHANGED <<alive, mainVars, closed, duration, hubVars, chan>>

\* A message of user m is counted; an own one goes to recvChan.
ReadBroadcast(u, m) ==
    /\ Reads(u, m)
    /\ inbox' = Taken(u, m)
    /\ cnt' = Add("recv")
    /\ reader' = [reader EXCEPT ![u] = IF m = u THEN "latency" ELSE @]
    /\ UNCHANGED <<alive, mainVars, closed, duration, hubVars, chan>>

\* Another message is counted, and counted as an error when it names the user
\* and carries no time: the reader goes on.
ReadOther(u) ==
    /\ Reads(u, "other")
    /\ inbox' = Taken(u, "other")
    /\ cnt' \in {Add("recv"), [Add("recv") EXCEPT !["error"] = @ + 1]}
    /\ UNCHANGED <<alive, mainVars, reader, closed, duration, hubVars, chan>>

\* The send on recvChan: blocks while the channel is full.
SendLatency(u) ==
    /\ alive /\ reader[u] = "latency"
    /\ chan[u] < Total
    /\ chan' = [chan EXCEPT ![u] = @ + 1]
    /\ reader' = [reader EXCEPT ![u] = "reading"]
    /\ UNCHANGED <<alive, mainVars, closed, duration, hubVars, inbox, cnt>>

\* A message that is no JSON ends the reader.
ReadGarbage(u) ==
    /\ Reads(u, "garbage")
    /\ ReaderReturns(u)
    /\ cnt' = Add("error")
    /\ UNCHANGED <<alive, mainVars, duration, hubVars, chan>>

\* A malformed message panics.
ReadMalformed(u) ==
    /\ Reads(u, "malformed")
    /\ alive' = FALSE
    /\ UNCHANGED <<mainVars, reader, closed, duration, hubVars, inbox, chan, cnt>>

\* Faulty variant: every failing read is counted and tried again.
ReadFailsAgain(u) ==
    /\ alive /\ reader[u] = "reading"
    /\ UNCHANGED vars

\* ReadMessage fails; an abnormal closure by the server is counted.
ReadFails(u) ==
    /\ alive /\ reader[u] = "reading"
    /\ ReaderReturns(u)
    /\ cnt' \in {cnt, Add("error")}
    /\ UNCHANGED <<alive, mainVars, duration, hubVars, chan>>

-----------------------------------------------------------------------------
(***************************************************************************)
(* The hub.                                                                *)
(***************************************************************************)
Open(u) == reader[u] # "none" /\ ~closed[u]

\* The hub relays a message of u, which may have left meanwhile.
Relay(u) ==
    /\ alive /\ relayed[u] < sent[u]
    /\ relayed' = [relayed EXCEPT ![u] = @ + 1]
    /\ inbox' = [v \in Users |-> IF Open(v) THEN [inbox[v] EXCEPT ![u] = @ + 1] ELSE inbox[v]]
    /\ UNCHANGED <<alive, mainVars, reader, closed, duration, own, breaches, chan, cnt>>

\* A message of its own; one that the reader panics on is a breach.
HubSends(u, k) ==
    /\ alive /\ Open(u) /\ own < MaxOwn
    /\ own' = own + 1
    /\ breaches' = IF k = "malformed" THEN breaches + 1 ELSE breaches
    /\ inbox' = [inbox EXCEPT ![u] = [inbox[u] EXCEPT ![k] = @ + 1]]
    /\ UNCHANGED <<alive, mainVars, reader, closed, duration, relayed, chan, cnt>>

-----------------------------------------------------------------------------
WriteStep(u) ==
    \/ SetProtocol(u) \/ Fail(u, "protocol")
    \/ Send(u) \/ SendFails(u) \/ StartDraining(u)

WaitStep(u) == TakeLatency(u) \/ Timeout(u) \/ StartClosing(u) \/ CloseFails(u) \/ OnClose(u)

ReaderStep(u) ==
    \/ \E m \in Users : ReadBroadcast(u, m)
    \/ ReadOther(u) \/ SendLatency(u) \/ ReadGarbage(u) \/ ReadMalformed(u) \/ ReadFails(u)

Next ==
    \E u \in Users :
        \/ Enter(u) \/ LogHostInstance(u) \/ Dial(u) \/ DialNegative(u)
        \/ Fail(u, "connecting") \/ Fail(u, "dialing")
        \/ WriteStep(u) \/ WaitStep(u) \/ ReaderStep(u)
        \/ Relay(u)
        \/ \E k \in HubKinds : HubSends(u, k)

Spec == Init /\ [][Next]_vars

-----------------------------------------------------------------------------
(***************************************************************************)
(* Properties.                                                             *)
(***************************************************************************)

\* The type invariant.
TypeOK ==
    /\ alive \in BOOLEAN
    /\ duration \in {"valid", "negative"}
    /\ main \in [Users -> InProgress \cup Ended \cup {"new"}]
    /\ reader \in [Users -> {"none", "reading", "latency", "ended"}]
    /\ closed \in [Users -> BOOLEAN]
    /\ sent \in [Users -> 0..Total]
    /\ relayed \in [Users -> 0..Total]
    /\ inbox \in [Users -> [Messages -> Nat]]
    /\ chan \in [Users -> 0..Total]
    /\ got \in [Users -> 0..Total]
    /\ own \in 0..MaxOwn
    /\ breaches \in 0..own
    /\ cnt \in [Counters -> Nat]

\* The send on recvChan never blocks the reader, also when Execute has failed
\* and nobody receives: the channel has room for every own message.
ReaderNeverBlocks == \A u \in Users : reader[u] = "latency" => chan[u] < Total

\* The gauges count the users that are in Execute, and those that are
\* connected, whichever way Execute ends.
GaugesExact ==
    /\ cnt["inprogress"] = Cardinality({u \in Users : main[u] \in InProgress})
    /\ cnt["connected"] = Cardinality({u \in Users : main[u] \in Connected})

\* From the open connection on both goroutines end, if the process survives:
\* Execute returns, and its reader too, also with latencies that nobody takes
\* any more.  No message of the hub is needed for that, each wait for one has a
\* timeout; but the answer to a request is, which has none ("hung").
SessionEnds ==
    \A u \in Users :
        (main[u] = "protocol") ~>
            \/ main[u] \in Ended /\ reader[u] = "ended"
            \/ main[u] = "hung"
            \/ ~alive
=============================================================================
