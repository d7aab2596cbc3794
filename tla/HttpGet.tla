------------------------------- MODULE HttpGet -------------------------------
(***************************************************************************)
(* The session http-get (sessions/http_get.go, with the pool of            *)
(* connections of sessions/quic.go).                                       *)
(*                                                                         *)
(* Setup builds the client in steps, and stores it in the session before   *)
(* the steps for a proxy; the session outlives the job, and calls of the   *)
(* job before may be under way during Setup.                               *)
(*                                                                         *)
(* Of the parameters those are kept that decide how a request is sent:     *)
(* tls, a proxy that can be parsed, quic with quicMaxConnections (0 also   *)
(* when it is no number), httpProxy, and h2.                               *)
(***************************************************************************)
EXTENDS Integers, FiniteSets

CONSTANTS
    Calls,
    MaxSetups  \* bound: jobs that are set up after the first

VARIABLES
    alive,     \* the agent process runs
    main,      \* control of Execute
    links,     \* the connections of the transport its request is sent by
    setup,     \* control of Setup
    setups,    \* Setups that have begun after the first
    params,    \* the parameters of the last one
    transport, \* s.client.Transport
    progress,  \* counterInitiated
    offset,    \* calls under way when the counters were reset last
    measured,  \* the sum of the counters of durations
    completed  \* counterCompleted

setupVars == <<setup, setups, params, transport>>
countVars == <<progress, measured, completed>>
vars      == <<alive, setupVars, offset, countVars, main, links>>

Conns    == 0..1  \* quicMaxConnections: the pool divides by it
NoProxy  == [proxy : {FALSE}, quic : BOOLEAN, conns : {1}, httpProxy : {FALSE},
             tls : BOOLEAN, h2 : BOOLEAN]
WithQuic == [proxy : {TRUE}, quic : {TRUE}, conns : Conns, httpProxy : BOOLEAN,
             tls : BOOLEAN, h2 : BOOLEAN]
NoQuic   == [proxy : {TRUE}, quic : {FALSE}, conns : {1}, httpProxy : BOOLEAN,
             tls : BOOLEAN, h2 : BOOLEAN]
Params   == NoProxy \cup WithQuic \cup NoQuic

\* A transport: how it dials, over how many connections, and what wraps it.
Direct(tls) == [dial |-> IF tls THEN "tls" ELSE "tcp", conns |-> 1,
                via |-> "origin", h2 |-> TRUE]

\* The transport that parameters p ask for.
Asked(p) ==
    [dial  |-> IF p.proxy /\ p.quic THEN "quic" ELSE Direct(p.tls).dial,
     conns |-> IF p.proxy /\ p.quic THEN p.conns ELSE 1,
     via   |-> IF ~p.proxy THEN "origin" ELSE IF p.httpProxy THEN "wrapper" ELSE "proxy",
     h2    |-> p.h2]

\* Parameters whose Setup, if all dialling succeeds, ends the agent's process:
\* quic without tls, or httpProxy with h2 off.
Fatal(p) == p.proxy /\ ((p.quic /\ ~p.tls) \/ (p.httpProxy /\ ~p.h2))

UnderWay == {u \in Calls : main[u] \notin {"new", "returned"}}

\* A first job has been set up.
Init ==
    /\ alive = TRUE
    /\ main = [u \in Calls |-> "new"]
    /\ links = [u \in Calls |-> 1]
    /\ setup = "done"
    /\ setups = 0
    /\ params \in {p \in Params : ~Fatal(p)}
    /\ transport = Asked(params)
    /\ progress = 0 /\ offset = 0 /\ measured = 0 /\ completed = 0

-----------------------------------------------------------------------------
(***************************************************************************)
(* Setup.                                                                  *)
(***************************************************************************)
SetupGoto(from, to) ==
    /\ alive /\ setup = from
    /\ setup' = to
    /\ UNCHANGED <<main, links>>

\* A Setup begins and resets the counters, whoever is still counting.
SetupReset ==
    /\ setups < MaxSetups
    /\ \E from \in {"done", "failed"} : SetupGoto(from, "client")
    /\ setups' = setups + 1
    /\ params' \in Params
    /\ progress' = 0 /\ measured' = 0 /\ completed' = 0
    /\ offset' = Cardinality(UnderWay)
    /\ UNCHANGED <<alive, transport>>

\* Faulty variant: the steps for a proxy are taken without one.
NewClientProxied ==
    /\ SetupGoto("client", "quic")
    /\ transport' = Direct(params.tls)
    /\ UNCHANGED <<alive, setups, params, offset, countVars>>

\* The new client is stored: from here on calls use it.
NewClient ==
    /\ SetupGoto("client", IF params.proxy THEN "quic" ELSE "h2")
    /\ transport' = Direct(params.tls)
    /\ UNCHANGED <<alive, setups, params, offset, countVars>>

\* The pool of quic connections.  The configuration of TLS is nil without tls,
\* and writing to it panics; a connection that cannot be dialled fails Setup.
QuicDial ==
    /\ UNCHANGED <<setups, params, offset, countVars>>
    /\ \/ /\ ~params.quic
          /\ SetupGoto("quic", "proxy") /\ UNCHANGED <<alive, transport>>
       \/ /\ params.quic /\ ~params.tls
          /\ SetupGoto("quic", "failed") /\ alive' = FALSE /\ UNCHANGED transport
       \/ /\ params.quic /\ params.tls
          /\ SetupGoto("quic", "proxy")
          /\ transport' = [transport EXCEPT !.dial = "quic", !.conns = params.conns]
          /\ UNCHANGED alive
       \/ /\ params.quic /\ params.tls /\ params.conns > 0
          /\ SetupGoto("quic", "failed") /\ UNCHANGED <<alive, transport>>

\* The transport is wrapped, or given the proxy.
SetProxy ==
    /\ SetupGoto("proxy", "h2")
    /\ transport' = [transport EXCEPT !.via = IF params.httpProxy THEN "wrapper" ELSE "proxy"]
    /\ UNCHANGED <<alive, setups, params, offset, countVars>>

\* HTTP/2 is disabled on the transport; the assertion of its type panics on
\* what wraps it.
DisableH2 ==
    /\ UNCHANGED <<setups, params, offset, countVars>>
    /\ \/ /\ params.h2 \/ transport.via # "wrapper"
          /\ SetupGoto("h2", "done")
          /\ transport' = [transport EXCEPT !.h2 = params.h2]
          /\ UNCHANGED alive
       \/ /\ ~params.h2 /\ transport.via = "wrapper"
          /\ SetupGoto("h2", "failed") /\ alive' = FALSE /\ UNCHANGED transport

-----------------------------------------------------------------------------
(***************************************************************************)
(* Execute.                                                                *)
(***************************************************************************)
Goto(u, from, to) ==
    /\ alive /\ main[u] = from
    /\ main' = [main EXCEPT ![u] = to]
    /\ UNCHANGED <<setupVars, offset>>

Begin(u) ==
    /\ Goto(u, "new", "begun")
    /\ progress' = progress + 1
    /\ UNCHANGED <<alive, measured, completed, links>>

\* The request is sent by the client of the moment.
Send(u) ==
    /\ Goto(u, "begun", "sent")
    /\ links' = [links EXCEPT ![u] = transport.conns]
    /\ UNCHANGED <<alive, countVars>>

\* A pool without connections is divided by their number.
EmptyPool(u) ==
    /\ Goto(u, "sent", "sent")
    /\ links[u] = 0
    /\ alive' = FALSE
    /\ UNCHANGED <<countVars, links>>

\* Faulty variant: the error leaves the gauge as it is.
GetFailsUncounted(u) ==
    /\ Goto(u, "sent", "returned")
    /\ UNCHANGED <<alive, countVars, links>>

GetFails(u) ==
    /\ Goto(u, "sent", "returned")
    /\ progress' = progress - 1
    /\ links' = [links EXCEPT ![u] = 1]
    /\ UNCHANGED <<alive, measured, completed>>

\* The body is read, and the duration counted.
Measure(u) ==
    /\ links[u] > 0
    /\ Goto(u, "sent", "measured")
    /\ measured' = measured + 1
    /\ UNCHANGED <<alive, progress, completed, links>>

Complete(u) ==
    /\ Goto(u, "measured", "returned")
    /\ progress' = progress - 1
    /\ completed' = completed + 1
    /\ UNCHANGED <<alive, measured, links>>

CallStep(u) ==
    Send(u) \/ EmptyPool(u) \/ GetFails(u) \/ Measure(u) \/ Complete(u)
SetupStep == SetupReset \/ NewClient \/ QuicDial \/ SetProxy \/ DisableH2

Next == SetupStep \/ \E u \in Calls : Begin(u) \/ CallStep(u)

Spec == Init /\ [][Next]_vars

-----------------------------------------------------------------------------
(***************************************************************************)
(* Properties.                                                             *)
(***************************************************************************)

\* The counters balance when no call was under way as they were reset; and if
\* calls were, the gauge of initiated ones is short by them.
CountersBalance ==
    /\ progress + offset = Cardinality(UnderWay)
    /\ offset = 0 => measured = completed + Cardinality({u \in Calls : main[u] = "measured"})

\* A Setup that succeeds leaves the client that its parameters ask for, which
\* it has stored before it was complete and changed in place.  Parameters that
\* are fatal are never set up, and no others end the process in Setup; in a call
\* it is ended by a quic pool without connections.
SetupAsAsked ==
    /\ setup = "done" => transport = Asked(params) /\ ~Fatal(params)
    /\ ~alive => Fatal(params) \/ \E u \in Calls : links[u] = 0
=============================================================================
