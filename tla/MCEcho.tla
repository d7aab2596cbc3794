------------------------------- MODULE MCEcho -------------------------------
(***************************************************************************)
(* The two sessions that wait for an echo, for TLC: a behaviour is one of  *)
(* either.  They share the variables that mean the same.                   *)
(***************************************************************************)
EXTENDS WebPubSubEcho

CONSTANT MaxMessages

VARIABLES
    kind,  \* the session: "web" or "core"
    alive, echoed, seen, progress  \* of the SignalR session

Core == INSTANCE SignalRCoreEcho

webVars  == <<held, taken, sent>>
coreVars == <<alive, echoed, seen, progress>>
mcVars   == <<kind, echoVars, coreVars>>

MCInit == kind \in {"web", "core"} /\ EchoInit /\ Core!Init

OfWeb  == kind = "web" /\ UNCHANGED <<kind, coreVars>>
OfCore == kind = "core" /\ UNCHANGED <<kind, webVars>>

MCNext == (EchoNext /\ OfWeb) \/ (Core!Next /\ OfCore)

\* Writes return, timeouts fire, and the reader of the SignalR session returns
\* from a closed connection.  The last select of the Web PubSub session starts a
\* new timeout with every ack, of which a server sends finitely many.
MCSpec ==
    /\ MCInit /\ [][MCNext]_mcVars
    /\ WF_mcVars(OfWeb /\ Timeout)
    /\ WF_mcVars(OfCore /\ Core!WriteStep)
    /\ WF_mcVars(OfCore /\ Core!Timeout)
    /\ WF_mcVars(OfCore /\ closed /\ (Core!Read \/ Core!ReadFails))

-----------------------------------------------------------------------------
\* A success of webpubsub:echo is counted for a complete exchange only.
WebSuccess == kind = "web" => SuccessIsCompleteExchange

\* The reader of webpubsub:echo is left behind by most of the ways to end.
WebReaderIsLeft == kind = "web" => ReaderIsLeft

\* A success of signalrcore:echo stands for exactly one echo.
CoreSuccess == kind = "core" => Core!SuccessIsEchoed

\* Only a second echo or a malformed message ends the process.
CorePanicIsProvoked == kind = "core" => Core!PanicIsProvoked

\* Execute returns in both sessions, whatever the server sends or does not send,
\* and in signalrcore:echo the reader ends as well, if the process survives.
SessionEnds ==
    /\ (kind = "web" /\ main = "connecting") ~> Returned
    /\ (main = "writing") ~> ((Returned /\ reader = "ended") \/ ~alive)
=============================================================================
