----------------------------- MODULE MCBroadcast -----------------------------
(***************************************************************************)
(* The two sessions that broadcast, for TLC: a behaviour is one of either. *)
(***************************************************************************)
EXTENDS SignalRFxBroadcast

VARIABLE flavour  \* "core" or "fx"

mcVars == <<flavour, vars, fxVars>>

MCInit == FxInit /\ flavour \in {"core", "fx"}

OfCore == flavour = "core" /\ UNCHANGED <<flavour, fxVars>>
OfFx   == flavour = "fx" /\ UNCHANGED flavour

MCNext == (Next /\ OfCore) \/ (FxNext /\ OfFx)

\* In either session writes return, timeouts fire, the reader runs and a read of
\* a closed connection returns.  The hub owes nothing: the request to start is
\* answered, fails, or hangs.
MCSpec ==
    /\ MCInit /\ [][MCNext]_mcVars
    /\ \A u \in Users :
        /\ WF_mcVars(\/ OfCore /\ (WriteStep(u) \/ WaitStep(u))
                     \/ OfFx /\ FxMainStep(u))
        /\ WF_mcVars(\/ OfCore /\ (SendLatency(u) \/ (closed[u] /\ ReaderStep(u)))
                     \/ OfFx /\ \/ SendLatency(u) /\ UNCHANGED fxVars
                                \/ closed[u] /\ FxReaderStep(u))

-----------------------------------------------------------------------------
\* In the session of ASP.NET, a hub that keeps to its protocol does not end the
\* agent's process, unless the duration is negative (PanicIsProvoked).
FxPanicIsProvoked == flavour = "fx" => PanicIsProvoked
=============================================================================
