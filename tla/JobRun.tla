------------------------------- MODULE JobRun -------------------------------
(***************************************************************************)
(* What MasterController.Run promises its caller: an abstract view of one  *)
(* run of a job and of the snapshot its writer shows.                      *)
(*                                                                         *)
(* Run writes the last snapshot before it returns; its watcher is not      *)
(* waited for, and may write once more over it.  The watcher ends after    *)
(* Run has returned.  Run may take the process down, but not once it has   *)
(* returned.                                                               *)
(***************************************************************************)
VARIABLES
    phase,  \* "new", "running", "returned" or "dead"
    watch,  \* the watcher: "none", "idle", "busy" with a collection, "ended"
    shown   \* whose snapshot the writer shows: "nobody", "watch", "final"

vars == <<phase, watch, shown>>

Init ==
    /\ phase = "new"
    /\ watch = "none"
    /\ shown = "nobody"

Begin ==
    /\ phase = "new"
    /\ phase' = "running"
    /\ UNCHANGED <<watch, shown>>

StartWatching ==
    /\ phase = "running"
    /\ watch = "none"
    /\ watch' = "idle"
    /\ UNCHANGED <<phase, shown>>

\* Also after the return, when the tick and the stop were both ready.
Collect ==
    /\ phase \in {"running", "returned"}
    /\ watch = "idle"
    /\ watch' = "busy"
    /\ UNCHANGED <<phase, shown>>

WriteSnapshot ==
    /\ phase \in {"running", "returned"}
    /\ watch = "busy"
    /\ watch' = "idle"
    /\ shown' = "watch"
    /\ UNCHANGED phase

StopWatching ==
    /\ phase \in {"running", "returned"}
    /\ watch = "idle"
    /\ watch' = "ended"
    /\ UNCHANGED <<phase, shown>>

Finish ==
    /\ phase = "running"
    /\ watch # "none"
    /\ phase' = "returned"
    /\ shown' = "final"
    /\ UNCHANGED watch

Die ==
    /\ phase = "running"
    /\ phase' = "dead"
    /\ UNCHANGED <<watch, shown>>

Next ==
    \/ Begin \/ StartWatching \/ Collect \/ WriteSnapshot
    \/ StopWatching \/ Finish \/ Die

Spec == Init /\ [][Next]_vars

\* Once Run has returned, the watcher writes what it holds and ends.
FairSpec ==
    /\ Spec
    /\ WF_vars(phase = "returned" /\ WriteSnapshot)
    /\ SF_vars(phase = "returned" /\ StopWatching)
=============================================================================
