--------------------------- MODULE AgentRegistry ---------------------------
(***************************************************************************)
(* The service's list of agents: agents register themselves every five     *)
(* seconds (autoRegisterAgent, cmd/main.go), the service notes the time    *)
(* (HandleAgentRegister) and every five seconds drops the addresses it has *)
(* not heard of for more than fifteen (CheckExpiredAgents).                *)
(*                                                                         *)
(* Time passes in unit steps; what is due happens before time goes on.     *)
(* Times are kept relative to now: how long ago, or in how long.           *)
(*                                                                         *)
(* A registration arrives or fails within MaxLatency, or it hangs: the     *)
(* agent's request has no timeout, and it posts no other one meanwhile.    *)
(***************************************************************************)
EXTENDS Integers

CONSTANTS
    Agents,
    Period,      \* between two ticks of an agent
    CheckEvery,  \* between two checks of the service
    Expiry,      \* age a registration must exceed to be dropped
    MaxLatency,  \* of a registration that arrives or fails
    MaxMissed,   \* bound: registrations an agent loses in a row
    MaxAge       \* bound: ages are not followed beyond this

\* The time after which a live agent has been heard of again.
MaxQuiet == (MaxMissed + 1) * Period + MaxLatency

ASSUME RegistryAssumption ==
    /\ Period \in Nat /\ CheckEvery \in Nat \ {0} /\ Expiry \in Nat
    /\ MaxLatency \in Nat /\ MaxLatency < Period
    /\ MaxMissed \in Nat /\ MaxAge \in Nat
    /\ MaxAge > MaxLatency + Expiry + CheckEvery

VARIABLES
    alive,   \* the agent process runs
    due,     \* time to the agent's next tick, or Overdue when one is waiting
    post,    \* how long its registration request is under way, Idle, or Hanging
    hung,    \* a request of it has hung since the service heard of it
    missed,  \* registrations it has lost in a row
    reg,     \* age of its entry in c.regAgentAddrs, or Unlisted
    check,   \* time to the next check of the service
    quiet,   \* time since the service heard of it, or since one of them started
    gone     \* time since it died

vars == <<alive, due, post, hung, missed, reg, check, quiet, gone>>

Idle     == -1
Hanging  == -2
Overdue  == -1
Unlisted == -1

Older(t) == IF t < MaxAge THEN t + 1 ELSE t

\* The type invariant.
TypeOK ==
    /\ alive \in [Agents -> BOOLEAN]
    /\ due \in [Agents -> Overdue..Period]
    /\ post \in [Agents -> Hanging..MaxLatency]
    /\ hung \in [Agents -> BOOLEAN]
    /\ missed \in [Agents -> 0..MaxMissed]
    /\ reg \in [Agents -> Unlisted..MaxAge]
    /\ check \in 0..CheckEvery
    /\ quiet \in [Agents -> 0..MaxAge]
    /\ gone \in [Agents -> 0..MaxAge]

Init ==
    /\ alive = [a \in Agents |-> TRUE]
    /\ due \in [Agents -> 0..Period]
    /\ post = [a \in Agents |-> Idle]
    /\ hung = [a \in Agents |-> FALSE]
    /\ missed = [a \in Agents |-> 0]
    /\ reg = [a \in Agents |-> Unlisted]
    /\ check \in 0..CheckEvery
    /\ quiet = [a \in Agents |-> 0]
    /\ gone = [a \in Agents |-> 0]

\* A tick of the agent: it posts its address.  The ticker keeps one tick for an
\* agent that is busy, and goes on at its own pace.
AutoRegister(a) ==
    /\ alive[a] /\ post[a] = Idle
    /\ due[a] <= 0
    /\ \E t \in 1..Period :
         /\ due[a] = 0 => t = Period
         /\ due' = [due EXCEPT ![a] = t]
    /\ post' = [post EXCEPT ![a] = 0]
    /\ UNCHANGED <<alive, hung, missed, reg, check, quiet, gone>>

\* The service notes the time of the registration; one that hung may arrive after
\* all.
HandleAgentRegister(a) ==
    /\ post[a] # Idle
    /\ post' = [post EXCEPT ![a] = Idle]
    /\ reg' = [reg EXCEPT ![a] = 0]
    /\ hung' = [hung EXCEPT ![a] = FALSE]
    /\ missed' = [missed EXCEPT ![a] = 0]
    /\ quiet' = [quiet EXCEPT ![a] = 0]
    /\ UNCHANGED <<alive, due, check, gone>>

\* The request fails; the agent logs it and waits for its next tick.
RegisterFails(a) ==
    /\ post[a] \notin {Idle, Hanging}
    /\ missed[a] < MaxMissed
    /\ post' = [post EXCEPT ![a] = Idle]
    /\ missed' = [missed EXCEPT ![a] = @ + 1]
    /\ UNCHANGED <<alive, due, hung, reg, check, quiet, gone>>

\* The request hangs, on a connection that stays open ...
Hangs(a) ==
    /\ alive[a] /\ post[a] \notin {Idle, Hanging}
    /\ post' = [post EXCEPT ![a] = Hanging]
    /\ hung' = [hung EXCEPT ![a] = TRUE]
    /\ UNCHANGED <<alive, due, missed, reg, check, quiet, gone>>

\* ... and fails at last.
HangEnds(a) ==
    /\ post[a] = Hanging
    /\ post' = [post EXCEPT ![a] = Idle]
    /\ UNCHANGED <<alive, due, hung, missed, reg, check, quiet, gone>>

\* Faulty variant: the age is compared with the period of the agents.
CheckExpiredAgentsSoon ==
    /\ check = 0
    /\ check' = CheckEvery
    /\ reg' = [a \in Agents |-> IF reg[a] > Period THEN Unlisted ELSE reg[a]]
    /\ UNCHANGED <<alive, due, post, hung, missed, quiet, gone>>

\* Faulty variant: the comparison is the other way round.
CheckExpiredAgentsNever ==
    /\ check = 0
    /\ check' = CheckEvery
    /\ UNCHANGED <<alive, due, post, hung, missed, reg, quiet, gone>>

\* The check of the service.
CheckExpiredAgents ==
    /\ check = 0
    /\ check' = CheckEvery
    /\ reg' = [a \in Agents |-> IF reg[a] > Expiry THEN Unlisted ELSE reg[a]]
    /\ UNCHANGED <<alive, due, post, hung, missed, quiet, gone>>

\* The agent process ends, and its connections with it; a request it has just
\* sent may still arrive.
AgentDies(a) ==
    /\ alive[a]
    /\ alive' = [alive EXCEPT ![a] = FALSE]
    /\ gone' = [gone EXCEPT ![a] = 0]
    /\ post' = [post EXCEPT ![a] = IF @ = Hanging THEN Idle ELSE @]
    /\ UNCHANGED <<due, hung, missed, reg, check, quiet>>

\* The service process is restarted: the list starts empty.
ServiceRestarts ==
    /\ reg' = [a \in Agents |-> Unlisted]
    /\ check' = CheckEvery
    /\ quiet' = [a \in Agents |-> 0]
    /\ UNCHANGED <<alive, due, post, hung, missed, gone>>

\* A unit of time passes.
Pass ==
    /\ check > 0
    /\ \A a \in Agents : alive[a] /\ post[a] = Idle => due[a] > 0
    /\ \A a \in Agents : post[a] < MaxLatency
    /\ check' = check - 1
    /\ due' = [a \in Agents |-> IF alive[a] /\ due[a] # Overdue THEN due[a] - 1 ELSE due[a]]
    /\ post' = [a \in Agents |-> IF post[a] \in {Idle, Hanging} THEN post[a] ELSE post[a] + 1]
    /\ reg' = [a \in Agents |-> IF reg[a] = Unlisted THEN Unlisted ELSE Older(reg[a])]
    /\ quiet' = [a \in Agents |-> Older(quiet[a])]
    /\ gone' = [a \in Agents |-> IF alive[a] THEN 0 ELSE Older(gone[a])]
    /\ UNCHANGED <<alive, hung, missed>>

AgentStep(a) ==
    \/ AutoRegister(a) \/ HandleAgentRegister(a) \/ RegisterFails(a)
    \/ Hangs(a) \/ HangEnds(a) \/ AgentDies(a)

Next ==
    \/ \E a \in Agents : AgentStep(a)
    \/ CheckExpiredAgents \/ ServiceRestarts \/ Pass

Spec == Init /\ [][Next]_vars

-----------------------------------------------------------------------------
\* A live agent is heard of again in time: by the tick after the last one it
\* may lose, unless a request hangs.  In particular, it is listed again that long
\* after a restart of the service.
HeardOfInTime == \A a \in Agents : alive[a] /\ ~hung[a] => quiet[a] <= MaxQuiet

\* The check drops a live agent for a hanging request only, as long as those it
\* may lose in a row leave it time for another within the expiry.
LiveAgentStaysListed ==
    [][MaxQuiet <= Expiry /\ CheckExpiredAgents =>
         \A a \in Agents :
            alive[a] /\ ~hung[a] /\ reg[a] # Unlisted => reg'[a] # Unlisted]_vars

\* A dead agent is dropped: with its last request still under way when it
\* died, and the check just over when its entry expires.
DeadAgentIsDropped ==
    \A a \in Agents :
        ~alive[a] /\ gone[a] > MaxLatency + Expiry + CheckEvery => reg[a] = Unlisted
=============================================================================
