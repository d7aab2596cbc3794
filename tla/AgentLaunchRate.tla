-------------------------- MODULE AgentLaunchRate --------------------------
(***************************************************************************)
(* AgentRun with a clock of seconds: how many users a launcher starts      *)
(* between two ticks of it.                                                *)
(***************************************************************************)
EXTENDS AgentRun

VARIABLE burst  \* launches of each crew since the second began, up to its share + 1

rateVars == <<vars, burst>>

\* Crew c launches a user in this step.
Launches(c) == launcher[c] = "select" /\ started'[c] > started[c]

RateInit == Init /\ burst = [c \in Crews |-> 0]

\* A step of the agent, with the launches counted.
AgentStep ==
    /\ Next
    /\ burst' = [c \in Crews |->
                   IF Launches(c) /\ burst[c] <= Quota[c] THEN burst[c] + 1 ELSE burst[c]]

\* A second is over.
SecondPasses ==
    /\ burst' = [c \in Crews |-> 0]
    /\ UNCHANGED vars

RateNext == AgentStep \/ SecondPasses

RateSpec == RateInit /\ [][RateNext]_rateVars

\* README.md:45 says of UsersPerSecond: "Number of users launched per second."
\* With one agent and one session, the share is UsersPerSecond: no launcher
\* starts more users than that within a second.
LaunchRate == \A c \in Crews : burst[c] <= Quota[c]
=============================================================================
