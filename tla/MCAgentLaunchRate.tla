------------------------- MODULE MCAgentLaunchRate -------------------------
(***************************************************************************)
(* An instance of AgentLaunchRate for TLC.                                 *)
(***************************************************************************)
EXTENDS AgentLaunchRate

\* One phase of one session, one agent: UsersPerSecond is two.
TwoUsersPerSecond == [c \in {1} \X {1} |-> 2]
=============================================================================
