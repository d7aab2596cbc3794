----------------------------- MODULE MCAgentRun -----------------------------
(***************************************************************************)
(* Instances of AgentRun for TLC.                                          *)
(***************************************************************************)
EXTENDS AgentRun

\* Two phases of two sessions: shares of two and one user, then of zero and one.
TwoByTwoQuota == [c \in {1, 2} \X {1, 2} |->
                    CASE c = <<1, 1>> -> 2
                      [] c = <<2, 1>> -> 0
                      [] OTHER -> 1]
=============================================================================
