--------------------------- MODULE MCSessionUsers ---------------------------
(***************************************************************************)
(* Instances of SessionUsers for TLC.                                      *)
(***************************************************************************)
EXTENDS SessionUsers

\* Percentages that divide evenly, that float64 rounds, and a zero.
ThreeSessions == <<50, 29, 0>>
=============================================================================
