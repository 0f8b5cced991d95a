-------------------------- MODULE MCGatewaySessions --------------------------
(***************************************************************************)
(* Instances of GatewaySessions for TLC.                                   *)
(***************************************************************************)
EXTENDS GatewaySessions, TLC

CONSTANTS a1, a2, a3, h1, h2

MCUsers == Agents \cup Humans
MCSymmetry == Permutations(Agents) \cup Permutations(Humans)
=============================================================================
