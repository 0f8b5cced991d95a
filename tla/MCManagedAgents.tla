-------------------------- MODULE MCManagedAgents ---------------------------
(***************************************************************************)
(* Instances of ManagedAgents for TLC.                                     *)
(***************************************************************************)
EXTENDS ManagedAgents

CONSTANTS t1, t2
=============================================================================
