---------------------------- MODULE MCSpeechPath -----------------------------
(***************************************************************************)
(* Instances of SpeechPath for TLC.                                        *)
(***************************************************************************)
EXTENDS SpeechPath

CONSTANTS s1, s2

MCSymmetry == Permutations(Sources)
=============================================================================
