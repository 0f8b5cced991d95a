-------------------------- MODULE MCSegmentWindows ---------------------------
(***************************************************************************)
(* Instances of SegmentWindows for TLC.                                    *)
(***************************************************************************)
EXTENDS SegmentWindows

CONSTANTS w1, w2
=============================================================================
