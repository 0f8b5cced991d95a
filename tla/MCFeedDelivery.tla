--------------------------- MODULE MCFeedDelivery ----------------------------
(***************************************************************************)
(* Instances of FeedDelivery for TLC.                                      *)
(***************************************************************************)
EXTENDS FeedDelivery, TLC

CONSTANTS f1, f2

MCSymmetry == Permutations(Feeds)
=============================================================================
