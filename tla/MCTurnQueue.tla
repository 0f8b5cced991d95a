---------------------------- MODULE MCTurnQueue -----------------------------
(***************************************************************************)
(* Instances of TurnQueue for TLC.                                         *)
(***************************************************************************)
EXTENDS TurnQueue, TLC

CONSTANTS p1, p2, p3, c1, c2, c3, m1

MCTwo == {p1, p2}
MCThree == {p1, p2, p3}

(* A gateway session and a second surface (MCP or REST) for everyone.      *)
MCShared == [c \in Clients |-> Participants]

(* One caller each: what a single agent or browser session is.             *)
MCOneEach == [c \in Clients |->
                IF c = c1 THEN {p1} ELSE IF c = c2 THEN {p2} ELSE {p3}]

MCSymmetry == Permutations(Participants)
=============================================================================
