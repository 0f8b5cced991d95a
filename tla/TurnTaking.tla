----------------------------- MODULE TurnTaking -----------------------------
(***************************************************************************)
(* What turn management promises a meeting, whatever stores it: one floor, *)
(* which at most one participant holds, and a waiting room that the floor  *)
(* is handed to in order.  The interface is the abstract class TurnManager *)
(* of kutana-core; TurnQueue (the Redis implementation) is shown to        *)
(* implement this module, with the waiting room its sorted set and the     *)
(* floor its speaker key.                                                  *)
(***************************************************************************)

CONSTANTS
  Participants,      \* those who may hold the floor
  NoOne,             \* the floor when nobody speaks
  Entries,           \* raised hands; an entry knows its participant
  PidOf(_),          \* the participant of an entry
  Precedes(_, _)     \* the order in which the floor is handed on

VARIABLES
  floor,             \* the participant who may speak, or NoOne
  waiting            \* the raised hands that have not been served

turn == <<floor, waiting>>

FirstOf(S) == {e \in S : \A f \in S : f = e \/ Precedes(e, f)}

TTInit == floor = NoOne /\ waiting = {}

(* An idle floor goes to whoever asks: there is nobody before them.        *)
TakeFloor(p) ==
  /\ floor = NoOne
  /\ waiting = {}
  /\ floor' = p
  /\ UNCHANGED waiting

(* A hand raised while somebody speaks waits.                              *)
Wait(e) ==
  /\ floor # NoOne
  /\ waiting' = waiting \cup {e}
  /\ UNCHANGED floor

Withdraw(e) ==
  /\ e \in waiting
  /\ waiting' = waiting \ {e}
  /\ UNCHANGED floor

(* A turn ends: the first in the order is next, and the floor falls idle   *)
(* only when nobody waits.                                                 *)
HandOn ==
  /\ floor # NoOne
  /\ \/ /\ waiting = {}
        /\ floor' = NoOne
        /\ UNCHANGED waiting
     \/ \E e \in FirstOf(waiting) :
          /\ floor' = PidOf(e)
          /\ waiting' = waiting \ {e}

(* The host appoints a speaker; the waiting room is not touched.           *)
Appoint(p) ==
  /\ floor' = p
  /\ UNCHANGED waiting

TTNext ==
  \/ \E p \in Participants : TakeFloor(p) \/ Appoint(p)
  \/ \E e \in Entries : Wait(e) \/ Withdraw(e)
  \/ HandOn

TTSpec == TTInit /\ [][TTNext]_turn

(* With a timeout on turns no speaker keeps the floor for ever.            *)
TTFairSpec == TTSpec /\ WF_turn(HandOn)
=============================================================================
