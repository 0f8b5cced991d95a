---------------------------- MODULE ConsumerGroup ----------------------------
(***************************************************************************)
(* A Redis consumer group with one consumer, as the services use it:       *)
(* XREADGROUP with ">" hands over a batch of entries that were never       *)
(* delivered, XACK removes an entry from the pending list, and nobody      *)
(* reads the pending list again (no XAUTOCLAIM, no read from an id).  The  *)
(* entries of a stream are numbered from 1.                                *)
(***************************************************************************)
EXTENDS Naturals, Sequences

(* last: the last entry delivered; pending: delivered and not acknowledged *)
(* yet; hand: what is left of the batch the consumer works on.             *)
NewGroup(n) == [last |-> n, pending |-> {}, hand |-> <<>>]

Batches(g, length, size) ==
  {k \in 1..size : g.hand = <<>> /\ g.last + k <= length}

ReadGroup(g, k) ==
  [last |-> g.last + k,
   pending |-> g.pending \cup (g.last + 1)..(g.last + k),
   hand |-> [i \in 1..k |-> g.last + i]]

Busy(g) == g.hand # <<>>
Current(g) == Head(g.hand)

Acked(g) == [g EXCEPT !.pending = @ \ {Head(g.hand)}, !.hand = Tail(@)]

(* The consumer goes on without acknowledging the entry.                   *)
Skipped(g) == [g EXCEPT !.hand = Tail(@)]

(* An exception or a crash: the rest of the batch is out of reach.         *)
Dropped(g) == [g EXCEPT !.hand = <<>>]
=============================================================================
