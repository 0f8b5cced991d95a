----------------------------- MODULE MessageBus -----------------------------
(***************************************************************************)
(* What MessageBus of kutana_core/messaging/abc.py promises the services:   *)
(* a queue (a consumer group, or a subscription without one) is owed every  *)
(* message published while it is subscribed, and its handler is called for  *)
(* it until one call succeeds.  Only a lossy bus may drop what it owes.     *)
(* A message may be handled more than once.                                 *)
(***************************************************************************)
EXTENDS Naturals

CONSTANTS Queues, Messages

VARIABLES published,  \* messages published so far
          subscribed, \* queues somebody reads
          owed,       \* queue -> messages it is still owed
          handled,    \* queue -> messages handled with success
          lossy       \* may this bus drop messages? (fixed)
vars == <<published, subscribed, owed, handled, lossy>>

Init ==
    /\ published = {}
    /\ subscribed = {}
    /\ owed = [q \in Queues |-> {}]
    /\ handled = [q \in Queues |-> {}]
    /\ lossy \in BOOLEAN

\* A queue somebody reads is owed a new message (others may be); only a lossy
\* bus skips one.
Publish ==
    /\ \E m \in Messages \ published, to \in SUBSET Queues :
           /\ subscribed \subseteq to \/ lossy
           /\ published' = published \cup {m}
           /\ owed' = [q \in Queues |-> IF q \in to THEN owed[q] \cup {m} ELSE owed[q]]
    /\ UNCHANGED <<subscribed, handled, lossy>>

\* A subscription may ask for what was published before.
Subscribe(q) ==
    /\ subscribed' = subscribed \cup {q}
    /\ \E ms \in SUBSET (published \ handled[q]) : owed' = [owed EXCEPT ![q] = @ \cup ms]
    /\ UNCHANGED <<published, handled, lossy>>
\* Nobody reads the queue now: it is kept for who comes back, or dropped.
Leave(q) ==
    /\ subscribed' = subscribed \ {q}
    /\ \E ms \in SUBSET owed[q] :
           /\ ms \in {{}, owed[q]} \/ lossy
           /\ owed' = [owed EXCEPT ![q] = @ \ ms]
    /\ UNCHANGED <<published, handled, lossy>>

Handle(q, m) ==
    /\ m \in published
    /\ handled' = [handled EXCEPT ![q] = @ \cup {m}]
    /\ owed' = [owed EXCEPT ![q] = @ \ {m}]
    /\ UNCHANGED <<published, subscribed, lossy>>
Lose(q) ==
    /\ lossy
    /\ \E ms \in SUBSET owed[q] : owed' = [owed EXCEPT ![q] = @ \ ms]
    /\ UNCHANGED <<published, subscribed, handled, lossy>>

Next ==
    \/ Publish
    \/ \E q \in Queues : Subscribe(q) \/ Leave(q) \/ Lose(q) \/ \E m \in Messages : Handle(q, m)

\* What stays owed is handled in the end.
Fairness == \A q \in Queues, m \in Messages : WF_vars(m \in owed[q] /\ Handle(q, m))
Spec == Init /\ [][Next]_vars /\ Fairness
=============================================================================
