------------------------------ MODULE ApiServer ------------------------------
(***************************************************************************)
(* The API server: the requests of Accounts, Subscriptions and Records on   *)
(* one database.  The kinds of requests that come together are a mix,       *)
(* chosen initially, so that a run looks at many small mixes rather than    *)
(* at one large one; all requests of a mix interleave freely, and the       *)
(* process may die at any point.                                            *)
(***************************************************************************)
EXTENDS Accounts, Subscriptions, Records

CONSTANT Mixes  \* sets of operations

\* The requests of a mix belong to one of the three parts.
ASSUME MixesAssumption ==
    \A m \in Mixes : m \subseteq AccountOps \/ m \subseteq SubscriptionOps \/ m \subseteq RecordOps

VARIABLE mix
vars == <<dbVars, accountVars, billVars, recordVars, mix>>

Part == CASE mix \subseteq AccountOps -> "accounts"
          [] mix \subseteq SubscriptionOps -> "subscriptions"
          [] mix \subseteq RecordOps -> "records"

\* Before registration there is no account; a checkout is the first one.
InitialRows ==
    IF "register" \in mix THEN NoWrites ELSE [x \in {"users"} |-> NewUser(None)]
InitialCustomer == IF "checkout" \in mix THEN None ELSE 1
\* A deletion meets every kind of row that refers to the meeting.
InitialLeaves ==
    IF "delete" \in mix THEN Leaves \cup {"decisions"} ELSE {"transcript_segments"}

Init ==
    /\ mix \in Mixes
    /\ AccountsInit
    /\ SubscriptionsInit(InitialCustomer)
    /\ CASE Part = "accounts" ->
                TransactionsInit(InitialRows) /\ announced = {} /\ liveKit = FALSE
         [] Part = "subscriptions" ->
                /\ TransactionsInit([x \in {"users"} |-> NewAccount(InitialCustomer)])
                /\ announced = {} /\ liveKit = FALSE
         [] Part = "records" -> RecordsInit(InitialLeaves)

Accounts(A) == Part = "accounts" /\ A /\ UNCHANGED <<billVars, recordVars, mix>>
Billing(A) == Part = "subscriptions" /\ A /\ UNCHANGED <<accountVars, recordVars, mix>>
Recording(A) == Part = "records" /\ A /\ UNCHANGED <<accountVars, billVars, mix>>

Arrivals(r) ==
    \/ Accounts(\E op \in mix : Arrive(r, op))
    \/ Accounts(mix \cap {"forgot", "resend"} # {} /\ FollowLink(r))
    \/ Billing(Deliver(r) \/ \E op \in mix : Subscribe(r, op))
    \/ Recording(\E op \in mix : Receive(r, op))

\* A step of a request that has arrived.
Works(r) ==
    Accounts(AccountStep(r)) \/ Billing(SubscriptionStep(r)) \/ Recording(RecordStep(r))

Environment ==
    \/ Accounts(KeyExpires)
    \/ Billing(StripeStep)
    \/ Billing("create_meeting" \in mix /\ CycleEnds)
Dies == Accounts(AccountsCrash) \/ Billing(SubscriptionsCrash) \/ Recording(RecordsCrash)

Next == Environment \/ Dies \/ \E r \in Requests : Arrivals(r) \/ Works(r)

\* Requests run to their end; Postgres grants a row's lock in the order of
\* the requests that wait for it, so none waits for ever.
Fairness == \A r \in Requests : SF_vars(Works(r))
Spec == Init /\ [][Next]_vars /\ Fairness
-----------------------------------------------------------------------------
TypeOK ==
    /\ DatabaseIsWhole
    /\ AccountsTypeOK
    /\ Part = "subscriptions" => SubscriptionsTypeOK
    /\ Part = "records" => RecordsTypeOK

\* LastMailWorks, where there are accounts: the link in the last mail works
\* until it is used (forgot_password, resend_verification, get_db_session).
LinkWorks == Part = "accounts" => LastMailWorks

\* MirrorsStripe, where there are subscriptions: once all events are handled
\* the account is what Stripe says (_apply_subscription, stripe_webhook).
PlanMirrorsStripe == Part = "subscriptions" => MirrorsStripe

\* Every request is answered, whatever the others do: none waits for ever for
\* a lock another keeps (get_db_session ends every transaction).
RequestsEnd == \A r \in Requests : req[r] # Idle ~> req[r] = Idle
=============================================================================
