---------------------------- MODULE Subscriptions ----------------------------
(***************************************************************************)
(* Billing of the API server: checkout, portal and webhooks of              *)
(* routes/billing.py, the limits of billing_deps.py and the handlers that   *)
(* count against them.  One account; Stripe is the environment: it makes    *)
(* customers and checkout sessions, changes the subscription and sends an   *)
(* event for each change, again and again until one delivery is answered,   *)
(* in the order of the changes.                                             *)
(***************************************************************************)
EXTENDS Transactions, Integers, Sequences

CONSTANTS MeetingLimit,  \* MEETINGS_PER_MONTH of the basic tier
          AgentLimit,    \* AGENT_CONFIG_LIMIT and FEED_LIMIT of the basic tier
          MaxCustomers,  \* bound on customers made at Stripe
          MaxChanges     \* bound on changes of the subscription at Stripe

ASSUME SubscriptionsAssumption ==
    /\ MeetingLimit \in Nat /\ AgentLimit \in Nat
    /\ MaxCustomers \in Nat /\ MaxChanges \in Nat

VARIABLES stripe,    \* [sub, customer, status, tier] as Stripe has them
          customers, \* customers made at Stripe for this account
          sessions,  \* customers with a checkout session the user may pay
          events,    \* events not yet answered, in the order of the changes
          changes,   \* changes so far
          owned      \* kind of limited row -> rows of the account
billVars == <<stripe, customers, sessions, events, changes, owned>>

Statuses == {"trialing", "active", "past_due", "canceled"}
Tiers == {"basic", "pro"}
Account == table["users"]
NewAccount(customer) == Row("users", [ customer |-> customer, sub |-> None, status |-> "trialing",
                             tier |-> "basic", used |-> 0, cycle |-> "none" ])

\* The account has no customer at Stripe yet, or one and a checkout to pay.
SubscriptionsInit(customer) ==
    /\ stripe = [sub |-> None, customer |-> None, status |-> "trialing", tier |-> "basic"]
    /\ customers = IF customer = None THEN 0 ELSE 1
    /\ sessions = {customer} \ {None}
    /\ events = <<>>
    /\ changes = 0
    /\ owned = [k \in {"agents", "feeds"} |-> 0]

-----------------------------------------------------------------------------
\* Limits

IsSubscriptionActive(row) == row.status \in {"active", "trialing"}
\* The limits of the higher tiers are above every bound here.
Unlimited(row) == row.tier # "basic"

\* The cycle restarts when there is none or its thirty days are over; what
\* is decided from is the row as the request loaded it.
MaybeResetCycle(row) ==
    IF row.cycle = "running" THEN [used |-> row.used, cycle |-> "running"]
    ELSE [used |-> 0, cycle |-> "running"]
CycleEnds ==
    /\ Account.cycle = "running"
    /\ \A r \in Requests : ~Holds(r, "users")
    /\ table' = [table EXCEPT !["users"].cycle = "over"]
    /\ UNCHANGED <<writes, req, billVars>>

\* Numbers above a limit are one: the code only compares them with it.
OneMore(n, limit) == IF n > limit THEN n ELSE n + 1

CheckMeetingLimit(row) ==
    /\ IsSubscriptionActive(row)
    /\ Unlimited(row) \/ MaybeResetCycle(row).used < MeetingLimit
\* create_meeting adds one to what it loaded: increments may be lost.
CreateMeeting(r) ==
    /\ At(r, "create_meeting", "write")
    /\ LET row == req[r].saw IN
       IF CheckMeetingLimit(row)
       THEN LET c == MaybeResetCycle(row) IN
            /\ Update(r, "users", [c EXCEPT !.used = OneMore(@, MeetingLimit)])
            /\ Goto(r, "commit")
            /\ UNCHANGED table
       ELSE Fail(r)
    /\ UNCHANGED billVars

\* check_agent_config_limit and check_feed_limit count the rows committed by
\* now; the row is inserted in a later statement.
CheckLimit(r, kind) ==
    /\ At(r, kind, "write")
    /\ IF IsSubscriptionActive(req[r].saw) /\ (Unlimited(req[r].saw) \/ owned[kind] < AgentLimit)
       THEN Goto(r, "insert") /\ UNCHANGED <<table, writes>>
       ELSE Fail(r)
    /\ UNCHANGED billVars
CreateLimited(r, kind) ==
    /\ At(r, kind, "insert")
    /\ owned' = [owned EXCEPT ![kind] = OneMore(@, AgentLimit)]
    /\ CommitTo(r, Idle)
    /\ UNCHANGED <<stripe, customers, sessions, events, changes>>

-----------------------------------------------------------------------------
\* Checkout and portal

\* _ensure_stripe_customer: the new customer is in the session's memory only
\* until the commit, and another request may make one more.
EnsureStripeCustomer(r) ==
    /\ At(r, "checkout", "write")
    /\ IF req[r].saw.customer # None
       THEN Goto(r, "session") /\ UNCHANGED customers
       ELSE /\ customers' = customers + 1
            /\ req' = [req EXCEPT ![r] = [@ EXCEPT !.at = "session", !.saw.customer = customers']]
    /\ UNCHANGED <<table, writes, stripe, sessions, events, changes, owned>>
CreateCheckoutSession(r) ==
    /\ At(r, "checkout", "session")
    /\ Goto(r, "flush")
    /\ UNCHANGED <<table, writes, billVars>>
FlushCustomer(r) ==
    /\ At(r, "checkout", "flush")
    /\ Update(r, "users", [customer |-> req[r].saw.customer])
    /\ Goto(r, "commit")
    /\ UNCHANGED <<table, billVars>>
\* Stripe fails, or returns no URL: the customer made for nothing stays there.
StripeFails(r) ==
    /\ req[r].op = "checkout" /\ req[r].at \in {"write", "session", "flush"}
    /\ Fail(r)
    /\ UNCHANGED billVars

-----------------------------------------------------------------------------
\* Stripe changes the subscription and says so.

Event(type, s) == [type |-> type, sub |-> s.sub, customer |-> s.customer,
                   status |-> s.status, tier |-> s.tier]
Changes(s, types) ==
    /\ changes < MaxChanges
    /\ changes' = changes + 1
    /\ stripe' = s
    /\ events' = events \o [i \in DOMAIN types |-> Event(types[i], s)]
    /\ UNCHANGED <<dbVars, customers, owned>>

\* The user pays for another tier than the row has: the two events of a
\* checkout come in either order.
CheckoutCompletes ==
    /\ stripe.sub = None
    /\ \E c \in sessions, status \in {"trialing", "active"},
          types \in {<<"created", "completed">>, <<"completed", "created">>} :
           /\ Changes([sub |-> changes', customer |-> c, status |-> status, tier |-> "pro"], types)
           /\ sessions' = sessions \ {c}
PaymentFails ==
    /\ stripe.sub # None /\ stripe.status # "past_due"
    /\ Changes([stripe EXCEPT !.status = "past_due"], <<"updated", "payment_failed">>)
    /\ UNCHANGED sessions
InvoiceIsPaid ==
    /\ stripe.sub # None
    /\ Changes([stripe EXCEPT !.status = "active"], <<"updated", "paid">>)
    /\ UNCHANGED sessions
\* In the portal the user changes the plan or cancels.
PlanChanges ==
    /\ stripe.sub # None
    /\ \E tier \in Tiers : Changes([stripe EXCEPT !.tier = tier], <<"updated">>)
    /\ UNCHANGED sessions
SubscriptionIsDeleted ==
    /\ stripe.sub # None
    /\ Changes([stripe EXCEPT !.sub = None, !.status = "canceled"], <<"deleted">>)
    /\ UNCHANGED sessions

-----------------------------------------------------------------------------
\* Webhooks

Webhooks == {r \in Requests : req[r].op = "webhook"}
Deliver(r) ==
    /\ events # <<>> /\ Webhooks = {}
    /\ Begin(r, "webhook", "read", Head(events))
    /\ UNCHANGED <<table, writes, billVars>>

\* _user_by_customer_id, or the client_reference_id of the session.
FindUser(r) ==
    /\ At(r, "webhook", "read")
    /\ Goto(r, IF req[r].saw.type = "completed" \/ Account.customer = req[r].saw.customer
               THEN "write" ELSE "commit")
    /\ UNCHANGED <<table, writes, billVars>>

\* Mutant: the status is left to the invoices.
ApplyTier(e) == [sub |-> e.sub, tier |-> e.tier]
ApplySubscription(e) == [sub |-> e.sub, status |-> e.status, tier |-> e.tier]
WebhookColumns(e) ==
    CASE e.type = "completed" -> [customer |-> e.customer, sub |-> e.sub]
      [] e.type \in {"created", "updated"} -> ApplySubscription(e)
      [] e.type = "deleted" -> [status |-> "canceled", sub |-> None]
      [] e.type = "payment_failed" -> [status |-> "past_due"]
      [] e.type = "paid" -> [used |-> 0, cycle |-> "running"]
StripeWebhook(r) ==
    /\ At(r, "webhook", "write")
    /\ Update(r, "users", WebhookColumns(req[r].saw))
    /\ Goto(r, "commit")
    /\ UNCHANGED <<table, billVars>>
\* The URL of a checkout is paid after its request has committed: nobody types
\* a card number in the time of a commit.
RequestCommits(r) ==
    /\ req[r].op # "webhook"
    /\ Commit(r)
    /\ sessions' = IF req[r].op = "checkout" THEN sessions \cup {req[r].saw.customer} ELSE sessions
    /\ UNCHANGED <<stripe, customers, events, changes, owned>>
\* The answer reaches Stripe, or is lost and the event comes again.
WebhookCommits(r) ==
    /\ At(r, "webhook", "commit")
    /\ Commit(r)
    /\ events' \in {events, Tail(events)}
    /\ UNCHANGED <<stripe, customers, sessions, changes, owned>>
-----------------------------------------------------------------------------
SubscriptionOps == {"checkout", "create_meeting", "agents", "feeds"}
\* No more checkouts start than can make MaxCustomers customers.
CustomersLeft ==
    customers + Cardinality({q \in Requests : req[q].op = "checkout"}) < MaxCustomers
Subscribe(r, op) ==
    /\ op \in SubscriptionOps
    /\ op = "checkout" => Account.customer # None \/ CustomersLeft
    /\ Begin(r, op, "write", IF op = "checkout" THEN [customer |-> Account.customer] ELSE Account)
    /\ UNCHANGED <<table, writes, billVars>>
SubscriptionsCrash == ServerDies /\ UNCHANGED billVars

SubscriptionStep(r) ==
    \/ CreateMeeting(r) \/ EnsureStripeCustomer(r) \/ CreateCheckoutSession(r)
    \/ FlushCustomer(r) \/ StripeFails(r)
    \/ FindUser(r) \/ StripeWebhook(r) \/ WebhookCommits(r) \/ RequestCommits(r)
    \/ \E kind \in DOMAIN owned : CheckLimit(r, kind) \/ CreateLimited(r, kind)
StripeStep ==
    \/ CheckoutCompletes \/ PaymentFails \/ InvoiceIsPaid \/ PlanChanges
    \/ SubscriptionIsDeleted
-----------------------------------------------------------------------------
SubscriptionsTypeOK ==
    /\ "users" \in DOMAIN table
    /\ Account.status \in Statuses /\ Account.tier \in Tiers
    /\ Account.customer \in {None} \cup 1 .. customers
    /\ customers \in 0 .. MaxCustomers
    /\ \A k \in DOMAIN owned : owned[k] \in 0 .. AgentLimit + 1

\* When every event has been handled, the account has the plan and the status
\* Stripe has, although checkouts, meetings and invoices write the same row
\* with what they loaded before: each flush sends only what it changed
\* (_apply_subscription, stripe_webhook).  Assumed: events in order (Stripe promises none), and one
\* customer: of two checkouts at once one customer is forgotten, and its
\* subscription is "unknown" when its first event comes.
MirrorsStripe ==
    (events = <<>> /\ Webhooks = {} /\ changes > 0 /\ customers = 1)
    => /\ Account.sub = stripe.sub
       /\ Account.status = stripe.status
       /\ Account.tier = stripe.tier
=============================================================================
