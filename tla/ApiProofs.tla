------------------------------- MODULE ApiProofs -------------------------------
(***************************************************************************)
(* Proofs about ApiServer, for any requests, mixes and limits.             *)
(***************************************************************************)
EXTENDS ApiServer, FiniteSetTheorems, SequenceTheorems, TLAPS

-----------------------------------------------------------------------------
\* Handlers

\* A request is a record of its handler, where it stands and what it saw.
ReqShape ==
    /\ req = [q \in Requests |-> req[q]]
    /\ \A q \in Requests : DOMAIN req[q] = {"op", "at", "saw"}

\* One request takes a step; its handler goes on at, is done, or begins.
Alone(r) == ReqShape' /\ \A q \in Requests \ {r} : req'[q] = req[q]
Moves(r, at) ==
    /\ Alone(r)
    /\ req'[r].op = req[r].op /\ req'[r].saw = req[r].saw /\ req'[r].at = at
Stops(r) == Alone(r) /\ req'[r] = Idle
Starts(r, op, at, saw) ==
    /\ Alone(r)
    /\ req[r] = Idle
    /\ req'[r].op = op /\ req'[r].at = at /\ req'[r].saw = saw

LEMMA IdleFields == Idle.op = "none" /\ Idle.at = "idle"
BY DEF Idle

LEMMA GotoMoves ==
    ASSUME ReqShape, NEW r \in Requests, NEW at, Goto(r, at)
    PROVE  Moves(r, at)
BY DEF ReqShape, Goto, Moves, Alone

LEMMA FailStops ==
    ASSUME ReqShape, NEW r \in Requests, Fail(r)
    PROVE  Stops(r)
BY DEF ReqShape, Fail, Stops, Alone, Idle

LEMMA BeginStarts ==
    ASSUME ReqShape, NEW r \in Requests, NEW op, NEW at, NEW saw, Begin(r, op, at, saw)
    PROVE  Starts(r, op, at, saw)
BY DEF ReqShape, Begin, Starts, Alone

LEMMA CommitStops ==
    ASSUME ReqShape, NEW r \in Requests, CommitTo(r, Idle)
    PROVE  Stops(r)
BY DEF ReqShape, CommitTo, Stops, Alone, Idle

LEMMA DeathStopsAll ==
    ASSUME ServerDies
    PROVE  ReqShape' /\ \A q \in Requests : req'[q] = Idle
BY DEF ReqShape, ServerDies, Idle

LEMMA StatementMoves ==
    ASSUME ReqShape, NEW r \in Requests, NEW x, NEW row, NEW next,
           \/ UpdateOrFail(r, x, row, next)
           \/ InsertOrFail(r, x, row, next)
           \/ AddOrFail(r, x, row, next)
           \/ DeleteOrFail(r, x, next)
    PROVE  Moves(r, next) \/ Stops(r)
BY GotoMoves, FailStops DEF UpdateOrFail, InsertOrFail, AddOrFail, DeleteOrFail

-----------------------------------------------------------------------------
\* Parts

\* What happens in each part of the server.
AccountsNext ==
    \/ KeyExpires \/ AccountsCrash
    \/ \E r \in Requests : (\E op \in mix : Arrive(r, op)) \/ FollowLink(r) \/ AccountStep(r)
BillingNext ==
    \/ StripeStep \/ CycleEnds \/ SubscriptionsCrash
    \/ \E r \in Requests :
          Deliver(r) \/ (\E op \in mix : Subscribe(r, op)) \/ SubscriptionStep(r)
RecordsNext ==
    \/ RecordsCrash
    \/ \E r \in Requests : (\E op \in mix : Receive(r, op)) \/ RecordStep(r)

\* A mix belongs to one part and stays, and its part is all that happens.
LEMMA Parting ==
    ASSUME [Next]_vars
    PROVE  /\ mix' = mix /\ Part' = Part
           /\ \/ UNCHANGED vars
              \/ Part = "accounts" /\ AccountsNext /\ UNCHANGED <<billVars, recordVars>>
              \/ Part = "subscriptions" /\ BillingNext /\ UNCHANGED <<accountVars, recordVars>>
              \/ Part = "records" /\ RecordsNext /\ UNCHANGED <<accountVars, billVars>>
<1>1. mix' = mix
  BY DEF Next, vars, Environment, Dies, Arrivals, Works, Accounts, Billing, Recording
<1>2. Part' = Part
  BY <1>1 DEF Part, AccountOps, NeedsUser, SubscriptionOps, RecordOps, Needs
<1>3. CASE Environment
  <2>1. CASE Accounts(KeyExpires)
    BY <1>1, <1>2, <2>1 DEF Accounts, AccountsNext
  <2>2. CASE Billing(StripeStep)
    BY <1>1, <1>2, <2>2 DEF Billing, BillingNext
  <2>3. CASE Billing("create_meeting" \in mix /\ CycleEnds)
    BY <1>1, <1>2, <2>3 DEF Billing, BillingNext
  <2> QED
    BY <1>3, <2>1, <2>2, <2>3 DEF Environment
<1>4. CASE Dies
  BY <1>1, <1>2, <1>4 DEF Dies, Accounts, Billing, Recording, AccountsNext, BillingNext, RecordsNext
<1>5. ASSUME NEW r \in Requests, Arrivals(r)
      PROVE  \/ Part = "accounts" /\ AccountsNext /\ UNCHANGED <<billVars, recordVars>>
             \/ Part = "subscriptions" /\ BillingNext /\ UNCHANGED <<accountVars, recordVars>>
             \/ Part = "records" /\ RecordsNext /\ UNCHANGED <<accountVars, billVars>>
  BY <1>5 DEF Arrivals, Accounts, Billing, Recording, AccountsNext, BillingNext, RecordsNext
<1>6. ASSUME NEW r \in Requests, Works(r)
      PROVE  \/ Part = "accounts" /\ AccountsNext /\ UNCHANGED <<billVars, recordVars>>
             \/ Part = "subscriptions" /\ BillingNext /\ UNCHANGED <<accountVars, recordVars>>
             \/ Part = "records" /\ RecordsNext /\ UNCHANGED <<accountVars, billVars>>
  BY <1>6 DEF Works, Accounts, Billing, Recording, AccountsNext, BillingNext, RecordsNext
<1> QED
  BY <1>1, <1>2, <1>3, <1>4, <1>5, <1>6 DEF Next

\* The initial state of each part.
LEMMA InitialParts ==
    ASSUME Init
    PROVE  /\ AccountsInit /\ SubscriptionsInit(InitialCustomer)
           /\ Part \in {"accounts", "subscriptions", "records"}
           /\ Part = "accounts" =>
                  TransactionsInit(InitialRows) /\ announced = {} /\ liveKit = FALSE
           /\ Part = "subscriptions" =>
                  /\ TransactionsInit([x \in {"users"} |-> NewAccount(InitialCustomer)])
                  /\ announced = {} /\ liveKit = FALSE
           /\ Part = "records" => RecordsInit(InitialLeaves)
<1>1. mix \subseteq AccountOps \/ mix \subseteq SubscriptionOps \/ mix \subseteq RecordOps
  BY MixesAssumption DEF Init
<1>2. Part \in {"accounts", "subscriptions", "records"}
  BY <1>1 DEF Part
<1> QED
  BY <1>2 DEF Init

-----------------------------------------------------------------------------
\* Refused passwords

\* Logins past the check of the counter.
Guessing(q) == req[q].op = "login" /\ req[q].at \in {"verify", "failed"}
Guesses == {q \in Requests : Guessing(q)}

\* The limits that are checked are those there are.
Limited(q) == req[q].at \in {"limit", "limit ttl"} => req[q].op \in {"register", "login", "forgot", "resend"}

CounterShape == redis = [k \in Counters |-> [n |-> redis[k].n, ttl |-> redis[k].ttl]]

GuessInv ==
    /\ Part = "accounts" =>
          /\ ReqShape
          /\ CounterShape
          /\ \A q \in Requests : Limited(q)
          /\ redis["login_failures"].n \in Nat
          /\ redis["login_failures"].n + Cardinality(Guesses)
                 <= Threshold - 1 + Cardinality(Requests)
    /\ Part # "accounts" => redis["login_failures"].n = 0

LEMMA IncrementCounts ==
    ASSUME CounterShape, NEW k \in Counters, NEW cap, Increment(k, cap)
    PROVE  /\ CounterShape' /\ \A c \in Counters \ {k} : redis'[c] = redis[c]
           /\ redis'[k].n \in {redis[k].n, redis[k].n + 1}
BY DEF CounterShape, Increment

LEMMA ExpireCounts ==
    ASSUME CounterShape, NEW k \in Counters, Expire(k)
    PROVE  CounterShape' /\ \A c \in Counters : redis'[c].n = redis[c].n
BY DEF CounterShape, Expire

LEMMA GuessesFinite ==
    /\ IsFiniteSet(Guesses) /\ Cardinality(Guesses) \in Nat
    /\ Cardinality(Requests) \in Nat /\ Cardinality(Guesses) <= Cardinality(Requests)
BY RequestsAssumption, FS_Subset, FS_CardinalityType DEF Guesses

\* Steps that begin no guess and count none.
LEMMA NoGuessKeeps ==
    ASSUME GuessInv, Part = "accounts", Part' = Part, ReqShape',
           CounterShape',
           redis'["login_failures"].n \in {redis["login_failures"].n, 0},
           \A q \in Requests : Limited(q)' /\ (Guessing(q)' => Guessing(q))
    PROVE  GuessInv'
<1>1. Guesses' \subseteq Guesses
  BY DEF Guesses
<1>2. Cardinality(Guesses') <= Cardinality(Guesses) /\ Cardinality(Guesses') \in Nat
  BY <1>1, GuessesFinite, FS_Subset, FS_CardinalityType
<1> QED
  BY <1>2, GuessesFinite, RequestsAssumption, AccountsAssumption DEF GuessInv

\* A request goes elsewhere than into a guess or to a limit.
LEMMA GoingElsewhere ==
    ASSUME GuessInv, Part = "accounts", Part' = Part, NEW r \in Requests, UNCHANGED redis,
           \/ Stops(r)
           \/ \E at : Moves(r, at) /\ at \notin {"limit", "limit ttl", "verify", "failed"}
           \/ \E at : Moves(r, at) /\ at \notin {"limit", "limit ttl"} /\ req[r].op # "login"
    PROVE  GuessInv'
<1>1. ReqShape' /\ \A q \in Requests \ {r} : req'[q] = req[q]
  BY DEF Stops, Moves, Alone
<1>2. \A q \in Requests : Limited(q)' /\ (Guessing(q)' => Guessing(q))
  <2>1. Limited(r)' /\ (Guessing(r)' => Guessing(r))
    <3>1. CASE Stops(r)
      BY <3>1 DEF Stops, Limited, Guessing, Idle
    <3>2. ASSUME NEW at, Moves(r, at) PROVE req'[r].op = req[r].op /\ req'[r].at = at
      BY <3>2 DEF Moves
    <3> QED
      BY <3>1, <3>2 DEF Limited, Guessing
  <2> QED
    BY <1>1, <2>1 DEF GuessInv, Limited, Guessing
<1> QED
  BY <1>1, <1>2, NoGuessKeeps DEF GuessInv, CounterShape

\* Every request that arrives, and every step but the three that read or
\* write the counters, goes elsewhere.
LEMMA ArrivalsGuessNothing ==
    ASSUME GuessInv, Part = "accounts", Part' = Part, NEW r \in Requests,
           (\E op \in mix : Arrive(r, op)) \/ FollowLink(r)
    PROVE  GuessInv'
<1>1. ReqShape
  BY DEF GuessInv
<1>2. UNCHANGED redis
  BY DEF Arrive, FollowLink, accountVars
<1>3. PICK op, at, saw : Starts(r, op, at, saw) /\ at \in {"limit", "write"}
                         /\ (at = "limit" => op \in {"register", "login", "forgot", "resend"})
  <2>1. ASSUME NEW op \in mix, Arrive(r, op)
        PROVE  \E at, saw : Starts(r, op, at, saw) /\ at \in {"limit", "write"}
                    /\ (at = "limit" => op \in {"register", "login", "forgot", "resend"})
    <3>1. PICK at, saw : /\ Begin(r, op, at, saw)
                         /\ at = IF op \in DOMAIN Limits THEN "limit" ELSE "write"
      BY <2>1 DEF Arrive
    <3>2. op \in DOMAIN Limits => op \in {"register", "login", "forgot", "resend"}
      BY DEF Limits
    <3> QED
      BY <1>1, <3>1, <3>2, BeginStarts
  <2>2. ASSUME FollowLink(r)
        PROVE  \E op, saw : Starts(r, op, "write", saw)
    BY <1>1, <2>2, BeginStarts DEF FollowLink
  <2> QED
    BY <2>1, <2>2
<1>4. ReqShape' /\ \A q \in Requests \ {r} : req'[q] = req[q]
  BY <1>3 DEF Starts, Alone
<1>5. \A q \in Requests : Limited(q)' /\ (Guessing(q)' => Guessing(q))
  <2>1. Limited(r)' /\ ~Guessing(r)'
    BY <1>3 DEF Starts, Limited, Guessing
  <2> QED
    BY <1>4, <2>1 DEF GuessInv, Limited, Guessing
<1> QED
  BY <1>2, <1>4, <1>5, NoGuessKeeps DEF GuessInv, CounterShape

LEMMA OthersGuessNothing ==
    ASSUME GuessInv, Part = "accounts", Part' = Part, NEW r \in Requests, AccountStep(r),
           ~CheckRateLimit(r), ~LimitExpires(r), ~CheckLockout(r), ~VerifyPassword(r),
           ~ClearFailedLogins(r), ~RecordFailedLogin(r), ~FailuresExpire(r)
    PROVE  GuessInv'
<1>1. ReqShape
  BY DEF GuessInv
<1>2. CASE \/ Register(r) \/ RegisterInserts(r) \/ ForgotPassword(r) \/ ResendVerification(r)
           \/ SendEmail(r) \/ MailFails(r)
  <2>1. \/ Stops(r)
        \/ \E at : Moves(r, at) /\ at \in {"insert", "mail", "commit"}
    BY <1>1, <1>2, GotoMoves, FailStops
       DEF Register, RegisterInserts, ForgotPassword, ResendVerification, SendEmail, MailFails
  <2>2. UNCHANGED redis
    BY <1>2 DEF Register, RegisterInserts, ForgotPassword, ResendVerification, SendEmail,
                MailFails, accountVars
  <2> QED
    BY <2>1, <2>2, GoingElsewhere
<1>3. CASE \/ ResetPassword(r) \/ VerifyEmail(r) \/ UpdateProfile(r) \/ ChangePassword(r)
           \/ UploadAvatar(r) \/ LinkAvatar(r) \/ DeleteAvatar(r)
  <2>1. \/ Stops(r)
        \/ \E at : Moves(r, at) /\ at \in {"link", "commit"}
    BY <1>1, <1>3, GotoMoves, FailStops
       DEF ResetPassword, VerifyEmail, UpdateProfile, ChangePassword, UploadAvatar,
           LinkAvatar, DeleteAvatar
  <2>2. UNCHANGED redis
    BY <1>3 DEF ResetPassword, VerifyEmail, UpdateProfile, ChangePassword, UploadAvatar,
                LinkAvatar, DeleteAvatar, accountVars
  <2> QED
    BY <2>1, <2>2, GoingElsewhere
<1>4. CASE \/ CreateAgent(r) \/ DeleteAgent(r) \/ CreateKey(r) \/ RevokeKey(r) \/ ExchangeKey(r)
           \/ AccountCommits(r)
  <2>1. Stops(r) \/ Moves(r, "commit")
    BY <1>1, <1>4, StatementMoves, GotoMoves, FailStops, CommitStops
       DEF CreateAgent, DeleteAgent, CreateKey, RevokeKey, ExchangeKey, AccountCommits, Commit
  <2>2. UNCHANGED redis
    BY <1>4 DEF CreateAgent, DeleteAgent, CreateKey, RevokeKey, ExchangeKey, AccountCommits,
                accountVars
  <2>3. "commit" \notin {"limit", "limit ttl", "verify", "failed"}
    OBVIOUS
  <2> QED
    BY <2>1, <2>2, <2>3, GoingElsewhere
<1> QED
  BY <1>2, <1>3, <1>4 DEF AccountStep

\* The counters: only a login that may still go wrong is a guess, and one
\* that is counted is none any more.
LEMMA CountersKeep ==
    ASSUME GuessInv, Part = "accounts", Part' = Part, NEW r \in Requests,
           \/ CheckRateLimit(r) \/ LimitExpires(r) \/ CheckLockout(r) \/ VerifyPassword(r)
           \/ ClearFailedLogins(r) \/ RecordFailedLogin(r) \/ FailuresExpire(r)
    PROVE  GuessInv'
<1>1. /\ ReqShape /\ CounterShape /\ Limited(r)
      /\ redis["login_failures"].n \in Nat /\ "login_failures" \in Counters
  BY DEF GuessInv, Counters
<1>2. ASSUME Alone(r), Limited(r)', Guessing(r)' => Guessing(r)
      PROVE  ReqShape' /\ \A q \in Requests : Limited(q)' /\ (Guessing(q)' => Guessing(q))
  BY <1>2 DEF GuessInv, Alone, Limited, Guessing
<1>3. CASE CheckRateLimit(r) \/ LimitExpires(r)
  <2> DEFINE k == Limits[req[r].op]
  <2>1. req[r].op \in {"register", "login", "forgot", "resend"}
    BY <1>1, <1>3 DEF Limited, CheckRateLimit, LimitExpires
  <2>2. k \in Counters /\ k # "login_failures"
    <3>1. \/ k = "rate:register:ip" \/ k = "rate:login:ip"
          \/ k = "rate:forgot:email" \/ k = "rate:resend:email"
      BY <2>1 DEF Limits
    <3>2. k \in Counters
      BY <2>1 DEF Limits, Counters
    <3> QED
      BY <3>1, <3>2
  <2> HIDE DEF k
  <2>3. (\E cap : Increment(k, cap)) \/ Expire(k)
    BY <1>3 DEF CheckRateLimit, LimitExpires, k
  <2>4. CounterShape' /\ redis'["login_failures"].n = redis["login_failures"].n
    BY <1>1, <2>2, <2>3, IncrementCounts, ExpireCounts
  <2>5. Stops(r) \/ Moves(r, "limit ttl") \/ Moves(r, "work")
    BY <1>1, <1>3, GotoMoves, FailStops DEF CheckRateLimit, LimitExpires
  <2>6. Alone(r) /\ Limited(r)' /\ ~Guessing(r)'
    <3>1. CASE Stops(r)
      BY <3>1 DEF Stops, Idle, Limited, Guessing
    <3>2. CASE Moves(r, "limit ttl") \/ Moves(r, "work")
      BY <2>1, <3>2 DEF Moves, Limited, Guessing
    <3> QED
      BY <2>5, <3>1, <3>2
  <2> QED
    BY <1>2, <2>4, <2>6, NoGuessKeeps
<1>4. CASE CheckLockout(r)
  <2>1. CASE Fail(r)
    BY <1>1, <1>4, <2>1, FailStops, GoingElsewhere DEF CheckLockout, accountVars
  <2>2. CASE ~Fail(r)
    <3>1. /\ Moves(r, "verify") /\ UNCHANGED redis
          /\ redis["login_failures"].n < Threshold
      BY <1>1, <1>4, <2>2, GotoMoves, AccountsAssumption DEF CheckLockout, accountVars
    <3>2. ReqShape' /\ \A q \in Requests : Limited(q)'
      BY <3>1 DEF GuessInv, Moves, Alone, Limited
    <3>3. /\ Cardinality(Guesses') \in Nat /\ Cardinality(Guesses') <= Cardinality(Requests)
      BY RequestsAssumption, FS_Subset, FS_CardinalityType DEF Guesses
    <3> QED
      BY <1>1, <3>1, <3>2, <3>3, GuessesFinite, AccountsAssumption DEF GuessInv, CounterShape
  <2> QED
    BY <2>1, <2>2
<1>5. CASE VerifyPassword(r)
  <2>1. At(r, "login", "verify") /\ UNCHANGED redis
        /\ (Moves(r, "clear") \/ Moves(r, "failed"))
    BY <1>1, <1>5, GotoMoves DEF VerifyPassword, accountVars
  <2>2. Alone(r) /\ Limited(r)' /\ Guessing(r)
    BY <2>1 DEF Moves, Limited, Guessing, At
  <2> QED
    BY <1>1, <1>2, <2>1, <2>2, NoGuessKeeps DEF CounterShape
<1>6. CASE ClearFailedLogins(r)
  <2>1. Moves(r, "commit") /\ CounterShape' /\ redis'["login_failures"].n = 0
    BY <1>1, <1>6, GotoMoves DEF ClearFailedLogins, CounterShape
  <2>2. Alone(r) /\ Limited(r)' /\ ~Guessing(r)'
    BY <2>1 DEF Moves, Limited, Guessing
  <2> QED
    BY <1>2, <2>1, <2>2, NoGuessKeeps
<1>7. CASE FailuresExpire(r)
  <2>1. Stops(r) /\ CounterShape' /\ redis'["login_failures"].n = redis["login_failures"].n
    BY <1>1, <1>7, FailStops, ExpireCounts DEF FailuresExpire
  <2>2. Alone(r) /\ Limited(r)' /\ ~Guessing(r)'
    BY <2>1 DEF Stops, Idle, Limited, Guessing
  <2> QED
    BY <1>2, <2>1, <2>2, NoGuessKeeps
<1>8. CASE RecordFailedLogin(r)
  <2>1. /\ CounterShape'
        /\ redis'["login_failures"].n \in {redis["login_failures"].n, redis["login_failures"].n + 1}
    BY <1>1, <1>8, IncrementCounts DEF RecordFailedLogin
  <2>2. Stops(r) \/ Moves(r, "failed ttl")
    BY <1>1, <1>8, GotoMoves, FailStops DEF RecordFailedLogin
  <2>3. Alone(r) /\ Limited(r)' /\ ~Guessing(r)' /\ Guessing(r)
    <3>1. Guessing(r)
      BY <1>8 DEF Guessing, RecordFailedLogin, At
    <3>2. CASE Stops(r)
      BY <3>1, <3>2, IdleFields DEF Stops, Limited, Guessing
    <3>3. CASE Moves(r, "failed ttl")
      BY <3>1, <3>3 DEF Moves, Limited, Guessing
    <3> QED
      BY <2>2, <3>2, <3>3
  <2>4. Guesses' \subseteq Guesses \ {r} /\ r \in Guesses
    BY <1>2, <2>3 DEF Guesses, Alone, Guessing
  <2>5. /\ Cardinality(Guesses \ {r}) = Cardinality(Guesses) - 1
        /\ IsFiniteSet(Guesses \ {r})
    BY <2>4, GuessesFinite, FS_RemoveElement
  <2>6. Cardinality(Guesses') <= Cardinality(Guesses) - 1 /\ Cardinality(Guesses') \in Nat
    BY <2>4, <2>5, FS_Subset, FS_CardinalityType
  <2>7. redis'["login_failures"].n + Cardinality(Guesses') <= Threshold - 1 + Cardinality(Requests)
        /\ redis'["login_failures"].n \in Nat
    BY <1>1, <2>1, <2>6, GuessesFinite, AccountsAssumption DEF GuessInv
  <2>8. ReqShape' /\ \A q \in Requests : Limited(q)'
    BY <1>2, <2>3
  <2> QED
    BY <2>1, <2>7, <2>8 DEF GuessInv
<1> QED
  BY <1>3, <1>4, <1>5, <1>6, <1>7, <1>8

\* Between two expiries no more passwords are refused than the threshold lets
\* through plus one for each request that may be past the check meanwhile, for
\* any threshold and number of requests (_check_lockout, _record_failed_login).
THEOREM GuessesStayBounded == Spec => []BoundedGuesses
<1>1. Init => GuessInv
  <2> SUFFICES ASSUME Init, Part = "accounts" PROVE GuessInv
    BY InitialParts DEF GuessInv, AccountsInit, Counters
  <2>1. ReqShape /\ \A q \in Requests : req[q] = Idle
    BY InitialParts DEF TransactionsInit, ReqShape, Idle
  <2>2. CounterShape /\ redis["login_failures"].n = 0
    BY InitialParts DEF AccountsInit, CounterShape, Counters
  <2>3. \A q \in Requests : Limited(q) /\ ~Guessing(q)
    BY <2>1, IdleFields DEF Limited, Guessing
  <2>4. Cardinality(Guesses) = 0
    BY <2>3, FS_EmptySet DEF Guesses
  <2> QED
    BY <2>1, <2>2, <2>3, <2>4, GuessesFinite, AccountsAssumption DEF GuessInv
<1>2. GuessInv /\ [Next]_vars => GuessInv'
  <2> SUFFICES ASSUME GuessInv, [Next]_vars, Part = "accounts" PROVE GuessInv'
    BY Parting DEF GuessInv, vars, accountVars
  <2>1. Part' = Part
    BY Parting
  <2>2. CASE UNCHANGED vars
    BY <2>1, <2>2, NoGuessKeeps
       DEF GuessInv, vars, dbVars, accountVars, ReqShape, CounterShape, Limited, Guessing
  <2>3. CASE KeyExpires
    <3>1. CounterShape' /\ redis'["login_failures"].n \in {redis["login_failures"].n, 0}
      <4>1. PICK k \in Counters : redis' = [redis EXCEPT ![k] = [n |-> 0, ttl |-> FALSE]]
        BY <2>3 DEF KeyExpires
      <4>2. "login_failures" \in Counters
        BY DEF Counters
      <4> QED
        BY <4>1, <4>2 DEF GuessInv, CounterShape
    <3> QED
      BY <2>1, <2>3, <3>1, NoGuessKeeps DEF KeyExpires, dbVars, GuessInv, ReqShape, Limited, Guessing
  <2>4. CASE AccountsCrash
    <3>1. ReqShape' /\ \A q \in Requests : Limited(q)' /\ ~Guessing(q)'
      BY <2>4, DeathStopsAll, IdleFields DEF AccountsCrash, Limited, Guessing
    <3> QED
      BY <2>1, <2>4, <3>1, NoGuessKeeps DEF AccountsCrash, GuessInv, CounterShape
  <2>5. ASSUME NEW r \in Requests, AccountStep(r) PROVE GuessInv'
    BY <2>1, <2>5, OthersGuessNothing, CountersKeep
  <2> QED
    BY <2>1, <2>2, <2>3, <2>4, <2>5, Parting, ArrivalsGuessNothing DEF AccountsNext
<1>3. GuessInv => BoundedGuesses
  BY GuessesFinite, AccountsAssumption DEF GuessInv, BoundedGuesses
<1> QED
  BY <1>1, <1>2, <1>3, PTL DEF Spec

-----------------------------------------------------------------------------
\* Transactions

LEMMA OverFacts ==
    ASSUME NEW f, NEW g
    PROVE  /\ DOMAIN Over(f, g) = DOMAIN f \cup DOMAIN g
           /\ \A x \in DOMAIN f : Over(f, g)[x] = f[x]
           /\ \A x \in DOMAIN g : x \notin DOMAIN f => Over(f, g)[x] = g[x]
BY DEF Over

WritesShape == writes = [q \in Requests |-> writes[q]]

\* A request flushes row x and nothing else, or rolls back.
Same(r, y) ==
    /\ y \in DOMAIN writes'[r] <=> y \in DOMAIN writes[r]
    /\ y \in DOMAIN writes[r] => writes'[r][y] = writes[r][y]
OthersKeep(r) == WritesShape' /\ \A q \in Requests \ {r} : writes'[q] = writes[q]
Flushes(r, x, row) ==
    /\ UNCHANGED table /\ OthersKeep(r)
    /\ DOMAIN writes'[r] = DOMAIN writes[r] \cup {x} /\ writes'[r][x] = row
    /\ \A y : y # x => Same(r, y)
Touches(r, x) == UNCHANGED table /\ OthersKeep(r) /\ \A y : y # x => Same(r, y)
Drops(r) == Stops(r) /\ UNCHANGED table /\ OthersKeep(r) /\ DOMAIN writes'[r] = {}

LEMMA FailDrops ==
    ASSUME ReqShape, WritesShape, NEW r \in Requests, Fail(r)
    PROVE  Drops(r)
BY FailStops DEF Fail, Drops, WritesShape, OthersKeep, NoWrites

LEMMA PutFlushes ==
    ASSUME WritesShape, NEW r \in Requests, NEW x, NEW row, UNCHANGED table,
           writes' = [writes EXCEPT ![r] = Put(@, x, row)]
    PROVE  Flushes(r, x, row) /\ Touches(r, x)
<1>1. OthersKeep(r) /\ writes'[r] = Put(writes[r], x, row)
  BY DEF WritesShape, OthersKeep
<1>2. /\ DOMAIN writes'[r] = DOMAIN writes[r] \cup {x} /\ writes'[r][x] = row
      /\ \A y \in DOMAIN writes[r] : y # x => writes'[r][y] = writes[r][y]
  BY <1>1 DEF Put
<1>3. \A y : y # x => Same(r, y)
  BY <1>2 DEF Same
<1> QED
  BY <1>1, <1>2, <1>3 DEF Flushes, Touches

LEMMA UpdateFlushes ==
    ASSUME WritesShape, NEW r \in Requests, NEW x, NEW columns, UNCHANGED table,
           Update(r, x, columns)
    PROVE  Flushes(r, x, Columns(r, x, columns)) /\ Touches(r, x)
BY PutFlushes DEF Update

LEMMA InsertFlushes ==
    ASSUME WritesShape, NEW r \in Requests, NEW x, NEW row, UNCHANGED table,
           Insert(r, x, row)
    PROVE  Flushes(r, x, row) /\ Touches(r, x)
BY PutFlushes DEF Insert

LEMMA StatementTouches ==
    ASSUME ReqShape, WritesShape, NEW r \in Requests, NEW x, NEW row, NEW next,
           \/ UpdateOrFail(r, x, row, next)
           \/ InsertOrFail(r, x, row, next)
           \/ AddOrFail(r, x, row, next)
    PROVE  Drops(r) \/ (Moves(r, next) /\ Touches(r, x))
<1>1. CASE Fail(r)
  BY <1>1, FailDrops
<1>2. CASE ~Fail(r)
  <2>1. Goto(r, next) /\ UNCHANGED table
    BY <1>2 DEF UpdateOrFail, InsertOrFail, AddOrFail
  <2>2. \/ Update(r, x, row) \/ Insert(r, x, row) \/ UNCHANGED writes
    BY <1>2 DEF UpdateOrFail, InsertOrFail, AddOrFail
  <2>3. Touches(r, x)
    BY <2>1, <2>2, UpdateFlushes, InsertFlushes DEF Touches, Same, OthersKeep, WritesShape
  <2> QED
    BY <2>1, <2>3, GotoMoves
<1> QED
  BY <1>1, <1>2

\* A DELETE leaves rows alone that do not follow the one it deletes.
LEMMA DeletionTouches ==
    ASSUME ReqShape, WritesShape, NEW r \in Requests, NEW x, NEW next, DeleteOrFail(r, x, next)
    PROVE  \/ Drops(r)
           \/ /\ Moves(r, next) /\ UNCHANGED table /\ OthersKeep(r)
              /\ \A y : y # x /\ y \notin Cascading(x) => Same(r, y)
<1>1. CASE Fail(r)
  BY <1>1, FailDrops
<1>2. CASE ~Fail(r)
  <2>1. Goto(r, next) /\ UNCHANGED table /\ Delete(r, {x})
    BY <1>2 DEF DeleteOrFail
  <2> DEFINE all == {z \in {x} \cup UNION {Cascading(y) : y \in {x}} : Exists(r, z)}
             gone == [z \in all |-> Gone]
  <2>2. writes' = [writes EXCEPT ![r] = Over(gone, writes[r])]
    BY <2>1 DEF Delete
  <2>3. DOMAIN gone = all /\ \A y : y # x /\ y \notin Cascading(x) => y \notin all
    OBVIOUS
  <2> HIDE DEF gone
  <2>4. OthersKeep(r) /\ writes'[r] = Over(gone, writes[r])
    BY <2>2 DEF WritesShape, OthersKeep
  <2>5. /\ DOMAIN writes'[r] = all \cup DOMAIN writes[r]
        /\ \A y \in DOMAIN writes[r] : y \notin all => writes'[r][y] = writes[r][y]
    <3> HIDE DEF all
    <3> QED
      BY <2>3, <2>4 DEF Over
  <2>6. \A y : y \notin all => Same(r, y)
    BY <2>5 DEF Same
  <2> QED
    BY <2>1, <2>3, <2>4, <2>6, GotoMoves
<1> QED
  BY <1>1, <1>2

\* What a commit makes of a row.
LEMMA CommitRows ==
    ASSUME WritesShape, NEW r \in Requests, NEW next, CommitTo(r, next), NEW x
    PROVE  /\ OthersKeep(r) /\ DOMAIN writes'[r] = {}
           /\ x \in DOMAIN table' <=> (x \in DOMAIN table \/ Holds(r, x)) /\ ~Deletes(r, x)
           /\ x \in DOMAIN table' => table'[x] = Seen(r, x)
BY DEF CommitTo, Result, WritesShape, OthersKeep, NoWrites, Holds, Deletes

-----------------------------------------------------------------------------
\* The handlers of a part

\* A step of a handler: it goes on or is done.
Proceeds(r) == Stops(r) \/ \E at : Moves(r, at)

LEMMA AccountsProceed ==
    ASSUME ReqShape, NEW r \in Requests, AccountStep(r)
    PROVE  Proceeds(r)
<1>1. CASE \/ Register(r) \/ RegisterInserts(r) \/ ForgotPassword(r) \/ ResendVerification(r)
           \/ SendEmail(r) \/ MailFails(r) \/ ResetPassword(r) \/ VerifyEmail(r)
           \/ UpdateProfile(r) \/ ChangePassword(r) \/ UploadAvatar(r) \/ LinkAvatar(r)
           \/ DeleteAvatar(r)
  BY <1>1, GotoMoves, FailStops
     DEF Proceeds, Register, RegisterInserts, ForgotPassword, ResendVerification, SendEmail,
         MailFails, ResetPassword, VerifyEmail, UpdateProfile, ChangePassword, UploadAvatar,
         LinkAvatar, DeleteAvatar
<1>2. CASE \/ CreateAgent(r) \/ DeleteAgent(r) \/ CreateKey(r) \/ RevokeKey(r) \/ ExchangeKey(r)
           \/ AccountCommits(r)
  BY <1>2, StatementMoves, GotoMoves, FailStops, CommitStops
     DEF Proceeds, CreateAgent, DeleteAgent, CreateKey, RevokeKey, ExchangeKey,
         AccountCommits, Commit
<1>3. CASE \/ CheckRateLimit(r) \/ LimitExpires(r) \/ CheckLockout(r) \/ VerifyPassword(r)
           \/ ClearFailedLogins(r) \/ RecordFailedLogin(r) \/ FailuresExpire(r)
  BY <1>3, GotoMoves, FailStops
     DEF Proceeds, CheckRateLimit, LimitExpires, CheckLockout, VerifyPassword,
         ClearFailedLogins, RecordFailedLogin, FailuresExpire
<1> QED
  BY <1>1, <1>2, <1>3 DEF AccountStep

LEMMA BillingProceeds ==
    ASSUME ReqShape, NEW r \in Requests, SubscriptionStep(r)
    PROVE  Alone(r) /\ req'[r].op \in {req[r].op, "none"}
<1>1. CASE EnsureStripeCustomer(r)
  <2>1. CASE req[r].saw.customer # None
    BY <1>1, <2>1, GotoMoves DEF EnsureStripeCustomer, Moves
  <2>2. CASE req[r].saw.customer = None
    BY <1>1, <2>2 DEF EnsureStripeCustomer, ReqShape, Alone
  <2> QED
    BY <2>1, <2>2
<1>2. CASE \/ CreateMeeting(r) \/ CreateCheckoutSession(r) \/ FlushCustomer(r) \/ StripeFails(r)
           \/ FindUser(r) \/ StripeWebhook(r) \/ WebhookCommits(r) \/ RequestCommits(r)
           \/ \E kind \in DOMAIN owned : CheckLimit(r, kind) \/ CreateLimited(r, kind)
  <2>1. Proceeds(r)
    BY <1>2, GotoMoves, FailStops, CommitStops
       DEF Proceeds, CreateMeeting, CreateCheckoutSession, FlushCustomer, StripeFails, FindUser,
           StripeWebhook, WebhookCommits, RequestCommits, CheckLimit, CreateLimited, Commit
  <2> QED
    BY <2>1, IdleFields DEF Proceeds, Stops, Moves
<1> QED
  BY <1>1, <1>2 DEF SubscriptionStep

\* Outside of the records no request starts a meeting, and nothing is announced.
NoRecords ==
    Part # "records" =>
        /\ mix \in Mixes /\ ReqShape /\ announced = {}
        /\ \A q \in Requests : req[q].op \notin RecordOps

LEMMA OtherPartsKeep ==
    ASSUME NoRecords, [Next]_vars, Part # "records"
    PROVE  NoRecords' /\ Part' # "records"
<1>1. mix' = mix /\ mix \in Mixes /\ Part' = Part /\ Part # "records"
  BY Parting DEF NoRecords
<1>2. ReqShape /\ announced = {} /\ \A q \in Requests : req[q].op \notin RecordOps
  BY DEF NoRecords
<1>3. "none" \notin RecordOps /\ Links \cap RecordOps = {} /\ "webhook" \notin RecordOps
  BY DEF RecordOps, Needs, Links
<1>4. ASSUME NEW r \in Requests, Alone(r), req'[r].op \notin RecordOps
      PROVE  ReqShape' /\ \A q \in Requests : req'[q].op \notin RecordOps
  BY <1>2, <1>4 DEF Alone
<1>5. CASE UNCHANGED vars
  BY <1>1, <1>2, <1>5 DEF NoRecords, vars, dbVars, recordVars, ReqShape
<1>6. ASSUME ServerDies PROVE ReqShape' /\ \A q \in Requests : req'[q].op \notin RecordOps
  BY <1>3, <1>6, DeathStopsAll, IdleFields
<1>7. CASE Part = "accounts" /\ AccountsNext /\ UNCHANGED recordVars
  <2>1. mix \subseteq AccountOps
    BY <1>1, <1>7, MixesAssumption DEF Part
  <2>2. AccountOps \cap RecordOps = {}
    BY DEF AccountOps, NeedsUser, RecordOps, Needs
  <2>3. CASE KeyExpires \/ AccountsCrash
    BY <1>1, <1>2, <1>6, <1>7, <2>3
       DEF KeyExpires, AccountsCrash, dbVars, recordVars, NoRecords, ReqShape
  <2>4. ASSUME NEW r \in Requests, AccountStep(r) PROVE NoRecords'
    BY <1>1, <1>2, <1>3, <1>4, <1>7, <2>4, AccountsProceed, IdleFields
       DEF NoRecords, recordVars, Proceeds, Stops, Moves
  <2>5. ASSUME NEW r \in Requests, (\E op \in mix : Arrive(r, op)) \/ FollowLink(r) PROVE NoRecords'
    <3>1. \E op, at, saw : Starts(r, op, at, saw) /\ op \in mix \cup Links
      BY <1>2, <2>5, BeginStarts DEF Arrive, FollowLink
    <3> QED
      BY <1>1, <1>3, <1>4, <1>7, <2>1, <2>2, <3>1 DEF NoRecords, recordVars, Starts
  <2> QED
    BY <1>1, <1>7, <2>3, <2>4, <2>5 DEF AccountsNext
<1>8. CASE Part = "subscriptions" /\ BillingNext /\ UNCHANGED recordVars
  <2>1. SubscriptionOps \cap RecordOps = {}
    BY DEF SubscriptionOps, RecordOps, Needs
  <2>2. CASE StripeStep \/ CycleEnds \/ SubscriptionsCrash
    BY <1>1, <1>2, <1>6, <1>8, <2>2
       DEF StripeStep, CheckoutCompletes, PaymentFails, InvoiceIsPaid, PlanChanges,
           SubscriptionIsDeleted, Changes, CycleEnds, SubscriptionsCrash, dbVars, recordVars,
           NoRecords, ReqShape
  <2>3. ASSUME NEW r \in Requests, SubscriptionStep(r) PROVE NoRecords'
    BY <1>1, <1>2, <1>3, <1>4, <1>8, <2>3, BillingProceeds DEF NoRecords, recordVars
  <2>4. ASSUME NEW r \in Requests, Deliver(r) \/ \E op \in mix : Subscribe(r, op) PROVE NoRecords'
    <3>1. \E op, at, saw : Starts(r, op, at, saw) /\ op \in SubscriptionOps \cup {"webhook"}
      BY <1>2, <2>4, BeginStarts DEF Deliver, Subscribe
    <3> QED
      BY <1>1, <1>3, <1>4, <1>8, <2>1, <3>1 DEF NoRecords, recordVars, Starts
  <2> QED
    BY <1>1, <1>8, <2>2, <2>3, <2>4 DEF BillingNext
<1> QED
  BY <1>1, <1>5, <1>7, <1>8, Parting

\* Every table is either the one whose rows go with those of another, or not.
LEMMA NothingFollows ==
    ASSUME NEW y
    PROVE  /\ "meetings" \notin Cascading(y) /\ "rooms" \notin Cascading(y)
           /\ "users" \notin Cascading(y)
BY DEF Cascading, Keys, MeetingORM, RoomORM, UserORM, Cascade, Ref

Marked(q, x) == Holds(q, x) => "gone" \in DOMAIN writes[q][x]

\* A statement that went through: the row is the request's alone.
LEMMA UpdateWrites ==
    ASSUME ReqShape, WritesShape, NEW r \in Requests, NEW x, NEW columns, NEW next,
           UpdateOrFail(r, x, columns, next)
    PROVE  \/ Drops(r)
           \/ /\ Moves(r, next) /\ Flushes(r, x, Columns(r, x, columns))
              /\ Unlocked(r, x) /\ Exists(r, x)
BY FailDrops, GotoMoves, UpdateFlushes DEF UpdateOrFail, Update
LEMMA InsertWrites ==
    ASSUME ReqShape, WritesShape, NEW r \in Requests, NEW x, NEW row, NEW next,
           InsertOrFail(r, x, row, next)
    PROVE  Drops(r) \/ (Moves(r, next) /\ Flushes(r, x, row) /\ Unlocked(r, x))
BY FailDrops, GotoMoves, InsertFlushes DEF InsertOrFail, MayInsert
LEMMA DeletionWrites ==
    ASSUME ReqShape, WritesShape, NEW r \in Requests, NEW x, NEW next,
           DeleteOrFail(r, x, next)
    PROVE  \/ Drops(r)
           \/ /\ Moves(r, next) /\ Unlocked(r, x) /\ Exists(r, x)
              /\ Holds(r, x)' /\ Deletes(r, x)' /\ Marked(r, x)'
<1>1. CASE Fail(r)
  BY <1>1, FailDrops
<1>2. CASE ~Fail(r)
  <2>1. Goto(r, next) /\ Delete(r, {x}) /\ Unlocked(r, x) /\ Exists(r, x)
    BY <1>2 DEF DeleteOrFail, MayDelete
  <2> DEFINE all == {z \in {x} \cup UNION {Cascading(y) : y \in {x}} : Exists(r, z)}
  <2>2. writes'[r] = Over([z \in all |-> Gone], writes[r])
    BY <2>1 DEF Delete, WritesShape
  <2>3. x \in all
    BY <2>1
  <2> HIDE DEF all
  <2>4. x \in DOMAIN writes'[r] /\ writes'[r][x] = Gone
    BY <2>2, <2>3 DEF Over
  <2> QED
    BY <2>1, <2>4, GotoMoves DEF Holds, Deletes, Marked, Gone
<1> QED
  BY <1>1, <1>2

\* An update leaves the columns alone it does not write, and deletes nothing.
LEMMA ColumnsKeep ==
    ASSUME NEW r, NEW x, NEW columns, Exists(r, x), Marked(r, x), "gone" \notin DOMAIN columns,
           NEW row, row = Columns(r, x, columns)
    PROVE  /\ "gone" \in DOMAIN row /\ ~row.gone
           /\ \A c \in DOMAIN columns \ {"refs"} : c \in DOMAIN row /\ row[c] = columns[c]
           /\ \A c : c \notin DOMAIN columns \cup {"refs", "gone"} =>
                  /\ c \in DOMAIN row => Holds(r, x) /\ c \in DOMAIN writes[r][x]
                  /\ Holds(r, x) /\ c \in DOMAIN writes[r][x] =>
                        c \in DOMAIN row /\ row[c] = writes[r][x][c]
<1>1. CASE Holds(r, x)
  <2>1. row = Over(columns, writes[r][x]) /\ ~writes[r][x].gone
    BY <1>1 DEF Columns, Exists, Deletes
  <2>2. "gone" \in DOMAIN writes[r][x]
    BY <1>1 DEF Marked
  <2> QED
    BY <1>1, <2>1, <2>2 DEF Over
<1>2. CASE ~Holds(r, x)
  <2>1. row = Over([refs |-> table[x].refs, gone |-> FALSE], columns)
    BY <1>2 DEF Columns
  <2> DEFINE f == [refs |-> table[x].refs, gone |-> FALSE]
  <2>2. DOMAIN f = {"refs", "gone"} /\ f["gone"] = FALSE
    OBVIOUS
  <2> HIDE DEF f
  <2>3. row = Over(f, columns)
    BY <2>1 DEF f
  <2> QED
    BY <1>2, <2>2, <2>3 DEF Over
<1> QED
  BY <1>1, <1>2

-----------------------------------------------------------------------------
\* Meetings that start

\* A row has one writer.  A start keeps the meeting it has made active from
\* its first statement to its commit; who changes the room is such a start,
\* or deletes it; none makes a meeting scheduled again.
Sole(x) == \A q, p \in Requests : Holds(q, x) /\ Holds(p, x) => q = p
Starting(q) ==
    req[q].op = "start" /\ req[q].at \in {"room", "new room", "sid", "started"}
ClaimsMeeting(q) ==
    Starting(q) => /\ Holds(q, "meetings") /\ ~Deletes(q, "meetings")
                   /\ "status" \in DOMAIN writes[q]["meetings"]
                   /\ writes[q]["meetings"].status = "active"
RoomWriter(q) ==
    Holds(q, "rooms") => /\ Deletes(q, "rooms") => req[q].op = "delete"
                         /\ ~Deletes(q, "rooms") => Starting(q) /\ req[q].at \in {"sid", "started"}
RoomVacant(q) ==
    req[q].op = "start" /\ req[q].at = "new room" => "rooms" \notin DOMAIN table
MeetingWriter(q) ==
    Holds(q, "meetings") =>
        /\ "meetings" \in DOMAIN table
        /\ ~Deletes(q, "meetings") /\ "status" \in DOMAIN writes[q]["meetings"]
           => writes[q]["meetings"].status \in {"active", "completed"}
Underway == "started" \in announced \/ \E q \in Requests : At(q, "start", "publish")
RoomRequest(q) ==
    /\ Marked(q, "meetings") /\ Marked(q, "rooms")
    /\ ClaimsMeeting(q) /\ RoomWriter(q) /\ RoomVacant(q) /\ MeetingWriter(q)
RoomRecords ==
    /\ ReqShape /\ WritesShape
    /\ Sole("meetings") /\ Sole("rooms")
    /\ \A q \in Requests : RoomRequest(q)
    /\ "meetings" \in DOMAIN table => "status" \in DOMAIN Meeting
    /\ Underway => ~MeetingIs("scheduled")

\* A step that leaves the rows alone, or changes them alone.
LEMMA RoomsHeld ==
    ASSUME RoomRecords, NEW r \in Requests, Alone(r), UNCHANGED table, OthersKeep(r),
           Unlocked(r, "meetings") \/ (Holds(r, "meetings")' => Holds(r, "meetings")),
           Unlocked(r, "rooms") \/ (Holds(r, "rooms")' => Holds(r, "rooms")),
           RoomRequest(r)', Underway' => Underway
    PROVE  RoomRecords'
<1>1. \A q \in Requests \ {r} : req'[q] = req[q] /\ writes'[q] = writes[q]
  BY DEF Alone, OthersKeep
<1>2. \A q \in Requests \ {r} : RoomRequest(q)'
  BY <1>1 DEF RoomRecords, RoomRequest, Marked, ClaimsMeeting, RoomWriter, RoomVacant,
              MeetingWriter, Starting, Holds, Deletes
<1>3. Sole("meetings")' /\ Sole("rooms")'
  BY <1>1 DEF RoomRecords, Sole, Holds, Unlocked, Others
<1> QED
  BY <1>2, <1>3 DEF RoomRecords, Alone, OthersKeep, Meeting, MeetingIs

LEMMA RoomsDropped ==
    ASSUME RoomRecords, NEW r \in Requests, Drops(r), UNCHANGED announced
    PROVE  RoomRecords'
<1>1. Alone(r) /\ UNCHANGED table /\ OthersKeep(r) /\ DOMAIN writes'[r] = {}
  BY DEF Drops, Stops
<1>2. req'[r].op = "none"
  BY IdleFields DEF Drops, Stops
<1>3. RoomRequest(r)'
  BY <1>1, <1>2 DEF RoomRequest, Marked, ClaimsMeeting, RoomWriter, RoomVacant,
                    MeetingWriter, Starting, Holds
<1>4. Underway' => Underway
  BY <1>1, <1>2 DEF Underway, At, Alone
<1> QED
  BY <1>1, <1>3, <1>4, RoomsHeld DEF Holds

\* The step of a handler that is not a start and touches neither row.
LEMMA RoomsElsewhere ==
    ASSUME RoomRecords, NEW r \in Requests, UNCHANGED table, OthersKeep(r),
           Same(r, "meetings"), Same(r, "rooms"), Alone(r),
           req'[r].op # "start" \/ req'[r].at \notin {"room", "new room", "sid", "started", "publish"},
           req'[r].op = req[r].op \/ req[r] = Idle,
           req[r].op # "start" \/ req[r].at = "publish",
           announced' \subseteq announced \cup {"ended"} \/ Underway
    PROVE  RoomRecords'
<1>1. RoomRequest(r) /\ ~Starting(r) /\ ~Starting(r)'
  BY DEF RoomRecords, Starting
<1>2. RoomRequest(r)'
  BY <1>1, IdleFields
     DEF RoomRequest, Marked, ClaimsMeeting, RoomWriter, RoomVacant,
         MeetingWriter, Starting, Holds, Deletes, Same
<1>3. Underway' => Underway
  BY DEF Underway, At, Alone
<1> QED
  BY <1>2, <1>3, RoomsHeld DEF Same, Holds

\* A commit makes what the request wrote the row, and nothing else.
LEMMA RoomsCommitted ==
    ASSUME RoomRecords, NEW r \in Requests, NEW next, CommitTo(r, next), Alone(r),
           UNCHANGED announced, ~Starting(r)', ~Starting(r) \/ req[r].at = "started",
           At(r, "start", "publish")' => Starting(r)
    PROVE  RoomRecords'
<1>1. OthersKeep(r) /\ DOMAIN writes'[r] = {}
  BY CommitRows DEF RoomRecords
<1>2. \A q \in Requests \ {r} : req'[q] = req[q] /\ writes'[q] = writes[q]
  BY <1>1 DEF Alone, OthersKeep
<1>3. RoomRequest(r)'
  BY <1>1 DEF RoomRequest, Marked, ClaimsMeeting, RoomWriter, RoomVacant,
              MeetingWriter, Starting, Holds
<1>4. /\ "meetings" \in DOMAIN table' =>
             /\ "meetings" \in DOMAIN table \/ Holds(r, "meetings")
             /\ ~Deletes(r, "meetings") /\ table'["meetings"] = Seen(r, "meetings")
      /\ "meetings" \in DOMAIN table /\ ~Deletes(r, "meetings") => "meetings" \in DOMAIN table'
      /\ "rooms" \in DOMAIN table' =>
             "rooms" \in DOMAIN table \/ (Holds(r, "rooms") /\ ~Deletes(r, "rooms"))
  BY CommitRows DEF RoomRecords
<1>5. ASSUME NEW q \in Requests \ {r} PROVE RoomRequest(q)'
  <2>1. RoomRequest(q) /\ req'[q] = req[q] /\ writes'[q] = writes[q]
    BY <1>2 DEF RoomRecords
  <2>2. RoomVacant(q)'
    <3> SUFFICES ASSUME req[q].op = "start", req[q].at = "new room", "rooms" \in DOMAIN table'
                 PROVE  FALSE
      BY <2>1 DEF RoomVacant
    <3>1. Holds(r, "rooms") /\ ~Deletes(r, "rooms")
      BY <1>4, <2>1 DEF RoomRequest, RoomVacant
    <3>2. Starting(r) /\ Starting(q)
      BY <3>1 DEF RoomRecords, RoomRequest, RoomWriter, Starting
    <3> QED
      BY <3>2 DEF RoomRecords, RoomRequest, ClaimsMeeting, Sole
  <2>3. MeetingWriter(q)'
    BY <1>4, <2>1 DEF RoomRecords, RoomRequest, MeetingWriter, Sole, Holds, Deletes
  <2> QED
    BY <2>1, <2>2, <2>3 DEF RoomRequest, Marked, ClaimsMeeting, RoomWriter, Starting,
                            Holds, Deletes
<1>6. Sole("meetings")' /\ Sole("rooms")'
  BY <1>1, <1>2 DEF RoomRecords, Sole, Holds
<1>7. ASSUME "meetings" \in DOMAIN table'
      PROVE  /\ "status" \in DOMAIN table'["meetings"]
             /\ \/ table'["meetings"].status = Meeting.status /\ ~Starting(r)
                \/ table'["meetings"].status \in {"active", "completed"}
             /\ "meetings" \in DOMAIN table
  <2>1. "meetings" \in DOMAIN table /\ "status" \in DOMAIN Meeting
        /\ ~Deletes(r, "meetings") /\ table'["meetings"] = Seen(r, "meetings")
    BY <1>4, <1>7 DEF RoomRecords, RoomRequest, MeetingWriter
  <2>2. CASE Holds(r, "meetings")
    <3>1. table'["meetings"] = Over(writes[r]["meetings"], Meeting)
      BY <2>1, <2>2 DEF Seen, Inserts, Meeting
    <3>2. "status" \in DOMAIN writes[r]["meetings"] =>
              writes[r]["meetings"].status \in {"active", "completed"}
      BY <2>1, <2>2 DEF RoomRecords, RoomRequest, MeetingWriter
    <3>3. Starting(r) => "status" \in DOMAIN writes[r]["meetings"]
      BY DEF RoomRecords, RoomRequest, ClaimsMeeting
    <3> QED
      BY <2>1, <3>1, <3>2, <3>3 DEF Over
  <2>3. CASE ~Holds(r, "meetings")
    BY <2>1, <2>3 DEF Seen, Inserts, Meeting, RoomRecords, RoomRequest, ClaimsMeeting
  <2> QED
    BY <2>2, <2>3
<1>8. Underway' => ~MeetingIs("scheduled")'
  <2>1. Underway' => Underway \/ Starting(r)
    BY <1>2 DEF Underway, At
  <2> QED
    BY <1>7, <2>1 DEF RoomRecords, MeetingIs, Meeting
<1> QED
  BY <1>1, <1>3, <1>5, <1>6, <1>7, <1>8 DEF RoomRecords, Alone, OthersKeep, Meeting

\* The statements of starts, ends, updates and deletions.
LEMMA StartsKeepRooms ==
    ASSUME RoomRecords, NEW r \in Requests,
           StartMeeting(r) \/ FindRoom(r) \/ AddRoom(r) \/ EnsureRoom(r) \/ StartCommits(r)
           \/ PublishStarted(r)
    PROVE  RoomRecords'
<1>1. ReqShape /\ WritesShape /\ RoomRequest(r)
  BY DEF RoomRecords
<1>2. CASE StartMeeting(r)
  <2> DEFINE row == Columns(r, "meetings", [status |-> "active"])
  <2>1. PICK next \in {"room", "started"} :
            /\ req[r].op = "start" /\ req[r].at = "write"
            /\ UpdateOrFail(r, "meetings", [status |-> "active"], next)
            /\ UNCHANGED announced
    BY <1>2 DEF StartMeeting, At, recordVars
  <2>2. CASE Drops(r)
    BY <2>1, <2>2, RoomsDropped
  <2>3. CASE /\ Moves(r, next) /\ Flushes(r, "meetings", row)
             /\ Unlocked(r, "meetings") /\ Exists(r, "meetings")
    <3>1. DOMAIN [status |-> "active"] = {"status"} /\ [status |-> "active"]["status"] = "active"
      OBVIOUS
    <3>2. "gone" \in DOMAIN row /\ ~row.gone /\ "status" \in DOMAIN row /\ row.status = "active"
      BY <1>1, <2>3, <3>1, ColumnsKeep DEF RoomRequest
    <3> HIDE DEF row
    <3>3. Holds(r, "meetings")' /\ writes'[r]["meetings"] = row /\ Same(r, "rooms")
      BY <2>3 DEF Flushes, Holds
    <3>4. req'[r].op = "start" /\ req'[r].at = next /\ Alone(r)
      BY <2>1, <2>3 DEF Moves
    <3>5. ~Holds(r, "rooms") /\ ~Holds(r, "rooms")'
      BY <1>1, <2>1, <3>3 DEF RoomRequest, RoomWriter, Starting, Same, Holds
    <3>6. "meetings" \in DOMAIN table /\ UNCHANGED table /\ OthersKeep(r)
      BY <1>1, <2>3 DEF Exists, RoomRequest, MeetingWriter, Flushes
    <3>7. RoomRequest(r)'
      BY <3>2, <3>3, <3>4, <3>5, <3>6
         DEF RoomRequest, Marked, ClaimsMeeting, RoomWriter, RoomVacant, MeetingWriter,
             Starting, Holds, Deletes
    <3>8. Underway' => Underway
      BY <2>1, <3>4 DEF Underway, At, Alone
    <3> QED
      BY <2>3, <3>4, <3>5, <3>6, <3>7, <3>8, RoomsHeld
  <2> QED
    BY <1>1, <2>1, <2>2, <2>3, UpdateWrites
<1>3. CASE FindRoom(r)
  <2>1. /\ req[r].op = "start" /\ req[r].at = "room" /\ UNCHANGED <<table, writes, announced>>
        /\ \/ Moves(r, "sid")
           \/ Moves(r, "new room") /\ ~Exists(r, "rooms")
    BY <1>1, <1>3, GotoMoves DEF FindRoom, At, recordVars
  <2>2. ~Holds(r, "rooms")
    BY <1>1, <2>1 DEF RoomRequest, RoomWriter
  <2>3. req'[r].op = "start" /\ req'[r].at \in {"sid", "new room"} /\ Alone(r)
        /\ (req'[r].at = "new room" => "rooms" \notin DOMAIN table)
    BY <2>1, <2>2 DEF Moves, Exists, Deletes
  <2>4. RoomRequest(r)'
    BY <1>1, <2>1, <2>2, <2>3
       DEF RoomRequest, Marked, ClaimsMeeting, RoomWriter, RoomVacant, MeetingWriter,
           Starting, Holds, Deletes
  <2>5. Underway' => Underway
    BY <2>1, <2>3 DEF Underway, At, Alone
  <2> QED
    BY <1>1, <2>1, <2>3, <2>4, <2>5, RoomsHeld DEF OthersKeep, WritesShape, Holds
<1>4. CASE AddRoom(r) \/ EnsureRoom(r)
  <2>1. /\ req[r].op = "start" /\ req[r].at \in {"new room", "sid"} /\ UNCHANGED announced
        /\ \/ InsertOrFail(r, "rooms", NewRow("rooms"), "sid")
           \/ UpdateOrFail(r, "rooms", [sid |-> TRUE], "started")
           \/ Fail(r)
    BY <1>4 DEF AddRoom, EnsureRoom, At, recordVars
  <2>2. CASE Drops(r)
    BY <2>1, <2>2, RoomsDropped
  <2>3. ASSUME NEW row, NEW next \in {"sid", "started"},
               Moves(r, next), Flushes(r, "rooms", row), Unlocked(r, "rooms"),
               "gone" \in DOMAIN row, ~row.gone
        PROVE  RoomRecords'
    <3>1. /\ req'[r].op = "start" /\ req'[r].at = next /\ Alone(r)
          /\ Same(r, "meetings") /\ UNCHANGED table /\ OthersKeep(r)
          /\ Holds(r, "rooms")' /\ writes'[r]["rooms"] = row
      <4>1. req'[r].op = "start" /\ req'[r].at = next /\ Alone(r)
        BY <2>1, <2>3 DEF Moves
      <4>2. Same(r, "meetings") /\ UNCHANGED table /\ OthersKeep(r)
        BY <2>3 DEF Flushes
      <4>3. Holds(r, "rooms")' /\ writes'[r]["rooms"] = row
        BY <2>3 DEF Flushes, Holds
      <4> QED
        BY <4>1, <4>2, <4>3
    <3>2. RoomRequest(r)'
      BY <1>1, <2>1, <2>3, <3>1
         DEF RoomRequest, Marked, ClaimsMeeting, RoomWriter, RoomVacant, MeetingWriter,
             Starting, Holds, Deletes, Same
    <3>3. Underway' => Underway
      BY <2>1, <3>1 DEF Underway, At, Alone
    <3> QED
      BY <2>3, <3>1, <3>2, <3>3, RoomsHeld DEF Same, Holds
  <2>4. ASSUME NEW row, row = NewRow("rooms") PROVE "gone" \in DOMAIN row /\ ~row.gone
    <3>1. row = Over([refs |-> Parents("rooms"), gone |-> FALSE], [sid |-> FALSE])
      BY <2>4 DEF NewRow, Row
    <3> QED
      BY <3>1 DEF Over
  <2>5. Exists(r, "rooms") =>
            LET row == Columns(r, "rooms", [sid |-> TRUE]) IN "gone" \in DOMAIN row /\ ~row.gone
    BY <1>1, ColumnsKeep DEF RoomRequest
  <2> QED
    BY <1>1, <2>1, <2>2, <2>3, <2>4, <2>5, UpdateWrites, InsertWrites, FailDrops
<1>5. CASE StartCommits(r)
  <2>1. /\ At(r, "start", "started") /\ CommitTo(r, [req[r] EXCEPT !.at = "publish"])
        /\ UNCHANGED announced
    BY <1>5 DEF StartCommits, recordVars
  <2>2. Moves(r, "publish")
    BY <1>1, <2>1 DEF CommitTo, ReqShape, Moves, Alone
  <2> QED
    BY <2>1, <2>2, RoomsCommitted DEF Moves, At, Starting
<1>6. CASE PublishStarted(r)
  <2>1. Moves(r, "commit") /\ At(r, "start", "publish") /\ UNCHANGED <<table, writes>>
    BY <1>1, <1>6, GotoMoves DEF PublishStarted
  <2>2. Underway
    BY <2>1 DEF Underway
  <2> QED
    BY <1>1, <2>1, <2>2, RoomsElsewhere DEF Moves, At, OthersKeep, WritesShape, Same
<1> QED
  BY <1>2, <1>3, <1>4, <1>5, <1>6

LEMMA MeetingsKeepRooms ==
    ASSUME RoomRecords, NEW r \in Requests, EndMeeting(r) \/ UpdateMeeting(r) \/ PublishEnded(r)
    PROVE  RoomRecords'
<1>1. ReqShape /\ WritesShape /\ RoomRequest(r)
  BY DEF RoomRecords
<1>2. ASSUME NEW columns, NEW next, UpdateOrFail(r, "meetings", columns, next), req[r].op # "start",
             UNCHANGED announced, "gone" \notin DOMAIN columns,
             "status" \in DOMAIN columns => columns.status = "completed"
      PROVE  RoomRecords'
  <2> DEFINE row == Columns(r, "meetings", columns)
  <2>1. CASE Drops(r)
    BY <1>2, <2>1, RoomsDropped
  <2>2. CASE /\ Moves(r, next) /\ Flushes(r, "meetings", row)
             /\ Unlocked(r, "meetings") /\ Exists(r, "meetings")
    <3>1. /\ "gone" \in DOMAIN row /\ ~row.gone
          /\ "status" \in DOMAIN columns => "status" \in DOMAIN row /\ row.status = "completed"
          /\ "status" \in DOMAIN row /\ "status" \notin DOMAIN columns =>
                 /\ Holds(r, "meetings") /\ "status" \in DOMAIN writes[r]["meetings"]
                 /\ row.status = writes[r]["meetings"].status
      BY <1>1, <1>2, <2>2, ColumnsKeep DEF RoomRequest
    <3> HIDE DEF row
    <3>2. "meetings" \in DOMAIN table /\ ~Deletes(r, "meetings")
      BY <1>1, <2>2 DEF Exists, RoomRequest, MeetingWriter
    <3>3. "status" \in DOMAIN row => row.status \in {"active", "completed"}
      BY <1>1, <1>2, <3>1, <3>2 DEF RoomRequest, MeetingWriter
    <3>4. Same(r, "rooms") /\ UNCHANGED table /\ OthersKeep(r)
      BY <2>2 DEF Flushes
    <3>5. Holds(r, "meetings")' /\ writes'[r]["meetings"] = row
      BY <2>2 DEF Flushes, Holds
    <3>6. req'[r].op = req[r].op /\ Alone(r)
      BY <2>2 DEF Moves
    <3>7. RoomRequest(r)'
      BY <1>1, <1>2, <3>1, <3>2, <3>3, <3>4, <3>5, <3>6
         DEF RoomRequest, Marked, ClaimsMeeting, RoomWriter, RoomVacant, MeetingWriter,
             Starting, Holds, Deletes, Same
    <3>8. Underway' => Underway
      BY <1>2, <3>6 DEF Underway, At, Alone
    <3> QED
      BY <2>2, <3>4, <3>6, <3>7, <3>8, RoomsHeld DEF Same, Holds
  <2> QED
    BY <1>1, <1>2, <2>1, <2>2, UpdateWrites
<1>3. CASE EndMeeting(r)
  <2>1. UpdateOrFail(r, "meetings", [status |-> "completed"], "publish") /\ req[r].op = "end"
    BY <1>3 DEF EndMeeting, At
  <2>2. "gone" \notin DOMAIN [status |-> "completed"]
    OBVIOUS
  <2> QED
    BY <1>2, <1>3, <2>1, <2>2 DEF EndMeeting, recordVars
<1>4. CASE UpdateMeeting(r)
  <2>1. PICK title : UpdateOrFail(r, "meetings", [title |-> title], "commit") /\ req[r].op = "update"
    BY <1>4 DEF UpdateMeeting, At
  <2>2. DOMAIN [title |-> title] = {"title"}
    OBVIOUS
  <2> QED
    BY <1>2, <1>4, <2>1, <2>2 DEF UpdateMeeting, recordVars
<1>5. CASE PublishEnded(r)
  <2>1. Moves(r, "commit") /\ req[r].op = "end" /\ UNCHANGED <<table, writes>>
    BY <1>1, <1>5, GotoMoves DEF PublishEnded, At
  <2> QED
    BY <1>1, <1>5, <2>1, RoomsElsewhere DEF PublishEnded, Moves, OthersKeep, WritesShape, Same
<1> QED
  BY <1>3, <1>4, <1>5

LEMMA DeletionsKeepRooms ==
    ASSUME RoomRecords, NEW r \in Requests, DeleteSweeps(r) \/ DeleteMeeting(r)
    PROVE  RoomRecords'
<1>1. ReqShape /\ WritesShape /\ RoomRequest(r) /\ req[r].op = "delete" /\ UNCHANGED announced
  BY DEF RoomRecords, DeleteSweeps, DeleteMeeting, At, recordVars
<1>2. ASSUME Alone(r), req'[r].op = "delete", UNCHANGED table, OthersKeep(r),
             Unlocked(r, "meetings") \/ Same(r, "meetings"),
             Unlocked(r, "rooms") \/ Same(r, "rooms"),
             \/ Same(r, "rooms")
             \/ Holds(r, "rooms")' /\ Deletes(r, "rooms")' /\ Marked(r, "rooms")',
             \/ Same(r, "meetings")
             \/ /\ Holds(r, "meetings")' /\ Deletes(r, "meetings")' /\ Marked(r, "meetings")'
                /\ Exists(r, "meetings")
      PROVE  RoomRecords'
  <2>1. RoomWriter(r)' /\ Marked(r, "rooms")'
    BY <1>1, <1>2 DEF RoomRequest, RoomWriter, Starting, Holds, Deletes, Same, Marked
  <2>2. MeetingWriter(r)' /\ Marked(r, "meetings")'
    BY <1>1, <1>2 DEF RoomRequest, MeetingWriter, Exists, Holds, Deletes, Same, Marked
  <2>3. RoomRequest(r)'
    BY <1>2, <2>1, <2>2 DEF RoomRequest, ClaimsMeeting, RoomVacant, Starting
  <2>4. Underway' => Underway
    BY <1>1, <1>2 DEF Underway, At, Alone
  <2> QED
    BY <1>2, <2>3, <2>4, RoomsHeld DEF Same, Holds
<1>3. CASE DeleteSweeps(r)
  <2>1. PICK i \in 1 .. Len(Sweeps) - 1 :
            /\ IF Sweeps[i] \in DOMAIN table
               THEN /\ Unlocked(r, Sweeps[i])
                    /\ writes' = [writes EXCEPT ![r] = Put(@, Sweeps[i], Gone)]
               ELSE UNCHANGED writes
            /\ Goto(r, Sweeps[i + 1]) /\ UNCHANGED table
    BY <1>3 DEF DeleteSweeps
  <2>2. Alone(r) /\ req'[r].op = "delete"
    BY <1>1, <2>1, GotoMoves DEF Moves
  <2>3. CASE UNCHANGED writes
    BY <1>1, <1>2, <2>1, <2>2, <2>3 DEF OthersKeep, WritesShape, Same
  <2>4. CASE /\ Unlocked(r, Sweeps[i])
             /\ writes' = [writes EXCEPT ![r] = Put(@, Sweeps[i], Gone)]
    <3> DEFINE x == Sweeps[i]
    <3>1. Flushes(r, x, Gone) /\ Unlocked(r, x)
      BY <1>1, <2>1, <2>4, PutFlushes
    <3>2. x # "meetings"
      <4>1. i \in {1, 2, 3, 4, 5, 6, 7, 8, 9, 10}
        BY <2>1 DEF Sweeps
      <4> QED
        BY <4>1 DEF Sweeps
    <3> HIDE DEF x
    <3>3. OthersKeep(r) /\ UNCHANGED table /\ Same(r, "meetings") /\ (x # "rooms" => Same(r, "rooms"))
      BY <3>1, <3>2 DEF Flushes
    <3>4. x = "rooms" => Holds(r, "rooms")' /\ Deletes(r, "rooms")' /\ Marked(r, "rooms")'
      BY <3>1 DEF Flushes, Holds, Deletes, Marked, Gone
    <3> QED
      BY <1>2, <2>2, <3>1, <3>3, <3>4
  <2> QED
    BY <2>1, <2>3, <2>4
<1>4. CASE DeleteMeeting(r)
  <2>1. DeleteOrFail(r, "meetings", "commit")
    BY <1>4 DEF DeleteMeeting
  <2>2. CASE Drops(r)
    BY <1>1, <2>2, RoomsDropped
  <2>3. CASE ~Drops(r)
    <3>1. /\ Moves(r, "commit") /\ Unlocked(r, "meetings") /\ Exists(r, "meetings")
          /\ Holds(r, "meetings")' /\ Deletes(r, "meetings")' /\ Marked(r, "meetings")'
      BY <1>1, <2>1, <2>3, DeletionWrites
    <3>2. UNCHANGED table /\ OthersKeep(r) /\ Same(r, "rooms")
      BY <1>1, <2>1, <2>3, DeletionTouches, NothingFollows
    <3> QED
      BY <1>1, <1>2, <3>1, <3>2 DEF Moves
  <2> QED
    BY <2>2, <2>3
<1> QED
  BY <1>3, <1>4

\* What the other handlers do.
LEMMA OthersKeepRooms ==
    ASSUME RoomRecords, NEW r \in Requests,
           \/ CreateInvite(r) \/ SetSelectedAgents(r) \/ CreateTask(r) \/ UpdateTaskStatus(r)
           \/ GetMeetingSummary(r) \/ GenerateSummary(r) \/ StoreSummary(r)
           \/ CreateFeed(r) \/ StoreSecret(r) \/ UpdateFeed(r) \/ DeleteFeed(r)
           \/ TriggerFeed(r) \/ SlackCallback(r) \/ DeleteIntegration(r)
           \/ ActivateTemplate(r) \/ DeactivateSession(r)
    PROVE  RoomRecords'
<1>1. ReqShape /\ WritesShape
  BY DEF RoomRecords
<1>2. req[r].op # "start" /\ UNCHANGED announced
  BY DEF CreateInvite, SetSelectedAgents, CreateTask, UpdateTaskStatus, GetMeetingSummary,
         GenerateSummary, StoreSummary, CreateFeed, StoreSecret, UpdateFeed, DeleteFeed,
         TriggerFeed, SlackCallback, DeleteIntegration, ActivateTemplate, DeactivateSession,
         At, recordVars
<1>3. ASSUME \/ Drops(r)
             \/ /\ \E next : Moves(r, next)
                /\ UNCHANGED table /\ OthersKeep(r) /\ Same(r, "meetings") /\ Same(r, "rooms")
      PROVE  RoomRecords'
  BY <1>2, <1>3, RoomsDropped, RoomsElsewhere DEF Moves
<1>4. ASSUME NEW x, NEW next, NEW row, x \notin {"meetings", "rooms"},
             \/ UpdateOrFail(r, x, row, next) \/ InsertOrFail(r, x, row, next)
             \/ AddOrFail(r, x, row, next)
      PROVE  RoomRecords'
  BY <1>1, <1>3, <1>4, StatementTouches DEF Touches
<1>5. ASSUME NEW x, NEW next, x \notin {"meetings", "rooms"}, DeleteOrFail(r, x, next)
      PROVE  RoomRecords'
  BY <1>1, <1>3, <1>5, DeletionTouches, NothingFollows
<1>6. ASSUME UNCHANGED <<table, writes>>, \E next : Goto(r, next) PROVE RoomRecords'
  BY <1>1, <1>3, <1>6, GotoMoves DEF OthersKeep, WritesShape, Same
<1>7. ASSUME Fail(r) PROVE RoomRecords'
  BY <1>1, <1>3, <1>7, FailDrops
<1>8. CASE \/ CreateInvite(r) \/ CreateTask(r) \/ UpdateTaskStatus(r) \/ StoreSummary(r)
           \/ TriggerFeed(r) \/ SlackCallback(r) \/ ActivateTemplate(r) \/ DeactivateSession(r)
  BY <1>4, <1>8 DEF CreateInvite, CreateTask, UpdateTaskStatus, StoreSummary, TriggerFeed,
                    SlackCallback, ActivateTemplate, DeactivateSession
<1>9. CASE SetSelectedAgents(r) \/ DeleteIntegration(r)
  BY <1>4, <1>5, <1>9 DEF SetSelectedAgents, DeleteIntegration
<1>10. CASE GetMeetingSummary(r) \/ GenerateSummary(r)
  BY <1>6, <1>7, <1>10 DEF GetMeetingSummary, GenerateSummary
<1>11. CASE CreateFeed(r) \/ StoreSecret(r) \/ UpdateFeed(r)
  BY <1>4, <1>6, <1>11 DEF CreateFeed, StoreSecret, UpdateFeed
<1>12. CASE DeleteFeed(r)
  <2> DEFINE known == req[r].saw \cap {"feed_secrets", "feed_runs"}
             gone == [x \in {"feeds"} \cup (known \cap DOMAIN table) |-> Gone]
  <2>1. CASE Fail(r)
    BY <1>7, <2>1
  <2>2. CASE ~Fail(r)
    <3>1. writes' = [writes EXCEPT ![r] = Over(gone, @)] /\ Goto(r, "commit") /\ UNCHANGED table
      BY <1>12, <2>2 DEF DeleteFeed
    <3>2. "meetings" \notin DOMAIN gone /\ "rooms" \notin DOMAIN gone
      OBVIOUS
    <3> HIDE DEF gone
    <3>3. OthersKeep(r) /\ writes'[r] = Over(gone, writes[r])
      BY <1>1, <3>1 DEF OthersKeep, WritesShape
    <3>4. Same(r, "meetings") /\ Same(r, "rooms")
      BY <3>2, <3>3 DEF Same, Over
    <3> QED
      BY <1>1, <1>3, <3>1, <3>3, <3>4, GotoMoves
  <2> QED
    BY <2>1, <2>2
<1> QED
  BY <1>8, <1>9, <1>10, <1>11, <1>12

LEMMA RecordsKeepRooms ==
    ASSUME RoomRecords, RecordsNext
    PROVE  RoomRecords'
<1>1. ReqShape /\ WritesShape
  BY DEF RoomRecords
<1>2. CASE RecordsCrash
  <2>1. ReqShape' /\ WritesShape' /\ UNCHANGED <<table, announced>>
        /\ \A q \in Requests : req'[q] = Idle /\ DOMAIN writes'[q] = {}
    BY <1>2, DeathStopsAll DEF RecordsCrash, ServerDies, WritesShape, NoWrites, recordVars
  <2>2. \A q \in Requests : RoomRequest(q)'
    BY <2>1, IdleFields DEF RoomRequest, Marked, ClaimsMeeting, RoomWriter, RoomVacant,
                            MeetingWriter, Starting, Holds
  <2>3. Underway' => Underway
    BY <2>1, IdleFields DEF Underway, At
  <2> QED
    BY <2>1, <2>2, <2>3 DEF RoomRecords, Sole, Holds, MeetingIs, Meeting
<1>3. ASSUME NEW r \in Requests, NEW op \in mix, Receive(r, op) PROVE RoomRecords'
  <2>1. /\ \E at, saw : Starts(r, op, at, saw) /\ at \in {"tasks", "write"}
        /\ UNCHANGED <<table, writes, announced>>
    <3>1. Begin(r, op, IF op = "delete" THEN "tasks" ELSE "write", DOMAIN table)
      BY <1>3 DEF Receive, Sweeps
    <3> QED
      BY <1>1, <1>3, <3>1, BeginStarts DEF Receive, recordVars
  <2>2. req[r].op # "start" /\ req[r] = Idle /\ Alone(r) /\ req'[r].at \in {"tasks", "write"}
    BY <2>1, IdleFields DEF Starts
  <2> QED
    BY <1>1, <2>1, <2>2, RoomsElsewhere DEF OthersKeep, WritesShape, Same
<1>4. ASSUME NEW r \in Requests, RecordsCommit(r) PROVE RoomRecords'
  <2>1. CommitTo(r, Idle) /\ req[r].at = "commit" /\ UNCHANGED announced
    BY <1>4 DEF RecordsCommit, Commit, recordVars
  <2>2. Alone(r) /\ req'[r].op = "none"
    BY <1>1, <2>1, CommitStops, IdleFields DEF Stops
  <2> QED
    BY <2>1, <2>2, RoomsCommitted DEF Starting, At
<1>5. ASSUME NEW r \in Requests, RecordStep(r) PROVE RoomRecords'
  BY <1>4, <1>5, StartsKeepRooms, MeetingsKeepRooms, DeletionsKeepRooms, OthersKeepRooms
     DEF RecordStep
<1> QED
  BY <1>2, <1>3, <1>5 DEF RecordsNext

RoomInv == NoRecords /\ (Part = "records" => RoomRecords)

LEMMA RoomsBegin == ASSUME Init PROVE RoomInv
<1>1. mix \in Mixes
  BY DEF Init
<1>2. ASSUME NEW rows, TransactionsInit(rows)
      PROVE  /\ ReqShape /\ WritesShape /\ table = rows
             /\ \A q \in Requests : req[q] = Idle /\ DOMAIN writes[q] = {}
  BY <1>2 DEF TransactionsInit, ReqShape, WritesShape, NoWrites, Idle
<1>3. NoRecords
  <2>1. "none" \notin RecordOps
    BY DEF RecordOps, Needs
  <2>2. ASSUME Part # "records"
        PROVE  ReqShape /\ announced = {} /\ \A q \in Requests : req[q] = Idle
    BY <1>2, <2>2, InitialParts
  <2> QED
    BY <1>1, <2>1, <2>2, IdleFields DEF NoRecords
<1>4. ASSUME Part = "records" PROVE RoomRecords
  <2> DEFINE rows == [x \in Roots \cup InitialLeaves |-> NewRow(x)]
  <2>1. TransactionsInit(rows) /\ announced = {}
    BY <1>4, InitialParts DEF RecordsInit
  <2>2. "meetings" \in DOMAIN rows /\ rows["meetings"] = NewRow("meetings")
    BY DEF Roots
  <2>3. "status" \in DOMAIN NewRow("meetings")
    BY DEF NewRow, Row, Over
  <2> HIDE DEF rows
  <2>4. /\ ReqShape /\ WritesShape /\ table = rows
        /\ \A q \in Requests : req[q] = Idle /\ DOMAIN writes[q] = {}
    BY <1>2, <2>1
  <2>5. \A q \in Requests : RoomRequest(q) /\ ~Holds(q, "meetings") /\ ~Holds(q, "rooms")
    BY <2>4, IdleFields DEF RoomRequest, Marked, ClaimsMeeting, RoomWriter, RoomVacant,
                            MeetingWriter, Starting, Holds
  <2>6. ~Underway
    BY <2>1, <2>4, IdleFields DEF Underway, At
  <2> QED
    BY <2>2, <2>3, <2>4, <2>5, <2>6 DEF RoomRecords, Sole, Meeting
<1> QED
  BY <1>3, <1>4 DEF RoomInv

LEMMA RoomsStay == ASSUME RoomInv, [Next]_vars PROVE RoomInv'
<1>1. CASE Part # "records"
  BY <1>1, OtherPartsKeep DEF RoomInv
<1>2. CASE Part = "records"
  <2>1. Part' = "records"
    BY <1>2, Parting
  <2>2. ASSUME UNCHANGED vars PROVE RoomRecords'
    BY <1>2, <2>2
       DEF RoomInv, vars, dbVars, recordVars, RoomRecords, ReqShape, WritesShape, Sole, RoomRequest,
           Marked, ClaimsMeeting, RoomWriter, RoomVacant, MeetingWriter, Starting, Holds, Deletes,
           Underway, At, MeetingIs, Meeting
  <2>3. ASSUME RecordsNext PROVE RoomRecords'
    BY <1>2, <2>3, RecordsKeepRooms DEF RoomInv
  <2> QED
    BY <1>2, <2>1, <2>2, <2>3, Parting DEF RoomInv, NoRecords
<1> QED
  BY <1>1, <1>2

\* A consumer that reads the meeting when it hears of its start does not find
\* it scheduled, whatever requests meet at its row (start_meeting).
THEOREM StartsAreVisible == Spec => []StartIsVisible
<1>1. RoomInv => StartIsVisible
  BY DEF RoomInv, NoRecords, RoomRecords, Underway, StartIsVisible
<1> QED
  BY <1>1, RoomsBegin, RoomsStay, PTL DEF Spec

\* Two starts at once never insert the room twice, nor into a meeting that
\* is gone, for any number of requests (start_meeting).
THEOREM RoomsAreNew == Spec => []RoomsNeverCollide
<1>1. RoomInv => RoomsNeverCollide
  <2> SUFFICES ASSUME RoomInv, NEW r \in Requests, At(r, "start", "new room")
               PROVE  ~Violates(r, "rooms", NewRow("rooms"))
    BY DEF RoomsNeverCollide
  <2>1. RoomRecords
    <3>1. "start" \in RecordOps
      BY DEF RecordOps, Needs
    <3> QED
      BY <3>1 DEF RoomInv, NoRecords, At
  <2>2. Starting(r) /\ "rooms" \notin DOMAIN table /\ ~Holds(r, "rooms")
        /\ Holds(r, "meetings") /\ ~Deletes(r, "meetings")
    BY <2>1 DEF RoomRecords, RoomRequest, RoomVacant, RoomWriter, ClaimsMeeting, Starting, At
  <2>3. NewRow("rooms").refs = {"meetings"}
    <3>1. NewRow("rooms") = Over([refs |-> Parents("rooms"), gone |-> FALSE], [sid |-> FALSE])
      BY DEF NewRow, Row
    <3>2. Parents("rooms") = {"meetings"}
      <4>1. Keys["rooms"] = {Ref("meetings")} /\ Ref("meetings").to = "meetings"
        BY DEF Keys, RoomORM, Ref
      <4> QED
        BY <4>1 DEF Parents
    <3> QED
      BY <3>1, <3>2 DEF Over
  <2> QED
    BY <2>2, <2>3 DEF Violates, Exists
<1> QED
  BY <1>1, RoomsBegin, RoomsStay, PTL DEF Spec

-----------------------------------------------------------------------------
\* Links by mail

\* Who writes the account's row has flushed it once, and mails the link that
\* is in the flush.  A mail that is sure has the token of the flushed row, if
\* the row is still to be committed, and else of the committed one.
AccountWriter(q) ==
    Holds(q, "users") =>
        /\ req[q].at \in {"mail", "commit"} /\ ~Deletes(q, "users")
        /\ "users" \notin DOMAIN table => Links \subseteq DOMAIN writes[q]["users"]
Mailing(q) ==
    req[q].at = "mail" => Holds(q, "users") /\ LinkOf(q) \in DOMAIN writes[q]["users"]
FlushedWorks(q, l) ==
    mailed[l].sure /\ Holds(q, "users") /\ l \in DOMAIN writes[q]["users"]
        /\ ~(req[q].at = "mail" /\ l = LinkOf(q))
    => writes[q]["users"][l] \in {None, mailed[l].token}
CommittedWorks(l) ==
    mailed[l].sure /\ "users" \in DOMAIN table =>
        \/ User[l] \in {None, mailed[l].token}
        \/ \E q \in Requests : /\ req[q].at = "commit" /\ Holds(q, "users")
                              /\ l \in DOMAIN writes[q]["users"]
MailRequest(q) ==
    Marked(q, "users") /\ AccountWriter(q) /\ Mailing(q) /\ \A l \in Links : FlushedWorks(q, l)
MailedShape ==
    /\ mailed = [l \in Links |-> mailed[l]]
    /\ \A l \in Links : "sure" \in DOMAIN mailed[l]
MailRecords ==
    /\ ReqShape /\ WritesShape /\ MailedShape
    /\ Sole("users")
    /\ \A q \in Requests : MailRequest(q)
    /\ \A l \in Links : CommittedWorks(l)
    /\ "users" \in DOMAIN table => Links \subseteq DOMAIN User

\* A step of a request that neither holds the account's row nor comes to.
LEMMA MailsQuiet ==
    ASSUME MailRecords, NEW r \in Requests, Alone(r), OthersKeep(r), UNCHANGED <<table, mailed>>,
           ~Holds(r, "users"), ~Holds(r, "users")', req'[r].at # "mail"
    PROVE  MailRecords'
<1>1. \A q \in Requests \ {r} : req'[q] = req[q] /\ writes'[q] = writes[q]
  BY DEF Alone, OthersKeep
<1>2. \A q \in Requests \ {r} : MailRequest(q)'
  BY <1>1 DEF MailRecords, MailRequest, Marked, AccountWriter, Mailing, FlushedWorks, LinkOf,
              Holds, Deletes
<1>3. MailRequest(r)'
  BY DEF MailRequest, Marked, AccountWriter, Mailing, FlushedWorks
<1>4. \A l \in Links : CommittedWorks(l)'
  <2> SUFFICES ASSUME NEW l \in Links PROVE CommittedWorks(l)'
    OBVIOUS
  <2>1. CommittedWorks(l)
    BY DEF MailRecords
  <2> QED
    BY <1>1, <2>1 DEF CommittedWorks, Holds, User
<1>5. Sole("users")'
  BY <1>1 DEF MailRecords, Sole, Holds
<1> QED
  BY <1>2, <1>3, <1>4, <1>5 DEF MailRecords, Alone, OthersKeep, MailedShape, User

\* A request flushes the account's row for the first time.
LEMMA MailsFlushed ==
    ASSUME MailRecords, NEW r \in Requests, NEW row, NEW at \in {"mail", "commit"},
           Moves(r, at), Flushes(r, "users", row), UNCHANGED mailed,
           Unlocked(r, "users"), ~Holds(r, "users"),
           "gone" \in DOMAIN row, ~row.gone,
           "users" \notin DOMAIN table => Links \subseteq DOMAIN row,
           at = "mail" => LinkOf(r) \in DOMAIN row,
           \A l \in Links \cap DOMAIN row : row[l] = None \/ (at = "mail" /\ l = LinkOf(r))
    PROVE  MailRecords'
<1>1. \A q \in Requests \ {r} : req'[q] = req[q] /\ writes'[q] = writes[q] /\ ~Holds(q, "users")
  BY DEF Moves, Alone, Flushes, OthersKeep, Unlocked, Others
<1>2. req'[r].op = req[r].op /\ req'[r].at = at
  BY DEF Moves
<1>3. Holds(r, "users")' /\ writes'[r]["users"] = row /\ UNCHANGED table
  BY DEF Flushes, Holds
<1>4. LinkOf(r)' = LinkOf(r)
  BY <1>2 DEF LinkOf
<1>5. MailRequest(r)'
  BY <1>2, <1>3, <1>4 DEF MailRequest, Marked, AccountWriter, Mailing, FlushedWorks, Deletes
<1>6. \A q \in Requests \ {r} : MailRequest(q)'
  BY <1>1 DEF MailRecords, MailRequest, Marked, AccountWriter, Mailing, FlushedWorks, Holds
<1>7. \A l \in Links : CommittedWorks(l)'
  <2> SUFFICES ASSUME NEW l \in Links PROVE CommittedWorks(l)'
    OBVIOUS
  <2>1. CommittedWorks(l) /\ \A q \in Requests : ~Holds(q, "users")
    BY <1>1 DEF MailRecords
  <2> QED
    BY <1>3, <2>1 DEF CommittedWorks, User
<1>8. Sole("users")'
  BY <1>1 DEF Sole, Holds
<1> QED
  BY <1>3, <1>5, <1>6, <1>7, <1>8
     DEF MailRecords, Moves, Alone, Flushes, OthersKeep, MailedShape, User

LEMMA MailsUpdated ==
    ASSUME MailRecords, NEW r \in Requests, NEW columns, NEW at \in {"mail", "commit"},
           req[r].at \notin {"mail", "commit"},
           Update(r, "users", columns), Goto(r, at), UNCHANGED <<table, mailed>>,
           "gone" \notin DOMAIN columns,
           at = "mail" => LinkOf(r) \in DOMAIN columns /\ LinkOf(r) # "refs",
           \A l \in Links \cap DOMAIN columns :
                columns[l] = None \/ (at = "mail" /\ l = LinkOf(r))
    PROVE  MailRecords'
<1>1. ReqShape /\ WritesShape /\ ~Holds(r, "users") /\ Marked(r, "users")
  BY DEF MailRecords, MailRequest, AccountWriter
<1>2. Moves(r, at) /\ Unlocked(r, "users") /\ Exists(r, "users")
  BY <1>1, GotoMoves DEF Update
<1>3. PICK row : Flushes(r, "users", row) /\ row = Columns(r, "users", columns)
  BY <1>1, UpdateFlushes
<1>4. /\ "gone" \in DOMAIN row /\ ~row.gone
      /\ \A c \in DOMAIN columns \ {"refs"} : c \in DOMAIN row /\ row[c] = columns[c]
      /\ \A c : c \notin DOMAIN columns \cup {"refs", "gone"} => c \notin DOMAIN row
  BY <1>1, <1>2, <1>3, ColumnsKeep
<1>5. "users" \in DOMAIN table
  BY <1>1, <1>2 DEF Exists
<1>6. \A l \in Links \cap DOMAIN row : row[l] = None \/ (at = "mail" /\ l = LinkOf(r))
  BY <1>4 DEF Links
<1> QED
  BY <1>1, <1>2, <1>3, <1>4, <1>5, <1>6, MailsFlushed

LEMMA MailsRegistered ==
    ASSUME MailRecords, NEW r \in Requests, RegisterInserts(r)
    PROVE  MailRecords'
<1>1. /\ ReqShape /\ WritesShape /\ ~Holds(r, "users") /\ req[r].op = "register"
      /\ UNCHANGED <<table, mailed>>
  BY DEF MailRecords, MailRequest, AccountWriter, RegisterInserts, At, Fail
<1>2. CASE Fail(r)
  <2>1. Drops(r)
    BY <1>1, <1>2, FailDrops
  <2> QED
    BY <1>1, <2>1, MailsQuiet, IdleFields DEF Drops, Stops, Holds
<1>3. CASE ~Fail(r)
  <2>1. PICK row : row = NewUser(minted')
    OBVIOUS
  <2>2. Insert(r, "users", row) /\ Goto(r, "mail")
    BY <1>3, <2>1 DEF RegisterInserts
  <2>3. /\ Moves(r, "mail") /\ Flushes(r, "users", row) /\ Unlocked(r, "users")
    BY <1>1, <2>2, GotoMoves, InsertFlushes DEF Insert, MayInsert
  <2>4. row = Over([refs |-> Parents("users"), gone |-> FALSE],
                   [ password |-> "first", name |-> "first", avatar |-> FALSE,
                     verified |-> FALSE, verify |-> minted', reset |-> None ])
    BY <2>1 DEF NewUser, Row
  <2>5. /\ "gone" \in DOMAIN row /\ ~row.gone
        /\ "verify" \in DOMAIN row /\ "reset" \in DOMAIN row /\ row["reset"] = None
    BY <2>4 DEF Over
  <2>6. LinkOf(r) = "verify"
    BY <1>1 DEF LinkOf
  <2>7. Links = {"reset", "verify"}
    BY DEF Links
  <2> QED
    BY <1>1, <2>3, <2>5, <2>6, <2>7, MailsFlushed
<1> QED
  BY <1>2, <1>3

\* The mail leaves, or not, while the row is the request's.
LEMMA MailsSent ==
    ASSUME MailRecords, NEW r \in Requests, SendEmail(r) \/ MailFails(r)
    PROVE  MailRecords'
<1> DEFINE L == LinkOf(r)
<1>1. /\ ReqShape /\ WritesShape /\ MailedShape /\ MailRequest(r) /\ req[r].at = "mail"
      /\ Holds(r, "users") /\ L \in DOMAIN writes[r]["users"]
  BY DEF MailRecords, MailRequest, Mailing, SendEmail, MailFails
<1>2. L \in Links
  BY DEF LinkOf, Links
<1>3. \A q \in Requests \ {r} : ~Holds(q, "users")
  BY <1>1 DEF MailRecords, Sole
<1>4. ASSUME NEW l \in Links, mailed[l].sure, "users" \in DOMAIN table
      PROVE  User[l] \in {None, mailed[l].token}
  BY <1>1, <1>3, <1>4 DEF MailRecords, CommittedWorks
<1>5. CASE SendEmail(r)
  <2>1. Seen(r, "users")[L] = writes[r]["users"][L]
    BY <1>1 DEF Seen, Inserts, Over
  <2>2. /\ Moves(r, "commit") /\ UNCHANGED <<table, writes>>
        /\ mailed' = [mailed EXCEPT ![L] = [token |-> Seen(r, "users")[L], sure |-> TRUE]]
    BY <1>1, <1>5, GotoMoves DEF SendEmail
  <2>3. /\ MailedShape' /\ mailed'[L].token = writes[r]["users"][L]
        /\ \A l \in Links \ {L} : mailed'[l] = mailed[l]
    BY <1>1, <1>2, <2>1, <2>2 DEF MailedShape
  <2> HIDE DEF L
  <2>4. /\ req'[r].at = "commit" /\ \A q \in Requests \ {r} : req'[q] = req[q]
        /\ \A q \in Requests : Holds(q, "users")' <=> Holds(q, "users")
    BY <2>2 DEF Moves, Alone, Holds
  <2>5. \A l \in Links : FlushedWorks(r, l)'
    <3> SUFFICES ASSUME NEW l \in Links, mailed'[l].sure, l \in DOMAIN writes[r]["users"]
                 PROVE  writes[r]["users"][l] \in {None, mailed'[l].token}
      BY <2>2 DEF FlushedWorks
    <3>1. CASE l = L
      BY <2>3, <3>1
    <3>2. CASE l # L
      BY <1>1, <2>3, <3>2 DEF MailRequest, FlushedWorks, L
    <3> QED
      BY <3>1, <3>2
  <2>6. MailRequest(r)'
    BY <1>1, <2>2, <2>4, <2>5 DEF MailRequest, Marked, AccountWriter, Mailing, Holds, Deletes
  <2>7. \A q \in Requests \ {r} : MailRequest(q)'
    BY <1>3, <2>2, <2>4 DEF MailRecords, MailRequest, Marked, AccountWriter, Mailing, FlushedWorks
  <2>8. \A l \in Links : CommittedWorks(l)'
    <3> SUFFICES ASSUME NEW l \in Links PROVE CommittedWorks(l)'
      OBVIOUS
    <3>1. CASE l = L
      BY <1>1, <2>2, <2>4, <3>1 DEF CommittedWorks
    <3>2. CASE l # L
      BY <1>4, <2>2, <2>3, <3>2 DEF CommittedWorks, User
    <3> QED
      BY <3>1, <3>2
  <2> QED
    BY <1>1, <2>2, <2>3, <2>4, <2>6, <2>7, <2>8
       DEF MailRecords, Moves, Alone, WritesShape, Sole, User
<1>6. CASE MailFails(r)
  <2>1. Drops(r) /\ mailed' \in {mailed, [mailed EXCEPT ![L] =
                                     [token |-> Seen(r, "users")[L], sure |-> FALSE]]}
    BY <1>1, <1>6, FailDrops DEF MailFails
  <2>2. MailedShape' /\ \A l \in Links : mailed'[l].sure => mailed[l].sure /\ mailed'[l] = mailed[l]
    BY <1>1, <1>2, <2>1 DEF MailedShape
  <2> HIDE DEF L
  <2>3. /\ Alone(r) /\ OthersKeep(r) /\ UNCHANGED table /\ DOMAIN writes'[r] = {}
        /\ req'[r].at = "idle"
    BY <2>1, IdleFields DEF Drops, Stops
  <2>4. \A q \in Requests : ~Holds(q, "users")'
    BY <1>3, <2>3 DEF Holds, OthersKeep
  <2>5. \A q \in Requests : MailRequest(q)'
    BY <1>3, <2>3, <2>4 DEF MailRecords, MailRequest, Marked, AccountWriter, Mailing,
                            FlushedWorks, Alone
  <2>6. \A l \in Links : CommittedWorks(l)'
    BY <1>4, <2>2, <2>3 DEF CommittedWorks, User
  <2> QED
    BY <2>2, <2>3, <2>4, <2>5, <2>6 DEF MailRecords, Alone, OthersKeep, Sole, User
<1> QED
  BY <1>5, <1>6

LEMMA MailsCommitted ==
    ASSUME MailRecords, NEW r \in Requests, AccountCommits(r)
    PROVE  MailRecords'
<1>1. /\ CommitTo(r, Idle) /\ req[r].at = "commit" /\ UNCHANGED mailed
      /\ ReqShape /\ WritesShape /\ MailedShape /\ MailRequest(r)
  BY DEF AccountCommits, Commit, accountVars, MailRecords
<1>2. Alone(r) /\ OthersKeep(r) /\ DOMAIN writes'[r] = {} /\ req'[r].at = "idle"
  BY <1>1, CommitStops, CommitRows, IdleFields DEF Stops
<1>3. \A q \in Requests \ {r} : req'[q] = req[q] /\ writes'[q] = writes[q]
  BY <1>2 DEF Alone, OthersKeep
<1>4. /\ ~Deletes(r, "users")
      /\ "users" \in DOMAIN table' <=> ("users" \in DOMAIN table \/ Holds(r, "users"))
      /\ "users" \in DOMAIN table' => table'["users"] = Seen(r, "users")
  BY <1>1, CommitRows DEF MailRequest, AccountWriter, Deletes
<1>5. ASSUME ~Holds(r, "users") PROVE MailRecords'
  <2>1. UNCHANGED <<table["users"], "users" \in DOMAIN table>> \/ "users" \notin DOMAIN table'
    BY <1>4, <1>5 DEF Seen, Inserts
  <2>2. /\ "users" \in DOMAIN table' <=> "users" \in DOMAIN table
        /\ "users" \in DOMAIN table => table'["users"] = table["users"]
    BY <1>4, <1>5 DEF Seen, Inserts
  <2>3. ~Holds(r, "users")'
    BY <1>2 DEF Holds
  <2>4. \A q \in Requests \ {r} : MailRequest(q)'
    BY <1>1, <1>3, <2>2
       DEF MailRecords, MailRequest, Marked, AccountWriter, Mailing, FlushedWorks, LinkOf,
           Holds, Deletes
  <2>5. MailRequest(r)'
    BY <1>2, <2>3 DEF MailRequest, Marked, AccountWriter, Mailing, FlushedWorks
  <2>6. \A l \in Links : CommittedWorks(l)'
    <3> SUFFICES ASSUME NEW l \in Links PROVE CommittedWorks(l)'
      OBVIOUS
    <3>1. CommittedWorks(l)
      BY DEF MailRecords
    <3> QED
      BY <1>1, <1>3, <1>5, <2>2, <3>1 DEF CommittedWorks, Holds, User
  <2>7. Sole("users")'
    BY <1>3, <2>3 DEF MailRecords, Sole, Holds
  <2> QED
    BY <1>1, <1>2, <2>2, <2>4, <2>5, <2>6, <2>7
       DEF MailRecords, Alone, OthersKeep, MailedShape, User
<1>6. ASSUME Holds(r, "users") PROVE MailRecords'
  <2>1. \A q \in Requests : ~Holds(q, "users")'
    BY <1>2, <1>3, <1>6 DEF MailRecords, Sole, Holds
  <2>2. \A q \in Requests : MailRequest(q)'
    <3>1. MailRequest(r)'
      BY <1>2, <2>1 DEF MailRequest, Marked, AccountWriter, Mailing, FlushedWorks
    <3>2. ASSUME NEW q \in Requests \ {r} PROVE MailRequest(q)'
      <4>1. req[q].at # "mail"
        BY <1>6 DEF MailRecords, MailRequest, Mailing, Sole
      <4> QED
        BY <1>3, <2>1, <4>1 DEF MailRequest, Marked, AccountWriter, Mailing, FlushedWorks
    <3> QED
      BY <3>1, <3>2
  <2>3. "users" \in DOMAIN table' /\ table'["users"] = Seen(r, "users")
    BY <1>4, <1>6
  <2> DEFINE row == writes[r]["users"]
  <2>4. \A l \in DOMAIN row : l \in DOMAIN table'["users"] /\ table'["users"][l] = row[l]
    BY <1>6, <2>3 DEF Seen, Inserts, Over
  <2>5. ASSUME NEW l \in Links, l \notin DOMAIN row
        PROVE  /\ "users" \in DOMAIN table
               /\ l \in DOMAIN table'["users"] /\ table'["users"][l] = table["users"][l]
    <3>1. "users" \in DOMAIN table
      BY <1>1, <1>6, <2>5 DEF MailRequest, AccountWriter
    <3>2. l \in DOMAIN table["users"]
      BY <3>1 DEF MailRecords, User
    <3> QED
      BY <1>6, <2>3, <2>5, <3>1, <3>2 DEF Seen, Inserts, Over
  <2>6. Links \subseteq DOMAIN table'["users"]
    BY <2>4, <2>5
  <2>7. \A l \in Links : CommittedWorks(l)'
    <3> SUFFICES ASSUME NEW l \in Links, mailed[l].sure
                 PROVE  table'["users"][l] \in {None, mailed[l].token}
      BY <1>1 DEF CommittedWorks, User
    <3>1. CASE l \in DOMAIN row
      BY <1>1, <1>6, <2>4, <3>1 DEF MailRequest, FlushedWorks
    <3>2. CASE l \notin DOMAIN row
      <4>1. \A q \in Requests : Holds(q, "users") => q = r
        BY <1>6 DEF MailRecords, Sole
      <4> QED
        BY <2>5, <3>2, <4>1 DEF MailRecords, CommittedWorks, User
    <3> QED
      BY <3>1, <3>2
  <2> QED
    BY <1>1, <1>2, <2>1, <2>2, <2>6, <2>7
       DEF MailRecords, Alone, OthersKeep, MailedShape, Sole, User
<1> QED
  BY <1>5, <1>6

\* The handlers that write the account's row.
LEMMA AccountsKeepMails ==
    ASSUME MailRecords, NEW r \in Requests,
           \/ ForgotPassword(r) \/ ResendVerification(r) \/ ResetPassword(r) \/ VerifyEmail(r)
           \/ UpdateProfile(r) \/ ChangePassword(r) \/ LinkAvatar(r) \/ DeleteAvatar(r)
    PROVE  MailRecords'
<1>1. /\ req[r].at \in {"work", "write", "link"} /\ UNCHANGED <<table, mailed>>
      /\ req[r].op \in {"forgot", "resend", "reset", "verify", "profile", "password", "upload", "unlink"}
  BY DEF ForgotPassword, ResendVerification, ResetPassword, VerifyEmail, UpdateProfile,
         ChangePassword, LinkAvatar, DeleteAvatar, At, accountVars, Fail
<1>2. ReqShape /\ WritesShape /\ ~Holds(r, "users")
  BY <1>1 DEF MailRecords, MailRequest, AccountWriter
<1>3. CASE ForgotPassword(r)
  <2>1. CASE Goto(r, "commit") /\ UNCHANGED writes
    BY <1>1, <1>2, <2>1, GotoMoves, MailsQuiet DEF Moves, OthersKeep, WritesShape, Holds
  <2>2. CASE Update(r, "users", [reset |-> minted']) /\ Goto(r, "mail")
    <3>1. LinkOf(r) = "reset"
      BY <1>3 DEF LinkOf, ForgotPassword, At
    <3>2. DOMAIN [reset |-> minted'] = {"reset"}
      OBVIOUS
    <3> QED
      BY <1>1, <2>2, <3>1, <3>2, MailsUpdated
  <2> QED
    BY <1>3, <2>1, <2>2 DEF ForgotPassword
<1>4. CASE ResendVerification(r)
  <2>1. LinkOf(r) = "verify"
    BY <1>4 DEF LinkOf, ResendVerification, At
  <2>2. DOMAIN [verify |-> minted'] = {"verify"}
    OBVIOUS
  <2> QED
    BY <1>1, <1>4, <2>1, <2>2, MailsUpdated DEF ResendVerification
<1>5. ASSUME NEW columns, Update(r, "users", columns), Goto(r, "commit"),
             "gone" \notin DOMAIN columns, \A l \in Links \cap DOMAIN columns : columns[l] = None
      PROVE  MailRecords'
  BY <1>1, <1>5, MailsUpdated
<1>6. CASE ResetPassword(r)
  <2>1. /\ DOMAIN [password |-> "second", reset |-> None] = {"password", "reset"}
        /\ [password |-> "second", reset |-> None]["reset"] = None
    OBVIOUS
  <2> QED
    BY <1>5, <1>6, <2>1 DEF ResetPassword, Links
<1>7. CASE VerifyEmail(r)
  <2>1. /\ DOMAIN [verified |-> TRUE, verify |-> None] = {"verified", "verify"}
        /\ [verified |-> TRUE, verify |-> None]["verify"] = None
    OBVIOUS
  <2> QED
    BY <1>5, <1>7, <2>1 DEF VerifyEmail, Links
<1>8. CASE UpdateProfile(r)
  <2>1. DOMAIN [name |-> "second"] = {"name"}
    OBVIOUS
  <2> QED
    BY <1>5, <1>8, <2>1 DEF UpdateProfile, Links
<1>9. CASE ChangePassword(r)
  <2>1. CASE Fail(r)
    <3>1. Drops(r)
      BY <1>2, <2>1, FailDrops
    <3> QED
      BY <1>1, <1>2, <3>1, MailsQuiet, IdleFields DEF Drops, Stops, Holds
  <2>2. CASE ~Fail(r)
    <3>1. PICK new : Update(r, "users", [password |-> new]) /\ Goto(r, "commit")
      BY <1>9, <2>2 DEF ChangePassword
    <3>2. DOMAIN [password |-> new] = {"password"}
      OBVIOUS
    <3> QED
      BY <1>5, <3>1, <3>2 DEF Links
  <2> QED
    BY <2>1, <2>2
<1>10. CASE LinkAvatar(r)
  <2>1. DOMAIN [avatar |-> TRUE] = {"avatar"}
    OBVIOUS
  <2> QED
    BY <1>5, <1>10, <2>1 DEF LinkAvatar, Links
<1>11. CASE DeleteAvatar(r)
  <2>1. DOMAIN [avatar |-> FALSE] = {"avatar"}
    OBVIOUS
  <2> QED
    BY <1>5, <1>11, <2>1 DEF DeleteAvatar, Links
<1> QED
  BY <1>3, <1>4, <1>6, <1>7, <1>8, <1>9, <1>10, <1>11

\* What the other handlers do.
LEMMA OthersKeepMails ==
    ASSUME MailRecords, NEW r \in Requests,
           \/ CheckRateLimit(r) \/ LimitExpires(r) \/ Register(r) \/ CheckLockout(r)
           \/ VerifyPassword(r) \/ ClearFailedLogins(r) \/ RecordFailedLogin(r)
           \/ FailuresExpire(r) \/ UploadAvatar(r) \/ CreateAgent(r) \/ DeleteAgent(r)
           \/ CreateKey(r) \/ RevokeKey(r) \/ ExchangeKey(r)
    PROVE  MailRecords'
<1>1. req[r].at \notin {"mail", "commit"} /\ UNCHANGED mailed
  BY DEF CheckRateLimit, LimitExpires, Register, CheckLockout, VerifyPassword, ClearFailedLogins,
         RecordFailedLogin, FailuresExpire, UploadAvatar, CreateAgent, DeleteAgent, CreateKey,
         RevokeKey, ExchangeKey, At, accountVars
<1>2. ReqShape /\ WritesShape /\ ~Holds(r, "users")
  BY <1>1 DEF MailRecords, MailRequest, AccountWriter
<1>3. ASSUME \/ Drops(r)
             \/ \E at : /\ Moves(r, at) /\ at # "mail"
                       /\ UNCHANGED table /\ OthersKeep(r) /\ Same(r, "users")
      PROVE  MailRecords'
  <2>1. CASE Drops(r)
    BY <1>1, <1>2, <2>1, MailsQuiet, IdleFields DEF Drops, Stops, Holds
  <2>2. CASE ~Drops(r)
    BY <1>1, <1>2, <1>3, <2>2, MailsQuiet DEF Moves, Same, Holds
  <2> QED
    BY <2>1, <2>2
<1>4. ASSUME Fail(r) PROVE MailRecords'
  BY <1>2, <1>3, <1>4, FailDrops
<1>5. ASSUME NEW at, Goto(r, at), at # "mail", UNCHANGED <<table, writes>> PROVE MailRecords'
  BY <1>2, <1>3, <1>5, GotoMoves DEF OthersKeep, WritesShape, Same
<1>6. CASE \/ CheckRateLimit(r) \/ LimitExpires(r) \/ Register(r) \/ CheckLockout(r)
           \/ VerifyPassword(r) \/ ClearFailedLogins(r) \/ RecordFailedLogin(r)
           \/ FailuresExpire(r) \/ UploadAvatar(r) \/ ExchangeKey(r)
  BY <1>4, <1>5, <1>6
     DEF CheckRateLimit, LimitExpires, Register, CheckLockout, VerifyPassword,
         ClearFailedLogins, RecordFailedLogin, FailuresExpire, UploadAvatar, ExchangeKey
<1>7. CASE CreateAgent(r) \/ DeleteAgent(r) \/ CreateKey(r) \/ RevokeKey(r)
  <2>1. ASSUME NEW x, NEW row, x # "users",
               UpdateOrFail(r, x, row, "commit") \/ AddOrFail(r, x, row, "commit")
        PROVE  MailRecords'
    <3>1. Drops(r) \/ (Moves(r, "commit") /\ Touches(r, x))
      BY <1>2, <2>1, StatementTouches
    <3> QED
      BY <1>3, <2>1, <3>1 DEF Touches
  <2>2. ASSUME DeleteOrFail(r, "agent_configs", "commit") PROVE MailRecords'
    <3>1. \/ Drops(r)
          \/ Moves(r, "commit") /\ UNCHANGED table /\ OthersKeep(r) /\ Same(r, "users")
      BY <1>2, <2>2, DeletionTouches, NothingFollows
    <3> QED
      BY <1>3, <3>1
  <2> QED
    BY <1>7, <2>1, <2>2 DEF CreateAgent, DeleteAgent, CreateKey, RevokeKey
<1> QED
  BY <1>6, <1>7

LEMMA ArrivalsKeepMails ==
    ASSUME MailRecords, NEW r \in Requests, (\E op \in mix : Arrive(r, op)) \/ FollowLink(r)
    PROVE  MailRecords'
<1>1. ReqShape /\ WritesShape /\ UNCHANGED <<table, writes, mailed>>
  BY DEF MailRecords, Arrive, FollowLink, accountVars
<1>2. \E op, at, saw : Starts(r, op, at, saw) /\ at \in {"limit", "write"}
  <2>1. ASSUME NEW op \in mix, Arrive(r, op)
        PROVE  \E at, saw : Starts(r, op, at, saw) /\ at \in {"limit", "write"}
    BY <1>1, <2>1, BeginStarts DEF Arrive
  <2> QED
    BY <1>1, <2>1, BeginStarts DEF FollowLink
<1>3. Alone(r) /\ req[r] = Idle /\ req'[r].at # "mail"
  BY <1>2 DEF Starts
<1>4. ~Holds(r, "users")
  BY <1>3, IdleFields DEF MailRecords, MailRequest, AccountWriter
<1> QED
  BY <1>1, <1>3, <1>4, MailsQuiet DEF OthersKeep, WritesShape, Holds

\* The link in the last mail works until it is used, whatever other requests
\* write the account's row meanwhile: the mail leaves while the request that
\* made its token holds the row, so that mails come in the order of the
\* commits (forgot_password, resend_verification, register).
THEOREM MailedLinksWork == Spec => []LinkWorks
<1> DEFINE MailInv == Part = "accounts" => MailRecords
<1>1. Init => MailInv
  <2> SUFFICES ASSUME Init, Part = "accounts" PROVE MailRecords
    OBVIOUS
  <2>1. /\ TransactionsInit(InitialRows) /\ AccountsInit
    BY InitialParts
  <2>2. /\ ReqShape /\ WritesShape /\ table = InitialRows
        /\ \A q \in Requests : req[q] = Idle /\ DOMAIN writes[q] = {}
    BY <2>1 DEF TransactionsInit, ReqShape, WritesShape, NoWrites, Idle
  <2>3. MailedShape /\ \A l \in Links : ~mailed[l].sure
    BY <2>1 DEF AccountsInit, MailedShape
  <2>4. \A q \in Requests : MailRequest(q) /\ ~Holds(q, "users")
    BY <2>2, IdleFields DEF MailRequest, Marked, AccountWriter, Mailing, FlushedWorks, Holds
  <2>5. "users" \in DOMAIN table => Links \subseteq DOMAIN User
    <3>1. "users" \in DOMAIN table => User = NewUser(None)
      BY <2>2 DEF InitialRows, NoWrites, User
    <3>2. Links \subseteq DOMAIN NewUser(None)
      BY DEF NewUser, Row, Over, Links
    <3> QED
      BY <3>1, <3>2
  <2> QED
    BY <2>2, <2>3, <2>4, <2>5 DEF MailRecords, Sole, CommittedWorks
<1>2. MailInv /\ [Next]_vars => MailInv'
  <2> SUFFICES ASSUME MailRecords, [Next]_vars, Part = "accounts" PROVE MailRecords'
    BY Parting
  <2>1. CASE UNCHANGED vars
    <3>1. UNCHANGED <<table, writes, req, mailed>>
      BY <2>1 DEF vars, dbVars, accountVars
    <3> QED
      BY <3>1
         DEF MailRecords, ReqShape, WritesShape, MailedShape, Sole, MailRequest, Marked,
             AccountWriter, Mailing, FlushedWorks, CommittedWorks, LinkOf, Holds, Deletes, User
  <2>2. CASE KeyExpires
    <3>1. UNCHANGED <<table, writes, req, mailed>>
      BY <2>2 DEF KeyExpires, dbVars
    <3> QED
      BY <3>1
         DEF MailRecords, ReqShape, WritesShape, MailedShape, Sole, MailRequest, Marked,
             AccountWriter, Mailing, FlushedWorks, CommittedWorks, LinkOf, Holds, Deletes, User
  <2>3. CASE AccountsCrash
    <3>1. /\ ReqShape' /\ WritesShape' /\ UNCHANGED table
          /\ \A q \in Requests : req'[q] = Idle /\ DOMAIN writes'[q] = {}
      BY <2>3, DeathStopsAll DEF AccountsCrash, ServerDies, WritesShape, NoWrites
    <3>2. MailedShape' /\ \A l \in Links : ~mailed'[l].sure
      <4>1. /\ \A l \in Links : "sure" \in DOMAIN mailed[l]
            /\ mailed' = [l \in Links |-> [mailed[l] EXCEPT !.sure = FALSE]]
        BY <2>3 DEF AccountsCrash, MailRecords, MailedShape
      <4>2. \A l \in Links : /\ mailed'[l] = [mailed[l] EXCEPT !.sure = FALSE]
                            /\ "sure" \in DOMAIN mailed'[l] /\ ~mailed'[l].sure
        BY <4>1
      <4> QED
        BY <4>1, <4>2 DEF MailedShape
    <3>3. \A q \in Requests : MailRequest(q)' /\ ~Holds(q, "users")'
      BY <3>1, IdleFields DEF MailRequest, Marked, AccountWriter, Mailing, FlushedWorks, Holds
    <3> QED
      BY <3>1, <3>2, <3>3 DEF MailRecords, Sole, CommittedWorks, User
  <2>4. ASSUME NEW r \in Requests, AccountStep(r) PROVE MailRecords'
    BY <2>4, MailsRegistered, MailsSent, MailsCommitted, AccountsKeepMails, OthersKeepMails
       DEF AccountStep
  <2> QED
    BY <2>1, <2>2, <2>3, <2>4, ArrivalsKeepMails, Parting DEF AccountsNext
<1>3. MailInv => LinkWorks
  BY DEF LinkWorks, LastMailWorks, Users, MailRecords, CommittedWorks
<1> QED
  BY <1>1, <1>2, <1>3, PTL DEF Spec

-----------------------------------------------------------------------------
\* Where the plan stands

\* The columns that are the plan, and those an event sets.
Plan == {"sub", "status", "tier"}
Sets(e) == Plan \cap DOMAIN WebhookColumns(e)
EventTypes == {"completed", "created", "updated", "deleted", "payment_failed", "paid"}
EventTells(e) ==
    /\ e.type \in EventTypes
    /\ e.type = "deleted" => e.status = "canceled" /\ e.sub = None
    /\ e.type = "payment_failed" => e.status = "past_due"

\* At most one customer was made, and c is the one.
One == customers <= 1
Is(c) == c = 1 /\ customers = 1

\* Who writes the account's row is about to commit, and leaves the plan alone
\* unless it handles an event.
PlanWriter(q) ==
    Holds(q, "users") =>
        /\ req[q].at = "commit" /\ ~Deletes(q, "users")
        /\ One /\ "customer" \in DOMAIN writes[q]["users"] => Is(writes[q]["users"].customer)
        /\ req[q].op # "webhook" => Plan \cap DOMAIN writes[q]["users"] = {}
CheckoutKnows(q) ==
    req[q].op = "checkout" =>
        /\ "customer" \in DOMAIN req[q].saw
        /\ One /\ (req[q].at # "write" \/ req[q].saw.customer # None) => Is(req[q].saw.customer)
        /\ req[q].at = "commit" => Holds(q, "users") /\ "customer" \in DOMAIN writes[q]["users"]
WebhookHandles(q) ==
    req[q].op = "webhook" =>
        /\ req[q].at \in {"read", "write", "commit"}
        /\ events # <<>> /\ req[q].saw = Head(events)
        /\ One /\ req[q].at = "commit" =>
              /\ Holds(q, "users")
              /\ Plan \cap DOMAIN writes[q]["users"] = Sets(Head(events))
              /\ \A f \in Sets(Head(events)) : writes[q]["users"][f] = Head(events)[f]
PlanRequest(q) ==
    Marked(q, "users") /\ PlanWriter(q) /\ CheckoutKnows(q) /\ WebhookHandles(q)

\* The account has the customer as soon as something can be paid.
CustomerKnown ==
    /\ Account.customer # None => Is(Account.customer)
    /\ sessions # {} \/ events # <<>> \/ stripe.sub # None => Is(Account.customer)
    /\ \A c \in sessions : c = 1
    /\ \A i \in 1 .. Len(events) : events[i].customer = 1
    /\ stripe.sub # None => stripe.customer = 1

\* What the last event to set f says, and else the account, is what Stripe has.
Settled(f) ==
    \/ \E i \in 1 .. Len(events) :
          /\ f \in Sets(events[i]) /\ events[i][f] = stripe[f]
          /\ \A j \in 1 .. Len(events) : j > i => f \notin Sets(events[j])
    \/ /\ \A i \in 1 .. Len(events) : f \notin Sets(events[i])
       /\ Account[f] = stripe[f]

PlanShape ==
    /\ ReqShape /\ WritesShape /\ Sole("users")
    /\ "users" \in DOMAIN table /\ Plan \cup {"customer"} \subseteq DOMAIN Account
    /\ customers \in Nat /\ changes \in Nat
    /\ DOMAIN stripe = {"sub", "customer", "status", "tier"} /\ DOMAIN owned = {"agents", "feeds"}
    /\ \E S : events \in Seq(S)
    /\ \A i \in 1 .. Len(events) : EventTells(events[i])
    /\ \A q, p \in Webhooks : q = p
PlanRecords ==
    /\ PlanShape
    /\ \A q \in Requests : PlanRequest(q)
    /\ One => CustomerKnown /\ \A f \in Plan : Settled(f)

LEMMA EventColumns ==
    ASSUME NEW e, EventTells(e), NEW columns, columns = WebhookColumns(e)
    PROVE  /\ "gone" \notin DOMAIN columns
           /\ "customer" \in DOMAIN columns => columns.customer = e.customer
           /\ \A f \in Sets(e) : columns[f] = e[f]
           /\ e.type = "completed" => Sets(e) = {"sub"}
           /\ e.type \in {"created", "updated"} => Sets(e) = Plan
           /\ e.type = "deleted" => Sets(e) = {"sub", "status"}
           /\ e.type = "payment_failed" => Sets(e) = {"status"}
           /\ e.type = "paid" => Sets(e) = {}
<1> USE DEF Sets, Plan
<1>1. CASE e.type = "completed"
  <2>1. columns = [customer |-> e.customer, sub |-> e.sub]
    BY <1>1 DEF WebhookColumns
  <2> QED
    BY <1>1, <2>1
<1>2. CASE e.type \in {"created", "updated"}
  <2>1. columns = [sub |-> e.sub, status |-> e.status, tier |-> e.tier]
    BY <1>2 DEF WebhookColumns, ApplySubscription
  <2> QED
    BY <1>2, <2>1
<1>3. CASE e.type = "deleted"
  <2>1. columns = [status |-> "canceled", sub |-> None]
    BY <1>3 DEF WebhookColumns
  <2> QED
    BY <1>3, <2>1 DEF EventTells
<1>4. CASE e.type = "payment_failed"
  <2>1. columns = [status |-> "past_due"]
    BY <1>4 DEF WebhookColumns
  <2> QED
    BY <1>4, <2>1 DEF EventTells
<1>5. CASE e.type = "paid"
  <2>1. columns = [used |-> 0, cycle |-> "running"]
    BY <1>5 DEF WebhookColumns
  <2> QED
    BY <1>5, <2>1
<1> QED
  BY <1>1, <1>2, <1>3, <1>4, <1>5 DEF EventTells, EventTypes

\* A step of one request that commits nothing.
LEMMA PlanKept ==
    ASSUME PlanRecords, NEW r \in Requests, Alone(r), OthersKeep(r), UNCHANGED <<table, billVars>>,
           Unlocked(r, "users") \/ (Holds(r, "users")' => Holds(r, "users")),
           req'[r].op = "webhook" => req[r].op = "webhook" \/ Webhooks = {},
           PlanRequest(r)'
    PROVE  PlanRecords'
<1>1. \A q \in Requests \ {r} : req'[q] = req[q] /\ writes'[q] = writes[q]
  BY DEF Alone, OthersKeep
<1>2. UNCHANGED <<stripe, customers, sessions, events, changes, owned>>
  BY DEF billVars
<1>3. \A q \in Requests : PlanRequest(q)'
  BY <1>1, <1>2 DEF PlanRecords, PlanRequest, Marked, PlanWriter, CheckoutKnows, WebhookHandles,
                    Holds, Deletes, One, Is
<1>4. Sole("users")'
  BY <1>1 DEF PlanRecords, PlanShape, Sole, Holds, Unlocked, Others
<1>5. \A q, p \in Webhooks' : q = p
  <2>1. Webhooks' \subseteq Webhooks \cup {r} /\ (r \in Webhooks' => r \in Webhooks \/ Webhooks = {})
    BY <1>1 DEF Webhooks
  <2> QED
    BY <2>1 DEF PlanRecords, PlanShape
<1>6. PlanShape'
  BY <1>2, <1>4, <1>5 DEF PlanRecords, PlanShape, Alone, OthersKeep, Account
<1>7. One' => One /\ CustomerKnown' /\ \A f \in Plan : Settled(f)'
  BY <1>2 DEF PlanRecords, One, CustomerKnown, Settled, Is, Account
<1> QED
  BY <1>3, <1>6, <1>7 DEF PlanRecords

LEMMA PlanDropped ==
    ASSUME PlanRecords, NEW r \in Requests, Drops(r), UNCHANGED billVars
    PROVE  PlanRecords'
<1>1. /\ Alone(r) /\ UNCHANGED table /\ OthersKeep(r) /\ ~Holds(r, "users")' /\ req'[r].op = "none"
  BY IdleFields DEF Drops, Stops, Holds
<1>2. PlanRequest(r)'
  BY <1>1 DEF PlanRequest, Marked, PlanWriter, CheckoutKnows, WebhookHandles
<1> QED
  BY <1>1, <1>2, PlanKept

\* A request flushes the account's row, and will commit.
LEMMA PlanFlushed ==
    ASSUME PlanRecords, NEW r \in Requests, NEW columns, req[r].at # "commit",
           Update(r, "users", columns), Goto(r, "commit"), UNCHANGED <<table, billVars>>,
           "gone" \notin DOMAIN columns,
           One /\ "customer" \in DOMAIN columns => Is(columns.customer),
           req[r].op # "webhook" => Plan \cap DOMAIN columns = {},
           req[r].op = "checkout" => req[r].at # "write" /\ "customer" \in DOMAIN columns,
           req[r].op = "webhook" => columns = WebhookColumns(req[r].saw)
    PROVE  PlanRecords'
<1>1. /\ ReqShape /\ WritesShape /\ ~Holds(r, "users") /\ Marked(r, "users")
      /\ PlanRequest(r) /\ UNCHANGED <<customers, events>>
  BY DEF PlanRecords, PlanShape, PlanRequest, PlanWriter, billVars
<1>2. Moves(r, "commit") /\ Unlocked(r, "users") /\ Exists(r, "users")
  BY <1>1, GotoMoves DEF Update
<1>3. PICK row : Flushes(r, "users", row) /\ row = Columns(r, "users", columns)
  BY <1>1, UpdateFlushes
<1>4. /\ "gone" \in DOMAIN row /\ ~row.gone
      /\ \A c \in DOMAIN columns \ {"refs"} : c \in DOMAIN row /\ row[c] = columns[c]
      /\ \A c : c \notin DOMAIN columns \cup {"refs", "gone"} => c \notin DOMAIN row
  BY <1>1, <1>2, <1>3, ColumnsKeep
<1>5. Holds(r, "users")' /\ writes'[r]["users"] = row /\ UNCHANGED table /\ OthersKeep(r)
  BY <1>3 DEF Flushes, Holds
<1>6. Alone(r) /\ req'[r].op = req[r].op /\ req'[r].at = "commit" /\ req'[r].saw = req[r].saw
  BY <1>2 DEF Moves
<1>7. PlanWriter(r)' /\ Marked(r, "users")'
  BY <1>1, <1>4, <1>5, <1>6 DEF PlanWriter, Marked, Deletes, Plan, One, Is
<1>8. CheckoutKnows(r)'
  BY <1>1, <1>4, <1>5, <1>6 DEF PlanRequest, CheckoutKnows, One, Is
<1>9. WebhookHandles(r)'
  <2> SUFFICES ASSUME req[r].op = "webhook" PROVE WebhookHandles(r)'
    BY <1>6 DEF WebhookHandles
  <2>1. /\ events # <<>> /\ req[r].saw = Head(events) /\ columns = WebhookColumns(Head(events))
    BY <1>1 DEF PlanRequest, WebhookHandles
  <2>2. EventTells(Head(events))
    <3>1. PICK S : events \in Seq(S)
      BY DEF PlanRecords, PlanShape
    <3>2. Len(events) \in Nat \ {0} /\ Head(events) = events[1]
      BY <2>1, <3>1, EmptySeq
    <3> QED
      BY <3>2 DEF PlanRecords, PlanShape
  <2>3. Plan \cap DOMAIN row = Sets(Head(events))
    BY <1>4, <2>1 DEF Sets, Plan
  <2>4. \A f \in Sets(Head(events)) : row[f] = Head(events)[f]
    <3>1. \A f \in Sets(Head(events)) : columns[f] = Head(events)[f] /\ f \in DOMAIN columns \ {"refs"}
      BY <2>1, <2>2, EventColumns DEF Sets, Plan
    <3> QED
      BY <1>4, <3>1
  <2> QED
    BY <1>1, <1>5, <1>6, <2>1, <2>3, <2>4 DEF WebhookHandles
<1> QED
  BY <1>2, <1>5, <1>6, <1>7, <1>8, <1>9, PlanKept DEF PlanRequest

\* The statements of the handlers.
LEMMA HandlersKeepPlan ==
    ASSUME PlanRecords, NEW r \in Requests,
           \/ CreateMeeting(r) \/ CreateCheckoutSession(r) \/ FlushCustomer(r) \/ StripeFails(r)
           \/ FindUser(r) \/ StripeWebhook(r) \/ \E kind \in DOMAIN owned : CheckLimit(r, kind)
    PROVE  PlanRecords'
<1>1. /\ ReqShape /\ WritesShape /\ PlanRequest(r) /\ UNCHANGED billVars
      /\ req[r].at # "commit" /\ ~Holds(r, "users")
  BY DEF PlanRecords, PlanShape, PlanRequest, PlanWriter, CreateMeeting, CreateCheckoutSession,
         FlushCustomer, StripeFails, FindUser, StripeWebhook, CheckLimit, At
<1>2. ASSUME Fail(r) PROVE PlanRecords'
  BY <1>1, <1>2, FailDrops, PlanDropped
<1>3. ASSUME NEW at, Goto(r, at), UNCHANGED <<table, writes>>,
             req[r].op = "checkout" => at = "flush" /\ req[r].at # "write",
             req[r].op = "webhook" /\ One => at = "write",
             req[r].op = "webhook" => at \in {"write", "commit"}
      PROVE  PlanRecords'
  <2>1. /\ Moves(r, at) /\ Alone(r) /\ OthersKeep(r) /\ ~Holds(r, "users")'
        /\ req'[r].op = req[r].op /\ req'[r].saw = req[r].saw /\ req'[r].at = at
        /\ UNCHANGED <<customers, events>>
    BY <1>1, <1>3, GotoMoves DEF Moves, OthersKeep, WritesShape, Holds, billVars
  <2>2. CheckoutKnows(r)'
    BY <1>1, <1>3, <2>1 DEF PlanRequest, CheckoutKnows, One, Is
  <2>3. WebhookHandles(r)'
    BY <1>1, <1>3, <2>1 DEF PlanRequest, WebhookHandles, One
  <2>4. PlanRequest(r)'
    BY <2>1, <2>2, <2>3 DEF PlanRequest, PlanWriter, Marked
  <2> QED
    BY <1>1, <1>3, <2>1, <2>4, PlanKept
<1>4. CASE CreateMeeting(r)
  <2>1. CASE Fail(r)
    BY <1>2, <2>1
  <2>2. CASE ~Fail(r)
    <3> DEFINE c == MaybeResetCycle(req[r].saw)
               columns == [c EXCEPT !.used = OneMore(@, MeetingLimit)]
    <3>1. Update(r, "users", columns) /\ Goto(r, "commit") /\ UNCHANGED table
          /\ req[r].op = "create_meeting"
      BY <1>4, <2>2 DEF CreateMeeting, At
    <3>2. DOMAIN c = {"used", "cycle"}
      BY DEF MaybeResetCycle
    <3> HIDE DEF c
    <3>3. DOMAIN columns = {"used", "cycle"}
      BY <3>2
    <3> HIDE DEF columns
    <3> QED
      BY <1>1, <3>1, <3>3, PlanFlushed DEF Plan
  <2> QED
    BY <2>1, <2>2
<1>5. CASE CreateCheckoutSession(r)
  BY <1>3, <1>5 DEF CreateCheckoutSession, At
<1>6. CASE FlushCustomer(r)
  <2> DEFINE columns == [customer |-> req[r].saw.customer]
  <2>1. DOMAIN columns = {"customer"} /\ columns.customer = req[r].saw.customer
    OBVIOUS
  <2>2. /\ Update(r, "users", columns) /\ Goto(r, "commit") /\ UNCHANGED table
        /\ req[r].op = "checkout" /\ req[r].at = "flush"
    BY <1>6 DEF FlushCustomer, At
  <2> HIDE DEF columns
  <2>3. One => Is(columns.customer)
    BY <1>1, <2>1, <2>2 DEF PlanRequest, CheckoutKnows
  <2> QED
    BY <1>1, <2>1, <2>2, <2>3, PlanFlushed DEF Plan
<1>7. CASE StripeFails(r)
  BY <1>2, <1>7 DEF StripeFails
<1>8. CASE FindUser(r)
  <2>1. /\ req[r].op = "webhook" /\ events # <<>> /\ req[r].saw = Head(events)
    BY <1>1, <1>8 DEF FindUser, At, PlanRequest, WebhookHandles
  <2>2. One => Account.customer = req[r].saw.customer
    <3>1. PICK S : events \in Seq(S)
      BY DEF PlanRecords, PlanShape
    <3>2. Len(events) \in Nat \ {0} /\ Head(events) = events[1]
      BY <2>1, <3>1, EmptySeq
    <3> QED
      BY <2>1, <3>2 DEF PlanRecords, CustomerKnown, Is
  <2>3. PICK at \in {"write", "commit"} : Goto(r, at) /\ (One => at = "write")
    BY <1>8, <2>2 DEF FindUser
  <2> QED
    BY <1>3, <1>8, <2>1, <2>3 DEF FindUser
<1>9. CASE StripeWebhook(r)
  <2>1. /\ req[r].op = "webhook" /\ events # <<>> /\ req[r].saw = Head(events)
    BY <1>1, <1>9 DEF StripeWebhook, At, PlanRequest, WebhookHandles
  <2>2. PICK S : events \in Seq(S)
    BY DEF PlanRecords, PlanShape
  <2>3. Len(events) \in Nat \ {0} /\ Head(events) = events[1]
    BY <2>1, <2>2, EmptySeq
  <2>4. EventTells(req[r].saw) /\ (One => Is(req[r].saw.customer))
    BY <2>1, <2>3 DEF PlanRecords, PlanShape, CustomerKnown, Is
  <2> DEFINE columns == WebhookColumns(req[r].saw)
  <2>5. /\ "gone" \notin DOMAIN columns
        /\ "customer" \in DOMAIN columns => columns.customer = req[r].saw.customer
    BY <2>4, EventColumns
  <2>6. Update(r, "users", columns) /\ Goto(r, "commit") /\ UNCHANGED table
    BY <1>9 DEF StripeWebhook
  <2>7. columns = WebhookColumns(req[r].saw)
    OBVIOUS
  <2> HIDE DEF columns
  <2> QED
    BY <1>1, <2>1, <2>4, <2>5, <2>6, <2>7, PlanFlushed
<1>10. CASE \E kind \in DOMAIN owned : CheckLimit(r, kind)
  <2>1. PICK kind \in DOMAIN owned : CheckLimit(r, kind)
    BY <1>10
  <2>2. CASE Fail(r)
    BY <1>2, <2>2
  <2>3. CASE ~Fail(r)
    BY <1>3, <2>1, <2>3 DEF CheckLimit, At, PlanRecords, PlanShape
  <2> QED
    BY <2>2, <2>3
<1> QED
  BY <1>4, <1>5, <1>6, <1>7, <1>8, <1>9, <1>10

\* A customer is made: until now there was none, or there are two.
LEMMA CustomersKeepPlan ==
    ASSUME PlanRecords, NEW r \in Requests, EnsureStripeCustomer(r)
    PROVE  PlanRecords'
<1>1. /\ ReqShape /\ WritesShape /\ PlanRequest(r) /\ req[r].op = "checkout" /\ req[r].at = "write"
      /\ customers \in Nat /\ UNCHANGED <<table, writes, stripe, sessions, events, changes, owned>>
      /\ ~Holds(r, "users") /\ ~Holds(r, "users")' /\ "customer" \in DOMAIN req[r].saw
  BY DEF PlanRecords, PlanShape, PlanRequest, PlanWriter, CheckoutKnows, EnsureStripeCustomer,
         At, Holds
<1>2. CASE req[r].saw.customer # None
  <2>1. UNCHANGED customers /\ Moves(r, "session")
    BY <1>1, <1>2, GotoMoves DEF EnsureStripeCustomer
  <2>2. CheckoutKnows(r)' /\ WebhookHandles(r)'
    BY <1>1, <1>2, <2>1 DEF PlanRequest, CheckoutKnows, WebhookHandles, Moves, One, Is
  <2>3. PlanRequest(r)'
    BY <1>1, <2>2 DEF PlanRequest, PlanWriter, Marked
  <2> QED
    BY <1>1, <2>1, <2>3, PlanKept DEF Moves, OthersKeep, WritesShape, billVars
<1>3. CASE req[r].saw.customer = None
  <2>1. /\ customers' = customers + 1 /\ Alone(r)
        /\ req'[r].op = "checkout" /\ req'[r].at = "session"
        /\ "customer" \in DOMAIN req'[r].saw /\ req'[r].saw.customer = customers'
    <3>1. /\ customers' = customers + 1
          /\ req' = [req EXCEPT ![r] = [@ EXCEPT !.at = "session", !.saw.customer = customers']]
      BY <1>3 DEF EnsureStripeCustomer
    <3>2. req'[r] = [req[r] EXCEPT !.at = "session", !.saw.customer = customers']
      BY <1>1, <3>1 DEF ReqShape
    <3>3. /\ DOMAIN req'[r] = {"op", "at", "saw"} /\ req'[r].op = "checkout"
          /\ req'[r].at = "session"
          /\ req'[r].saw = [req[r].saw EXCEPT !.customer = customers']
      BY <1>1, <3>2 DEF ReqShape
    <3>4. Alone(r)
      BY <1>1, <3>1, <3>3 DEF ReqShape, Alone
    <3> QED
      BY <1>1, <3>1, <3>3, <3>4
  <2>2. \A q \in Requests \ {r} : req'[q] = req[q]
    BY <2>1 DEF Alone
  <2>3. One' => One /\ ~\E c : Is(c)
    BY <1>1, <2>1 DEF One, Is
  <2>4. One' => customers' = 1
    BY <1>1, <2>1 DEF One
  <2>5. PlanRequest(r)'
    BY <1>1, <2>1, <2>4 DEF PlanRequest, PlanWriter, Marked, CheckoutKnows, WebhookHandles, Is
  <2>6. ASSUME NEW q \in Requests \ {r} PROVE PlanRequest(q)'
    <3>1. PlanRequest(q) /\ req'[q] = req[q]
      BY <2>2 DEF PlanRecords
    <3>2. PlanWriter(q)'
      BY <1>1, <2>3, <3>1 DEF PlanRequest, PlanWriter, Holds, Deletes
    <3>3. CheckoutKnows(q)'
      BY <1>1, <2>3, <3>1 DEF PlanRequest, CheckoutKnows, Holds
    <3>4. WebhookHandles(q)'
      BY <1>1, <2>3, <3>1 DEF PlanRequest, WebhookHandles, Holds
    <3> QED
      BY <1>1, <3>1, <3>2, <3>3, <3>4 DEF PlanRequest, Marked, Holds
  <2>7. One' => CustomerKnown' /\ \A f \in Plan : Settled(f)'
    BY <1>1, <2>3 DEF PlanRecords, CustomerKnown, Settled, Account
  <2>8. PlanShape'
    <3>1. Webhooks' \subseteq Webhooks
      BY <1>1, <2>1, <2>2 DEF Webhooks
    <3>2. \A q, p \in Webhooks' : q = p
      BY <3>1 DEF PlanRecords, PlanShape
    <3>3. customers' \in Nat
      BY <1>1, <2>1
    <3> QED
      BY <1>1, <2>1, <3>2, <3>3 DEF PlanRecords, PlanShape, Alone, WritesShape, Sole, Holds, Account
  <2> QED
    BY <2>5, <2>6, <2>7, <2>8 DEF PlanRecords
<1> QED
  BY <1>2, <1>3

\* What a commit makes of the account.
LEMMA PlanCommits ==
    ASSUME PlanRecords, NEW r \in Requests, CommitTo(r, Idle)
    PROVE  /\ Stops(r) /\ OthersKeep(r) /\ ~Holds(r, "users")'
           /\ "users" \in DOMAIN table' /\ Plan \cup {"customer"} \subseteq DOMAIN Account'
           /\ \A c \in Plan \cup {"customer"} :
                  Account'[c] = IF Holds(r, "users") /\ c \in DOMAIN writes[r]["users"]
                                THEN writes[r]["users"][c] ELSE Account[c]
           /\ \A q \in Requests \ {r} : req'[q] = req[q] /\ writes'[q] = writes[q]
<1>1. /\ ReqShape /\ WritesShape /\ "users" \in DOMAIN table /\ ~Deletes(r, "users")
      /\ Plan \cup {"customer"} \subseteq DOMAIN Account
  BY DEF PlanRecords, PlanShape, PlanRequest, PlanWriter, Deletes
<1>2. /\ OthersKeep(r) /\ ~Holds(r, "users")'
      /\ "users" \in DOMAIN table' /\ Account' = Seen(r, "users")
  BY <1>1, CommitRows DEF Holds, Account
<1>3. Stops(r)
  BY <1>1, CommitStops
<1>4. CASE Holds(r, "users")
  <2>1. Account' = Over(writes[r]["users"], Account)
    BY <1>1, <1>2, <1>4 DEF Seen, Inserts, Account
  <2>2. Plan \cup {"customer"} \subseteq DOMAIN Over(writes[r]["users"], Account)
    BY <1>1 DEF Over
  <2>3. \A c \in Plan \cup {"customer"} :
            Over(writes[r]["users"], Account)[c] = IF c \in DOMAIN writes[r]["users"]
                                                   THEN writes[r]["users"][c] ELSE Account[c]
    BY <1>1 DEF Over
  <2> QED
    BY <1>2, <1>3, <1>4, <2>1, <2>2, <2>3 DEF Stops, Alone, OthersKeep
<1>5. CASE ~Holds(r, "users")
  BY <1>1, <1>2, <1>3, <1>5 DEF Seen, Inserts, Account, Stops, Alone, OthersKeep
<1> QED
  BY <1>4, <1>5

\* A commit keeps what holds of the requests.
LEMMA RequestsCommitted ==
    ASSUME PlanRecords, NEW r \in Requests, CommitTo(r, Idle),
           UNCHANGED <<stripe, customers, changes>>, DOMAIN owned' = DOMAIN owned,
           events' = events \/ (r \in Webhooks /\ events # <<>> /\ events' = Tail(events))
    PROVE  PlanShape' /\ \A q \in Requests : PlanRequest(q)'
<1>1. /\ Stops(r) /\ OthersKeep(r) /\ ~Holds(r, "users")' /\ "users" \in DOMAIN table'
      /\ Plan \cup {"customer"} \subseteq DOMAIN Account'
      /\ \A q \in Requests \ {r} : req'[q] = req[q] /\ writes'[q] = writes[q]
  BY PlanCommits
<1>2. req'[r].op = "none" /\ Alone(r)
  BY <1>1, IdleFields DEF Stops
<1>3. Webhooks' \subseteq Webhooks \ {r}
  BY <1>1, <1>2 DEF Webhooks
<1>4. (\E S : events' \in Seq(S)) /\ \A i \in 1 .. Len(events') : EventTells(events'[i])
  <2>1. CASE events' = events
    BY <2>1 DEF PlanRecords, PlanShape
  <2>2. CASE events # <<>> /\ events' = Tail(events)
    <3>1. PICK S : events \in Seq(S)
      BY DEF PlanRecords, PlanShape
    <3>2. /\ Tail(events) \in Seq(S) /\ Len(Tail(events)) = Len(events) - 1 /\ Len(events) \in Nat
          /\ \A i \in 1 .. Len(Tail(events)) : Tail(events)[i] = events[i + 1]
      BY <2>2, <3>1, HeadTailProperties, LenProperties
    <3>3. \A i \in 1 .. Len(Tail(events)) : i + 1 \in 1 .. Len(events)
      BY <3>2
    <3> QED
      BY <2>2, <3>2, <3>3 DEF PlanRecords, PlanShape
  <2> QED
    BY <2>1, <2>2
<1>5. PlanShape'
  <2>1. \A q, p \in Webhooks' : q = p
    BY <1>3 DEF PlanRecords, PlanShape
  <2>2. Sole("users")'
    BY <1>1 DEF PlanRecords, PlanShape, Sole, Holds
  <2> QED
    BY <1>1, <1>2, <1>4, <2>1, <2>2 DEF PlanRecords, PlanShape, Alone, OthersKeep
<1>6. PlanRequest(r)'
  BY <1>1, <1>2 DEF PlanRequest, Marked, PlanWriter, CheckoutKnows, WebhookHandles
<1>7. ASSUME NEW q \in Requests \ {r} PROVE PlanRequest(q)'
  <2>1. PlanRequest(q) /\ req'[q] = req[q] /\ writes'[q] = writes[q]
    BY <1>1 DEF PlanRecords
  <2>2. CASE events' = events
    BY <2>1, <2>2 DEF PlanRequest, Marked, PlanWriter, CheckoutKnows, WebhookHandles,
                      Holds, Deletes, One, Is
  <2>3. CASE r \in Webhooks
    <3>1. req[q].op # "webhook"
      BY <2>3 DEF PlanRecords, PlanShape, Webhooks
    <3> QED
      BY <2>1, <3>1 DEF PlanRequest, Marked, PlanWriter, CheckoutKnows, WebhookHandles,
                        Holds, Deletes, One, Is
  <2> QED
    BY <2>2, <2>3
<1> QED
  BY <1>5, <1>6, <1>7

LEMMA CommitsKeepPlan ==
    ASSUME PlanRecords, NEW r \in Requests,
           RequestCommits(r) \/ \E kind \in DOMAIN owned : CreateLimited(r, kind)
    PROVE  PlanRecords'
<1>1. /\ CommitTo(r, Idle) /\ UNCHANGED <<stripe, customers, events, changes>>
      /\ DOMAIN owned' = DOMAIN owned /\ req[r].op # "webhook" /\ PlanRequest(r)
      /\ \/ UNCHANGED sessions
         \/ /\ req[r].op = "checkout" /\ req[r].at = "commit"
            /\ sessions' = sessions \cup {req[r].saw.customer}
  <2>1. CASE RequestCommits(r)
    BY <2>1 DEF RequestCommits, Commit, PlanRecords
  <2>2. CASE \E kind \in DOMAIN owned : CreateLimited(r, kind)
    BY <2>2 DEF CreateLimited, At, PlanRecords, PlanShape
  <2> QED
    BY <2>1, <2>2
<1>2. PlanShape' /\ \A q \in Requests : PlanRequest(q)'
  BY <1>1, RequestsCommitted
<1>3. \A c \in Plan \cup {"customer"} :
          Account'[c] = IF Holds(r, "users") /\ c \in DOMAIN writes[r]["users"]
                        THEN writes[r]["users"][c] ELSE Account[c]
  BY <1>1, PlanCommits
<1>4. \A f \in Plan : Account'[f] = Account[f]
  BY <1>1, <1>3 DEF PlanRequest, PlanWriter
<1>5. One' => One /\ CustomerKnown'
  <2> SUFFICES ASSUME One PROVE CustomerKnown'
    BY <1>1 DEF One
  <2>1. Is(Account.customer) => Is(Account'.customer)
    BY <1>1, <1>3 DEF PlanRequest, PlanWriter
  <2>2. Account'.customer # None => Is(Account'.customer)
    BY <1>1, <1>3 DEF PlanRequest, PlanWriter, PlanRecords, CustomerKnown
  <2>3. sessions' # {} => Is(Account'.customer)
    BY <1>1, <1>3, <2>1 DEF PlanRequest, PlanWriter, CheckoutKnows, PlanRecords, CustomerKnown
  <2>4. \A c \in sessions' : c = 1
    BY <1>1 DEF PlanRequest, CheckoutKnows, Is, PlanRecords, CustomerKnown
  <2> QED
    BY <1>1, <2>1, <2>2, <2>3, <2>4 DEF PlanRecords, CustomerKnown, Is
<1>6. One => \A f \in Plan : Settled(f)'
  BY <1>1, <1>4 DEF PlanRecords, Settled
<1> QED
  BY <1>2, <1>5, <1>6 DEF PlanRecords

LEMMA WebhooksKeepPlan ==
    ASSUME PlanRecords, NEW r \in Requests, WebhookCommits(r)
    PROVE  PlanRecords'
<1>1. /\ CommitTo(r, Idle) /\ UNCHANGED <<stripe, customers, changes, owned, sessions>>
      /\ req[r].op = "webhook" /\ req[r].at = "commit" /\ PlanRequest(r)
      /\ events' = events \/ events' = Tail(events)
  BY DEF WebhookCommits, Commit, At, PlanRecords
<1>2. r \in Webhooks /\ events # <<>>
  BY <1>1 DEF Webhooks, PlanRequest, WebhookHandles
<1>3. PICK S : events \in Seq(S)
  BY DEF PlanRecords, PlanShape
<1>4. /\ Len(events) \in Nat \ {0} /\ Head(events) = events[1]
      /\ Len(Tail(events)) = Len(events) - 1
      /\ \A i \in 1 .. Len(events) - 1 : Tail(events)[i] = events[i + 1]
  BY <1>2, <1>3, EmptySeq, HeadTailProperties
<1>5. PlanShape' /\ \A q \in Requests : PlanRequest(q)'
  BY <1>1, <1>2, RequestsCommitted
<1>6. \A c \in Plan \cup {"customer"} :
          Account'[c] = IF Holds(r, "users") /\ c \in DOMAIN writes[r]["users"]
                        THEN writes[r]["users"][c] ELSE Account[c]
  BY <1>1, PlanCommits
<1>7. One' => One
  BY <1>1 DEF One
<1>8. ASSUME One PROVE CustomerKnown'
  <2>1. Is(Account.customer) => Is(Account'.customer)
    BY <1>1, <1>6, <1>8 DEF PlanRequest, PlanWriter
  <2>2. Account'.customer # None => Is(Account'.customer)
    BY <1>1, <1>6, <1>8 DEF PlanRequest, PlanWriter, PlanRecords, CustomerKnown
  <2>3. \A i \in 1 .. Len(events') : events'[i].customer = 1
    <3>1. CASE events' = events
      BY <1>8, <3>1 DEF PlanRecords, CustomerKnown
    <3>2. CASE events' = Tail(events)
      <4>1. \A i \in 1 .. Len(events) - 1 : i + 1 \in 1 .. Len(events)
        BY <1>4
      <4> QED
        BY <1>4, <1>8, <3>2, <4>1 DEF PlanRecords, CustomerKnown
    <3> QED
      BY <1>1, <3>1, <3>2
  <2>4. Is(Account.customer)
    BY <1>2, <1>8 DEF PlanRecords, CustomerKnown
  <2> QED
    BY <1>1, <1>8, <2>1, <2>2, <2>3, <2>4 DEF PlanRecords, CustomerKnown, Is
<1>9. ASSUME One, NEW f \in Plan PROVE Settled(f)'
  <2>1. Account'[f] = IF f \in Sets(events[1]) THEN events[1][f] ELSE Account[f]
    BY <1>1, <1>4, <1>6, <1>9 DEF PlanRequest, WebhookHandles
  <2>2. Settled(f) /\ stripe'[f] = stripe[f] /\ 1 \in 1 .. Len(events)
    BY <1>1, <1>4, <1>9 DEF PlanRecords
  <2>3. CASE events' = events
    BY <2>1, <2>2, <2>3 DEF Settled
  <2>4. CASE events' = Tail(events)
    <3> DEFINE n == Len(events)
    <3>1. /\ Len(events') = n - 1 /\ n \in Nat \ {0}
          /\ \A j \in 1 .. n - 1 : j + 1 \in 1 .. n /\ events'[j] = events[j + 1]
      BY <1>4, <2>4
    <3> HIDE DEF n
    <3>2. CASE \E i \in 1 .. n :
                 /\ f \in Sets(events[i]) /\ events[i][f] = stripe[f]
                 /\ \A j \in 1 .. n : j > i => f \notin Sets(events[j])
      <4>1. PICK i \in 1 .. n :
                 /\ f \in Sets(events[i]) /\ events[i][f] = stripe[f]
                 /\ \A j \in 1 .. n : j > i => f \notin Sets(events[j])
        BY <3>2
      <4>2. CASE i = 1
        <5>1. \A j \in 1 .. n - 1 : f \notin Sets(events'[j])
          BY <3>1, <4>1, <4>2
        <5>2. Account'[f] = stripe'[f]
          BY <2>1, <2>2, <4>1, <4>2
        <5> QED
          BY <3>1, <5>1, <5>2 DEF Settled, Sets, WebhookColumns, ApplySubscription
      <4>3. CASE i # 1
        <5>1. PICK k \in 1 .. n - 1 : k + 1 = i
          BY <3>1, <4>3
        <5>2. /\ f \in Sets(events'[k]) /\ events'[k][f] = stripe'[f]
              /\ \A j \in 1 .. n - 1 : j > k => f \notin Sets(events'[j])
          <6>1. events'[k] = events[i]
            BY <3>1, <5>1
          <6>2. \A j \in 1 .. n - 1 : j > k => j + 1 \in 1 .. n /\ j + 1 > i /\ events'[j] = events[j + 1]
            BY <3>1, <5>1
          <6> QED
            BY <2>2, <4>1, <6>1, <6>2
        <5> QED
          BY <3>1, <5>2 DEF Settled, Sets, WebhookColumns, ApplySubscription
      <4> QED
        BY <4>2, <4>3
    <3>3. CASE \A i \in 1 .. n : f \notin Sets(events[i])
      <4>1. (\A j \in 1 .. n - 1 : f \notin Sets(events'[j])) /\ Account[f] = stripe[f]
        BY <2>2, <3>1, <3>3 DEF Settled, n
      <4>2. Account'[f] = stripe'[f]
        BY <2>1, <2>2, <3>3, <4>1 DEF n
      <4> QED
        BY <3>1, <4>1, <4>2 DEF Settled, Sets, WebhookColumns, ApplySubscription
    <3> QED
      BY <2>2, <3>2, <3>3 DEF Settled, n
  <2> QED
    BY <1>1, <2>3, <2>4
<1> QED
  BY <1>5, <1>7, <1>8, <1>9 DEF PlanRecords

-----------------------------------------------------------------------------
\* Stripe

\* The events of a change follow those there were.
LEMMA ChangeAppends ==
    ASSUME PlanRecords, NEW s, NEW types, NEW T, types \in Seq(T), Changes(s, types),
           NEW n, n = Len(events), NEW m, m = Len(types)
    PROVE  /\ n \in Nat /\ m \in Nat /\ Len(events') = n + m /\ \E S : events' \in Seq(S)
           /\ \A i \in 1 .. n : events'[i] = events[i]
           /\ \A j \in 1 .. m : events'[n + j] = Event(types[j], s)
           /\ \A i \in 1 .. n + m : i \in 1 .. n \/ \E j \in 1 .. m : i = n + j
           /\ events # <<>> => events' # <<>> /\ Head(events') = Head(events)
<1>1. PICK S : events \in Seq(S)
  BY DEF PlanRecords, PlanShape
<1> DEFINE new == [i \in DOMAIN types |-> Event(types[i], s)]
           U == S \cup {Event(types[i], s) : i \in DOMAIN types}
<1>2. DOMAIN types = 1 .. m /\ m \in Nat /\ n \in Nat
  BY <1>1, LenProperties
<1>3. new \in Seq(U) /\ Len(new) = m /\ \A j \in 1 .. m : new[j] = Event(types[j], s)
  <2>1. new \in [1 .. m -> U]
    BY <1>2
  <2>2. new \in Seq(U) /\ Len(new) = m
    BY <1>2, <2>1
  <2> QED
    BY <1>2, <2>2
<1>4. events \in Seq(U)
  BY <1>1, SeqMonotonic
<1>5. events' = events \o new
  BY DEF Changes
<1> HIDE DEF new, U
<1>6. /\ events' \in Seq(U) /\ Len(events') = n + m
      /\ \A i \in 1 .. n + m : events'[i] = IF i <= n THEN events[i] ELSE new[i - n]
  <2>1. /\ events \o new \in Seq(U)
        /\ Len(events \o new) = Len(events) + Len(new)
        /\ \A i \in 1 .. Len(events) + Len(new) :
               (events \o new)[i] = IF i <= Len(events) THEN events[i] ELSE new[i - Len(events)]
    BY <1>3, <1>4, ConcatProperties
  <2>2. Len(new) = m
    BY <1>3
  <2> QED
    BY <1>5, <2>1, <2>2
<1>7. \A i \in 1 .. n : i \in 1 .. n + m /\ i <= n
  BY <1>2
<1>8. \A j \in 1 .. m : n + j \in 1 .. n + m /\ ~(n + j <= n) /\ (n + j) - n = j
  BY <1>2
<1>9. \A i \in 1 .. n + m : i \in 1 .. n \/ \E j \in 1 .. m : i = n + j
  <2> SUFFICES ASSUME NEW i \in 1 .. n + m, i \notin 1 .. n
               PROVE  \E j \in 1 .. m : i = n + j
    OBVIOUS
  <2>1. i - n \in 1 .. m /\ i = n + (i - n)
    BY <1>2
  <2> QED
    BY <2>1
<1>10. ASSUME events # <<>> PROVE events' # <<>> /\ Head(events') = Head(events)
  <2>1. n \in Nat \ {0}
    BY <1>1, <1>10, EmptySeq
  <2>2. 1 \in 1 .. n /\ events' # <<>>
    BY <1>2, <1>6, <2>1, EmptySeq
  <2>3. events'[1] = events[1]
    BY <1>6, <1>7, <2>2
  <2> QED
    BY <2>2, <2>3
<1>11. \A i \in 1 .. n : events'[i] = events[i]
  BY <1>6, <1>7
<1>12. \A j \in 1 .. m : events'[n + j] = Event(types[j], s)
  BY <1>3, <1>6, <1>8
<1> QED
  BY <1>2, <1>6, <1>9, <1>10, <1>11, <1>12

\* A change of the subscription whose events, taken together, set what it
\* changes, each to what Stripe then has.
LEMMA ChangesKeepPlan ==
    ASSUME PlanRecords, NEW s, NEW types, NEW T, types \in Seq(T), Changes(s, types),
           DOMAIN s = {"sub", "customer", "status", "tier"},
           \A j \in 1 .. Len(types) : EventTells(Event(types[j], s)),
           One => Is(Account.customer) /\ s.customer = 1,
           sessions' \subseteq sessions,
           \A f \in Plan :
              \/ /\ \A j \in 1 .. Len(types) : f \notin Sets(Event(types[j], s))
                 /\ s[f] = stripe[f]
              \/ \E k \in 1 .. Len(types) :
                    /\ f \in Sets(Event(types[k], s))
                    /\ \A j \in 1 .. Len(types) : j > k => f \notin Sets(Event(types[j], s))
    PROVE  PlanRecords'
<1> DEFINE n == Len(events)
           m == Len(types)
<1>1. /\ n \in Nat /\ m \in Nat /\ Len(events') = n + m /\ \E S : events' \in Seq(S)
      /\ \A i \in 1 .. n : events'[i] = events[i]
      /\ \A j \in 1 .. m : events'[n + j] = Event(types[j], s)
      /\ \A i \in 1 .. n + m : i \in 1 .. n \/ \E j \in 1 .. m : i = n + j
      /\ events # <<>> => events' # <<>> /\ Head(events') = Head(events)
  BY ChangeAppends
<1> HIDE DEF n, m
<1>2. /\ UNCHANGED <<table, writes, req, customers, owned>> /\ stripe' = s /\ changes' = changes + 1
  BY DEF Changes, dbVars
<1>3. \A i \in 1 .. Len(events') : EventTells(events'[i])
  <2>1. \A i \in 1 .. n : EventTells(events[i])
    BY DEF PlanRecords, PlanShape, n
  <2>2. \A j \in 1 .. m : EventTells(Event(types[j], s))
    BY DEF m
  <2> SUFFICES ASSUME NEW i \in 1 .. n + m PROVE EventTells(events'[i])
    BY <1>1
  <2>3. CASE i \in 1 .. n
    BY <1>1, <2>1, <2>3
  <2>4. CASE \E j \in 1 .. m : i = n + j
    <3>1. PICK j \in 1 .. m : i = n + j
      BY <2>4
    <3>2. events'[i] = Event(types[j], s)
      BY <1>1, <3>1
    <3> QED
      BY <2>2, <3>2
  <2> QED
    BY <1>1, <2>3, <2>4
<1>4. PlanShape'
  BY <1>1, <1>2, <1>3 DEF PlanRecords, PlanShape, Account, ReqShape, WritesShape, Sole, Holds, Webhooks
<1>5. \A q \in Requests : PlanRequest(q)'
  <2> SUFFICES ASSUME NEW q \in Requests PROVE PlanRequest(q)'
    OBVIOUS
  <2>1. PlanRequest(q)
    BY DEF PlanRecords
  <2>2. Marked(q, "users")' /\ PlanWriter(q)' /\ CheckoutKnows(q)'
    BY <1>2, <2>1 DEF PlanRequest, Marked, PlanWriter, CheckoutKnows, Holds, Deletes, One, Is
  <2>3. WebhookHandles(q)'
    <3> SUFFICES ASSUME req[q].op = "webhook" PROVE WebhookHandles(q)'
      BY <1>2 DEF WebhookHandles
    <3>1. Head(events') = Head(events) /\ events' # <<>>
      BY <1>1, <2>1 DEF PlanRequest, WebhookHandles
    <3>2. Sets(Head(events))' = Sets(Head(events))
      BY <3>1 DEF Sets, WebhookColumns, ApplySubscription
    <3> QED
      BY <1>2, <2>1, <3>1, <3>2 DEF PlanRequest, WebhookHandles, Holds, One
  <2> QED
    BY <2>2, <2>3 DEF PlanRequest
<1>6. One' => One /\ CustomerKnown'
  <2> SUFFICES ASSUME One PROVE CustomerKnown'
    BY <1>2 DEF One
  <2>1. Is(Account.customer) /\ s.customer = 1
    OBVIOUS
  <2>2. \A i \in 1 .. Len(events') : events'[i].customer = 1
    <3>1. \A i \in 1 .. n : events[i].customer = 1
      BY DEF PlanRecords, CustomerKnown, n
    <3>2. \A j \in 1 .. m : Event(types[j], s).customer = 1
      BY <2>1 DEF Event
    <3> QED
      BY <1>1, <3>1, <3>2
  <2> QED
    BY <1>2, <2>1, <2>2 DEF PlanRecords, CustomerKnown, Is, Account
<1>7. ASSUME One, NEW f \in Plan PROVE Settled(f)'
  <2>1. Settled(f) /\ Account' = Account
    BY <1>2, <1>7 DEF PlanRecords, Account
  <2> SUFFICES \/ \E i \in 1 .. n + m :
                     /\ f \in Sets(events'[i]) /\ events'[i][f] = s[f]
                     /\ \A j \in 1 .. n + m : j > i => f \notin Sets(events'[j])
               \/ /\ \A i \in 1 .. n + m : f \notin Sets(events'[i])
                  /\ Account[f] = s[f]
    BY <1>1, <1>2, <2>1 DEF Settled, Sets, WebhookColumns, ApplySubscription
  <2>2. ASSUME NEW k \in 1 .. m, f \in Sets(Event(types[k], s)),
               \A j \in 1 .. m : j > k => f \notin Sets(Event(types[j], s))
        PROVE  \E i \in 1 .. n + m :
                     /\ f \in Sets(events'[i]) /\ events'[i][f] = s[f]
                     /\ \A j \in 1 .. n + m : j > i => f \notin Sets(events'[j])
    <3>1. events'[n + k] = Event(types[k], s) /\ n + k \in 1 .. n + m
      BY <1>1, <2>2
    <3>2. Event(types[k], s)[f] = s[f]
      BY <1>7 DEF Event, Plan
    <3>3. ASSUME NEW j \in 1 .. n + m, j > n + k PROVE f \notin Sets(events'[j])
      <4>1. j \notin 1 .. n
        BY <1>1, <2>2, <3>3
      <4>2. PICK i \in 1 .. m : j = n + i
        BY <1>1, <4>1
      <4>3. i > k /\ events'[j] = Event(types[i], s)
        BY <1>1, <2>2, <3>3, <4>2
      <4> QED
        BY <2>2, <4>3
    <3> QED
      BY <2>2, <3>1, <3>2, <3>3
  <2>3. CASE (\A j \in 1 .. m : f \notin Sets(Event(types[j], s))) /\ s[f] = stripe[f]
    <3>1. ASSUME NEW i \in 1 .. n + m, i \notin 1 .. n PROVE f \notin Sets(events'[i])
      BY <1>1, <2>3, <3>1
    <3>2. CASE \A i \in 1 .. n : f \notin Sets(events[i])
      <4>1. Account[f] = s[f]
        BY <2>1, <2>3, <3>2 DEF Settled, n
      <4>2. \A i \in 1 .. n + m : f \notin Sets(events'[i])
        BY <1>1, <3>1, <3>2
      <4> QED
        BY <4>1, <4>2
    <3>3. CASE \E i \in 1 .. n :
                  /\ f \in Sets(events[i]) /\ events[i][f] = stripe[f]
                  /\ \A j \in 1 .. n : j > i => f \notin Sets(events[j])
      <4>1. PICK i \in 1 .. n :
                  /\ f \in Sets(events[i]) /\ events[i][f] = stripe[f]
                  /\ \A j \in 1 .. n : j > i => f \notin Sets(events[j])
        BY <3>3
      <4>2. i \in 1 .. n + m /\ events'[i] = events[i]
        BY <1>1
      <4>3. ASSUME NEW j \in 1 .. n + m, j > i PROVE f \notin Sets(events'[j])
        <5>1. CASE j \in 1 .. n
          BY <1>1, <4>1, <4>3, <5>1
        <5> QED
          BY <3>1, <5>1
      <4> QED
        BY <2>3, <4>1, <4>2, <4>3
    <3> QED
      BY <2>1, <3>2, <3>3 DEF Settled, n
  <2> QED
    BY <2>2, <2>3 DEF m
<1> QED
  BY <1>4, <1>5, <1>6, <1>7 DEF PlanRecords
\* An event of a change tells what the subscription then is.
LEMMA EventOfChange ==
    ASSUME NEW s, NEW type \in EventTypes,
           type = "deleted" => s.status = "canceled" /\ s.sub = None,
           type = "payment_failed" => s.status = "past_due"
    PROVE  /\ EventTells(Event(type, s))
           /\ type = "completed" => Sets(Event(type, s)) = {"sub"}
           /\ type \in {"created", "updated"} => Sets(Event(type, s)) = Plan
           /\ type = "deleted" => Sets(Event(type, s)) = {"sub", "status"}
           /\ type = "payment_failed" => Sets(Event(type, s)) = {"status"}
           /\ type = "paid" => Sets(Event(type, s)) = {}
<1>1. /\ Event(type, s).type = type /\ Event(type, s).sub = s.sub
      /\ Event(type, s).status = s.status
  BY DEF Event
<1>2. EventTells(Event(type, s))
  BY <1>1 DEF EventTells
<1> QED
  BY <1>1, <1>2, EventColumns

\* A change that one event tells, and a change that takes two.
LEMMA OneEventKeepsPlan ==
    ASSUME PlanRecords, NEW s, NEW type \in {"updated", "deleted"}, Changes(s, <<type>>),
           DOMAIN s = {"sub", "customer", "status", "tier"},
           One => Is(Account.customer) /\ s.customer = 1,
           UNCHANGED sessions,
           type = "deleted" => s.status = "canceled" /\ s.sub = None /\ s.tier = stripe.tier
    PROVE  PlanRecords'
<1> DEFINE types == <<type>>
<1>1. types \in Seq(EventTypes) /\ Len(types) = 1 /\ types[1] = type
  BY DEF EventTypes
<1> HIDE DEF types
<1>2. /\ EventTells(Event(type, s))
      /\ type = "updated" => Sets(Event(type, s)) = Plan
      /\ type = "deleted" => Sets(Event(type, s)) = {"sub", "status"}
  BY EventOfChange DEF EventTypes
<1>3. \A j \in 1 .. Len(types) : j = 1 /\ EventTells(Event(types[j], s))
  BY <1>1, <1>2
<1>4. ASSUME NEW f \in Plan
      PROVE  \/ /\ \A j \in 1 .. Len(types) : f \notin Sets(Event(types[j], s))
                /\ s[f] = stripe[f]
             \/ \E k \in 1 .. Len(types) :
                   /\ f \in Sets(Event(types[k], s))
                   /\ \A j \in 1 .. Len(types) : j > k => f \notin Sets(Event(types[j], s))
  <2>1. CASE f \in Sets(Event(type, s))
    <3>1. 1 \in 1 .. Len(types) /\ \A j \in 1 .. Len(types) : ~(j > 1)
      BY <1>1
    <3> QED
      BY <1>1, <2>1, <3>1
  <2>2. CASE f \notin Sets(Event(type, s))
    <3>1. type = "deleted" /\ f = "tier"
      BY <1>2, <2>2 DEF Plan
    <3> QED
      BY <1>1, <1>3, <2>2, <3>1
  <2> QED
    BY <2>1, <2>2
<1>5. Changes(s, types)
  BY DEF types
<1> QED
  BY <1>1, <1>3, <1>4, <1>5, ChangesKeepPlan

LEMMA TwoEventsKeepPlan ==
    ASSUME PlanRecords, NEW s, NEW one \in EventTypes, NEW two \in EventTypes,
           Changes(s, <<one, two>>),
           DOMAIN s = {"sub", "customer", "status", "tier"},
           One => Is(Account.customer) /\ s.customer = 1,
           sessions' \subseteq sessions,
           one \in {"created", "updated"} \/ two \in {"created", "updated"},
           "deleted" \notin {one, two},
           "payment_failed" \in {one, two} => s.status = "past_due"
    PROVE  PlanRecords'
<1> DEFINE types == <<one, two>>
<1>1. types \in Seq(EventTypes) /\ Len(types) = 2 /\ types[1] = one /\ types[2] = two
  OBVIOUS
<1> HIDE DEF types
<1>2. EventTells(Event(one, s)) /\ EventTells(Event(two, s))
  BY EventOfChange
<1>3. Sets(Event(one, s)) = Plan \/ Sets(Event(two, s)) = Plan
  BY EventOfChange
<1>4. \A j \in 1 .. Len(types) : (j = 1 \/ j = 2) /\ EventTells(Event(types[j], s))
  BY <1>1, <1>2
<1>5. ASSUME NEW f \in Plan
      PROVE  \E k \in 1 .. Len(types) :
                   /\ f \in Sets(Event(types[k], s))
                   /\ \A j \in 1 .. Len(types) : j > k => f \notin Sets(Event(types[j], s))
  <2>1. /\ 1 \in 1 .. Len(types) /\ 2 \in 1 .. Len(types)
        /\ \A j \in 1 .. Len(types) : ~(j > 2) /\ (j > 1 => j = 2)
    BY <1>1
  <2>2. CASE f \in Sets(Event(two, s))
    BY <1>1, <2>1, <2>2
  <2>3. CASE f \notin Sets(Event(two, s))
    <3>1. f \in Sets(Event(types[1], s))
      BY <1>1, <1>3, <2>3
    <3>2. \A j \in 1 .. Len(types) : j > 1 => f \notin Sets(Event(types[j], s))
      BY <1>1, <2>1, <2>3
    <3> QED
      BY <2>1, <3>1, <3>2
  <2> QED
    BY <2>2, <2>3
<1>6. Changes(s, types)
  BY DEF types
<1> QED
  BY <1>1, <1>4, <1>5, <1>6, ChangesKeepPlan

LEMMA StripeKeepsPlan ==
    ASSUME PlanRecords, StripeStep
    PROVE  PlanRecords'
<1>1. DOMAIN stripe = {"sub", "customer", "status", "tier"}
  BY DEF PlanRecords, PlanShape
<1>2. CASE CheckoutCompletes
  <2>1. PICK c \in sessions, status \in {"trialing", "active"},
             types \in {<<"created", "completed">>, <<"completed", "created">>} :
           /\ Changes([sub |-> changes', customer |-> c, status |-> status, tier |-> "pro"], types)
           /\ sessions' = sessions \ {c}
    BY <1>2 DEF CheckoutCompletes
  <2> DEFINE s == [sub |-> changes', customer |-> c, status |-> status, tier |-> "pro"]
  <2>2. DOMAIN s = {"sub", "customer", "status", "tier"} /\ s.customer = c
    OBVIOUS
  <2>3. Changes(s, types)
    BY <2>1
  <2> HIDE DEF s
  <2>4. One => Is(Account.customer) /\ s.customer = 1
    BY <2>2 DEF PlanRecords, CustomerKnown
  <2>5. PICK one \in EventTypes, two \in EventTypes :
            /\ types = <<one, two>>
            /\ one = "created" \/ two = "created"
            /\ {one, two} = {"created", "completed"}
    BY DEF EventTypes
  <2>6. Changes(s, <<one, two>>)
    BY <2>3, <2>5
  <2>7. sessions' \subseteq sessions
    BY <2>1
  <2> QED
    BY <2>2, <2>4, <2>5, <2>6, <2>7, TwoEventsKeepPlan
<1>3. ASSUME stripe.sub # None PROVE One => Is(Account.customer) /\ stripe.customer = 1
  BY <1>3 DEF PlanRecords, CustomerKnown
<1>4. CASE PaymentFails
  <2> DEFINE s == [stripe EXCEPT !.status = "past_due"]
  <2>1. DOMAIN s = DOMAIN stripe /\ s.customer = stripe.customer /\ s.status = "past_due"
    BY <1>1
  <2>2. stripe.sub # None /\ Changes(s, <<"updated", "payment_failed">>) /\ UNCHANGED sessions
    BY <1>4 DEF PaymentFails
  <2> HIDE DEF s
  <2> QED
    BY <1>1, <1>3, <2>1, <2>2, TwoEventsKeepPlan DEF EventTypes
<1>5. CASE InvoiceIsPaid
  <2> DEFINE s == [stripe EXCEPT !.status = "active"]
  <2>1. DOMAIN s = DOMAIN stripe /\ s.customer = stripe.customer
    BY <1>1
  <2>2. stripe.sub # None /\ Changes(s, <<"updated", "paid">>) /\ UNCHANGED sessions
    BY <1>5 DEF InvoiceIsPaid
  <2> HIDE DEF s
  <2> QED
    BY <1>1, <1>3, <2>1, <2>2, TwoEventsKeepPlan DEF EventTypes
<1>6. CASE PlanChanges
  <2>1. PICK tier \in Tiers : Changes([stripe EXCEPT !.tier = tier], <<"updated">>)
    BY <1>6 DEF PlanChanges
  <2> DEFINE s == [stripe EXCEPT !.tier = tier]
  <2>2. DOMAIN s = DOMAIN stripe /\ s.customer = stripe.customer
    BY <1>1
  <2>3. stripe.sub # None /\ Changes(s, <<"updated">>) /\ UNCHANGED sessions
    BY <1>6, <2>1 DEF PlanChanges
  <2> HIDE DEF s
  <2> QED
    BY <1>1, <1>3, <2>2, <2>3, OneEventKeepsPlan
<1>7. CASE SubscriptionIsDeleted
  <2> DEFINE s == [stripe EXCEPT !.sub = None, !.status = "canceled"]
  <2>1. /\ DOMAIN s = DOMAIN stripe /\ s.customer = stripe.customer /\ s.tier = stripe.tier
        /\ s.sub = None /\ s.status = "canceled"
    BY <1>1
  <2>2. stripe.sub # None /\ Changes(s, <<"deleted">>) /\ UNCHANGED sessions
    BY <1>7 DEF SubscriptionIsDeleted
  <2> HIDE DEF s
  <2> QED
    BY <1>1, <1>3, <2>1, <2>2, OneEventKeepsPlan
<1> QED
  BY <1>2, <1>4, <1>5, <1>6, <1>7 DEF StripeStep

-----------------------------------------------------------------------------
\* The other steps

\* The cycle ends: the plan and the customer are as they were.
LEMMA CycleKeepsPlan ==
    ASSUME PlanRecords, CycleEnds
    PROVE  PlanRecords'
<1>1. /\ UNCHANGED <<writes, req, stripe, customers, sessions, events, changes, owned>>
      /\ "users" \in DOMAIN table /\ Plan \cup {"customer"} \subseteq DOMAIN Account
      /\ table' = [table EXCEPT !["users"].cycle = "over"]
  BY DEF PlanRecords, PlanShape, CycleEnds, billVars
<1>2. "users" \in DOMAIN table' /\ Account' = [Account EXCEPT !.cycle = "over"]
  BY <1>1 DEF Account
<1>3. /\ Plan \cup {"customer"} \subseteq DOMAIN Account'
      /\ \A f \in Plan \cup {"customer"} : Account'[f] = Account[f]
  <2>1. "cycle" \notin Plan \cup {"customer"}
    BY DEF Plan
  <2> QED
    BY <1>1, <1>2, <2>1
<1>4. PlanShape'
  BY <1>1, <1>2, <1>3 DEF PlanRecords, PlanShape, ReqShape, WritesShape, Sole, Holds, Webhooks
<1>5. \A q \in Requests : PlanRequest(q)'
  BY <1>1 DEF PlanRecords, PlanRequest, Marked, PlanWriter, CheckoutKnows, WebhookHandles,
              Holds, Deletes, One, Is
<1>6. Account'.customer = Account.customer /\ \A f \in Plan : Account'[f] = Account[f]
  BY <1>3
<1>7. One' => One /\ CustomerKnown'
  BY <1>1, <1>6 DEF PlanRecords, One, CustomerKnown, Is
<1>8. One => \A f \in Plan : Settled(f)'
  BY <1>1, <1>6 DEF PlanRecords, Settled
<1> QED
  BY <1>4, <1>5, <1>7, <1>8 DEF PlanRecords

\* The process dies: events not answered come again.
LEMMA DeathKeepsPlan ==
    ASSUME PlanRecords, SubscriptionsCrash
    PROVE  PlanRecords'
<1>1. /\ ReqShape' /\ WritesShape' /\ UNCHANGED table
      /\ UNCHANGED <<stripe, customers, sessions, events, changes, owned>>
      /\ \A q \in Requests : req'[q] = Idle /\ DOMAIN writes'[q] = {}
  BY DeathStopsAll DEF SubscriptionsCrash, ServerDies, WritesShape, NoWrites, billVars
<1>2. \A q \in Requests : req'[q].op = "none" /\ ~Holds(q, "users")'
  BY <1>1, IdleFields DEF Holds
<1>3. \A q \in Requests : PlanRequest(q)'
  BY <1>2 DEF PlanRequest, Marked, PlanWriter, CheckoutKnows, WebhookHandles, Holds
<1>4. PlanShape'
  <2>1. Webhooks' = {}
    BY <1>2 DEF Webhooks
  <2> QED
    BY <1>1, <1>2, <2>1 DEF PlanRecords, PlanShape, Sole, Account
<1>5. One' => One /\ CustomerKnown' /\ \A f \in Plan : Settled(f)'
  BY <1>1 DEF PlanRecords, One, CustomerKnown, Settled, Is, Account
<1> QED
  BY <1>3, <1>4, <1>5 DEF PlanRecords

LEMMA ArrivalsKeepPlan ==
    ASSUME PlanRecords, NEW r \in Requests, Deliver(r) \/ \E op \in mix : Subscribe(r, op)
    PROVE  PlanRecords'
<1>1. ReqShape /\ WritesShape /\ UNCHANGED <<table, writes, billVars>>
      /\ UNCHANGED <<stripe, customers, sessions, events, changes, owned>>
  BY DEF PlanRecords, PlanShape, Deliver, Subscribe, billVars
<1>2. ASSUME NEW op, NEW at, NEW saw, Starts(r, op, at, saw), at # "commit",
             op = "webhook" => Webhooks = {} /\ events # <<>> /\ saw = Head(events)
                               /\ at \in {"read", "write"},
             op = "checkout" => at = "write" /\ saw = [customer |-> Account.customer]
      PROVE  PlanRecords'
  <2>1. /\ Alone(r) /\ req[r] = Idle /\ req'[r].op = op /\ req'[r].at = at /\ req'[r].saw = saw
    BY <1>2 DEF Starts
  <2>2. ~Holds(r, "users") /\ ~Holds(r, "users")' /\ OthersKeep(r)
    BY <1>1, <2>1, IdleFields DEF PlanRecords, PlanRequest, PlanWriter, Holds, OthersKeep, WritesShape
  <2>3. op = "checkout" => "customer" \in DOMAIN saw /\ saw.customer = Account.customer
    BY <1>2
  <2>4. One /\ Account.customer # None => Is(Account.customer)
    BY DEF PlanRecords, CustomerKnown
  <2>5. CheckoutKnows(r)'
    BY <1>1, <1>2, <2>1, <2>3, <2>4 DEF CheckoutKnows, One, Is
  <2>6. PlanRequest(r)'
    BY <1>1, <1>2, <2>1, <2>2, <2>5 DEF PlanRequest, Marked, PlanWriter, WebhookHandles
  <2>7. req'[r].op = "webhook" => Webhooks = {}
    BY <1>2, <2>1
  <2> QED
    BY <1>1, <2>1, <2>2, <2>6, <2>7, PlanKept
<1>3. CASE Deliver(r)
  <2>1. Starts(r, "webhook", "read", Head(events)) /\ events # <<>> /\ Webhooks = {}
    BY <1>1, <1>3, BeginStarts DEF Deliver
  <2> QED
    BY <1>2, <2>1
<1>4. CASE \E op \in mix : Subscribe(r, op)
  <2>1. PICK op \in mix : Subscribe(r, op)
    BY <1>4
  <2>2. op # "webhook"
    BY <2>1 DEF Subscribe, SubscriptionOps
  <2>3. \E saw : Starts(r, op, "write", saw)
                 /\ (op = "checkout" => saw = [customer |-> Account.customer])
    BY <1>1, <2>1, BeginStarts DEF Subscribe
  <2> QED
    BY <1>2, <2>2, <2>3
<1> QED
  BY <1>3, <1>4

\* When every event has been handled, the account has the plan and the status
\* Stripe has, for any number of changes and of requests at the same row: each
\* flush sends only what it changed, and the events come in order
\* (_apply_subscription, stripe_webhook).
THEOREM PlanFollowsStripe == Spec => []PlanMirrorsStripe
<1> DEFINE PlanInv == Part = "subscriptions" => PlanRecords
<1>1. Init => PlanInv
  <2> SUFFICES ASSUME Init, Part = "subscriptions" PROVE PlanRecords
    OBVIOUS
  <2> DEFINE rows == [x \in {"users"} |-> NewAccount(InitialCustomer)]
  <2>1. TransactionsInit(rows) /\ SubscriptionsInit(InitialCustomer)
    BY InitialParts
  <2>2. "users" \in DOMAIN rows /\ rows["users"] = NewAccount(InitialCustomer)
    OBVIOUS
  <2> HIDE DEF rows
  <2>3. /\ ReqShape /\ WritesShape /\ table = rows
        /\ \A q \in Requests : req[q] = Idle /\ DOMAIN writes[q] = {}
    BY <2>1 DEF TransactionsInit, ReqShape, WritesShape, NoWrites, Idle
  <2>4. \A q \in Requests : req[q].op = "none" /\ ~Holds(q, "users")
    BY <2>3, IdleFields DEF Holds
  <2>5. \A q \in Requests : PlanRequest(q)
    BY <2>4 DEF PlanRequest, Marked, PlanWriter, CheckoutKnows, WebhookHandles
  <2>6. /\ Plan \cup {"customer"} \subseteq DOMAIN NewAccount(InitialCustomer)
        /\ NewAccount(InitialCustomer).customer = InitialCustomer
        /\ NewAccount(InitialCustomer).sub = None
        /\ NewAccount(InitialCustomer).status = "trialing"
        /\ NewAccount(InitialCustomer).tier = "basic"
    BY DEF NewAccount, Row, Over, Plan
  <2>7. /\ stripe = [sub |-> None, customer |-> None, status |-> "trialing", tier |-> "basic"]
        /\ customers = (IF InitialCustomer = None THEN 0 ELSE 1)
        /\ sessions = {InitialCustomer} \ {None} /\ events = <<>> /\ changes = 0
        /\ DOMAIN owned = {"agents", "feeds"}
    BY <2>1 DEF SubscriptionsInit
  <2>8. InitialCustomer = None \/ InitialCustomer = 1
    BY DEF InitialCustomer
  <2>9. events \in Seq({}) /\ Len(events) = 0 /\ 1 .. Len(events) = {}
    BY <2>7
  <2>10. PlanShape
    <3>1. Webhooks = {}
      BY <2>4 DEF Webhooks
    <3> QED
      BY <2>2, <2>3, <2>4, <2>6, <2>7, <2>9, <3>1 DEF PlanShape, Sole, Account
  <2>11. CustomerKnown
    BY <2>2, <2>3, <2>6, <2>7, <2>8, <2>9 DEF CustomerKnown, Is, Account
  <2>12. \A f \in Plan : Settled(f)
    BY <2>2, <2>3, <2>6, <2>7, <2>9 DEF Settled, Account, Plan
  <2> QED
    BY <2>5, <2>10, <2>11, <2>12 DEF PlanRecords
<1>2. PlanInv /\ [Next]_vars => PlanInv'
  <2> SUFFICES ASSUME PlanRecords, [Next]_vars, Part = "subscriptions" PROVE PlanRecords'
    BY Parting
  <2>1. CASE UNCHANGED vars
    BY <2>1
       DEF vars, dbVars, billVars, PlanRecords, PlanShape, ReqShape, WritesShape, Sole, Webhooks,
           PlanRequest, Marked, PlanWriter, CheckoutKnows, WebhookHandles, Holds, Deletes,
           One, Is, CustomerKnown, Settled, Account
  <2>2. ASSUME NEW r \in Requests, SubscriptionStep(r) PROVE PlanRecords'
    BY <2>2, HandlersKeepPlan, CustomersKeepPlan, CommitsKeepPlan, WebhooksKeepPlan
       DEF SubscriptionStep
  <2> QED
    BY <2>1, <2>2, StripeKeepsPlan, CycleKeepsPlan, DeathKeepsPlan, ArrivalsKeepPlan, Parting
       DEF BillingNext
<1>3. PlanInv => PlanMirrorsStripe
  <2> SUFFICES ASSUME PlanRecords, events = <<>>, One
               PROVE  /\ Account.sub = stripe.sub
                      /\ Account.status = stripe.status
                      /\ Account.tier = stripe.tier
    BY DEF PlanMirrorsStripe, MirrorsStripe, One
  <2>1. 1 .. Len(events) = {}
    OBVIOUS
  <2>2. \A f \in Plan : Account[f] = stripe[f]
    BY <2>1 DEF PlanRecords, Settled
  <2> QED
    BY <2>2 DEF Plan
<1> QED
  BY <1>1, <1>2, <1>3, PTL DEF Spec

-----------------------------------------------------------------------------
\* Meetings that are deleted

\* The tables whose rows keep a meeting from being deleted, with those that
\* decide what becomes of them.
Refs == Restricting("meetings")
Tracked == Refs \cup {"meetings", "feeds"}
Refers(row, x) == "refs" \in DOMAIN row /\ x \in row.refs

\* A row that refers to the meeting is written by one request; what is not
\* deleted has its meeting, and a run its feed.
ChildRow(q, c) ==
    Holds(q, c) /\ ~Deletes(q, c) =>
        /\ Refers(writes[q][c], "meetings") /\ "meetings" \in DOMAIN table
        /\ req[q].op # "delete"
        /\ c = "feed_runs" => req[q].op = "trigger" /\ "feeds" \in DOMAIN table
\* Only two handlers delete such rows, and one of them with their feed.
DeletedBy(q, c) ==
    Deletes(q, c) => \/ req[q].op = "delete"
                     \/ c = "feed_runs" /\ req[q].op = "delete_feed" /\ Deletes(q, "feeds")
\* Who deletes the row they refer to has deleted them and is alone with them.
Clears(q, S) ==
    \A c \in S : /\ c \in DOMAIN table => Deletes(q, c)
                 /\ \A o \in Requests \ {q} : ~Holds(o, c)
MeetingDeleter(q) ==
    Deletes(q, "meetings") => req[q].op = "delete" /\ req[q].at = "commit" /\ Clears(q, Refs)
FeedWriter(q) ==
    /\ Deletes(q, "feeds") => req[q].op = "delete_feed" /\ Clears(q, {"feed_runs"})
    /\ Holds(q, "feeds") /\ ~Deletes(q, "feeds") =>
           "feeds" \in DOMAIN table \/ req[q].op = "create_feed"

\* What a deletion saw and is gone does not come back: its meeting is gone,
\* or its feed, which no request of the mix creates again.
Lost(c) ==
    \/ "meetings" \notin DOMAIN table
    \/ c = "feed_runs" /\ "feeds" \notin DOMAIN table /\ "delete_feed" \in mix
Swept(at) == {Sweeps[j] : j \in {k \in 1 .. 11 : \E i \in 1 .. 11 : k < i /\ Sweeps[i] = at}}
Sweeping(q) ==
    req[q].op = "delete" =>
        /\ req[q].at = "commit" => Deletes(q, "meetings")
        /\ \A c \in Refs \cap req[q].saw : c \in DOMAIN table \/ Lost(c)
        /\ \A c \in Refs \cap req[q].saw \cap Swept(req[q].at) :
               Deletes(q, c) \/ c \notin DOMAIN table

SweepRequest(q) ==
    /\ req[q].op \in mix \cup {"none"}
    /\ req[q].op = "none" => DOMAIN writes[q] = {}
    /\ \A x \in Tracked : Marked(q, x)
    /\ \A c \in Refs : ChildRow(q, c) /\ DeletedBy(q, c)
    /\ MeetingDeleter(q) /\ FeedWriter(q) /\ Sweeping(q)
RefsAreKept ==
    \A c \in Refs \cap DOMAIN table :
        /\ Refers(table[c], "meetings") /\ "meetings" \in DOMAIN table
        /\ c = "feed_runs" => "feeds" \in DOMAIN table
SweepRecords ==
    /\ ReqShape /\ WritesShape
    /\ \A x \in Tracked : Sole(x)
    /\ \A q \in Requests : SweepRequest(q)
    /\ RefsAreKept

\* A mix in which meetings and feeds are deleted creates no feeds.
FeedsStayGone == \A m \in Mixes : {"delete", "delete_feed"} \subseteq m => "create_feed" \notin m

LEMMA RefsAre ==
    /\ Refs \subseteq {"tasks", "decisions", "transcript_segments", "agent_sessions",
                       "hosted_agent_sessions", "feed_runs", "meeting_summaries", "rooms",
                       "meeting_invites"}
    /\ {"tasks", "hosted_agent_sessions", "feed_runs", "meeting_summaries", "rooms",
        "meeting_invites"} \subseteq Refs
    /\ \A c \in Refs : "meetings" \in Parents(c)
    /\ "feed_runs" \in Restricting("feeds") /\ "feeds" \in Parents("feed_runs")
<1>1. /\ Ref("meetings") # Ref("users") /\ Ref("meetings") # Ref("agent_configs")
      /\ Ref("meetings") # Ref("agent_api_keys") /\ Ref("meetings") # Ref("agent_templates")
      /\ Ref("meetings") # Ref("integrations") /\ Ref("meetings") # Ref("feeds")
      /\ Ref("meetings") # Ref("participants")
      /\ \A t : Ref("meetings") # Cascade(t) /\ Ref("meetings") # SetNull(t)
  BY DEF Ref, Cascade, SetNull
<1>2. DOMAIN Keys =
        {"users", "agent_templates", "organization_sops", "meetings", "meeting_invites",
         "participants", "tasks", "decisions", "transcript_segments", "agent_configs",
         "agent_api_keys", "api_key_audit_log", "rooms", "agent_sessions",
         "hosted_agent_sessions", "meeting_selected_templates", "integrations", "feeds",
         "feed_runs", "meeting_summaries", "feed_secrets", "usage_records"}
  BY DEF Keys
<1>3. /\ Keys["users"] = {} /\ Keys["agent_templates"] = {} /\ Keys["organization_sops"] = {}
      /\ Keys["meetings"] = {Ref("users")} /\ Keys["participants"] = {Ref("agent_configs")}
      /\ Keys["agent_configs"] = {Ref("users")}
      /\ Keys["agent_api_keys"] = {Ref("agent_configs"), Ref("users")}
      /\ Keys["api_key_audit_log"] = {Ref("agent_api_keys")}
      /\ Keys["meeting_selected_templates"] =
            {Cascade("meetings"), Cascade("agent_templates"), SetNull("organization_sops")}
      /\ Keys["integrations"] = {Ref("users")} /\ Keys["feeds"] = {Ref("users"), Ref("integrations")}
      /\ Keys["feed_secrets"] = {Ref("feeds")} /\ Keys["usage_records"] = {Ref("users")}
  BY DEF Keys, UserORM, AgentTemplateORM, OrganizationSOPORM, MeetingORM, ParticipantORM,
         AgentConfigORM, AgentApiKeyORM, ApiKeyAuditLogORM, MeetingSelectedTemplateORM,
         IntegrationORM, FeedORM, FeedSecretORM, UsageRecordORM
<1>4. /\ Ref("meetings") \in Keys["tasks"] /\ Ref("meetings") \in Keys["hosted_agent_sessions"]
      /\ Ref("meetings") \in Keys["feed_runs"] /\ Ref("meetings") \in Keys["meeting_summaries"]
      /\ Ref("meetings") \in Keys["rooms"] /\ Ref("meetings") \in Keys["meeting_invites"]
      /\ Ref("feeds") \in Keys["feed_runs"]
  BY DEF Keys, TaskORM, HostedAgentSessionORM, FeedRunORM, MeetingSummaryORM, RoomORM,
         MeetingInviteORM
<1>5. ASSUME NEW c \in Refs
      PROVE  c \in {"tasks", "decisions", "transcript_segments", "agent_sessions",
                    "hosted_agent_sessions", "feed_runs", "meeting_summaries", "rooms",
                    "meeting_invites"}
  <2>1. c \in DOMAIN Keys /\ Ref("meetings") \in Keys[c]
    BY DEF Refs, Restricting, Tables
  <2> QED
    BY <1>1, <1>2, <1>3, <2>1
<1>6. \A c : Ref("meetings") \in Keys[c] => "meetings" \in Parents(c)
  BY DEF Parents, Ref
<1>7. "feeds" \in Parents("feed_runs")
  BY <1>4 DEF Parents, Ref
<1> QED
  BY <1>2, <1>4, <1>5, <1>6, <1>7 DEF Refs, Restricting, Tables

LEMMA TrackedAre ==
    /\ Tracked \cap {"meeting_selected_templates", "integrations", "feed_secrets", "users"} = {}
    /\ "meetings" \notin Refs /\ "feeds" \notin Refs
    /\ \A y : Tracked \cap Cascading(y) = {}
<1>1. ASSUME NEW y, NEW c \in Cascading(y) PROVE c = "meeting_selected_templates"
  <2>1. \A t : Cascade(y) # Ref(t) /\ Cascade(y) # SetNull(t)
    BY DEF Cascade, Ref, SetNull
  <2>2. c \in DOMAIN Keys /\ Cascade(y) \in Keys[c]
    BY DEF Cascading, Tables
  <2> QED
    BY <2>1, <2>2
       DEF Keys, UserORM, AgentTemplateORM, OrganizationSOPORM, MeetingORM, MeetingInviteORM,
           ParticipantORM, TaskORM, DecisionORM, TranscriptSegmentORM, AgentConfigORM,
           AgentApiKeyORM, ApiKeyAuditLogORM, RoomORM, AgentSessionORM, HostedAgentSessionORM,
           IntegrationORM, FeedORM, FeedRunORM, MeetingSummaryORM, FeedSecretORM, UsageRecordORM
<1> QED
  BY <1>1, RefsAre DEF Tracked

\* A new row that belongs to a meeting refers to it.
LEMMA RowsRefer ==
    ASSUME NEW c \in Refs, NEW row, row = NewRow(c)
    PROVE  /\ "gone" \in DOMAIN row /\ ~row.gone
           /\ Refers(row, "meetings")
           /\ c = "feed_runs" => Refers(row, "feeds")
<1>1. ASSUME NEW columns, "gone" \notin DOMAIN columns, "refs" \notin DOMAIN columns,
             row = Row(c, columns)
      PROVE  "gone" \in DOMAIN row /\ ~row.gone /\ "refs" \in DOMAIN row /\ row.refs = Parents(c)
  <2> DEFINE f == [refs |-> Parents(c), gone |-> FALSE]
  <2>1. DOMAIN f = {"refs", "gone"} /\ f["refs"] = Parents(c) /\ f["gone"] = FALSE
    OBVIOUS
  <2> HIDE DEF f
  <2>2. row = Over(f, columns)
    BY <1>1 DEF Row, f
  <2> QED
    BY <2>1, <2>2 DEF Over
<1>2. CASE c \in {"tasks", "decisions", "agent_sessions"}
  BY <1>2 DEF NewRow, Refers
<1>3. CASE c \in {"hosted_agent_sessions", "rooms"}
  <2>1. \E columns : /\ row = Row(c, columns)
                     /\ "gone" \notin DOMAIN columns /\ "refs" \notin DOMAIN columns
    BY <1>3 DEF NewRow
  <2> QED
    BY <1>1, <1>3, <2>1, RefsAre DEF Refers
<1>4. CASE c \in {"transcript_segments", "feed_runs", "meeting_summaries", "meeting_invites"}
  <2>1. row = Row(c, <<>>)
    BY <1>4 DEF NewRow
  <2>2. "gone" \notin DOMAIN <<>> /\ "refs" \notin DOMAIN <<>>
    OBVIOUS
  <2> QED
    BY <1>1, <2>1, <2>2, RefsAre DEF Refers
<1> QED
  BY <1>2, <1>3, <1>4, RefsAre

\* The statements of a deletion go through the tables one by one.
LEMMA SweepsDiffer ==
    /\ Sweeps[1] = "tasks" /\ Sweeps[11] = "meetings"
    /\ \A i \in 1 .. 11 : Sweeps[i] \notin {"commit", "write"}
    /\ \A i, j \in 1 .. 11 : Sweeps[i] = Sweeps[j] => i = j
<1>1. \A i \in 1 .. 11 : i \in {1, 2, 3, 4, 5, 6, 7, 8, 9, 10, 11}
  OBVIOUS
<1> QED
  BY <1>1 DEF Sweeps

LEMMA SweptFacts ==
    /\ Swept("tasks") = {}
    /\ \A i \in 1 .. 10 : Swept(Sweeps[i + 1]) \subseteq Swept(Sweeps[i]) \cup {Sweeps[i]}
    /\ Refs \subseteq Swept("meetings")
<1>1. Swept("tasks") = {}
  BY SweepsDiffer DEF Swept
<1>2. ASSUME NEW i \in 1 .. 10, NEW c \in Swept(Sweeps[i + 1])
      PROVE  c \in Swept(Sweeps[i]) \cup {Sweeps[i]}
  <2>1. PICK j \in 1 .. 11, k \in 1 .. 11 : j < k /\ Sweeps[k] = Sweeps[i + 1] /\ c = Sweeps[j]
    BY DEF Swept
  <2>2. i + 1 \in 1 .. 11 /\ i \in 1 .. 11
    OBVIOUS
  <2>3. k = i + 1
    BY <2>1, <2>2, SweepsDiffer
  <2>4. j = i \/ j < i
    BY <2>1, <2>3
  <2> QED
    BY <2>1, <2>2, <2>4 DEF Swept
<1>3. ASSUME NEW c \in Refs PROVE c \in Swept("meetings")
  <2>1. \E j \in 1 .. 10 : c = Sweeps[j]
    BY RefsAre DEF Sweeps
  <2> QED
    BY <2>1, SweepsDiffer DEF Swept
<1> QED
  BY <1>1, <1>2, <1>3

\* A step of r that leaves the rows alone, or changes them alone.
LEMMA SweepsHeld ==
    ASSUME SweepRecords, NEW r \in Requests, Alone(r), UNCHANGED <<table, mix>>, OthersKeep(r),
           \A x \in Tracked : Unlocked(r, x) \/ (Holds(r, x)' => Holds(r, x)),
           \A q \in Requests \ {r}, c \in Refs :
               /\ Deletes(q, "meetings") => ~Holds(r, c)'
               /\ Deletes(q, "feeds") /\ c = "feed_runs" => ~Holds(r, c)',
           SweepRequest(r)'
    PROVE  SweepRecords'
<1>1. \A q \in Requests \ {r} : req'[q] = req[q] /\ writes'[q] = writes[q]
  BY DEF Alone, OthersKeep
<1>2. ASSUME NEW q \in Requests \ {r} PROVE SweepRequest(q)'
  <2>1. SweepRequest(q) /\ req'[q] = req[q] /\ writes'[q] = writes[q]
    BY <1>1 DEF SweepRecords
  <2>2. \A x : /\ Holds(q, x)' <=> Holds(q, x)
               /\ Deletes(q, x)' <=> Deletes(q, x)
               /\ Marked(q, x)' <=> Marked(q, x)
    BY <2>1 DEF Holds, Deletes, Marked
  <2>3. \A o \in Requests \ {r} : \A c : Holds(o, c)' <=> Holds(o, c)
    BY <1>1 DEF Holds
  <2>4. MeetingDeleter(q)'
    BY <2>1, <2>2, <2>3 DEF SweepRequest, MeetingDeleter, Clears
  <2>5. FeedWriter(q)'
    BY <2>1, <2>2, <2>3, RefsAre DEF SweepRequest, FeedWriter, Clears
  <2>6. Sweeping(q)'
    BY <2>1, <2>2 DEF SweepRequest, Sweeping, Lost
  <2>7. \A c \in Refs : ChildRow(q, c)' /\ DeletedBy(q, c)'
    BY <2>1, <2>2 DEF SweepRequest, ChildRow, DeletedBy
  <2> QED
    BY <2>1, <2>2, <2>4, <2>5, <2>6, <2>7 DEF SweepRequest
<1>3. \A x \in Tracked : Sole(x)'
  BY <1>1 DEF SweepRecords, Sole, Holds, Unlocked, Others
<1>4. RefsAreKept'
  BY DEF SweepRecords, RefsAreKept
<1> QED
  BY <1>2, <1>3, <1>4 DEF SweepRecords, Alone, OthersKeep

LEMMA SweepsDropped ==
    ASSUME SweepRecords, NEW r \in Requests, Drops(r), UNCHANGED mix
    PROVE  SweepRecords'
<1>1. Alone(r) /\ UNCHANGED table /\ OthersKeep(r) /\ DOMAIN writes'[r] = {}
  BY DEF Drops, Stops
<1>2. req'[r].op = "none"
  BY IdleFields DEF Drops, Stops
<1>3. \A x : ~Holds(r, x)' /\ ~Deletes(r, x)'
  BY <1>1 DEF Holds, Deletes
<1>4. SweepRequest(r)'
  BY <1>1, <1>2, <1>3
     DEF SweepRequest, Marked, ChildRow, DeletedBy, MeetingDeleter, FeedWriter, Sweeping
<1> QED
  BY <1>1, <1>3, <1>4, SweepsHeld

\* A handler that is no deletion goes on and touches no row of these.
LEMMA SweepsElsewhere ==
    ASSUME SweepRecords, NEW r \in Requests, Alone(r), UNCHANGED <<table, mix>>, OthersKeep(r),
           \A x \in Tracked : Same(r, x),
           req[r].op # "delete", req[r].op # "none", req'[r].op = req[r].op
    PROVE  SweepRecords'
<1>1. \A x \in Tracked : /\ Holds(r, x)' <=> Holds(r, x)
                         /\ Deletes(r, x)' <=> Deletes(r, x)
                         /\ Marked(r, x)' <=> Marked(r, x)
                         /\ Holds(r, x) => writes'[r][x] = writes[r][x]
  BY DEF Same, Holds, Deletes, Marked
<1>2. SweepRequest(r) /\ Refs \subseteq Tracked /\ {"meetings", "feeds"} \subseteq Tracked
  BY DEF SweepRecords, Tracked
<1>3. MeetingDeleter(r)'
  BY <1>1, <1>2 DEF SweepRequest, MeetingDeleter
<1>4. \A o \in Requests \ {r} : \A c : Holds(o, c)' <=> Holds(o, c)
  BY DEF Holds, OthersKeep
<1>5. FeedWriter(r)'
  <2>1. "feed_runs" \in Tracked
    BY <1>2, RefsAre
  <2> QED
    BY <1>1, <1>2, <1>4, <2>1 DEF SweepRequest, FeedWriter, Clears
<1>6. \A c \in Refs : ChildRow(r, c)' /\ DeletedBy(r, c)'
  <2>1. \A c \in Refs : DeletedBy(r, c)'
    BY <1>1, <1>2 DEF SweepRequest, DeletedBy
  <2>2. \A c \in Refs : ChildRow(r, c)'
    BY <1>1, <1>2 DEF SweepRequest, ChildRow
  <2> QED
    BY <2>1, <2>2
<1>7. Sweeping(r)'
  BY DEF Sweeping
<1>8. SweepRequest(r)'
  BY <1>1, <1>2, <1>3, <1>5, <1>6, <1>7 DEF SweepRequest
<1>9. ASSUME NEW q \in Requests \ {r}, NEW c \in Refs
      PROVE  /\ Deletes(q, "meetings") => ~Holds(r, c)'
             /\ Deletes(q, "feeds") /\ c = "feed_runs" => ~Holds(r, c)'
  BY <1>1, <1>2, <1>9 DEF SweepRecords, SweepRequest, MeetingDeleter, FeedWriter, Clears
<1> QED
  BY <1>1, <1>8, <1>9, SweepsHeld

\* A statement that writes a row that refers to the meeting, alone.
LEMMA SweepsWritten ==
    ASSUME SweepRecords, NEW r \in Requests, UNCHANGED mix, NEW c \in Refs, NEW row, NEW next,
           Moves(r, next), Flushes(r, c, row), Unlocked(r, c),
           "gone" \in DOMAIN row, ~row.gone, Refers(row, "meetings"),
           "meetings" \in DOMAIN table, req[r].op \notin {"delete", "none"},
           c = "feed_runs" => req[r].op = "trigger" /\ "feeds" \in DOMAIN table,
           \A q \in Requests \ {r} : /\ ~Deletes(q, "meetings")
                                     /\ c = "feed_runs" => ~Deletes(q, "feeds")
    PROVE  SweepRecords'
<1>1. /\ Alone(r) /\ req'[r].op = req[r].op /\ UNCHANGED table /\ OthersKeep(r)
      /\ Holds(r, c)' /\ ~Deletes(r, c)' /\ Marked(r, c)' /\ writes'[r][c] = row
  BY DEF Moves, Flushes, Holds, Deletes, Marked
<1>2. \A x \in Tracked \ {c} : /\ Holds(r, x)' <=> Holds(r, x)
                               /\ Deletes(r, x)' <=> Deletes(r, x)
                               /\ Marked(r, x)' <=> Marked(r, x)
                               /\ Holds(r, x) => writes'[r][x] = writes[r][x]
  BY DEF Flushes, Same, Holds, Deletes, Marked
<1>3. /\ SweepRequest(r) /\ Refs \subseteq Tracked /\ {"meetings", "feeds"} \subseteq Tracked
      /\ "meetings" # c /\ "feeds" # c
  BY TrackedAre DEF SweepRecords, Tracked
<1>4. MeetingDeleter(r)'
  BY <1>1, <1>2, <1>3 DEF SweepRequest, MeetingDeleter
<1>5. FeedWriter(r)'
  <2>1. "feed_runs" \in Tracked
    BY <1>3, RefsAre
  <2>2. \A o \in Requests \ {r} : \A x : Holds(o, x)' <=> Holds(o, x)
    BY <1>1 DEF Holds, OthersKeep
  <2> QED
    BY <1>1, <1>2, <1>3, <2>1, <2>2 DEF SweepRequest, FeedWriter, Clears
<1>6. \A x \in Refs : ChildRow(r, x)' /\ DeletedBy(r, x)'
  <2>1. ChildRow(r, c)' /\ DeletedBy(r, c)'
    BY <1>1 DEF ChildRow, DeletedBy
  <2>2. ASSUME NEW x \in Refs \ {c} PROVE DeletedBy(r, x)'
    BY <1>1, <1>2, <1>3, <2>2 DEF SweepRequest, DeletedBy
  <2>3. ASSUME NEW x \in Refs \ {c} PROVE ChildRow(r, x)'
    BY <1>1, <1>2, <1>3, <2>3 DEF SweepRequest, ChildRow
  <2> QED
    BY <2>1, <2>2, <2>3
<1>7. SweepRequest(r)'
  BY <1>1, <1>2, <1>3, <1>4, <1>5, <1>6 DEF SweepRequest, Sweeping
<1>8. ASSUME NEW q \in Requests \ {r}, NEW x \in Refs
      PROVE  /\ Deletes(q, "meetings") => ~Holds(r, x)'
             /\ Deletes(q, "feeds") /\ x = "feed_runs" => ~Holds(r, x)'
  BY <1>2, <1>3, <1>8 DEF SweepRecords, SweepRequest, MeetingDeleter, FeedWriter, Clears
<1>9. \A x \in Tracked : Unlocked(r, x) \/ (Holds(r, x)' => Holds(r, x))
  BY <1>2
<1> QED
  BY <1>1, <1>7, <1>8, <1>9, SweepsHeld

\* What an update makes of the reference of a row.
LEMMA ColumnsRefer ==
    ASSUME NEW r, NEW x, NEW columns, "refs" \notin DOMAIN columns, NEW p,
           Holds(r, x) => Refers(writes[r][x], p), ~Holds(r, x) => Refers(table[x], p),
           NEW row, row = Columns(r, x, columns)
    PROVE  Refers(row, p)
<1>1. CASE Holds(r, x)
  BY <1>1 DEF Columns, Over, Refers
<1>2. CASE ~Holds(r, x)
  <2> DEFINE f == [refs |-> table[x].refs, gone |-> FALSE]
  <2>1. DOMAIN f = {"refs", "gone"} /\ f["refs"] = table[x].refs
    OBVIOUS
  <2> HIDE DEF f
  <2>2. row = Over(f, columns)
    BY <1>2 DEF Columns, f
  <2> QED
    BY <1>2, <2>1, <2>2 DEF Over, Refers
<1> QED
  BY <1>1, <1>2

\* The statements of the handlers that write one such row.
LEMMA SweepsStatement ==
    ASSUME SweepRecords, RoomRecords, NEW r \in Requests, UNCHANGED mix, NEW c \in Refs,
           NEW next, NEW columns, req[r].op \notin {"delete", "none"},
           c = "feed_runs" => req[r].op = "trigger",
           "refs" \notin DOMAIN columns, "gone" \notin DOMAIN columns,
           \/ c # "feed_runs" /\ UpdateOrFail(r, c, columns, next)
           \/ c # "feed_runs" /\ InsertOrFail(r, c, NewRow(c), next)
           \/ AddOrFail(r, c, NewRow(c), next)
    PROVE  SweepRecords'
<1>1. ReqShape /\ WritesShape /\ SweepRequest(r) /\ Refs \subseteq Tracked
  BY DEF SweepRecords, Tracked
<1>2. CASE Drops(r)
  BY <1>2, SweepsDropped
<1>3. ASSUME c # "feed_runs", UpdateOrFail(r, c, columns, next), ~Drops(r) PROVE SweepRecords'
  <2> DEFINE row == Columns(r, c, columns)
  <2>1. Moves(r, next) /\ Flushes(r, c, row) /\ Unlocked(r, c) /\ Exists(r, c)
    BY <1>1, <1>3, UpdateWrites
  <2>2. "gone" \in DOMAIN row /\ ~row.gone
    BY <1>1, <2>1, ColumnsKeep DEF SweepRequest
  <2>3. CASE Holds(r, c)
    <3>1. Refers(writes[r][c], "meetings") /\ "meetings" \in DOMAIN table
      BY <1>1, <2>1, <2>3 DEF SweepRequest, ChildRow, Exists
    <3>2. Refers(row, "meetings")
      BY <2>3, <3>1, ColumnsRefer
    <3>3. \A q \in Requests \ {r} : ~Deletes(q, "meetings")
      BY <2>3 DEF SweepRecords, SweepRequest, MeetingDeleter, Clears
    <3> QED
      BY <1>3, <2>1, <2>2, <3>1, <3>2, <3>3, SweepsWritten
  <2>4. CASE ~Holds(r, c)
    <3>1. c \in DOMAIN table /\ Refers(table[c], "meetings") /\ "meetings" \in DOMAIN table
      BY <2>1, <2>4 DEF Exists, SweepRecords, RefsAreKept
    <3>2. Refers(row, "meetings")
      BY <2>4, <3>1, ColumnsRefer
    <3>3. \A q \in Requests \ {r} : ~Deletes(q, "meetings")
      BY <2>1, <3>1 DEF SweepRecords, SweepRequest, MeetingDeleter, Clears, Unlocked, Others, Deletes
    <3> QED
      BY <1>3, <2>1, <2>2, <3>1, <3>2, <3>3, SweepsWritten
  <2> QED
    BY <2>3, <2>4
<1>4. ASSUME NEW row, row = NewRow(c), Moves(r, next), Flushes(r, c, row), Unlocked(r, c),
             Exists(r, "meetings"), \A q \in Requests \ {r} : ~Deletes(q, "meetings"),
             c = "feed_runs" =>
                 Exists(r, "feeds") /\ \A q \in Requests \ {r} : ~Deletes(q, "feeds")
      PROVE  SweepRecords'
  <2>1. "gone" \in DOMAIN row /\ ~row.gone /\ Refers(row, "meetings")
    BY <1>4, RowsRefer
  <2>2. "meetings" \in DOMAIN table
    BY <1>4 DEF Exists, RoomRecords, RoomRequest, MeetingWriter
  <2>3. c = "feed_runs" => "feeds" \in DOMAIN table
    BY <1>1, <1>4 DEF Exists, SweepRequest, FeedWriter
  <2> QED
    BY <1>4, <2>1, <2>2, <2>3, SweepsWritten
<1>5. ASSUME c # "feed_runs", InsertOrFail(r, c, NewRow(c), next), ~Drops(r) PROVE SweepRecords'
  <2>1. Moves(r, next) /\ Flushes(r, c, NewRow(c)) /\ Unlocked(r, c)
    BY <1>1, <1>5, InsertWrites
  <2>2. MayInsert(r, c) /\ ~Violates(r, c, NewRow(c))
    <3>1. ~Fail(r)
      BY <1>1, <1>5, FailDrops
    <3> QED
      BY <1>5, <3>1 DEF InsertOrFail
  <2>3. Exists(r, "meetings")
    BY <2>2, RowsRefer DEF Violates, Refers
  <2>4. \A q \in Requests \ {r} : ~Deletes(q, "meetings")
    BY <2>2, RefsAre DEF MayInsert, Others
  <2> QED
    BY <1>4, <1>5, <2>1, <2>3, <2>4
<1>6. ASSUME AddOrFail(r, c, NewRow(c), next), ~Drops(r) PROVE SweepRecords'
  <2> DEFINE row == NewRow(c)
  <2>1. ~Fail(r)
    BY <1>1, <1>6, FailDrops
  <2>2. /\ \A p \in row.refs : Exists(r, p) /\ \A q \in Requests \ {r} : ~Deletes(q, p)
        /\ Goto(r, next) /\ UNCHANGED table
        /\ \/ Unlocked(r, c) /\ Insert(r, c, row)
           \/ UNCHANGED writes
    BY <1>6, <2>1 DEF AddOrFail, Others
  <2>3. "meetings" \in row.refs /\ (c = "feed_runs" => "feeds" \in row.refs)
    BY RowsRefer DEF Refers
  <2> HIDE DEF row
  <2>4. Moves(r, next)
    BY <1>1, <2>2, GotoMoves
  <2>5. CASE Unlocked(r, c) /\ Insert(r, c, row)
    <3>1. Flushes(r, c, row)
      BY <1>1, <2>2, <2>5, InsertFlushes
    <3> QED
      BY <1>4, <2>2, <2>3, <2>4, <2>5, <3>1 DEF row
  <2>6. CASE UNCHANGED writes
    BY <1>1, <2>2, <2>4, <2>6, SweepsElsewhere DEF Moves, OthersKeep, WritesShape, Same
  <2> QED
    BY <2>2, <2>5, <2>6
<1> QED
  BY <1>2, <1>3, <1>5, <1>6

\* A statement that writes the meeting or the feed, and does not delete it.
LEMMA SweepsParent ==
    ASSUME SweepRecords, NEW r \in Requests, UNCHANGED mix, NEW x \in {"meetings", "feeds"},
           NEW row, NEW next, Moves(r, next), Flushes(r, x, row), Unlocked(r, x),
           "gone" \in DOMAIN row, ~row.gone, req[r].op \notin {"delete", "none"},
           req[r].op # "delete_feed",
           x = "feeds" => Exists(r, "feeds") \/ req[r].op = "create_feed"
    PROVE  SweepRecords'
<1>1. /\ Alone(r) /\ req'[r].op = req[r].op /\ UNCHANGED table /\ OthersKeep(r)
      /\ Holds(r, x)' /\ ~Deletes(r, x)' /\ Marked(r, x)'
  BY DEF Moves, Flushes, Holds, Deletes, Marked
<1>2. \A y \in Tracked \ {x} : /\ Holds(r, y)' <=> Holds(r, y)
                               /\ Deletes(r, y)' <=> Deletes(r, y)
                               /\ Marked(r, y)' <=> Marked(r, y)
                               /\ Holds(r, y) => writes'[r][y] = writes[r][y]
  BY DEF Flushes, Same, Holds, Deletes, Marked
<1>3. SweepRequest(r) /\ Refs \subseteq Tracked \ {"meetings", "feeds"}
      /\ {"meetings", "feeds"} \subseteq Tracked
  BY TrackedAre DEF SweepRecords, Tracked
<1>4. MeetingDeleter(r)'
  BY <1>1, <1>2, <1>3 DEF SweepRequest, MeetingDeleter
<1>5. FeedWriter(r)'
  <2>1. ~Deletes(r, "feeds")'
    BY <1>1, <1>2, <1>3 DEF SweepRequest, FeedWriter
  <2>2. CASE x = "feeds"
    BY <1>1, <1>3, <2>1, <2>2 DEF FeedWriter, SweepRequest, Exists
  <2>3. CASE x # "feeds"
    BY <1>1, <1>2, <1>3, <2>1, <2>3 DEF FeedWriter, SweepRequest
  <2> QED
    BY <2>2, <2>3
<1>6. ASSUME NEW c \in Refs PROVE ChildRow(r, c)' /\ DeletedBy(r, c)'
  <2>1. c \in Tracked \ {x}
    BY <1>3
  <2>2. DeletedBy(r, c)'
    BY <1>1, <1>2, <1>3, <2>1 DEF SweepRequest, DeletedBy
  <2>3. ChildRow(r, c)'
    BY <1>1, <1>2, <1>3, <2>1 DEF SweepRequest, ChildRow
  <2> QED
    BY <2>2, <2>3
<1>7. SweepRequest(r)'
  BY <1>1, <1>2, <1>3, <1>4, <1>5, <1>6 DEF SweepRequest, Sweeping
<1>8. ASSUME NEW q \in Requests \ {r}, NEW c \in Refs
      PROVE  /\ Deletes(q, "meetings") => ~Holds(r, c)'
             /\ Deletes(q, "feeds") /\ c = "feed_runs" => ~Holds(r, c)'
  BY <1>2, <1>3, <1>8 DEF SweepRecords, SweepRequest, MeetingDeleter, FeedWriter, Clears
<1> QED
  BY <1>1, <1>2, <1>7, <1>8, SweepsHeld

\* An update of the meeting or the feed.
LEMMA SweepsUpdate ==
    ASSUME SweepRecords, NEW r \in Requests, UNCHANGED mix, NEW x \in {"meetings", "feeds"},
           NEW columns, NEW next, "gone" \notin DOMAIN columns, UpdateOrFail(r, x, columns, next),
           req[r].op \notin {"delete", "none", "delete_feed"}
    PROVE  SweepRecords'
<1> DEFINE row == Columns(r, x, columns)
<1>1. ReqShape /\ WritesShape /\ Marked(r, x)
  BY DEF SweepRecords, SweepRequest, Tracked
<1>2. CASE Drops(r)
  BY <1>2, SweepsDropped
<1>3. CASE Moves(r, next) /\ Flushes(r, x, row) /\ Unlocked(r, x) /\ Exists(r, x)
  <2>1. "gone" \in DOMAIN row /\ ~row.gone
    BY <1>1, <1>3, ColumnsKeep
  <2> QED
    BY <1>3, <2>1, SweepsParent
<1> QED
  BY <1>1, <1>2, <1>3, UpdateWrites

LEMMA StartsKeepSweeps ==
    ASSUME SweepRecords, NEW r \in Requests, UNCHANGED mix, RoomRecords,
           StartMeeting(r) \/ FindRoom(r) \/ AddRoom(r) \/ EnsureRoom(r)
           \/ PublishStarted(r) \/ EndMeeting(r) \/ PublishEnded(r) \/ UpdateMeeting(r)
    PROVE  SweepRecords'
<1>1. ReqShape /\ WritesShape
  BY DEF SweepRecords
<1>2. req[r].op \in {"start", "end", "update"}
  BY DEF StartMeeting, FindRoom, AddRoom, EnsureRoom, PublishStarted, EndMeeting, PublishEnded,
         UpdateMeeting, At
<1>3. CASE StartMeeting(r) \/ EndMeeting(r) \/ UpdateMeeting(r)
  <2>1. \E columns, next : UpdateOrFail(r, "meetings", columns, next) /\ "gone" \notin DOMAIN columns
    <3>1. "gone" \notin DOMAIN [status |-> "active"] /\ "gone" \notin DOMAIN [status |-> "completed"]
          /\ \A t : "gone" \notin DOMAIN [title |-> t]
      OBVIOUS
    <3> QED
      BY <1>3, <3>1 DEF StartMeeting, EndMeeting, UpdateMeeting
  <2> QED
    BY <1>2, <2>1, SweepsUpdate
<1>4. CASE AddRoom(r) \/ EnsureRoom(r)
  <2>1. \/ InsertOrFail(r, "rooms", NewRow("rooms"), "sid")
        \/ UpdateOrFail(r, "rooms", [sid |-> TRUE], "started")
        \/ Fail(r)
    BY <1>4 DEF AddRoom, EnsureRoom
  <2>2. "gone" \notin DOMAIN [sid |-> TRUE] /\ "refs" \notin DOMAIN [sid |-> TRUE]
    OBVIOUS
  <2>3. "rooms" \in Refs /\ "rooms" # "feed_runs"
    BY RefsAre
  <2> QED
    BY <1>1, <1>2, <2>1, <2>2, <2>3, SweepsStatement, SweepsDropped, FailDrops
<1>5. CASE FindRoom(r) \/ PublishStarted(r) \/ PublishEnded(r)
  <2>1. (\E at : Goto(r, at)) /\ UNCHANGED <<table, writes>>
    BY <1>5 DEF FindRoom, PublishStarted, PublishEnded
  <2> QED
    BY <1>1, <1>2, <2>1, GotoMoves, SweepsElsewhere DEF Moves, OthersKeep, WritesShape, Same
<1> QED
  BY <1>3, <1>4, <1>5

\* A handler that writes rows of no such table.
LEMMA SweepsUntracked ==
    ASSUME SweepRecords, NEW r \in Requests, UNCHANGED mix, NEW x, NEW row, NEW next,
           x \notin Tracked, req[r].op \notin {"delete", "none"},
           \/ UpdateOrFail(r, x, row, next) \/ InsertOrFail(r, x, row, next)
           \/ AddOrFail(r, x, row, next) \/ DeleteOrFail(r, x, next)
    PROVE  SweepRecords'
<1>1. ReqShape /\ WritesShape
  BY DEF SweepRecords
<1>2. CASE Drops(r)
  BY <1>2, SweepsDropped
<1>3. CASE Moves(r, next) /\ UNCHANGED table /\ OthersKeep(r) /\ \A y \in Tracked : Same(r, y)
  BY <1>3, SweepsElsewhere DEF Moves
<1>4. \A y \in Tracked : y # x /\ y \notin Cascading(x)
  BY TrackedAre
<1> QED
  BY <1>1, <1>2, <1>3, <1>4, StatementTouches, DeletionTouches DEF Touches

LEMMA OthersKeepSweeps ==
    ASSUME SweepRecords, NEW r \in Requests, UNCHANGED mix, RoomRecords,
           \/ CreateInvite(r) \/ SetSelectedAgents(r) \/ CreateTask(r) \/ UpdateTaskStatus(r)
           \/ GetMeetingSummary(r) \/ GenerateSummary(r) \/ StoreSummary(r)
           \/ CreateFeed(r) \/ StoreSecret(r) \/ UpdateFeed(r)
           \/ TriggerFeed(r) \/ SlackCallback(r) \/ DeleteIntegration(r)
           \/ ActivateTemplate(r) \/ DeactivateSession(r)
    PROVE  SweepRecords'
<1>1. ReqShape /\ WritesShape
  BY DEF SweepRecords
<1>2. /\ req[r].op \notin {"delete", "none", "delete_feed"}
      /\ TriggerFeed(r) => req[r].op = "trigger"
      /\ CreateFeed(r) => req[r].op = "create_feed"
  BY DEF CreateInvite, SetSelectedAgents, CreateTask, UpdateTaskStatus, GetMeetingSummary,
         GenerateSummary, StoreSummary, CreateFeed, StoreSecret, UpdateFeed,
         TriggerFeed, SlackCallback, DeleteIntegration, ActivateTemplate, DeactivateSession, At
<1>3. ASSUME NEW c \in Refs, NEW next, NEW columns, c = "feed_runs" => req[r].op = "trigger",
             "refs" \notin DOMAIN columns, "gone" \notin DOMAIN columns,
             \/ c # "feed_runs" /\ UpdateOrFail(r, c, columns, next)
             \/ c # "feed_runs" /\ InsertOrFail(r, c, NewRow(c), next)
             \/ AddOrFail(r, c, NewRow(c), next)
      PROVE  SweepRecords'
  BY <1>2, <1>3, SweepsStatement
<1>4. ASSUME NEW x, NEW row, NEW next, x \notin Tracked,
             \/ UpdateOrFail(r, x, row, next) \/ InsertOrFail(r, x, row, next)
             \/ AddOrFail(r, x, row, next) \/ DeleteOrFail(r, x, next)
      PROVE  SweepRecords'
  BY <1>2, <1>4, SweepsUntracked
<1>5. ASSUME UNCHANGED <<table, writes>>, \E next : Goto(r, next) PROVE SweepRecords'
  BY <1>1, <1>2, <1>5, GotoMoves, SweepsElsewhere DEF Moves, OthersKeep, WritesShape, Same
<1>6. ASSUME Fail(r) PROVE SweepRecords'
  BY <1>1, <1>6, FailDrops, SweepsDropped
<1>7. "refs" \notin DOMAIN <<>> /\ "gone" \notin DOMAIN <<>>
  OBVIOUS
<1>8. CASE CreateInvite(r) \/ CreateTask(r) \/ ActivateTemplate(r)
  <2>1. {"meeting_invites", "tasks", "hosted_agent_sessions"} \subseteq Refs
    BY RefsAre
  <2> QED
    BY <1>3, <1>7, <1>8, <2>1 DEF CreateInvite, CreateTask, ActivateTemplate
<1>9. CASE UpdateTaskStatus(r) \/ DeactivateSession(r)
  <2>1. \E s : \E c \in {"tasks", "hosted_agent_sessions"} :
          UpdateOrFail(r, c, [status |-> s], "commit")
    BY <1>9 DEF UpdateTaskStatus, DeactivateSession
  <2>2. \A s : "refs" \notin DOMAIN [status |-> s] /\ "gone" \notin DOMAIN [status |-> s]
    OBVIOUS
  <2>3. {"tasks", "hosted_agent_sessions"} \subseteq Refs
    BY RefsAre
  <2> QED
    BY <1>3, <2>1, <2>2, <2>3
<1>10. CASE StoreSummary(r) \/ TriggerFeed(r)
  <2>1. {"meeting_summaries", "feed_runs"} \subseteq Refs
    BY RefsAre
  <2> QED
    BY <1>2, <1>3, <1>7, <1>10, <2>1 DEF StoreSummary, TriggerFeed
<1>11. CASE GetMeetingSummary(r) \/ GenerateSummary(r)
  BY <1>5, <1>6, <1>11 DEF GetMeetingSummary, GenerateSummary
<1>12. CASE \/ SetSelectedAgents(r) \/ StoreSecret(r) \/ SlackCallback(r) \/ DeleteIntegration(r)
  <2>1. /\ "meeting_selected_templates" \notin Tracked /\ "integrations" \notin Tracked
        /\ "feed_secrets" \notin Tracked
    BY TrackedAre
  <2> QED
    BY <1>4, <1>5, <1>12, <2>1 DEF SetSelectedAgents, StoreSecret, SlackCallback, DeleteIntegration
<1>13. CASE UpdateFeed(r)
  <2>1. "feed_secrets" \notin Tracked
    BY TrackedAre
  <2>2. \/ UpdateOrFail(r, "feeds", <<>>, "commit")
        \/ \E row : \/ UpdateOrFail(r, "feed_secrets", row, "commit")
                    \/ InsertOrFail(r, "feed_secrets", row, "commit")
    BY <1>13 DEF UpdateFeed
  <2> QED
    BY <1>2, <1>4, <1>7, <2>1, <2>2, SweepsUpdate
<1>14. CASE CreateFeed(r)
  <2>1. PICK refs, row : row = [NewRow("feeds") EXCEPT !.refs = refs] /\ AddOrFail(r, "feeds", row, "secret")
    BY <1>14 DEF CreateFeed
  <2>2. "gone" \in DOMAIN row /\ ~row.gone
    <3> DEFINE f == [refs |-> Parents("feeds"), gone |-> FALSE]
    <3>1. DOMAIN f = {"refs", "gone"} /\ f["gone"] = FALSE
      OBVIOUS
    <3> HIDE DEF f
    <3>2. NewRow("feeds") = Over(f, <<>>)
      BY DEF NewRow, Row, f
    <3>3. "gone" \in DOMAIN NewRow("feeds") /\ NewRow("feeds")["gone"] = FALSE
      BY <3>1, <3>2 DEF Over
    <3> QED
      BY <2>1, <3>3
  <2>3. CASE Fail(r)
    BY <1>6, <2>3
  <2>4. CASE ~Fail(r)
    <3>1. /\ Goto(r, "secret") /\ UNCHANGED table
          /\ (Unlocked(r, "feeds") /\ Insert(r, "feeds", row)) \/ UNCHANGED writes
      BY <2>1, <2>4 DEF AddOrFail
    <3>2. CASE UNCHANGED writes
      BY <1>5, <3>1, <3>2
    <3>3. CASE Unlocked(r, "feeds") /\ Insert(r, "feeds", row)
      BY <1>1, <1>2, <1>14, <2>2, <3>1, <3>3, GotoMoves, InsertFlushes, SweepsParent
    <3> QED
      BY <3>1, <3>2, <3>3
  <2> QED
    BY <2>3, <2>4
<1> QED
  BY <1>8, <1>9, <1>10, <1>11, <1>12, <1>13, <1>14

\* What the statements of a deletion leave is gone: they delete what there is.
LEMMA DeletionsKeepSweeps ==
    ASSUME SweepRecords, NEW r \in Requests, UNCHANGED mix, DeleteSweeps(r)
    PROVE  SweepRecords'
<1>1. ReqShape /\ WritesShape /\ SweepRequest(r) /\ req[r].op = "delete"
  BY DEF SweepRecords, DeleteSweeps, At
<1>2. PICK i \in 1 .. 10 :
          /\ req[r].at = Sweeps[i] /\ Goto(r, Sweeps[i + 1]) /\ UNCHANGED table
          /\ IF Sweeps[i] \in DOMAIN table
             THEN /\ Unlocked(r, Sweeps[i])
                  /\ writes' = [writes EXCEPT ![r] = Put(@, Sweeps[i], Gone)]
             ELSE UNCHANGED writes
  <2>1. Len(Sweeps) - 1 = 10
    BY DEF Sweeps
  <2> QED
    BY <2>1 DEF DeleteSweeps, At
<1> DEFINE x == Sweeps[i]
<1>3. /\ Alone(r) /\ req'[r].op = "delete" /\ req'[r].saw = req[r].saw /\ req'[r].at = Sweeps[i + 1]
      /\ x \notin {"meetings", "feeds"} /\ req'[r].at # "commit"
  <2>1. Alone(r) /\ req'[r].op = "delete" /\ req'[r].saw = req[r].saw /\ req'[r].at = Sweeps[i + 1]
    BY <1>1, <1>2, GotoMoves DEF Moves
  <2>2. i + 1 \in 1 .. 11 /\ i \in 1 .. 11 /\ i # 11
    OBVIOUS
  <2>3. \A j \in 1 .. 11 : Sweeps[j] # "feeds"
    <3>1. \A j \in 1 .. 11 : j \in {1, 2, 3, 4, 5, 6, 7, 8, 9, 10, 11}
      OBVIOUS
    <3> QED
      BY <3>1 DEF Sweeps
  <2> QED
    BY <2>1, <2>2, <2>3, SweepsDiffer
<1>4. /\ OthersKeep(r) /\ (x \in DOMAIN table => Unlocked(r, x) /\ Deletes(r, x)')
      /\ \A y : y # x \/ y \notin DOMAIN table => Same(r, y)
      /\ Marked(r, x) => Marked(r, x)'
      /\ Holds(r, x)' => Holds(r, x) \/ (Unlocked(r, x) /\ x \in DOMAIN table)
  <2>1. CASE x \in DOMAIN table
    <3>1. Flushes(r, x, Gone) /\ Unlocked(r, x)
      BY <1>1, <1>2, <2>1, PutFlushes
    <3> HIDE DEF x
    <3> QED
      BY <2>1, <3>1 DEF Flushes, Deletes, Holds, Marked, Gone
  <2>2. CASE x \notin DOMAIN table
    BY <1>1, <1>2, <2>2 DEF OthersKeep, WritesShape, Same, Marked, Holds
  <2> QED
    BY <2>1, <2>2
<1> HIDE DEF x
<1>5. Refs \subseteq Tracked /\ {"meetings", "feeds"} \subseteq Tracked
  BY DEF Tracked
<1>6. \A y : /\ Deletes(r, y) => Deletes(r, y)'
             /\ Deletes(r, y)' => Deletes(r, y) \/ y = x
             /\ Marked(r, y) => Marked(r, y)'
             /\ Holds(r, y)' /\ ~Deletes(r, y)' =>
                    /\ Holds(r, y) /\ ~Deletes(r, y) /\ writes'[r][y] = writes[r][y]
  <2> SUFFICES ASSUME NEW y
               PROVE  /\ Deletes(r, y) => Deletes(r, y)'
                      /\ Deletes(r, y)' => Deletes(r, y) \/ y = x
                      /\ Marked(r, y) => Marked(r, y)'
                      /\ Holds(r, y)' /\ ~Deletes(r, y)' =>
                             /\ Holds(r, y) /\ ~Deletes(r, y) /\ writes'[r][y] = writes[r][y]
    OBVIOUS
  <2>1. CASE Same(r, y)
    BY <2>1 DEF Same, Deletes, Holds, Marked
  <2>2. CASE y = x /\ x \in DOMAIN table
    BY <1>4, <2>2 DEF Holds
  <2> QED
    BY <1>4, <2>1, <2>2
<1>7. \A c \in Refs : ChildRow(r, c)' /\ DeletedBy(r, c)'
  <2>1. ASSUME NEW c \in Refs PROVE ~(Holds(r, c)' /\ ~Deletes(r, c)')
    BY <1>1, <1>6 DEF SweepRequest, ChildRow
  <2> QED
    BY <1>3, <2>1 DEF ChildRow, DeletedBy
<1>8. MeetingDeleter(r)' /\ FeedWriter(r)'
  <2>1. /\ Holds(r, "meetings")' <=> Holds(r, "meetings")
        /\ Deletes(r, "meetings")' <=> Deletes(r, "meetings")
        /\ Holds(r, "feeds")' <=> Holds(r, "feeds")
        /\ Deletes(r, "feeds")' <=> Deletes(r, "feeds")
    BY <1>3, <1>4 DEF Same, Holds, Deletes
  <2>2. ~Deletes(r, "meetings") /\ ~Deletes(r, "feeds")
    <3>1. i \in 1 .. 11
      OBVIOUS
    <3> QED
      BY <1>1, <1>2, <3>1, SweepsDiffer DEF SweepRequest, MeetingDeleter, FeedWriter
  <2> QED
    BY <1>1, <1>2, <1>3, <2>1, <2>2 DEF SweepRequest, MeetingDeleter, FeedWriter
<1>9. Sweeping(r)'
  <2>1. \A c \in Refs \cap req[r].saw : c \in DOMAIN table \/ Lost(c)
    BY <1>1 DEF SweepRequest, Sweeping
  <2>2. ASSUME NEW c \in Refs \cap req[r].saw, c \in Swept(req'[r].at)
        PROVE  Deletes(r, c)' \/ c \notin DOMAIN table
    <3>1. c \in Swept(req[r].at) \/ c = x
      BY <1>2, <1>3, <2>2, SweptFacts DEF x
    <3>2. CASE c = x
      BY <1>4, <3>2
    <3>3. CASE c \in Swept(req[r].at)
      BY <1>1, <1>6, <3>3 DEF SweepRequest, Sweeping
    <3> QED
      BY <3>1, <3>2, <3>3
  <2> QED
    BY <1>2, <1>3, <2>1, <2>2 DEF Sweeping, Lost
<1>10. SweepRequest(r)'
  BY <1>1, <1>3, <1>5, <1>6, <1>7, <1>8, <1>9 DEF SweepRequest
<1>11. ASSUME NEW q \in Requests \ {r}, NEW c \in Refs, Holds(r, c)'
       PROVE  ~Deletes(q, "meetings") /\ (c = "feed_runs" => ~Deletes(q, "feeds"))
  <2>1. CASE Holds(r, c)
    BY <2>1 DEF SweepRecords, SweepRequest, MeetingDeleter, FeedWriter, Clears
  <2>2. CASE ~Holds(r, c)
    <3>1. c = x /\ Unlocked(r, c) /\ c \in DOMAIN table
      BY <1>4, <1>11, <2>2 DEF Same, Holds
    <3>2. ~Deletes(q, c)
      BY <3>1 DEF Unlocked, Others, Deletes
    <3> QED
      BY <3>1, <3>2 DEF SweepRecords, SweepRequest, MeetingDeleter, FeedWriter, Clears
  <2> QED
    BY <2>1, <2>2
<1>12. \A y \in Tracked : Unlocked(r, y) \/ (Holds(r, y)' => Holds(r, y))
  BY <1>4 DEF Same, Holds
<1> QED
  BY <1>2, <1>3, <1>4, <1>10, <1>11, <1>12, SweepsHeld

\* The meeting goes last, when no row is left that refers to it.
LEMMA MeetingsKeepSweeps ==
    ASSUME SweepRecords, NEW r \in Requests, UNCHANGED mix, DeleteMeeting(r)
    PROVE  SweepRecords'
<1>1. /\ ReqShape /\ WritesShape /\ SweepRequest(r) /\ req[r].op = "delete" /\ req[r].at = "meetings"
      /\ DeleteOrFail(r, "meetings", "commit")
  BY DEF SweepRecords, DeleteMeeting, At
<1>2. CASE Drops(r)
  BY <1>2, SweepsDropped
<1>3. CASE ~Drops(r)
  <2>1. /\ Moves(r, "commit") /\ UNCHANGED table /\ OthersKeep(r)
        /\ \A y : y # "meetings" /\ y \notin Cascading("meetings") => Same(r, y)
    BY <1>1, <1>3, DeletionTouches
  <2>2. /\ Unlocked(r, "meetings")
        /\ Holds(r, "meetings")' /\ Deletes(r, "meetings")' /\ Marked(r, "meetings")'
    BY <1>1, <1>3, DeletionWrites
  <2>3. MayDelete(r, "meetings") /\ ~Referred(r, "meetings")
    <3>1. ~Fail(r)
      BY <1>1, <1>3, FailDrops
    <3> QED
      BY <1>1, <3>1 DEF DeleteOrFail
  <2>4. /\ Alone(r) /\ req'[r].op = "delete" /\ req'[r].at = "commit" /\ req'[r].saw = req[r].saw
    BY <1>1, <2>1 DEF Moves
  <2>5. \A y \in Tracked \ {"meetings"} : /\ Holds(r, y)' <=> Holds(r, y)
                                          /\ Deletes(r, y)' <=> Deletes(r, y)
                                          /\ Marked(r, y)' <=> Marked(r, y)
    BY <2>1, TrackedAre DEF Same, Holds, Deletes, Marked
  <2>6. Refs \subseteq Tracked \ {"meetings"} /\ "feeds" \in Tracked
    BY TrackedAre DEF Tracked
  <2>7. ASSUME NEW c \in Refs, c \in DOMAIN table PROVE Deletes(r, c)
    <3> SUFFICES ASSUME ~Deletes(r, c) PROVE FALSE
      OBVIOUS
    <3>1. ~Holds(r, c)
      BY <1>1 DEF SweepRequest, ChildRow
    <3>2. Exists(r, c) /\ Seen(r, c) = table[c]
      BY <2>7, <3>1 DEF Exists, Seen, Inserts
    <3> QED
      BY <2>3, <2>7, <3>2 DEF Referred, Refs, SweepRecords, RefsAreKept, Refers
  <2>8. \A c \in Refs : ChildRow(r, c)' /\ DeletedBy(r, c)'
    <3>1. \A c \in Refs : ~(Holds(r, c)' /\ ~Deletes(r, c)')
      BY <1>1, <2>5, <2>6 DEF SweepRequest, ChildRow
    <3> QED
      BY <2>4, <3>1 DEF ChildRow, DeletedBy
  <2>9. MeetingDeleter(r)'
    <3>1. \A c \in Refs, o \in Requests \ {r} : ~Holds(o, c) /\ ~Holds(o, c)'
      BY <2>1, <2>3 DEF MayDelete, Unlocked, Others, Refs, OthersKeep, Holds
    <3> QED
      BY <2>1, <2>4, <2>5, <2>6, <2>7, <3>1 DEF MeetingDeleter, Clears
  <2>10. FeedWriter(r)'
    <3>1. ~Deletes(r, "feeds")' /\ (Holds(r, "feeds")' => "feeds" \in DOMAIN table)
      BY <1>1, <2>5, <2>6, TrackedAre DEF SweepRequest, FeedWriter
    <3> QED
      BY <2>1, <3>1 DEF FeedWriter
  <2>11. Sweeping(r)'
    <3>1. \A c \in Refs : Deletes(r, c)' \/ c \notin DOMAIN table
      BY <2>5, <2>6, <2>7
    <3> QED
      BY <1>1, <2>1, <2>2, <2>4, <3>1 DEF SweepRequest, Sweeping, Lost
  <2>12. SweepRequest(r)'
    BY <1>1, <2>2, <2>4, <2>5, <2>8, <2>9, <2>10, <2>11 DEF SweepRequest
  <2>13. ASSUME NEW q \in Requests \ {r}, NEW c \in Refs
         PROVE  /\ Deletes(q, "meetings") => ~Holds(r, c)'
                /\ Deletes(q, "feeds") /\ c = "feed_runs" => ~Holds(r, c)'
    BY <2>5, <2>6, <2>13 DEF SweepRecords, SweepRequest, MeetingDeleter, FeedWriter, Clears
  <2>14. \A y \in Tracked : Unlocked(r, y) \/ (Holds(r, y)' => Holds(r, y))
    BY <2>2, <2>5
  <2> QED
    BY <2>1, <2>4, <2>12, <2>13, <2>14, SweepsHeld
<1> QED
  BY <1>2, <1>3

\* A feed goes with the runs that were read; another one stops it.
LEMMA FeedsKeepSweeps ==
    ASSUME SweepRecords, NEW r \in Requests, UNCHANGED mix, DeleteFeed(r)
    PROVE  SweepRecords'
<1>1. /\ ReqShape /\ WritesShape /\ SweepRequest(r) /\ req[r].op = "delete_feed"
  BY DEF SweepRecords, DeleteFeed, At
<1> DEFINE known == req[r].saw \cap {"feed_secrets", "feed_runs"}
           gone == [x \in {"feeds"} \cup (known \cap DOMAIN table) |-> Gone]
<1>2. CASE Fail(r)
  BY <1>1, <1>2, FailDrops, SweepsDropped
<1>3. CASE ~Fail(r)
  <2>1. /\ MayDelete(r, "feeds") /\ \A c \in Restricting("feeds") : Exists(r, c) => c \in known
        /\ writes' = [writes EXCEPT ![r] = Over(gone, @)] /\ Goto(r, "commit") /\ UNCHANGED table
    BY <1>3 DEF DeleteFeed
  <2>2. Alone(r) /\ req'[r].op = "delete_feed"
    BY <1>1, <2>1, GotoMoves DEF Moves
  <2>3. /\ DOMAIN gone \subseteq {"feeds", "feed_secrets", "feed_runs"}
        /\ "feeds" \in DOMAIN gone /\ DOMAIN gone \ {"feeds"} \subseteq DOMAIN table
        /\ "feed_runs" \in known \cap DOMAIN table => "feed_runs" \in DOMAIN gone
        /\ \A x \in DOMAIN gone : gone[x] = Gone
    OBVIOUS
  <2>4. /\ \A x \in {"feeds", "feed_runs"} : Unlocked(r, x)
        /\ Exists(r, "feed_runs") => "feed_runs" \in known
    BY <2>1, RefsAre DEF MayDelete
  <2> HIDE DEF gone
  <2>5. OthersKeep(r) /\ writes'[r] = Over(gone, writes[r])
    BY <1>1, <2>1 DEF OthersKeep, WritesShape
  <2>6. /\ \A x : x \notin DOMAIN gone => Same(r, x)
        /\ \A x \in DOMAIN gone : Holds(r, x)' /\ Deletes(r, x)' /\ Marked(r, x)'
    BY <2>3, <2>5 DEF Same, Over, Holds, Deletes, Marked, Gone
  <2>7. /\ Refs \subseteq Tracked /\ {"meetings", "feeds"} \subseteq Tracked /\ "feed_runs" \in Refs
        /\ "feed_secrets" \notin Tracked /\ "meetings" \notin Refs /\ "feeds" \notin Refs
    BY RefsAre, TrackedAre DEF Tracked
  <2>8. \A x : x \notin DOMAIN gone => /\ Holds(r, x)' <=> Holds(r, x)
                                       /\ Deletes(r, x)' <=> Deletes(r, x)
                                       /\ Marked(r, x)' <=> Marked(r, x)
                                       /\ Holds(r, x) => writes'[r][x] = writes[r][x]
    BY <2>6 DEF Same, Holds, Deletes, Marked
  <2>9. /\ ~Holds(r, "feed_runs") \/ Deletes(r, "feed_runs")
        /\ "feed_runs" \in DOMAIN table => Deletes(r, "feed_runs")'
        /\ ~Holds(r, "feed_runs")' \/ Deletes(r, "feed_runs")'
    <3>1. ~Holds(r, "feed_runs") \/ Deletes(r, "feed_runs")
      BY <1>1, <2>7 DEF SweepRequest, ChildRow
    <3> QED
      BY <2>3, <2>4, <2>6, <2>8, <3>1 DEF Exists
  <2>10. \A c \in Refs : ChildRow(r, c)' /\ DeletedBy(r, c)'
    <3>1. ChildRow(r, "feed_runs")' /\ DeletedBy(r, "feed_runs")'
      BY <2>2, <2>3, <2>6, <2>9 DEF ChildRow, DeletedBy
    <3>2. ASSUME NEW c \in Refs \ {"feed_runs"} PROVE c \notin DOMAIN gone
      BY <2>3, <2>7
    <3>3. ASSUME NEW c \in Refs \ {"feed_runs"} PROVE ChildRow(r, c)'
      BY <1>1, <2>1, <2>2, <2>8, <3>2 DEF SweepRequest, ChildRow
    <3>4. ASSUME NEW c \in Refs \ {"feed_runs"} PROVE DeletedBy(r, c)'
      BY <1>1, <2>2, <2>8, <3>2 DEF SweepRequest, DeletedBy
    <3> QED
      BY <3>1, <3>3, <3>4
  <2>11. MeetingDeleter(r)' /\ Sweeping(r)'
    <3>1. ~Deletes(r, "meetings")'
      BY <1>1, <2>3, <2>8 DEF SweepRequest, MeetingDeleter
    <3> QED
      BY <2>2, <3>1 DEF MeetingDeleter, Sweeping
  <2>12. FeedWriter(r)'
    <3>1. \A o \in Requests \ {r} : ~Holds(o, "feed_runs")'
      BY <2>4, <2>5 DEF Unlocked, Others, Holds, OthersKeep
    <3> QED
      BY <2>1, <2>2, <2>3, <2>6, <2>9, <3>1 DEF FeedWriter, Clears
  <2>13. SweepRequest(r)'
    BY <1>1, <2>2, <2>6, <2>8, <2>10, <2>11, <2>12 DEF SweepRequest
  <2>14. ASSUME NEW q \in Requests \ {r}, NEW c \in Refs, Holds(r, c)'
         PROVE  ~Deletes(q, "meetings") /\ (c = "feed_runs" => ~Deletes(q, "feeds"))
    <3>1. ~Deletes(q, "feeds") /\ ~Deletes(q, "feed_runs")
      BY <2>4 DEF Unlocked, Others, Deletes
    <3>2. CASE Holds(r, c)
      BY <3>1, <3>2 DEF SweepRecords, SweepRequest, MeetingDeleter, Clears
    <3>3. CASE ~Holds(r, c)
      <4>1. c = "feed_runs" /\ c \in DOMAIN table
        BY <2>3, <2>7, <2>8, <2>14, <3>3
      <4> QED
        BY <3>1, <4>1 DEF SweepRecords, SweepRequest, MeetingDeleter, Clears
    <3> QED
      BY <3>2, <3>3
  <2>15. \A y \in Tracked : Unlocked(r, y) \/ (Holds(r, y)' => Holds(r, y))
    BY <2>3, <2>4, <2>7, <2>8
  <2> QED
    BY <2>1, <2>2, <2>5, <2>13, <2>14, <2>15, SweepsHeld
<1> QED
  BY <1>2, <1>3

\* A commit makes what the request wrote the rows: who deletes a row leaves
\* none behind that refers to it, and none that a deletion saw comes back.
LEMMA SweepsCommitted ==
    ASSUME SweepRecords, RoomRecords, FeedsStayGone, mix \in Mixes, NEW r \in Requests, NEW next,
           CommitTo(r, next), Alone(r), UNCHANGED mix,
           req'[r].op = "none" \/ (req'[r].op = req[r].op /\ req[r].op # "delete"),
           req[r].op = "delete" => req[r].at = "commit"
    PROVE  SweepRecords'
<1>1. /\ OthersKeep(r) /\ DOMAIN writes'[r] = {}
      /\ \A x : /\ x \in DOMAIN table' <=> (x \in DOMAIN table \/ Holds(r, x)) /\ ~Deletes(r, x)
                /\ x \in DOMAIN table' => table'[x] = Seen(r, x)
  BY CommitRows DEF SweepRecords
<1>2. \A q \in Requests \ {r} : req'[q] = req[q] /\ writes'[q] = writes[q]
  BY <1>1 DEF Alone, OthersKeep
<1>3. \A x : ~Holds(r, x)' /\ ~Deletes(r, x)'
  BY <1>1 DEF Holds, Deletes
<1>4. \A q \in Requests \ {r} : \A x : /\ Holds(q, x)' <=> Holds(q, x)
                                       /\ Deletes(q, x)' <=> Deletes(q, x)
                                       /\ Marked(q, x)' <=> Marked(q, x)
  BY <1>2 DEF Holds, Deletes, Marked
<1>5. /\ SweepRequest(r) /\ Refs \subseteq Tracked /\ {"meetings", "feeds"} \subseteq Tracked
      /\ "feed_runs" \in Refs
  BY RefsAre DEF SweepRecords, Tracked
<1>6. "meetings" \in DOMAIN table' => "meetings" \in DOMAIN table
  BY <1>1 DEF RoomRecords, RoomRequest, MeetingWriter
<1>7. SweepRequest(r)'
  BY <1>1, <1>3, <1>5
     DEF SweepRequest, Marked, ChildRow, DeletedBy, MeetingDeleter, FeedWriter, Sweeping
<1>8. RefsAreKept'
  <2> SUFFICES ASSUME NEW c \in Refs, c \in DOMAIN table'
               PROVE  /\ Refers(table'[c], "meetings") /\ "meetings" \in DOMAIN table'
                      /\ c = "feed_runs" => "feeds" \in DOMAIN table'
    BY DEF RefsAreKept
  <2>1. ~Deletes(r, c) /\ table'[c] = Seen(r, c) /\ (c \in DOMAIN table \/ Holds(r, c))
    BY <1>1
  <2>2. Holds(r, c) => /\ Refers(writes[r][c], "meetings") /\ "meetings" \in DOMAIN table
                       /\ req[r].op # "delete"
                       /\ c = "feed_runs" => req[r].op = "trigger" /\ "feeds" \in DOMAIN table
    BY <1>5, <2>1 DEF SweepRequest, ChildRow
  <2>3. c \in DOMAIN table => /\ Refers(table[c], "meetings") /\ "meetings" \in DOMAIN table
                              /\ c = "feed_runs" => "feeds" \in DOMAIN table
    BY DEF SweepRecords, RefsAreKept
  <2>4. Refers(Seen(r, c), "meetings")
    <3>1. CASE Holds(r, c) /\ c \in DOMAIN table
      <4>1. Seen(r, c) = Over(writes[r][c], table[c])
        BY <3>1 DEF Seen, Inserts
      <4> DEFINE f == writes[r][c]
      <4>2. "refs" \in DOMAIN f /\ "meetings" \in f.refs /\ Seen(r, c) = Over(f, table[c])
        BY <2>2, <3>1, <4>1 DEF Refers
      <4> HIDE DEF f
      <4> QED
        BY <4>2 DEF Refers, Over
    <3>2. CASE Holds(r, c) /\ c \notin DOMAIN table
      BY <2>2, <3>2 DEF Seen, Inserts
    <3>3. CASE ~Holds(r, c)
      BY <2>1, <2>3, <3>3 DEF Seen, Inserts
    <3> QED
      BY <3>1, <3>2, <3>3
  <2>5. ~Deletes(r, "meetings")
    BY <1>5, <2>1, <2>2 DEF SweepRequest, MeetingDeleter, Clears
  <2>6. c = "feed_runs" => ~Deletes(r, "feeds")
    BY <1>5, <2>1, <2>2 DEF SweepRequest, FeedWriter, Clears
  <2> QED
    BY <1>1, <2>1, <2>2, <2>3, <2>4, <2>5, <2>6
<1>9. ASSUME NEW q \in Requests \ {r} PROVE SweepRequest(q)'
  <2>1. SweepRequest(q) /\ req'[q] = req[q] /\ writes'[q] = writes[q]
    BY <1>2 DEF SweepRecords
  <2>2. ASSUME NEW c \in Refs PROVE ChildRow(q, c)' /\ DeletedBy(q, c)'
    <3>1. Holds(q, c) => /\ ~Deletes(r, "meetings")
                         /\ c = "feed_runs" => ~Deletes(r, "feeds")
      BY <1>5, <1>9 DEF SweepRequest, MeetingDeleter, FeedWriter, Clears
    <3>2. ChildRow(q, c)'
      BY <1>1, <1>4, <2>1, <3>1 DEF SweepRequest, ChildRow
    <3>3. DeletedBy(q, c)'
      BY <1>4, <2>1 DEF SweepRequest, DeletedBy
    <3> QED
      BY <3>2, <3>3
  <2>3. \A S : Clears(q, S) => Clears(q, S)'
    <3> SUFFICES ASSUME NEW S, Clears(q, S), NEW c \in S
                 PROVE  /\ c \in DOMAIN table' => Deletes(q, c)'
                        /\ \A o \in Requests \ {q} : ~Holds(o, c)'
      BY DEF Clears
    <3> QED
      BY <1>1, <1>3, <1>4, <1>9 DEF Clears
  <2>4. MeetingDeleter(q)'
    BY <1>4, <2>1, <2>3 DEF SweepRequest, MeetingDeleter
  <2>5. FeedWriter(q)'
    <3>1. Deletes(q, "feeds")' => req'[q].op = "delete_feed" /\ Clears(q, {"feed_runs"})'
      BY <1>4, <2>1, <2>3 DEF SweepRequest, FeedWriter
    <3>2. Holds(q, "feeds") => ~Deletes(r, "feeds")
      BY <1>5, <1>9 DEF SweepRecords, Sole, Deletes
    <3> QED
      BY <1>1, <1>4, <2>1, <3>1, <3>2 DEF SweepRequest, FeedWriter
  <2>6. Sweeping(q)'
    <3> SUFFICES ASSUME req[q].op = "delete" PROVE Sweeping(q)'
      BY <2>1 DEF Sweeping
    <3>1. "delete" \in mix
      BY <2>1 DEF SweepRequest
    <3>2. ASSUME NEW c \in Refs, Lost(c) PROVE Lost(c)'
      <4>1. CASE "meetings" \notin DOMAIN table
        BY <1>6, <4>1 DEF Lost
      <4>2. CASE c = "feed_runs" /\ "feeds" \notin DOMAIN table /\ "delete_feed" \in mix
        <5>1. "create_feed" \notin mix
          BY <3>1, <4>2 DEF FeedsStayGone
        <5>2. ~(Holds(r, "feeds") /\ ~Deletes(r, "feeds"))
          BY <1>5, <4>2, <5>1 DEF SweepRequest, FeedWriter
        <5> QED
          BY <1>1, <4>2, <5>2 DEF Lost
      <4> QED
        BY <3>2, <4>1, <4>2 DEF Lost
    <3>3. ASSUME NEW c \in Refs, Deletes(r, c) PROVE Lost(c)'
      <4>1. CASE req[r].op = "delete"
        BY <1>1, <1>5, <4>1 DEF SweepRequest, Sweeping, Lost
      <4>2. CASE c = "feed_runs" /\ req[r].op = "delete_feed" /\ Deletes(r, "feeds")
        BY <1>1, <1>5, <4>2 DEF SweepRequest, Lost
      <4> QED
        BY <1>5, <3>3, <4>1, <4>2 DEF SweepRequest, DeletedBy
    <3>4. ASSUME NEW c \in Refs, Lost(c), c \notin DOMAIN table PROVE c \notin DOMAIN table'
      BY <1>1, <1>5, <3>4 DEF SweepRequest, ChildRow, Lost
    <3>5. \A c \in Refs \cap req[q].saw : c \in DOMAIN table' \/ Lost(c)'
      BY <1>1, <2>1, <3>2, <3>3 DEF SweepRequest, Sweeping
    <3>6. \A c \in Refs \cap req[q].saw \cap Swept(req[q].at) :
              Deletes(q, c)' \/ c \notin DOMAIN table'
      BY <1>4, <2>1, <3>4 DEF SweepRequest, Sweeping
    <3> QED
      BY <1>4, <2>1, <3>5, <3>6 DEF SweepRequest, Sweeping
  <2> QED
    BY <1>4, <2>1, <2>2, <2>4, <2>5, <2>6 DEF SweepRequest
<1>10. \A x \in Tracked : Sole(x)'
  BY <1>3, <1>4 DEF SweepRecords, Sole
<1> QED
  BY <1>1, <1>7, <1>8, <1>9, <1>10 DEF SweepRecords, Alone, OthersKeep

LEMMA RecordsKeepSweeps ==
    ASSUME SweepRecords, RoomRecords, FeedsStayGone, mix \in Mixes, UNCHANGED mix, RecordsNext
    PROVE  SweepRecords'
<1>1. ReqShape /\ WritesShape
  BY DEF SweepRecords
<1>2. CASE RecordsCrash
  <2>1. ReqShape' /\ WritesShape' /\ UNCHANGED table
        /\ \A q \in Requests : req'[q].op = "none" /\ DOMAIN writes'[q] = {}
    BY <1>2, DeathStopsAll, IdleFields DEF RecordsCrash, ServerDies, WritesShape, NoWrites
  <2>2. \A q \in Requests : \A x : ~Holds(q, x)' /\ ~Deletes(q, x)'
    BY <2>1 DEF Holds, Deletes
  <2>3. \A q \in Requests : SweepRequest(q)'
    BY <2>1, <2>2
       DEF SweepRequest, Marked, ChildRow, DeletedBy, MeetingDeleter, FeedWriter, Sweeping
  <2> QED
    BY <2>1, <2>2, <2>3 DEF SweepRecords, Sole, RefsAreKept
<1>3. ASSUME NEW r \in Requests, NEW op \in mix, Receive(r, op) PROVE SweepRecords'
  <2> DEFINE at == IF op = "delete" THEN Sweeps[1] ELSE "write"
  <2>1. Starts(r, op, at, DOMAIN table) /\ UNCHANGED <<table, writes>> /\ op \in RecordOps
    BY <1>1, <1>3, BeginStarts DEF Receive
  <2>2. Alone(r) /\ DOMAIN writes[r] = {} /\ OthersKeep(r) /\ req'[r].op = op
    BY <1>1, <2>1, IdleFields DEF Starts, SweepRecords, SweepRequest, OthersKeep, WritesShape
  <2>3. \A x : ~Holds(r, x)' /\ ~Deletes(r, x)'
    BY <2>1, <2>2 DEF Holds, Deletes
  <2>4. Sweeping(r)'
    <3> SUFFICES ASSUME op = "delete" PROVE Sweeping(r)'
      BY <2>2 DEF Sweeping
    <3>1. req'[r].at = "tasks" /\ req'[r].saw = DOMAIN table
      BY <2>1, SweepsDiffer DEF Starts
    <3> QED
      BY <2>1, <3>1, SweptFacts DEF Sweeping
  <2>5. SweepRequest(r)'
    BY <2>1, <2>2, <2>3, <2>4
       DEF SweepRequest, Marked, ChildRow, DeletedBy, MeetingDeleter, FeedWriter
  <2> QED
    BY <2>1, <2>2, <2>3, <2>5, SweepsHeld
<1>4. ASSUME NEW r \in Requests, StartCommits(r) PROVE SweepRecords'
  <2>1. /\ CommitTo(r, [req[r] EXCEPT !.at = "publish"]) /\ req[r].op = "start"
    BY <1>4 DEF StartCommits, At
  <2>2. Alone(r) /\ req'[r].op = "start"
    BY <1>1, <2>1 DEF CommitTo, Alone, ReqShape
  <2> QED
    BY <2>1, <2>2, SweepsCommitted
<1>5. ASSUME NEW r \in Requests, RecordsCommit(r) PROVE SweepRecords'
  <2>1. CommitTo(r, Idle) /\ req[r].at = "commit"
    BY <1>5 DEF RecordsCommit, Commit
  <2>2. Alone(r) /\ req'[r].op = "none"
    BY <1>1, <2>1, CommitStops, IdleFields DEF Stops
  <2> QED
    BY <2>1, <2>2, SweepsCommitted
<1>6. ASSUME NEW r \in Requests, RecordStep(r) PROVE SweepRecords'
  BY <1>4, <1>5, <1>6, StartsKeepSweeps, OthersKeepSweeps, DeletionsKeepSweeps,
     MeetingsKeepSweeps, FeedsKeepSweeps DEF RecordStep
<1> QED
  BY <1>2, <1>3, <1>6 DEF RecordsNext

SweepInv == RoomInv /\ mix \in Mixes /\ (Part = "records" => SweepRecords)

LEMMA SweepsBegin == ASSUME Init PROVE SweepInv
<1>1. RoomInv /\ mix \in Mixes
  BY RoomsBegin DEF Init
<1>2. ASSUME Part = "records" PROVE SweepRecords
  <2> DEFINE rows == [x \in Roots \cup InitialLeaves |-> NewRow(x)]
  <2>1. TransactionsInit(rows)
    BY <1>2, InitialParts DEF RecordsInit
  <2>2. "meetings" \in DOMAIN rows
    BY DEF Roots
  <2>3. \A c \in Refs \cap DOMAIN rows : rows[c] = NewRow(c) /\ Refers(rows[c], "meetings")
    BY RowsRefer
  <2>4. "feed_runs" \in DOMAIN rows => "feeds" \in DOMAIN rows
    <3>1. "feed_runs" \in DOMAIN rows => "feed_runs" \in Leaves
      BY DEF Roots, InitialLeaves
    <3>2. "feeds" \in Leaves
      BY DEF Leaves, Roots, Tables, Keys
    <3>3. "feed_runs" \in InitialLeaves => Leaves \subseteq InitialLeaves
      BY DEF InitialLeaves
    <3>4. "feed_runs" \notin Roots
      BY DEF Roots
    <3> QED
      BY <3>2, <3>3, <3>4
  <2> HIDE DEF rows
  <2>5. /\ ReqShape /\ WritesShape /\ table = rows
        /\ \A q \in Requests : req[q].op = "none" /\ DOMAIN writes[q] = {}
    BY <2>1, IdleFields DEF TransactionsInit, ReqShape, WritesShape, NoWrites, Idle
  <2>6. \A q \in Requests : \A x : ~Holds(q, x) /\ ~Deletes(q, x)
    BY <2>5 DEF Holds, Deletes
  <2>7. \A q \in Requests : SweepRequest(q)
    BY <2>5, <2>6
       DEF SweepRequest, Marked, ChildRow, DeletedBy, MeetingDeleter, FeedWriter, Sweeping
  <2>8. RefsAreKept
    BY <2>2, <2>3, <2>4, <2>5 DEF RefsAreKept
  <2> QED
    BY <2>5, <2>6, <2>7, <2>8 DEF SweepRecords, Sole
<1> QED
  BY <1>1, <1>2 DEF SweepInv

LEMMA SweepsStay == ASSUME FeedsStayGone, SweepInv, [Next]_vars PROVE SweepInv'
<1>1. RoomInv' /\ mix' = mix /\ Part' = Part
  BY RoomsStay, Parting DEF SweepInv
<1>2. ASSUME Part = "records" PROVE SweepRecords'
  <2>1. ASSUME UNCHANGED vars PROVE SweepRecords'
    <3>1. UNCHANGED <<table, writes, req, mix>> /\ SweepRecords
      BY <1>2, <2>1 DEF vars, dbVars, SweepInv
    <3>2. \A q, x : /\ Holds(q, x)' <=> Holds(q, x)
                    /\ Deletes(q, x)' <=> Deletes(q, x)
                    /\ Marked(q, x)' <=> Marked(q, x)
      BY <3>1 DEF Holds, Deletes, Marked
    <3>3. ReqShape' /\ WritesShape' /\ RefsAreKept' /\ \A x \in Tracked : Sole(x)'
      BY <3>1, <3>2 DEF SweepRecords, ReqShape, WritesShape, RefsAreKept, Sole
    <3>4. ASSUME NEW q \in Requests PROVE SweepRequest(q)'
      <4>1. SweepRequest(q)
        BY <3>1 DEF SweepRecords
      <4>2. \A c \in Refs : ChildRow(q, c)' /\ DeletedBy(q, c)'
        BY <3>1, <3>2, <4>1 DEF SweepRequest, ChildRow, DeletedBy
      <4>3. MeetingDeleter(q)' /\ FeedWriter(q)'
        BY <3>1, <3>2, <4>1 DEF SweepRequest, MeetingDeleter, FeedWriter, Clears
      <4>4. Sweeping(q)'
        BY <3>1, <3>2, <4>1 DEF SweepRequest, Sweeping, Lost
      <4> QED
        BY <3>1, <3>2, <4>1, <4>2, <4>3, <4>4 DEF SweepRequest
    <3> QED
      BY <3>3, <3>4 DEF SweepRecords
  <2>2. ASSUME RecordsNext PROVE SweepRecords'
    BY <1>1, <1>2, <2>2, RecordsKeepSweeps DEF SweepInv, RoomInv
  <2> QED
    BY <1>2, <2>1, <2>2, Parting
<1> QED
  BY <1>1, <1>2 DEF SweepInv

\* No row that was there when a deletion began keeps the meeting from being
\* deleted, for any number of requests (delete_meeting): its statements leave
\* out no table that refers to meetings.  One row stands for a table, so that
\* a feed created anew could not be told from the one that was deleted, whose
\* runs are gone: the mixes that delete both create no feed.
THEOREM DeletionsAreComplete ==
    ASSUME FeedsStayGone
    PROVE  Spec => []DeletionsSweep
<1>1. ASSUME SweepInv PROVE DeletionsSweep
  <2> SUFFICES ASSUME NEW r \in Requests, At(r, "delete", "meetings"),
                      NEW c \in Refs \cap req[r].saw
               PROVE  ~Exists(r, c)
    BY DEF DeletionsSweep, Refs
  <2>1. SweepRequest(r) /\ req[r].op = "delete" /\ req[r].at = "meetings"
    <3>1. "delete" \in RecordOps
      BY DEF RecordOps, Needs
    <3> QED
      BY <1>1, <3>1 DEF SweepInv, RoomInv, NoRecords, At, SweepRecords
  <2>2. Deletes(r, c) \/ c \notin DOMAIN table
    BY <2>1, SweptFacts DEF SweepRequest, Sweeping
  <2>3. ~(Holds(r, c) /\ ~Deletes(r, c))
    BY <2>1 DEF SweepRequest, ChildRow
  <2> QED
    BY <2>2, <2>3 DEF Exists
<1> QED
  BY <1>1, SweepsBegin, SweepsStay, PTL DEF Spec
=============================================================================
