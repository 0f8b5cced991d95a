------------------------------ MODULE Accounts ------------------------------
(***************************************************************************)
(* The account handlers of the API server: routes/auth.py with its counters *)
(* in Redis and its mails, routes/agents.py, agent_keys.py and token.py.    *)
(*                                                                         *)
(* One account (the row of users), one agent and one key.  A counter is    *)
(* incremented in one round trip and given its time to live in another;    *)
(* counters of the rate limits saturate one above their limit, since the   *)
(* code compares them with nothing else.  A mail leaves while the row that *)
(* holds its token is flushed but not committed.                           *)
(***************************************************************************)
EXTENDS Transactions, Integers

CONSTANTS RateLimit,  \* max_requests of the two rate limits
          Threshold,  \* _LOCKOUT_THRESHOLD
          MaxTokens   \* bound on tokens made up

ASSUME AccountsAssumption ==
    RateLimit \in Nat \ {0} /\ Threshold \in Nat \ {0} /\ MaxTokens \in Nat

VARIABLES redis,   \* counter -> [n, ttl]: its value (0: no key), does it expire
          mailed,  \* kind of link -> [token, sure]: the last mail sent; sure: the
                   \* request that sent it has not been lost before its commit
          minted,  \* secrets.token_urlsafe: tokens made up so far
          bucket   \* is an avatar in the object store?
accountVars == <<redis, mailed, minted, bucket>>

Limits == [ register |-> "rate:register:ip", login |-> "rate:login:ip",
            forgot |-> "rate:forgot:email", resend |-> "rate:resend:email" ]
Counters == {Limits[op] : op \in DOMAIN Limits} \cup {"login_failures"}
Links == {"reset", "verify"}
Users == {x \in {"users"} : x \in DOMAIN table}
User == table["users"]

AccountsInit ==
    /\ redis = [k \in Counters |-> [n |-> 0, ttl |-> FALSE]]
    /\ mailed = [l \in Links |-> [token |-> None, sure |-> FALSE]]
    /\ minted = 0
    /\ bucket = FALSE

-----------------------------------------------------------------------------
\* Redis

Increment(k, cap) ==
    redis' = [redis EXCEPT ![k].n = IF @ < cap THEN @ + 1 ELSE @]
Expire(k) == redis' = [redis EXCEPT ![k].ttl = redis[k].n > 0]
KeyExpires ==
    /\ \E k \in Counters : redis[k].ttl /\ redis' = [redis EXCEPT ![k] = [n |-> 0, ttl |-> FALSE]]
    /\ UNCHANGED <<dbVars, mailed, minted, bucket>>

\* _check_ip_rate_limit and _check_email_rate_limit, in front of four handlers.
CheckRateLimit(r) ==
    /\ req[r].at = "limit"
    /\ LET k == Limits[req[r].op] IN
       /\ Increment(k, RateLimit + 1)
       /\ IF redis'[k].n > RateLimit THEN Fail(r)
          ELSE Goto(r, IF redis'[k].n = 1 THEN "limit ttl" ELSE "work")
               /\ UNCHANGED <<table, writes>>
    /\ UNCHANGED <<mailed, minted, bucket>>
LimitExpires(r) ==
    /\ req[r].at = "limit ttl"
    /\ Expire(Limits[req[r].op])
    /\ Goto(r, "work")
    /\ UNCHANGED <<table, writes, mailed, minted, bucket>>

-----------------------------------------------------------------------------
\* Registration and login

Mint == minted' = minted + 1
NewUser(token) ==
    Row("users", [ password |-> "first", name |-> "first", avatar |-> FALSE,
                   verified |-> FALSE, verify |-> token, reset |-> None ])

Register(r) ==
    /\ At(r, "register", "work")
    /\ IF Exists(r, "users") THEN Fail(r)
       ELSE Goto(r, "insert") /\ UNCHANGED <<table, writes>>
    /\ UNCHANGED accountVars
RegisterInserts(r) ==
    /\ At(r, "register", "insert")
    /\ MayInsert(r, "users")
    /\ \/ /\ Mint
          /\ Insert(r, "users", NewUser(minted'))
          /\ Goto(r, "mail")
          /\ UNCHANGED table
       \/ Violates(r, "users", NewUser(None)) /\ Fail(r) /\ UNCHANGED minted
    /\ UNCHANGED <<redis, mailed, bucket>>

\* Mutant: the counter of failures is not read.
CheckNothing(r) == At(r, "login", "work") /\ Goto(r, "verify") /\ UNCHANGED <<table, writes, accountVars>>
CheckLockout(r) ==
    /\ At(r, "login", "work")
    /\ IF redis["login_failures"].n >= Threshold THEN Fail(r)
       ELSE Goto(r, "verify") /\ UNCHANGED <<table, writes>>
    /\ UNCHANGED accountVars
VerifyPassword(r) ==
    /\ At(r, "login", "verify")
    /\ \E password \in {"first", "second"} :
           Goto(r, IF Users # {} /\ User.password = password THEN "clear" ELSE "failed")
    /\ UNCHANGED <<table, writes, accountVars>>
ClearFailedLogins(r) ==
    /\ At(r, "login", "clear")
    /\ redis' = [redis EXCEPT !["login_failures"] = [n |-> 0, ttl |-> FALSE]]
    /\ Goto(r, "commit")
    /\ UNCHANGED <<table, writes, mailed, minted, bucket>>
RecordFailedLogin(r) ==
    /\ At(r, "login", "failed")
    /\ Increment("login_failures", Threshold + 100)
    /\ IF redis'["login_failures"].n = 1
       THEN Goto(r, "failed ttl") /\ UNCHANGED <<table, writes>>
       ELSE Fail(r)
    /\ UNCHANGED <<mailed, minted, bucket>>
FailuresExpire(r) ==
    /\ At(r, "login", "failed ttl")
    /\ Expire("login_failures")
    /\ Fail(r)
    /\ UNCHANGED <<mailed, minted, bucket>>

-----------------------------------------------------------------------------
\* Links by mail.  The handler awaits the mail server: when it refuses, the
\* request fails and its token is rolled back.

ForgotPassword(r) ==
    /\ At(r, "forgot", "work")
    /\ IF Users = {} THEN Goto(r, "commit") /\ UNCHANGED <<table, writes, minted>>
       ELSE /\ Mint
            /\ Update(r, "users", [reset |-> minted'])
            /\ Goto(r, "mail")
            /\ UNCHANGED table
    /\ UNCHANGED <<redis, mailed, bucket>>
ResendVerification(r) ==
    /\ At(r, "resend", "work")
    /\ Mint
    /\ Update(r, "users", [verify |-> minted'])
    /\ Goto(r, "mail")
    /\ UNCHANGED <<table, redis, mailed, bucket>>

LinkOf(r) == IF req[r].op = "forgot" THEN "reset" ELSE "verify"
\* Mutant: what follows the mail may fail.
SendAndMayFail(r) ==
    /\ req[r].at = "mail"
    /\ mailed' = [mailed EXCEPT ![LinkOf(r)] =
                     [token |-> Seen(r, "users")[LinkOf(r)], sure |-> TRUE]]
    /\ Fail(r) \/ (Goto(r, "commit") /\ UNCHANGED <<table, writes>>)
    /\ UNCHANGED <<redis, minted, bucket>>
SendEmail(r) ==
    /\ req[r].at = "mail"
    /\ mailed' = [mailed EXCEPT ![LinkOf(r)] =
                     [token |-> Seen(r, "users")[LinkOf(r)], sure |-> TRUE]]
    /\ Goto(r, "commit")
    /\ UNCHANGED <<table, writes, redis, minted, bucket>>
\* The mail server refuses, or its answer is lost and the mail is not.
MailFails(r) ==
    /\ req[r].at = "mail"
    /\ mailed' \in {mailed, [mailed EXCEPT ![LinkOf(r)] =
                               [token |-> Seen(r, "users")[LinkOf(r)], sure |-> FALSE]]}
    /\ Fail(r)
    /\ UNCHANGED <<redis, minted, bucket>>

\* reset_password and verify_email find the row by its token and write it by
\* its key: the token they erase may be a newer one.
FollowLink(r) ==
    /\ Users # {}
    /\ \E link \in Links : User[link] # None /\ Begin(r, link, "write", None)
    /\ UNCHANGED <<table, writes, accountVars>>
ResetPassword(r) ==
    /\ At(r, "reset", "write")
    /\ Update(r, "users", [password |-> "second", reset |-> None])
    /\ Goto(r, "commit")
    /\ UNCHANGED <<table, accountVars>>
VerifyEmail(r) ==
    /\ At(r, "verify", "write")
    /\ Update(r, "users", [verified |-> TRUE, verify |-> None])
    /\ Goto(r, "commit")
    /\ UNCHANGED <<table, accountVars>>

-----------------------------------------------------------------------------
\* Profile, password and avatar

UpdateProfile(r) ==
    /\ At(r, "profile", "write")
    /\ Update(r, "users", [name |-> "second"])
    /\ Goto(r, "commit")
    /\ UNCHANGED <<table, accountVars>>
ChangePassword(r) ==
    /\ At(r, "password", "write")
    /\ \E old, new \in {"first", "second"} :
           IF req[r].saw # old THEN Fail(r)
           ELSE /\ Update(r, "users", [password |-> new])
                /\ Goto(r, "commit")
                /\ UNCHANGED table
    /\ UNCHANGED accountVars

\* The object is stored before the row says so.
UploadAvatar(r) ==
    /\ At(r, "upload", "write")
    /\ bucket' = TRUE
    /\ Goto(r, "link")
    /\ UNCHANGED <<table, writes, redis, mailed, minted>>
LinkAvatar(r) ==
    /\ At(r, "upload", "link")
    /\ Update(r, "users", [avatar |-> TRUE])
    /\ Goto(r, "commit")
    /\ UNCHANGED <<table, accountVars>>
\* The key deleted lacks the extension the upload gave it: the object stays.
DeleteAvatar(r) ==
    /\ At(r, "unlink", "write")
    /\ Update(r, "users", [avatar |-> FALSE])
    /\ Goto(r, "commit")
    /\ UNCHANGED <<table, accountVars>>

-----------------------------------------------------------------------------
\* Agents and their keys

CreateAgent(r) ==
    /\ At(r, "create_agent", "write")
    /\ AddOrFail(r, "agent_configs", Row("agent_configs", <<>>), "commit")
    /\ UNCHANGED accountVars
\* The keys of an agent, revoked ones too, stop its deletion.
DeleteAgent(r) ==
    /\ At(r, "delete_agent", "write")
    /\ DeleteOrFail(r, "agent_configs", "commit")
    /\ UNCHANGED accountVars
CreateKey(r) ==
    /\ At(r, "create_key", "write")
    /\ AddOrFail(r, "agent_api_keys", Row("agent_api_keys", [revoked |-> FALSE]), "commit")
    /\ UNCHANGED accountVars
RevokeKey(r) ==
    /\ At(r, "revoke_key", "write")
    /\ UpdateOrFail(r, "agent_api_keys", [revoked |-> TRUE], "commit")
    /\ UNCHANGED accountVars
\* POST /token/gateway and /token/mcp: the key must be live and its agent there.
ExchangeKey(r) ==
    /\ At(r, "exchange", "write")
    /\ IF "agent_configs" \in DOMAIN table THEN Goto(r, "commit") /\ UNCHANGED <<table, writes>>
       ELSE Fail(r)
    /\ UNCHANGED accountVars

-----------------------------------------------------------------------------
\* A request arrives: what its dependencies and first reads let through.

NeedsUser == {"resend", "profile", "password", "upload", "unlink", "create_agent",
              "delete_agent", "create_key", "revoke_key"}
NeedsRow == [ delete_agent |-> "agent_configs", create_key |-> "agent_configs",
              revoke_key |-> "agent_api_keys", exchange |-> "agent_api_keys" ]
AccountOps == NeedsUser \cup {"register", "login", "forgot", "exchange"}

\* Requests that make a token start while there are tokens left (MaxTokens).
MakesToken == {"register", "forgot", "resend"}
TokensLeft == minted + Cardinality({q \in Requests : req[q].op \in MakesToken}) < MaxTokens

Arrive(r, op) ==
    /\ op \in MakesToken => TokensLeft
    /\ op \in NeedsUser => Users # {}
    /\ op = "resend" => ~User.verified
    /\ op \in DOMAIN NeedsRow => NeedsRow[op] \in DOMAIN table
    /\ op = "exchange" => ~table["agent_api_keys"].revoked
    /\ Begin(r, op, IF op \in DOMAIN Limits THEN "limit" ELSE "write",
             IF op = "password" THEN User.password ELSE None)
    /\ UNCHANGED <<table, writes, accountVars>>

AccountCommits(r) == Commit(r) /\ UNCHANGED accountVars

\* A mail whose request died before its commit leads nowhere.
AccountsCrash ==
    /\ ServerDies
    /\ mailed' = [l \in Links |-> [mailed[l] EXCEPT !.sure = FALSE]]
    /\ UNCHANGED <<redis, minted, bucket>>

AccountStep(r) ==
    \/ CheckRateLimit(r) \/ LimitExpires(r) \/ Register(r) \/ RegisterInserts(r)
    \/ CheckLockout(r) \/ VerifyPassword(r) \/ ClearFailedLogins(r)
    \/ RecordFailedLogin(r) \/ FailuresExpire(r)
    \/ ForgotPassword(r) \/ ResendVerification(r) \/ SendEmail(r) \/ MailFails(r)
    \/ ResetPassword(r) \/ VerifyEmail(r) \/ UpdateProfile(r) \/ ChangePassword(r)
    \/ UploadAvatar(r) \/ LinkAvatar(r) \/ DeleteAvatar(r)
    \/ CreateAgent(r) \/ DeleteAgent(r) \/ CreateKey(r) \/ RevokeKey(r) \/ ExchangeKey(r)
    \/ AccountCommits(r)
-----------------------------------------------------------------------------
AccountsTypeOK ==
    /\ \A k \in Counters : redis[k].n \in Nat /\ (redis[k].ttl => redis[k].n > 0)
    /\ \A l \in Links : mailed[l].token \in {None} \cup 1 .. minted
    /\ minted \in 0 .. MaxTokens
    /\ bucket \in BOOLEAN

\* Between two expiries no more passwords are refused than the threshold lets
\* through plus those already past the check of the counter: login reads it
\* in one round trip and increments it in a later one (routes/auth.py).
BoundedGuesses ==
    redis["login_failures"].n <= Threshold - 1 + Cardinality(Requests)

\* The link in the last mail works until it is used: once no request holds
\* the account's row, its token is the one mailed last.  Two requests may
\* send links at once, and others write the same row with what they read
\* before; the mail leaves under the row's lock, so mails are in the order of
\* the commits (forgot_password, resend_verification, get_db_session).
LastMailWorks ==
    \A l \in Links :
        (mailed[l].sure /\ Users # {} /\ \A r \in Requests : ~Holds(r, "users"))
        => User[l] \in {None, mailed[l].token}
=============================================================================
