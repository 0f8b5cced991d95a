----------------------------- MODULE RateLimiter -----------------------------
(***************************************************************************)
(* mcp_server/security/rate_limit.py: the calls of one agent to one tool,   *)
(* counted in a sorted set in Redis that all server processes share.  A     *)
(* caller takes the time first and sends one transaction then: it drops     *)
(* what is older than the window, adds the call and counts.  Times are      *)
(* fine enough that no two calls take the same.                             *)
(***************************************************************************)
EXTENDS Naturals, FiniteSets

CONSTANTS MaxRequests,  \* calls let through per window
          Window,       \* window_seconds, in ticks
          Delay,        \* ticks a transaction may take to reach Redis
          MaxTime       \* bound on the clock
ASSUME LimiterAssumption ==
    /\ MaxRequests \in Nat /\ MaxTime \in Nat
    /\ Window \in Nat /\ Delay \in 0 .. Window

VARIABLES clock,
          counted,  \* the members of the sorted set: score and which of that score
          expires,  \* when Redis drops the key
          passed    \* calls let through by count: when, and as which member
limiterVars == <<clock, counted, expires, passed>>

Times == 0 .. MaxTime
Members == Nat \X (1 .. MaxRequests + 1)

LimiterInit == clock = 0 /\ expires = 0 /\ counted = {} /\ passed = {}

\* What a transaction leaves in the sorted set whose caller took the time now.
Kept(now) == IF clock >= expires THEN {} ELSE {m \in counted : m[1] + Window > now}
\* The members the call may be.  More than MaxRequests + 1 of one time are
\* not told apart.
Free(now) == {m \in {now} \X (1 .. MaxRequests + 1) : m \notin Kept(now)}
ThisCall(now) == CHOOSE m \in Free(now) : TRUE
WithCall(now) == IF Free(now) = {} THEN Kept(now) ELSE Kept(now) \cup {ThisCall(now)}
LetThrough(now) == passed \cup {[at |-> clock, call |-> ThisCall(now)]}

\* Mutant: the set is counted in front of the call that is added.
CheckCountsFirst(now, allowed) ==
    /\ allowed = (Cardinality(WithCall(now)) <= MaxRequests + 1)
    /\ counted' = WithCall(now)
    /\ expires' = clock + Window + 1
    /\ passed' = IF allowed THEN LetThrough(now) ELSE passed
    /\ UNCHANGED clock

\* A refused call has been added too.
Check(now, allowed) ==
    /\ allowed = (Cardinality(WithCall(now)) <= MaxRequests)
    /\ counted' = WithCall(now)
    /\ expires' = clock + Window + 1
    /\ passed' = IF allowed THEN LetThrough(now) ELSE passed
    /\ UNCHANGED clock

Tick ==
    /\ clock < MaxTime
    /\ clock' = clock + 1
    /\ UNCHANGED <<counted, expires, passed>>

\* However many processes serve the agent, at most MaxRequests of its calls
\* pass in any time that is shorter than the window by what a transaction
\* may be late (RedisRateLimiter.check).
RateIsBounded ==
    \A t \in Times :
        Cardinality({p \in passed : t <= p.at /\ p.at + Delay < t + Window}) <= MaxRequests
=============================================================================
