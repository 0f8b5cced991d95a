------------------------- MODULE ManagedAgentsProofs -------------------------
(***************************************************************************)
(* Proofs about ManagedAgents, for any templates, warms, events and        *)
(* failures.                                                               *)
(***************************************************************************)
EXTENDS ManagedAgents, TLAPS

RelayHands == [busy : BOOLEAN, open : SUBSET Sessions, closed : SUBSET Sessions]
TickHands == [step : {"sleeping", "acting"}, crowded : BOOLEAN,
              listed : SUBSET Sessions, ending : SUBSET Sessions]

AgentTypes ==
  /\ present \in BOOLEAN
  /\ warm \in [Templates -> {"none", "starting", "prepping", "publishing"}]
  /\ count \in [Templates -> 0..MaxWarms]
  /\ status \in [Sessions -> {"none", "active", "failed", "stopped"}]
  /\ remote \in [Sessions -> {"none", "open", "told", "ended"}]
  /\ usage \in [Sessions -> Nat]
  /\ relay \in RelayHands
  /\ tick \in TickHands
  /\ \A t \in Templates : warm[t] # "none" => count[t] > 0

(* The sessions a warm has still to begin, or is opening.                  *)
Unborn(s) ==
  \/ s[2] > count[s[1]]
  \/ s[2] = count[s[1]] /\ warm[s[1]] \in {"starting", "prepping"}

(* They have no row yet; what relay and reconciler hold they have seen     *)
(* active; and what they are about to commit as stopped they have ended.   *)
HandsInv ==
  /\ \A s \in Sessions : Unborn(s) => status[s] = "none"
  /\ \A s \in relay.open \cup relay.closed \cup tick.listed \cup tick.ending :
       status[s] \in {"active", "stopped"}
  /\ \A s \in relay.closed \cup tick.ending : remote[s] = "ended"

SettledInv == AgentTypes /\ HandsInv /\ StoppedIsSettled

(* Both hold nothing to begin with.                                        *)
LEMMA EmptyHands ==
  /\ NoRelay \in RelayHands /\ NoRelay.open = {} /\ NoRelay.closed = {}
  /\ NoTick \in TickHands /\ NoTick.listed = {} /\ NoTick.ending = {}
BY DEF NoRelay, NoTick, RelayHands, TickHands

(* They may let go of what they hold.                                      *)
LEMMA LettingGo ==
  ASSUME tick \in TickHands, tick' \in {tick, NoTick, [tick EXCEPT !.ending = {}]}
           \/ \E s \in Sessions : tick' = [tick EXCEPT !.listed = @ \ {s}]
  PROVE  /\ tick' \in TickHands
         /\ tick'.listed \subseteq tick.listed /\ tick'.ending \subseteq tick.ending
<1>1. CASE tick' = tick \/ tick' = NoTick
  BY <1>1, EmptyHands
<1>2. CASE tick' = [tick EXCEPT !.ending = {}]
  <2>1. tick'.listed = tick.listed /\ tick'.ending = {} /\ tick'.step = tick.step
        /\ tick'.crowded = tick.crowded
    BY <1>2 DEF TickHands
  <2> QED
    BY <1>2, <2>1 DEF TickHands
<1>3. ASSUME NEW s \in Sessions, tick' = [tick EXCEPT !.listed = @ \ {s}]
      PROVE  /\ tick' \in TickHands
             /\ tick'.listed \subseteq tick.listed /\ tick'.ending \subseteq tick.ending
  BY <1>3 DEF TickHands
<1> QED
  BY <1>1, <1>2, <1>3

(* A session with a warm at work is one of Sessions.                       *)
LEMMA CurrentIsSession ==
  ASSUME AgentTypes, NEW t \in Templates, warm[t] # "none"
  PROVE  Current(t) \in Sessions /\ Current(t)[1] = t /\ Current(t)[2] = count[t]
<1>1. count[t] \in 1..MaxWarms
  BY MAAssumption DEF AgentTypes
<1> QED
  BY <1>1 DEF Current, Sessions

(* A warm that is spawned takes a number that no row has yet.              *)
LEMMA SpawnKeeps ==
  ASSUME SettledInv, NEW ts, Spawn(ts),
         UNCHANGED <<present, status, remote, usage, relay>>,
         tick' \in {tick, NoTick}
  PROVE  SettledInv'
<1> DEFINE new == {t \in ts : warm[t] = "none" /\ count[t] < MaxWarms}
<1>1. /\ warm' = [t \in Templates |-> IF t \in new THEN "starting" ELSE warm[t]]
      /\ count' = [t \in Templates |-> count[t] + IF t \in new THEN 1 ELSE 0]
  BY DEF Spawn
<1>2. \A t \in Templates : count[t] \in Nat /\ count'[t] \in 0..MaxWarms /\ count[t] <= count'[t]
  BY <1>1, MAAssumption DEF SettledInv, AgentTypes
<1>3. tick' \in TickHands
      /\ tick'.listed \subseteq tick.listed /\ tick'.ending \subseteq tick.ending
  BY LettingGo DEF SettledInv, AgentTypes
<1>4. \A t \in Templates : warm'[t] # "none" => count'[t] > 0
  BY <1>1, <1>2 DEF SettledInv, AgentTypes
<1>5. AgentTypes'
  BY <1>1, <1>2, <1>3, <1>4 DEF SettledInv, AgentTypes
<1>6. ASSUME NEW s \in Sessions, Unborn(s)' PROVE status[s] = "none"
  <2>1. s[1] \in Templates /\ s[2] \in Nat
    BY DEF Sessions
  <2>2. Unborn(s)
    BY <1>1, <1>2, <1>6, <2>1 DEF Unborn, SettledInv, AgentTypes
  <2> QED
    BY <2>2 DEF SettledInv, HandsInv
<1>7. HandsInv'
  BY <1>3, <1>6 DEF SettledInv, HandsInv
<1> QED
  BY <1>5, <1>7 DEF SettledInv, StoppedIsSettled

(* A row that is not being born is committed as stopped with its usage.    *)
LEMMA StoppedKeeps ==
  ASSUME SettledInv, NEW ss \in SUBSET Sessions, Stopped(ss),
         \A s \in ss : status[s] \in {"active", "stopped"} /\ remote[s] = "ended",
         UNCHANGED <<present, warm, count, remote>>,
         relay' \in RelayHands,
         relay'.open \subseteq relay.open /\ relay'.closed \subseteq relay.closed,
         tick' \in TickHands,
         tick'.listed \subseteq tick.listed /\ tick'.ending \subseteq tick.ending
  PROVE  SettledInv'
<1>1. /\ status' = [s \in Sessions |-> IF s \in ss THEN "stopped" ELSE status[s]]
      /\ usage' = [s \in Sessions |-> usage[s] + IF s \in ss THEN 1 ELSE 0]
  BY DEF Stopped
<1>2. AgentTypes'
  BY <1>1 DEF SettledInv, AgentTypes
<1>3. ASSUME NEW s \in Sessions, Unborn(s)' PROVE status'[s] = "none"
  <2>1. Unborn(s)
    BY <1>3 DEF Unborn
  <2> QED
    BY <1>1, <2>1 DEF SettledInv, HandsInv
<1>4. \A s \in Sessions : status[s] \in {"active", "stopped"} => status'[s] \in {"active", "stopped"}
  BY <1>1
<1>5. relay.open \cup relay.closed \cup tick.listed \cup tick.ending \subseteq Sessions
  BY DEF SettledInv, AgentTypes, RelayHands, TickHands
<1>6. HandsInv'
  BY <1>3, <1>4, <1>5 DEF SettledInv, HandsInv
<1>7. \A s \in Sessions : usage[s] \in Nat /\ usage'[s] = usage[s] + IF s \in ss THEN 1 ELSE 0
  BY <1>1 DEF SettledInv, AgentTypes
<1>8. StoppedIsSettled'
  BY <1>1, <1>7 DEF SettledInv, StoppedIsSettled
<1> QED
  BY <1>2, <1>6, <1>8 DEF SettledInv

(* Dropping what is held, or the warms, harms nothing.                     *)
LEMMA DroppingKeeps ==
  ASSUME SettledInv, present' \in BOOLEAN, UNCHANGED <<count, status, remote, usage>>,
         warm' \in {warm, [t \in Templates |-> "none"]},
         relay' \in {relay, NoRelay},
         \/ tick' \in {tick, NoTick}
         \/ tick' = [tick EXCEPT !.ending = {}]
         \/ \E s \in Sessions : tick' = [tick EXCEPT !.listed = @ \ {s}]
  PROVE  SettledInv'
<1>1. /\ relay' \in RelayHands
      /\ relay'.open \subseteq relay.open /\ relay'.closed \subseteq relay.closed
  BY EmptyHands DEF SettledInv, AgentTypes
<1>2. /\ tick' \in TickHands
      /\ tick'.listed \subseteq tick.listed /\ tick'.ending \subseteq tick.ending
  BY LettingGo DEF SettledInv, AgentTypes
<1>3. AgentTypes'
  BY <1>1, <1>2 DEF SettledInv, AgentTypes
<1>4. \A s \in Sessions : Unborn(s)' => Unborn(s)
  <2> SUFFICES ASSUME NEW s \in Sessions, Unborn(s)' PROVE Unborn(s)
    OBVIOUS
  <2>1. s[1] \in Templates
    BY DEF Sessions
  <2> QED
    BY <2>1 DEF Unborn
<1>5. HandsInv'
  BY <1>1, <1>2, <1>4 DEF SettledInv, HandsInv
<1> QED
  BY <1>3, <1>5 DEF SettledInv, StoppedIsSettled

-----------------------------------------------------------------------------
LEMMA WarmKeeps ==
  ASSUME SettledInv, NEW t \in Templates, WarmNext(t)
  PROVE  SettledInv'
<1>1. warm[t] # "none"
  BY DEF WarmNext, RemoteOpens, WarmCommits, WarmFails, WarmEnds
<1>2. Current(t) \in Sessions /\ Current(t)[1] = t /\ Current(t)[2] = count[t]
  BY <1>1, CurrentIsSession DEF SettledInv
<1>3. \A s \in Sessions : s[1] = t /\ s[2] = count[t] => s = Current(t)
  BY DEF Sessions, Current
<1>4. warm[t] \in {"starting", "prepping"} => status[Current(t)] = "none"
  BY <1>2 DEF Unborn, SettledInv, HandsInv
<1>5. \A s \in Sessions : s[1] \in Templates
  BY DEF Sessions
<1>6. CASE RemoteOpens(t)
  <2>1. /\ warm' = [warm EXCEPT ![t] = "prepping"] /\ warm[t] = "starting"
        /\ remote' = [remote EXCEPT ![Current(t)] = "open"]
        /\ UNCHANGED <<present, count, status, usage, relay, tick>>
    BY <1>6 DEF RemoteOpens
  <2>2. AgentTypes'
    BY <1>1, <1>2, <2>1 DEF SettledInv, AgentTypes
  <2>3. \A s \in Sessions : Unborn(s)' => Unborn(s)
    BY <1>5, <2>1 DEF Unborn, SettledInv, AgentTypes
  <2>4. \A s \in Sessions : status[s] # "none" => remote'[s] = remote[s]
    BY <1>2, <1>4, <2>1 DEF SettledInv, AgentTypes
  <2>5. HandsInv'
    BY <2>1, <2>3, <2>4 DEF SettledInv, HandsInv, AgentTypes
  <2> QED
    BY <2>1, <2>2, <2>4, <2>5 DEF SettledInv, StoppedIsSettled
<1>7. CASE WarmCommits(t) \/ WarmFails(t)
  <2>1. PICK v \in {"active", "failed"} :
          /\ warm' = [warm EXCEPT ![t] = "publishing"] /\ warm[t] \in {"starting", "prepping"}
          /\ status' = [status EXCEPT ![Current(t)] = v]
          /\ UNCHANGED <<present, count, remote, usage, relay, tick>>
    BY <1>7 DEF WarmCommits, WarmFails
  <2>2. AgentTypes'
    BY <1>1, <1>2, <2>1 DEF SettledInv, AgentTypes
  <2>3. \A s \in Sessions : Unborn(s)' => Unborn(s) /\ s # Current(t)
    BY <1>2, <1>5, <2>1, MAAssumption DEF Unborn, SettledInv, AgentTypes
  <2>4. \A s \in Sessions : s # Current(t) => status'[s] = status[s]
    BY <1>2, <2>1 DEF SettledInv, AgentTypes
  <2>5. Current(t) \notin relay.open \cup relay.closed \cup tick.listed \cup tick.ending
    BY <1>4, <2>1 DEF SettledInv, HandsInv
  <2>6. HandsInv'
    BY <2>1, <2>3, <2>4, <2>5 DEF SettledInv, HandsInv, AgentTypes
  <2>7. ~(usage[Current(t)] > 0) /\ status'[Current(t)] # "stopped"
    BY <1>2, <1>4, <2>1 DEF SettledInv, StoppedIsSettled, AgentTypes
  <2> QED
    BY <2>1, <2>2, <2>4, <2>6, <2>7 DEF SettledInv, StoppedIsSettled
<1>8. CASE WarmEnds(t)
  <2>1. /\ warm' = [warm EXCEPT ![t] = "none"]
        /\ UNCHANGED <<present, count, status, remote, usage, relay, tick>>
    BY <1>8 DEF WarmEnds, sessions
  <2>2. AgentTypes'
    BY <2>1 DEF SettledInv, AgentTypes
  <2>3. \A s \in Sessions : Unborn(s)' => Unborn(s)
    BY <1>5, <2>1 DEF Unborn, SettledInv, AgentTypes
  <2> QED
    BY <2>1, <2>2, <2>3 DEF SettledInv, HandsInv, StoppedIsSettled
<1> QED
  BY <1>6, <1>7, <1>8 DEF WarmNext

LEMMA RelayKeeps ==
  ASSUME SettledInv, RelayNext
  PROVE  SettledInv'
<1>1. CASE RelayTells
  <2>1. /\ remote' = [s \in Sessions |->
                        IF status[s] = "active" /\ remote[s] = "open" THEN "told" ELSE remote[s]]
        /\ UNCHANGED <<present, warm, count, status, usage, relay, tick>>
    BY <1>1 DEF RelayTells
  <2>2. AgentTypes'
    BY <2>1 DEF SettledInv, AgentTypes
  <2>3. \A s \in Sessions : remote[s] = "ended" => remote'[s] = "ended"
    BY <2>1
  <2>4. \A s \in Sessions : Unborn(s)' => Unborn(s)
    BY <2>1 DEF Unborn
  <2>5. HandsInv'
    BY <2>1, <2>3, <2>4 DEF SettledInv, HandsInv, AgentTypes, RelayHands, TickHands
  <2> QED
    BY <2>1, <2>2, <2>3, <2>5 DEF SettledInv, StoppedIsSettled
<1>2. CASE RelayReads
  <2>1. /\ relay' = [busy |-> TRUE, open |-> ActiveRows, closed |-> {}]
        /\ UNCHANGED <<present, warm, count, status, remote, usage, tick>>
    BY <1>2 DEF RelayReads, sessions
  <2>2. ActiveRows \subseteq Sessions /\ \A s \in ActiveRows : status[s] = "active"
    BY DEF ActiveRows
  <2>3. AgentTypes'
    BY <2>1, <2>2 DEF SettledInv, AgentTypes, RelayHands
  <2>4. \A s \in Sessions : Unborn(s)' => Unborn(s)
    BY <2>1 DEF Unborn
  <2>5. HandsInv'
    BY <2>1, <2>2, <2>4 DEF SettledInv, HandsInv
  <2> QED
    BY <2>1, <2>3, <2>5 DEF SettledInv, StoppedIsSettled
<1>3. ASSUME NEW x \in Sessions, RelayCloses(x) PROVE SettledInv'
  <2>1. /\ x \in relay.open
        /\ remote' = [remote EXCEPT ![x] = "ended"]
        /\ relay' = [relay EXCEPT !.open = @ \ {x}, !.closed = @ \cup {x}]
        /\ UNCHANGED <<present, warm, count, status, usage, tick>>
    BY <1>3 DEF RelayCloses, EndSession
  <2>2. /\ relay'.open = relay.open \ {x} /\ relay'.closed = relay.closed \cup {x}
        /\ relay' \in RelayHands
    BY <2>1 DEF SettledInv, AgentTypes, RelayHands
  <2>3. AgentTypes'
    BY <2>1, <2>2 DEF SettledInv, AgentTypes
  <2>4. \A s \in Sessions : remote'[s] = IF s = x THEN "ended" ELSE remote[s]
    BY <2>1 DEF SettledInv, AgentTypes
  <2>5. \A s \in Sessions : Unborn(s)' => Unborn(s)
    BY <2>1 DEF Unborn
  <2>6. HandsInv'
    BY <2>1, <2>2, <2>4, <2>5 DEF SettledInv, HandsInv, AgentTypes
  <2> QED
    BY <2>1, <2>3, <2>4, <2>6 DEF SettledInv, StoppedIsSettled
<1>4. CASE RelayCommits
  <2>1. /\ Stopped(relay.closed) /\ relay' = NoRelay
        /\ UNCHANGED <<present, warm, count, remote, tick>>
    BY <1>4 DEF RelayCommits
  <2>2. /\ relay' \in RelayHands
        /\ relay'.open \subseteq relay.open /\ relay'.closed \subseteq relay.closed
    BY <2>1, EmptyHands
  <2>3. relay.closed \in SUBSET Sessions /\ tick' = tick
    BY <2>1 DEF SettledInv, AgentTypes, RelayHands
  <2>4. \A s \in relay.closed : status[s] \in {"active", "stopped"} /\ remote[s] = "ended"
    BY DEF SettledInv, HandsInv
  <2> QED
    BY <2>1, <2>2, <2>3, <2>4, StoppedKeeps DEF SettledInv, AgentTypes
<1> QED
  BY <1>1, <1>2, <1>3, <1>4 DEF RelayNext

LEMMA TickKeeps ==
  ASSUME SettledInv, TickNext
  PROVE  SettledInv'
<1>0. present \in BOOLEAN
  BY DEF SettledInv, AgentTypes
<1>1. CASE TickReads
  <2>1. /\ tick' = [step |-> "acting", crowded |-> present, listed |-> ActiveRows, ending |-> {}]
        /\ UNCHANGED <<present, warm, count, status, remote, usage, relay>>
    BY <1>1 DEF TickReads, sessions
  <2>2. ActiveRows \subseteq Sessions /\ \A s \in ActiveRows : status[s] = "active"
    BY DEF ActiveRows
  <2>3. /\ tick' \in TickHands
        /\ tick'.listed = ActiveRows /\ tick'.ending = {}
    BY <2>1, <2>2 DEF TickHands, SettledInv, AgentTypes
  <2>4. AgentTypes'
    BY <2>1, <2>3 DEF SettledInv, AgentTypes
  <2>5. \A s \in Sessions : Unborn(s)' => Unborn(s)
    BY <2>1 DEF Unborn
  <2>6. HandsInv'
    BY <2>1, <2>2, <2>3, <2>5 DEF SettledInv, HandsInv
  <2> QED
    BY <2>1, <2>4, <2>6 DEF SettledInv, StoppedIsSettled
<1>2. CASE TickWarms
  BY <1>2, SpawnKeeps DEF TickWarms
<1>3. ASSUME NEW x \in Sessions, TickEnds(x) PROVE SettledInv'
  <2>1. CASE status[x] = "active"
    <3>1. /\ remote' = [remote EXCEPT ![x] = "ended"]
          /\ tick' = [tick EXCEPT !.ending = {x}, !.listed = @ \ {x}]
          /\ x \in tick.listed
          /\ UNCHANGED <<present, warm, count, status, usage, relay>>
      BY <1>3, <2>1 DEF TickEnds, EndSession
    <3>2. /\ tick'.ending = {x} /\ tick'.listed = tick.listed \ {x}
          /\ tick' \in TickHands
      BY <3>1 DEF SettledInv, AgentTypes, TickHands
    <3>3. AgentTypes'
      BY <3>1, <3>2 DEF SettledInv, AgentTypes
    <3>4. \A s \in Sessions : remote'[s] = IF s = x THEN "ended" ELSE remote[s]
      BY <3>1 DEF SettledInv, AgentTypes
    <3>5. \A s \in Sessions : Unborn(s)' => Unborn(s)
      BY <3>1 DEF Unborn
    <3>6. HandsInv'
      BY <3>1, <3>2, <3>4, <3>5 DEF SettledInv, HandsInv, AgentTypes
    <3> QED
      BY <3>1, <3>3, <3>4, <3>6 DEF SettledInv, StoppedIsSettled
  <2>2. CASE status[x] # "active"
    BY <1>0, <1>3, <2>2, DroppingKeeps DEF TickEnds
  <2> QED
    BY <2>1, <2>2
<1>4. CASE TickStops
  <2>1. /\ Stopped(tick.ending) /\ tick' = [tick EXCEPT !.ending = {}]
        /\ UNCHANGED <<present, warm, count, remote, relay>>
    BY <1>4 DEF TickStops
  <2>2. /\ tick' \in TickHands
        /\ tick'.listed \subseteq tick.listed /\ tick'.ending \subseteq tick.ending
    BY <2>1, LettingGo DEF SettledInv, AgentTypes
  <2>3. tick.ending \in SUBSET Sessions /\ relay' = relay
    BY <2>1 DEF SettledInv, AgentTypes, TickHands
  <2>4. \A s \in tick.ending : status[s] \in {"active", "stopped"} /\ remote[s] = "ended"
    BY DEF SettledInv, HandsInv
  <2> QED
    BY <2>1, <2>2, <2>3, <2>4, StoppedKeeps DEF SettledInv, AgentTypes
<1>5. CASE TickSleeps
  BY <1>0, <1>5, DroppingKeeps DEF TickSleeps, sessions
<1> QED
  BY <1>1, <1>2, <1>3, <1>4, <1>5 DEF TickNext

LEMMA SettledStep == SettledInv /\ [Next]_vars => SettledInv'
<1> SUFFICES ASSUME SettledInv, [Next]_vars PROVE SettledInv'
  OBVIOUS
<1>1. ASSUME NEW t \in Templates, Retry(t) PROVE SettledInv'
  BY <1>1, SpawnKeeps DEF Retry
<1>2. CASE StartCommits
  BY <1>2, SpawnKeeps DEF StartCommits
<1>3. present \in BOOLEAN
  BY DEF SettledInv, AgentTypes
<1>4. CASE \/ StartPublishes \/ EndCommits \/ StartReads \/ EndPublishes
           \/ SetSelectedAgents \/ PresenceChanges
           \/ \E e \in {"started", "ended"} : Notice(e)
           \/ RelayFails \/ UNCHANGED vars
  BY <1>3, <1>4, DroppingKeeps
     DEF StartPublishes, EndCommits, StartReads, EndPublishes, SetSelectedAgents,
         PresenceChanges, Notice, RelayFails, vars, sessions
<1>5. CASE TickFails \/ Crash
  BY <1>3, <1>5, DroppingKeeps DEF TickFails, Crash, sessions
<1> QED
  BY <1>1, <1>2, <1>4, <1>5, WarmKeeps, RelayKeeps, TickKeeps DEF Next, RequestNext

(* Whichever of relay and reconciler stops a session, and whatever fails   *)
(* or restarts in between: a stopped row was ended at Anthropic and has    *)
(* its usage record, and no other row has one (_close_session,             *)
(* _end_session_and_mark_stopped, _record_usage).                          *)
THEOREM StoppedStaysSettled == Spec => []StoppedIsSettled
<1>1. Init => SettledInv
  <2> SUFFICES ASSUME Init PROVE SettledInv
    OBVIOUS
  <2>1. AgentTypes
    <3>1. present \in BOOLEAN /\ relay \in RelayHands /\ tick \in TickHands
      BY EmptyHands DEF Init
    <3> QED
      BY <3>1, MAAssumption DEF Init, AgentTypes
  <2>2. HandsInv
    BY EmptyHands DEF Init, HandsInv
  <2> QED
    BY <2>1, <2>2 DEF Init, SettledInv, StoppedIsSettled
<1>2. SettledInv => StoppedIsSettled
  BY DEF SettledInv
<1> QED
  BY <1>1, <1>2, SettledStep, PTL DEF Spec
=============================================================================
