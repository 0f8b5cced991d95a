----------------------------- MODULE TurnQueue ------------------------------
(***************************************************************************)
(* The speaker queue of one meeting as RedisTurnManager keeps it in Redis, *)
(* under the processes that share it: agent gateway sessions, MCP tools,   *)
(* REST routes (which build a manager per request) and the gateway's       *)
(* timeout monitor.  Lua scripts and MULTI blocks are single steps; an     *)
(* operation that awaits Redis more than once is one step per round trip,  *)
(* and every other client may run in between.                              *)
(*                                                                         *)
(* A hand_raise_id is a ticket: it and the score's timestamp are taken     *)
(* together, before the script is sent, so the ticket stands for both (the *)
(* hosts' clocks are taken to agree).                                      *)
(***************************************************************************)
EXTENDS Naturals, FiniteSets

CONSTANTS
  Participants,  \* participant ids that use the meeting's turns
  NoOne,         \* the value of a missing key
  Clients,       \* callers of the manager: sessions, tools, REST requests
  PerRequest,    \* the clients that build a fresh manager for each call
  Monitors,      \* the gateways' timeout monitor tasks
  Serves,        \* the participants each client acts for
  StaleIds,      \* may a client lower a hand by an id that is out of date?
  Overrides,     \* may the host set the active speaker?
  MaxRaises      \* bound: raise_hand calls in a behaviour

Callers == Clients \cup Monitors
HandRaises == 1..MaxRaises
NoHand == 0

ASSUME TQAssumption ==
  /\ NoOne \notin Participants
  /\ Clients \cap Monitors = {}
  /\ PerRequest \subseteq Clients
  /\ Serves \in [Clients -> SUBSET Participants]
  /\ StaleIds \in BOOLEAN
  /\ Overrides \in BOOLEAN
  /\ MaxRaises \in Nat

VARIABLES
  queue,     \* ZSET  turns:queue          the entries, ordered by score
  hand,      \* turns:hand:{pid}           the participant's hand_raise_id
  meta,      \* turns:meta:{hrid}          which hashes exist
  speaker,   \* turns:speaker
  since,     \* turns:speaker_since        none, or is the turn over the limit?
  started,   \* turn:..:speaking_started:{pid}  which keys exist
  next,      \* the next ticket
  issued,    \* the ids raise_hand returned to each participant's clients
  bound,     \* has the client's manager registered its scripts?
  call       \* what each caller is in the middle of

redis == <<queue, hand, meta, speaker, since, started>>
vars == <<queue, hand, meta, speaker, since, started, next, issued, bound, call>>

Entry == [pid : Participants, hrid : HandRaises, urgent : BOOLEAN]

Steps == {"idle", "raise", "cancel", "start", "finish", "finished",
          "timeout", "skip"}
Call == [at : Steps, pid : Participants \cup {NoOne},
         hrid : HandRaises \cup {NoHand}, urgent : BOOLEAN]
Idle == [at |-> "idle", pid |-> NoOne, hrid |-> NoHand, urgent |-> FALSE]

Init ==
  /\ queue = {}
  /\ hand = [p \in Participants |-> NoHand]
  /\ meta = {}
  /\ speaker = NoOne
  /\ since = "none"
  /\ started = {}
  /\ next = 1
  /\ issued = [p \in Participants |-> {}]
  /\ bound = [c \in Clients |-> FALSE]
  /\ call = [c \in Callers |-> Idle]

-----------------------------------------------------------------------------
(* Mutant: the priority offset is forgotten.                               *)
BeforeUnranked(e, f) == e.hrid < f.hrid

(* _priority_score: urgent entries score their timestamp, normal ones      *)
(* _PRIORITY_OFFSET + timestamp, which is larger than any timestamp.       *)
Before(e, f) ==
  \/ e.urgent /\ ~f.urgent
  \/ e.urgent = f.urgent /\ e.hrid < f.hrid

(* Mutant: ZPOPMAX.                                                        *)
LowestIsLast(q) == {e \in q : \A f \in q : f = e \/ Before(f, e)}

(* ZPOPMIN takes an element of this set; it is empty for an empty queue.   *)
Lowest(q) == {e \in q : \A f \in q : f = e \/ Before(e, f)}

Enter(c, r) == call' = [call EXCEPT ![c] = r]

(* The operation returns; a per-request manager goes away with it.         *)
Return(c) ==
  /\ call' = [call EXCEPT ![c] = Idle]
  /\ bound' = [d \in Clients |-> bound[d] /\ ~(d = c /\ c \in PerRequest)]

(* _get_redis: the first caller of it registers both scripts.              *)
GetRedis(c) == bound' = [d \in Clients |-> bound[d] \/ d = c]

-----------------------------------------------------------------------------
(* raise_hand: the id and the score are computed here, before the script.  *)
RaiseBegin(c, p, u) ==
  /\ call[c].at = "idle"
  /\ p \in Serves[c]
  /\ next <= MaxRaises
  /\ Enter(c, [at |-> "raise", pid |-> p, hrid |-> next, urgent |-> u])
  /\ next' = next + 1
  /\ GetRedis(c)
  /\ UNCHANGED <<queue, hand, meta, speaker, since, started, issued>>

(* _RAISE_HAND_SCRIPT *)
RaiseScript(c) ==
  LET p == call[c].pid
      e == [pid |-> p, hrid |-> call[c].hrid, urgent |-> call[c].urgent]
  IN /\ call[c].at = "raise"
     /\ \/ /\ hand[p] # NoHand                          \* 'already'
           /\ issued' = [issued EXCEPT ![p] = @ \cup {hand[p]}]
           /\ UNCHANGED redis
        \/ /\ hand[p] = NoHand
           /\ meta' = meta \cup {e.hrid}
           /\ issued' = [issued EXCEPT ![p] = @ \cup {e.hrid}]
           /\ \/ /\ speaker # NoOne                      \* 'added'
                 /\ queue' = queue \cup {e}
                 /\ hand' = [hand EXCEPT ![p] = e.hrid]
                 /\ UNCHANGED <<speaker, since>>
              \/ /\ speaker = NoOne                      \* 'promoted'
                 /\ queue' = (queue \cup {e}) \ Lowest(queue \cup {e})
                 /\ speaker' = p
                 /\ since' = "recent"
                 /\ UNCHANGED hand
           /\ UNCHANGED started
     /\ Return(c)
     /\ UNCHANGED next

(* cancel_hand_raise without an id: GET the hand key ...                   *)
CancelLookup(c, p) ==
  /\ call[c].at = "idle"
  /\ p \in Serves[c]
  /\ hand[p] # NoHand
  /\ Enter(c, [Idle EXCEPT !.at = "cancel", !.pid = p, !.hrid = hand[p]])
  /\ GetRedis(c)
  /\ UNCHANGED <<redis, next, issued>>

(* Mutant: the ZREM is missing.                                            *)
CancelLeavesEntry(p, h) ==
  /\ hand' = [hand EXCEPT ![p] = NoHand]
  /\ meta' = meta \ {h}
  /\ UNCHANGED <<queue, speaker, since, started, next, issued>>

(* ... then MULTI { ZREM member; DEL hand; DEL meta }.  The hand key goes  *)
(* whatever id it holds by now.                                            *)
CancelTransaction(p, h) ==
  /\ queue' = {e \in queue : ~(e.pid = p /\ e.hrid = h)}
  /\ hand' = [hand EXCEPT ![p] = NoHand]
  /\ meta' = meta \ {h}
  /\ UNCHANGED <<speaker, since, started, next, issued>>

CancelExec(c) ==
  /\ call[c].at = "cancel"
  /\ CancelTransaction(call[c].pid, call[c].hrid)
  /\ Return(c)

(* cancel_hand_raise with an id the client still holds.                    *)
CancelById(c, p, h) ==
  /\ StaleIds
  /\ call[c].at = "idle"
  /\ p \in Serves[c]
  /\ h \in issued[p]
  /\ CancelTransaction(p, h)
  /\ bound' = [d \in Clients |-> bound[d] \/ (d = c /\ c \notin PerRequest)]
  /\ UNCHANGED call

(* start_speaking: GET the speaker; anyone else is refused ...             *)
StartCheck(c, p) ==
  /\ call[c].at = "idle"
  /\ p \in Serves[c]
  /\ speaker = p
  /\ Enter(c, [Idle EXCEPT !.at = "start", !.pid = p])
  /\ GetRedis(c)
  /\ UNCHANGED <<redis, next, issued>>

(* ... then SET speaking_started.                                          *)
StartRecord(c) ==
  /\ call[c].at = "start"
  /\ started' = started \cup {call[c].pid}
  /\ Return(c)
  /\ UNCHANGED <<queue, hand, meta, speaker, since, next, issued>>

-----------------------------------------------------------------------------
(* Mutant: the script clears the floor and leaves the queue to the next    *)
(* raise.                                                                  *)
AdvanceClears ==
  /\ speaker' = NoOne
  /\ since' = "none"
  /\ UNCHANGED <<queue, hand, meta, started>>

(* Mutant: the promoted participant's hand key is not deleted.             *)
AdvanceKeepsHand ==
  /\ \/ /\ queue = {}
        /\ speaker' = NoOne
        /\ since' = "none"
        /\ UNCHANGED queue
     \/ \E e \in Lowest(queue) :
          /\ queue' = queue \ {e}
          /\ speaker' = e.pid
          /\ since' = "recent"
  /\ UNCHANGED <<hand, meta, started>>

(* _FINISH_SPEAKING_SCRIPT for the participant who holds the floor: the    *)
(* floor is cleared, then goes to the lowest entry if there is one.        *)
Advance ==
  /\ \/ /\ queue = {}
        /\ speaker' = NoOne
        /\ since' = "none"
        /\ UNCHANGED <<queue, hand>>
     \/ \E e \in Lowest(queue) :
          /\ queue' = queue \ {e}
          /\ speaker' = e.pid
          /\ since' = "recent"
          /\ hand' = [hand EXCEPT ![e.pid] = NoHand]
  /\ UNCHANGED <<meta, started>>

(* mark_finished_speaking is sent; it awaits nothing before the script, so *)
(* it does not register the scripts itself.                                *)
FinishBegin(c, p) ==
  /\ call[c].at = "idle"
  /\ p \in Serves[c]
  /\ Enter(c, [Idle EXCEPT !.at = "finish", !.pid = p])
  /\ UNCHANGED <<redis, next, issued, bound>>

(* The script attribute is still None: calling it raises TypeError.        *)
FinishUnbound(c) ==
  /\ call[c].at = "finish"
  /\ ~bound[c]
  /\ Return(c)
  /\ UNCHANGED <<redis, next, issued>>

FinishScript(c) ==
  /\ call[c].at = "finish"
  /\ bound[c]
  /\ \/ /\ speaker # call[c].pid                         \* 'not_speaker'
        /\ Return(c)
        /\ UNCHANGED redis
     \/ /\ speaker = call[c].pid
        /\ Advance
        /\ Enter(c, [call[c] EXCEPT !.at = "finished"])
        /\ UNCHANGED bound
  /\ UNCHANGED <<next, issued>>

(* DEL speaking_started, after the script has returned.                    *)
FinishCleanup(c) ==
  /\ call[c].at = "finished"
  /\ started' = started \ {call[c].pid}
  /\ IF c \in Clients THEN Return(c) ELSE Enter(c, Idle) /\ UNCHANGED bound
  /\ UNCHANGED <<queue, hand, meta, speaker, since, next, issued>>

(* set_active_speaker: MULTI { SET speaker; SET since }.                   *)
SetActiveSpeaker(p) ==
  /\ Overrides
  /\ speaker' = p
  /\ since' = "recent"
  /\ UNCHANGED <<queue, hand, meta, started, next, issued, bound, call>>

-----------------------------------------------------------------------------
(* The turn in progress outlasts speaker_timeout_seconds.                  *)
TurnExpires ==
  /\ since = "recent"
  /\ since' = "expired"
  /\ UNCHANGED <<queue, hand, meta, speaker, started, next, issued, bound, call>>

(* Mutant: only a speaker who signalled start_speaking is timed.           *)
MonitorStarted(m) ==
  /\ started # {}
  /\ call[m].at = "idle"
  /\ since = "expired"
  /\ Enter(m, [Idle EXCEPT !.at = "timeout"])
  /\ UNCHANGED <<redis, next, issued, bound>>

(* TurnBridge._check_timeouts: GET since ...                               *)
MonitorElapsed(m) ==
  /\ call[m].at = "idle"
  /\ since = "expired"
  /\ Enter(m, [Idle EXCEPT !.at = "timeout"])
  /\ UNCHANGED <<redis, next, issued, bound>>

(* ... then, in another round trip, GET speaker ...                        *)
MonitorSpeaker(m) ==
  /\ call[m].at = "timeout"
  /\ Enter(m, IF speaker = NoOne THEN Idle
              ELSE [Idle EXCEPT !.at = "skip", !.pid = speaker])
  /\ UNCHANGED <<redis, next, issued, bound>>

(* ... then mark_finished_speaking on that speaker's behalf.               *)
MonitorFinish(m) ==
  /\ call[m].at = "skip"
  /\ \/ /\ speaker # call[m].pid
        /\ Enter(m, Idle)
        /\ UNCHANGED redis
     \/ /\ speaker = call[m].pid
        /\ Advance
        /\ Enter(m, [call[m] EXCEPT !.at = "finished"])
  /\ UNCHANGED <<next, issued, bound>>

-----------------------------------------------------------------------------
Continue(c) ==
  \/ RaiseScript(c) \/ CancelExec(c) \/ StartRecord(c)
  \/ FinishUnbound(c) \/ FinishScript(c)

ClientNext(c) ==
  \/ \E p \in Participants :
       \/ \E u \in BOOLEAN : RaiseBegin(c, p, u)
       \/ CancelLookup(c, p)
       \/ \E h \in HandRaises : CancelById(c, p, h)
       \/ StartCheck(c, p)
       \/ FinishBegin(c, p)
  \/ Continue(c)

MonitorNext(m) == MonitorElapsed(m) \/ MonitorSpeaker(m) \/ MonitorFinish(m)

Next ==
  \/ \E c \in Clients : ClientNext(c)
  \/ \E m \in Monitors : MonitorNext(m)
  \/ \E c \in Callers : FinishCleanup(c)
  \/ \E p \in Participants : SetActiveSpeaker(p)
  \/ TurnExpires

Spec == Init /\ [][Next]_vars

(* Redis answers every request that was sent, the monitor polls for ever,  *)
(* and time passes.  Nothing makes a client finish, raise or cancel.       *)
Fairness ==
  /\ \A c \in Clients : WF_vars(Continue(c))
  /\ \A c \in Callers : WF_vars(FinishCleanup(c))
  /\ \A m \in Monitors : WF_vars(MonitorNext(m))
  /\ WF_vars(TurnExpires)

FairSpec == Spec /\ Fairness

-----------------------------------------------------------------------------
TypeOK ==
  /\ queue \subseteq Entry
  /\ hand \in [Participants -> HandRaises \cup {NoHand}]
  /\ meta \subseteq HandRaises
  /\ speaker \in Participants \cup {NoOne}
  /\ since \in {"none", "recent", "expired"}
  /\ started \subseteq Participants
  /\ next \in 1..(MaxRaises + 1)
  /\ issued \in [Participants -> SUBSET HandRaises]
  /\ bound \in [Clients -> BOOLEAN]
  /\ call \in [Callers -> Call]
  /\ \A c \in Callers :
       /\ call[c].at \notin {"idle", "timeout"} => call[c].pid \in Participants
       /\ call[c].at \in {"raise", "cancel"} => call[c].hrid \in HandRaises

(* The floor is idle only when nobody waits: no order of scripts strands   *)
(* the queue without a speaker whose finish or timeout would move it.      *)
NobodyWaitsForAnIdleFloor == speaker = NoOne => queue = {}

(* A hand key always names a queued entry.  Otherwise raise_hand would     *)
(* answer 'already, position 0' for ever and lock its owner out.           *)
NobodyIsLockedOut ==
  \A p \in Participants :
    hand[p] # NoHand => \E e \in queue : e.pid = p /\ e.hrid = hand[p]

(* get_queue_status reads every entry's metadata: a missing hash would     *)
(* show an urgent hand as normal, with a made-up raised_at.                *)
QueuedHandsHaveMeta == \A e \in queue : e.hrid \in meta

(* The timeout clock and the speaker are set and cleared together; apart,  *)
(* the monitor would never end a turn, or end one that nobody has.         *)
ClockRunsWithSpeaker == (speaker = NoOne) <=> (since = "none")

(* raise_hand answers a queued participant with their position instead of  *)
(* adding a duplicate (interfaces/turn_manager.py): one entry each.        *)
OneEntryEach == \A e, f \in queue : e.pid = f.pid => e = f

(* Clients that keep to the interface: one caller for each participant,    *)
(* and no hand lowered by an id that is no longer current.                 *)
Exclusive ==
  /\ ~StaleIds
  /\ \A c, d \in Clients : c # d => Serves[c] \cap Serves[d] = {}

(* With such clients a queued entry is always its participant's own        *)
(* current hand, so nobody is queued twice.                                *)
QueuedIsHand == \A e \in queue : hand[e.pid] = e.hrid

-----------------------------------------------------------------------------
(* When the floor is handed on, urgent hands go first and otherwise the    *)
(* one that was raised first: nobody still waiting had precedence.         *)
ServedInOrder ==
  [][\A e \in queue \ queue', f \in queue \cap queue' :
       speaker' = e.pid /\ speaker' # speaker =>
         (f.urgent => e.urgent) /\ (e.urgent = f.urgent => e.hrid < f.hrid)]_vars

(* _check_timeouts "advances the speaker if they have exceeded             *)
(* speaker_timeout_seconds" (turn_bridge.py): the turn it ends is over.    *)
OnlyExpiredTurnsAreSkipped ==
  [][\A m \in Monitors :
       call[m].at = "skip" /\ call'[m].at = "finished" => since = "expired"]_vars

(* start_speaking is "a no-op if participant_id is not the current active  *)
(* speaker" (interfaces/turn_manager.py): no key appears for anyone else.  *)
OnlyTheSpeakerStarts ==
  [][\A p \in started' \ started : speaker = p]_vars

(* A finish_turn request of the active speaker ends the turn ("mark your   *)
(* speaking turn as finished and advance the queue", routes/turns.py).     *)
FinishEndsTheTurn ==
  [][\A c \in Clients :
       call[c].at = "finish" /\ call'[c].at # "finish" /\ speaker = call[c].pid
         => call'[c].at = "finished"]_vars

(* Every queued hand is served or lowered: the monitor ends turns that     *)
(* their speakers never finish.                                            *)
EveryHandLeavesTheQueue ==
  \A e \in Entry : e \in queue ~> e \notin queue

-----------------------------------------------------------------------------
(* The Redis queue implements turn taking.                                 *)
Pid(e) == e.pid
TT == INSTANCE TurnTaking
        WITH Entries <- Entry, PidOf <- Pid, Precedes <- Before,
             floor <- speaker, waiting <- queue
ImplementsTurnTaking == TT!TTSpec
ImplementsFairTurnTaking == TT!TTFairSpec
=============================================================================
