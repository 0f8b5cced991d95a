-------------------------- MODULE TurnQueueProofs ---------------------------
(***************************************************************************)
(* Proofs about TurnQueue, for every number of participants, clients,      *)
(* monitors and raises.                                                    *)
(***************************************************************************)
EXTENDS TurnQueue, TLAPS

(* Every action of Next by name: the case split of each invariance proof.  *)
LEMMA NextSplit ==
  ASSUME [Next]_vars
  PROVE  \/ \E c \in Clients, p \in Participants :
              \/ \E u \in BOOLEAN : RaiseBegin(c, p, u)
              \/ CancelLookup(c, p)
              \/ \E h \in HandRaises : CancelById(c, p, h)
              \/ StartCheck(c, p)
              \/ FinishBegin(c, p)
         \/ \E c \in Clients :
              \/ RaiseScript(c) \/ CancelExec(c) \/ StartRecord(c)
              \/ FinishUnbound(c) \/ FinishScript(c)
         \/ \E m \in Monitors :
              MonitorElapsed(m) \/ MonitorSpeaker(m) \/ MonitorFinish(m)
         \/ \E c \in Callers : FinishCleanup(c)
         \/ \E p \in Participants : SetActiveSpeaker(p)
         \/ TurnExpires
         \/ UNCHANGED vars
  BY DEF Next, ClientNext, Continue, MonitorNext

(* Handing the floor on keeps the types of what it changes.                *)
LEMMA AdvanceTypes ==
  ASSUME TypeOK, Advance
  PROVE  /\ queue' \subseteq Entry
         /\ hand' \in [Participants -> HandRaises \cup {NoHand}]
         /\ speaker' \in Participants \cup {NoOne}
         /\ since' \in {"none", "recent", "expired"}
         /\ meta' = meta
         /\ started' = started
  BY DEF TypeOK, Advance, Lowest, Entry

(* Every variable keeps its type, and a call in flight names the           *)
(* participant and the id it was made with.                                *)
THEOREM Typing == Spec => []TypeOK
<1> USE TQAssumption
<1>1. Init => TypeOK
  BY DEF Init, TypeOK, Call, Steps, Idle, HandRaises, NoHand, Callers
<1>2. TypeOK /\ [Next]_vars => TypeOK'
  <2> SUFFICES ASSUME TypeOK, [Next]_vars PROVE TypeOK'
    OBVIOUS
  <2> USE DEF Enter, Return, GetRedis, Callers, Call, Steps, Idle, redis
  <2>1. ASSUME NEW c \in Clients, NEW p \in Participants, NEW u \in BOOLEAN,
               RaiseBegin(c, p, u)
        PROVE  TypeOK'
    BY <2>1 DEF TypeOK, RaiseBegin, HandRaises
  <2>2. ASSUME NEW c \in Clients, NEW p \in Participants, CancelLookup(c, p)
        PROVE  TypeOK'
    BY <2>2 DEF TypeOK, CancelLookup
  <2>3. ASSUME NEW c \in Clients, NEW p \in Participants, NEW h \in HandRaises,
               CancelById(c, p, h)
        PROVE  TypeOK'
    BY <2>3 DEF TypeOK, CancelById, CancelTransaction
  <2>4. ASSUME NEW c \in Clients, NEW p \in Participants, StartCheck(c, p)
        PROVE  TypeOK'
    BY <2>4 DEF TypeOK, StartCheck
  <2>5. ASSUME NEW c \in Clients, NEW p \in Participants, FinishBegin(c, p)
        PROVE  TypeOK'
    BY <2>5 DEF TypeOK, FinishBegin
  <2>6. ASSUME NEW c \in Clients, RaiseScript(c)
        PROVE  TypeOK'
    BY <2>6 DEF TypeOK, RaiseScript, Entry, Lowest
  <2>7. ASSUME NEW c \in Clients, CancelExec(c)
        PROVE  TypeOK'
    BY <2>7 DEF TypeOK, CancelExec, CancelTransaction
  <2>8. ASSUME NEW c \in Clients, StartRecord(c)
        PROVE  TypeOK'
    BY <2>8 DEF TypeOK, StartRecord
  <2>9. ASSUME NEW c \in Clients, FinishUnbound(c)
        PROVE  TypeOK'
    BY <2>9 DEF TypeOK, FinishUnbound
  <2>10. ASSUME NEW c \in Clients, FinishScript(c)
         PROVE  TypeOK'
    <3>1. CASE speaker # call[c].pid
      <4>1. /\ Return(c) /\ UNCHANGED <<redis, next, issued>>
        BY <2>10, <3>1 DEF FinishScript
      <4> QED BY <4>1 DEF TypeOK
    <3>2. CASE speaker = call[c].pid
      <4>1. /\ Advance
            /\ call' = [call EXCEPT ![c] = [call[c] EXCEPT !.at = "finished"]]
            /\ UNCHANGED <<bound, next, issued>>
            /\ call[c].at = "finish"
        BY <2>10, <3>2 DEF FinishScript
      <4>2. [call[c] EXCEPT !.at = "finished"] \in Call
        BY DEF TypeOK
      <4> QED BY <4>1, <4>2, AdvanceTypes DEF TypeOK
    <3> QED BY <3>1, <3>2
  <2>11. ASSUME NEW m \in Monitors, MonitorElapsed(m)
         PROVE  TypeOK'
    BY <2>11 DEF TypeOK, MonitorElapsed
  <2>12. ASSUME NEW m \in Monitors, MonitorSpeaker(m)
         PROVE  TypeOK'
    BY <2>12 DEF TypeOK, MonitorSpeaker
  <2>13. ASSUME NEW m \in Monitors, MonitorFinish(m)
         PROVE  TypeOK'
    <3>1. CASE speaker # call[m].pid
      <4>1. /\ call' = [call EXCEPT ![m] = Idle]
            /\ UNCHANGED <<redis, next, issued, bound>>
        BY <2>13, <3>1 DEF MonitorFinish
      <4> QED BY <4>1 DEF TypeOK
    <3>2. CASE speaker = call[m].pid
      <4>1. /\ Advance
            /\ call' = [call EXCEPT ![m] = [call[m] EXCEPT !.at = "finished"]]
            /\ UNCHANGED <<bound, next, issued>>
            /\ call[m].at = "skip"
        BY <2>13, <3>2 DEF MonitorFinish
      <4>2. [call[m] EXCEPT !.at = "finished"] \in Call
        BY DEF TypeOK
      <4> QED BY <4>1, <4>2, AdvanceTypes DEF TypeOK
    <3> QED BY <3>1, <3>2
  <2>14. ASSUME NEW c \in Callers, FinishCleanup(c)
         PROVE  TypeOK'
    <3>1. /\ call' = [call EXCEPT ![c] = Idle]
          /\ started' \subseteq started
          /\ UNCHANGED <<queue, hand, meta, speaker, since, next, issued>>
      BY <2>14 DEF FinishCleanup
    <3>2. bound' \in [Clients -> BOOLEAN]
      <4>1. CASE c \in Clients
        BY <2>14, <4>1 DEF TypeOK, FinishCleanup
      <4>2. CASE c \notin Clients
        BY <2>14, <4>2 DEF TypeOK, FinishCleanup
      <4> QED BY <4>1, <4>2
    <3> QED BY <3>1, <3>2 DEF TypeOK
  <2>15. ASSUME NEW p \in Participants, SetActiveSpeaker(p)
         PROVE  TypeOK'
    BY <2>15 DEF TypeOK, SetActiveSpeaker
  <2>16. ASSUME TurnExpires
         PROVE  TypeOK'
    BY <2>16 DEF TypeOK, TurnExpires
  <2>17. ASSUME UNCHANGED vars
         PROVE  TypeOK'
    BY <2>17 DEF TypeOK, vars
  <2> QED
    BY NextSplit, <2>1, <2>2, <2>3, <2>4, <2>5, <2>6, <2>7, <2>8, <2>9,
       <2>10, <2>11, <2>12, <2>13, <2>14, <2>15, <2>16, <2>17
<1> QED BY <1>1, <1>2, PTL DEF Spec

-----------------------------------------------------------------------------
(* The three facts about the floor that hold only together: a raise pops   *)
(* its own entry because an idle floor means an empty queue, so no other   *)
(* participant's entry is lost and no hand key is left behind.             *)
FloorInv == NobodyWaitsForAnIdleFloor /\ NobodyIsLockedOut /\ ClockRunsWithSpeaker

LEMMA AdvanceFloor ==
  ASSUME TypeOK, FloorInv, Advance
  PROVE  FloorInv'
<1> USE TQAssumption
<1>1. CASE queue = {}
  <2>1. queue' = queue /\ hand' = hand /\ speaker' = NoOne /\ since' = "none"
    BY <1>1 DEF Advance, Lowest
  <2> QED
    BY <1>1, <2>1 DEF FloorInv, NobodyWaitsForAnIdleFloor, NobodyIsLockedOut,
                      ClockRunsWithSpeaker
<1>2. CASE queue # {}
  <2>1. PICK e \in Lowest(queue) :
          /\ queue' = queue \ {e}
          /\ speaker' = e.pid
          /\ since' = "recent"
          /\ hand' = [hand EXCEPT ![e.pid] = NoHand]
    BY <1>2 DEF Advance
  <2>2. e \in queue /\ e.pid \in Participants
    BY <2>1 DEF TypeOK, Lowest, Entry
  <2>3. NobodyWaitsForAnIdleFloor' /\ ClockRunsWithSpeaker'
    BY <2>1, <2>2 DEF NobodyWaitsForAnIdleFloor, ClockRunsWithSpeaker
  <2>4. NobodyIsLockedOut'
    <3> SUFFICES ASSUME NEW p \in Participants, hand'[p] # NoHand
                 PROVE  \E f \in queue' : f.pid = p /\ f.hrid = hand'[p]
      BY DEF NobodyIsLockedOut
    <3>1. p # e.pid /\ hand'[p] = hand[p]
      BY <2>1, <2>2 DEF TypeOK
    <3>2. PICK f \in queue : f.pid = p /\ f.hrid = hand[p]
      BY <3>1 DEF FloorInv, NobodyIsLockedOut
    <3> QED BY <2>1, <3>1, <3>2
  <2> QED BY <2>3, <2>4 DEF FloorInv
<1> QED BY <1>1, <1>2

LEMMA RaiseFloor ==
  ASSUME TypeOK, FloorInv, NEW c \in Clients, RaiseScript(c)
  PROVE  FloorInv'
<1> USE TQAssumption
<1> DEFINE p == call[c].pid
           e == [pid |-> p, hrid |-> call[c].hrid, urgent |-> call[c].urgent]
<1>0. p \in Participants /\ e \in Entry /\ e.hrid # NoHand
  <2>1. call[c].at = "raise" /\ call[c] \in Call /\ c \in Callers
    BY DEF RaiseScript, TypeOK, Callers
  <2>2. p \in Participants /\ call[c].hrid \in HandRaises
    BY <2>1 DEF TypeOK
  <2> QED BY <2>1, <2>2 DEF Entry, Call, HandRaises, NoHand
<1>1. CASE hand[p] # NoHand
  <2>1. UNCHANGED redis
    BY <1>1 DEF RaiseScript
  <2> QED BY <2>1 DEF redis, FloorInv, NobodyWaitsForAnIdleFloor,
                      NobodyIsLockedOut, ClockRunsWithSpeaker
<1>2. CASE hand[p] = NoHand /\ speaker # NoOne
  <2>1. /\ queue' = queue \cup {e}
        /\ hand' = [hand EXCEPT ![p] = e.hrid]
        /\ UNCHANGED <<speaker, since>>
    BY <1>2 DEF RaiseScript
  <2>2. NobodyWaitsForAnIdleFloor' /\ ClockRunsWithSpeaker'
    BY <1>2, <2>1 DEF FloorInv, NobodyWaitsForAnIdleFloor, ClockRunsWithSpeaker
  <2>3. NobodyIsLockedOut'
    <3> SUFFICES ASSUME NEW q \in Participants, hand'[q] # NoHand
                 PROVE  \E f \in queue' : f.pid = q /\ f.hrid = hand'[q]
      BY DEF NobodyIsLockedOut
    <3>1. CASE q = p
      BY <1>0, <2>1, <3>1 DEF TypeOK
    <3>2. CASE q # p
      <4>1. hand'[q] = hand[q]
        BY <1>0, <2>1, <3>2 DEF TypeOK
      <4>2. PICK f \in queue : f.pid = q /\ f.hrid = hand[q]
        BY <4>1 DEF FloorInv, NobodyIsLockedOut
      <4> QED BY <2>1, <4>1, <4>2
    <3> QED BY <3>1, <3>2
  <2> QED BY <2>2, <2>3 DEF FloorInv
<1>3. CASE hand[p] = NoHand /\ speaker = NoOne
  <2>1. /\ queue' = (queue \cup {e}) \ Lowest(queue \cup {e})
        /\ speaker' = p /\ since' = "recent" /\ hand' = hand
    BY <1>3 DEF RaiseScript
  <2>2. queue = {}
    BY <1>3 DEF FloorInv, NobodyWaitsForAnIdleFloor
  <2>3. queue' = {}
    BY <2>1, <2>2 DEF Lowest
  <2> QED BY <1>0, <2>1, <2>2, <2>3
          DEF FloorInv, NobodyWaitsForAnIdleFloor, NobodyIsLockedOut,
              ClockRunsWithSpeaker
<1> QED BY <1>1, <1>2, <1>3

LEMMA CancelFloor ==
  ASSUME TypeOK, FloorInv, NEW p \in Participants, NEW h \in HandRaises,
         CancelTransaction(p, h)
  PROVE  FloorInv'
<1>1. NobodyWaitsForAnIdleFloor' /\ ClockRunsWithSpeaker'
  BY DEF CancelTransaction, FloorInv, NobodyWaitsForAnIdleFloor,
         ClockRunsWithSpeaker
<1>2. NobodyIsLockedOut'
  <2> SUFFICES ASSUME NEW q \in Participants, hand'[q] # NoHand
               PROVE  \E f \in queue' : f.pid = q /\ f.hrid = hand'[q]
    BY DEF NobodyIsLockedOut
  <2>1. q # p /\ hand'[q] = hand[q]
    BY DEF CancelTransaction, TypeOK
  <2>2. PICK f \in queue : f.pid = q /\ f.hrid = hand[q]
    BY <2>1 DEF FloorInv, NobodyIsLockedOut
  <2> QED BY <2>1, <2>2 DEF CancelTransaction
<1> QED BY <1>1, <1>2 DEF FloorInv

(* What every step does to the floor: nothing, one of the scripts, or the  *)
(* clock and the speaker alone.                                            *)
LEMMA FloorStep ==
  ASSUME TypeOK, [Next]_vars
  PROVE  \/ UNCHANGED <<queue, hand, speaker, since>>
         \/ \E c \in Clients : RaiseScript(c)
         \/ \E p \in Participants, h \in HandRaises : CancelTransaction(p, h)
         \/ Advance
         \/ /\ speaker' \in Participants /\ since' = "recent"
            /\ UNCHANGED <<queue, hand>>
         \/ /\ since = "recent" /\ since' = "expired"
            /\ UNCHANGED <<queue, hand, speaker>>
<1> USE DEF redis
<1>1. ASSUME NEW c \in Clients, CancelExec(c)
      PROVE  \E p \in Participants, h \in HandRaises : CancelTransaction(p, h)
  <2>1. call[c].pid \in Participants /\ call[c].hrid \in HandRaises
    BY <1>1 DEF CancelExec, TypeOK, Callers
  <2> QED BY <1>1, <2>1 DEF CancelExec
<1> QED
  BY NextSplit, <1>1
     DEF RaiseBegin, CancelLookup, CancelById, StartCheck, FinishBegin,
         StartRecord, FinishUnbound, FinishScript, MonitorElapsed,
         MonitorSpeaker, MonitorFinish, FinishCleanup, SetActiveSpeaker,
         TurnExpires, vars

LEMMA FloorInductive ==
  ASSUME TypeOK, FloorInv, [Next]_vars
  PROVE  FloorInv'
<1> USE TQAssumption
<1>1. CASE UNCHANGED <<queue, hand, speaker, since>>
  BY <1>1 DEF FloorInv, NobodyWaitsForAnIdleFloor, NobodyIsLockedOut,
              ClockRunsWithSpeaker
<1>2. CASE \E c \in Clients : RaiseScript(c)
  BY <1>2, RaiseFloor
<1>3. CASE \E p \in Participants, h \in HandRaises : CancelTransaction(p, h)
  BY <1>3, CancelFloor
<1>4. CASE Advance
  BY <1>4, AdvanceFloor
<1>5. CASE /\ speaker' \in Participants /\ since' = "recent"
           /\ UNCHANGED <<queue, hand>>
  BY <1>5 DEF FloorInv, NobodyWaitsForAnIdleFloor, NobodyIsLockedOut,
              ClockRunsWithSpeaker
<1>6. CASE /\ since = "recent" /\ since' = "expired"
           /\ UNCHANGED <<queue, hand, speaker>>
  BY <1>6 DEF FloorInv, NobodyWaitsForAnIdleFloor, NobodyIsLockedOut,
              ClockRunsWithSpeaker
<1> QED BY FloorStep, <1>1, <1>2, <1>3, <1>4, <1>5, <1>6

(* The floor is never idle while a hand is raised, nobody is locked out of *)
(* the queue, and the timeout clock runs exactly while somebody speaks:    *)
(* whatever clients do, stale lower_hand ids and host overrides included.  *)
LEMMA FloorSafe == Spec => []FloorInv
<1>1. Init => FloorInv
  BY TQAssumption DEF Init, FloorInv, NobodyWaitsForAnIdleFloor,
                      NobodyIsLockedOut, ClockRunsWithSpeaker
<1>2. TypeOK /\ FloorInv /\ [Next]_vars => FloorInv'
  BY FloorInductive
<1> QED BY <1>1, <1>2, Typing, PTL DEF Spec

(* No meeting has raised hands and an idle floor.                          *)
THEOREM NoIdleFloor == Spec => []NobodyWaitsForAnIdleFloor
BY FloorSafe, PTL DEF FloorInv

(* Whoever has a hand key is in the queue, so raise_hand's 'already' never *)
(* answers position 0 and nobody is shut out.                              *)
THEOREM NoLockOut == Spec => []NobodyIsLockedOut
BY FloorSafe, PTL DEF FloorInv

(* The monitor's clock is there exactly while somebody has the floor.      *)
THEOREM ClockIsPaired == Spec => []ClockRunsWithSpeaker
BY FloorSafe, PTL DEF FloorInv

-----------------------------------------------------------------------------
(* Ids are never reused: each belongs to one participant, a raise in       *)
(* flight holds one that nobody has seen, and so an entry is known by its  *)
(* id alone.                                                               *)
IdsHaveOneOwner ==
  /\ \A p \in Participants : \A h \in issued[p] : h < next
  /\ \A p, q \in Participants : p # q => issued[p] \cap issued[q] = {}

RaisesAreFresh ==
  \A c \in Clients : call[c].at = "raise" =>
    /\ call[c].hrid < next
    /\ \A p \in Participants : call[c].hrid \notin issued[p]
    /\ \A d \in Clients : d # c /\ call[d].at = "raise" => call[d].hrid # call[c].hrid

IdsWereIssued ==
  /\ \A e \in queue : e.hrid \in issued[e.pid]
  /\ \A p \in Participants : hand[p] # NoHand => hand[p] \in issued[p]
  /\ \A c \in Clients : call[c].at = "cancel" => call[c].hrid \in issued[call[c].pid]

EntriesHaveOneId == \A e, f \in queue : e.hrid = f.hrid => e = f

TicketInv ==
  IdsHaveOneOwner /\ RaisesAreFresh /\ IdsWereIssued /\ EntriesHaveOneId
    /\ QueuedHandsHaveMeta

LEMMA RaiseBeginTickets ==
  ASSUME TypeOK, TicketInv, NEW c \in Clients, NEW p \in Participants,
         NEW u \in BOOLEAN, RaiseBegin(c, p, u)
  PROVE  TicketInv'
<1> USE TQAssumption DEF HandRaises
<1>1. /\ call' = [call EXCEPT ![c] = [at |-> "raise", pid |-> p,
                                      hrid |-> next, urgent |-> u]]
      /\ next' = next + 1 /\ next \in Nat /\ c \in Callers /\ call[c].at = "idle"
      /\ UNCHANGED <<queue, hand, meta, issued>>
  BY DEF RaiseBegin, Enter, TypeOK, Callers
<1>2. \A h \in HandRaises : h \in Nat
  OBVIOUS
<1>3. IdsHaveOneOwner'
  BY <1>1, <1>2 DEF TicketInv, IdsHaveOneOwner, TypeOK
<1>4. RaisesAreFresh'
  <2> SUFFICES ASSUME NEW d \in Clients, call'[d].at = "raise"
               PROVE  /\ call'[d].hrid < next'
                      /\ \A q \in Participants : call'[d].hrid \notin issued[q]
                      /\ \A b \in Clients : b # d /\ call'[b].at = "raise"
                            => call'[b].hrid # call'[d].hrid
    BY <1>1 DEF RaisesAreFresh
  <2>1. /\ call'[c].hrid = next
        /\ \A b \in Clients : b # c => call'[b] = call[b]
    BY <1>1 DEF TypeOK, Callers
  <2>2. \A q \in Participants : next \notin issued[q]
    BY <1>1, <1>2 DEF TicketInv, IdsHaveOneOwner, TypeOK
  <2>3. \A b \in Clients : b # c /\ call[b].at = "raise" =>
          call[b].hrid < next /\ call[b].hrid \in Nat
    BY <1>2 DEF TicketInv, RaisesAreFresh, TypeOK, Callers
  <2>4. CASE d = c
    BY <1>1, <2>1, <2>2, <2>3, <2>4
  <2>5. CASE d # c
    <3>1. call[d].at = "raise" /\ call'[d] = call[d]
      BY <2>1, <2>5
    <3>2. /\ call[d].hrid < next
          /\ \A q \in Participants : call[d].hrid \notin issued[q]
          /\ \A b \in Clients : b # d /\ call[b].at = "raise"
               => call[b].hrid # call[d].hrid
      BY <3>1 DEF TicketInv, RaisesAreFresh
    <3> QED BY <1>1, <2>1, <2>3, <2>5, <3>1, <3>2
  <2> QED BY <2>4, <2>5
<1>5. IdsWereIssued'
  BY <1>1 DEF TicketInv, IdsWereIssued, TypeOK, Callers
<1> QED
  BY <1>1, <1>3, <1>4, <1>5
     DEF TicketInv, EntriesHaveOneId, QueuedHandsHaveMeta

LEMMA RaiseScriptTickets ==
  ASSUME TypeOK, FloorInv, TicketInv, NEW c \in Clients, RaiseScript(c)
  PROVE  TicketInv'
<1> USE TQAssumption DEF HandRaises
<1> DEFINE p == call[c].pid
           h == call[c].hrid
           e == [pid |-> p, hrid |-> h, urgent |-> call[c].urgent]
<1>0. p \in Participants /\ h \in HandRaises /\ c \in Callers
      /\ call[c].at = "raise"
  BY DEF RaiseScript, TypeOK, Callers
<1>1. /\ call' = [call EXCEPT ![c] = Idle] /\ next' = next
      /\ \A d \in Clients : call'[d].at # "idle" => d # c /\ call'[d] = call[d]
  BY <1>0 DEF RaiseScript, Return, TypeOK, Idle, Callers
<1>2. CASE hand[p] # NoHand
  <2>1. UNCHANGED redis /\ issued' = [issued EXCEPT ![p] = @ \cup {hand[p]}]
    BY <1>2 DEF RaiseScript
  <2>2. issued' = issued
    BY <1>0, <1>2, <2>1 DEF TicketInv, IdsWereIssued, TypeOK
  <2> QED
    BY <1>1, <2>1, <2>2
       DEF redis, TicketInv, IdsHaveOneOwner, RaisesAreFresh, IdsWereIssued,
           EntriesHaveOneId, QueuedHandsHaveMeta
<1>3. CASE hand[p] = NoHand
  <2>1. /\ meta' = meta \cup {h}
        /\ issued' = [issued EXCEPT ![p] = @ \cup {h}]
    BY <1>3 DEF RaiseScript
  <2>2. queue' \subseteq queue \cup {e}
    BY <1>3 DEF RaiseScript
  <2>3. \A q \in Participants : hand'[q] # NoHand => hand'[q] = hand[q] \/ (q = p /\ hand'[q] = h)
    BY <1>0, <1>3 DEF RaiseScript, TypeOK
  <2>4. /\ \A q \in Participants : issued'[q] = IF q = p THEN issued[q] \cup {h}
                                                         ELSE issued[q]
        /\ h < next
        /\ \A q \in Participants : h \notin issued[q]
    BY <1>0, <2>1 DEF TypeOK, TicketInv, RaisesAreFresh
  <2>a. \A q \in Participants : issued[q] \subseteq issued'[q]
    BY <2>4
  <2>b. h \in issued'[p]
    BY <1>0, <2>4
  <2>c. \A q \in Participants : \A i \in issued'[q] : i \in issued[q] \/ i = h
    BY <2>4
  <2>5. IdsHaveOneOwner'
    <3>1. \A q \in Participants : \A i \in issued'[q] : i < next'
      BY <1>1, <2>4 DEF TicketInv, IdsHaveOneOwner
    <3>2. \A q, r \in Participants : q # r => issued'[q] \cap issued'[r] = {}
      <4> SUFFICES ASSUME NEW q \in Participants, NEW r \in Participants, q # r,
                          NEW i \in issued'[q], i \in issued'[r]
                   PROVE  FALSE
        OBVIOUS
      <4>1. ~(i \in issued[q] /\ i \in issued[r])
        BY DEF TicketInv, IdsHaveOneOwner
      <4> QED BY <2>4, <4>1
    <3> QED BY <3>1, <3>2 DEF IdsHaveOneOwner
  <2>6. RaisesAreFresh'
    <3> SUFFICES ASSUME NEW d \in Clients, call'[d].at = "raise"
                 PROVE  /\ call'[d].hrid < next'
                        /\ \A q \in Participants : call'[d].hrid \notin issued'[q]
                        /\ \A b \in Clients : b # d /\ call'[b].at = "raise"
                              => call'[b].hrid # call'[d].hrid
      BY DEF RaisesAreFresh
    <3>1. d # c /\ call'[d] = call[d] /\ call[d].at = "raise"
      BY <1>1
    <3>2. /\ call[d].hrid < next
          /\ \A q \in Participants : call[d].hrid \notin issued[q]
          /\ \A b \in Clients : b # d /\ call[b].at = "raise"
               => call[b].hrid # call[d].hrid
      BY <3>1 DEF TicketInv, RaisesAreFresh
    <3>3. call[d].hrid # h
      BY <1>0, <3>1, <3>2
    <3>4. \A b \in Clients : call'[b].at = "raise" => call'[b] = call[b]
      BY <1>1
    <3>5. \A q \in Participants : call[d].hrid \notin issued'[q]
      BY <2>c, <3>2, <3>3
    <3> QED BY <1>1, <3>1, <3>2, <3>4, <3>5
  <2>7. IdsWereIssued'
    <3>1. \A f \in queue' : f.hrid \in issued'[f.pid]
      <4> SUFFICES ASSUME NEW f \in queue' PROVE f.hrid \in issued'[f.pid]
        OBVIOUS
      <4>1. CASE f = e
        BY <1>0, <2>4, <4>1
      <4>2. CASE f \in queue
        <5>1. f.hrid \in issued[f.pid] /\ f.pid \in Participants
          BY <4>2 DEF TicketInv, IdsWereIssued, TypeOK, Entry
        <5> QED BY <2>a, <5>1
      <4> QED BY <2>2, <4>1, <4>2
    <3>2. \A q \in Participants : hand'[q] # NoHand => hand'[q] \in issued'[q]
      BY <2>3, <2>4 DEF TicketInv, IdsWereIssued
    <3>3. \A d \in Clients : call'[d].at = "cancel" => call'[d].hrid \in issued'[call'[d].pid]
      <4> SUFFICES ASSUME NEW d \in Clients, call'[d].at = "cancel"
                   PROVE  call'[d].hrid \in issued'[call'[d].pid]
        OBVIOUS
      <4>1. call'[d] = call[d] /\ call[d].at = "cancel" /\ call[d].pid \in Participants
        BY <1>1 DEF TypeOK, Callers
      <4>2. call[d].hrid \in issued[call[d].pid]
        BY <4>1 DEF TicketInv, IdsWereIssued
      <4> QED BY <2>a, <4>1, <4>2
    <3> QED BY <3>1, <3>2, <3>3 DEF IdsWereIssued
  <2>8. EntriesHaveOneId'
    <3>1. \A f \in queue : f.hrid # h
      BY <2>4 DEF TicketInv, IdsWereIssued, TypeOK, Entry
    <3> QED BY <2>2, <3>1 DEF TicketInv, EntriesHaveOneId
  <2>9. QueuedHandsHaveMeta'
    BY <2>1, <2>2 DEF TicketInv, QueuedHandsHaveMeta
  <2> QED BY <2>5, <2>6, <2>7, <2>8, <2>9 DEF TicketInv
<1> QED BY <1>2, <1>3

(* A step that issues no id and adds no entry.                             *)
LEMMA OtherTickets ==
  ASSUME TypeOK, TicketInv, UNCHANGED <<next, issued>>, queue' \subseteq queue,
         \A p \in Participants : hand'[p] = hand[p] \/ hand'[p] = NoHand,
         \A d \in Clients :
            \/ call'[d] = call[d]
            \/ call'[d].at \notin {"raise", "cancel"}
            \/ call'[d].at = "cancel" /\ call'[d].hrid \in issued[call'[d].pid],
         QueuedHandsHaveMeta'
  PROVE  TicketInv'
<1>1. IdsHaveOneOwner' /\ EntriesHaveOneId'
  BY DEF TicketInv, IdsHaveOneOwner, EntriesHaveOneId
<1>2. RaisesAreFresh'
  <2>1. \A d \in Clients : call'[d].at = "raise" => call'[d] = call[d]
    OBVIOUS
  <2> QED BY <2>1 DEF TicketInv, RaisesAreFresh
<1>3. IdsWereIssued'
  BY DEF TicketInv, IdsWereIssued
<1> QED BY <1>1, <1>2, <1>3 DEF TicketInv

LEMMA CancelTickets ==
  ASSUME TypeOK, TicketInv, NEW p \in Participants, NEW h \in issued[p],
         CancelTransaction(p, h)
  PROVE  /\ queue' \subseteq queue
         /\ \A q \in Participants : hand'[q] = hand[q] \/ hand'[q] = NoHand
         /\ UNCHANGED <<next, issued>>
         /\ QueuedHandsHaveMeta'
<1>1. QueuedHandsHaveMeta'
  <2> SUFFICES ASSUME NEW e \in queue' PROVE e.hrid \in meta'
    BY DEF QueuedHandsHaveMeta
  <2>1. e \in queue /\ e.pid \in Participants /\ ~(e.pid = p /\ e.hrid = h)
    BY DEF CancelTransaction, TypeOK, Entry
  <2>2. e.hrid \in meta /\ e.hrid \in issued[e.pid]
    BY <2>1 DEF TicketInv, QueuedHandsHaveMeta, IdsWereIssued
  <2>3. e.hrid # h
    BY <2>1, <2>2 DEF TicketInv, IdsHaveOneOwner
  <2> QED BY <2>2, <2>3 DEF CancelTransaction
<1> QED BY <1>1 DEF CancelTransaction, TypeOK

LEMMA AdvanceTickets ==
  ASSUME TypeOK, TicketInv, Advance
  PROVE  /\ queue' \subseteq queue
         /\ \A q \in Participants : hand'[q] = hand[q] \/ hand'[q] = NoHand
         /\ QueuedHandsHaveMeta'
BY DEF Advance, TypeOK, TicketInv, QueuedHandsHaveMeta

(* A caller moves to a step that holds no id.                              *)
LEMMA CallerMoves ==
  ASSUME TypeOK, NEW c, NEW r, r.at \notin {"raise", "cancel"},
         call' = [call EXCEPT ![c] = r]
  PROVE  \A d \in Clients : call'[d] = call[d] \/ call'[d].at \notin {"raise", "cancel"}
BY DEF TypeOK, Callers

(* The actions that leave the queue, the hands and the ids alone ...       *)
Quiet ==
  \/ \E c \in Clients, p \in Participants : StartCheck(c, p) \/ FinishBegin(c, p)
  \/ \E c \in Clients : StartRecord(c) \/ FinishUnbound(c)
  \/ \E m \in Monitors : MonitorElapsed(m) \/ MonitorSpeaker(m)
  \/ \E c \in Callers : FinishCleanup(c)
  \/ \E p \in Participants : SetActiveSpeaker(p)
  \/ TurnExpires
  \/ UNCHANGED vars

(* ... and those that run the finish script.                               *)
Finishes(c) ==
  \/ c \in Clients /\ FinishScript(c)
  \/ c \in Monitors /\ MonitorFinish(c)

LEMMA QuietStep ==
  ASSUME TypeOK, Quiet
  PROVE  /\ UNCHANGED <<queue, hand, meta, next, issued>>
         /\ \A d \in Clients : call'[d] = call[d] \/ call'[d].at \notin {"raise", "cancel"}
<1> USE DEF Quiet, Enter, Return, redis
<1>1. UNCHANGED <<queue, hand, meta, next, issued>>
  BY DEF StartCheck, FinishBegin, StartRecord, FinishUnbound, MonitorElapsed,
         MonitorSpeaker, FinishCleanup, SetActiveSpeaker, TurnExpires, vars
<1>2. \/ UNCHANGED call
      \/ \E c : call' = [call EXCEPT ![c] = Idle]
      \/ \E c, p : call' = [call EXCEPT ![c] = [Idle EXCEPT !.at = "start", !.pid = p]]
      \/ \E c, p : call' = [call EXCEPT ![c] = [Idle EXCEPT !.at = "finish", !.pid = p]]
      \/ \E c : call' = [call EXCEPT ![c] = [Idle EXCEPT !.at = "timeout"]]
      \/ \E c, p : call' = [call EXCEPT ![c] = [Idle EXCEPT !.at = "skip", !.pid = p]]
  BY DEF StartCheck, FinishBegin, StartRecord, FinishUnbound, MonitorElapsed,
         MonitorSpeaker, FinishCleanup, SetActiveSpeaker, TurnExpires, vars
<1>3. /\ Idle.at = "idle"
      /\ \A p : [Idle EXCEPT !.at = "start", !.pid = p].at = "start"
      /\ \A p : [Idle EXCEPT !.at = "finish", !.pid = p].at = "finish"
      /\ [Idle EXCEPT !.at = "timeout"].at = "timeout"
      /\ \A p : [Idle EXCEPT !.at = "skip", !.pid = p].at = "skip"
  BY DEF Idle
<1> HIDE DEF Quiet
<1>4. CASE UNCHANGED call
  BY <1>1, <1>4
<1>5. CASE \E c : call' = [call EXCEPT ![c] = Idle]
  BY <1>1, <1>3, <1>5, CallerMoves
<1>6. CASE \E c, p : call' = [call EXCEPT ![c] = [Idle EXCEPT !.at = "start", !.pid = p]]
  BY <1>1, <1>3, <1>6, CallerMoves
<1>7. CASE \E c, p : call' = [call EXCEPT ![c] = [Idle EXCEPT !.at = "finish", !.pid = p]]
  BY <1>1, <1>3, <1>7, CallerMoves
<1>8. CASE \E c : call' = [call EXCEPT ![c] = [Idle EXCEPT !.at = "timeout"]]
  BY <1>1, <1>3, <1>8, CallerMoves
<1>9. CASE \E c, p : call' = [call EXCEPT ![c] = [Idle EXCEPT !.at = "skip", !.pid = p]]
  BY <1>1, <1>3, <1>9, CallerMoves
<1> QED BY <1>2, <1>4, <1>5, <1>6, <1>7, <1>8, <1>9

LEMMA FinishStep ==
  ASSUME TypeOK, NEW c \in Callers, Finishes(c)
  PROVE  /\ Advance \/ UNCHANGED redis
         /\ UNCHANGED <<next, issued>>
         /\ \A d \in Clients : call'[d] = call[d] \/ call'[d].at \notin {"raise", "cancel"}
<1> USE DEF Enter, Return
<1>1. /\ Advance \/ UNCHANGED redis
      /\ UNCHANGED <<next, issued>>
      /\ \/ call' = [call EXCEPT ![c] = Idle]
         \/ call' = [call EXCEPT ![c] = [call[c] EXCEPT !.at = "finished"]]
  BY DEF Finishes, FinishScript, MonitorFinish
<1>2. /\ Idle.at = "idle"
      /\ [call[c] EXCEPT !.at = "finished"].at = "finished"
  BY DEF Idle, TypeOK, Call
<1>3. CASE call' = [call EXCEPT ![c] = Idle]
  BY <1>1, <1>2, <1>3, CallerMoves
<1>4. CASE call' = [call EXCEPT ![c] = [call[c] EXCEPT !.at = "finished"]]
  BY <1>1, <1>2, <1>4, CallerMoves
<1> QED BY <1>1, <1>3, <1>4

LEMMA TicketInductive ==
  ASSUME TypeOK, FloorInv, TicketInv, [Next]_vars
  PROVE  TicketInv'
<1> USE TQAssumption DEF Enter, Return, redis
<1>0. /\ \A c \in Clients, d \in Clients : d # c => c \in Callers /\ d \in Callers
      /\ \A m \in Monitors, d \in Clients : d # m /\ m \in Callers /\ d \in Callers
      /\ Idle.at = "idle"
  BY DEF Callers, Idle
<1>1. ASSUME NEW c \in Clients, NEW p \in Participants, NEW u \in BOOLEAN,
             RaiseBegin(c, p, u)
      PROVE  TicketInv'
  BY <1>1, RaiseBeginTickets
<1>2. ASSUME NEW c \in Clients, RaiseScript(c)
      PROVE  TicketInv'
  BY <1>2, RaiseScriptTickets
<1>3. ASSUME NEW c \in Clients, NEW p \in Participants, CancelLookup(c, p)
      PROVE  TicketInv'
  <2>1. hand[p] \in issued[p]
    BY <1>3 DEF CancelLookup, TicketInv, IdsWereIssued
  <2>2. \A d \in Clients :
          \/ call'[d] = call[d]
          \/ call'[d].at = "cancel" /\ call'[d].hrid \in issued[call'[d].pid]
    BY <1>3, <2>1 DEF CancelLookup, TypeOK, Idle, Callers
  <2> QED
    BY <1>3, <2>2, OtherTickets
       DEF CancelLookup, TicketInv, QueuedHandsHaveMeta
<1>4. ASSUME NEW c \in Clients, CancelExec(c)
      PROVE  TicketInv'
  <2>1. call[c].pid \in Participants /\ call[c].hrid \in issued[call[c].pid]
    BY <1>4 DEF CancelExec, TypeOK, TicketInv, IdsWereIssued, Callers
  <2>2. \A d \in Clients : call'[d] = call[d] \/ call'[d].at = "idle"
    BY <1>4, <1>0 DEF CancelExec, TypeOK
  <2> QED
    BY <1>4, <2>1, <2>2, CancelTickets, OtherTickets DEF CancelExec
<1>5. ASSUME NEW c \in Clients, NEW p \in Participants, NEW h \in HandRaises,
             CancelById(c, p, h)
      PROVE  TicketInv'
  <2>1. h \in issued[p] /\ CancelTransaction(p, h) /\ UNCHANGED call
    BY <1>5 DEF CancelById
  <2> QED BY <2>1, CancelTickets, OtherTickets
<1>6. ASSUME Quiet
      PROVE  TicketInv'
  BY <1>6, QuietStep, OtherTickets DEF TicketInv, QueuedHandsHaveMeta
<1>7. ASSUME NEW c \in Callers, Finishes(c)
      PROVE  TicketInv'
  <2>1. CASE Advance
    BY <1>7, <2>1, FinishStep, AdvanceTickets, OtherTickets
  <2>2. CASE UNCHANGED redis
    BY <1>7, <2>2, FinishStep, OtherTickets DEF TicketInv, QueuedHandsHaveMeta
  <2> QED BY <1>7, <2>1, <2>2, FinishStep
<1> QED
  BY NextSplit, <1>1, <1>2, <1>3, <1>4, <1>5, <1>6, <1>7
     DEF Callers, Quiet, Finishes

LEMMA TicketsSafe == Spec => []TicketInv
<1>1. Init => TicketInv
  BY DEF Init, TicketInv, IdsHaveOneOwner, RaisesAreFresh, IdsWereIssued,
         EntriesHaveOneId, QueuedHandsHaveMeta, Idle, Callers, NoHand
<1>2. TypeOK /\ FloorInv /\ TicketInv /\ [Next]_vars => TicketInv'
  BY TicketInductive
<1> QED BY <1>1, <1>2, Typing, FloorSafe, PTL DEF Spec

(* Every queued hand's priority, topic and raised_at can be read back.     *)
THEOREM MetaIsKept == Spec => []QueuedHandsHaveMeta
BY TicketsSafe, PTL DEF TicketInv

-----------------------------------------------------------------------------
(* Each step of the Redis queue is a step of turn taking or changes        *)
(* neither the floor nor the waiting room.                                 *)
LEMMA AdvanceHandsOn ==
  ASSUME TypeOK, FloorInv, Advance, speaker # NoOne
  PROVE  TT!HandOn
BY DEF Advance, TT!HandOn, TT!FirstOf, Lowest, Pid

LEMMA RaiseImplements ==
  ASSUME TypeOK, FloorInv, NEW c \in Clients, RaiseScript(c)
  PROVE  [TT!TTNext]_(TT!turn)
<1> DEFINE p == call[c].pid
           e == [pid |-> p, hrid |-> call[c].hrid, urgent |-> call[c].urgent]
<1>0. p \in Participants /\ e \in Entry
  BY DEF RaiseScript, TypeOK, Callers, Entry, Call
<1>1. CASE hand[p] # NoHand
  BY <1>1 DEF RaiseScript, redis, TT!turn
<1>2. CASE hand[p] = NoHand /\ speaker # NoOne
  <2>1. queue' = queue \cup {e} /\ UNCHANGED speaker
    BY <1>2 DEF RaiseScript
  <2>2. TT!Wait(e)
    BY <1>2, <2>1 DEF TT!Wait
  <2> QED BY <1>0, <2>2 DEF TT!TTNext
<1>3. CASE hand[p] = NoHand /\ speaker = NoOne
  <2>1. queue' = (queue \cup {e}) \ Lowest(queue \cup {e}) /\ speaker' = p
    BY <1>3 DEF RaiseScript
  <2>2. queue = {} /\ queue' = {}
    BY <1>3, <2>1 DEF FloorInv, NobodyWaitsForAnIdleFloor, Lowest
  <2>3. TT!TakeFloor(p)
    BY <1>3, <2>1, <2>2 DEF TT!TakeFloor
  <2> QED BY <1>0, <2>3 DEF TT!TTNext
<1> QED BY <1>1, <1>2, <1>3

LEMMA CancelImplements ==
  ASSUME TypeOK, TicketInv, NEW p \in Participants, NEW h \in HandRaises,
         CancelTransaction(p, h)
  PROVE  [TT!TTNext]_(TT!turn)
<1>1. queue' = {e \in queue : ~(e.pid = p /\ e.hrid = h)} /\ UNCHANGED speaker
  BY DEF CancelTransaction
<1>2. CASE \E e \in queue : e.pid = p /\ e.hrid = h
  <2>1. PICK e \in queue : e.pid = p /\ e.hrid = h
    BY <1>2
  <2>2. queue' = queue \ {e}
    BY <1>1, <2>1 DEF TicketInv, EntriesHaveOneId
  <2>3. TT!Withdraw(e) /\ e \in Entry
    BY <1>1, <2>1, <2>2 DEF TT!Withdraw, TypeOK
  <2> QED BY <2>3 DEF TT!TTNext
<1>3. CASE ~\E e \in queue : e.pid = p /\ e.hrid = h
  BY <1>1, <1>3 DEF TT!turn
<1> QED BY <1>2, <1>3

LEMMA StepImplements ==
  ASSUME TypeOK, FloorInv, TicketInv, [Next]_vars
  PROVE  [TT!TTNext]_(TT!turn)
<1> USE TQAssumption
<1>1. CASE Advance
  <2>1. speaker # NoOne \/ queue = {}
    BY DEF FloorInv, NobodyWaitsForAnIdleFloor
  <2>2. CASE speaker # NoOne
    BY <1>1, <2>2, AdvanceHandsOn DEF TT!TTNext
  <2>3. CASE speaker = NoOne
    BY <1>1, <2>1, <2>3 DEF Advance, Lowest, TT!turn
  <2> QED BY <2>2, <2>3
<1>2. CASE speaker' \in Participants /\ since' = "recent" /\ UNCHANGED <<queue, hand>>
  BY <1>2 DEF TT!TTNext, TT!Appoint
<1>3. CASE UNCHANGED <<queue, speaker>>
  BY <1>3 DEF TT!turn
<1> QED
  BY FloorStep, RaiseImplements, CancelImplements, <1>1, <1>2, <1>3

(* The Lua scripts, MULTI blocks and round trips of RedisTurnManager       *)
(* implement turn taking: the floor only ever goes to the first in the     *)
(* order, or to whoever asks when it is idle and nobody waits, or to the   *)
(* host's choice.                                                          *)
THEOREM QueueImplementsTurnTaking == Spec => ImplementsTurnTaking
<1>1. Init => TT!TTInit
  BY DEF Init, TT!TTInit
<1>2. TypeOK /\ FloorInv /\ TicketInv /\ [Next]_vars => [TT!TTNext]_(TT!turn)
  BY StepImplements
<1> QED
  BY <1>1, <1>2, Typing, FloorSafe, TicketsSafe, PTL
     DEF Spec, ImplementsTurnTaking, TT!TTSpec

-----------------------------------------------------------------------------
(* With exclusive clients the hand key and the queue agree both ways.      *)
CallsServe ==
  \A c \in Clients : call[c].at \in {"raise", "cancel"} => call[c].pid \in Serves[c]

CancelsAreCurrent ==
  \A c \in Clients : call[c].at = "cancel" =>
    hand[call[c].pid] \in {NoHand, call[c].hrid}

HandInv == QueuedIsHand /\ CallsServe /\ CancelsAreCurrent

(* A step after which every raise or cancel in flight was in flight        *)
(* before, and no hand key has gained a value.                             *)
LEMMA CallsKept ==
  ASSUME TypeOK, HandInv,
         \A d \in Clients : call'[d] = call[d] \/ call'[d].at \notin {"raise", "cancel"},
         \A p \in Participants : hand'[p] = hand[p] \/ hand'[p] = NoHand
  PROVE  CallsServe' /\ CancelsAreCurrent'
<1>1. CallsServe'
  BY DEF HandInv, CallsServe
<1>2. CancelsAreCurrent'
  <2> SUFFICES ASSUME NEW d \in Clients, call'[d].at = "cancel"
               PROVE  hand'[call'[d].pid] \in {NoHand, call'[d].hrid}
    BY DEF CancelsAreCurrent
  <2>1. call'[d] = call[d] /\ call[d].at = "cancel" /\ call[d].pid \in Participants
    BY DEF TypeOK, Callers
  <2> QED BY <2>1 DEF HandInv, CancelsAreCurrent
<1> QED BY <1>1, <1>2

LEMMA RaiseBeginHand ==
  ASSUME TypeOK, HandInv, NEW c \in Clients, NEW p \in Participants,
         NEW u \in BOOLEAN, RaiseBegin(c, p, u)
  PROVE  HandInv'
<1>1. /\ p \in Serves[c] /\ c \in Callers
      /\ call' = [call EXCEPT ![c] = [at |-> "raise", pid |-> p,
                                      hrid |-> next, urgent |-> u]]
      /\ UNCHANGED <<queue, hand>>
  BY DEF RaiseBegin, Enter, Callers
<1>2. /\ call'[c].at = "raise" /\ call'[c].pid = p
      /\ \A d \in Clients : d # c => call'[d] = call[d]
  BY <1>1 DEF TypeOK, Callers
<1> QED
  BY <1>1, <1>2 DEF HandInv, QueuedIsHand, CallsServe, CancelsAreCurrent

LEMMA CancelLookupHand ==
  ASSUME TypeOK, HandInv, NEW c \in Clients, NEW p \in Participants,
         CancelLookup(c, p)
  PROVE  HandInv'
<1>1. /\ p \in Serves[c] /\ c \in Callers
      /\ call' = [call EXCEPT ![c] = [Idle EXCEPT !.at = "cancel", !.pid = p,
                                                  !.hrid = hand[p]]]
      /\ UNCHANGED <<queue, hand>>
  BY DEF CancelLookup, Enter, Callers, redis
<1>2. /\ call'[c].at = "cancel" /\ call'[c].pid = p /\ call'[c].hrid = hand[p]
      /\ \A d \in Clients : d # c => call'[d] = call[d]
  BY <1>1 DEF TypeOK, Callers, Idle
<1> QED
  BY <1>1, <1>2 DEF HandInv, QueuedIsHand, CallsServe, CancelsAreCurrent

LEMMA RaiseScriptHand ==
  ASSUME Exclusive, TypeOK, FloorInv, HandInv, NEW c \in Clients, RaiseScript(c)
  PROVE  HandInv'
<1> USE TQAssumption
<1> DEFINE p == call[c].pid
           h == call[c].hrid
           e == [pid |-> p, hrid |-> h, urgent |-> call[c].urgent]
<1>1. /\ p \in Participants /\ p \in Serves[c] /\ c \in Callers /\ e.hrid # NoHand
      /\ call[c].at = "raise"
  BY DEF RaiseScript, TypeOK, Callers, HandInv, CallsServe, HandRaises, NoHand
<1>2. \A d \in Clients : call'[d].at # "idle" => d # c /\ call'[d] = call[d]
  BY <1>1 DEF RaiseScript, Return, TypeOK, Idle, Callers
<1>3. CallsServe'
  BY <1>2 DEF HandInv, CallsServe
<1>4. \A q \in Participants : q # p => hand'[q] = hand[q]
  BY <1>1 DEF RaiseScript, redis, TypeOK
<1>5. CancelsAreCurrent'
  <2> SUFFICES ASSUME NEW d \in Clients, call'[d].at = "cancel"
               PROVE  hand'[call'[d].pid] \in {NoHand, call'[d].hrid}
    BY DEF CancelsAreCurrent
  <2>1. d # c /\ call'[d] = call[d] /\ call[d].at = "cancel"
    BY <1>2
  <2>2. call[d].pid \in Participants /\ call[d].pid # p
    BY <1>1, <2>1 DEF HandInv, CallsServe, Exclusive, TypeOK, Callers
  <2> QED BY <1>4, <2>1, <2>2 DEF HandInv, CancelsAreCurrent
<1>6. QueuedIsHand'
  <2>1. CASE hand[p] # NoHand
    BY <2>1 DEF RaiseScript, redis, HandInv, QueuedIsHand
  <2>2. CASE hand[p] = NoHand /\ speaker # NoOne
    <3>1. queue' = queue \cup {e} /\ hand' = [hand EXCEPT ![p] = h]
      BY <2>2 DEF RaiseScript
    <3>2. \A f \in queue : f.pid # p /\ f.pid \in Participants
      BY <2>2 DEF HandInv, QueuedIsHand, TypeOK, Entry, HandRaises, NoHand
    <3> QED BY <1>1, <3>1, <3>2 DEF HandInv, QueuedIsHand, TypeOK
  <2>3. CASE hand[p] = NoHand /\ speaker = NoOne
    <3>1. queue' = (queue \cup {e}) \ Lowest(queue \cup {e}) /\ queue = {}
      BY <2>3 DEF RaiseScript, FloorInv, NobodyWaitsForAnIdleFloor
    <3> QED BY <3>1 DEF QueuedIsHand, Lowest
  <2> QED BY <2>1, <2>2, <2>3
<1> QED BY <1>3, <1>5, <1>6 DEF HandInv

LEMMA CancelExecHand ==
  ASSUME TypeOK, HandInv, NEW c \in Clients, CancelExec(c)
  PROVE  HandInv'
<1>1. /\ call[c].at = "cancel" /\ call[c].pid \in Participants /\ c \in Callers
      /\ CancelTransaction(call[c].pid, call[c].hrid)
      /\ call' = [call EXCEPT ![c] = Idle]
  BY DEF CancelExec, Return, TypeOK, Callers
<1>2. \A d \in Clients : call'[d] = call[d] \/ call'[d].at \notin {"raise", "cancel"}
  BY <1>1, CallerMoves DEF Idle
<1>3. \A q \in Participants : hand'[q] = hand[q] \/ hand'[q] = NoHand
  BY <1>1 DEF CancelTransaction, TypeOK
<1>4. QueuedIsHand'
  <2> SUFFICES ASSUME NEW e \in queue' PROVE hand'[e.pid] = e.hrid
    BY DEF QueuedIsHand
  <2>1. /\ e \in queue /\ e.pid \in Participants /\ e.hrid # NoHand
        /\ ~(e.pid = call[c].pid /\ e.hrid = call[c].hrid)
    BY <1>1 DEF CancelTransaction, TypeOK, Entry, HandRaises, NoHand
  <2>2. hand[e.pid] = e.hrid
    BY <2>1 DEF HandInv, QueuedIsHand
  <2>3. e.pid # call[c].pid
    BY <1>1, <2>1, <2>2 DEF HandInv, CancelsAreCurrent
  <2> QED BY <1>1, <2>1, <2>2, <2>3 DEF CancelTransaction, TypeOK
<1> QED BY <1>2, <1>3, <1>4, CallsKept DEF HandInv

LEMMA AdvanceHand ==
  ASSUME TypeOK, TicketInv, HandInv, Advance
  PROVE  QueuedIsHand'
<1>1. CASE queue = {}
  BY <1>1 DEF Advance, Lowest, HandInv, QueuedIsHand
<1>2. CASE queue # {}
  <2>1. PICK e \in Lowest(queue) :
          queue' = queue \ {e} /\ hand' = [hand EXCEPT ![e.pid] = NoHand]
    BY <1>2 DEF Advance
  <2>2. e \in queue
    BY <2>1 DEF Lowest
  <2> SUFFICES ASSUME NEW f \in queue' PROVE hand'[f.pid] = f.hrid
    BY DEF QueuedIsHand
  <2>3. /\ f \in queue /\ f # e /\ f.pid \in Participants
        /\ hand[f.pid] = f.hrid /\ hand[e.pid] = e.hrid
    BY <2>1, <2>2 DEF HandInv, QueuedIsHand, TypeOK, Entry
  <2>4. f.pid # e.pid
    BY <2>2, <2>3 DEF TicketInv, EntriesHaveOneId
  <2> QED BY <2>1, <2>3, <2>4 DEF TypeOK
<1> QED BY <1>1, <1>2

LEMMA HandInductive ==
  ASSUME Exclusive, TypeOK, FloorInv, TicketInv, HandInv, [Next]_vars
  PROVE  HandInv'
<1>1. CASE \E c \in Clients, p \in Participants, u \in BOOLEAN : RaiseBegin(c, p, u)
  BY <1>1, RaiseBeginHand
<1>2. CASE \E c \in Clients : RaiseScript(c)
  BY <1>2, RaiseScriptHand
<1>3. CASE \E c \in Clients, p \in Participants : CancelLookup(c, p)
  BY <1>3, CancelLookupHand
<1>4. CASE \E c \in Clients : CancelExec(c)
  BY <1>4, CancelExecHand
<1>5. ASSUME NEW c \in Clients, NEW p \in Participants, NEW h \in HandRaises,
             CancelById(c, p, h)
      PROVE  HandInv'
  BY <1>5 DEF CancelById, Exclusive
<1>6. CASE Quiet
  <2>1. QueuedIsHand'
    BY <1>6, QuietStep DEF HandInv, QueuedIsHand
  <2> QED BY <1>6, <2>1, QuietStep, CallsKept DEF HandInv
<1>7. ASSUME NEW c \in Callers, Finishes(c)
      PROVE  HandInv'
  <2>1. CASE Advance
    BY <1>7, <2>1, FinishStep, AdvanceTickets, AdvanceHand, CallsKept DEF HandInv
  <2>2. CASE UNCHANGED redis
    <3>1. QueuedIsHand' /\ hand' = hand
      BY <2>2 DEF HandInv, QueuedIsHand, redis
    <3> QED BY <1>7, <3>1, FinishStep, CallsKept DEF HandInv
  <2> QED BY <1>7, <2>1, <2>2, FinishStep
<1> QED
  BY NextSplit, <1>1, <1>2, <1>3, <1>4, <1>5, <1>6, <1>7
     DEF Callers, Quiet, Finishes

(* While each participant acts through one client and never lowers a hand  *)
(* by an out-of-date id, every queued entry is its participant's current   *)
(* hand, and nobody is queued twice.  Without the assumption TLC finds     *)
(* OneEntryEach violated.                                                  *)
THEOREM HandsMatchQueue ==
  ASSUME Exclusive
  PROVE  Spec => [](QueuedIsHand /\ OneEntryEach)
<1>1. Init => HandInv
  BY DEF Init, HandInv, QueuedIsHand, CallsServe, CancelsAreCurrent, Idle, Callers
<1>2. TypeOK /\ FloorInv /\ TicketInv /\ HandInv /\ [Next]_vars => HandInv'
  BY HandInductive
<1>3. TicketInv /\ HandInv => QueuedIsHand /\ OneEntryEach
  BY DEF TicketInv, EntriesHaveOneId, HandInv, QueuedIsHand, OneEntryEach
<1> QED BY <1>1, <1>2, <1>3, Typing, FloorSafe, TicketsSafe, PTL DEF Spec

-----------------------------------------------------------------------------
LEMMA FirstIsFirst ==
  ASSUME TypeOK, NEW e \in Lowest(queue), NEW f \in queue, f # e
  PROVE  (f.urgent => e.urgent) /\ (e.urgent = f.urgent => e.hrid < f.hrid)
<1>1. e.urgent \in BOOLEAN /\ f.urgent \in BOOLEAN
  BY DEF TypeOK, Entry, Lowest
<1>2. Before(e, f)
  BY DEF Lowest
<1>3. CASE e.urgent /\ ~f.urgent
  BY <1>1, <1>3
<1>4. CASE e.urgent = f.urgent /\ e.hrid < f.hrid
  BY <1>1, <1>4
<1> QED BY <1>2, <1>3, <1>4 DEF Before

(* However many clients and monitors send their scripts, and in whatever   *)
(* order, the floor is handed on from the queue to nobody whom one still   *)
(* waiting precedes (_FINISH_SPEAKING_SCRIPT, ZPOPMIN).                    *)
THEOREM FloorGoesInOrder == Spec => ServedInOrder
<1> USE TQAssumption
<1>1. ASSUME TypeOK, FloorInv, [Next]_vars,
             NEW e \in queue \ queue', NEW f \in queue \cap queue',
             speaker' = e.pid, speaker' # speaker
      PROVE  (f.urgent => e.urgent) /\ (e.urgent = f.urgent => e.hrid < f.hrid)
  <2>1. ASSUME NEW c \in Clients, RaiseScript(c) PROVE FALSE
    <3>2. CASE speaker # NoOne
      BY <1>1, <2>1, <3>2 DEF RaiseScript, redis
    <3>3. CASE speaker = NoOne
      BY <1>1, <3>3 DEF FloorInv, NobodyWaitsForAnIdleFloor
    <3> QED BY <3>2, <3>3
  <2>2. ~\E p \in Participants, h \in HandRaises : CancelTransaction(p, h)
    BY <1>1 DEF CancelTransaction
  <2>3. Advance
    BY <1>1, <2>1, <2>2, FloorStep
  <2>4. PICK g \in Lowest(queue) : queue' = queue \ {g}
    BY <1>1, <2>3 DEF Advance
  <2>5. g = e /\ f # e
    BY <1>1, <2>4
  <2> QED BY <1>1, <2>4, <2>5, FirstIsFirst
<1>2. TypeOK /\ FloorInv /\ [Next]_vars =>
        [\A e \in queue \ queue', f \in queue \cap queue' :
           speaker' = e.pid /\ speaker' # speaker =>
             (f.urgent => e.urgent) /\ (e.urgent = f.urgent => e.hrid < f.hrid)]_vars
  BY <1>1
<1> QED BY <1>2, Typing, FloorSafe, PTL DEF Spec, ServedInOrder

=============================================================================
