------------------------ MODULE SegmentWindowsProofs -------------------------
(***************************************************************************)
(* Proofs about SegmentWindows, for every number of workers, segments and  *)
(* crashes and every window and overlap the constructor accepts.           *)
(***************************************************************************)
EXTENDS SegmentWindows, FiniteSetTheorems, TLAPS

(* TypeOK, and that sequences and functions are what they look like.       *)
Types ==
  /\ TypeOK
  /\ stream \in Seq(Times)
  /\ Len(stream) <= MaxSegments
  /\ hand \in [Workers -> Seq(Nat)]
  /\ buffer \in [Workers -> SUBSET Nat]
  /\ seen \in [Workers -> SUBSET Nat]

LEMMA WindowEndType ==
  ASSUME Types, NEW w \in Workers, emitting[w], WindowIsFull(w)
  PROVE  /\ wstart[w] \in Nat
         /\ WindowEnd(w) \in Nat
         /\ NextStart(w) \in Nat
         /\ NextStart(w) <= WindowEnd(w)
<1>1. wstart[w] \in Nat
  BY DEF Types, TypeOK, WindowIsFull, Unknown
<1> QED
  BY <1>1, SWAssumption DEF WindowEnd, NextStart

LEMMA StreamTimes ==
  ASSUME Types, NEW i \in 1..last
  PROVE  /\ i \in DOMAIN stream
         /\ stream[i].start \in Nat
         /\ stream[i].end \in Nat
         /\ stream[i].start < stream[i].end
<1>1. i \in DOMAIN stream
  BY DEF Types, TypeOK
<1>2. stream[i] \in Times
  BY <1>1 DEF Types, TypeOK
<1> QED
  BY <1>1, <1>2, SWAssumption DEF Times

LEMMA TypesInit == Init => Types
BY SWAssumption DEF Init, Types, TypeOK, Positions, Unknown, Times, Windowed

LEMMA SegmentTypes ==
  ASSUME Types, NEW t \in Times, Segment(t)
  PROVE  Types'
<1>1. stream' \in Seq(Times) /\ Len(stream') = Len(stream) + 1
  BY DEF Types, Segment
<1>2. \A i \in DOMAIN stream' : stream'[i] \in Times
  BY <1>1
<1> QED
  BY <1>1, <1>2, SWAssumption DEF Types, TypeOK, Segment, windower, Windowed

LEMMA ReadTypes ==
  ASSUME Types, NEW w \in Workers, Read(w)
  PROVE  Types'
<1>1. PICK k \in 1..BatchSize :
        /\ last + k <= Len(stream)
        /\ last' = last + k
        /\ hand' = [hand EXCEPT ![w] = [i \in 1..k |-> last + i]]
  BY DEF Read
<1>2. last \in Nat /\ k \in Nat /\ last' \in 0..Len(stream) /\ 1..last \subseteq 1..last'
  BY <1>1, SWAssumption DEF Types, TypeOK
<1>3. [i \in 1..k |-> last + i] \in Seq(Nat)
  BY <1>2
<1>4. hand' \in [Workers -> Seq(Nat)]
  BY <1>1, <1>3 DEF Types
<1>5. \A v \in Workers : \A i \in DOMAIN hand'[v] : hand'[v][i] \in 1..last'
  BY <1>1, <1>2 DEF Types, TypeOK
<1>6. \A v \in Workers : emitting[v] => hand'[v] # <<>>
  <2>1. ~emitting[w]
    BY DEF Read, Types, TypeOK
  <2>2. \A v \in Workers : v # w => hand'[v] = hand[v]
    BY <1>1 DEF Types
  <2> QED
    BY <2>1, <2>2 DEF Types, TypeOK
<1>7. \A v \in Workers : buffer[v] \subseteq 1..last'
  BY <1>2 DEF Types, TypeOK
<1>8. pruned \subseteq 1..last'
  BY <1>2 DEF Types, TypeOK
<1> QED
  BY <1>2, <1>4, <1>5, <1>6, <1>7, <1>8 DEF Types, TypeOK, Read, windower, Windowed

LEMMA HandMoves ==
  ASSUME Types, NEW w \in Workers, NEW b \in BOOLEAN,
         emitting' = [emitting EXCEPT ![w] = b],
         \/ b /\ hand[w] # <<>> /\ UNCHANGED hand
         \/ ~b /\ hand[w] # <<>> /\ hand' = [hand EXCEPT ![w] = Tail(@)]
         \/ ~b /\ hand' = [hand EXCEPT ![w] = <<>>],
         UNCHANGED <<stream, last>>
  PROVE  /\ hand' \in [Workers -> Seq(Nat)]
         /\ \A v \in Workers : \A i \in DOMAIN hand'[v] : hand'[v][i] \in 1..last'
         /\ emitting' \in [Workers -> BOOLEAN]
         /\ \A v \in Workers : emitting'[v] => hand'[v] # <<>>
<1>1. \A v \in Workers \ {w} : hand'[v] = hand[v] /\ emitting'[v] = emitting[v]
  BY DEF Types, TypeOK
<1>2. hand[w] # <<>> => Tail(hand[w]) \in Seq(Nat)
                         /\ \A i \in DOMAIN Tail(hand[w]) : Tail(hand[w])[i] \in 1..last
  <2> SUFFICES ASSUME hand[w] # <<>>
               PROVE  /\ Tail(hand[w]) \in Seq(Nat)
                      /\ \A i \in DOMAIN Tail(hand[w]) : Tail(hand[w])[i] \in 1..last
    OBVIOUS
  <2>1. hand[w] \in Seq(Nat) /\ \A i \in DOMAIN hand[w] : hand[w][i] \in 1..last
    BY DEF Types, TypeOK
  <2> QED
    BY <2>1
<1>3. /\ hand'[w] \in Seq(Nat)
      /\ \A i \in DOMAIN hand'[w] : hand'[w][i] \in 1..last
      /\ b => hand'[w] # <<>>
  <2>1. CASE UNCHANGED hand /\ hand[w] # <<>>
    BY <2>1 DEF Types, TypeOK
  <2>2. CASE ~b /\ hand[w] # <<>> /\ hand' = [hand EXCEPT ![w] = Tail(@)]
    <3>1. hand'[w] = Tail(hand[w])
      BY <2>2 DEF Types
    <3>2. hand'[w] \in Seq(Nat)
      BY <1>2, <2>2, <3>1
    <3>3. \A i \in DOMAIN hand'[w] : hand'[w][i] \in 1..last
      BY <1>2, <2>2, <3>1, Zenon
    <3> QED
      BY <2>2, <3>2, <3>3, Zenon
  <2>3. CASE ~b /\ hand' = [hand EXCEPT ![w] = <<>>]
    <3>1. hand'[w] = <<>>
      BY <2>3 DEF Types
    <3>2. hand'[w] \in Seq(Nat) /\ DOMAIN hand'[w] = {}
      BY <3>1
    <3> QED
      BY <2>3, <3>2, Zenon
  <2> QED
    BY <2>1, <2>2, <2>3
<1>4. emitting' \in [Workers -> BOOLEAN] /\ emitting'[w] = b
  BY DEF Types, TypeOK
<1>5. hand' \in [Workers -> Seq(Nat)]
  BY <1>1, <1>3 DEF Types
<1> QED
  BY <1>1, <1>3, <1>4, <1>5 DEF Types, TypeOK

LEMMA TypesStep == Types /\ [Next]_vars => Types'
<1> SUFFICES ASSUME Types, [Next]_vars PROVE Types'
  OBVIOUS
<1>1. ASSUME NEW t \in Times, Segment(t) PROVE Types'
  BY <1>1, SegmentTypes
<1>2. ASSUME NEW w \in Workers, Read(w) PROVE Types'
  BY <1>2, ReadTypes
<1>3. ASSUME NEW w \in Workers, AddSegment(w) PROVE Types'
  <2>1. Head(hand[w]) \in 1..last /\ 1 \in DOMAIN hand[w]
    BY <1>3 DEF AddSegment, Types, TypeOK
  <2>2. stream[Head(hand[w])].start \in Nat
    BY <2>1, StreamTimes
  <2>3. /\ wstart' \in [Workers -> Nat \cup {Unknown}]
        /\ \A v \in Workers : buffer'[v] # {} => wstart'[v] # Unknown
        /\ buffer' \in [Workers -> SUBSET Nat]
        /\ \A v \in Workers : buffer'[v] \subseteq 1..last
    BY <1>3, <2>1, <2>2 DEF AddSegment, Types, TypeOK, Unknown
  <2>4. /\ hand' = hand
        /\ \A v \in Workers : emitting'[v] => hand'[v] # <<>>
        /\ emitting' \in [Workers -> BOOLEAN]
    BY <1>3 DEF AddSegment, Types, TypeOK
  <2> QED
    BY <1>3, <2>3, <2>4 DEF AddSegment, Types, TypeOK, Windowed
<1>4. ASSUME NEW w \in Workers, Emit(w) PROVE Types'
  <2>1. PICK found \in SUBSET (Window(w) \cap Facts) :
          /\ seen' = [seen EXCEPT ![w] = @ \cup found]
          /\ \/ published' = [p \in Positions |->
                   published[p] + IF p \in found \ seen[w] THEN 1 ELSE 0]
             \/ UNCHANGED published
    BY <1>4 DEF Emit
  <2>2. published' \in [Positions -> Nat]
    BY <2>1 DEF Types, TypeOK
  <2>3. Window(w) \subseteq buffer[w] /\ Kept(w) \subseteq buffer[w]
    BY DEF Window, Kept
  <2>4. \A v \in Workers : seen'[v] \subseteq Windowed' /\ seen' \in [Workers -> SUBSET Nat]
    BY <1>4, <2>1, <2>3 DEF Emit, Types, TypeOK, Windowed
  <2>5. wstart' \in [Workers -> Nat \cup {Unknown}]
    BY <1>4, WindowEndType DEF Emit, Types, TypeOK
  <2>6. \A v \in Workers : buffer'[v] # {} => wstart'[v] # Unknown
    BY <1>4, WindowEndType DEF Emit, Types, TypeOK, Unknown
  <2>7. /\ buffer' \in [Workers -> SUBSET Nat]
        /\ \A v \in Workers : buffer'[v] \subseteq 1..last
        /\ pruned' \subseteq 1..last
    BY <1>4, <2>3 DEF Emit, Types, TypeOK
  <2> QED
    BY <1>4, <2>2, <2>4, <2>5, <2>6, <2>7 DEF Emit, Types, TypeOK
<1>5. ASSUME NEW w \in Workers, Acknowledge(w) PROVE Types'
  <2>1. hand[w] # <<>>
    BY <1>5 DEF Acknowledge, Types, TypeOK
  <2> QED
    BY <1>5, <2>1, HandMoves DEF Acknowledge, windower, Types, TypeOK, Windowed
<1>6. ASSUME NEW w \in Workers, LosesConnection(w) PROVE Types'
  BY <1>6, HandMoves DEF LosesConnection, windower, Types, TypeOK, Windowed
<1>7. ASSUME NEW w \in Workers, Crash(w) PROVE Types'
  BY <1>7, HandMoves DEF Crash, Types, TypeOK, Windowed
<1>8. ASSUME UNCHANGED vars PROVE Types'
  BY <1>8 DEF vars, windower, Types, TypeOK, Windowed
<1> QED
  BY <1>1, <1>2, <1>3, <1>4, <1>5, <1>6, <1>7, <1>8 DEF Next, Works

LEMMA TypesSafe == Spec => []Types
BY TypesInit, TypesStep, PTL DEF Spec

(* Positions, tables and windows have their types, and a worker inside     *)
(* _try_emit still holds the entry it has to acknowledge.                  *)
THEOREM WindowTyping == Spec => []TypeOK
<1>1. Types => TypeOK
  BY DEF Types
<1> QED
  BY <1>1, TypesSafe, PTL

-----------------------------------------------------------------------------
(* What a window does not take ends after its end, so after the next one's *)
(* start, and stays in the buffer.                                         *)
LEMMA PrunedWasInWindow ==
  ASSUME Types, NEW w \in Workers, emitting[w], WindowIsFull(w)
  PROVE  buffer[w] \ Kept(w) \subseteq Window(w)
<1> SUFFICES ASSUME NEW i \in buffer[w], i \notin Kept(w)
             PROVE  i \in Window(w)
  OBVIOUS
<1>1. i \in 1..last
  BY DEF Types, TypeOK
<1>2. ~(stream[i].end > NextStart(w))
  BY DEF Kept
<1> QED
  BY <1>1, <1>2, StreamTimes, WindowEndType DEF Window

(* No segment leaves the buffer of add_segment before it was in a window,  *)
(* in whatever order segments come and whichever worker restarts.          *)
THEOREM NoneDroppedUnseen == Spec => []NothingPrunedUnseen
<1>1. Init => NothingPrunedUnseen
  BY DEF Init, NothingPrunedUnseen
<1>2. Types /\ NothingPrunedUnseen /\ [Next]_vars => NothingPrunedUnseen'
  <2> SUFFICES ASSUME Types, NothingPrunedUnseen, [Next]_vars
               PROVE  NothingPrunedUnseen'
    OBVIOUS
  <2>1. ASSUME NEW w \in Workers, Emit(w) PROVE NothingPrunedUnseen'
    <3>1. buffer[w] \ Kept(w) \subseteq Window(w)
      BY <2>1, PrunedWasInWindow DEF Emit
    <3> QED
      BY <2>1, <3>1 DEF Emit, NothingPrunedUnseen, Windowed
  <2>2. ASSUME UNCHANGED <<windows, pruned>> PROVE NothingPrunedUnseen'
    BY <2>2 DEF NothingPrunedUnseen, Windowed
  <2>3. (\E w \in Workers : Emit(w)) \/ UNCHANGED <<windows, pruned>>
    BY DEF Next, Works, Segment, Read, AddSegment, Acknowledge, LosesConnection,
           Crash, windower, vars
  <2> QED
    BY <2>1, <2>2, <2>3
<1> QED
  BY <1>1, <1>2, TypesSafe, PTL DEF Spec
-----------------------------------------------------------------------------
(* The entries a worker has read and not put into its buffer yet.          *)
ToAdd(w) == {i \in DOMAIN hand[w] : i > 1 \/ ~emitting[w]}

(* Entries are read in order; no other worker has them, and they were      *)
(* neither buffered nor published before.                                  *)
HandsAreFresh ==
  /\ \A w \in Workers : \A i, j \in DOMAIN hand[w] : i < j => hand[w][i] < hand[w][j]
  /\ \A v, w \in Workers : v # w =>
       \A i \in DOMAIN hand[v], j \in DOMAIN hand[w] : hand[v][i] # hand[w][j]
  /\ \A v, w \in Workers : \A i \in ToAdd(w) : hand[w][i] \notin buffer[v]
  /\ \A w \in Workers : \A i \in ToAdd(w) :
       hand[w][i] \in Positions => published[hand[w][i]] = 0
  /\ \A p \in Positions : p > last => published[p] = 0

(* A segment is in one buffer; if its fact was published, the same worker  *)
(* has seen it.                                                            *)
BuffersAreOwn ==
  /\ \A v, w \in Workers : v # w => buffer[v] \cap buffer[w] = {}
  /\ \A w \in Workers : \A p \in buffer[w] \cap Positions : published[p] > 0 => p \in seen[w]

OwnInv == HandsAreFresh /\ BuffersAreOwn /\ PublishedOnce

LEMMA ReadOwn ==
  ASSUME Types, OwnInv, NEW w \in Workers, Read(w)
  PROVE  OwnInv'
<1>1. PICK k \in 1..BatchSize :
        /\ last' = last + k
        /\ hand' = [hand EXCEPT ![w] = [i \in 1..k |-> last + i]]
  BY DEF Read
<1>2. last \in Nat /\ k \in Nat
  BY SWAssumption DEF Types, TypeOK
<1>3. /\ hand'[w] = [i \in 1..k |-> last + i]
      /\ DOMAIN hand'[w] = 1..k
      /\ \A i \in DOMAIN hand'[w] : hand'[w][i] = last + i /\ i >= 1
  BY <1>1, <1>2 DEF Types
<1>4. \A v \in Workers \ {w} : hand'[v] = hand[v]
  BY <1>1 DEF Types
<1>5. \A v \in Workers : \A i \in DOMAIN hand[v] : hand[v][i] \in Nat /\ hand[v][i] <= last
  BY <1>2 DEF Types, TypeOK
<1>6. UNCHANGED <<emitting, buffer, seen, published>>
  BY DEF Read, windower
<1>7. \A v \in Workers : \A p \in buffer[v] : p <= last
  BY <1>2 DEF Types, TypeOK
<1>8. \A v \in Workers \ {w} : ToAdd(v)' = ToAdd(v)
  BY <1>4, <1>6 DEF ToAdd
<1>9. HandsAreFresh'
  <2>1. \A v \in Workers : \A i, j \in DOMAIN hand'[v] : i < j => hand'[v][i] < hand'[v][j]
    <3> SUFFICES ASSUME NEW v \in Workers, NEW i \in DOMAIN hand'[v],
                        NEW j \in DOMAIN hand'[v], i < j
                 PROVE  hand'[v][i] < hand'[v][j]
      OBVIOUS
    <3>1. CASE v = w
      <4>1. i \in 1..k /\ j \in 1..k
        BY <1>3, <3>1
      <4>2. hand'[w][i] = last + i /\ hand'[w][j] = last + j
        BY <1>3, <3>1
      <4> QED
        BY <1>2, <3>1, <4>1, <4>2
    <3>2. CASE v # w
      BY <3>2, <1>4 DEF OwnInv, HandsAreFresh
    <3> QED
      BY <3>1, <3>2
  <2>2. \A u, v \in Workers : u # v =>
          \A i \in DOMAIN hand'[u], j \in DOMAIN hand'[v] : hand'[u][i] # hand'[v][j]
    BY <1>2, <1>3, <1>4, <1>5 DEF OwnInv, HandsAreFresh
  <2>3. \A u, v \in Workers : \A i \in ToAdd(v)' : hand'[v][i] \notin buffer'[u]
    <3> SUFFICES ASSUME NEW u \in Workers, NEW v \in Workers, NEW i \in ToAdd(v)'
                 PROVE  hand'[v][i] \notin buffer[u]
      BY <1>6
    <3>1. CASE v = w
      BY <3>1, <1>2, <1>3, <1>7 DEF ToAdd
    <3>2. CASE v # w
      BY <3>2, <1>4, <1>8 DEF OwnInv, HandsAreFresh
    <3> QED
      BY <3>1, <3>2
  <2>4. \A v \in Workers : \A i \in ToAdd(v)' :
          hand'[v][i] \in Positions => published'[hand'[v][i]] = 0
    <3> SUFFICES ASSUME NEW v \in Workers, NEW i \in ToAdd(v)', hand'[v][i] \in Positions
                 PROVE  published[hand'[v][i]] = 0
      BY <1>6
    <3>1. CASE v = w
      BY <3>1, <1>2, <1>3 DEF ToAdd, OwnInv, HandsAreFresh
    <3>2. CASE v # w
      BY <3>2, <1>4, <1>8 DEF OwnInv, HandsAreFresh
    <3> QED
      BY <3>1, <3>2
  <2>5. \A p \in Positions : p > last' => published'[p] = 0
    BY <1>1, <1>2, <1>6 DEF OwnInv, HandsAreFresh, Positions
  <2> QED
    BY <2>1, <2>2, <2>3, <2>4, <2>5 DEF HandsAreFresh
<1> QED
  BY <1>6, <1>9 DEF OwnInv, BuffersAreOwn, PublishedOnce

(* The head of the hand moves into the buffer: it is no longer to be added *)
(* and was in no buffer.                                                   *)
LEMMA AddOwn ==
  ASSUME Types, OwnInv, NEW w \in Workers, AddSegment(w)
  PROVE  OwnInv'
<1> DEFINE h == Head(hand[w])
<1>1. 1 \in ToAdd(w) /\ h = hand[w][1] /\ hand[w] # <<>>
  BY DEF AddSegment, Types, ToAdd
<1>2. UNCHANGED <<last, hand, seen, published>>
  BY DEF AddSegment
<1>3. \A v \in Workers : buffer'[v] = IF v = w THEN buffer[w] \cup {h} ELSE buffer[v]
  BY DEF AddSegment, Types
<1>4. emitting'[w] /\ \A v \in Workers \ {w} : emitting'[v] = emitting[v]
  BY DEF AddSegment, Types, TypeOK
<1>5. \A v \in Workers : ToAdd(v)' \subseteq ToAdd(v) /\ (v = w => 1 \notin ToAdd(v)')
  <2>1. ~(1 > 1)
    OBVIOUS
  <2>2. 1 \notin ToAdd(w)'
    BY <2>1, <1>4 DEF ToAdd
  <2>3. ToAdd(w)' \subseteq ToAdd(w)
    BY <1>2, <1>4 DEF ToAdd, AddSegment
  <2>4. \A v \in Workers \ {w} : ToAdd(v)' = ToAdd(v)
    BY <1>2, <1>4 DEF ToAdd
  <2> QED
    BY <2>2, <2>3, <2>4
<1>6. \A v \in Workers : \A i \in ToAdd(v)' : hand[v][i] # h
  <2> SUFFICES ASSUME NEW v \in Workers, NEW i \in ToAdd(v)' PROVE hand[v][i] # h
    OBVIOUS
  <2>1. i \in DOMAIN hand[v] /\ 1 \in DOMAIN hand[w]
    BY <1>1, <1>5 DEF ToAdd
  <2>2. CASE v # w
    BY <2>1, <2>2, <1>1 DEF OwnInv, HandsAreFresh
  <2>3. CASE v = w
    <3>1. i > 1
      BY <2>1, <2>3, <1>5 DEF Types
    <3>2. hand[w][1] < hand[w][i]
      BY <2>1, <2>3, <3>1 DEF OwnInv, HandsAreFresh
    <3> QED
      BY <2>1, <2>3, <3>2, <1>1 DEF Types
  <2> QED
    BY <2>2, <2>3
<1>7. HandsAreFresh'
  BY <1>2, <1>3, <1>5, <1>6 DEF OwnInv, HandsAreFresh
<1>8. \A v \in Workers : h \notin buffer[v]
  BY <1>1 DEF OwnInv, HandsAreFresh
<1>9. h \in Positions => published[h] = 0
  BY <1>1 DEF OwnInv, HandsAreFresh
<1>10. BuffersAreOwn'
  BY <1>2, <1>3, <1>8, <1>9 DEF OwnInv, BuffersAreOwn
<1> QED
  BY <1>2, <1>7, <1>10 DEF OwnInv, PublishedOnce

(* A window is taken from one buffer only: its facts are seen by this      *)
(* worker, and those published before were.                                *)
LEMMA EmitOwn ==
  ASSUME Types, OwnInv, NEW w \in Workers, Emit(w)
  PROVE  OwnInv'
<1>1. PICK found \in SUBSET (Window(w) \cap Facts) :
        /\ seen' = [seen EXCEPT ![w] = @ \cup found]
        /\ \/ published' = [p \in Positions |->
                 published[p] + IF p \in found \ seen[w] THEN 1 ELSE 0]
           \/ UNCHANGED published
  BY DEF Emit
<1>2. found \subseteq buffer[w]
  BY DEF Window
<1>3. UNCHANGED <<last, hand, emitting>>
  BY DEF Emit
<1>4. \A v \in Workers : buffer'[v] \subseteq buffer[v]
  BY DEF Emit, Kept, Types
<1>5. \A v \in Workers : seen'[v] = IF v = w THEN seen[w] \cup found ELSE seen[v]
  BY <1>1 DEF Types
<1>6. \A p \in Positions : published[p] \in Nat
  BY DEF Types, TypeOK
<1>7. \A p \in Positions :
        \/ published'[p] = published[p]
        \/ p \in found /\ p \notin seen[w] /\ published'[p] = published[p] + 1
  BY <1>1, <1>6
<1>8. \A v \in Workers : ToAdd(v)' = ToAdd(v)
  BY <1>3 DEF ToAdd
<1>9. \A p \in buffer[w] : p \in Nat /\ p <= last
  BY DEF Types, TypeOK
<1>10. HandsAreFresh'
  <2>1. \A u, v \in Workers : \A i \in ToAdd(v)' : hand'[v][i] \notin buffer'[u]
    BY <1>3, <1>4, <1>8 DEF OwnInv, HandsAreFresh
  <2>2. \A v \in Workers : \A i \in ToAdd(v)' :
          hand'[v][i] \in Positions => published'[hand'[v][i]] = 0
    <3> SUFFICES ASSUME NEW v \in Workers, NEW i \in ToAdd(v), hand[v][i] \in Positions
                 PROVE  published'[hand[v][i]] = 0
      BY <1>3, <1>8
    <3>1. hand[v][i] \notin found /\ published[hand[v][i]] = 0
      BY <1>2 DEF OwnInv, HandsAreFresh
    <3> QED
      BY <3>1, <1>7
  <2>3. \A p \in Positions : p > last' => published'[p] = 0
    <3> SUFFICES ASSUME NEW p \in Positions, p > last PROVE published'[p] = 0
      BY <1>3
    <3>1. p \notin found
      BY <1>2, <1>9 DEF Types, TypeOK, Positions
    <3> QED
      BY <3>1, <1>7 DEF OwnInv, HandsAreFresh
  <2> QED
    BY <1>3, <2>1, <2>2, <2>3 DEF OwnInv, HandsAreFresh
<1>11. BuffersAreOwn'
  <2>1. \A u, v \in Workers : u # v => buffer'[u] \cap buffer'[v] = {}
    BY <1>4 DEF OwnInv, BuffersAreOwn
  <2>2. \A v \in Workers : \A p \in buffer'[v] \cap Positions : published'[p] > 0 => p \in seen'[v]
    <3> SUFFICES ASSUME NEW v \in Workers, NEW p \in buffer'[v] \cap Positions,
                        published'[p] > 0
                 PROVE  p \in seen'[v]
      OBVIOUS
    <3>1. CASE p \in found
      <4>1. v = w
        BY <3>1, <1>2, <1>4 DEF OwnInv, BuffersAreOwn
      <4> QED
        BY <3>1, <4>1, <1>5
    <3>2. CASE p \notin found
      <4>1. published[p] > 0
        BY <3>2, <1>7
      <4> QED
        BY <4>1, <1>4, <1>5 DEF OwnInv, BuffersAreOwn
    <3> QED
      BY <3>1, <3>2
  <2> QED
    BY <2>1, <2>2 DEF BuffersAreOwn
<1>12. PublishedOnce'
  <2> SUFFICES ASSUME NEW p \in Positions PROVE published'[p] <= 1
    BY DEF PublishedOnce
  <2>1. CASE published'[p] = published[p]
    BY <2>1 DEF OwnInv, PublishedOnce
  <2>2. CASE p \in found /\ p \notin seen[w] /\ published'[p] = published[p] + 1
    <3>1. ~(published[p] > 0)
      BY <2>2, <1>2 DEF OwnInv, BuffersAreOwn
    <3> QED
      BY <2>2, <3>1, <1>6
  <2> QED
    BY <2>1, <2>2, <1>7
<1> QED
  BY <1>10, <1>11, <1>12 DEF OwnInv

(* The entry is done: what is left of the hand moves up by one place.      *)
LEMMA AcknowledgeOwn ==
  ASSUME Types, OwnInv, NEW w \in Workers, Acknowledge(w)
  PROVE  OwnInv'
<1>1. hand[w] # <<>> /\ emitting[w]
  BY DEF Acknowledge, Types, TypeOK
<1>2. /\ hand'[w] = Tail(hand[w])
      /\ \A v \in Workers \ {w} : hand'[v] = hand[v] /\ emitting'[v] = emitting[v]
  BY DEF Acknowledge, Types, TypeOK
<1>3. \A i \in DOMAIN hand'[w] :
        /\ i \in Nat /\ i + 1 > 1
        /\ i + 1 \in DOMAIN hand[w]
        /\ hand'[w][i] = hand[w][i + 1]
  BY <1>1, <1>2 DEF Types
<1>4. UNCHANGED <<last, buffer, seen, published>>
  BY DEF Acknowledge, windower
<1>5. \A v \in Workers \ {w} : ToAdd(v)' = ToAdd(v)
  BY <1>2 DEF ToAdd
<1>6. \A i \in DOMAIN hand'[w] : i + 1 \in ToAdd(w)
  BY <1>3 DEF ToAdd
<1>7. ToAdd(w)' \subseteq DOMAIN hand'[w]
  BY DEF ToAdd
<1>8. HandsAreFresh'
  <2>1. \A v \in Workers : \A i, j \in DOMAIN hand'[v] : i < j => hand'[v][i] < hand'[v][j]
    <3> SUFFICES ASSUME NEW v \in Workers, NEW i \in DOMAIN hand'[v],
                        NEW j \in DOMAIN hand'[v], i < j
                 PROVE  hand'[v][i] < hand'[v][j]
      OBVIOUS
    <3>1. CASE v = w
      <4>1. i + 1 < j + 1
        BY <3>1, <1>3
      <4> QED
        BY <3>1, <4>1, <1>3 DEF OwnInv, HandsAreFresh
    <3>2. CASE v # w
      BY <3>2, <1>2 DEF OwnInv, HandsAreFresh
    <3> QED
      BY <3>1, <3>2
  <2>2. \A u, v \in Workers : u # v =>
          \A i \in DOMAIN hand'[u], j \in DOMAIN hand'[v] : hand'[u][i] # hand'[v][j]
    <3> SUFFICES ASSUME NEW u \in Workers, NEW v \in Workers, u # v,
                        NEW i \in DOMAIN hand'[u], NEW j \in DOMAIN hand'[v]
                 PROVE  hand'[u][i] # hand'[v][j]
      OBVIOUS
    <3>1. CASE u = w
      BY <3>1, <1>2, <1>3 DEF OwnInv, HandsAreFresh
    <3>2. CASE v = w
      BY <3>2, <1>2, <1>3 DEF OwnInv, HandsAreFresh
    <3>3. CASE u # w /\ v # w
      BY <3>3, <1>2 DEF OwnInv, HandsAreFresh
    <3> QED
      BY <3>1, <3>2, <3>3
  <2>3. \A u, v \in Workers : \A i \in ToAdd(v)' : hand'[v][i] \notin buffer'[u]
    <3> SUFFICES ASSUME NEW u \in Workers, NEW v \in Workers, NEW i \in ToAdd(v)'
                 PROVE  hand'[v][i] \notin buffer[u]
      BY <1>4
    <3>1. CASE v = w
      BY <3>1, <1>3, <1>6, <1>7 DEF OwnInv, HandsAreFresh
    <3>2. CASE v # w
      BY <3>2, <1>2, <1>5 DEF OwnInv, HandsAreFresh
    <3> QED
      BY <3>1, <3>2
  <2>4. \A v \in Workers : \A i \in ToAdd(v)' :
          hand'[v][i] \in Positions => published'[hand'[v][i]] = 0
    <3> SUFFICES ASSUME NEW v \in Workers, NEW i \in ToAdd(v)', hand'[v][i] \in Positions
                 PROVE  published[hand'[v][i]] = 0
      BY <1>4
    <3>1. CASE v = w
      BY <3>1, <1>3, <1>6, <1>7 DEF OwnInv, HandsAreFresh
    <3>2. CASE v # w
      BY <3>2, <1>2, <1>5 DEF OwnInv, HandsAreFresh
    <3> QED
      BY <3>1, <3>2
  <2> QED
    BY <1>4, <2>1, <2>2, <2>3, <2>4 DEF OwnInv, HandsAreFresh
<1> QED
  BY <1>4, <1>8 DEF OwnInv, BuffersAreOwn, PublishedOnce

(* What a worker loses with its connection or its memory is in no hand and *)
(* no buffer any more.                                                     *)
LEMMA LossOwn ==
  ASSUME Types, OwnInv, NEW w \in Workers,
         hand' = [hand EXCEPT ![w] = <<>>],
         \A v \in Workers \ {w} :
           emitting'[v] = emitting[v] /\ buffer'[v] = buffer[v] /\ seen'[v] = seen[v],
         buffer'[w] = {} \/ (buffer'[w] = buffer[w] /\ seen'[w] = seen[w]),
         UNCHANGED <<last, published>>
  PROVE  OwnInv'
<1>1. DOMAIN hand'[w] = {} /\ \A v \in Workers \ {w} : hand'[v] = hand[v]
  BY DEF Types
<1>2. ToAdd(w)' = {} /\ \A v \in Workers \ {w} : ToAdd(v)' = ToAdd(v)
  BY <1>1 DEF ToAdd
<1>3. \A v \in Workers : buffer'[v] \subseteq buffer[v]
  OBVIOUS
<1>4. HandsAreFresh'
  BY <1>1, <1>2, <1>3 DEF OwnInv, HandsAreFresh
<1>5. BuffersAreOwn'
  BY <1>3 DEF OwnInv, BuffersAreOwn
<1> QED
  BY <1>4, <1>5 DEF OwnInv, PublishedOnce

LEMMA OwnStep == Types /\ OwnInv /\ [Next]_vars => OwnInv'
<1> SUFFICES ASSUME Types, OwnInv, [Next]_vars PROVE OwnInv'
  OBVIOUS
<1>1. ASSUME NEW w \in Workers, LosesConnection(w) PROVE OwnInv'
  <2>1. \A v \in Workers \ {w} : emitting'[v] = emitting[v]
    BY <1>1 DEF LosesConnection, Types, TypeOK
  <2> QED
    BY <1>1, <2>1, LossOwn DEF LosesConnection, windower
<1>2. ASSUME NEW w \in Workers, Crash(w) PROVE OwnInv'
  <2>1. \A v \in Workers \ {w} :
          emitting'[v] = emitting[v] /\ buffer'[v] = buffer[v] /\ seen'[v] = seen[v]
    BY <1>2 DEF Crash, Types, TypeOK
  <2>2. buffer'[w] = {}
    BY <1>2 DEF Crash, Types
  <2> QED
    BY <1>2, <2>1, <2>2, LossOwn DEF Crash
<1>3. ASSUME UNCHANGED <<last, hand, emitting, buffer, seen, published>> PROVE OwnInv'
  BY <1>3 DEF OwnInv, HandsAreFresh, BuffersAreOwn, PublishedOnce, ToAdd
<1>4. \/ \E w \in Workers : \/ Read(w) \/ AddSegment(w) \/ Emit(w) \/ Acknowledge(w)
                            \/ LosesConnection(w) \/ Crash(w)
      \/ UNCHANGED <<last, hand, emitting, buffer, seen, published>>
  BY DEF Next, Works, Segment, vars, windower
<1> QED
  BY <1>1, <1>2, <1>3, <1>4, ReadOwn, AddOwn, EmitOwn, AcknowledgeOwn

(* No fact is published twice: neither the overlap of the windows nor a    *)
(* lost connection, a restart or another instance repeats it.              *)
THEOREM FactsPublishedOnce == Spec => []PublishedOnce
<1>1. Init => OwnInv
  BY DEF Init, OwnInv, HandsAreFresh, BuffersAreOwn, PublishedOnce, ToAdd
<1>2. OwnInv => PublishedOnce
  BY DEF OwnInv
<1> QED
  BY <1>1, <1>2, OwnStep, TypesSafe, PTL DEF Spec

-----------------------------------------------------------------------------
(* One worker that does not restart: what it has put into its buffer so    *)
(* far is the start of the stream, and while it empties the buffer the     *)
(* last one of it goes last.                                               *)
Done(w) == last - Len(hand[w]) + (IF emitting[w] THEN 1 ELSE 0)

TakenInOrder(w) ==
  /\ Len(hand[w]) <= last
  /\ \A x \in 1..Len(hand[w]) : hand[w][x] = last - Len(hand[w]) + x
  /\ buffer[w] \cup pruned = 1..Done(w)
  /\ emitting[w] /\ buffer[w] # {} => Done(w) \in buffer[w]

(* When a segment was dropped, one was there that ends too late to be      *)
(* close to it, as all later ones do.                                      *)
FarBehind == \A i \in pruned : \E l \in 1..last : stream[l].end - stream[i].start > Overlap

(* A dropped segment shares a window with every one of the stream that is  *)
(* close to it, extracted or not.                                          *)
Shared ==
  \A i \in pruned : \A j \in DOMAIN stream :
    Span(i, j) <= Overlap => \E win \in windows : {i, j} \subseteq win

Orderly(w) == TakenInOrder(w) /\ FarBehind /\ Shared

WindowInv ==
  /\ crashes \in Nat
  /\ InOrder /\ crashes = 0 => \A w : Workers = {w} => Orderly(w)

LEMMA SpanIs ==
  ASSUME Types, NEW i \in DOMAIN stream, NEW j \in DOMAIN stream
  PROVE  /\ Span(i, j) >= stream[j].end - stream[i].start
         /\ Span(i, j) = Span(j, i)
         /\ Span(i, j) \in Int
<1>1. /\ stream[i].end \in Nat /\ stream[i].start \in Nat
      /\ stream[j].end \in Nat /\ stream[j].start \in Nat
  BY SWAssumption DEF Types, TypeOK, Times
<1>2. ASSUME NEW a \in Nat, NEW b \in Nat
      PROVE  /\ Max({a, b}) \in {a, b} /\ Max({a, b}) >= b
             /\ Min({a, b}) \in {a, b} /\ Min({a, b}) <= a
  <2>1. \E x \in {a, b} : \A y \in {a, b} : x >= y
    BY <1>2
  <2>2. \E x \in {a, b} : \A y \in {a, b} : x =< y
    BY <1>2
  <2> QED
    BY <2>1, <2>2 DEF Max, Min
<1>3. /\ Max({stream[i].end, stream[j].end}) >= stream[j].end
      /\ Max({stream[i].end, stream[j].end}) \in Nat
  BY <1>1, <1>2
<1>4. /\ Min({stream[i].start, stream[j].start}) <= stream[i].start
      /\ Min({stream[i].start, stream[j].start}) \in Nat
  BY <1>1, <1>2
<1>5. /\ {stream[i].end, stream[j].end} = {stream[j].end, stream[i].end}
      /\ {stream[i].start, stream[j].start} = {stream[j].start, stream[i].start}
  OBVIOUS
<1>6. Span(i, j) = Span(j, i)
  BY <1>5, Zenon DEF Span
<1>7. Span(i, j) >= stream[j].end - stream[i].start /\ Span(i, j) \in Int
  BY <1>1, <1>3, <1>4 DEF Span
<1> QED
  BY <1>6, <1>7

LEMMA SpanLater ==
  (Types => \A x, y \in DOMAIN stream :
     Span(x, y) >= stream[y].end - stream[x].start /\ Span(x, y) \in Int)'
<1>1. Types => \A x, y \in DOMAIN stream :
        Span(x, y) >= stream[y].end - stream[x].start /\ Span(x, y) \in Int
  BY SpanIs
<1> QED
  BY <1>1, PTL

(* The last of the buffer ends last: the window is full when it ends after *)
(* the window does.                                                        *)
LEMMA FullWindow ==
  ASSUME Types, InOrder, NEW w \in Workers, TakenInOrder(w), emitting[w], WindowIsFull(w)
  PROVE  /\ Done(w) \in buffer[w]
         /\ \A i \in buffer[w] : i \in 1..last /\ i <= Done(w)
         /\ \A i \in buffer[w] : stream[i].end <= stream[Done(w)].end
         /\ stream[Done(w)].end >= WindowEnd(w)
<1>1. Done(w) \in buffer[w]
  BY DEF TakenInOrder, WindowIsFull
<1>2. \A i \in buffer[w] : i \in 1..last /\ i \in 1..Done(w)
  BY DEF Types, TypeOK, TakenInOrder
<1>3. \A i \in buffer[w] : i \in DOMAIN stream /\ stream[i].end \in Nat
  BY <1>2, StreamTimes
<1>4. Done(w) \in Nat /\ \A i \in buffer[w] : i \in Nat /\ i <= Done(w)
  BY <1>1, <1>2 DEF Types, TypeOK
<1>5. \A i \in buffer[w] : stream[i].end <= stream[Done(w)].end
  <2>1. SUFFICES ASSUME NEW i \in buffer[w] PROVE stream[i].end <= stream[Done(w)].end
    OBVIOUS
  <2>2. i = Done(w) \/ i < Done(w)
    BY <1>4
  <2> QED
    BY <1>1, <1>3, <2>2 DEF InOrder
<1>6. Latest(w) = stream[Done(w)].end
  <2> DEFINE ends == {stream[i].end : i \in buffer[w]}
  <2>1. ends \subseteq Nat /\ stream[Done(w)].end \in ends
    BY <1>1, <1>3
  <2>2. \A y \in ends : stream[Done(w)].end >= y
    BY <1>1, <1>3, <1>5
  <2>3. Max(ends) \in ends /\ \A y \in ends : Max(ends) >= y
    BY <2>1, <2>2 DEF Max
  <2>4. Max(ends) \in Nat /\ stream[Done(w)].end \in Nat
    BY <2>1, <2>3
  <2>5. Max(ends) <= stream[Done(w)].end /\ stream[Done(w)].end <= Max(ends)
    BY <2>1, <2>2, <2>3, <2>4
  <2> HIDE DEF ends
  <2>6. Max(ends) = stream[Done(w)].end
    BY <2>4, <2>5
  <2> QED
    BY <2>6 DEF ends, Latest
<1>7. stream[Done(w)].end >= WindowEnd(w)
  BY <1>1, <1>3, <1>6, WindowEndType, SWAssumption DEF WindowIsFull, WindowEnd
<1> QED
  BY <1>1, <1>2, <1>4, <1>5, <1>7

(* What is dropped ends before the window that follows, and the last of    *)
(* the buffer too late to be close to it: whatever is close to it was in   *)
(* the buffer, and in the same window.                                     *)
LEMMA EmitOrderly ==
  ASSUME Types, InOrder, NEW w \in Workers, Orderly(w), Emit(w)
  PROVE  Orderly(w)'
<1>1. /\ emitting[w] /\ WindowIsFull(w)
      /\ stream' = stream /\ last' = last /\ hand' = hand /\ emitting' = emitting
      /\ buffer'[w] = Kept(w)
      /\ pruned' = pruned \cup (buffer[w] \ Kept(w))
      /\ windows' = windows \cup {Window(w)}
  BY DEF Emit, Types
<1>2. /\ Done(w) \in buffer[w]
      /\ \A i \in buffer[w] : i \in 1..last /\ i <= Done(w)
      /\ \A i \in buffer[w] : stream[i].end <= stream[Done(w)].end
      /\ stream[Done(w)].end >= WindowEnd(w)
  BY <1>1, FullWindow DEF Orderly
<1>3. /\ WindowEnd(w) \in Nat /\ NextStart(w) \in Nat
      /\ NextStart(w) = WindowEnd(w) - Overlap
  BY <1>1, WindowEndType DEF NextStart
<1>4. \A i \in 1..last :
        /\ i \in DOMAIN stream /\ stream[i].start \in Nat /\ stream[i].end \in Nat
        /\ stream[i].start < stream[i].end
  BY StreamTimes
<1>5. TakenInOrder(w)'
  <2>1. Kept(w) \subseteq buffer[w]
    BY DEF Kept
  <2>2. buffer'[w] \cup pruned' = buffer[w] \cup pruned
    BY <1>1, <2>1
  <2>3. Done(w)' = Done(w)
    BY <1>1 DEF Done
  <2>4. ASSUME NEW i \in Kept(w) PROVE Done(w) \in Kept(w)
    BY <1>2, <1>3, <1>4, <2>4 DEF Kept
  <2> QED
    BY <1>1, <2>2, <2>3, <2>4 DEF Orderly, TakenInOrder
<1>6. ASSUME NEW i \in buffer[w], i \notin Kept(w)
      PROVE  /\ i \in 1..last
             /\ stream[i].end <= WindowEnd(w) - Overlap
             /\ stream[Done(w)].end - stream[i].start > Overlap
  <2>1. i \in 1..last /\ Done(w) \in 1..last
    BY <1>2
  <2>2. stream[i].end <= NextStart(w)
    BY <1>3, <1>4, <1>6, <2>1 DEF Kept
  <2> QED
    BY <1>2, <1>3, <1>4, <2>1, <2>2, SWAssumption
<1>7. FarBehind'
  <2>1. SUFFICES ASSUME NEW i \in pruned'
                 PROVE  \E l \in 1..last : stream[l].end - stream[i].start > Overlap
    BY <1>1 DEF FarBehind
  <2>2. CASE i \in pruned
    BY <2>2 DEF Orderly, FarBehind
  <2>3. CASE i \in buffer[w] /\ i \notin Kept(w)
    BY <1>2, <1>6, <2>3
  <2> QED
    BY <1>1, <2>2, <2>3
<1>8. ASSUME NEW i \in buffer[w], i \notin Kept(w), NEW j \in DOMAIN stream,
             Span(i, j) <= Overlap
      PROVE  \E win \in windows' : {i, j} \subseteq win
  <2>0. /\ i \in DOMAIN stream /\ j \in Nat /\ Done(w) \in DOMAIN stream
        /\ stream[j] \in Times /\ last \in Nat /\ Done(w) \in Nat /\ j >= 1
    BY <1>2, <1>4 DEF Types, TypeOK
  <2>1. stream[j].start \in Nat /\ stream[j].end \in Nat /\ stream[j].start < stream[j].end
    BY <2>0, SWAssumption DEF Times
  <2>2. stream[j].end - stream[i].start <= Overlap
    BY <1>2, <1>4, <1>8, <2>0, <2>1, SpanIs, SWAssumption
  <2>3. CASE j \in buffer[w]
    <3>1. i \in Window(w)
      BY <1>1, <1>8, PrunedWasInWindow
    <3>2. stream[j].start < WindowEnd(w)
      BY <1>2, <1>3, <1>4, <1>6, <1>8, <2>1, <2>2, SWAssumption
    <3>3. j \in Window(w)
      BY <2>3, <3>2 DEF Window
    <3> QED
      BY <1>1, <3>1, <3>3
  <2>4. CASE j \in pruned
    <3>1. Span(j, i) <= Overlap
      BY <1>8, <2>0, SpanIs
    <3>2. \E win \in windows : {j, i} \subseteq win
      BY <2>0, <2>4, <3>1 DEF Orderly, Shared
    <3> QED
      BY <1>1, <3>2
  <2>5. CASE j \notin buffer[w] \cup pruned
    <3>1. j \notin 1..Done(w)
      BY <2>5 DEF Orderly, TakenInOrder
    <3>2. Done(w) < j
      BY <1>2, <2>0, <3>1
    <3>3. stream[Done(w)].end <= stream[j].end
      BY <2>0, <3>2 DEF InOrder
    <3> QED
      BY <1>2, <1>4, <1>6, <1>8, <2>1, <2>2, <3>3, SWAssumption
  <2> QED
    BY <2>3, <2>4, <2>5
<1>9. Shared'
  <2>1. SUFFICES ASSUME NEW i \in pruned', NEW j \in DOMAIN stream, Span(i, j) <= Overlap
                 PROVE  \E win \in windows' : {i, j} \subseteq win
    BY <1>1 DEF Shared, Span
  <2>2. CASE i \in pruned
    BY <1>1, <2>1, <2>2 DEF Orderly, Shared
  <2>3. CASE i \in buffer[w] /\ i \notin Kept(w)
    BY <1>8, <2>1, <2>3
  <2> QED
    BY <1>1, <2>2, <2>3
<1> QED
  BY <1>5, <1>7, <1>9 DEF Orderly

(* A batch is what follows the last one that was read.                     *)
LEMMA ReadOrderly ==
  ASSUME Types, NEW w \in Workers, Orderly(w), Read(w)
  PROVE  Orderly(w)'
<1>1. PICK k \in 1..BatchSize :
        /\ last' = last + k
        /\ hand' = [hand EXCEPT ![w] = [i \in 1..k |-> last + i]]
  BY DEF Read
<1>2. /\ last \in Nat /\ k \in Nat /\ hand[w] = <<>> /\ ~emitting[w]
      /\ UNCHANGED <<stream, emitting, buffer, pruned, windows>>
  BY SWAssumption DEF Types, TypeOK, Read, windower
<1>3. hand'[w] = [i \in 1..k |-> last + i] /\ Len(hand'[w]) = k
  BY <1>1, <1>2 DEF Types
<1>4. Done(w) = last /\ Done(w)' = last
  BY <1>1, <1>2, <1>3 DEF Done
<1>5. \A x \in 1..Len(hand'[w]) : hand'[w][x] = last' - Len(hand'[w]) + x
  <2>1. SUFFICES ASSUME NEW x \in 1..Len(hand'[w])
                 PROVE  hand'[w][x] = last' - Len(hand'[w]) + x
    OBVIOUS
  <2>2. hand'[w][x] = last + x /\ x \in Nat
    BY <1>3
  <2>3. last' = last + k /\ Len(hand'[w]) = k
    BY <1>1, <1>3
  <2> QED
    BY <1>2, <2>2, <2>3
<1>6. TakenInOrder(w)'
  <2>1. Len(hand'[w]) <= last'
    BY <1>1, <1>2, <1>3
  <2>2. (buffer[w] \cup pruned = 1..Done(w))'
    BY <1>2, <1>4 DEF Orderly, TakenInOrder
  <2>3. ~emitting'[w]
    BY <1>2
  <2> QED
    BY <1>5, <2>1, <2>2, <2>3, Zenon DEF TakenInOrder
<1>7. FarBehind'
  <2>1. 1..last \subseteq 1..last'
    BY <1>1, <1>2
  <2> QED
    BY <1>2, <2>1 DEF Orderly, FarBehind
<1>8. Shared'
  BY <1>2 DEF Orderly, Shared, Span
<1> QED
  BY <1>6, <1>7, <1>8 DEF Orderly

LEMMA AddOrderly ==
  ASSUME Types, NEW w \in Workers, Orderly(w), AddSegment(w)
  PROVE  Orderly(w)'
<1>1. /\ hand[w] # <<>> /\ ~emitting[w] /\ emitting'[w]
      /\ buffer'[w] = buffer[w] \cup {Head(hand[w])}
      /\ UNCHANGED <<stream, last, hand, windows, pruned>>
  BY DEF AddSegment, Types, TypeOK
<1>2. /\ last \in Nat /\ Len(hand[w]) \in Nat \ {0} /\ Len(hand[w]) <= last
      /\ Head(hand[w]) = hand[w][1]
  BY <1>1 DEF Types, TypeOK, Orderly, TakenInOrder
<1>3. Head(hand[w]) = Done(w) + 1 /\ Done(w)' = Done(w) + 1 /\ Done(w) \in Nat
  BY <1>1, <1>2 DEF Done, Orderly, TakenInOrder
<1>4. 1..Done(w) + 1 = (1..Done(w)) \cup {Done(w) + 1}
  BY <1>3
<1>5. TakenInOrder(w)'
  <2>1. buffer'[w] \cup pruned' = 1..Done(w)'
    BY <1>1, <1>3, <1>4 DEF Orderly, TakenInOrder
  <2>2. Done(w)' \in buffer'[w]
    BY <1>1, <1>3
  <2>3. /\ Len(hand'[w]) <= last'
        /\ \A x \in 1..Len(hand'[w]) : hand'[w][x] = last' - Len(hand'[w]) + x
    BY <1>1 DEF Orderly, TakenInOrder
  <2> QED
    BY <2>1, <2>2, <2>3 DEF TakenInOrder
<1>6. FarBehind' /\ Shared'
  BY <1>1 DEF Orderly, FarBehind, Shared, Span
<1> QED
  BY <1>5, <1>6 DEF Orderly

LEMMA AcknowledgeOrderly ==
  ASSUME Types, NEW w \in Workers, Orderly(w), Acknowledge(w)
  PROVE  Orderly(w)'
<1>1. /\ emitting[w] /\ ~emitting'[w] /\ hand[w] # <<>>
      /\ hand'[w] = Tail(hand[w])
      /\ UNCHANGED <<stream, last, buffer, windows, pruned>>
  BY DEF Acknowledge, windower, Types, TypeOK
<1>2. /\ last \in Nat /\ Len(hand[w]) \in Nat \ {0} /\ Len(hand[w]) <= last
      /\ hand[w] \in Seq(Nat)
  BY <1>1 DEF Types, TypeOK, Orderly, TakenInOrder
<1>3. /\ Len(hand'[w]) = Len(hand[w]) - 1
      /\ \A x \in 1..Len(hand'[w]) : hand'[w][x] = hand[w][x + 1]
  BY <1>1, <1>2
<1>4. Done(w)' = Done(w)
  BY <1>1, <1>2, <1>3 DEF Done
<1>5. ASSUME NEW x \in 1..Len(hand'[w])
      PROVE  hand'[w][x] = last' - Len(hand'[w]) + x
  <2>1. x + 1 \in 1..Len(hand[w])
    BY <1>2, <1>3
  <2>2. hand[w][x + 1] = last - Len(hand[w]) + (x + 1)
    BY <2>1 DEF Orderly, TakenInOrder
  <2>3. last' = last /\ Len(hand'[w]) = Len(hand[w]) - 1 /\ x \in Nat
    BY <1>1, <1>2, <1>3
  <2>4. hand'[w][x] = hand[w][x + 1]
    BY <1>3
  <2>5. last \in Nat /\ Len(hand[w]) \in Nat
    BY <1>2
  <2>6. last - Len(hand[w]) + (x + 1) = last' - Len(hand'[w]) + x
    BY <2>3, <2>5
  <2> QED
    BY <2>2, <2>4, <2>6, Zenon
<1>6. Len(hand'[w]) <= last'
  BY <1>1, <1>2, <1>3
<1>7. TakenInOrder(w)'
  <2>1. (buffer[w] \cup pruned = 1..Done(w))'
    BY <1>1, <1>4 DEF Orderly, TakenInOrder
  <2> QED
    BY <1>1, <1>5, <1>6, <2>1, Zenon DEF TakenInOrder
<1>8. FarBehind' /\ Shared'
  BY <1>1 DEF Orderly, FarBehind, Shared, Span
<1> QED
  BY <1>7, <1>8 DEF Orderly

(* A segment that ends no earlier than the others is close to none that    *)
(* was dropped.                                                            *)
LEMMA SegmentOrderly ==
  ASSUME Types, InOrder', NEW w \in Workers, Orderly(w), NEW t \in Times, Segment(t)
  PROVE  Orderly(w)'
<1>1. /\ stream' = Append(stream, t)
      /\ UNCHANGED <<last, hand, emitting, buffer, windows, pruned>>
  BY DEF Segment, windower
<1>2. /\ stream \in Seq(Times) /\ Len(stream) \in Nat /\ last \in Nat
      /\ DOMAIN stream = 1..Len(stream) /\ last <= Len(stream)
      /\ DOMAIN stream' = 1..Len(stream) + 1
      /\ \A i \in 1..Len(stream) : stream'[i] = stream[i]
      /\ stream'[Len(stream) + 1] = t
  BY <1>1 DEF Types, TypeOK
<1>3. TakenInOrder(w)'
  BY <1>1 DEF Orderly, TakenInOrder, Done
<1>4. \A i \in pruned : i \in 1..last /\ i \in 1..Len(stream)
  BY <1>2 DEF Types, TypeOK
<1>5. \A i \in 1..last : i \in 1..Len(stream) /\ stream'[i] = stream[i]
  BY <1>2
<1>6. FarBehind'
  BY <1>1, <1>4, <1>5 DEF Orderly, FarBehind
<1>7. ASSUME NEW i \in pruned, NEW j \in DOMAIN stream', Span(i, j)' <= Overlap
      PROVE  \E win \in windows : {i, j} \subseteq win
  <2>1. CASE j \in DOMAIN stream
    <3>1. stream'[i] = stream[i] /\ stream'[j] = stream[j]
      BY <1>2, <1>4, <2>1
    <3>2. Span(i, j)' = Span(i, j)
      BY <3>1 DEF Span
    <3> QED
      BY <1>7, <2>1, <3>2 DEF Orderly, Shared
  <2>2. CASE j = Len(stream) + 1
    <3>1. PICK l \in 1..last : stream'[l].end - stream'[i].start > Overlap
      BY <1>1, <1>6 DEF FarBehind
    <3>2. l \in DOMAIN stream' /\ l < j /\ i \in DOMAIN stream'
      BY <1>2, <1>4, <2>2
    <3>3. stream'[l].end <= stream'[j].end
      BY <3>2 DEF InOrder
    <3>4. Types'
      BY SegmentTypes
    <3>5. /\ stream'[l].end \in Nat /\ stream'[i].start \in Nat /\ stream'[j].end \in Nat
      BY <3>2, <3>4, SWAssumption DEF Types, TypeOK, Times
    <3>6. Span(i, j)' >= stream'[j].end - stream'[i].start /\ Span(i, j)' \in Int
      BY <3>2, <3>4, SpanLater
    <3> QED
      BY <1>7, <3>1, <3>3, <3>5, <3>6, SWAssumption
  <2> QED
    BY <1>2, <2>1, <2>2
<1>8. Shared'
  BY <1>1, <1>7 DEF Shared
<1> QED
  BY <1>3, <1>6, <1>8 DEF Orderly

LEMMA OrderWas ==
  ASSUME Types, NEW t \in Times, Segment(t), InOrder'
  PROVE  InOrder
<1>1. \A i \in DOMAIN stream : i \in DOMAIN stream' /\ stream'[i] = stream[i]
  BY DEF Segment, Types, TypeOK
<1> QED
  BY <1>1 DEF InOrder

LEMMA WindowInvInit == Init => WindowInv
<1> SUFFICES ASSUME Init PROVE WindowInv
  OBVIOUS
<1>1. ASSUME NEW w, Workers = {w} PROVE Orderly(w)
  <2>1. w \in Workers
    BY <1>1
  <2>2. /\ hand[w] = <<>> /\ Len(hand[w]) = 0 /\ ~emitting[w] /\ last = 0
        /\ buffer[w] = {} /\ pruned = {}
    BY <2>1 DEF Init
  <2>3. Done(w) = 0
    BY <2>2 DEF Done
  <2> QED
    BY <2>2, <2>3 DEF Orderly, TakenInOrder, FarBehind, Shared
<1> QED
  BY <1>1 DEF Init, WindowInv

LEMMA WindowInvStep == Types /\ WindowInv /\ [Next]_vars => WindowInv'
<1> SUFFICES ASSUME Types, WindowInv, [Next]_vars PROVE WindowInv'
  OBVIOUS
<1>1. ASSUME NEW t \in Times, Segment(t) PROVE WindowInv'
  <2>1. crashes' = crashes /\ (InOrder' => InOrder)
    BY <1>1, OrderWas DEF Segment
  <2> QED
    BY <1>1, <2>1, SegmentOrderly DEF WindowInv
<1>2. ASSUME NEW v \in Workers, Works(v) PROVE WindowInv'
  <2>1. crashes' = crashes /\ stream' = stream
    BY <1>2 DEF Works, Read, AddSegment, Emit, Acknowledge
  <2>2. InOrder' <=> InOrder
    BY <2>1 DEF InOrder
  <2>3. ASSUME InOrder, crashes = 0, NEW w, Workers = {w} PROVE Orderly(w)'
    <3>1. w \in Workers /\ v = w /\ Orderly(w)
      BY <2>3 DEF WindowInv
    <3> QED
      BY <1>2, <2>3, <3>1, ReadOrderly, AddOrderly, EmitOrderly, AcknowledgeOrderly DEF Works
  <2> QED
    BY <2>1, <2>2, <2>3 DEF WindowInv
<1>3. ASSUME NEW v \in Workers, LosesConnection(v) \/ Crash(v) PROVE WindowInv'
  BY <1>3 DEF WindowInv, LosesConnection, Crash
<1>4. CASE UNCHANGED vars
  <2>1. InOrder' <=> InOrder
    BY <1>4 DEF vars, InOrder
  <2>2. \A w : Orderly(w) => Orderly(w)'
    <3>1. \A w : TakenInOrder(w) => TakenInOrder(w)'
      BY <1>4 DEF vars, TakenInOrder, Done, windower
    <3>2. FarBehind => FarBehind'
      BY <1>4 DEF vars, FarBehind, windower
    <3>3. Shared => Shared'
      BY <1>4 DEF vars, Shared, Span, windower
    <3> QED
      BY <3>1, <3>2, <3>3 DEF Orderly
  <2> QED
    BY <1>4, <2>1, <2>2 DEF vars, WindowInv
<1> QED
  BY <1>1, <1>2, <1>3, <1>4 DEF Next

(* Of any number of segments, two that are no further apart than the       *)
(* overlap are extracted together (_try_emit), whatever the window, when   *)
(* they come in the order of their ends to one worker that goes on.        *)
THEOREM CloseOnesMeet == Spec => []CloseSegmentsShareAWindow
<1>1. Types /\ WindowInv => CloseSegmentsShareAWindow
  <2> SUFFICES ASSUME Types, WindowInv, InOrder, crashes = 0, Cardinality(Workers) = 1,
                      NEW i \in pruned, NEW j \in pruned, Span(i, j) <= Overlap
               PROVE  \E win \in windows : {i, j} \subseteq win
    BY DEF CloseSegmentsShareAWindow
  <2>1. PICK w : Workers = {w}
    BY SWAssumption, FS_Singleton
  <2>2. Shared
    BY <2>1 DEF WindowInv, Orderly
  <2>3. j \in DOMAIN stream
    BY DEF Types, TypeOK
  <2> QED
    BY <2>2, <2>3 DEF Shared
<1> QED
  BY <1>1, WindowInvInit, WindowInvStep, TypesSafe, PTL DEF Spec

=============================================================================
