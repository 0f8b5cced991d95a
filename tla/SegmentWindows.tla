--------------------------- MODULE SegmentWindows ----------------------------
(***************************************************************************)
(* The task engine: StreamConsumer hands the transcript segments of the    *)
(* stream to SegmentWindower, which cuts them into overlapping windows;    *)
(* each window goes to the LLM extractor, and what it finds is             *)
(* deduplicated and published.  This is one meeting (meetings share only   *)
(* the consumer); Workers are the instances of the service, which share a  *)
(* consumer group and nothing else.  Segments and facts are named by the   *)
(* position of the segment in the stream.                                  *)
(***************************************************************************)
EXTENDS Integers, Sequences, FiniteSetsExt

CONSTANTS
  Workers,      \* instances of the task engine
  WindowSize,   \* window_size_seconds
  Overlap,      \* overlap_seconds
  Facts,        \* the segments in which there is something to extract
  BatchSize,    \* entries read at a time
  MaxSegments,  \* bound: entries of the stream
  MaxTime,      \* bound: time offsets
  MaxLength,    \* bound: length of a segment
  MaxCrashes    \* bound: crashes and lost connections

(* The constructor refuses other windows.                                  *)
ASSUME SWAssumption ==
  /\ WindowSize \in Nat /\ Overlap \in Nat /\ Overlap < WindowSize
  /\ IsFiniteSet(Workers) /\ Facts \subseteq Nat
  /\ BatchSize \in Nat \ {0}
  /\ MaxSegments \in Nat /\ MaxTime \in Nat /\ MaxLength \in Nat /\ MaxCrashes \in Nat

VARIABLES
  stream,     \* transcript.segment.final events of the meeting
  last,       \* the last entry delivered to the group
  hand,       \* entries each worker has read and not handled yet
  emitting,   \* is the worker inside _try_emit?
  buffer,     \* _buffers of the meeting
  wstart,     \* _window_starts of the meeting, Unknown without a buffer
  seen,       \* _seen_keys of the meeting
  published,  \* how often each fact was published
  windows,    \* the windows emitted so far
  pruned,     \* segments dropped from a buffer after a window
  crashes

vars == <<stream, last, hand, emitting, buffer, wstart, seen, published,
          windows, pruned, crashes>>
windower == <<buffer, wstart, seen, published, windows, pruned>>

Unknown == -1
Positions == 1..MaxSegments
Times == {t \in [start : 0..MaxTime, end : 0..MaxTime] : t.end - t.start \in 1..MaxLength}

Init ==
  /\ stream = <<>>
  /\ last = 0
  /\ hand = [w \in Workers |-> <<>>]
  /\ emitting = [w \in Workers |-> FALSE]
  /\ buffer = [w \in Workers |-> {}]
  /\ wstart = [w \in Workers |-> Unknown]
  /\ seen = [w \in Workers |-> {}]
  /\ published = [p \in Positions |-> 0]
  /\ windows = {}
  /\ pruned = {}
  /\ crashes = 0

(* The gateway publishes a final segment.                                  *)
Segment(t) ==
  /\ Len(stream) < MaxSegments
  /\ stream' = Append(stream, t)
  /\ UNCHANGED <<last, hand, emitting, windower, crashes>>

-----------------------------------------------------------------------------
(* XREADGROUP with ">".                                                    *)
Read(w) ==
  /\ hand[w] = <<>>
  /\ \E k \in 1..BatchSize :
       /\ last + k <= Len(stream)
       /\ last' = last + k
       /\ hand' = [hand EXCEPT ![w] = [i \in 1..k |-> last + i]]
  /\ UNCHANGED <<stream, emitting, windower, crashes>>

(* add_segment: the first segment of a meeting opens its buffer.           *)
AddSegment(w) ==
  /\ hand[w] # <<>>
  /\ ~emitting[w]
  /\ emitting' = [emitting EXCEPT ![w] = TRUE]
  /\ buffer' = [buffer EXCEPT ![w] = @ \cup {Head(hand[w])}]
  /\ wstart' = [wstart EXCEPT ![w] = IF @ = Unknown THEN stream[Head(hand[w])].start ELSE @]
  /\ UNCHANGED <<stream, last, hand, seen, published, windows, pruned, crashes>>

Latest(w) == Max({stream[i].end : i \in buffer[w]})
WindowIsFull(w) == buffer[w] # {} /\ Latest(w) - wstart[w] >= WindowSize
WindowEnd(w) == wstart[w] + WindowSize
Window(w) == {i \in buffer[w] : stream[i].start < WindowEnd(w)}

(* Mutant: the windows do not overlap.                                     *)
NoOverlap(w) == WindowEnd(w)

NextStart(w) == WindowEnd(w) - Overlap

(* Mutant: the buffer is emptied after each window.                        *)
KeepNone(w) == {}

(* Segments the next window may need.                                      *)
Kept(w) == {i \in buffer[w] : stream[i].end > NextStart(w)}

(* Mutant: a fact that was seen is published again.                        *)
EmitSeen(w) ==
  /\ emitting[w]
  /\ WindowIsFull(w)
  /\ \E found \in SUBSET (Window(w) \cap Facts) :
       /\ seen' = [seen EXCEPT ![w] = @ \cup found]
       /\ \/ published' = [p \in Positions |-> published[p] + IF p \in found THEN 1 ELSE 0]
          \/ UNCHANGED published
  /\ windows' = windows \cup {Window(w)}
  /\ wstart' = [wstart EXCEPT ![w] = NextStart(w)]
  /\ buffer' = [buffer EXCEPT ![w] = Kept(w)]
  /\ pruned' = pruned \cup (buffer[w] \ Kept(w))
  /\ UNCHANGED <<stream, last, hand, emitting, crashes>>

(* One round of _try_emit: _on_window extracts any facts of the window     *)
(* (none, if the extractor fails), marks them as seen and publishes the    *)
(* new ones, or logs that it could not; then the window slides.            *)
Emit(w) ==
  /\ emitting[w]
  /\ WindowIsFull(w)
  /\ \E found \in SUBSET (Window(w) \cap Facts) :
       /\ seen' = [seen EXCEPT ![w] = @ \cup found]
       /\ \/ published' = [p \in Positions |-> published[p] + IF p \in found \ seen[w] THEN 1 ELSE 0]
          \/ UNCHANGED published
  /\ windows' = windows \cup {Window(w)}
  /\ wstart' = [wstart EXCEPT ![w] = NextStart(w)]
  /\ buffer' = [buffer EXCEPT ![w] = Kept(w)]
  /\ pruned' = pruned \cup (buffer[w] \ Kept(w))
  /\ UNCHANGED <<stream, last, hand, emitting, crashes>>

(* The loop of _try_emit ends and the entry is acknowledged.               *)
Acknowledge(w) ==
  /\ emitting[w]
  /\ ~WindowIsFull(w)
  /\ emitting' = [emitting EXCEPT ![w] = FALSE]
  /\ hand' = [hand EXCEPT ![w] = Tail(@)]
  /\ UNCHANGED <<stream, last, windower, crashes>>

(* XACK raises: the loop backs off and reads on with ">"; what was left of *)
(* its batch stays in the pending list.                                    *)
LosesConnection(w) ==
  /\ crashes < MaxCrashes
  /\ emitting[w]
  /\ ~WindowIsFull(w)
  /\ crashes' = crashes + 1
  /\ emitting' = [emitting EXCEPT ![w] = FALSE]
  /\ hand' = [hand EXCEPT ![w] = <<>>]
  /\ UNCHANGED <<stream, last, windower>>

(* The process ends and starts again with empty tables.                    *)
Crash(w) ==
  /\ crashes < MaxCrashes
  /\ crashes' = crashes + 1
  /\ emitting' = [emitting EXCEPT ![w] = FALSE]
  /\ hand' = [hand EXCEPT ![w] = <<>>]
  /\ buffer' = [buffer EXCEPT ![w] = {}]
  /\ wstart' = [wstart EXCEPT ![w] = Unknown]
  /\ seen' = [seen EXCEPT ![w] = {}]
  /\ UNCHANGED <<stream, last, published, windows, pruned>>

Works(w) == Read(w) \/ AddSegment(w) \/ Emit(w) \/ Acknowledge(w)

Next ==
  \/ \E t \in Times : Segment(t)
  \/ \E w \in Workers : Works(w) \/ LosesConnection(w) \/ Crash(w)

Spec == Init /\ [][Next]_vars

(* The consumer's loop goes on; the extractor's call returns or fails.     *)
FairSpec == Spec /\ \A w \in Workers : WF_vars(Works(w))

-----------------------------------------------------------------------------
Windowed == UNION windows

TypeOK ==
  /\ \A i \in DOMAIN stream : stream[i] \in Times
  /\ last \in 0..Len(stream)
  /\ \A w \in Workers : \A i \in DOMAIN hand[w] : hand[w][i] \in 1..last
  /\ emitting \in [Workers -> BOOLEAN]
  /\ \A w \in Workers : emitting[w] => hand[w] # <<>>
  /\ \A w \in Workers : buffer[w] \subseteq 1..last /\ seen[w] \subseteq Windowed
  /\ wstart \in [Workers -> Nat \cup {Unknown}]
  /\ \A w \in Workers : buffer[w] # {} => wstart[w] # Unknown
  /\ published \in [Positions -> Nat]
  /\ pruned \subseteq 1..last

(* Whatever the order and the gaps of the segments, none is dropped from   *)
(* the buffer before it was part of a window ("no speech is silently       *)
(* truncated", windower.py).                                               *)
NothingPrunedUnseen == pruned \subseteq Windowed

InOrder == \A i, j \in DOMAIN stream : i < j => stream[i].end <= stream[j].end
Span(i, j) == Max({stream[i].end, stream[j].end}) - Min({stream[i].start, stream[j].start})

(* "This overlap ensures that commitments made near a window boundary are  *)
(* included in at least one extraction window" (windower.py): two segments *)
(* no further apart than the overlap are in one window, once both have     *)
(* been extracted: if one worker gets all of them, in the order of their   *)
(* end times, without a restart.                                           *)
CloseSegmentsShareAWindow ==
  InOrder /\ crashes = 0 /\ Cardinality(Workers) = 1 =>
    \A i, j \in Windowed \cap pruned :
      Span(i, j) <= Overlap => \E win \in windows : {i, j} \subseteq win

(* No fact of a meeting is published twice: neither the overlap nor a      *)
(* restart, which forgets what was seen, repeats it.                       *)
PublishedOnce == \A p \in Positions : published[p] <= 1

(* "Should be called when a meeting ends so that the tail-end of the       *)
(* transcript ... is still processed" (flush, windower.py): segments that  *)
(* no further one follows are extracted too.                               *)
TailIsExtracted == \A i \in Positions : i \in DOMAIN stream ~> i \in Windowed
=============================================================================
