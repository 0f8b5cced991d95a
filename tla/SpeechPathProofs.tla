--------------------------- MODULE SpeechPathProofs ---------------------------
(***************************************************************************)
(* Proofs about SpeechPath, for any sources, leavers and chunks.           *)
(***************************************************************************)
EXTENDS SpeechPath, TLAPS

SomeChunks == [by : Sources, at : Nat]
SomeSegments == [chunk : SomeChunks, start : Nat]

PathTypes ==
  /\ sent \in Nat
  /\ waiting \in [Sources -> SomeChunks \cup {NoChunk}]
  /\ buffer \in Seq(SomeChunks) /\ wav \in Seq(SomeChunks)
  /\ results \in Seq(SomeSegments) /\ published \in Seq(SomeSegments)
  /\ consumer = "publishing" => results # <<>>
  /\ consumer # "posting" => wav = <<>>

(* What a source said in d, it said after what it said in c.               *)
Before(c, d) == c.by = d.by => c.at < d.at

InOrder(q) == \A i, j \in DOMAIN q : i < j => Before(q[i], q[j])
SegmentsInOrder(q) == \A i, j \in DOMAIN q : i < j => Before(q[i].chunk, q[j].chunk)

(* A chunk is on its way through waiting, buffer, wav, results, published; *)
(* each holds its chunks in order and later ones than those further on.    *)
ChunksBefore(c) ==
  /\ \A i \in DOMAIN wav : Before(wav[i], c)
  /\ \A i \in DOMAIN buffer : Before(buffer[i], c)

SegmentsBefore(c) ==
  /\ \A i \in DOMAIN results : Before(results[i].chunk, c)
  /\ \A i \in DOMAIN published : Before(published[i].chunk, c)

OrderInv ==
  /\ InOrder(wav) /\ InOrder(buffer)
  /\ SegmentsInOrder(results) /\ SegmentsInOrder(published)
  /\ \A i \in DOMAIN published :
       /\ \A j \in DOMAIN results : Before(published[i].chunk, results[j].chunk)
       /\ \A j \in DOMAIN wav : Before(published[i].chunk, wav[j])
  /\ \A j \in DOMAIN buffer : SegmentsBefore(buffer[j])
  /\ \A s \in Sources :
       waiting[s] # NoChunk =>
         /\ waiting[s].by = s /\ waiting[s].at <= sent
         /\ ChunksBefore(waiting[s]) /\ SegmentsBefore(waiting[s])
  /\ \A c \in SomeChunks : c.at > sent => ChunksBefore(c) /\ SegmentsBefore(c)

PathInv == PathTypes /\ OrderInv

-----------------------------------------------------------------------------
LEMMA NothingHeld ==
  /\ <<>> \in Seq(SomeChunks) /\ <<>> \in Seq(SomeSegments)
  /\ \A i \in DOMAIN <<>> : FALSE
<1>1. Len(<<>>) = 0
  OBVIOUS
<1>2. <<>> \in Seq(SomeChunks) /\ <<>> \in Seq(SomeSegments)
  OBVIOUS
<1>3. DOMAIN <<>> = 1..0
  BY <1>1, <1>2
<1> QED
  BY <1>2, <1>3

LEMMA AppendChunk ==
  ASSUME NEW q \in Seq(SomeChunks), NEW c \in SomeChunks, InOrder(q),
         \A i \in DOMAIN q : Before(q[i], c)
  PROVE  Append(q, c) \in Seq(SomeChunks) /\ InOrder(Append(q, c))
BY DEF InOrder

LEMMA AppendSegment ==
  ASSUME NEW q \in Seq(SomeSegments), NEW r \in SomeSegments, SegmentsInOrder(q),
         \A i \in DOMAIN q : Before(q[i].chunk, r.chunk)
  PROVE  Append(q, r) \in Seq(SomeSegments) /\ SegmentsInOrder(Append(q, r))
BY DEF SegmentsInOrder

LEMMA TailSegments ==
  ASSUME NEW q \in Seq(SomeSegments), q # <<>>, SegmentsInOrder(q)
  PROVE  /\ Head(q) \in SomeSegments /\ Head(q) = q[1] /\ 1 \in DOMAIN q
         /\ Tail(q) \in Seq(SomeSegments) /\ SegmentsInOrder(Tail(q))
         /\ \A i \in DOMAIN Tail(q) :
              /\ i + 1 \in DOMAIN q /\ Tail(q)[i] = q[i + 1]
              /\ Before(Head(q).chunk, Tail(q)[i].chunk)
BY DEF SegmentsInOrder

-----------------------------------------------------------------------------
(* A chunk that is later than all others of its source joins the buffer.   *)
LEMMA BufferKeeps ==
  ASSUME PathInv, NEW c \in SomeChunks, ChunksBefore(c), SegmentsBefore(c),
         buffer' = Append(buffer, c), UNCHANGED <<consumer, wav, results, published>>,
         waiting' \in [Sources -> SomeChunks \cup {NoChunk}],
         \A s \in Sources : waiting'[s] # NoChunk => waiting'[s] = waiting[s] /\ s # c.by,
         sent' \in Nat, sent' >= sent, c.at <= sent'
  PROVE  PathInv'
<1>1. buffer' \in Seq(SomeChunks) /\ InOrder(buffer')
  BY AppendChunk DEF PathInv, PathTypes, OrderInv, ChunksBefore
<1>2. PathTypes'
  BY <1>1 DEF PathInv, PathTypes
<1>3. \A i \in DOMAIN buffer' : \/ i \in DOMAIN buffer /\ buffer'[i] = buffer[i]
                               \/ buffer'[i] = c
  BY DEF PathInv, PathTypes
<1>4. \A j \in DOMAIN buffer' : SegmentsBefore(buffer[j])'
  BY <1>3 DEF PathInv, OrderInv, SegmentsBefore
<1>5. ASSUME NEW s \in Sources, waiting'[s] # NoChunk
      PROVE  /\ waiting'[s].by = s /\ waiting'[s].at <= sent'
             /\ ChunksBefore(waiting[s])' /\ SegmentsBefore(waiting[s])'
  <2>1. waiting'[s] = waiting[s] /\ waiting[s] \in SomeChunks /\ Before(c, waiting[s])
    BY <1>5 DEF PathInv, OrderInv, PathTypes, Before, SomeChunks
  <2> QED
    BY <1>3, <1>5, <2>1 DEF PathInv, PathTypes, OrderInv, ChunksBefore, SegmentsBefore, SomeChunks
<1>6. ASSUME NEW d \in SomeChunks, d.at > sent' PROVE ChunksBefore(d)' /\ SegmentsBefore(d)'
  <2>1. d.at > sent /\ Before(c, d)
    BY <1>6 DEF PathInv, PathTypes, SomeChunks, Before
  <2> QED
    BY <1>3, <2>1 DEF PathInv, OrderInv, ChunksBefore, SegmentsBefore
<1>7. OrderInv'
  BY <1>1, <1>4, <1>5, <1>6 DEF PathInv, OrderInv
<1> QED
  BY <1>2, <1>7 DEF PathInv

(* Stages may lose what they hold, and a pass may take the whole buffer.   *)
LEMMA LosingKeeps ==
  ASSUME PathInv, UNCHANGED <<sent, published>>,
         waiting' \in [Sources -> SomeChunks \cup {NoChunk}],
         \A s \in Sources : waiting'[s] # NoChunk => waiting'[s] = waiting[s],
         buffer' = buffer \/ buffer' = <<>>,
         wav' = wav \/ wav' = buffer \/ wav' = <<>>,
         results' = results \/ results' = <<>>,
         consumer' = "publishing" => results' # <<>>,
         consumer' # "posting" => wav' = <<>>
  PROVE  PathInv'
<1>1. PathTypes'
  <2>1. buffer' \in Seq(SomeChunks) /\ wav' \in Seq(SomeChunks)
    BY NothingHeld DEF PathInv, PathTypes
  <2>2. results' \in Seq(SomeSegments)
    BY NothingHeld DEF PathInv, PathTypes
  <2> QED
    BY <2>1, <2>2 DEF PathInv, PathTypes
<1>2. /\ \A i \in DOMAIN buffer' : i \in DOMAIN buffer /\ buffer' = buffer
      /\ \A i \in DOMAIN results' : i \in DOMAIN results /\ results' = results
      /\ \A i \in DOMAIN wav' : \/ i \in DOMAIN wav /\ wav' = wav
                                \/ i \in DOMAIN buffer /\ wav' = buffer
  <2>1. \A i \in DOMAIN buffer' : i \in DOMAIN buffer /\ buffer' = buffer
    BY NothingHeld
  <2>2. \A i \in DOMAIN results' : i \in DOMAIN results /\ results' = results
    BY NothingHeld
  <2>3. \A i \in DOMAIN wav' : \/ i \in DOMAIN wav /\ wav' = wav
                               \/ i \in DOMAIN buffer /\ wav' = buffer
    <3>1. CASE wav' = <<>>
      BY <3>1, NothingHeld
    <3>2. CASE wav' = wav \/ wav' = buffer
      BY <3>2
    <3> QED
      BY <3>1, <3>2
  <2> QED
    BY <2>1, <2>2, <2>3
<1>3. InOrder(buffer') /\ InOrder(wav') /\ SegmentsInOrder(results')
  BY <1>2 DEF PathInv, OrderInv, InOrder, SegmentsInOrder
<1>4. \A i \in DOMAIN published :
        /\ \A j \in DOMAIN results' : Before(published[i].chunk, results'[j].chunk)
        /\ \A j \in DOMAIN wav' : Before(published[i].chunk, wav'[j])
  BY <1>2 DEF PathInv, OrderInv, SegmentsBefore
<1>5. \A c : /\ ChunksBefore(c) => ChunksBefore(c)'
             /\ SegmentsBefore(c) => SegmentsBefore(c)'
  BY <1>2 DEF ChunksBefore, SegmentsBefore
<1>6. OrderInv'
  BY <1>2, <1>3, <1>4, <1>5 DEF PathInv, OrderInv
<1> QED
  BY <1>1, <1>6 DEF PathInv

(* The oldest segment of an answer fails to be published.                  *)
LEMMA SkippingKeeps ==
  ASSUME PathInv, results # <<>>, results' = Tail(results), wav' = <<>>,
         consumer' = "publishing" => results' # <<>>,
         UNCHANGED <<sent, waiting, buffer, published>>
  PROVE  PathInv'
<1>1. /\ results' \in Seq(SomeSegments) /\ SegmentsInOrder(results')
      /\ \A i \in DOMAIN results' : i + 1 \in DOMAIN results /\ results'[i] = results[i + 1]
  BY TailSegments DEF PathInv, PathTypes, OrderInv
<1>2. \A i \in DOMAIN wav' : FALSE
  BY NothingHeld
<1>3. PathTypes'
  BY <1>1, NothingHeld DEF PathInv, PathTypes
<1>4. \A c : /\ ChunksBefore(c) => ChunksBefore(c)'
             /\ SegmentsBefore(c) => SegmentsBefore(c)'
  BY <1>1, <1>2 DEF ChunksBefore, SegmentsBefore
<1>5. \A i \in DOMAIN published : \A j \in DOMAIN results' :
        Before(published[i].chunk, results'[j].chunk)
  BY <1>1 DEF PathInv, OrderInv
<1>6. OrderInv'
  BY <1>1, <1>2, <1>4, <1>5 DEF PathInv, OrderInv, InOrder
<1> QED
  BY <1>3, <1>6 DEF PathInv

(* The oldest segment of an answer is published.                           *)
LEMMA PublishingKeeps ==
  ASSUME PathInv, results # <<>>, published' = Append(published, Head(results)),
         results' = Tail(results) \/ results' = <<>>, wav' = buffer \/ wav' = <<>>,
         UNCHANGED <<sent, waiting, buffer>>,
         consumer' = "publishing" => results' # <<>>,
         consumer' # "posting" => wav' = <<>>
  PROVE  PathInv'
<1>1. /\ Head(results) \in SomeSegments /\ Head(results) = results[1] /\ 1 \in DOMAIN results
      /\ results' \in Seq(SomeSegments) /\ SegmentsInOrder(results')
      /\ \A i \in DOMAIN results' :
           /\ i + 1 \in DOMAIN results /\ results'[i] = results[i + 1]
           /\ Before(Head(results).chunk, results'[i].chunk)
  <2>1. CASE results' = Tail(results)
    BY <2>1, TailSegments DEF PathInv, PathTypes, OrderInv
  <2>2. CASE results' = <<>>
    BY <2>2, TailSegments DEF PathInv, PathTypes, OrderInv, SegmentsInOrder
  <2> QED
    BY <2>1, <2>2
<1>2. published' \in Seq(SomeSegments) /\ SegmentsInOrder(published')
  BY <1>1, AppendSegment DEF PathInv, PathTypes, OrderInv
<1>3. \A i \in DOMAIN published' : \/ i \in DOMAIN published /\ published'[i] = published[i]
                                  \/ published'[i] = results[1]
  BY <1>1 DEF PathInv, PathTypes
<1>4. PathTypes'
  <2>1. wav' \in Seq(SomeChunks)
    BY NothingHeld DEF PathInv, PathTypes
  <2> QED
    BY <1>1, <1>2, <2>1 DEF PathInv, PathTypes
<1>5. \A c : /\ ChunksBefore(c) => ChunksBefore(c)'
             /\ SegmentsBefore(c) => SegmentsBefore(c)'
  BY <1>1, <1>3 DEF ChunksBefore, SegmentsBefore
<1>6. \A i \in DOMAIN published' :
        /\ \A j \in DOMAIN results' : Before(published'[i].chunk, results'[j].chunk)
        /\ \A j \in DOMAIN wav' : Before(published'[i].chunk, wav'[j])
  BY <1>1, <1>3 DEF PathInv, OrderInv, SegmentsBefore
<1>7. OrderInv'
  BY <1>1, <1>2, <1>5, <1>6 DEF PathInv, OrderInv, InOrder
<1> QED
  BY <1>4, <1>7 DEF PathInv

(* What the filters keep of the POST takes the place of it.                *)
LEMMA AnswerKeeps ==
  ASSUME PathInv, Answer
  PROVE  PathInv'
<1>0. PICK n \in 0..Len(wav) : \E kept \in Kept(n) :
        /\ results' = [i \in 1..n |-> Segment(kept[i])]
        /\ consumer' = IF n = 0 THEN AfterPass ELSE "publishing"
  BY DEF Answer
<1>1. PICK kept \in Kept(n) :
        /\ results' = [i \in 1..n |-> Segment(kept[i])]
        /\ consumer' = IF n = 0 THEN AfterPass ELSE "publishing"
  BY <1>0
<1>2. /\ buffer' = <<>> /\ wav' = <<>> /\ UNCHANGED <<sent, waiting, published>>
  BY DEF Answer, audio
<1>3. n \in Nat /\ \A i \in 1..n : kept[i] \in DOMAIN wav
  BY DEF Kept, PathInv, PathTypes
<1>4. \A k \in DOMAIN wav : wav[k] \in SomeChunks /\ Segment(k) \in SomeSegments
                           /\ Segment(k).chunk = wav[k]
  BY DEF PathInv, PathTypes, Segment, SomeSegments
<1>5. /\ results' \in Seq(SomeSegments) /\ DOMAIN results' = 1..n
      /\ \A i \in 1..n : results'[i].chunk = wav[kept[i]]
  BY <1>1, <1>3, <1>4
<1>6. SegmentsInOrder(results')
  <2> SUFFICES ASSUME NEW i \in 1..n, NEW j \in 1..n, i < j
               PROVE  Before(results'[i].chunk, results'[j].chunk)
    BY <1>5 DEF SegmentsInOrder
  <2>1. kept[i] < kept[j]
    BY DEF Kept
  <2> QED
    BY <1>3, <1>5, <2>1 DEF PathInv, OrderInv, InOrder
<1>7. /\ \A i \in DOMAIN buffer' : FALSE
      /\ \A i \in DOMAIN wav' : FALSE
  BY <1>2, NothingHeld
<1>8. PathTypes'
  <2>1. buffer' \in Seq(SomeChunks) /\ wav' \in Seq(SomeChunks)
    BY <1>2, NothingHeld
  <2>2. consumer' = "publishing" => results' # <<>>
    BY <1>1, <1>5, NothingHeld DEF AfterPass
  <2> QED
    BY <1>2, <1>5, <2>1, <2>2 DEF PathInv, PathTypes
<1>9. \A c : ChunksBefore(c) /\ SegmentsBefore(c) => ChunksBefore(c)' /\ SegmentsBefore(c)'
  BY <1>2, <1>3, <1>5, <1>7 DEF ChunksBefore, SegmentsBefore
<1>10. \A i \in DOMAIN published, j \in 1..n : Before(published[i].chunk, results'[j].chunk)
  BY <1>3, <1>5 DEF PathInv, OrderInv
<1>11. OrderInv'
  BY <1>2, <1>5, <1>6, <1>7, <1>9, <1>10 DEF PathInv, OrderInv, InOrder
<1> QED
  BY <1>8, <1>11 DEF PathInv

LEMMA AudioKeeps ==
  ASSUME PathInv, NEW s \in Sources, Audio(s) \/ Announced(s)
  PROVE  PathInv'
<1>1. CASE Audio(s)
  <2> DEFINE c == [by |-> s, at |-> sent + 1]
  <2>1. /\ c \in SomeChunks /\ c.by = s /\ c.at = sent + 1 /\ c # NoChunk
        /\ sent' = sent + 1 /\ sent' \in Nat
    BY <1>1 DEF Audio, PathInv, PathTypes, SomeChunks, NoChunk
  <2>2. ChunksBefore(c) /\ SegmentsBefore(c)
    BY <2>1 DEF PathInv, PathTypes, OrderInv
  <2>3. waiting[s] = NoChunk /\ UNCHANGED <<consumer, wav, results, published>>
    BY <1>1 DEF Audio
  <2> HIDE DEF c
  <2>4. CASE started
    <3>1. buffer' = Append(buffer, c) /\ waiting' = waiting
      BY <1>1, <2>4 DEF Audio, c
    <3> QED
      BY <2>1, <2>2, <2>3, <3>1, BufferKeeps DEF PathInv, PathTypes
  <2>5. CASE ~started
    <3>1. buffer' = <<>> /\ waiting' = [waiting EXCEPT ![s] = c]
      BY <1>1, <2>5 DEF Audio, c
    <3>2. \A i \in DOMAIN buffer' : FALSE
      BY <3>1, NothingHeld
    <3>3. PathTypes'
      BY <2>1, <2>3, <3>1, NothingHeld DEF PathInv, PathTypes
    <3>4. \A d : ChunksBefore(d) /\ SegmentsBefore(d) => ChunksBefore(d)' /\ SegmentsBefore(d)'
      BY <2>3, <3>2 DEF ChunksBefore, SegmentsBefore
    <3>5. ASSUME NEW t \in Sources, waiting'[t] # NoChunk
          PROVE  /\ waiting'[t].by = t /\ waiting'[t].at <= sent'
                 /\ ChunksBefore(waiting[t])' /\ SegmentsBefore(waiting[t])'
      <4>1. CASE t = s
        <5>1. waiting'[t] = c
          BY <3>1, <4>1 DEF PathInv, PathTypes
        <5>2. ChunksBefore(waiting[t])' /\ SegmentsBefore(waiting[t])'
          BY <2>2, <2>3, <3>2, <5>1 DEF ChunksBefore, SegmentsBefore
        <5> QED
          BY <2>1, <4>1, <5>1, <5>2
      <4>2. CASE t # s
        <5>1. waiting'[t] = waiting[t] /\ waiting[t] \in SomeChunks
          BY <3>1, <3>5, <4>2 DEF PathInv, PathTypes
        <5> QED
          BY <2>1, <2>3, <3>2, <3>5, <5>1
             DEF PathInv, PathTypes, OrderInv, ChunksBefore, SegmentsBefore, SomeChunks
      <4> QED
        BY <4>1, <4>2
    <3>6. \A d \in SomeChunks : d.at > sent' => ChunksBefore(d)' /\ SegmentsBefore(d)'
      BY <2>1, <3>4 DEF PathInv, PathTypes, OrderInv, SomeChunks
    <3>7. OrderInv'
      BY <2>3, <3>2, <3>5, <3>6 DEF PathInv, OrderInv, InOrder
    <3> QED
      BY <3>3, <3>7 DEF PathInv
  <2> QED
    BY <2>4, <2>5
<1>2. CASE Announced(s)
  <2>1. /\ waiting[s] # NoChunk /\ waiting' = [waiting EXCEPT ![s] = NoChunk]
        /\ UNCHANGED <<sent, consumer, wav, results, published>>
    BY <1>2 DEF Announced
  <2>2. /\ waiting' \in [Sources -> SomeChunks \cup {NoChunk}]
        /\ \A t \in Sources : waiting'[t] # NoChunk => waiting'[t] = waiting[t] /\ t # s
    BY <2>1 DEF PathInv, PathTypes
  <2>3. CASE buffer' = buffer
    BY <2>1, <2>2, <2>3, LosingKeeps DEF PathInv, PathTypes
  <2>4. CASE buffer' = Append(buffer, waiting[s])
    <3>1. waiting[s] \in SomeChunks /\ waiting[s].by = s /\ waiting[s].at <= sent
          /\ ChunksBefore(waiting[s]) /\ SegmentsBefore(waiting[s])
      BY <2>1 DEF PathInv, PathTypes, OrderInv
    <3>2. sent' \in Nat /\ sent' >= sent /\ sent' = sent
      BY <2>1 DEF PathInv, PathTypes
    <3> QED
      BY <2>1, <2>2, <2>4, <3>1, <3>2, BufferKeeps
  <2> QED
    BY <1>2, <2>3, <2>4 DEF Announced
<1> QED
  BY <1>1, <1>2

LEMMA PathStep == PathInv /\ [Next]_vars => PathInv'
<1> SUFFICES ASSUME PathInv, [Next]_vars PROVE PathInv'
  OBVIOUS
<1>1. waiting \in [Sources -> SomeChunks \cup {NoChunk}]
      /\ (consumer = "publishing" => results # <<>>)
      /\ (consumer # "posting" => wav = <<>>)
  BY DEF PathInv, PathTypes
<1>2. CASE PassBegins \/ PostFails
  BY <1>1, <1>2, LosingKeeps DEF PassBegins, PostFails, AfterPass, audio
<1>3. CASE Publish
  <2>1. results # <<>> /\ wav' = <<>> /\ results' = Tail(results)
        /\ UNCHANGED <<sent, waiting, buffer>>
    BY <1>1, <1>3 DEF Publish, audio
  <2>2. consumer' = "publishing" => results' # <<>>
    <3>1. consumer' = "publishing" => Len(results) > 1
      BY <1>3 DEF Publish, AfterPass
    <3>2. results \in Seq(SomeSegments)
      BY DEF PathInv, PathTypes
    <3>3. Len(results) > 1 => Len(results') # 0
      BY <2>1, <3>2
    <3>4. Len(<<>>) = 0
      OBVIOUS
    <3> QED
      BY <3>1, <3>3, <3>4, Zenon
  <2>3. consumer' # "posting"
    BY <1>3 DEF Publish, AfterPass
  <2>4. CASE published' = Append(published, Head(results))
    BY <2>1, <2>2, <2>4, PublishingKeeps
  <2>5. CASE published' = published
    BY <2>1, <2>2, <2>5, SkippingKeeps
  <2> QED
    BY <1>3, <2>4, <2>5 DEF Publish
<1>4. CASE CancelConsumer
  <2>1. /\ results' = <<>> /\ consumer' # "publishing"
        /\ wav' = buffer \/ wav' = <<>>
        /\ consumer' # "posting" => wav' = <<>>
        /\ UNCHANGED <<sent, waiting, buffer>>
    BY <1>4 DEF CancelConsumer, FinalPass, audio
  <2>2. CASE published' = published
    BY <1>1, <2>1, <2>2, LosingKeeps
  <2>3. CASE consumer = "publishing" /\ published' = Append(published, Head(results))
    BY <1>1, <2>1, <2>3, PublishingKeeps
  <2> QED
    BY <1>4, <2>2, <2>3 DEF CancelConsumer
<1>5. CASE ClosePipeline \/ CloseAgain
  BY <1>1, <1>5, LosingKeeps DEF ClosePipeline, CloseAgain, CloseProvider, audio
<1>6. CASE Ended \/ UNCHANGED vars
  BY <1>1, <1>6, LosingKeeps DEF Ended, vars, audio
<1> QED
  BY <1>2, <1>3, <1>4, <1>5, <1>6, AnswerKeeps, AudioKeeps DEF Next, Passes

-----------------------------------------------------------------------------
(* What a source says is transcribed once and in the order it was said,    *)
(* although passes are abandoned and repeated and several may close        *)
(* (process_audio, get_transcript, close_pipeline).                        *)
THEOREM SpeechStaysInOrder == Spec => []OnceInOrder
<1>1. Init => PathInv
  <2> SUFFICES ASSUME Init PROVE PathInv
    OBVIOUS
  <2>1. PathTypes
    BY NothingHeld DEF Init, PathTypes
  <2>2. /\ \A i \in DOMAIN wav : FALSE
        /\ \A i \in DOMAIN buffer : FALSE
        /\ \A i \in DOMAIN results : FALSE
        /\ \A i \in DOMAIN published : FALSE
    BY NothingHeld DEF Init
  <2>3. \A s \in Sources : waiting[s] = NoChunk
    BY DEF Init
  <2>4. OrderInv
    BY <2>2, <2>3 DEF OrderInv, InOrder, SegmentsInOrder, ChunksBefore, SegmentsBefore
  <2> QED
    BY <2>1, <2>4 DEF PathInv
<1>2. PathInv => OnceInOrder
  BY DEF PathInv, OrderInv, SegmentsInOrder, Before, OnceInOrder
<1> QED
  BY <1>1, <1>2, PathStep, PTL DEF Spec

(* A pipeline that is not open has a closer, and if there was no other one *)
(* it has waited for the consumer.                                         *)
ClosedInv ==
  /\ closers \in Nat
  /\ pipeline # "open" => closers > 0 /\ (closers = 1 => consumer = "gone")

LEMMA ClosedStep == ClosedInv /\ [Next]_vars => ClosedInv'
<1> SUFFICES ASSUME ClosedInv, [Next]_vars PROVE ClosedInv'
  OBVIOUS
<1>1. CASE \E s \in Sources : Audio(s) \/ Announced(s)
  BY <1>1 DEF ClosedInv, Audio, Announced
<1>2. CASE Passes
  BY <1>2 DEF ClosedInv, Passes, PassBegins, Answer, PostFails, Publish
<1>3. CASE CancelConsumer
  BY <1>3 DEF ClosedInv, CancelConsumer
<1>4. CASE ClosePipeline
  BY <1>4 DEF ClosedInv, ClosePipeline, CloseProvider
<1>5. CASE CloseAgain
  BY <1>5, SPAssumption DEF ClosedInv, CloseAgain
<1>6. CASE Ended \/ UNCHANGED vars
  BY <1>6 DEF ClosedInv, Ended, vars
<1> QED
  BY <1>1, <1>2, <1>3, <1>4, <1>5, <1>6 DEF Next

(* MeetingEnded is the last event of a pipeline that one session closes:   *)
(* close_pipeline awaits the consumer before it closes the pipeline.       *)
THEOREM TheEndIsLast == Spec => NothingAfterTheEnd
<1>1. Init => ClosedInv
  BY DEF Init, ClosedInv
<1>2. ClosedInv /\ [Next]_vars => [pipeline = "closed" /\ closers = 1 => published' = published]_vars
  <2> SUFFICES ASSUME ClosedInv, Next, pipeline = "closed", closers = 1
               PROVE  published' = published
    BY DEF vars
  <2>1. consumer = "gone"
    BY DEF ClosedInv
  <2> QED
    BY <2>1 DEF Next, Audio, Announced, Passes, PassBegins, Answer, PostFails, Publish,
                CancelConsumer, ClosePipeline, CloseAgain, Ended
<1> QED
  BY <1>1, <1>2, ClosedStep, PTL DEF Spec, NothingAfterTheEnd
=============================================================================
