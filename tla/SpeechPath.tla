----------------------------- MODULE SpeechPath ------------------------------
(***************************************************************************)
(* The way of the audio of one meeting to its transcript, with the remote  *)
(* Whisper provider: AudioPipeline starts the provider on the first audio  *)
(* and appends every chunk to its buffer; the segment consumer POSTs the   *)
(* buffer every few seconds and publishes the segments of the answer;      *)
(* close_pipeline cancels the consumer, which makes a final pass, and      *)
(* closes the provider.  The code is asyncio: a step of the model ends     *)
(* where the code awaits the network.  A chunk lasts one unit of time and  *)
(* is one segment of the answer, unless a filter drops it.                 *)
(***************************************************************************)
EXTENDS Naturals, Sequences, SequencesExt

CONSTANTS
  Sources,    \* sessions and room tracks that send audio
  Closers,    \* sessions that may leave, and so close the pipeline
  MaxChunks   \* bound: chunks of audio in a behaviour

ASSUME SPAssumption == MaxChunks \in Nat /\ Closers \in Nat

VARIABLES
  sent,       \* chunks given to process_audio so far
  waiting,    \* the chunk a source holds while MeetingStarted is published
  started,    \* AudioPipeline._started
  buffer,     \* the provider's _buffer
  consumer,   \* what the segment consumer is doing
  final,      \* is it in its final pass?
  wav,        \* the audio of the POST under way
  results,    \* segments of the last answer that are not published yet
  published,  \* TranscriptSegmentFinal events on the stream
  refused,    \* chunks that a filter, a failed POST or a closed provider lost
  closers,    \* calls of close_pipeline so far
  pipeline    \* "open", "closing" (the provider is being closed), "closed"

vars == <<sent, waiting, started, buffer, consumer, final, wav, results,
          published, refused, closers, pipeline>>

audio == <<sent, waiting, started>>
NoChunk == [by |-> "nobody", at |-> 0]
Chunks == [by : Sources, at : 1..MaxChunks]
Segments == [chunk : Chunks, start : 0..MaxChunks]

Init ==
  /\ sent = 0
  /\ waiting = [s \in Sources |-> NoChunk]
  /\ started = FALSE
  /\ buffer = <<>>
  /\ consumer = "idle"
  /\ final = FALSE
  /\ wav = <<>>
  /\ results = <<>>
  /\ published = <<>>
  /\ refused = {}
  /\ closers = 0
  /\ pipeline = "open"

-----------------------------------------------------------------------------
(* process_audio of a started pipeline: send_audio appends and does not    *)
(* wait.  The pipeline is in _pipelines until its provider is closed.      *)
Audio(s) ==
  /\ pipeline = "open"
  /\ waiting[s] = NoChunk
  /\ sent < MaxChunks
  /\ sent' = sent + 1
  /\ IF started
     THEN buffer' = Append(buffer, [by |-> s, at |-> sent + 1]) /\ UNCHANGED <<waiting, started>>
     ELSE /\ started' = TRUE
          /\ buffer' = <<>>
          /\ waiting' = [waiting EXCEPT ![s] = [by |-> s, at |-> sent + 1]]
  /\ UNCHANGED <<consumer, final, wav, results, published, refused, closers, pipeline>>

(* MeetingStarted is published, or its failure logged: now the chunk is    *)
(* sent.  A provider that was closed meanwhile refuses it; the pipeline    *)
(* keeps it in a buffer that nobody flushes any more.                      *)
Announced(s) ==
  /\ waiting[s] # NoChunk
  /\ waiting' = [waiting EXCEPT ![s] = NoChunk]
  /\ IF pipeline = "open"
     THEN buffer' = Append(buffer, waiting[s]) /\ UNCHANGED refused
     ELSE refused' = refused \cup {waiting[s]} /\ UNCHANGED buffer
  /\ UNCHANGED <<sent, started, consumer, final, wav, results, published, closers, pipeline>>

-----------------------------------------------------------------------------
(* A pass: get_transcript writes the buffer into a file and POSTs it.      *)
PassBegins ==
  /\ consumer = "idle"
  /\ started
  /\ buffer # <<>>
  /\ consumer' = "posting"
  /\ wav' = buffer
  /\ UNCHANGED <<audio, buffer, final, results, published, refused, closers, pipeline>>

(* Mutant: the final pass is followed by another one.                      *)
AfterPassLoops == "idle"

AfterPass == IF final THEN "gone" ELSE "idle"

(* The segment for the i-th chunk of the POST; the service counts from the *)
(* beginning of the file.                                                  *)
Segment(i) == [chunk |-> wav[i], start |-> i - 1]

(* The ways to keep n chunks of the POST, in their order.                  *)
Kept(n) == {k \in [1..n -> DOMAIN wav] : \A i, j \in 1..n : i < j => k[i] < k[j]}

(* Mutant: the answer leaves the buffer as it is.                          *)
AnswerKeepsBuffer ==
  /\ consumer = "posting"
  /\ \E n \in 0..Len(wav) : \E kept \in Kept(n) :
       /\ results' = [i \in 1..n |-> Segment(kept[i])]
       /\ refused' = refused \cup {wav[i] : i \in DOMAIN wav \ Range(kept)}
       /\ consumer' = IF n = 0 THEN AfterPass ELSE "publishing"
  /\ wav' = <<>>
  /\ UNCHANGED <<audio, buffer, final, published, closers, pipeline>>

(* The answer: the buffer is cleared, whatever it holds by now, and the    *)
(* segments that pass the hallucination and duplicate filters are yielded. *)
Answer ==
  /\ consumer = "posting"
  /\ buffer' = <<>>
  /\ \E n \in 0..Len(wav) : \E kept \in Kept(n) :
       /\ results' = [i \in 1..n |-> Segment(kept[i])]
       /\ refused' = refused \cup {wav[i] : i \in DOMAIN wav \ Range(kept)}
       /\ consumer' = IF n = 0 THEN AfterPass ELSE "publishing"
  /\ wav' = <<>>
  /\ UNCHANGED <<audio, final, published, closers, pipeline>>

(* A timeout or a client error: the audio is given up.                     *)
PostFails ==
  /\ consumer = "posting"
  /\ buffer' = <<>>
  /\ refused' = refused \cup ToSet(wav)
  /\ wav' = <<>>
  /\ consumer' = AfterPass
  /\ UNCHANGED <<audio, final, results, published, closers, pipeline>>

(* XADD of the next segment, or its failure, which is logged.              *)
Publish ==
  /\ consumer = "publishing"
  /\ \/ published' = Append(published, Head(results)) /\ UNCHANGED refused
     \/ refused' = refused \cup {Head(results).chunk} /\ UNCHANGED published
  /\ results' = Tail(results)
  /\ consumer' = IF Len(results) > 1 THEN "publishing" ELSE AfterPass
  /\ UNCHANGED <<audio, buffer, final, wav, closers, pipeline>>

-----------------------------------------------------------------------------
(* The final pass after the cancellation, over what the buffer holds.      *)
FinalPass ==
  /\ final' = TRUE
  /\ results' = <<>>
  /\ IF buffer = <<>> \/ ~started
     THEN consumer' = "gone" /\ wav' = <<>>
     ELSE consumer' = "posting" /\ wav' = buffer

(* The first close_pipeline takes the task from the table and cancels it:  *)
(* a POST under way is abandoned, an XADD under way may have been done.    *)
CancelConsumer ==
  /\ closers = 0
  /\ Closers > 0
  /\ closers' = 1
  /\ FinalPass
  /\ \/ UNCHANGED published
     \/ consumer = "publishing" /\ published' = Append(published, Head(results))
  /\ UNCHANGED <<audio, buffer, refused, pipeline>>

(* The provider's close.  A POST under way fails with its session.         *)
CloseProvider ==
  /\ buffer' = <<>>
  /\ wav' = <<>>
  /\ consumer' = IF consumer = "posting" THEN "gone" ELSE consumer
  /\ pipeline' = IF started THEN "closing" ELSE "closed"

(* Mutant: close_pipeline closes the pipeline and then cancels the task.   *)
CloseWithoutWaiting ==
  /\ closers > 0
  /\ pipeline = "open"
  /\ CloseProvider
  /\ refused' = refused \cup ToSet(buffer)
  /\ UNCHANGED <<audio, final, results, published, closers>>

(* The closer has awaited the consumer.                                    *)
ClosePipeline ==
  /\ closers > 0
  /\ pipeline = "open"
  /\ consumer = "gone"
  /\ CloseProvider
  /\ refused' = refused \cup ToSet(buffer)
  /\ UNCHANGED <<audio, final, results, published, closers>>

(* A second close_pipeline finds no task to wait for.                      *)
CloseAgain ==
  /\ closers \in 1..(Closers - 1)
  /\ pipeline = "open"
  /\ closers' = closers + 1
  /\ CloseProvider
  /\ refused' = refused \cup ToSet(buffer)
  /\ UNCHANGED <<audio, final, results, published>>

(* MeetingEnded is on the stream.                                          *)
Ended ==
  /\ pipeline = "closing"
  /\ pipeline' = "closed"
  /\ UNCHANGED <<audio, buffer, consumer, final, wav, results, published, refused, closers>>

Passes == PassBegins \/ Answer \/ PostFails \/ Publish

Next ==
  \/ \E s \in Sources : Audio(s) \/ Announced(s)
  \/ Passes
  \/ CancelConsumer \/ ClosePipeline \/ CloseAgain \/ Ended

Spec == Init /\ [][Next]_vars

(* The consumer's loop and a close go on: a POST has a timeout.  Nothing   *)
(* says that a POST succeeds.                                              *)
FairSpec == Spec /\ WF_vars(Passes) /\ WF_vars(ClosePipeline) /\ WF_vars(Ended)

-----------------------------------------------------------------------------
TypeOK ==
  /\ sent \in 0..MaxChunks
  /\ waiting \in [Sources -> Chunks \cup {NoChunk}]
  /\ started \in BOOLEAN
  /\ ToSet(buffer) \cup ToSet(wav) \cup refused \subseteq Chunks
  /\ ToSet(results) \cup ToSet(published) \subseteq Segments
  /\ consumer \in {"idle", "posting", "publishing", "gone"}
  /\ consumer = "publishing" <=> results # <<>>
  /\ final \in BOOLEAN
  /\ closers \in 0..Closers
  /\ pipeline \in {"open", "closing", "closed"}

(* What a source says is transcribed once and in the order it was said,    *)
(* although passes are abandoned and repeated ("so the next call only      *)
(* transcribes new audio").                                                *)
OnceInOrder ==
  \A i, j \in DOMAIN published :
    i < j /\ published[i].chunk.by = published[j].chunk.by
      => published[i].chunk.at < published[j].chunk.at

(* MeetingEnded is the last event of a pipeline that one session closes:   *)
(* close_pipeline waits for the consumer's final pass before it closes the *)
(* pipeline.  A second session that leaves meanwhile does not wait.        *)
NothingAfterTheEnd ==
  [][pipeline = "closed" /\ closers = 1 => published' = published]_vars

(* The backlog never outlives the passes: even if every POST fails, the    *)
(* buffer is emptied again and again.                                      *)
BufferDrains == buffer # <<>> ~> buffer = <<>>

(* A close that has begun ends.                                            *)
CloseEnds == closers > 0 ~> pipeline = "closed"

(* Nothing is held up for good: neither the backlog nor a leaver, even if  *)
(* every POST fails (send_audio, close_pipeline).                          *)
WorkDrains == BufferDrains /\ CloseEnds

-----------------------------------------------------------------------------
Held ==
  ToSet(buffer) \cup ToSet(wav) \cup {waiting[s] : s \in Sources}
    \cup {r.chunk : r \in ToSet(results) \cup ToSet(published)}

(* "Clear the buffer so the next call only transcribes new audio"          *)
(* (whisper_remote_stt.py): audio that arrives during a POST belongs to    *)
(* the next call; no chunk vanishes.                                       *)
NoAudioVanishes == \A n \in 1..sent : \E c \in Held \cup refused : c.at = n

(* "On cancellation, one final pass captures any remaining audio"          *)
(* (audio_bridge.py): a segment is not thrown away with its consumer.      *)
CancellationCaptures ==
  [][closers = 0 /\ closers' = 1 =>
       \A r \in ToSet(results) : r \in ToSet(published') \/ r.chunk \in ToSet(wav')]_vars

(* "start_time: Start time in seconds from meeting start" (transcript.py). *)
TimesAreMeetingTimes == \A i \in DOMAIN published : published[i].start = published[i].chunk.at - 1
=============================================================================
