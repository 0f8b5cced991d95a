------------------------------ MODULE TtsBridge ------------------------------
(***************************************************************************)
(* agent_gateway/tts_bridge.py: voices, the character budget of a session   *)
(* and the cache of phrases that all sessions share, as the handlers of     *)
(* agent_session.py use them.  A session handles one message at a time;     *)
(* several sessions wait for the provider together.                         *)
(***************************************************************************)
EXTENDS Naturals, Sequences, SequencesExt

CONSTANTS Talkers,    \* sessions with tts_enabled
          Phrases,    \* texts, each of one character per unit of the budget
          PhraseSize, \* phrase -> its length
          Pool,       \* sequence of voices
          CharLimit,  \* budget of a session
          CacheMax,   \* phrases in the cache
          NoPhrase
ASSUME TtsAssumption ==
    /\ CharLimit \in Nat /\ CacheMax \in Nat \ {0}
    /\ Pool \in Seq(ToSet(Pool)) /\ Pool # <<>>
    /\ NoPhrase \notin Phrases /\ \A p \in Phrases : PhraseSize[p] \in Nat

VARIABLES joined,     \* sessions in a meeting
          voice,      \* session -> its voice, or <<>>
          nextIndex,  \* _next_index, modulo the size of the pool
          usage,      \* session -> characters consumed
          uttering,   \* sessions whose _tts_active is set
          awaited,    \* session -> the phrase it waits for, or NoPhrase
          cache,      \* phrases with their voices, oldest first
          spent       \* session -> characters the provider was asked for
ttsVars == <<joined, voice, nextIndex, usage, uttering, awaited, cache, spent>>

TtsInit ==
    /\ joined = {} /\ uttering = {} /\ nextIndex = 0 /\ cache = <<>>
    /\ voice = [s \in Talkers |-> <<>>]
    /\ usage = [s \in Talkers |-> 0] /\ spent = usage
    /\ awaited = [s \in Talkers |-> NoPhrase]

Free(s) == awaited[s] = NoPhrase

\* assign: a session keeps the voice it has; one asked for leaves the pool
\* as it is.
AssignVoice(s) ==
    /\ s \notin joined /\ Free(s)
    /\ joined' = joined \cup {s}
    /\ \/ voice[s] # <<>> /\ UNCHANGED <<voice, nextIndex>>
       \/ /\ voice[s] = <<>>
          /\ \E v \in ToSet(Pool) : voice' = [voice EXCEPT ![s] = <<v>>]
          /\ UNCHANGED nextIndex
       \/ /\ voice[s] = <<>>
          /\ voice' = [voice EXCEPT ![s] = <<Pool[nextIndex + 1]>>]
          /\ nextIndex' = (nextIndex + 1) % Len(Pool)
    /\ UNCHANGED <<usage, uttering, awaited, cache, spent>>

StartUtterance(s) ==
    /\ s \in joined /\ Free(s)
    /\ uttering' = uttering \cup {s}
    /\ UNCHANGED <<joined, voice, nextIndex, usage, awaited, cache, spent>>
StopUtterance(s) ==
    /\ s \in joined /\ Free(s)
    /\ uttering' = uttering \ {s}
    /\ UNCHANGED <<joined, voice, nextIndex, usage, awaited, cache, spent>>
\* _handle_leave forgets neither the voice nor the utterance.
LeaveUttering(s) ==
    /\ s \in joined /\ Free(s)
    /\ joined' = joined \ {s}
    /\ UNCHANGED <<voice, nextIndex, usage, uttering, awaited, cache, spent>>

\* Mutant: characters are consumed when the audio is there.
SpokenTextUnpaid(s, p) ==
    /\ s \in joined \cap uttering /\ Free(s)
    /\ <<voice[s], p>> \notin ToSet(cache)
    /\ usage[s] + PhraseSize[p] <= CharLimit
    /\ usage' = usage
    /\ spent' = [spent EXCEPT ![s] = @ + PhraseSize[p]]
    /\ awaited' = [awaited EXCEPT ![s] = p]
    /\ UNCHANGED <<joined, voice, nextIndex, uttering, cache>>

\* synthesize_text: what is cached costs nothing, what is over the budget is
\* refused, and the rest is paid for before the provider is asked.
SpokenText(s, p) ==
    /\ s \in joined \cap uttering /\ Free(s)
    /\ <<voice[s], p>> \notin ToSet(cache)
    /\ usage[s] + PhraseSize[p] <= CharLimit
    /\ usage' = [usage EXCEPT ![s] = @ + PhraseSize[p]]
    /\ spent' = [spent EXCEPT ![s] = @ + PhraseSize[p]]
    /\ awaited' = [awaited EXCEPT ![s] = p]
    /\ UNCHANGED <<joined, voice, nextIndex, uttering, cache>>
\* put: the oldest entry makes room even where the key is there already.
Synthesized(s) ==
    LET key == <<voice[s], awaited[s]>>
        kept == IF Len(cache) >= CacheMax THEN Tail(cache) ELSE cache IN
    /\ ~Free(s)
    /\ cache' = IF key \in ToSet(kept) THEN kept ELSE Append(kept, key)
    /\ awaited' = [awaited EXCEPT ![s] = NoPhrase]
    /\ UNCHANGED <<joined, voice, nextIndex, usage, uttering, spent>>
\* A failure is not paid back; the client hears of an exceeded budget.
SynthesisFails(s) ==
    /\ ~Free(s)
    /\ awaited' = [awaited EXCEPT ![s] = NoPhrase]
    /\ UNCHANGED <<joined, voice, nextIndex, usage, uttering, cache, spent>>

\* _cleanup; whoever connects next is another session.
ReleaseSession(s) ==
    /\ Free(s)
    /\ joined' = joined \ {s} /\ uttering' = uttering \ {s}
    /\ voice' = [voice EXCEPT ![s] = <<>>]
    /\ usage' = [usage EXCEPT ![s] = 0] /\ spent' = [spent EXCEPT ![s] = 0]
    /\ UNCHANGED <<nextIndex, awaited, cache>>

TtsNext ==
    \E s \in Talkers :
        \/ AssignVoice(s) \/ StartUtterance(s) \/ StopUtterance(s) \/ LeaveUttering(s)
        \/ Synthesized(s) \/ SynthesisFails(s) \/ ReleaseSession(s)
        \/ \E p \in Phrases : SpokenText(s, p)
-----------------------------------------------------------------------------
\* However often the provider fails, whatever is evicted while others wait
\* for the same phrase, and although a session leaves and rejoins: the
\* provider is asked for no more characters than a session's budget, and the
\* cache stays within its size (check_and_consume, PhraseCache.put).
SpendIsBounded ==
    /\ \A s \in Talkers : spent[s] <= CharLimit
    /\ Len(cache) <= CacheMax
=============================================================================
