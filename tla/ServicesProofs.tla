--------------------------- MODULE ServicesProofs ---------------------------
(***************************************************************************)
(* Proofs about the parts of Services, for every number of sessions and     *)
(* phrases and every limit.                                                 *)
(***************************************************************************)
EXTENDS Services, FiniteSetTheorems, SequenceTheorems, TLAPS

Voicings == Seq(ToSet(Pool)) \X Phrases

(* What has been asked for is what has been paid for, and both fit.        *)
TtsInv ==
  /\ nextIndex \in 0 .. Len(Pool) - 1
  /\ voice \in [Talkers -> Seq(ToSet(Pool))]
  /\ awaited \in [Talkers -> Phrases \cup {NoPhrase}]
  /\ usage \in [Talkers -> Nat]
  /\ spent = usage
  /\ \A s \in Talkers : usage[s] <= CharLimit
  /\ cache \in Seq(Voicings)
  /\ Len(cache) <= CacheMax

LEMMA PoolElements == \A i \in 1 .. Len(Pool) : Pool[i] \in ToSet(Pool)
BY TtsAssumption DEF ToSet

LEMMA TtsBegins == TtsInit => TtsInv
<1> SUFFICES ASSUME TtsInit PROVE TtsInv
  OBVIOUS
<1>1. Len(Pool) \in Nat \ {0}
  BY TtsAssumption
<1>2. cache \in Seq(Voicings) /\ Len(cache) = 0
  BY DEF TtsInit
<1>3. \A s \in Talkers : voice[s] \in Seq(ToSet(Pool))
  BY DEF TtsInit
<1> QED
  BY <1>1, <1>2, <1>3, TtsAssumption DEF TtsInit, TtsInv

(* assign: the next voice of the pool, or one that was asked for.          *)
LEMMA AssignKeeps ==
  ASSUME TtsInv, NEW s \in Talkers, AssignVoice(s)
  PROVE  TtsInv'
<1>1. Len(Pool) \in Nat \ {0}
  BY TtsAssumption
<1>2. Pool[nextIndex + 1] \in ToSet(Pool)
  BY <1>1, PoolElements DEF TtsInv
<1>3. nextIndex' \in 0 .. Len(Pool) - 1
  BY <1>1 DEF TtsInv, AssignVoice
<1>4. voice' \in [Talkers -> Seq(ToSet(Pool))]
  <2>1. CASE UNCHANGED voice
    BY <2>1 DEF TtsInv
  <2>2. ASSUME NEW v \in ToSet(Pool), voice' = [voice EXCEPT ![s] = <<v>>]
        PROVE  voice' \in [Talkers -> Seq(ToSet(Pool))]
    BY <2>2 DEF TtsInv
  <2> QED
    BY <1>2, <2>1, <2>2 DEF AssignVoice
<1> QED
  BY <1>3, <1>4 DEF TtsInv, AssignVoice

(* check_and_consume: what is asked of the provider was within the budget. *)
LEMMA SpeakKeeps ==
  ASSUME TtsInv, NEW s \in Talkers, NEW p \in Phrases, SpokenText(s, p)
  PROVE  TtsInv'
<1>1. PhraseSize[p] \in Nat
  BY TtsAssumption
<1>2. usage' \in [Talkers -> Nat] /\ spent' = usage'
  BY <1>1 DEF TtsInv, SpokenText
<1>3. \A t \in Talkers : usage'[t] <= CharLimit
  BY <1>1 DEF TtsInv, SpokenText
<1> QED
  BY <1>2, <1>3 DEF TtsInv, SpokenText

(* put: the cache loses an entry before it takes one, once it is full.     *)
LEMMA SynthesizedKeeps ==
  ASSUME TtsInv, NEW s \in Talkers, Synthesized(s)
  PROVE  TtsInv'
<1> DEFINE key  == <<voice[s], awaited[s]>>
           kept == IF Len(cache) >= CacheMax THEN Tail(cache) ELSE cache
<1>1. key \in Voicings
  BY DEF TtsInv, Synthesized, Free, Voicings
<1>2. kept \in Seq(Voicings) /\ Len(kept) < CacheMax
  <2>1. CASE Len(cache) >= CacheMax
    <3>1. cache # <<>>
      BY <2>1, TtsAssumption DEF TtsInv
    <3>2. Tail(cache) \in Seq(Voicings) /\ Len(Tail(cache)) = Len(cache) - 1
      BY <3>1, HeadTailProperties DEF TtsInv
    <3> QED
      BY <2>1, <3>2, TtsAssumption DEF TtsInv
  <2>2. CASE ~(Len(cache) >= CacheMax)
    BY <2>2, TtsAssumption DEF TtsInv
  <2> QED
    BY <2>1, <2>2
<1>3. Append(kept, key) \in Seq(Voicings) /\ Len(Append(kept, key)) <= CacheMax
  <2> HIDE DEF key, kept
  <2> QED
    BY <1>1, <1>2, TtsAssumption
<1>4. cache' \in {kept, Append(kept, key)}
  BY DEF Synthesized
<1>5. cache' \in Seq(Voicings) /\ Len(cache') <= CacheMax
  <2> HIDE DEF key, kept
  <2> QED
    BY <1>2, <1>3, <1>4, TtsAssumption
<1> QED
  BY <1>5 DEF TtsInv, Synthesized

LEMMA TtsInvKept == TtsInv /\ [Next]_vars => TtsInv'
<1> SUFFICES ASSUME TtsInv, [Next]_vars PROVE TtsInv'
  OBVIOUS
<1>1. CASE UNCHANGED ttsVars
  BY <1>1 DEF TtsInv, ttsVars
<1>2. CASE TtsNext
  <2>1. PICK s \in Talkers :
          \/ AssignVoice(s) \/ StartUtterance(s) \/ StopUtterance(s) \/ LeaveUttering(s)
          \/ Synthesized(s) \/ SynthesisFails(s) \/ ReleaseSession(s)
          \/ \E p \in Phrases : SpokenText(s, p)
    BY <1>2 DEF TtsNext
  <2>2. CASE AssignVoice(s)
    BY <2>2, AssignKeeps
  <2>3. CASE StartUtterance(s) \/ StopUtterance(s) \/ LeaveUttering(s)
    BY <2>3 DEF TtsInv, StartUtterance, StopUtterance, LeaveUttering
  <2>4. CASE Synthesized(s)
    BY <2>4, SynthesizedKeeps
  <2>5. CASE SynthesisFails(s)
    BY <2>5 DEF TtsInv, SynthesisFails
  <2>6. CASE ReleaseSession(s)
    <3>1. voice' \in [Talkers -> Seq(ToSet(Pool))]
      BY <2>6 DEF TtsInv, ReleaseSession
    <3>2. usage' \in [Talkers -> Nat] /\ spent' = usage'
      BY <2>6 DEF TtsInv, ReleaseSession
    <3>3. \A t \in Talkers : usage'[t] <= CharLimit
      BY <2>6, TtsAssumption DEF TtsInv, ReleaseSession
    <3> QED
      BY <2>6, <3>1, <3>2, <3>3 DEF TtsInv, ReleaseSession
  <2>7. CASE \E p \in Phrases : SpokenText(s, p)
    BY <2>7, SpeakKeeps
  <2> QED
    BY <2>1, <2>2, <2>3, <2>4, <2>5, <2>6, <2>7
<1>3. UNCHANGED ttsVars \/ TtsNext
  BY DEF Next, vars, OnBus, InAudio, InSpeech, InChat, InFeed, InStream
<1> QED
  BY <1>1, <1>2, <1>3

(* However the sessions, failures and evictions interleave, the provider   *)
(* is never asked for more than a session's budget, and the cache never    *)
(* grows past its size (check_and_consume, PhraseCache.put).               *)
THEOREM SpendingIsBounded == Spec => []SpendIsBounded
<1>1. Init => TtsInv
  BY TtsBegins DEF Init
<1>2. TtsInv => SpendIsBounded
  BY DEF TtsInv, SpendIsBounded
<1> QED
  BY <1>1, <1>2, TtsInvKept, PTL DEF Spec

-----------------------------------------------------------------------------
(* What the client of the listener takes to be so once it has read q, if   *)
(* it believes b now: an agent is speaking.                                *)
Agents == {AgentOf[s] : s \in Sidecars}
Messages == {<<"audio">>} \cup {"started", "stopped"} \X Agents
NeverStopped(q, i, a) == \A j \in i .. Len(q) : q[j] # <<"stopped", a>>
Believed(q, b, a) ==
  \/ a \in b /\ NeverStopped(q, 1, a)
  \/ \E i \in 1 .. Len(q) : q[i] = <<"started", a>> /\ NeverStopped(q, i + 1, a)

Seated(s) == link[s] \in {"on", "ending"}
Around == active \cap InRoom(router[listener])
Present == {AgentOf[s] : s \in Around}

AudioTypes ==
  /\ link \in [Sidecars -> {"new", "on", "ending", "cleaning", "gone"}]
  /\ router \in [Sidecars -> Nat]
  /\ made \in Nat /\ mapped \in Nat
  /\ active \subseteq {s \in Sidecars : Seated(s)}
  /\ silent \subseteq active
  /\ speaking = active
  /\ listener \in Sidecars
  /\ outbound \in Seq(Messages)
  /\ believes \subseteq Agents
  /\ deaf \in BOOLEAN /\ raced \in BOOLEAN

(* As long as nobody has come while a router was being stopped, all are in *)
(* the one of the table, which is watched, and while it is being stopped   *)
(* there is nobody.                                                        *)
WatchInv ==
  ~raced =>
    /\ \A s \in Sidecars : Seated(s) =>
         router[s] = mapped /\ mapped # 0 /\ mapped \in monitored
    /\ (\E s \in Sidecars : link[s] = "cleaning") => \A s \in Sidecars : ~Seated(s)
    /\ mapped # 0 =>
         mapped \in monitored \/ \E s \in Sidecars : link[s] = "cleaning"

(* A client that has missed nothing will believe of nobody who is silent   *)
(* that he speaks, when it has read what is waiting.                       *)
BeliefInv ==
  /\ link[listener] = "new" => outbound = <<>> /\ believes = {}
  /\ link[listener] = "on" /\ ~deaf =>
       \A a \in Agents : Believed(outbound, believes, a) => a \in Present

AudioInv == AudioTypes /\ WatchInv /\ BeliefInv

LEMMA MinOfLength ==
  ASSUME NEW m \in Nat, NEW n \in Nat
  PROVE  /\ Min({m, n}) \in {m, n}
         /\ Min({m, n}) <= m
         /\ m <= n => Min({m, n}) = m
<1>1. \E x \in {m, n} : \A y \in {m, n} : x <= y
  <2>1. CASE m <= n
    BY <2>1
  <2>2. CASE n <= m
    BY <2>2
  <2> QED
    BY <2>1, <2>2
<1>2. Min({m, n}) \in {m, n} /\ \A y \in {m, n} : Min({m, n}) <= y
  BY <1>1 DEF Min
<1> QED
  BY <1>2

(* A queue that has dropped nothing holds all that came.                   *)
LEMMA Posted ==
  ASSUME AudioTypes, NEW ls, NEW msgs \in Seq(Messages), Post(ls, msgs)
  PROVE  /\ outbound' \in Seq(Messages)
         /\ deaf' \in BOOLEAN
         /\ listener' = listener /\ believes' = believes
         /\ ~deaf' => ~deaf /\ outbound' = IF listener \in ls THEN outbound \o msgs ELSE outbound
         /\ listener \notin ls /\ outbound = <<>> => outbound' = <<>>
<1> DEFINE q == IF listener \in ls THEN outbound \o msgs ELSE outbound
           n == Min({Len(q), QueueMax})
<1>1. q \in Seq(Messages)
  BY DEF AudioTypes
<1>2. /\ outbound' = SubSeq(q, 1, n)
      /\ deaf' = (deaf \/ Len(q) > QueueMax)
      /\ listener' = listener /\ believes' = believes
  BY DEF Post
<1>3. (listener \notin ls /\ outbound = <<>>) => q = <<>>
  OBVIOUS
<1>4. ~deaf' => ~deaf /\ outbound' = q
  <2> HIDE DEF q
  <2>1. Len(q) \in Nat /\ QueueMax \in Nat
    BY <1>1, AudioAssumption
  <2>2. SubSeq(q, 1, Len(q)) = q
    BY <1>1
  <2>3. Len(q) <= QueueMax => n = Len(q)
    BY <2>1, MinOfLength
  <2> HIDE DEF n
  <2>4. ~(Len(q) > QueueMax) => outbound' = q
    BY <1>2, <2>1, <2>2, <2>3
  <2>5. ~deaf' => ~deaf /\ ~(Len(q) > QueueMax)
    BY <1>2
  <2> QED
    BY <2>4, <2>5
<1>5. outbound' \in Seq(Messages) /\ (q = <<>> => outbound' = <<>>)
  <2> HIDE DEF q
  <2>1. Len(q) \in Nat /\ QueueMax \in Nat
    BY <1>1, AudioAssumption
  <2>2. n \in Nat /\ n <= Len(q)
    BY <2>1, MinOfLength
  <2>3. \A i \in 1 .. n : q[i] \in Messages
    BY <1>1, <2>1, <2>2
  <2>4. SubSeq(q, 1, n) \in Seq(Messages) /\ Len(SubSeq(q, 1, n)) = n
    <3> HIDE DEF n
    <3> QED
      BY <2>2, <2>3, SubSeqProperties
  <2>5. q = <<>> => n = 0
    BY <2>1, <2>2
  <2>6. q = <<>> => SubSeq(q, 1, n) = <<>>
    <3> HIDE DEF n
    <3> QED
      BY <2>4, <2>5
  <2> QED
    BY <1>2, <2>4, <2>6
<1>6. deaf' \in BOOLEAN
  BY <1>2 DEF AudioTypes
<1> QED
  BY <1>2, <1>3, <1>4, <1>5, <1>6

(* What a message that is appended does to the belief.                     *)
LEMMA BelievedLater ==
  ASSUME NEW q \in Seq(Messages), NEW ms \in Seq(Messages), NEW b, NEW a,
         Believed(q \o ms, b, a)
  PROVE  /\ Believed(q, b, a) \/ \E i \in 1 .. Len(ms) : ms[i] = <<"started", a>>
         /\ NeverStopped(ms, 1, a) \/ \E i \in 1 .. Len(ms) : ms[i] = <<"started", a>>
<1> DEFINE r == q \o ms
<1>1. /\ r \in Seq(Messages)
      /\ Len(r) = Len(q) + Len(ms)
      /\ \A i \in 1 .. Len(q) + Len(ms) :
           r[i] = IF i <= Len(q) THEN q[i] ELSE ms[i - Len(q)]
  BY ConcatProperties
<1>2. Len(q) \in Nat /\ Len(ms) \in Nat
  OBVIOUS
<1>3. \A i \in 1 .. Len(q) : r[i] = q[i]
  BY <1>1, <1>2
<1>4. \A i \in 1 .. Len(ms) : r[Len(q) + i] = ms[i]
  <2> HIDE DEF r
  <2> SUFFICES ASSUME NEW i \in 1 .. Len(ms) PROVE r[Len(q) + i] = ms[i]
    OBVIOUS
  <2>1. /\ Len(q) + i \in 1 .. Len(q) + Len(ms)
        /\ ~(Len(q) + i <= Len(q))
        /\ (Len(q) + i) - Len(q) = i
    BY <1>2
  <2> QED
    BY <1>1, <2>1
<1> HIDE DEF r
<1>5. ASSUME NEW k \in 1 .. Len(q) + 1, NeverStopped(r, k, a)
      PROVE  NeverStopped(q, k, a) /\ NeverStopped(ms, 1, a)
  <2>1. ASSUME NEW j \in k .. Len(q) PROVE q[j] # <<"stopped", a>>
    BY <1>1, <1>2, <1>3, <1>5, <2>1 DEF NeverStopped
  <2>2. ASSUME NEW j \in 1 .. Len(ms) PROVE ms[j] # <<"stopped", a>>
    <3>1. Len(q) + j \in k .. Len(r)
      BY <1>1, <1>2
    <3> QED
      BY <1>4, <1>5, <3>1 DEF NeverStopped
  <2> QED
    BY <2>1, <2>2 DEF NeverStopped
<1>6. CASE a \in b /\ NeverStopped(r, 1, a)
  BY <1>2, <1>5, <1>6 DEF Believed
<1>7. ASSUME NEW i \in 1 .. Len(r), r[i] = <<"started", a>>, NeverStopped(r, i + 1, a)
      PROVE  \/ Believed(q, b, a) /\ NeverStopped(ms, 1, a)
             \/ \E k \in 1 .. Len(ms) : ms[k] = <<"started", a>>
  <2>1. CASE i <= Len(q)
    <3>1. i \in 1 .. Len(q) /\ i + 1 \in 1 .. Len(q) + 1
      BY <1>1, <1>2, <2>1
    <3>2. q[i] = <<"started", a>>
      BY <1>3, <1>7, <3>1
    <3>3. NeverStopped(q, i + 1, a) /\ NeverStopped(ms, 1, a)
      BY <1>5, <1>7, <3>1
    <3> QED
      BY <3>1, <3>2, <3>3 DEF Believed
  <2>2. CASE i > Len(q)
    <3>1. i - Len(q) \in 1 .. Len(ms) /\ i = Len(q) + (i - Len(q))
      BY <1>1, <1>2, <2>2
    <3>2. ms[i - Len(q)] = r[i]
      BY <1>4, <3>1
    <3> QED
      BY <1>7, <3>1, <3>2
  <2> QED
    BY <1>1, <1>2, <2>1, <2>2
<1> QED
  BY <1>6, <1>7 DEF Believed, r

LEMMA BelievedStill ==
  ASSUME NEW q \in Seq(Messages), NEW ms \in Seq(Messages), NEW b, NEW a,
         Believed(q \o ms, b, a),
         \A i \in 1 .. Len(ms) : ms[i] # <<"started", a>>
  PROVE  Believed(q, b, a) /\ NeverStopped(ms, 1, a)
<1>1. /\ Believed(q, b, a) \/ \E i \in 1 .. Len(ms) : ms[i] = <<"started", a>>
      /\ NeverStopped(ms, 1, a) \/ \E i \in 1 .. Len(ms) : ms[i] = <<"started", a>>
  BY BelievedLater, ZenonT(120)
<1> QED
  BY <1>1

(* Reading the first message moves it from the queue into the belief.      *)
LEMMA BelievedEarlier ==
  ASSUME NEW q \in Seq(Messages), q # <<>>, NEW b, NEW c, NEW a,
         c = CASE Head(q)[1] = "started" -> b \cup {Head(q)[2]}
               [] Head(q)[1] = "stopped" -> b \ {Head(q)[2]}
               [] OTHER -> b,
         Believed(Tail(q), c, a)
  PROVE  Believed(q, b, a)
<1>1. /\ Len(q) \in Nat \ {0}
      /\ Head(q) = q[1] /\ q[1] \in Messages
      /\ Len(Tail(q)) = Len(q) - 1
      /\ \A i \in 1 .. Len(q) - 1 : Tail(q)[i] = q[i + 1]
  BY HeadTailProperties
<1>2. ASSUME NEW k \in Nat \ {0}, NeverStopped(Tail(q), k, a)
      PROVE  NeverStopped(q, k + 1, a)
  <2> SUFFICES ASSUME NEW j \in k + 1 .. Len(q) PROVE q[j] # <<"stopped", a>>
    BY DEF NeverStopped
  <2>1. j - 1 \in k .. Len(Tail(q)) /\ j - 1 \in 1 .. Len(q) - 1 /\ (j - 1) + 1 = j
    BY <1>1
  <2> QED
    BY <1>1, <1>2, <2>1 DEF NeverStopped
<1>3. ASSUME NEW i \in 1 .. Len(Tail(q)), Tail(q)[i] = <<"started", a>>,
             NeverStopped(Tail(q), i + 1, a)
      PROVE  Believed(q, b, a)
  <2>1. i + 1 \in 1 .. Len(q) /\ q[i + 1] = <<"started", a>>
    BY <1>1, <1>3
  <2>2. NeverStopped(q, (i + 1) + 1, a)
    BY <1>2, <1>3
  <2> QED
    BY <2>1, <2>2 DEF Believed
<1>4. CASE a \in c /\ NeverStopped(Tail(q), 1, a)
  <2>1. NeverStopped(q, 2, a)
    BY <1>2, <1>4
  <2>2. CASE q[1] = <<"started", a>>
    BY <1>1, <2>1, <2>2 DEF Believed
  <2>3. CASE q[1] # <<"started", a>>
    <3>1. a \in b /\ q[1] # <<"stopped", a>>
      <4>1. CASE q[1] = <<"audio">>
        BY <1>1, <1>4, <4>1
      <4>2. ASSUME NEW x \in Agents, q[1] = <<"started", x>>
            PROVE  a \in b /\ q[1] # <<"stopped", a>>
        BY <1>1, <1>4, <2>3, <4>2
      <4>3. ASSUME NEW x \in Agents, q[1] = <<"stopped", x>>
            PROVE  a \in b /\ q[1] # <<"stopped", a>>
        BY <1>1, <1>4, <4>3
      <4> QED
        BY <1>1, <4>1, <4>2, <4>3 DEF Messages
    <3>2. NeverStopped(q, 1, a)
      <4> SUFFICES ASSUME NEW j \in 1 .. Len(q) PROVE q[j] # <<"stopped", a>>
        BY DEF NeverStopped
      <4>1. j = 1 \/ j \in 2 .. Len(q)
        BY <1>1
      <4> QED
        BY <2>1, <3>1, <4>1 DEF NeverStopped
    <3> QED
      BY <3>1, <3>2 DEF Believed
  <2> QED
    BY <2>2, <2>3
<1> QED
  BY <1>3, <1>4 DEF Believed

LEMMA AudioBegins == AudioInit => AudioInv
<1> SUFFICES ASSUME AudioInit PROVE AudioInv
  OBVIOUS
<1>1. listener \in Sidecars
  BY AudioAssumption DEF AudioInit
<1>2. AudioTypes
  <2>1. outbound \in Seq(Messages)
    BY DEF AudioInit
  <2>2. link \in [Sidecars -> {"new", "on", "ending", "cleaning", "gone"}]
        /\ router \in [Sidecars -> Nat]
    BY DEF AudioInit
  <2> QED
    BY <1>1, <2>1, <2>2 DEF AudioInit, AudioTypes
<1>3. \A s \in Sidecars : ~Seated(s) /\ link[s] = "new"
  BY DEF AudioInit, Seated
<1> QED
  BY <1>1, <1>2, <1>3 DEF AudioInit, AudioInv, WatchInv, BeliefInv

(* Everybody in a room hears who starts in it, and who stops.              *)
LEMMA SameRoom ==
  ASSUME AudioTypes, link[listener] = "on", NEW s \in Sidecars, Seated(s)
  PROVE  /\ listener \in InRoom(router[s]) <=> router[s] = router[listener]
         /\ s \in InRoom(router[listener]) <=> router[s] = router[listener]
BY DEF AudioTypes, InRoom, Seated

LEMMA ConnectKeeps ==
  ASSUME AudioInv, NEW s \in Sidecars, ConnectAudio(s)
  PROVE  AudioInv'
<1> USE DEF AudioInv
<1>1. /\ link[s] = "new"
      /\ link' = [link EXCEPT ![s] = "on"]
      /\ router' = [router EXCEPT ![s] = mapped']
      /\ mapped' = IF mapped = 0 THEN made' ELSE mapped
      /\ made' = IF mapped = 0 THEN made + 1 ELSE made
      /\ monitored' = IF mapped = 0 THEN monitored \cup {made'} ELSE monitored
      /\ raced' = (raced \/ \E t \in Sidecars : link[t] = "cleaning")
      /\ UNCHANGED <<speaking, active, silent, listener, outbound, deaf, mute, believes>>
  BY DEF ConnectAudio, queueVars
<1>2. made' \in Nat /\ mapped' \in Nat /\ mapped' # 0
  BY <1>1 DEF AudioTypes
<1>3. ~Seated(s) /\ s \notin active
  BY <1>1 DEF AudioTypes, Seated
<1>4. /\ Seated(s)' /\ router'[s] = mapped'
      /\ \A t \in Sidecars \ {s} :
           Seated(t)' = Seated(t) /\ link'[t] = link[t] /\ router'[t] = router[t]
  BY <1>1 DEF AudioTypes, Seated
<1>5. AudioTypes'
  BY <1>1, <1>2, <1>3, <1>4 DEF AudioTypes
<1>6. WatchInv'
  <2> SUFFICES ASSUME ~raced' PROVE WatchInv'
    BY DEF WatchInv
  <2>1. ~raced /\ \A t \in Sidecars : link[t] # "cleaning"
    BY <1>1 DEF AudioTypes
  <2>2. \A t \in Sidecars : link'[t] # "cleaning"
    BY <1>1, <1>4, <2>1
  <2>3. mapped # 0 => mapped \in monitored
    BY <2>1 DEF WatchInv
  <2>4. mapped' \in monitored'
    BY <1>1, <2>3
  <2>5. \A t \in Sidecars \ {s} : Seated(t) => router[t] = mapped /\ mapped # 0
    BY <2>1 DEF WatchInv
  <2>6. \A t \in Sidecars : Seated(t)' => router'[t] = mapped'
    BY <1>1, <1>4, <2>5
  <2> QED
    BY <1>2, <2>2, <2>4, <2>6 DEF WatchInv
<1>7. BeliefInv'
  <2>1. CASE s = listener
    <3>1. outbound' = <<>> /\ believes' = {} /\ link'[listener'] = "on"
      BY <1>1, <2>1 DEF BeliefInv, AudioTypes
    <3>2. \A a \in Agents : ~Believed(outbound', believes', a)
      BY <3>1 DEF Believed
    <3> QED
      BY <3>1, <3>2 DEF BeliefInv
  <2>2. CASE s # listener
    <3>1. link'[listener'] = link[listener] /\ router'[listener'] = router[listener]
      BY <1>1, <1>4, <2>2 DEF AudioTypes
    <3>2. Around \subseteq Around'
      BY <1>1, <1>3, <1>4, <3>1 DEF Around, InRoom, Seated, AudioTypes
    <3>3. Present \subseteq Present'
      BY <3>2 DEF Present
    <3> QED
      BY <1>1, <3>1, <3>3 DEF BeliefInv
  <2> QED
    BY <2>1, <2>2
<1> QED
  BY <1>5, <1>6, <1>7

LEMMA WatchStays ==
  ASSUME AudioInv, UNCHANGED <<link, router, made, mapped, monitored, raced>>
  PROVE  WatchInv'
BY DEF AudioInv, WatchInv, Seated

LEMMA StartKeeps ==
  ASSUME AudioInv, NEW s \in Sidecars, StartSpeaking(s)
  PROVE  AudioInv'
<1> USE DEF AudioInv
<1> DEFINE m == <<<<"started", AgentOf[s]>>>>
<1>1. /\ link[s] = "on" /\ active' = active \cup {s} /\ speaking' = speaking \cup {s}
      /\ silent' = silent \ {s}
      /\ Post(InRoom(router[s]), m)
      /\ UNCHANGED <<link, router, made, mapped, monitored, raced>>
  BY DEF StartSpeaking, Announce, tableVars
<1>2. m \in Seq(Messages) /\ Len(m) = 1 /\ m[1] = <<"started", AgentOf[s]>>
  BY DEF Messages, Agents
<1> HIDE DEF m
<1>3. /\ outbound' \in Seq(Messages) /\ deaf' \in BOOLEAN
      /\ listener' = listener /\ believes' = believes
      /\ ~deaf' => ~deaf /\ outbound' = IF listener \in InRoom(router[s]) THEN outbound \o m ELSE outbound
      /\ listener \notin InRoom(router[s]) /\ outbound = <<>> => outbound' = <<>>
  BY <1>1, <1>2, Posted
<1>4. AudioTypes'
  BY <1>1, <1>3 DEF AudioTypes, Seated
<1>5. WatchInv'
  BY <1>1, WatchStays
<1>6. Around \subseteq Around' /\ (s \in InRoom(router[listener]) => s \in Around')
  BY <1>1, <1>3 DEF Around, InRoom
<1>7. Present \subseteq Present'
  BY <1>6 DEF Present
<1>8. BeliefInv'
  <2>1. link[listener] = "new" => outbound' = <<>> /\ believes' = {}
    BY <1>3 DEF BeliefInv, InRoom
  <2>2. ASSUME link[listener] = "on", ~deaf', NEW a \in Agents,
               Believed(outbound', believes, a)
        PROVE  a \in Present'
    <3>1. CASE listener \notin InRoom(router[s])
      BY <1>3, <1>7, <2>2, <3>1 DEF BeliefInv
    <3>2. CASE listener \in InRoom(router[s])
      <4>1. s \in Around'
        BY <1>1, <1>6, <2>2, <3>2, SameRoom DEF Seated
      <4>2. AgentOf[s] \in Present'
        BY <4>1 DEF Present
      <4>3. Believed(outbound, believes, a) \/ \E i \in 1 .. Len(m) : m[i] = <<"started", a>>
        <5>1. Believed(outbound \o m, believes, a)
          BY <1>3, <2>2, <3>2
        <5>2. outbound \in Seq(Messages)
          BY DEF AudioTypes
        <5> QED
          BY <1>2, <5>1, <5>2, BelievedLater
      <4>4. CASE Believed(outbound, believes, a)
        BY <1>3, <1>7, <2>2, <4>4 DEF BeliefInv
      <4>5. CASE \E i \in 1 .. Len(m) : m[i] = <<"started", a>>
        BY <1>2, <4>2, <4>5
      <4> QED
        BY <4>3, <4>4, <4>5
    <3> QED
      BY <3>1, <3>2
  <2> QED
    BY <1>1, <1>3, <2>1, <2>2 DEF BeliefInv
<1> QED
  BY <1>4, <1>5, <1>8

(* One or more stop, and the room, where it is the listener's, hears of    *)
(* each: whoever is believed after that speaks still.                      *)
LEMMA StopsAreHeard ==
  ASSUME AudioInv, NEW gone, NEW ls, NEW ms \in Seq(Messages),
         Post(ls, ms), link'[listener] = link[listener],
         \A i \in 1 .. Len(ms) : ms[i][1] # "started",
         Around \ gone \subseteq Around',
         listener \in ls => Seated(listener),
         link[listener] = "on" =>
           \A t \in Around \cap gone : listener \in ls /\
             \E i \in 1 .. Len(ms) : ms[i] = <<"stopped", AgentOf[t]>>
  PROVE  BeliefInv'
<1> USE DEF AudioInv
<1>1. /\ listener' = listener /\ believes' = believes
      /\ ~deaf' => ~deaf /\ outbound' = IF listener \in ls THEN outbound \o ms ELSE outbound
      /\ listener \notin ls /\ outbound = <<>> => outbound' = <<>>
  BY Posted
<1>2. link[listener] = "new" => outbound' = <<>> /\ believes' = {}
  BY <1>1 DEF BeliefInv, Seated
<1>3. ASSUME link[listener] = "on", ~deaf', NEW a \in Agents, Believed(outbound', believes, a)
      PROVE  a \in Present'
  <2>1. Believed(outbound, believes, a) /\ (listener \in ls => NeverStopped(ms, 1, a))
    <3>1. CASE listener \notin ls
      BY <1>1, <1>3, <3>1
    <3>2. CASE listener \in ls
      <4>1. Believed(outbound \o ms, believes, a)
        BY <1>1, <1>3, <3>2
      <4>2. outbound \in Seq(Messages)
        BY DEF AudioTypes
      <4>3. \A i \in 1 .. Len(ms) : ms[i] # <<"started", a>>
        OBVIOUS
      <4> QED
        BY <4>1, <4>2, <4>3, BelievedStill
    <3> QED
      BY <3>1, <3>2
  <2>2. PICK t \in Around : a = AgentOf[t]
    BY <1>1, <1>3, <2>1 DEF BeliefInv, Present
  <2>3. t \notin gone
    BY <1>3, <2>1, <2>2 DEF NeverStopped
  <2> QED
    BY <2>2, <2>3 DEF Present
<1> QED
  BY <1>1, <1>2, <1>3 DEF BeliefInv

LEMMA StopKeeps ==
  ASSUME AudioInv, NEW s \in Sidecars, StopSpeaking(s)
  PROVE  AudioInv'
<1> USE DEF AudioInv
<1> DEFINE m == <<<<"stopped", AgentOf[s]>>>>
<1>1. /\ link[s] = "on" /\ active' = active \ {s} /\ speaking' = speaking \ {s}
      /\ silent' = silent \ {s}
      /\ Post(InRoom(router[s]), m)
      /\ UNCHANGED <<link, router, made, mapped, monitored, raced>>
  BY DEF StopSpeaking, Announce, tableVars
<1>2. m \in Seq(Messages) /\ Len(m) = 1 /\ m[1] = <<"stopped", AgentOf[s]>>
  BY DEF Messages, Agents
<1> HIDE DEF m
<1>3. /\ outbound' \in Seq(Messages) /\ deaf' \in BOOLEAN
      /\ listener' = listener /\ believes' = believes
  BY <1>1, <1>2, Posted
<1>4. AudioTypes'
  BY <1>1, <1>3 DEF AudioTypes, Seated
<1>5. WatchInv'
  BY <1>1, WatchStays
<1>6. Around \ {s} \subseteq Around'
  BY <1>1, <1>3 DEF Around, InRoom
<1>7. \A i \in 1 .. Len(m) : m[i][1] # "started"
  BY <1>2
<1>8. listener \in InRoom(router[s]) => Seated(listener)
  BY DEF InRoom, Seated
<1>9. ASSUME link[listener] = "on", NEW t \in Around \cap {s}
      PROVE  /\ listener \in InRoom(router[s])
             /\ \E i \in 1 .. Len(m) : m[i] = <<"stopped", AgentOf[t]>>
  BY <1>1, <1>2, <1>9, SameRoom DEF Around, Seated
<1>10. BeliefInv'
  BY <1>1, <1>2, <1>6, <1>7, <1>8, <1>9, StopsAreHeard
<1> QED
  BY <1>4, <1>5, <1>10

LEMMA TimedOutAreNamed ==
  ASSUME AudioTypes, NEW r \in Nat, NEW order \in SetToSeqs(TimedOut(r))
  PROVE  LET ms == [i \in DOMAIN order |-> <<"stopped", AgentOf[order[i]]>>] IN
         /\ ms \in Seq(Messages)
         /\ \A i \in 1 .. Len(ms) : ms[i][1] # "started"
         /\ \A t \in TimedOut(r) : \E i \in 1 .. Len(ms) : ms[i] = <<"stopped", AgentOf[t]>>
<1> DEFINE T == TimedOut(r)
           n == Cardinality(T)
           ms == [i \in DOMAIN order |-> <<"stopped", AgentOf[order[i]]>>]
<1>1. T \subseteq Sidecars /\ IsFiniteSet(T) /\ n \in Nat
  <2>1. T \subseteq Sidecars
    BY DEF TimedOut, InRoom
  <2>2. IsFiniteSet(T)
    BY <2>1, AudioAssumption, FS_Subset
  <2> HIDE DEF T
  <2> QED
    BY <2>1, <2>2, FS_CardinalityType
<1>2. order \in [1 .. n -> T] /\ \A i, j \in 1 .. n : i # j => order[i] # order[j]
  BY DEF SetToSeqs
<1>3. \A t \in T : \E i \in 1 .. n : order[i] = t
  <2> HIDE DEF T
  <2>1. order \in Injection(1 .. n, T)
    BY <1>2 DEF Injection, IsInjective
  <2>2. Cardinality(1 .. n) = n
    <3> HIDE DEF n
    <3> QED
      BY <1>1, FS_Interval
  <2>3. order \in Surjection(1 .. n, T)
    BY <1>1, <2>1, <2>2, FS_Injection
  <2> QED
    BY <2>3 DEF Surjection
<1>4. DOMAIN order = 1 .. n
  BY <1>2
<1>5. \A i \in 1 .. n : ms[i] = <<"stopped", AgentOf[order[i]]>> /\ order[i] \in Sidecars
  <2>1. \A i \in 1 .. n : ms[i] = <<"stopped", AgentOf[order[i]]>>
    BY <1>4
  <2>2. \A i \in 1 .. n : order[i] \in Sidecars
    <3> HIDE DEF T, n
    <3> QED
      BY <1>1, <1>2
  <2> QED
    BY <2>1, <2>2
<1>6. \A i \in 1 .. n : ms[i] \in Messages
  <2> HIDE DEF T, n, ms
  <2>1. \A s \in Sidecars : <<"stopped", AgentOf[s]>> \in Messages
    BY DEF Messages, Agents
  <2> QED
    BY <1>5, <2>1
<1>7. ms \in Seq(Messages) /\ Len(ms) = n
  <2>1. ms \in [1 .. n -> Messages]
    BY <1>4, <1>6
  <2> HIDE DEF ms, n
  <2> QED
    BY <1>1, <2>1
<1>8. \A i \in 1 .. Len(ms) : ms[i][1] # "started"
  BY <1>5, <1>7
<1>9. \A t \in T : \E i \in 1 .. Len(ms) : ms[i] = <<"stopped", AgentOf[t]>>
  <2> HIDE DEF T, n, ms
  <2> QED
    BY <1>3, <1>5, <1>7
<1> QED
  BY <1>7, <1>8, <1>9

LEMMA CheckVadKeeps ==
  ASSUME AudioInv, NEW r \in Nat, CheckVad(r)
  PROVE  AudioInv'
<1> USE DEF AudioInv
<1>1. /\ active' = active \ TimedOut(r) /\ silent' = silent \ TimedOut(r)
      /\ speaking' = speaking \ TimedOut(r)
      /\ UNCHANGED <<link, router, made, mapped, monitored, raced>>
  BY DEF CheckVad, tableVars
<1>2. PICK order \in SetToSeqs(TimedOut(r)) :
        Post(InRoom(r), [i \in DOMAIN order |-> <<"stopped", AgentOf[order[i]]>>])
  BY DEF CheckVad
<1> DEFINE ms == [i \in DOMAIN order |-> <<"stopped", AgentOf[order[i]]>>]
<1>3. /\ ms \in Seq(Messages)
      /\ \A i \in 1 .. Len(ms) : ms[i][1] # "started"
      /\ \A t \in TimedOut(r) : \E i \in 1 .. Len(ms) : ms[i] = <<"stopped", AgentOf[t]>>
      /\ Post(InRoom(r), ms)
  BY <1>2, TimedOutAreNamed
<1> HIDE DEF ms
<1>4. /\ outbound' \in Seq(Messages) /\ deaf' \in BOOLEAN
      /\ listener' = listener /\ believes' = believes
  BY <1>3, Posted
<1>5. AudioTypes'
  BY <1>1, <1>4 DEF AudioTypes, Seated
<1>6. WatchInv'
  BY <1>1, WatchStays
<1>7. Around \ TimedOut(r) \subseteq Around'
  BY <1>1, <1>4 DEF Around, InRoom
<1>8. listener \in InRoom(r) => Seated(listener)
  BY DEF InRoom, Seated
<1>9. ASSUME link[listener] = "on", NEW t \in Around \cap TimedOut(r)
      PROVE  /\ listener \in InRoom(r)
             /\ \E i \in 1 .. Len(ms) : ms[i] = <<"stopped", AgentOf[t]>>
  <2>1. router[listener] = r
    BY <1>9 DEF Around, TimedOut, InRoom
  <2> QED
    BY <1>3, <1>9, <2>1 DEF InRoom, AudioTypes
<1>10. BeliefInv'
  BY <1>1, <1>3, <1>7, <1>8, <1>9, StopsAreHeard
<1> QED
  BY <1>5, <1>6, <1>10

(* Audio says nothing about who speaks.                                    *)
LEMMA AudioKeeps ==
  ASSUME AudioInv, NEW ls, listener \in ls => Seated(listener),
         Post(ls, <<<<"audio">>>>), silent' \subseteq silent,
         UNCHANGED <<link, router, made, mapped, monitored, raced, speaking, active>>
  PROVE  AudioInv'
<1> USE DEF AudioInv
<1> DEFINE m == <<<<"audio">>>>
<1>1. m \in Seq(Messages) /\ \A i \in 1 .. Len(m) : m[i][1] # "started"
  BY DEF Messages
<1>2. Post(ls, m)
  OBVIOUS
<1> HIDE DEF m
<1>3. /\ outbound' \in Seq(Messages) /\ deaf' \in BOOLEAN
      /\ listener' = listener /\ believes' = believes
  BY <1>1, <1>2, Posted
<1>4. AudioTypes'
  BY <1>3 DEF AudioTypes, Seated
<1>5. WatchInv'
  BY WatchStays
<1>6. Around \ {} \subseteq Around'
  BY <1>3 DEF Around, InRoom
<1>7. link'[listener] = link[listener]
  OBVIOUS
<1>8. \A t \in Around \cap {} : listener \in ls /\
        \E i \in 1 .. Len(m) : m[i] = <<"stopped", AgentOf[t]>>
  OBVIOUS
<1>9. BeliefInv'
  BY <1>1, <1>2, <1>6, <1>7, <1>8, StopsAreHeard
<1> QED
  BY <1>4, <1>5, <1>9

LEMMA SendKeeps ==
  ASSUME AudioInv, SendOutbound
  PROVE  AudioInv'
<1> USE DEF AudioInv
<1>1. /\ link[listener] = "on" /\ outbound # <<>> /\ outbound' = Tail(outbound)
      /\ UNCHANGED <<link, router, made, mapped, monitored, raced, speaking, active,
                     silent, listener>>
  BY DEF SendOutbound, tableVars
<1>2. /\ Head(outbound) \in Messages /\ Tail(outbound) \in Seq(Messages)
  BY <1>1, HeadTailProperties DEF AudioTypes
<1>3. \/ /\ believes' = CASE Head(outbound)[1] = "started" -> believes \cup {Head(outbound)[2]}
                          [] Head(outbound)[1] = "stopped" -> believes \ {Head(outbound)[2]}
                          [] OTHER -> believes
         /\ deaf' = deaf
      \/ deaf' = TRUE /\ believes' = believes
  BY DEF SendOutbound
<1>4. believes' \subseteq Agents
  <2>1. Head(outbound)[1] = "started" => Head(outbound)[2] \in Agents
    BY <1>2 DEF Messages
  <2> QED
    BY <1>3, <2>1 DEF AudioTypes
<1>5. AudioTypes'
  BY <1>1, <1>2, <1>3, <1>4 DEF AudioTypes, Seated
<1>6. WatchInv'
  BY <1>1, WatchStays
<1>7. Present' = Present
  BY <1>1 DEF Present, Around, InRoom
<1>8. ASSUME ~deaf', NEW a \in Agents, Believed(outbound', believes', a)
      PROVE  a \in Present'
  <2>1. believes' = CASE Head(outbound)[1] = "started" -> believes \cup {Head(outbound)[2]}
                      [] Head(outbound)[1] = "stopped" -> believes \ {Head(outbound)[2]}
                      [] OTHER -> believes
    BY <1>3, <1>8
  <2>2. outbound \in Seq(Messages)
    BY DEF AudioTypes
  <2>3. Believed(outbound, believes, a)
    BY <1>1, <1>8, <2>1, <2>2, BelievedEarlier
  <2> QED
    BY <1>1, <1>3, <1>7, <1>8, <2>3 DEF BeliefInv
<1> QED
  BY <1>1, <1>5, <1>6, <1>8 DEF BeliefInv

LEMMA EndKeeps ==
  ASSUME AudioInv, NEW s \in Sidecars, InboundEnds(s)
  PROVE  AudioInv'
<1> USE DEF AudioInv
<1>1. /\ link[s] = "on" /\ link' = [link EXCEPT ![s] = "ending"]
      /\ UNCHANGED <<router, made, mapped, monitored, raced, speaking, active, silent,
                     listener, outbound, deaf, mute, believes>>
  BY DEF InboundEnds, tableVars, queueVars
<1>2. \A t \in Sidecars : /\ Seated(t)' = Seated(t)
                          /\ link'[t] = "cleaning" <=> link[t] = "cleaning"
                          /\ link'[t] = "new" <=> link[t] = "new"
                          /\ link'[t] = "on" => link[t] = "on"
  BY <1>1 DEF AudioTypes, Seated
<1>3. AudioTypes'
  BY <1>1, <1>2 DEF AudioTypes
<1>4. WatchInv'
  BY <1>1, <1>2 DEF WatchInv
<1>5. Present' = Present
  BY <1>1, <1>2 DEF Present, Around, InRoom, Seated
<1>6. BeliefInv'
  BY <1>1, <1>2, <1>5 DEF BeliefInv, AudioTypes
<1> QED
  BY <1>3, <1>4, <1>6

LEMMA CleanupKeeps ==
  ASSUME AudioInv, NEW s \in Sidecars, CleanupAudio(s)
  PROVE  AudioInv'
<1> USE DEF AudioInv
<1> DEFINE empty == mapped # 0 /\ InRoom(mapped) \ {s} = {}
           m == <<<<"stopped", AgentOf[s]>>>>
<1>1. /\ link[s] = "ending"
      /\ link' = [link EXCEPT ![s] = IF empty THEN "cleaning" ELSE "gone"]
      /\ monitored' = IF empty THEN monitored \ {mapped} ELSE monitored
      /\ active' = active \ {s} /\ speaking' = speaking \ {s} /\ silent' = silent \ {s}
      /\ UNCHANGED <<router, made, mapped, raced>>
  BY DEF CleanupAudio
<1>2. \/ s \in active /\ Post(InRoom(router[s]), m)
      \/ s \notin active /\ UNCHANGED <<listener, outbound, deaf, mute, believes>>
  BY DEF CleanupAudio, Announce, queueVars, AudioTypes
<1>3. m \in Seq(Messages) /\ Len(m) = 1 /\ m[1] = <<"stopped", AgentOf[s]>>
  BY DEF Messages, Agents
<1> HIDE DEF m
<1>4. /\ outbound' \in Seq(Messages) /\ deaf' \in BOOLEAN
      /\ listener' = listener /\ believes' = believes
  BY <1>2, <1>3, Posted DEF AudioTypes
<1>5. /\ ~Seated(s)' /\ link'[s] \in {"cleaning", "gone"}
      /\ \A t \in Sidecars \ {s} : Seated(t)' = Seated(t) /\ link'[t] = link[t]
  BY <1>1 DEF AudioTypes, Seated
<1>6. AudioTypes'
  BY <1>1, <1>4, <1>5 DEF AudioTypes
<1>7. WatchInv'
  <2> SUFFICES ASSUME ~raced PROVE WatchInv'
    BY <1>1 DEF WatchInv
  <2>1. Seated(s) /\ router[s] = mapped /\ mapped # 0
    BY <1>1 DEF Seated, WatchInv
  <2>2. \A t \in Sidecars : link[t] # "cleaning"
    BY <2>1 DEF WatchInv
  <2>3. CASE empty
    <3>1. \A t \in Sidecars \ {s} : ~Seated(t)
      BY <2>3 DEF InRoom, Seated, WatchInv
    <3>2. link'[s] = "cleaning"
      BY <1>1, <2>3 DEF AudioTypes
    <3> QED
      BY <1>1, <1>5, <3>1, <3>2 DEF WatchInv
  <2>4. CASE ~empty
    <3>1. link'[s] = "gone"
      BY <1>1, <2>4 DEF AudioTypes
    <3>2. \A t \in Sidecars : link'[t] # "cleaning"
      BY <1>5, <2>2, <3>1
    <3>3. mapped \in monitored'
      BY <1>1, <2>1, <2>4 DEF WatchInv
    <3> QED
      BY <1>1, <1>5, <3>2, <3>3 DEF WatchInv
  <2> QED
    BY <2>3, <2>4
<1>8. Around \ {s} \subseteq Around'
  BY <1>1, <1>4, <1>5 DEF Around, InRoom, Seated, AudioTypes
<1>9. BeliefInv'
  <2>1. CASE s = listener
    BY <1>4, <1>5, <2>1 DEF BeliefInv
  <2>2. CASE s # listener /\ s \notin active
    <3>1. Present \subseteq Present' /\ link'[listener] = link[listener]
      BY <1>5, <1>8, <2>2 DEF Present, Around, AudioTypes
    <3> QED
      BY <1>2, <2>2, <3>1 DEF BeliefInv
  <2>3. CASE s # listener /\ s \in active
    <3>1. Post(InRoom(router[s]), m)
      BY <1>2, <2>3
    <3>2. link'[listener] = link[listener]
      BY <1>5, <2>3 DEF AudioTypes
    <3>3. \A i \in 1 .. Len(m) : m[i][1] # "started"
      BY <1>3
    <3>4. listener \in InRoom(router[s]) => Seated(listener)
      BY DEF InRoom, Seated
    <3>5. ASSUME link[listener] = "on", NEW t \in Around \cap {s}
          PROVE  /\ listener \in InRoom(router[s])
                 /\ \E i \in 1 .. Len(m) : m[i] = <<"stopped", AgentOf[t]>>
      BY <1>1, <1>3, <3>5, SameRoom DEF Around, Seated
    <3> QED
      BY <1>3, <1>8, <3>1, <3>2, <3>3, <3>4, <3>5, StopsAreHeard
  <2> QED
    BY <2>1, <2>2, <2>3
<1> QED
  BY <1>6, <1>7, <1>9

LEMMA StoppedKeeps ==
  ASSUME AudioInv, NEW s \in Sidecars, RouterStopped(s)
  PROVE  AudioInv'
<1> USE DEF AudioInv
<1>1. /\ link[s] = "cleaning" /\ link' = [link EXCEPT ![s] = "gone"] /\ mapped' = 0
      /\ UNCHANGED <<router, made, monitored, raced, speaking, active, silent,
                     listener, outbound, deaf, mute, believes>>
  BY DEF RouterStopped, queueVars
<1>2. \A t \in Sidecars : /\ Seated(t)' = Seated(t)
                          /\ link'[t] = "new" => link[t] = "new"
                          /\ link'[t] = "on" => link[t] = "on"
  BY <1>1 DEF AudioTypes, Seated
<1>3. AudioTypes'
  BY <1>1, <1>2 DEF AudioTypes
<1>4. WatchInv'
  <2> SUFFICES ASSUME ~raced PROVE WatchInv'
    BY <1>1 DEF WatchInv
  <2>1. \A t \in Sidecars : ~Seated(t)
    BY <1>1 DEF WatchInv
  <2> QED
    BY <1>1, <1>2, <2>1 DEF WatchInv
<1>5. Present' = Present
  BY <1>1, <1>2 DEF Present, Around, InRoom, Seated
<1>6. BeliefInv'
  BY <1>1, <1>2, <1>5 DEF BeliefInv, AudioTypes
<1> QED
  BY <1>3, <1>4, <1>6

LEMMA AudioInvKept == AudioInv /\ [Next]_vars => AudioInv'
<1> SUFFICES ASSUME AudioInv, [Next]_vars PROVE AudioInv'
  OBVIOUS
<1>1. UNCHANGED audioVars \/ AudioNext
  BY DEF Next, vars, OnBus, InAudio, InSpeech, InChat, InFeed, InStream
<1>2. CASE UNCHANGED audioVars
  <2>1. /\ AudioTypes' /\ WatchInv'
    BY <1>2 DEF AudioInv, AudioTypes, WatchInv, Seated, audioVars
  <2>2. Present' = Present
    BY <1>2 DEF Present, Around, InRoom, audioVars
  <2>3. BeliefInv'
    BY <1>2, <2>2 DEF AudioInv, BeliefInv, audioVars
  <2> QED
    BY <2>1, <2>3 DEF AudioInv
<1>3. ASSUME NEW s \in Sidecars, SidecarStep(s)
      PROVE  AudioInv'
  <2>1. CASE ConnectAudio(s)
    BY <2>1, ConnectKeeps
  <2>2. CASE StartSpeaking(s)
    BY <2>2, StartKeeps
  <2>3. CASE StopSpeaking(s)
    BY <2>3, StopKeeps
  <2>4. CASE AudioData(s)
    <3>1. listener \in InRoom(router[s]) \ {s} => Seated(listener)
      BY DEF InRoom, Seated
    <3>2. /\ Post(InRoom(router[s]) \ {s}, <<<<"audio">>>>)
          /\ silent' \subseteq silent
          /\ UNCHANGED <<link, router, made, mapped, monitored, raced, speaking, active>>
      BY <2>4 DEF AudioData, tableVars
    <3> QED
      BY <3>1, <3>2, AudioKeeps
  <2>5. CASE TimeoutPasses(s)
    <3>1. /\ silent' \subseteq active /\ active' = active
          /\ UNCHANGED <<link, router, made, mapped, monitored, raced, speaking, listener,
                         outbound, deaf, mute, believes>>
      BY <2>5 DEF TimeoutPasses, tableVars, queueVars, AudioInv, AudioTypes
    <3>2. AudioTypes' /\ WatchInv'
      BY <3>1, WatchStays DEF AudioInv, AudioTypes, Seated
    <3>3. Present' = Present
      BY <3>1 DEF Present, Around, InRoom
    <3> QED
      BY <3>1, <3>2, <3>3 DEF AudioInv, BeliefInv
  <2>6. CASE InboundEnds(s)
    BY <2>6, EndKeeps
  <2>7. CASE CleanupAudio(s)
    BY <2>7, CleanupKeeps
  <2>8. CASE RouterStopped(s)
    BY <2>8, StoppedKeeps
  <2> QED
    BY <1>3, <2>1, <2>2, <2>3, <2>4, <2>5, <2>6, <2>7, <2>8 DEF SidecarStep
<1>4. CASE SilenceClock
  <2>1. /\ Post({listener}, <<<<"audio">>>>) /\ Seated(listener)
        /\ UNCHANGED <<link, router, made, mapped, monitored, raced, speaking, active, silent>>
    BY <1>4 DEF SilenceClock, tableVars, Seated
  <2> QED
    BY <2>1, AudioKeeps
<1>5. CASE SendOutbound
  BY <1>5, SendKeeps
<1>6. ASSUME NEW r \in 1 .. made, CheckVad(r)
      PROVE  AudioInv'
  <2>1. r \in Nat
    BY DEF AudioInv, AudioTypes
  <2> QED
    BY <1>6, <2>1, CheckVadKeeps
<1> QED
  BY <1>1, <1>2, <1>3, <1>4, <1>5, <1>6 DEF AudioNext

(* For any number of sessions, agents and places in the queue: sessions    *)
(* and routers agree on who speaks, a client that has missed nothing takes *)
(* nobody to be speaking who is not, and speakers are watched but for the  *)
(* race of cleanup_audio_router (audio_router.py, audio_session.py).       *)
THEOREM ViewsStayTrue == Spec => []ViewsAreTrue
<1>1. Init => AudioInv
  BY AudioBegins DEF Init
<1>2. AudioInv => ViewsAreTrue
  <2> SUFFICES ASSUME AudioInv PROVE ViewsAreTrue
    OBVIOUS
  <2>1. speaking = active
    BY DEF AudioInv, AudioTypes
  <2>2. ASSUME link[listener] = "on", ~deaf, outbound = <<>>, NEW a \in believes
        PROVE  a \in Present
    <3>1. Believed(outbound, believes, a)
      BY <2>2 DEF Believed, NeverStopped
    <3>2. a \in Agents
      BY DEF AudioInv, AudioTypes
    <3> QED
      BY <2>2, <3>1, <3>2 DEF AudioInv, BeliefInv
  <2>3. raced \/ \A s \in active : router[s] \in monitored
    BY DEF AudioInv, AudioTypes, WatchInv
  <2> QED
    BY <2>1, <2>2, <2>3 DEF ViewsAreTrue, Present, Around
<1> QED
  BY <1>1, <1>2, AudioInvKept, PTL DEF Spec
-----------------------------------------------------------------------------
(* seq is what stands in all after its first i elements, or the start of   *)
(* it.                                                                     *)
Follows(seq, all, i) ==
  /\ i + Len(seq) <= Len(all)
  /\ \A x \in 1 .. Len(seq) : seq[x] = all[i + x]

\* Messages a process is done with, and those it is done with for a session.
Read(b) == Len(announced) - Len(channel[b])
ReadFor(v) ==
  LET b == BridgeOf[v] IN
  IF showing[b] # NotShowing /\ v \notin showing[b] THEN Read(b) + 1 ELSE Read(b)

ChatTypes ==
  /\ sent \in Nat
  /\ composing \in [Senders -> Nat]
  /\ announced \in Seq(Nat)
  /\ channel \in [Bridges -> Seq(Nat)]
  /\ showing \in [Bridges -> (SUBSET Viewers) \cup {NotShowing}]
  /\ listening \subseteq Bridges
  /\ present \subseteq Viewers
  /\ shown \in [Viewers -> Seq(Nat)]
  /\ since \in [Viewers -> Nat]

(* What waits for a process that listens is the end of what was published. *)
WaitingIsTheEnd ==
  \A b \in listening :
    /\ Len(channel[b]) <= Len(announced)
    /\ Follows(channel[b], announced, Read(b))
    /\ showing[b] # NotShowing =>
         channel[b] # <<>> /\ \A v \in showing[b] : BridgeOf[v] = b

(* A session has been shown what was published from some message on that   *)
(* it did not come after, up to where its process is.                      *)
ShownWithoutGap ==
  \A v \in present :
    /\ since[v] <= Len(announced)
    /\ \E i \in 0 .. since[v] :
         /\ Follows(shown[v], announced, i)
         /\ BridgeOf[v] \in listening => i + Len(shown[v]) = ReadFor(v)

ChatInv == ChatTypes /\ WaitingIsTheEnd /\ ShownWithoutGap

LEMMA ChatBegins == ChatInit => ChatInv
<1> SUFFICES ASSUME ChatInit PROVE ChatInv
  OBVIOUS
<1>1. <<>> \in Seq(Nat) /\ Len(<<>>) = 0
  BY EmptySeq
<1>2. ChatTypes
  <2>1. composing \in [Senders -> Nat] /\ since \in [Viewers -> Nat]
    BY DEF ChatInit
  <2>2. channel \in [Bridges -> Seq(Nat)] /\ shown \in [Viewers -> Seq(Nat)]
    BY <1>1 DEF ChatInit
  <2>3. showing \in [Bridges -> (SUBSET Viewers) \cup {NotShowing}]
    BY DEF ChatInit
  <2> QED
    BY <1>1, <2>1, <2>2, <2>3 DEF ChatInit, ChatTypes
<1>3. WaitingIsTheEnd
  BY <1>1 DEF ChatInit, WaitingIsTheEnd, Follows, Read
<1> QED
  BY <1>2, <1>3 DEF ChatInit, ChatInv, ShownWithoutGap

(* More is published: nothing that was in its place leaves it.             *)
LEMMA StillFollows ==
  ASSUME NEW all \in Seq(Nat), NEW m \in Nat, NEW seq \in Seq(Nat), NEW i \in Nat,
         Follows(seq, all, i)
  PROVE  Follows(seq, Append(all, m), i)
<1>1. /\ Len(Append(all, m)) = Len(all) + 1
      /\ \A k \in 1 .. Len(all) : Append(all, m)[k] = all[k]
  BY AppendProperties
<1>2. Len(seq) \in Nat /\ Len(all) \in Nat
  OBVIOUS
<1>3. \A x \in 1 .. Len(seq) : i + x \in 1 .. Len(all)
  BY <1>2 DEF Follows
<1> QED
  BY <1>1, <1>2, <1>3 DEF Follows

(* Both get the same message at their end.                                 *)
LEMMA BothFollow ==
  ASSUME NEW all \in Seq(Nat), NEW m \in Nat, NEW seq \in Seq(Nat), NEW i \in Nat,
         Follows(seq, all, i), i + Len(seq) = Len(all)
  PROVE  Follows(Append(seq, m), Append(all, m), i)
<1>1. /\ Len(Append(all, m)) = Len(all) + 1
      /\ \A k \in 1 .. Len(all) : Append(all, m)[k] = all[k]
      /\ Append(all, m)[Len(all) + 1] = m
  BY AppendProperties
<1>2. /\ Len(Append(seq, m)) = Len(seq) + 1
      /\ \A k \in 1 .. Len(seq) : Append(seq, m)[k] = seq[k]
      /\ Append(seq, m)[Len(seq) + 1] = m
  BY AppendProperties
<1>3. Len(seq) \in Nat /\ Len(all) \in Nat
  OBVIOUS
<1>4. ASSUME NEW x \in 1 .. Len(seq) + 1
      PROVE  Append(seq, m)[x] = Append(all, m)[i + x]
  <2>0. x = Len(seq) + 1 \/ x \in 1 .. Len(seq)
    BY <1>3
  <2>1. CASE x = Len(seq) + 1
    <3>1. i + x = Len(all) + 1
      BY <2>1, <1>3
    <3> QED
      BY <2>1, <3>1, <1>1, <1>2
  <2>2. CASE x \in 1 .. Len(seq)
    <3>1. i + x \in 1 .. Len(all)
      BY <2>2, <1>3
    <3> QED
      BY <2>2, <3>1, <1>1, <1>2 DEF Follows
  <2> QED
    BY <2>0, <2>1, <2>2
<1> QED
  BY <1>1, <1>2, <1>3, <1>4 DEF Follows

(* The next one of all.                                                    *)
LEMMA FollowsOnce ==
  ASSUME NEW all \in Seq(Nat), NEW seq \in Seq(Nat), NEW i \in Nat,
         Follows(seq, all, i), i + Len(seq) < Len(all)
  PROVE  Follows(Append(seq, all[i + Len(seq) + 1]), all, i)
<1>0. Len(seq) \in Nat /\ Len(all) \in Nat
  OBVIOUS
<1> DEFINE m == all[i + Len(seq) + 1]
<1>1. m \in Nat
  <2>1. i + Len(seq) + 1 \in 1 .. Len(all)
    BY <1>0
  <2> QED
    BY <2>1, ElementOfSeq
<1>2. /\ Len(Append(seq, m)) = Len(seq) + 1
      /\ \A k \in 1 .. Len(seq) : Append(seq, m)[k] = seq[k]
      /\ Append(seq, m)[Len(seq) + 1] = m
  BY <1>1, AppendProperties
<1>3. ASSUME NEW x \in 1 .. Len(seq) + 1
      PROVE  Append(seq, m)[x] = all[i + x]
  <2>1. CASE x = Len(seq) + 1
    <3>1. i + x = i + Len(seq) + 1
      BY <2>1, <1>0
    <3> QED
      BY <2>1, <3>1, <1>2
  <2>2. CASE x \in 1 .. Len(seq)
    BY <2>2, <1>2 DEF Follows
  <2> QED
    BY <1>0, <2>1, <2>2
<1> DEFINE t == Append(seq, m)
<1>4. Len(t) = Len(seq) + 1 /\ \A x \in 1 .. Len(seq) + 1 : t[x] = all[i + x]
  BY <1>2, <1>3
<1> HIDE DEF m, t
<1>5. Follows(t, all, i)
  BY <1>0, <1>4 DEF Follows
<1> QED
  BY <1>5 DEF m, t

(* One message less before, one more behind.                               *)
LEMMA FollowsLater ==
  ASSUME NEW all \in Seq(Nat), NEW seq \in Seq(Nat), NEW i \in Nat,
         Follows(seq, all, i), seq # <<>>
  PROVE  /\ Head(seq) = all[i + 1]
         /\ Tail(seq) \in Seq(Nat) /\ Len(Tail(seq)) = Len(seq) - 1
         /\ Follows(Tail(seq), all, i + 1)
<1>1. /\ Len(seq) \in Nat \ {0} /\ Len(all) \in Nat
      /\ Tail(seq) \in Seq(Nat) /\ Len(Tail(seq)) = Len(seq) - 1
      /\ Head(seq) = seq[1]
      /\ \A x \in 1 .. Len(Tail(seq)) : Tail(seq)[x] = seq[x + 1]
  BY HeadTailProperties, EmptySeq
<1>2. \A x \in 1 .. Len(Tail(seq)) : Tail(seq)[x] = all[(i + 1) + x]
  <2>1. SUFFICES ASSUME NEW x \in 1 .. Len(Tail(seq)) PROVE Tail(seq)[x] = all[(i + 1) + x]
    OBVIOUS
  <2>2. x + 1 \in 1 .. Len(seq) /\ i + (x + 1) = (i + 1) + x
    BY <1>1
  <2> QED
    BY <1>1, <2>2 DEF Follows
<1>3. Head(seq) = all[i + 1]
  BY <1>1 DEF Follows
<1>4. (i + 1) + Len(Tail(seq)) <= Len(all)
  BY <1>1 DEF Follows
<1> QED
  BY <1>1, <1>2, <1>3, <1>4 DEF Follows

(* A message on the channel: to all who listen.                            *)
LEMMA PublishKeeps ==
  ASSUME ChatInv, NEW m \in Nat, PublishChat(m),
         UNCHANGED <<listening, showing, present, shown, since>>
  PROVE  /\ announced' \in Seq(Nat)
         /\ channel' \in [Bridges -> Seq(Nat)]
         /\ WaitingIsTheEnd' /\ ShownWithoutGap'
<1>1. /\ announced \in Seq(Nat) /\ Len(announced) \in Nat
      /\ announced' = Append(announced, m)
      /\ announced' \in Seq(Nat) /\ Len(announced') = Len(announced) + 1
  BY AppendProperties DEF ChatInv, ChatTypes, PublishChat
<1>2. \A b \in Bridges :
        /\ channel[b] \in Seq(Nat) /\ Len(channel[b]) \in Nat
        /\ Append(channel[b], m) \in Seq(Nat)
        /\ Append(channel[b], m) # <<>>
        /\ Len(Append(channel[b], m)) = Len(channel[b]) + 1
  <2>1. \A b \in Bridges : channel[b] \in Seq(Nat)
    BY DEF ChatInv, ChatTypes
  <2> QED
    BY <2>1, AppendProperties
<1>3. channel' \in [Bridges -> Seq(Nat)]
  BY <1>2 DEF PublishChat
<1>4. \A b \in listening : b \in Bridges /\ channel'[b] = Append(channel[b], m)
  BY DEF ChatInv, ChatTypes, PublishChat
<1>5. ASSUME NEW b \in listening PROVE Read(b)' = Read(b)
  <2>1. Len(channel'[b]) = Len(channel[b]) + 1 /\ Len(channel[b]) \in Nat
    BY <1>2, <1>4
  <2> QED
    BY <1>1, <2>1 DEF Read
<1>6. WaitingIsTheEnd'
  <2>1. SUFFICES ASSUME NEW b \in listening
                 PROVE  /\ Len(channel'[b]) <= Len(announced')
                        /\ Follows(channel'[b], announced', Read(b))
                        /\ channel'[b] # <<>>
    BY <1>5 DEF ChatInv, WaitingIsTheEnd, Follows
  <2>2. /\ Len(channel[b]) <= Len(announced)
        /\ Follows(channel[b], announced, Read(b))
    BY DEF ChatInv, WaitingIsTheEnd
  <2>3. Read(b) \in Nat /\ Read(b) + Len(channel[b]) = Len(announced)
    BY <1>1, <1>2, <1>4, <2>2 DEF Read
  <2>4. Follows(channel'[b], announced', Read(b))
    BY <1>1, <1>2, <1>4, <2>2, <2>3, BothFollow
  <2> QED
    BY <1>1, <1>2, <1>4, <2>2, <2>4
<1>7. ShownWithoutGap'
  <2>1. SUFFICES ASSUME NEW v \in present
                 PROVE  /\ since[v] <= Len(announced')
                        /\ \E i \in 0 .. since[v] :
                             /\ Follows(shown[v], announced', i)
                             /\ BridgeOf[v] \in listening =>
                                  i + Len(shown[v]) = ReadFor(v)'
    BY DEF ShownWithoutGap, Follows
  <2>2. /\ v \in Viewers /\ shown[v] \in Seq(Nat) /\ since[v] \in Nat
        /\ since[v] <= Len(announced)
    BY DEF ChatInv, ChatTypes, ShownWithoutGap
  <2>3. PICK i \in 0 .. since[v] :
          /\ Follows(shown[v], announced, i)
          /\ BridgeOf[v] \in listening => i + Len(shown[v]) = ReadFor(v)
    BY DEF ChatInv, ShownWithoutGap
  <2>4. Follows(shown[v], announced', i)
    BY <1>1, <2>2, <2>3, StillFollows
  <2>5. BridgeOf[v] \in listening => ReadFor(v)' = ReadFor(v)
    BY <1>5 DEF ReadFor
  <2> QED
    BY <1>1, <2>2, <2>3, <2>4, <2>5
<1> QED
  BY <1>1, <1>3, <1>6, <1>7

(* A session comes: it has been shown nothing, and its process is nowhere  *)
(* past what was published.                                                *)
LEMMA EnterKeeps ==
  ASSUME ChatInv, NEW v \in Viewers, EnterChat(v)
  PROVE  ChatInv'
<1>1. ChatTypes'
  BY EmptySeq DEF ChatInv, ChatTypes, EnterChat
<1>2. WaitingIsTheEnd'
  BY DEF ChatInv, WaitingIsTheEnd, EnterChat, Follows, Read
<1>3. \A w \in Viewers : ReadFor(w)' = ReadFor(w)
  BY DEF ReadFor, Read, EnterChat
<1>4. ASSUME NEW w \in present', w # v
      PROVE  /\ since'[w] <= Len(announced')
             /\ \E i \in 0 .. since'[w] :
                  /\ Follows(shown'[w], announced', i)
                  /\ BridgeOf[w] \in listening' => i + Len(shown'[w]) = ReadFor(w)'
  <2>1. w \in present /\ w \in Viewers
    BY <1>4 DEF ChatInv, ChatTypes, EnterChat
  <2>2. since'[w] = since[w] /\ shown'[w] = shown[w]
    BY <1>4, <2>1 DEF ChatInv, ChatTypes, EnterChat
  <2> QED
    BY <1>3, <2>1, <2>2 DEF ChatInv, ShownWithoutGap, EnterChat
<1>5. since'[v] = Len(announced) /\ shown'[v] = <<>> /\ announced' = announced
  BY DEF ChatInv, ChatTypes, EnterChat
<1>6. Len(announced) \in Nat /\ Len(<<>>) = 0
  BY EmptySeq DEF ChatInv, ChatTypes
<1>7. \A i \in 0 .. Len(announced) : Follows(<<>>, announced, i)
  BY <1>6 DEF Follows
<1>8. BridgeOf[v] \in listening => ReadFor(v) \in 0 .. Len(announced)
  <2>1. SUFFICES ASSUME BridgeOf[v] \in listening PROVE ReadFor(v) \in 0 .. Len(announced)
    OBVIOUS
  <2> DEFINE b == BridgeOf[v]
  <2>2. /\ b \in Bridges /\ channel[b] \in Seq(Nat) /\ Len(channel[b]) \in Nat
        /\ Len(channel[b]) <= Len(announced)
        /\ showing[b] # NotShowing => channel[b] # <<>>
    BY <2>1, ChatAssumption DEF ChatInv, ChatTypes, WaitingIsTheEnd
  <2>3. showing[b] # NotShowing => Len(channel[b]) # 0
    BY <2>2, EmptySeq
  <2> QED
    BY <1>6, <2>2, <2>3 DEF ReadFor, Read
<1>9. /\ since'[v] <= Len(announced')
      /\ \E i \in 0 .. since'[v] :
           /\ Follows(shown'[v], announced', i)
           /\ BridgeOf[v] \in listening' => i + Len(shown'[v]) = ReadFor(v)'
  <2>1. CASE BridgeOf[v] \in listening
    <3>1. ReadFor(v) \in 0 .. since'[v] /\ Follows(shown'[v], announced', ReadFor(v))
      BY <1>5, <1>7, <1>8, <2>1
    <3>2. ReadFor(v) + Len(shown'[v]) = ReadFor(v)'
      BY <1>3, <1>5, <1>6, <1>8, <2>1
    <3> QED
      BY <1>5, <1>6, <3>1, <3>2
  <2>2. CASE BridgeOf[v] \notin listening
    BY <1>5, <1>6, <1>7, <2>2 DEF EnterChat
  <2> QED
    BY <2>1, <2>2
<1>10. ShownWithoutGap'
  BY <1>4, <1>9 DEF ShownWithoutGap
<1> QED
  BY <1>1, <1>2, <1>10 DEF ChatInv

(* The list of sessions is made: all who are there are on it.              *)
LEMMA BeginBroadcastKeeps ==
  ASSUME ChatInv, NEW b \in Bridges, BeginBroadcast(b)
  PROVE  ChatInv'
<1> DEFINE them == {v \in present : BridgeOf[v] = b}
<1>1. them \in SUBSET Viewers /\ them # NotShowing
  BY ChatAssumption DEF ChatInv, ChatTypes
<1>2. showing' \in [Bridges -> (SUBSET Viewers) \cup {NotShowing}]
  BY <1>1 DEF ChatInv, ChatTypes, BeginBroadcast
<1>3. ChatTypes'
  BY <1>2 DEF ChatInv, ChatTypes, BeginBroadcast
<1>4. \A c \in Bridges : showing'[c] = IF c = b THEN them ELSE showing[c]
  BY DEF ChatInv, ChatTypes, BeginBroadcast
<1>5. WaitingIsTheEnd'
  BY <1>4 DEF ChatInv, ChatTypes, WaitingIsTheEnd, BeginBroadcast, Follows, Read
<1>6. ASSUME NEW v \in present PROVE ReadFor(v)' = ReadFor(v)
  <2>1. BridgeOf[v] \in Bridges /\ (BridgeOf[v] = b => v \in them)
    BY ChatAssumption DEF ChatInv, ChatTypes
  <2>2. CASE BridgeOf[v] = b
    BY <1>4, <2>1, <2>2 DEF ReadFor, Read, BeginBroadcast
  <2>3. CASE BridgeOf[v] # b
    BY <1>4, <2>1, <2>3 DEF ReadFor, Read, BeginBroadcast
  <2> QED
    BY <2>2, <2>3
<1>7. ShownWithoutGap'
  BY <1>6 DEF ChatInv, ShownWithoutGap, BeginBroadcast, Follows
<1> QED
  BY <1>3, <1>5, <1>7 DEF ChatInv

(* One session is shown the message that its process has in hand.          *)
LEMMA ShowToKeeps ==
  ASSUME ChatInv, NEW b \in Bridges, NEW v \in Viewers, ShowTo(b, v)
  PROVE  ChatInv'
<1>1. /\ b \in listening /\ showing[b] # NotShowing /\ v \in showing[b]
      /\ \A w \in showing[b] : BridgeOf[w] = b
      /\ showing[b] \in SUBSET Viewers
      /\ channel[b] \in Seq(Nat) /\ channel[b] # <<>>
  BY DEF ChatInv, ChatTypes, WaitingIsTheEnd, ShowTo
<1>2. showing[b] \ {v} \in SUBSET Viewers /\ showing[b] \ {v} # NotShowing
  BY <1>1, ChatAssumption
<1>3. \A c \in Bridges : showing'[c] = IF c = b THEN showing[b] \ {v} ELSE showing[c]
  BY DEF ChatInv, ChatTypes, ShowTo
<1>4. showing' \in [Bridges -> (SUBSET Viewers) \cup {NotShowing}]
  BY <1>2 DEF ChatInv, ChatTypes, ShowTo
<1>5. /\ announced \in Seq(Nat) /\ Len(announced) \in Nat
      /\ Read(b) \in Nat /\ Read(b) < Len(announced)
      /\ Head(channel[b]) = announced[Read(b) + 1]
      /\ Head(channel[b]) \in Nat
  <2>1. announced \in Seq(Nat) /\ Len(announced) \in Nat
    BY DEF ChatInv, ChatTypes
  <2>2. Len(channel[b]) \in Nat \ {0} /\ Len(channel[b]) <= Len(announced)
    BY <1>1, EmptySeq DEF ChatInv, WaitingIsTheEnd
  <2>3. Read(b) \in Nat /\ Read(b) < Len(announced)
    BY <2>1, <2>2 DEF Read
  <2>4. Follows(channel[b], announced, Read(b))
    BY <1>1 DEF ChatInv, WaitingIsTheEnd
  <2>5. Head(channel[b]) = announced[Read(b) + 1]
    BY <1>1, <2>1, <2>3, <2>4, FollowsLater
  <2> QED
    BY <1>1, <2>1, <2>3, <2>5, HeadTailProperties
<1>6. \A w \in Viewers : shown[w] \in Seq(Nat)
  BY DEF ChatInv, ChatTypes
<1>7. /\ shown' \in [Viewers -> Seq(Nat)]
      /\ \A w \in Viewers \ {v} : shown'[w] = shown[w]
      /\ v \in present => shown'[v] = Append(shown[v], Head(channel[b]))
  <2>1. Append(shown[v], Head(channel[b])) \in Seq(Nat)
    BY <1>5, <1>6, AppendProperties
  <2> QED
    BY <2>1 DEF ChatInv, ChatTypes, ShowTo
<1>8. ChatTypes'
  BY <1>4, <1>7 DEF ChatInv, ChatTypes, ShowTo
<1>9. WaitingIsTheEnd'
  BY <1>1, <1>3 DEF ChatInv, ChatTypes, WaitingIsTheEnd, ShowTo, Follows, Read
<1>10. ASSUME NEW w \in present, w # v
       PROVE  /\ since'[w] <= Len(announced')
              /\ \E i \in 0 .. since'[w] :
                   /\ Follows(shown'[w], announced', i)
                   /\ BridgeOf[w] \in listening' => i + Len(shown'[w]) = ReadFor(w)'
  <2>1. w \in Viewers /\ BridgeOf[w] \in Bridges /\ shown'[w] = shown[w]
    BY <1>7, <1>10, ChatAssumption DEF ChatInv, ChatTypes
  <2>2. ReadFor(w)' = ReadFor(w)
    <3>1. CASE BridgeOf[w] = b
      <4>1. showing'[b] # NotShowing /\ (w \in showing'[b] <=> w \in showing[b])
        BY <1>2, <1>3, <1>10
      <4> QED
        BY <1>1, <4>1, <3>1 DEF ReadFor, Read, ShowTo
    <3>2. CASE BridgeOf[w] # b
      BY <1>3, <2>1, <3>2 DEF ReadFor, Read, ShowTo
    <3> QED
      BY <3>1, <3>2
  <2> QED
    BY <2>1, <2>2 DEF ChatInv, ShownWithoutGap, ShowTo
<1>11. ASSUME v \in present
       PROVE  /\ since'[v] <= Len(announced')
              /\ \E i \in 0 .. since'[v] :
                   /\ Follows(shown'[v], announced', i)
                   /\ BridgeOf[v] \in listening' => i + Len(shown'[v]) = ReadFor(v)'
  <2>1. PICK i \in 0 .. since[v] :
          /\ Follows(shown[v], announced, i)
          /\ BridgeOf[v] \in listening => i + Len(shown[v]) = ReadFor(v)
    BY <1>11 DEF ChatInv, ShownWithoutGap
  <2>2. since[v] \in Nat /\ since[v] <= Len(announced)
    BY <1>11 DEF ChatInv, ChatTypes, ShownWithoutGap
  <2>3. i \in Nat /\ Len(shown[v]) \in Nat
    BY <1>6, <2>2
  <2>4. BridgeOf[v] = b
    BY <1>1
  <2>5. ReadFor(v) = Read(b) /\ ReadFor(v)' = Read(b) + 1
    <3>1. showing'[b] # NotShowing /\ v \notin showing'[b] /\ v \in showing[b]
      BY <1>1, <1>2, <1>3
    <3>2. announced' = announced /\ channel' = channel
      BY DEF ShowTo
    <3> QED
      BY <1>1, <2>4, <3>1, <3>2 DEF ReadFor, Read
  <2>6. i + Len(shown[v]) = Read(b)
    BY <1>1, <2>1, <2>4, <2>5
  <2>7. shown'[v] = Append(shown[v], announced[i + Len(shown[v]) + 1])
    BY <1>5, <1>7, <1>11, <2>6
  <2>8. Follows(shown'[v], announced, i)
    BY <1>5, <1>6, <2>1, <2>3, <2>6, <2>7, FollowsOnce
  <2>9. Len(shown'[v]) = Len(shown[v]) + 1
    BY <1>5, <1>6, <1>7, <1>11, AppendProperties
  <2>10. i + Len(shown'[v]) = ReadFor(v)'
    BY <1>5, <2>3, <2>5, <2>6, <2>9
  <2> QED
    BY <2>1, <2>2, <2>8, <2>10 DEF ShowTo
<1>12. ShownWithoutGap'
  BY <1>10, <1>11 DEF ShownWithoutGap, ShowTo
<1> QED
  BY <1>8, <1>9, <1>12 DEF ChatInv

(* All have been shown the message: the next one, which is the one that    *)
(* every session of the process is to see.                                 *)
LEMMA EndBroadcastKeeps ==
  ASSUME ChatInv, NEW b \in Bridges, EndBroadcast(b)
  PROVE  ChatInv'
<1>1. /\ b \in listening /\ showing[b] = {} /\ {} # NotShowing
      /\ channel[b] \in Seq(Nat) /\ channel[b] # <<>>
      /\ Len(channel[b]) <= Len(announced)
      /\ Follows(channel[b], announced, Read(b))
  BY DEF ChatInv, ChatTypes, WaitingIsTheEnd, EndBroadcast, NotShowing
<1>2. /\ \A c \in Bridges : showing'[c] = IF c = b THEN NotShowing ELSE showing[c]
      /\ \A c \in Bridges : channel'[c] = IF c = b THEN Tail(channel[b]) ELSE channel[c]
      /\ announced' = announced /\ listening' = listening
  BY DEF ChatInv, ChatTypes, EndBroadcast
<1>3. announced \in Seq(Nat) /\ Len(announced) \in Nat /\ Len(channel[b]) \in Nat \ {0}
  BY <1>1, EmptySeq DEF ChatInv, ChatTypes
<1>4. Read(b) \in Nat
  BY <1>1, <1>3 DEF Read
<1>5. /\ Tail(channel[b]) \in Seq(Nat) /\ Len(Tail(channel[b])) = Len(channel[b]) - 1
      /\ Follows(Tail(channel[b]), announced, Read(b) + 1)
  BY <1>1, <1>3, <1>4, FollowsLater
<1>6. Read(b)' = Read(b) + 1
  <2>1. Len(channel'[b]) = Len(channel[b]) - 1
    BY <1>2, <1>5
  <2> QED
    BY <1>2, <1>3, <2>1 DEF Read
<1>7. channel' \in [Bridges -> Seq(Nat)]
  BY <1>5 DEF ChatInv, ChatTypes, EndBroadcast
<1>8. showing' \in [Bridges -> (SUBSET Viewers) \cup {NotShowing}]
  BY DEF ChatInv, ChatTypes, EndBroadcast
<1>9. ChatTypes'
  BY <1>7, <1>8 DEF ChatInv, ChatTypes, EndBroadcast
<1>10. ASSUME NEW c \in listening
       PROVE  /\ Len(channel'[c]) <= Len(announced')
              /\ Follows(channel'[c], announced', Read(c)')
              /\ showing'[c] # NotShowing =>
                   channel'[c] # <<>> /\ \A v \in showing'[c] : BridgeOf[v] = c
  <2>1. c \in Bridges
    BY DEF ChatInv, ChatTypes
  <2>2. CASE c = b
    <3>1. channel'[c] = Tail(channel[b]) /\ showing'[c] = NotShowing /\ Read(c)' = Read(b) + 1
      BY <1>2, <1>6, <2>1, <2>2
    <3>2. Len(Tail(channel[b])) <= Len(announced)
      BY <1>1, <1>3, <1>5
    <3> QED
      BY <1>2, <1>5, <3>1, <3>2
  <2>3. CASE c # b
    <3>1. channel'[c] = channel[c] /\ showing'[c] = showing[c] /\ Read(c)' = Read(c)
      BY <1>2, <2>1, <2>3 DEF Read
    <3> QED
      BY <1>2, <3>1 DEF ChatInv, WaitingIsTheEnd
  <2> QED
    BY <2>2, <2>3
<1>11. WaitingIsTheEnd'
  BY <1>2, <1>10 DEF WaitingIsTheEnd
<1>12. ASSUME NEW v \in present PROVE ReadFor(v)' = ReadFor(v)
  <2>1. BridgeOf[v] \in Bridges
    BY ChatAssumption DEF ChatInv, ChatTypes
  <2>2. CASE BridgeOf[v] = b
    <3>1. ReadFor(v) = Read(b) + 1
      BY <1>1, <2>2 DEF ReadFor
    <3>2. ReadFor(v)' = Read(b)'
      BY <1>2, <2>1, <2>2 DEF ReadFor
    <3> QED
      BY <1>6, <3>1, <3>2
  <2>3. CASE BridgeOf[v] # b
    BY <1>2, <2>1, <2>3 DEF ReadFor, Read
  <2> QED
    BY <2>2, <2>3
<1>13. ShownWithoutGap'
  BY <1>2, <1>12 DEF ChatInv, ShownWithoutGap, EndBroadcast
<1> QED
  BY <1>9, <1>11, <1>13 DEF ChatInv

(* A process that has lost the channel is asked nothing more.              *)
LEMMA LoseChannelKeeps ==
  ASSUME ChatInv, NEW b \in Bridges, LoseChannel(b)
  PROVE  ChatInv'
<1>1. channel' \in [Bridges -> Seq(Nat)]
  BY EmptySeq DEF ChatInv, ChatTypes, LoseChannel
<1>2. ChatTypes'
  BY <1>1 DEF ChatInv, ChatTypes, LoseChannel
<1>3. ASSUME NEW c \in listening'
      PROVE  /\ c \in listening /\ c \in Bridges /\ showing'[c] = showing[c]
             /\ channel'[c] = channel[c] /\ announced' = announced
  BY DEF ChatInv, ChatTypes, LoseChannel
<1>4. WaitingIsTheEnd'
  BY <1>3 DEF ChatInv, WaitingIsTheEnd, Read
<1>5. ASSUME NEW v \in present, BridgeOf[v] \in listening'
      PROVE  ReadFor(v)' = ReadFor(v)
  BY <1>3, <1>5 DEF ReadFor, Read
<1>6. ASSUME NEW v \in present'
      PROVE  /\ since'[v] <= Len(announced')
             /\ \E i \in 0 .. since'[v] :
                  /\ Follows(shown'[v], announced', i)
                  /\ BridgeOf[v] \in listening' => i + Len(shown'[v]) = ReadFor(v)'
  <2>1. v \in present /\ since' = since /\ shown' = shown /\ announced' = announced
    BY DEF LoseChannel
  <2>2. PICK i \in 0 .. since[v] :
          /\ Follows(shown[v], announced, i)
          /\ BridgeOf[v] \in listening => i + Len(shown[v]) = ReadFor(v)
    BY <2>1 DEF ChatInv, ShownWithoutGap
  <2>3. BridgeOf[v] \in listening' => i + Len(shown[v]) = ReadFor(v)'
    BY <1>3, <1>5, <2>1, <2>2
  <2> QED
    BY <2>1, <2>2, <2>3 DEF ChatInv, ShownWithoutGap
<1>7. ShownWithoutGap'
  BY <1>6 DEF ShownWithoutGap
<1> QED
  BY <1>2, <1>4, <1>7 DEF ChatInv

(* Steps that nobody who is there sees.                                    *)
LEMMA UnseenKeeps ==
  ASSUME ChatInv, ChatTypes',
         UNCHANGED <<announced, channel, listening, showing, shown, since>>,
         present' \subseteq present
  PROVE  ChatInv'
<1>1. \A b : Read(b)' = Read(b)
  BY DEF Read
<1>2. \A v : ReadFor(v)' = ReadFor(v)
  BY <1>1 DEF ReadFor
<1>3. WaitingIsTheEnd'
  BY <1>1 DEF ChatInv, WaitingIsTheEnd
<1>4. ShownWithoutGap'
  BY <1>2 DEF ChatInv, ShownWithoutGap
<1> QED
  BY <1>3, <1>4 DEF ChatInv

LEMMA ChatInvKept == ChatInv /\ [Next]_vars => ChatInv'
<1> SUFFICES ASSUME ChatInv, [Next]_vars PROVE ChatInv'
  OBVIOUS
<1>1. CASE UNCHANGED chatVars
  <2>1. ChatTypes'
    BY <1>1 DEF ChatInv, ChatTypes, chatVars
  <2> QED
    BY <1>1, <2>1, UnseenKeeps DEF chatVars
<1>2. CASE ChatNext
  <2>1. ASSUME NEW s \in Senders, StoreMessage(s) PROVE ChatInv'
    <3>1. ChatTypes'
      BY <2>1 DEF ChatInv, ChatTypes, StoreMessage
    <3> QED
      BY <2>1, <3>1, UnseenKeeps DEF StoreMessage
  <2>2. ASSUME NEW s \in Senders, NotifyChannel(s) PROVE ChatInv'
    <3>1. composing[s] \in Nat /\ composing' \in [Senders -> Nat]
      BY <2>2 DEF ChatInv, ChatTypes, NotifyChannel
    <3>2. CASE PublishChat(composing[s])
      <4>1. /\ announced' \in Seq(Nat)
            /\ channel' \in [Bridges -> Seq(Nat)]
            /\ WaitingIsTheEnd' /\ ShownWithoutGap'
        BY <2>2, <3>1, <3>2, PublishKeeps DEF NotifyChannel
      <4>2. ChatTypes'
        BY <2>2, <3>1, <4>1 DEF ChatInv, ChatTypes, NotifyChannel
      <4> QED
        BY <4>1, <4>2 DEF ChatInv
    <3>3. CASE UNCHANGED <<announced, channel>>
      <4>1. ChatTypes'
        BY <2>2, <3>1, <3>3 DEF ChatInv, ChatTypes, NotifyChannel
      <4> QED
        BY <2>2, <3>3, <4>1, UnseenKeeps DEF NotifyChannel
    <3> QED
      BY <2>2, <3>2, <3>3 DEF NotifyChannel
  <2>3. CASE DataChannelChat
    <3>1. sent' \in Nat
      BY <2>3 DEF ChatInv, ChatTypes, DataChannelChat
    <3>2. /\ announced' \in Seq(Nat)
          /\ channel' \in [Bridges -> Seq(Nat)]
          /\ WaitingIsTheEnd' /\ ShownWithoutGap'
      BY <2>3, <3>1, PublishKeeps DEF DataChannelChat
    <3>3. ChatTypes'
      BY <2>3, <3>1, <3>2 DEF ChatInv, ChatTypes, DataChannelChat
    <3> QED
      BY <3>2, <3>3 DEF ChatInv
  <2>4. CASE ClearChat
    <3>1. ChatTypes'
      BY <2>4 DEF ChatInv, ChatTypes, ClearChat
    <3> QED
      BY <2>4, <3>1, UnseenKeeps DEF ClearChat
  <2>5. ASSUME NEW v \in Viewers, LeaveChat(v) PROVE ChatInv'
    <3>1. ChatTypes'
      BY <2>5 DEF ChatInv, ChatTypes, LeaveChat
    <3> QED
      BY <2>5, <3>1, UnseenKeeps DEF LeaveChat
  <2> QED
    BY <1>2, <2>1, <2>2, <2>3, <2>4, <2>5, EnterKeeps, BeginBroadcastKeeps, ShowToKeeps,
       EndBroadcastKeeps, LoseChannelKeeps DEF ChatNext, BridgeStep
<1>3. UNCHANGED chatVars \/ ChatNext
  BY DEF Next, vars, OnBus, InAudio, InSpeech, InChat, InFeed, InStream
<1> QED
  BY <1>1, <1>2, <1>3

(* What was shown is a part of what was published, and a process that has  *)
(* read all has shown all.                                                 *)
LEMMA ChatInvSuffices == ChatInv => ChatIsShown
<1> SUFFICES ASSUME ChatInv, NEW v \in present
             PROVE  /\ \E i \in 0 .. Len(announced) : \E j \in i .. Len(announced) :
                         i <= since[v] /\ shown[v] = SubSeq(announced, i + 1, j)
                    /\ BridgeOf[v] \in listening /\ channel[BridgeOf[v]] = <<>> =>
                         Len(shown[v]) >= Len(announced) - since[v]
  BY DEF ChatIsShown
<1>1. /\ announced \in Seq(Nat) /\ Len(announced) \in Nat
      /\ shown[v] \in Seq(Nat) /\ Len(shown[v]) \in Nat
      /\ since[v] \in Nat /\ since[v] <= Len(announced)
  BY DEF ChatInv, ChatTypes, ShownWithoutGap
<1>2. PICK i \in 0 .. since[v] :
        /\ Follows(shown[v], announced, i)
        /\ BridgeOf[v] \in listening => i + Len(shown[v]) = ReadFor(v)
  BY DEF ChatInv, ShownWithoutGap
<1> DEFINE j == i + Len(shown[v])
<1>3. i \in 0 .. Len(announced) /\ j \in i .. Len(announced) /\ i <= since[v]
  BY <1>1, <1>2 DEF Follows
<1>4. shown[v] = SubSeq(announced, i + 1, j)
  <2>1. \A k \in i + 1 .. j : announced[k] \in Nat
    <3>1. \A k \in i + 1 .. j : k \in 1 .. Len(announced)
      BY <1>1, <1>3
    <3> QED
      BY <1>1, <3>1, ElementOfSeq
  <2>2. i + 1 \in Int /\ j \in Int
    BY <1>1, <1>3
  <2> DEFINE part == SubSeq(announced, i + 1, j)
  <2>3. /\ part \in Seq(Nat)
        /\ Len(part) = IF i + 1 <= j THEN j - (i + 1) + 1 ELSE 0
        /\ \A x \in 1 .. j - (i + 1) + 1 : part[x] = announced[(i + 1) + x - 1]
    BY <2>1, <2>2, SubSeqProperties
  <2>4. Len(part) = Len(shown[v]) /\ j - (i + 1) + 1 = Len(shown[v])
    BY <1>1, <1>3, <2>3
  <2>5. ASSUME NEW x \in 1 .. Len(shown[v]) PROVE part[x] = shown[v][x]
    <3>1. (i + 1) + x - 1 = i + x
      BY <1>3
    <3>2. part[x] = announced[i + x]
      BY <2>3, <2>4, <3>1
    <3> QED
      BY <1>2, <3>2 DEF Follows
  <2> HIDE DEF part
  <2>6. part = shown[v]
    BY <1>1, <2>3, <2>4, <2>5, SeqEqual
  <2> QED
    BY <2>6 DEF part
<1>5. ASSUME BridgeOf[v] \in listening, channel[BridgeOf[v]] = <<>>
      PROVE  Len(shown[v]) >= Len(announced) - since[v]
  <2>1. showing[BridgeOf[v]] = NotShowing
    BY <1>5 DEF ChatInv, WaitingIsTheEnd
  <2>2. ReadFor(v) = Len(announced)
    <3>1. Len(channel[BridgeOf[v]]) = 0
      BY <1>5, EmptySeq
    <3> QED
      BY <1>1, <2>1, <3>1 DEF ReadFor, Read
  <2> QED
    BY <1>1, <1>2, <1>3, <1>5, <2>2
<1> QED
  BY <1>3, <1>4, <1>5

(* Whatever is published while sessions come and go and processes lose the *)
(* channel, a session of the chat has been shown, without a gap, twice or  *)
(* out of order, what was published from when it came, and all of it once  *)
(* its process has read the channel (ChatBridge._pubsub_loop,              *)
(* _broadcast_message).                                                    *)
THEOREM ChatStaysTrue == Spec => []ChatIsShown
<1>1. Init => ChatInv
  BY ChatBegins DEF Init
<1> QED
  BY <1>1, ChatInvSuffices, ChatInvKept, PTL DEF Spec
-----------------------------------------------------------------------------
States == {"out", "ready", "taken", "gone"}
Known(q) == {m \in Msgs : queue[q][m] # "out"}

BusTypes ==
  /\ grouped \in BOOLEAN
  /\ log \in 0 .. MaxMessages
  /\ queue \in [BusQueues -> [Msgs -> States]]
  /\ sub \in [Subscribers -> {"new", "on", "left"}]
  /\ stage \in [Subscribers -> {"idle", "blocked", "dispatch", "ack"}]
  /\ batch \in [Subscribers -> Seq(Msgs)]
  /\ acks \in [Subscribers -> SUBSET Msgs]
  /\ done \in [BusQueues -> SUBSET (1 .. log)]

(* Loops work on what was published, and only while they dispatch.         *)
LoopInv ==
  \A s \in Subscribers :
    /\ stage[s] = "dispatch" <=> batch[s] # <<>>
    /\ stage[s] = "blocked" => backend = "redis" /\ ~grouped
    /\ stage[s] = "ack" \/ acks[s] # {} => backend = "pubsub"

(* What a loop has in hand its queue has not forgotten, so marking it as   *)
(* taken, ready again or gone changes nothing of what is owed.             *)
HandsAreKnown ==
  /\ \A q \in BusQueues : Known(q) \subseteq 1 .. log
  /\ \A s \in Subscribers : ToSet(batch[s]) \cup acks[s] \subseteq Known(QueueOf(s))

BusInv == BusTypes /\ LoopInv /\ HandsAreKnown

(* Who reads at a backend that loses nothing reads a queue that exists.    *)
ReadersAreBound ==
  backend # "redis" => \A s \in Subscribers : sub[s] = "on" => QueueOf(s) \in open

(* What Owed comes to.                                                     *)
Pending(q) == IF backend = "redis" THEN In(q, "ready") \cup Fetched(q) ELSE Known(q)
Outstanding(q) == IF Listens(q) THEN Pending(q) \ done[q] ELSE {}

LEMMA OwedIs ==
  BusTypes => \A q \in BusQueues : Owed(q) = Outstanding(q)
<1> SUFFICES ASSUME BusTypes, NEW q \in BusQueues PROVE Owed(q) = Outstanding(q)
  OBVIOUS
<1>1. In(q, "ready") \cup In(q, "taken") \cup In(q, "gone") = Known(q)
  BY DEF BusTypes, States, In, Known
<1> QED
  BY <1>1 DEF Owed, Outstanding, Pending

LEMMA OwedWillBe ==
  (BusTypes => \A q \in BusQueues : Owed(q) = Outstanding(q))'
BY OwedIs, PTL

LEMMA QueueOfType ==
  ASSUME BusTypes
  PROVE  /\ \A s \in Subscribers : QueueOf(s) \in BusQueues
         /\ ~grouped => \A s, t \in Subscribers : QueueOf(s) = QueueOf(t) => s = t
BY DEF QueueOf, BusQueues

LEMMA SetIs ==
  ASSUME BusTypes, NEW q \in BusQueues, NEW ms, NEW state \in States, Set(q, ms, state)
  PROVE  /\ queue' \in [BusQueues -> [Msgs -> States]]
         /\ \A r \in BusQueues \ {q} : queue'[r] = queue[r]
         /\ \A m \in Msgs : queue'[q][m] = IF m \in ms THEN state ELSE queue[q][m]
<1>1. [m \in Msgs |-> IF m \in ms THEN state ELSE queue[q][m]] \in [Msgs -> States]
  BY DEF BusTypes
<1>2. queue' = [queue EXCEPT ![q] = [m \in Msgs |-> IF m \in ms THEN state ELSE queue[q][m]]]
  BY DEF Set
<1> QED
  BY <1>1, <1>2 DEF BusTypes

LEMMA SetKeepsKnown ==
  ASSUME BusTypes, NEW q \in BusQueues, NEW ms, NEW state \in States \ {"out"},
         Set(q, ms, state), ms \subseteq Known(q)
  PROVE  /\ queue' \in [BusQueues -> [Msgs -> States]]
         /\ \A r \in BusQueues : Known(r)' = Known(r)
<1>1. /\ queue' \in [BusQueues -> [Msgs -> States]]
      /\ \A r \in BusQueues \ {q} : queue'[r] = queue[r]
      /\ \A m \in Msgs : queue'[q][m] = IF m \in ms THEN state ELSE queue[q][m]
  BY SetIs
<1>2. \A r \in BusQueues \ {q} : Known(r)' = Known(r)
  BY <1>1 DEF Known
<1>3. Known(q)' = Known(q)
  BY <1>1 DEF Known
<1> QED
  BY <1>1, <1>2, <1>3

(* A stream gives finitely many entries, each of them once.                *)
LEMMA OldestAre ==
  ASSUME NEW ms \in SUBSET Msgs, ms # {}, NEW seq \in Oldest(ms)
  PROVE  seq \in Seq(Msgs) /\ seq # <<>> /\ ToSet(seq) = ms
<1>1. IsFiniteSet(Msgs)
  BY BusAssumption, FS_Interval DEF Msgs
<1>2. IsFiniteSet(ms) /\ Cardinality(ms) \in Nat
  BY <1>1, FS_Subset, FS_CardinalityType
<1>3. seq \in Seq(Msgs) /\ ToSet(seq) = ms
  BY <1>2 DEF Oldest
<1>4. ToSet(<<>>) = {}
  BY DEF ToSet
<1> QED
  BY <1>3, <1>4

(* A loop fetches what its queue has ready.                                *)
LEMMA FetchKeeps ==
  ASSUME BusInv, NEW s \in Subscribers, NEW ms \in Seq(Msgs), NEW state \in States \ {"out"},
         Fetch(s, ms, state), ms # <<>>, ToSet(ms) \subseteq Known(QueueOf(s))
  PROVE  BusInv'
<1>1. QueueOf(s) \in BusQueues /\ \A t \in Subscribers : QueueOf(t) \in BusQueues
  BY QueueOfType DEF BusInv
<1>2. /\ queue' \in [BusQueues -> [Msgs -> States]]
      /\ \A r \in BusQueues : Known(r)' = Known(r)
  BY <1>1, SetKeepsKnown DEF BusInv, Fetch
<1>3. BusTypes'
  BY <1>2 DEF BusInv, BusTypes, Fetch
<1>4. /\ \A t \in Subscribers : batch'[t] = IF t = s THEN ms ELSE batch[t]
      /\ \A t \in Subscribers : stage'[t] = IF t = s THEN "dispatch" ELSE stage[t]
      /\ UNCHANGED <<backend, grouped, log, acks>>
  BY DEF BusInv, BusTypes, Fetch
<1>5. LoopInv'
  BY <1>4 DEF BusInv, LoopInv
<1>6. HandsAreKnown'
  <2>1. \A q \in BusQueues : Known(q)' \subseteq 1 .. log'
    BY <1>2, <1>4 DEF BusInv, HandsAreKnown
  <2>2. \A t \in Subscribers : QueueOf(t)' = QueueOf(t)
    BY <1>4 DEF QueueOf
  <2>3. ASSUME NEW t \in Subscribers
        PROVE  ToSet(batch'[t]) \cup acks'[t] \subseteq Known(QueueOf(t))
    BY <1>4 DEF BusInv, HandsAreKnown
  <2> QED
    BY <1>1, <1>2, <2>1, <2>2, <2>3 DEF HandsAreKnown
<1> QED
  BY <1>3, <1>5, <1>6 DEF BusInv


LEMMA PublishKeepsBus ==
  ASSUME BusInv, PublishMessage
  PROVE  BusInv'
<1>1. /\ log \in Nat /\ MaxMessages \in Nat /\ log' = log + 1 /\ log' \in Msgs
      /\ UNCHANGED <<backend, grouped, open, sub, stage, batch, acks, done>>
  BY BusAssumption DEF BusInv, BusTypes, PublishMessage, Msgs
<1>2. ASSUME NEW q \in BusQueues
      PROVE  /\ queue'[q] \in [Msgs -> States]
             /\ \A m \in Msgs :
                  \/ queue'[q][m] = queue[q][m]
                  \/ m = log' /\ queue'[q][m] = "ready"
  <2>1. queue[q] \in [Msgs -> States] /\ "ready" \in States
    BY DEF BusInv, BusTypes, States
  <2>2. CASE q \in open
    <3>1. queue'[q] = [queue[q] EXCEPT ![log'] = "ready"]
      BY <2>2 DEF PublishMessage
    <3> QED
      BY <1>1, <2>1, <3>1
  <2>3. CASE q \notin open
    BY <2>1, <2>3 DEF PublishMessage
  <2> QED
    BY <2>2, <2>3
<1>3. queue' \in [BusQueues -> [Msgs -> States]]
  BY <1>2 DEF PublishMessage
<1>4. \A m \in 1 .. log : m \in 1 .. log'
  BY <1>1
<1>5. BusTypes'
  BY <1>1, <1>3, <1>4, BusAssumption DEF BusInv, BusTypes, Msgs
<1>6. LoopInv'
  BY <1>1 DEF BusInv, LoopInv
<1>7. ASSUME NEW q \in BusQueues
      PROVE  Known(q) \subseteq Known(q)' /\ Known(q)' \subseteq 1 .. log'
  <2>1. Known(q) \subseteq Known(q)'
    BY <1>2 DEF Known
  <2>2. ASSUME NEW m \in Known(q)' PROVE m \in 1 .. log'
    <3>1. CASE m = log'
      BY <1>1, <3>1
    <3>2. CASE m \in Known(q)
      BY <1>4, <3>2 DEF BusInv, HandsAreKnown
    <3> QED
      BY <1>2, <3>1, <3>2 DEF Known
  <2> QED
    BY <2>1, <2>2
<1>8. HandsAreKnown'
  <2>1. \A s \in Subscribers : QueueOf(s)' = QueueOf(s) /\ QueueOf(s) \in BusQueues
    BY <1>1, QueueOfType DEF BusInv, QueueOf
  <2> QED
    BY <1>1, <1>7, <2>1 DEF BusInv, HandsAreKnown
<1> QED
  BY <1>5, <1>6, <1>8 DEF BusInv

(* A queue is opened, or remembers more, or is told that what it had ready *)
(* is over before it is read, in an idle loop of its own.                  *)
LEMMA SubscribeKeepsBus ==
  ASSUME BusInv, NEW s \in Subscribers, SubscribeTo(s)
  PROVE  BusInv'
<1>1. /\ sub[s] = "new" /\ sub' = [sub EXCEPT ![s] = "on"]
      /\ UNCHANGED <<backend, grouped, log, stage, batch, acks, done>>
  BY DEF SubscribeTo, RedisSubscribe, SqsSubscribe, PubSubSubscribe, NatsSubscribe, Subscribed
<1>2. \A t \in Subscribers : QueueOf(t) \in BusQueues /\ QueueOf(t)' = QueueOf(t)
  BY <1>1, QueueOfType DEF BusInv, QueueOf
<1>3. /\ queue' \in [BusQueues -> [Msgs -> States]]
      /\ \A r \in BusQueues :
           Known(r) \subseteq Known(r)' /\ Known(r)' \subseteq Known(r) \cup 1 .. log
  <2>1. CASE UNCHANGED queue
    BY <2>1 DEF BusInv, BusTypes, Known
  <2>2. CASE Set(QueueOf(s), 1 .. log, "ready")
    <3>1. "ready" \in States \ {"out"} /\ QueueOf(s) \in BusQueues
      BY <1>2 DEF States
    <3>2. /\ queue' \in [BusQueues -> [Msgs -> States]]
          /\ \A r \in BusQueues \ {QueueOf(s)} : queue'[r] = queue[r]
          /\ \A m \in Msgs : queue'[QueueOf(s)][m] =
               IF m \in 1 .. log THEN "ready" ELSE queue[QueueOf(s)][m]
      BY <2>2, <3>1, SetIs DEF BusInv
    <3> QED
      BY <3>2 DEF Known
  <2> QED
    BY <2>1, <2>2 DEF SubscribeTo, RedisSubscribe, SqsSubscribe, PubSubSubscribe, NatsSubscribe
<1>4. BusTypes'
  BY <1>1, <1>3 DEF BusInv, BusTypes
<1>5. LoopInv'
  BY <1>1 DEF BusInv, LoopInv
<1>6. HandsAreKnown'
  BY <1>1, <1>2, <1>3 DEF BusInv, HandsAreKnown
<1> QED
  BY <1>4, <1>5, <1>6 DEF BusInv

LEMMA BeginReadKeepsBus ==
  ASSUME BusInv, NEW s \in Subscribers, BeginRead(s)
  PROVE  /\ BusInv'
         /\ \A r \in BusQueues \ {s} : queue'[r] = queue[r]
         /\ In(s, "ready")' \subseteq In(s, "ready")
<1>1. /\ backend = "redis" /\ ~grouped /\ stage[s] = "idle"
      /\ stage' = [stage EXCEPT ![s] = "blocked"]
      /\ UNCHANGED <<backend, grouped, log, sub, batch, acks, done>>
  BY DEF BeginRead
<1>2. \A t \in Subscribers : QueueOf(t) = t /\ QueueOf(t)' = t /\ t \in BusQueues
  BY <1>1 DEF QueueOf, BusQueues
<1>3. /\ queue' \in [BusQueues -> [Msgs -> States]]
      /\ \A r \in BusQueues \ {s} : queue'[r] = queue[r]
      /\ \A m \in Msgs : queue'[s][m] = queue[s][m] \/ queue'[s][m] = "out"
  <2>1. CASE UNCHANGED queue
    BY <2>1 DEF BusInv, BusTypes
  <2>2. CASE Set(s, In(s, "ready"), "out")
    <3>1. "out" \in States
      BY DEF States
    <3> QED
      BY <1>2, <2>2, <3>1, SetIs DEF BusInv
  <2> QED
    BY <2>1, <2>2 DEF BeginRead
<1>4. BusTypes'
  BY <1>1, <1>3 DEF BusInv, BusTypes
<1>5. LoopInv'
  <2>1. batch[s] = <<>>
    BY <1>1 DEF BusInv, LoopInv
  <2>2. \A t \in Subscribers : stage'[t] = IF t = s THEN "blocked" ELSE stage[t]
    BY <1>1 DEF BusInv, BusTypes
  <2> QED
    BY <1>1, <2>1, <2>2 DEF BusInv, LoopInv
<1>6. HandsAreKnown'
  <2>1. \A q \in BusQueues : Known(q)' \subseteq 1 .. log'
    BY <1>1, <1>3 DEF BusInv, HandsAreKnown, Known
  <2>2. ToSet(batch[s]) = {} /\ acks[s] = {}
    BY <1>1 DEF BusInv, LoopInv, ToSet
  <2>3. \A t \in Subscribers \ {s} : Known(t)' = Known(t)
    BY <1>2, <1>3 DEF Known
  <2>4. ASSUME NEW t \in Subscribers
        PROVE  ToSet(batch[t]) \cup acks[t] \subseteq Known(t)'
    <3>1. CASE t = s
      BY <2>2, <3>1
    <3>2. CASE t # s
      BY <1>2, <2>3, <3>2 DEF BusInv, HandsAreKnown
    <3> QED
      BY <3>1, <3>2
  <2> QED
    BY <1>1, <1>2, <2>1, <2>4 DEF HandsAreKnown
<1>7. In(s, "ready")' \subseteq In(s, "ready")
  BY <1>3 DEF In
<1> QED
  BY <1>3, <1>4, <1>5, <1>6, <1>7 DEF BusInv


(* One message less in hand: its queue knows it, and if something is       *)
(* marked, this one is.                                                    *)
HandsOut(s, q, m) ==
  /\ q \in BusQueues /\ m \in Known(q) /\ m \in 1 .. log /\ m \in Msgs
  /\ ToSet(batch[s]) = ToSet(Tail(batch[s])) \cup {m}
  /\ queue' \in [BusQueues -> [Msgs -> States]]
  /\ \A r \in BusQueues : Known(r)' = Known(r)
  /\ backend = "redis" => queue' = queue
  /\ done' = done \/ done' = [done EXCEPT ![q] = @ \cup {m}]
  /\ \/ acks' = acks
     \/ backend = "pubsub" /\ acks' = [acks EXCEPT ![s] = @ \cup {m}]

LEMMA DispatchIs ==
  ASSUME BusInv, NEW s \in Subscribers, Dispatch(s)
  PROVE  \E q, m : q = QueueOf(s) /\ m = Head(batch[s]) /\ HandsOut(s, q, m)
<1> PICK q, m : q = QueueOf(s) /\ m = Head(batch[s])
  OBVIOUS
<1>1. q \in BusQueues
  BY QueueOfType DEF BusInv
<1>2. batch[s] \in Seq(Msgs) /\ batch[s] # <<>>
  BY DEF BusInv, BusTypes, LoopInv, Dispatch
<1>3. m \in Msgs /\ m \in ToSet(batch[s])
  BY <1>2 DEF ToSet
<1>4. m \in Known(q) /\ m \in 1 .. log
  BY <1>1, <1>3 DEF BusInv, HandsAreKnown
<1>5. ToSet(batch[s]) = ToSet(Tail(batch[s])) \cup {m}
  <2>1. /\ Tail(batch[s]) \in Seq(Msgs) /\ Len(Tail(batch[s])) = Len(batch[s]) - 1
        /\ DOMAIN Tail(batch[s]) = 1 .. Len(Tail(batch[s]))
        /\ DOMAIN batch[s] = 1 .. Len(batch[s])
        /\ \A i \in 1 .. Len(Tail(batch[s])) : Tail(batch[s])[i] = batch[s][i + 1]
        /\ Len(batch[s]) \in Nat \ {0} /\ m = batch[s][1]
    BY <1>2, HeadTailProperties, EmptySeq
  <2>2. ASSUME NEW x \in ToSet(batch[s]) PROVE x \in ToSet(Tail(batch[s])) \cup {m}
    <3>1. PICK i \in 1 .. Len(batch[s]) : x = batch[s][i]
      BY <1>2, <2>2 DEF ToSet
    <3>2. CASE i = 1
      BY <2>1, <3>1, <3>2
    <3>3. CASE i # 1
      <4>1. i - 1 \in 1 .. Len(Tail(batch[s])) /\ (i - 1) + 1 = i
        BY <2>1, <3>1, <3>3
      <4>2. x = Tail(batch[s])[i - 1]
        BY <2>1, <3>1, <4>1
      <4>3. i - 1 \in DOMAIN Tail(batch[s])
        BY <2>1, <4>1
      <4> QED
        BY <4>2, <4>3 DEF ToSet
    <3> QED
      BY <3>2, <3>3
  <2>3. ASSUME NEW x \in ToSet(Tail(batch[s])) PROVE x \in ToSet(batch[s])
    <3>1. PICK i \in 1 .. Len(Tail(batch[s])) : x = Tail(batch[s])[i]
      BY <2>1, <2>3 DEF ToSet
    <3>2. i + 1 \in DOMAIN batch[s] /\ x = batch[s][i + 1]
      BY <2>1, <3>1
    <3> QED
      BY <3>2 DEF ToSet
  <2> QED
    BY <1>3, <2>2, <2>3
<1>6. \/ UNCHANGED queue
      \/ /\ backend # "redis"
         /\ \E state \in States \ {"out"} : Set(q, {m}, state)
  <2>1. "ready" \in States \ {"out"} /\ "gone" \in States \ {"out"}
    BY DEF States
  <2>2. Acknowledged(s, m) =>
          \/ UNCHANGED queue
          \/ backend # "redis" /\ Set(q, {m}, "gone")
    BY DEF Acknowledged, NatsAcks, SqsDeletes, PubSubCollects, RedisKeeps, QueueOf
  <2> QED
    BY <2>1, <2>2 DEF Dispatch
<1>7. queue' \in [BusQueues -> [Msgs -> States]] /\ \A r \in BusQueues : Known(r)' = Known(r)
  <2>1. CASE UNCHANGED queue
    BY <2>1 DEF BusInv, BusTypes, Known
  <2>2. CASE \E state \in States \ {"out"} : Set(q, {m}, state)
    <3>1. {m} \subseteq Known(q)
      BY <1>4
    <3> QED
      BY <1>1, <2>2, <3>1, SetKeepsKnown DEF BusInv
  <2> QED
    BY <1>6, <2>1, <2>2
<1>8. \/ acks' = acks
      \/ backend = "pubsub" /\ acks' = [acks EXCEPT ![s] = @ \cup {m}]
  <2>1. Acknowledged(s, m) =>
          \/ acks' = acks
          \/ backend = "pubsub" /\ acks' = [acks EXCEPT ![s] = @ \cup {m}]
    BY DEF Acknowledged, NatsAcks, SqsDeletes, PubSubCollects, RedisKeeps
  <2> QED
    BY <2>1 DEF Dispatch
<1>9. done' = done \/ done' = [done EXCEPT ![q] = @ \cup {m}]
  BY DEF Dispatch
<1> QED
  BY <1>1, <1>3, <1>4, <1>5, <1>6, <1>7, <1>8, <1>9 DEF HandsOut

LEMMA DispatchKeepsBus ==
  ASSUME BusInv, NEW s \in Subscribers, Dispatch(s)
  PROVE  BusInv'
<1>0. PICK q, m : q = QueueOf(s) /\ m = Head(batch[s]) /\ HandsOut(s, q, m)
  BY DispatchIs
<1>1. /\ q \in BusQueues /\ m \in Known(q) /\ m \in 1 .. log /\ m \in Msgs
      /\ ToSet(batch[s]) = ToSet(Tail(batch[s])) \cup {m}
      /\ queue' \in [BusQueues -> [Msgs -> States]]
      /\ \A r \in BusQueues : Known(r)' = Known(r)
      /\ done' = done \/ done' = [done EXCEPT ![q] = @ \cup {m}]
      /\ \/ acks' = acks
         \/ backend = "pubsub" /\ acks' = [acks EXCEPT ![s] = @ \cup {m}]
  BY <1>0 DEF HandsOut
<1>2. /\ batch' = [batch EXCEPT ![s] = Tail(@)]
      /\ UNCHANGED <<backend, grouped, log, open, sub>>
      /\ stage[s] = "dispatch"
      /\ stage' = [stage EXCEPT ![s] =
                     IF Len(batch[s]) > 1 THEN "dispatch"
                     ELSE IF backend = "pubsub" /\ acks'[s] # {} THEN "ack" ELSE "idle"]
  BY DEF Dispatch, Rest
<1>3. batch[s] \in Seq(Msgs) /\ batch[s] # <<>>
  BY <1>2 DEF BusInv, BusTypes, LoopInv
<1>4. Tail(batch[s]) \in Seq(Msgs) /\ (Tail(batch[s]) # <<>> <=> Len(batch[s]) > 1)
  <2>1. Len(batch[s]) \in Nat \ {0}
    BY <1>3, EmptySeq
  <2>2. Tail(batch[s]) \in Seq(Msgs) /\ Len(Tail(batch[s])) = Len(batch[s]) - 1
    BY <1>3, HeadTailProperties
  <2> DEFINE rest == Tail(batch[s])
             n == Len(batch[s])
  <2>3. rest # <<>> => Len(rest) \in Nat \ {0}
    BY <2>2, EmptySeq
  <2>4. rest = <<>> => Len(rest) = 0
    BY EmptySeq
  <2>5. rest \in Seq(Msgs) /\ Len(rest) = n - 1 /\ n \in Nat \ {0}
    BY <2>1, <2>2
  <2> HIDE DEF rest, n
  <2>6. rest # <<>> <=> n > 1
    BY <2>3, <2>4, <2>5
  <2> QED
    BY <2>5, <2>6 DEF rest, n
<1>5. /\ acks' \in [Subscribers -> SUBSET Msgs]
      /\ done' \in [BusQueues -> SUBSET (1 .. log)]
  <2>1. /\ acks \in [Subscribers -> SUBSET Msgs] /\ done \in [BusQueues -> SUBSET (1 .. log)]
    BY DEF BusInv, BusTypes
  <2>2. acks[s] \cup {m} \in SUBSET Msgs /\ done[q] \cup {m} \in SUBSET (1 .. log)
    BY <1>1, <2>1
  <2>3. [acks EXCEPT ![s] = @ \cup {m}] \in [Subscribers -> SUBSET Msgs]
    BY <2>1, <2>2
  <2>4. [done EXCEPT ![q] = @ \cup {m}] \in [BusQueues -> SUBSET (1 .. log)]
    BY <1>1, <2>1, <2>2
  <2> QED
    BY <1>1, <2>1, <2>3, <2>4
<1>6. batch' \in [Subscribers -> Seq(Msgs)]
  BY <1>2, <1>4 DEF BusInv, BusTypes
<1>7. stage' \in [Subscribers -> {"idle", "blocked", "dispatch", "ack"}]
  BY <1>2 DEF BusInv, BusTypes
<1>8. BusTypes'
  BY <1>1, <1>2, <1>5, <1>6, <1>7 DEF BusInv, BusTypes
<1>9. \A t \in Subscribers :
        /\ batch'[t] = IF t = s THEN Tail(batch[s]) ELSE batch[t]
        /\ t # s => (stage'[t] = stage[t] /\ acks'[t] = acks[t])
        /\ acks'[s] \subseteq acks[s] \cup {m}
        /\ acks'[s] = acks[s] \/ backend = "pubsub"
  BY <1>1, <1>2 DEF BusInv, BusTypes
<1>10. LoopInv'
  <2>1. /\ stage'[s] = "dispatch" <=> Len(batch[s]) > 1
        /\ stage'[s] # "blocked"
        /\ stage'[s] = "ack" => backend = "pubsub"
    BY <1>2 DEF BusInv, BusTypes
  <2>2. ASSUME NEW t \in Subscribers
        PROVE  /\ stage'[t] = "dispatch" <=> batch'[t] # <<>>
               /\ stage'[t] = "blocked" => backend = "redis" /\ ~grouped
               /\ stage'[t] = "ack" \/ acks'[t] # {} => backend = "pubsub"
    <3>1. CASE t = s
      BY <1>4, <1>9, <2>1, <3>1 DEF BusInv, LoopInv
    <3>2. CASE t # s
      BY <1>9, <3>2 DEF BusInv, LoopInv
    <3> QED
      BY <3>1, <3>2
  <2> QED
    BY <1>2, <2>2 DEF LoopInv
<1>11. HandsAreKnown'
  <2>1. \A t \in Subscribers : QueueOf(t)' = QueueOf(t) /\ QueueOf(t) \in BusQueues
    BY <1>2, QueueOfType DEF BusInv, QueueOf
  <2>2. ASSUME NEW t \in Subscribers
        PROVE  ToSet(batch'[t]) \cup acks'[t] \subseteq Known(QueueOf(t))
    <3>1. CASE t = s
      BY <1>0, <1>1, <1>9, <3>1 DEF BusInv, HandsAreKnown
    <3>2. CASE t # s
      BY <1>9, <3>2 DEF BusInv, HandsAreKnown
    <3> QED
      BY <3>1, <3>2
  <2> QED
    BY <1>1, <1>2, <2>1, <2>2 DEF BusInv, HandsAreKnown
<1> QED
  BY <1>8, <1>10, <1>11 DEF BusInv

LEMMA ReadGroupKeepsBus ==
  ASSUME BusInv, NEW s \in Subscribers, ReadGroup(s)
  PROVE  BusInv'
<1>1. PICK new \in Oldest(In("group", "ready")) : Fetch(s, new, "taken")
  BY DEF ReadGroup
<1>2. QueueOf(s) = "group" /\ In("group", "ready") \in SUBSET Msgs /\ In("group", "ready") # {}
  BY DEF ReadGroup, QueueOf, In
<1>3. new \in Seq(Msgs) /\ new # <<>> /\ ToSet(new) = In("group", "ready")
  BY <1>1, <1>2, OldestAre
<1>4. In("group", "ready") \subseteq Known("group") /\ "taken" \in States \ {"out"}
  BY DEF In, Known, States
<1> QED
  BY <1>1, <1>2, <1>3, <1>4, FetchKeeps

LEMMA EndReadKeepsBus ==
  ASSUME BusInv, NEW s \in Subscribers, EndRead(s)
  PROVE  /\ BusInv'
         /\ backend = "redis" /\ ~grouped
         /\ \/ /\ UNCHANGED <<backend, queue, sub, batch, done>>
               /\ UNCHANGED <<grouped, log>>
            \/ /\ batch[s] = <<>>
               /\ \E new : ToSet(new) = In(s, "ready") /\ Fetch(s, new, "gone")
<1>1. stage[s] = "blocked" /\ backend = "redis" /\ ~grouped
  BY DEF EndRead, BusInv, LoopInv
<1>2. QueueOf(s) = s /\ s \in BusQueues
  BY <1>1 DEF QueueOf, BusQueues
<1>3. batch[s] = <<>>
  BY <1>1 DEF BusInv, LoopInv
<1>4. CASE In(s, "ready") # {}
  <2>1. PICK new \in Oldest(In(s, "ready")) : Fetch(s, new, "gone")
    BY <1>4 DEF EndRead
  <2>2. In(s, "ready") \in SUBSET Msgs
    BY DEF In
  <2>3. new \in Seq(Msgs) /\ new # <<>> /\ ToSet(new) = In(s, "ready")
    BY <1>4, <2>1, <2>2, OldestAre
  <2>4. In(s, "ready") \subseteq Known(s) /\ "gone" \in States \ {"out"}
    BY DEF In, Known, States
  <2>5. BusInv'
    BY <1>2, <2>1, <2>3, <2>4, FetchKeeps
  <2> QED
    BY <1>1, <1>3, <2>1, <2>3, <2>5
<1>5. CASE In(s, "ready") = {}
  <2>1. /\ stage' = [stage EXCEPT ![s] = "idle"]
        /\ UNCHANGED <<backend, grouped, log, queue, open, sub, batch, acks, done, failures>>
    BY <1>5 DEF EndRead
  <2>2. BusTypes'
    BY <2>1 DEF BusInv, BusTypes
  <2>3. LoopInv'
    <3>1. \A t \in Subscribers : stage'[t] = IF t = s THEN "idle" ELSE stage[t]
      BY <2>1 DEF BusInv, BusTypes
    <3> QED
      BY <1>3, <2>1, <3>1 DEF BusInv, LoopInv
  <2>4. HandsAreKnown'
    BY <2>1 DEF BusInv, HandsAreKnown, Known, QueueOf
  <2> QED
    BY <1>1, <2>1, <2>2, <2>3, <2>4 DEF BusInv
<1> QED
  BY <1>4, <1>5

(* Other backends give a message or two, which then are not ready.         *)
LEMMA ReceiveKeepsBus ==
  ASSUME BusInv, NEW s \in Subscribers, NEW m \in Msgs, Receive(s, m)
  PROVE  /\ BusInv'
         /\ backend # "redis"
         /\ \E ms : Fetch(s, ms, "taken")
         /\ \A q \in BusQueues : Known(q)' = Known(q)
<1>1. PICK ms \in Seq(Msgs) :
        ms # <<>> /\ ToSet(ms) \subseteq In(QueueOf(s), "ready") /\ Fetch(s, ms, "taken")
  <2>1. m \in In(QueueOf(s), "ready")
    BY DEF Receive, SqsPoll, PubSubPull, NatsPush, Waiting
  <2>2. CASE Fetch(s, <<m>>, "taken")
    <3>1. <<m>> \in Seq(Msgs) /\ <<m>> # <<>> /\ ToSet(<<m>>) = {m}
      BY DEF ToSet
    <3> QED
      BY <2>1, <2>2, <3>1
  <2>3. CASE \E n \in In(QueueOf(s), "ready") \ {m} : Fetch(s, <<n, m>>, "taken")
    <3>1. PICK n \in In(QueueOf(s), "ready") : Fetch(s, <<n, m>>, "taken")
      BY <2>3
    <3>2. n \in Msgs
      BY <3>1 DEF In
    <3>3. <<n, m>> \in Seq(Msgs) /\ <<n, m>> # <<>> /\ ToSet(<<n, m>>) = {n, m}
      BY <3>2 DEF ToSet
    <3> QED
      BY <2>1, <3>1, <3>3
  <2> QED
    BY <2>2, <2>3 DEF Receive, SqsPoll, PubSubPull, NatsPush, Some
<1>2. backend # "redis"
  BY DEF Receive, SqsPoll, PubSubPull, NatsPush
<1>3. In(QueueOf(s), "ready") \subseteq Known(QueueOf(s)) /\ "taken" \in States \ {"out"}
  BY DEF In, Known, States
<1>4. BusInv'
  BY <1>1, <1>3, FetchKeeps
<1>5. \A q \in BusQueues : Known(q)' = Known(q)
  <2>1. QueueOf(s) \in BusQueues /\ Set(QueueOf(s), ToSet(ms), "taken")
    BY <1>1, QueueOfType DEF BusInv, Fetch
  <2>2. ToSet(ms) \subseteq Known(QueueOf(s))
    BY <1>1, <1>3
  <2> QED
    BY <1>3, <2>1, <2>2, SetKeepsKnown DEF BusInv
<1> QED
  BY <1>1, <1>2, <1>4, <1>5

LEMMA ReappearKeepsBus ==
  ASSUME BusInv, NEW q \in BusQueues, NEW m \in Msgs, Reappear(q, m)
  PROVE  /\ BusInv'
         /\ backend # "redis"
         /\ \A r \in BusQueues : Known(r)' = Known(r)
<1>1. /\ queue' \in [BusQueues -> [Msgs -> States]]
      /\ \A r \in BusQueues : Known(r)' = Known(r)
  <2>1. {m} \subseteq Known(q) /\ "ready" \in States \ {"out"} /\ Set(q, {m}, "ready")
    BY DEF Reappear, Known, States
  <2> QED
    BY <2>1, SetKeepsKnown DEF BusInv
<1>2. backend # "redis" /\ UNCHANGED <<backend, grouped, log, open, sub, stage, batch, acks, done>>
  BY DEF Reappear
<1>3. BusTypes'
  BY <1>1, <1>2 DEF BusInv, BusTypes
<1>4. LoopInv'
  BY <1>2 DEF BusInv, LoopInv
<1>5. HandsAreKnown'
  <2>1. \A t \in Subscribers : QueueOf(t)' = QueueOf(t) /\ QueueOf(t) \in BusQueues
    BY <1>2, QueueOfType DEF BusInv, QueueOf
  <2> QED
    BY <1>1, <1>2, <2>1 DEF BusInv, HandsAreKnown
<1> QED
  BY <1>1, <1>2, <1>3, <1>4, <1>5 DEF BusInv

LEMMA UnsubscribeKeepsBus ==
  ASSUME BusInv, NEW s \in Subscribers, Unsubscribe(s)
  PROVE  BusInv'
<1>1. /\ sub' = [sub EXCEPT ![s] = "left"]
      /\ UNCHANGED <<backend, grouped, log, queue, open, stage, batch, acks, done>>
  BY DEF Unsubscribe
<1>2. BusTypes'
  BY <1>1 DEF BusInv, BusTypes
<1>3. LoopInv'
  BY <1>1 DEF BusInv, LoopInv
<1>4. HandsAreKnown'
  BY <1>1 DEF BusInv, HandsAreKnown, Known, QueueOf
<1> QED
  BY <1>2, <1>3, <1>4 DEF BusInv

LEMMA AcknowledgeBatchKeepsBus ==
  ASSUME BusInv, NEW s \in Subscribers, AcknowledgeBatch(s)
  PROVE  /\ BusInv'
         /\ backend # "redis"
         /\ \A r \in BusQueues : Known(r)' = Known(r)
<1>1. /\ stage[s] = "ack"
      /\ UNCHANGED queue \/ Set(QueueOf(s), acks[s], "gone")
      /\ acks' = [acks EXCEPT ![s] = {}]
      /\ stage' = [stage EXCEPT ![s] = "idle"]
      /\ UNCHANGED <<backend, grouped, log, open, sub, batch, done>>
  BY DEF AcknowledgeBatch
<1>2. backend # "redis" /\ batch[s] = <<>>
  BY <1>1 DEF BusInv, LoopInv
<1>3. /\ queue' \in [BusQueues -> [Msgs -> States]]
      /\ \A r \in BusQueues : Known(r)' = Known(r)
  <2>1. CASE UNCHANGED queue
    BY <2>1 DEF BusInv, BusTypes, Known
  <2>2. CASE Set(QueueOf(s), acks[s], "gone")
    <3>1. "gone" \in States \ {"out"} /\ acks[s] \subseteq Known(QueueOf(s))
      BY DEF States, BusInv, HandsAreKnown
    <3>2. QueueOf(s) \in BusQueues
      BY QueueOfType DEF BusInv
    <3> QED
      BY <2>2, <3>1, <3>2, SetKeepsKnown DEF BusInv
  <2> QED
    BY <1>1, <2>1, <2>2
<1>4. BusTypes'
  <2>1. acks' \in [Subscribers -> SUBSET Msgs]
    BY <1>1 DEF BusInv, BusTypes
  <2> QED
    BY <1>1, <1>3, <2>1 DEF BusInv, BusTypes
<1>5. \A t \in Subscribers :
        /\ stage'[t] = IF t = s THEN "idle" ELSE stage[t]
        /\ acks'[t] = IF t = s THEN {} ELSE acks[t]
  BY <1>1 DEF BusInv, BusTypes
<1>6. LoopInv'
  BY <1>1, <1>2, <1>5 DEF BusInv, LoopInv
<1>7. HandsAreKnown'
  <2>1. \A t \in Subscribers : QueueOf(t)' = QueueOf(t) /\ QueueOf(t) \in BusQueues
    BY <1>1, QueueOfType DEF BusInv, QueueOf
  <2>2. \A t \in Subscribers : ToSet(batch'[t]) \cup acks'[t] \subseteq Known(QueueOf(t))
    BY <1>1, <1>5 DEF BusInv, HandsAreKnown
  <2> QED
    BY <1>1, <1>3, <2>1, <2>2 DEF BusInv, HandsAreKnown
<1> QED
  BY <1>2, <1>3, <1>4, <1>6, <1>7 DEF BusInv

LEMMA DiesKeepsBus ==
  ASSUME BusInv, NEW s \in Subscribers, Dies(s)
  PROVE  /\ BusInv'
         /\ grouped => queue' = queue
         /\ ~grouped => Known(s)' = {}
         /\ \A r \in BusQueues \ {s} : queue'[r] = queue[r]
<1>1. /\ sub' = [sub EXCEPT ![s] = "new"]
      /\ stage' = [stage EXCEPT ![s] = "idle"]
      /\ batch' = [batch EXCEPT ![s] = <<>>]
      /\ acks' = [acks EXCEPT ![s] = {}]
      /\ UNCHANGED <<backend, grouped, log, done>>
  BY DEF Dies
<1>2. /\ queue' \in [BusQueues -> [Msgs -> States]]
      /\ grouped => queue' = queue
      /\ ~grouped => Known(s)' = {}
      /\ \A r \in BusQueues \ {s} : queue'[r] = queue[r]
  <2>1. CASE grouped
    BY <2>1 DEF Dies, BusInv, BusTypes
  <2>2. CASE ~grouped
    <3>1. Set(s, Msgs, "out") /\ "out" \in States /\ s \in BusQueues
      BY <2>2 DEF Dies, States, BusQueues
    <3>2. /\ queue' \in [BusQueues -> [Msgs -> States]]
          /\ \A r \in BusQueues \ {s} : queue'[r] = queue[r]
          /\ \A m \in Msgs : queue'[s][m] = IF m \in Msgs THEN "out" ELSE queue[s][m]
      BY <3>1, SetIs DEF BusInv
    <3>3. Known(s)' = {}
      BY <3>2 DEF Known
    <3> QED
      BY <2>2, <3>2, <3>3
  <2> QED
    BY <2>1, <2>2
<1>3. BusTypes'
  <2>1. <<>> \in Seq(Msgs)
    BY EmptySeq
  <2>2. /\ sub' \in [Subscribers -> {"new", "on", "left"}]
        /\ stage' \in [Subscribers -> {"idle", "blocked", "dispatch", "ack"}]
        /\ batch' \in [Subscribers -> Seq(Msgs)]
        /\ acks' \in [Subscribers -> SUBSET Msgs]
    BY <1>1, <2>1 DEF BusInv, BusTypes
  <2> QED
    BY <1>1, <1>2, <2>2 DEF BusInv, BusTypes
<1>4. \A t \in Subscribers :
        /\ stage'[t] = IF t = s THEN "idle" ELSE stage[t]
        /\ batch'[t] = IF t = s THEN <<>> ELSE batch[t]
        /\ acks'[t] = IF t = s THEN {} ELSE acks[t]
  BY <1>1 DEF BusInv, BusTypes
<1>5. LoopInv'
  BY <1>1, <1>4 DEF BusInv, LoopInv
<1>6. HandsAreKnown'
  <2>1. \A r \in BusQueues : Known(r)' \subseteq Known(r)
    BY <1>2 DEF Known
  <2>2. \A t \in Subscribers : QueueOf(t)' = QueueOf(t) /\ QueueOf(t) \in BusQueues
    BY <1>1, QueueOfType DEF BusInv, QueueOf
  <2>3. ASSUME NEW t \in Subscribers
        PROVE  ToSet(batch'[t]) \cup acks'[t] \subseteq Known(QueueOf(t))'
    <3>1. CASE t = s
      BY <1>4, <3>1 DEF ToSet
    <3>2. CASE t # s
      <4>1. Known(QueueOf(t))' = Known(QueueOf(t))
        BY <1>2, <2>2, <3>2 DEF Known, QueueOf
      <4> QED
        BY <1>4, <3>2, <4>1 DEF BusInv, HandsAreKnown
    <3> QED
      BY <3>1, <3>2
  <2> QED
    BY <1>1, <2>1, <2>2, <2>3 DEF BusInv, HandsAreKnown
<1> QED
  BY <1>2, <1>3, <1>5, <1>6 DEF BusInv

LEMMA BusBegins == \A backends : BusInit(backends) => BusInv
<1> SUFFICES ASSUME NEW backends, BusInit(backends) PROVE BusInv
  OBVIOUS
<1>1. <<>> \in Seq(Msgs)
  BY EmptySeq
<1>2. BusTypes
  BY <1>1, BusAssumption DEF BusInit, BusTypes, States
<1>3. LoopInv
  BY DEF BusInit, LoopInv
<1>4. \A q \in BusQueues : Known(q) = {}
  BY DEF BusInit, Known
<1>5. \A s \in Subscribers : ToSet(batch[s]) = {} /\ acks[s] = {}
  BY DEF BusInit, ToSet
<1> QED
  BY <1>2, <1>3, <1>4, <1>5 DEF BusInv, HandsAreKnown

(* Only the queue of a subscriber can be attended because of what he does. *)
LEMMA AttendedMoves ==
  ASSUME BusInv, NEW s \in Subscribers, UNCHANGED grouped,
         \A t \in Subscribers \ {s} : sub'[t] = sub[t], NEW q, q = QueueOf(s)
  PROVE  /\ q \in Attended' => Attended' = Attended \cup {q}
         /\ q \notin Attended' => Attended' = Attended \ {q}
         /\ sub[s] = "on" => q \in Attended
         /\ sub'[s] = "on" => q \in Attended'
<1>1. q \in BusQueues
  BY QueueOfType DEF BusInv
<1>2. \A r \in BusQueues : MembersOf(r)' = MembersOf(r) /\ MembersOf(r) \subseteq Subscribers
  BY DEF MembersOf, QueueOf
<1>3. \A r \in BusQueues \ {q} : s \notin MembersOf(r)
  BY DEF MembersOf
<1>4. \A r \in BusQueues \ {q} : r \in Attended' <=> r \in Attended
  BY <1>2, <1>3 DEF Attended
<1>5. Attended \subseteq BusQueues /\ Attended' \subseteq BusQueues
  BY DEF Attended
<1>6. s \in MembersOf(q)
  BY DEF MembersOf
<1>7. /\ sub[s] = "on" => q \in Attended
      /\ sub'[s] = "on" => q \in Attended'
  BY <1>1, <1>2, <1>6 DEF Attended
<1> QED
  BY <1>4, <1>5, <1>7

LEMMA AttendedStays ==
  ASSUME UNCHANGED <<grouped, sub>>
  PROVE  Attended' = Attended
BY DEF Attended, MembersOf, QueueOf

(* The steps of MessageBus, from what happens to one queue.                *)
OnlyAt(q) ==
  /\ BusInv /\ BusInv' /\ q \in BusQueues
  /\ UNCHANGED <<backend, log>>
  /\ \A r \in BusQueues \ {q} : Outstanding(r)' = Outstanding(r)

LEMMA OwedBecomes ==
  ASSUME NEW q, OnlyAt(q), NEW X, Outstanding(q)' = X
  PROVE  [r \in BusQueues |-> Owed(r)]' = [[r \in BusQueues |-> Owed(r)] EXCEPT ![q] = X]
<1>1. \A r \in BusQueues : Owed(r) = Outstanding(r)
  BY OwedIs DEF OnlyAt, BusInv
<1>2. \A r \in BusQueues : Owed(r)' = Outstanding(r)'
  BY OwedWillBe DEF OnlyAt, BusInv
<1>3. \A r \in BusQueues : Owed(r)' = IF r = q THEN X ELSE Owed(r)
  BY <1>1, <1>2 DEF OnlyAt
<1> QED
  BY <1>3

LEMMA NothingIs ==
  ASSUME NEW q, OnlyAt(q), Outstanding(q)' = Outstanding(q), UNCHANGED done,
         Attended' = Attended
  PROVE  UNCHANGED Bus!vars
<1>1. \A r \in BusQueues : Owed(r) = Outstanding(r)
  BY OwedIs DEF OnlyAt, BusInv
<1>2. \A r \in BusQueues : Owed(r)' = Outstanding(r)'
  BY OwedWillBe DEF OnlyAt, BusInv
<1>3. \A r \in BusQueues : Owed(r)' = Owed(r)
  BY <1>1, <1>2 DEF OnlyAt
<1> QED
  BY <1>3 DEF OnlyAt, Bus!vars

LEMMA LeavingIs ==
  ASSUME NEW q, OnlyAt(q), UNCHANGED done, Attended' = Attended \ {q},
         Outstanding(q)' \subseteq Outstanding(q),
         Outstanding(q)' \in {Outstanding(q), {}} \/ backend = "redis"
  PROVE  Bus!Next
<1> DEFINE dropped == Outstanding(q) \ Outstanding(q)'
           owed == [r \in BusQueues |-> Owed(r)]
<1>1. Owed(q) = Outstanding(q) /\ q \in BusQueues
  BY OwedIs DEF OnlyAt, BusInv
<1>2. /\ Outstanding(q)' = Outstanding(q) \ dropped
      /\ dropped \in {{}, Outstanding(q)} \/ backend = "redis"
  OBVIOUS
<1>3. owed' = [owed EXCEPT ![q] = Outstanding(q) \ dropped]
  BY <1>2, OwedBecomes
<1>4. owed[q] = Outstanding(q) /\ dropped \in SUBSET owed[q]
  BY <1>1
<1>5. owed' = [owed EXCEPT ![q] = @ \ dropped]
  BY <1>3, <1>4
<1>6. dropped \in {{}, owed[q]} \/ backend = "redis"
  BY <1>2, <1>4
<1>7. Bus!Leave(q)
  BY <1>4, <1>5, <1>6 DEF OnlyAt, Bus!Leave
<1> QED
  BY <1>1, <1>7 DEF Bus!Next

LEMMA LosingIs ==
  ASSUME NEW q, OnlyAt(q), backend = "redis", Outstanding(q)' \subseteq Outstanding(q),
         UNCHANGED done, Attended' = Attended
  PROVE  Bus!Next
<1> DEFINE dropped == Outstanding(q) \ Outstanding(q)'
           owed == [r \in BusQueues |-> Owed(r)]
<1>1. Owed(q) = Outstanding(q) /\ q \in BusQueues
  BY OwedIs DEF OnlyAt, BusInv
<1>2. Outstanding(q)' = Outstanding(q) \ dropped
  OBVIOUS
<1>3. owed' = [owed EXCEPT ![q] = Outstanding(q) \ dropped]
  BY <1>2, OwedBecomes
<1>4. owed[q] = Outstanding(q) /\ dropped \in SUBSET owed[q]
  BY <1>1
<1>5. owed' = [owed EXCEPT ![q] = @ \ dropped]
  BY <1>3, <1>4
<1> QED
  BY <1>1, <1>4, <1>5 DEF OnlyAt, Bus!Next, Bus!Lose

LEMMA SubscribingIs ==
  ASSUME NEW q, OnlyAt(q), UNCHANGED done, Attended' = Attended \cup {q},
         NEW ms \in SUBSET (1 .. log \ done[q]), Outstanding(q)' = Outstanding(q) \cup ms
  PROVE  Bus!Next
<1> DEFINE owed == [r \in BusQueues |-> Owed(r)]
<1>1. Owed(q) = Outstanding(q) /\ q \in BusQueues
  BY OwedIs DEF OnlyAt, BusInv
<1>2. owed' = [owed EXCEPT ![q] = Outstanding(q) \cup ms]
  BY OwedBecomes
<1>3. owed' = [owed EXCEPT ![q] = @ \cup ms]
  BY <1>1, <1>2
<1> QED
  BY <1>1, <1>3 DEF OnlyAt, Bus!Next, Bus!Subscribe

LEMMA HandlingIs ==
  ASSUME NEW q, OnlyAt(q), NEW m \in 1 .. log, m \in Msgs, Attended' = Attended,
         done' = [done EXCEPT ![q] = @ \cup {m}], Outstanding(q)' = Outstanding(q) \ {m}
  PROVE  Bus!Next
<1> DEFINE owed == [r \in BusQueues |-> Owed(r)]
<1>1. Owed(q) = Outstanding(q) /\ q \in BusQueues
  BY OwedIs DEF OnlyAt, BusInv
<1>2. owed' = [owed EXCEPT ![q] = Outstanding(q) \ {m}]
  BY OwedBecomes
<1>3. owed' = [owed EXCEPT ![q] = @ \ {m}]
  BY <1>1, <1>2
<1> QED
  BY <1>1, <1>3 DEF OnlyAt, Bus!Next, Bus!Handle

(* A subscriber's step is about its own queue.                             *)
LEMMA Elsewhere ==
  ASSUME BusInv, NEW s \in Subscribers, UNCHANGED <<backend, grouped>>,
         \A t \in Subscribers \ {s} : batch'[t] = batch[t] /\ sub'[t] = sub[t],
         NEW r \in BusQueues, r # QueueOf(s), done'[r] = done[r],
         In(r, "ready")' = In(r, "ready"), Known(r)' = Known(r)
  PROVE  Outstanding(r)' = Outstanding(r)
<1>1. MembersOf(r)' = MembersOf(r) /\ s \notin MembersOf(r)
  BY DEF MembersOf, QueueOf
<1>2. \A t \in MembersOf(r) : batch'[t] = batch[t] /\ sub'[t] = sub[t]
  BY <1>1 DEF MembersOf
<1>3. Listens(r)' <=> Listens(r)
  BY <1>1, <1>2 DEF Listens
<1>4. Fetched(r)' = Fetched(r)
  BY <1>1, <1>2 DEF Fetched
<1>5. Pending(r)' = Pending(r)
  BY <1>4 DEF Pending
<1> QED
  BY <1>3, <1>5 DEF Outstanding

(* Members are who they were, and a member that is new or on listens.      *)
LEMMA SameListeners ==
  ASSUME BusInv, NEW s \in Subscribers, UNCHANGED grouped,
         \A t \in Subscribers \ {s} : sub'[t] = sub[t],
         sub'[s] = sub[s] \/ (sub[s] # "left" /\ sub'[s] # "left"),
         NEW q \in BusQueues
  PROVE  (Listens(q)' <=> Listens(q)) /\ MembersOf(q)' = MembersOf(q)
<1>1. MembersOf(q)' = MembersOf(q) /\ MembersOf(q) \subseteq Subscribers
  BY DEF MembersOf, QueueOf
<1>2. \A t \in Subscribers : sub'[t] # "left" <=> sub[t] # "left"
  OBVIOUS
<1> QED
  BY <1>1, <1>2 DEF Listens

LEMMA PublishImplements ==
  ASSUME BusInv, ReadersAreBound, PublishMessage
  PROVE  Bus!Next
<1> DEFINE owed == [r \in BusQueues |-> Owed(r)]
           to == {q \in BusQueues : q \in open /\ Listens(q)}
<1>1. /\ log' = log + 1 /\ log \in Nat /\ log' \in Msgs /\ log < MaxMessages
      /\ UNCHANGED <<backend, grouped, open, sub, batch, done>>
  BY BusAssumption DEF BusInv, BusTypes, PublishMessage, Msgs
<1>2. BusInv'
  BY PublishKeepsBus
<1>3. PICK new : new = log'
  OBVIOUS
<1>4. new \in Msgs \ (1 .. log) /\ 1 .. log' = (1 .. log) \cup {new}
  BY <1>1, <1>3
<1>5. ASSUME NEW q \in BusQueues
      PROVE  /\ q \in open =>
                  /\ In(q, "ready")' = In(q, "ready") \cup {new}
                  /\ Known(q)' = Known(q) \cup {new}
             /\ q \notin open => In(q, "ready")' = In(q, "ready") /\ Known(q)' = Known(q)
  <2>1. CASE q \in open
    <3>1. queue'[q] = [queue[q] EXCEPT ![new] = "ready"] /\ queue[q] \in [Msgs -> States]
      BY <1>3, <2>1 DEF PublishMessage, BusInv, BusTypes
    <3>2. \A m \in Msgs : queue'[q][m] = IF m = new THEN "ready" ELSE queue[q][m]
      BY <1>4, <3>1
    <3> QED
      BY <1>4, <2>1, <3>2 DEF In, Known
  <2>2. CASE q \notin open
    BY <2>2 DEF PublishMessage, In, Known
  <2> QED
    BY <2>1, <2>2
<1>6. ASSUME NEW q \in BusQueues
      PROVE  Outstanding(q)' = IF q \in to THEN Outstanding(q) \cup {new} ELSE Outstanding(q)
  <2>1. MembersOf(q)' = MembersOf(q)
    BY <1>1 DEF MembersOf, QueueOf
  <2>2. (Listens(q)' <=> Listens(q)) /\ Fetched(q)' = Fetched(q)
    BY <1>1, <2>1 DEF Listens, Fetched
  <2>3. Pending(q)' = IF q \in open THEN Pending(q) \cup {new} ELSE Pending(q)
    BY <1>1, <1>5, <2>2 DEF Pending
  <2>4. new \notin done[q]
    BY <1>4 DEF BusInv, BusTypes
  <2> QED
    BY <1>1, <2>2, <2>3, <2>4 DEF Outstanding
<1>7. /\ \A q \in BusQueues : Owed(q) = Outstanding(q)
      /\ \A q \in BusQueues : Owed(q)' = Outstanding(q)'
  BY <1>2, OwedIs, OwedWillBe DEF BusInv
<1>8. owed' = [q \in BusQueues |-> IF q \in to THEN owed[q] \cup {new} ELSE owed[q]]
  BY <1>6, <1>7
<1>9. Attended \subseteq to \/ backend = "redis"
  BY DEF Attended, MembersOf, Listens, ReadersAreBound
<1>10. Attended' = Attended
  BY <1>1, AttendedStays
<1>11. Bus!Publish
  BY <1>1, <1>4, <1>8, <1>9, <1>10 DEF Bus!Publish
<1> QED
  BY <1>11 DEF Bus!Next

LEMMA SubscribeImplements ==
  ASSUME BusInv, NEW s \in Subscribers, SubscribeTo(s)
  PROVE  Bus!Next
<1>1. PICK q : q = QueueOf(s)
  OBVIOUS
<1>2. /\ sub[s] = "new" /\ sub' = [sub EXCEPT ![s] = "on"]
      /\ UNCHANGED <<backend, grouped, log, batch, done>>
  BY DEF SubscribeTo, RedisSubscribe, SqsSubscribe, PubSubSubscribe, NatsSubscribe, Subscribed
<1>3. q \in BusQueues
  BY <1>1, QueueOfType DEF BusInv
<1>4. \A t \in Subscribers : sub'[t] = IF t = s THEN "on" ELSE sub[t]
  BY <1>2 DEF BusInv, BusTypes
<1>5. UNCHANGED queue \/ (backend = "nats" /\ Set(q, 1 .. log, "ready"))
  BY <1>1 DEF SubscribeTo, RedisSubscribe, SqsSubscribe, PubSubSubscribe, NatsSubscribe
<1>6. \A r \in BusQueues \ {q} : queue'[r] = queue[r]
  <2>1. "ready" \in States
    BY DEF States
  <2> QED
    BY <1>3, <1>5, <2>1, SetIs DEF BusInv
<1>7. OnlyAt(q)
  <2>1. \A r \in BusQueues \ {q} : Outstanding(r)' = Outstanding(r)
    BY <1>1, <1>2, <1>4, <1>6, Elsewhere DEF In, Known
  <2> QED
    BY <1>2, <1>3, <2>1, SubscribeKeepsBus DEF OnlyAt
<1>8. Listens(q) /\ Listens(q)' /\ MembersOf(q)' = MembersOf(q)
  <2>1. (Listens(q)' <=> Listens(q)) /\ MembersOf(q)' = MembersOf(q)
    BY <1>2, <1>3, <1>4, SameListeners
  <2> QED
    BY <1>1, <1>2, <2>1 DEF Listens, MembersOf
<1>9. Attended' = Attended \cup {q}
  BY <1>1, <1>2, <1>4, AttendedMoves
<1>10. CASE UNCHANGED queue
  <2>1. Outstanding(q)' = Outstanding(q) \cup {}
    BY <1>2, <1>8, <1>10 DEF Outstanding, Pending, Fetched, In, Known
  <2> QED
    BY <1>2, <1>7, <1>9, <2>1, SubscribingIs
<1>11. CASE backend = "nats" /\ Set(q, 1 .. log, "ready")
  <2>1. Known(q) \subseteq 1 .. log /\ 1 .. log \subseteq Msgs
    BY <1>3, BusAssumption DEF BusInv, HandsAreKnown, BusTypes, Msgs
  <2>2. "ready" \in States
    BY DEF States
  <2>3. \A m \in Msgs : queue'[q][m] = IF m \in 1 .. log THEN "ready" ELSE queue[q][m]
    BY <1>3, <1>11, <2>2, SetIs DEF BusInv
  <2>4. Known(q)' = 1 .. log
    BY <2>1, <2>3 DEF Known
  <2>5. Outstanding(q)' = Outstanding(q) \cup (1 .. log \ done[q])
    BY <1>2, <1>8, <1>11, <2>1, <2>4 DEF Outstanding, Pending
  <2> QED
    BY <1>2, <1>7, <1>9, <2>5, SubscribingIs
<1> QED
  BY <1>5, <1>10, <1>11

LEMMA UnsubscribeImplements ==
  ASSUME BusInv, NEW s \in Subscribers, Unsubscribe(s)
  PROVE  Bus!Next \/ UNCHANGED Bus!vars
<1>1. PICK q : q = QueueOf(s)
  OBVIOUS
<1>2. /\ sub' = [sub EXCEPT ![s] = "left"]
      /\ UNCHANGED <<backend, grouped, log, queue, batch, done>>
  BY DEF Unsubscribe
<1>3. q \in BusQueues
  BY <1>1, QueueOfType DEF BusInv
<1>4. \A t \in Subscribers : sub'[t] = IF t = s THEN "left" ELSE sub[t]
  BY <1>2 DEF BusInv, BusTypes
<1>5. OnlyAt(q)
  <2>1. \A r \in BusQueues \ {q} : Outstanding(r)' = Outstanding(r)
    BY <1>1, <1>2, <1>4, Elsewhere DEF In, Known
  <2> QED
    BY <1>2, <1>3, <2>1, UnsubscribeKeepsBus DEF OnlyAt
<1>6. MembersOf(q)' = MembersOf(q) /\ MembersOf(q) \subseteq Subscribers
  BY <1>2 DEF MembersOf, QueueOf
<1>7. /\ q \in Attended' => Attended' = Attended \cup {q}
      /\ q \notin Attended' => Attended' = Attended \ {q}
      /\ q \in Attended
  <2>1. sub[s] = "on"
    BY DEF Unsubscribe
  <2> QED
    BY <1>1, <1>2, <1>4, <2>1, AttendedMoves
<1>8. Outstanding(q)' = Outstanding(q) \/ (~Listens(q)' /\ Outstanding(q)' = {})
  <2>1. Listens(q)' => Listens(q)
    BY <1>4, <1>6 DEF Listens
  <2> QED
    BY <1>2, <1>6, <2>1 DEF Outstanding, Pending, Fetched, In, Known
<1>9. q \in Attended' => Listens(q)'
  BY <1>6 DEF Attended, Listens
<1>10. CASE q \in Attended'
  <2>1. Attended' = Attended /\ Outstanding(q)' = Outstanding(q)
    BY <1>7, <1>8, <1>9, <1>10
  <2> QED
    BY <1>2, <1>5, <2>1, NothingIs
<1>11. CASE q \notin Attended'
  BY <1>2, <1>5, <1>7, <1>8, <1>11, LeavingIs
<1> QED
  BY <1>10, <1>11

(* Redis: what is read goes from the stream into the batch.                *)
LEMMA ReadingIs ==
  ASSUME BusInv, BusInv', NEW s \in Subscribers, backend = "redis", batch[s] = <<>>,
         NEW ms, NEW state \in {"taken", "gone"}, Fetch(s, ms, state),
         ToSet(ms) = In(QueueOf(s), "ready")
  PROVE  UNCHANGED Bus!vars
<1>1. PICK q : q = QueueOf(s)
  OBVIOUS
<1>2. /\ batch' = [batch EXCEPT ![s] = ms]
      /\ Set(q, ToSet(ms), state)
      /\ UNCHANGED <<backend, grouped, log, sub, done>>
  BY <1>1 DEF Fetch
<1>3. q \in BusQueues /\ s \in MembersOf(q)
  BY <1>1, QueueOfType DEF BusInv, MembersOf
<1>4. \A t \in Subscribers : batch'[t] = IF t = s THEN ms ELSE batch[t]
  BY <1>2 DEF BusInv, BusTypes
<1>5. /\ \A r \in BusQueues \ {q} : queue'[r] = queue[r]
      /\ \A m \in Msgs : queue'[q][m] = IF m \in ToSet(ms) THEN state ELSE queue[q][m]
  <2>1. state \in States
    BY DEF States
  <2> QED
    BY <1>2, <1>3, <2>1, SetIs DEF BusInv
<1>6. OnlyAt(q)
  <2>1. \A r \in BusQueues \ {q} : Outstanding(r)' = Outstanding(r)
    BY <1>1, <1>2, <1>4, <1>5, Elsewhere DEF In, Known
  <2> QED
    BY <1>2, <1>3, <2>1 DEF OnlyAt
<1>7. In(q, "ready")' = {}
  BY <1>1, <1>5 DEF In
<1>8. (Listens(q)' <=> Listens(q)) /\ MembersOf(q)' = MembersOf(q)
  BY <1>2, <1>3, SameListeners
<1>9. Fetched(q)' = Fetched(q) \cup ToSet(ms)
  <2>1. ToSet(batch[s]) = {} /\ MembersOf(q) \subseteq Subscribers
    BY DEF ToSet, MembersOf
  <2> QED
    BY <1>3, <1>4, <1>8, <2>1 DEF Fetched
<1>10. Outstanding(q)' = Outstanding(q)
  BY <1>1, <1>2, <1>7, <1>8, <1>9 DEF Outstanding, Pending
<1> QED
  BY <1>2, <1>6, <1>10, NothingIs, AttendedStays

LEMMA ReadGroupImplements ==
  ASSUME BusInv, NEW s \in Subscribers, ReadGroup(s)
  PROVE  UNCHANGED Bus!vars
<1>1. QueueOf(s) = "group" /\ backend = "redis" /\ batch[s] = <<>>
  BY DEF ReadGroup, QueueOf, BusInv, LoopInv
<1>2. PICK new : new \in Oldest(In("group", "ready")) /\ Fetch(s, new, "taken")
  BY DEF ReadGroup
<1>3. ToSet(new) = In(QueueOf(s), "ready")
  BY <1>1, <1>2 DEF Oldest
<1> QED
  BY <1>1, <1>2, <1>3, ReadGroupKeepsBus, ReadingIs

LEMMA EndReadImplements ==
  ASSUME BusInv, NEW s \in Subscribers, EndRead(s)
  PROVE  UNCHANGED Bus!vars
<1>1. /\ BusInv'
      /\ backend = "redis" /\ ~grouped
      /\ \/ UNCHANGED <<backend, queue, sub, batch, done>> /\ UNCHANGED <<grouped, log>>
         \/ /\ batch[s] = <<>>
            /\ \E new : ToSet(new) = In(s, "ready") /\ Fetch(s, new, "gone")
  BY EndReadKeepsBus
<1>2. QueueOf(s) = s /\ s \in BusQueues
  BY <1>1 DEF QueueOf, BusQueues
<1>3. CASE UNCHANGED <<backend, queue, sub, batch, done>> /\ UNCHANGED <<grouped, log>>
  <2>1. \A r \in BusQueues : Outstanding(r)' = Outstanding(r)
    BY <1>3 DEF Outstanding, Listens, Pending, Fetched, MembersOf, QueueOf, In, Known
  <2>2. OnlyAt(s) /\ Outstanding(s)' = Outstanding(s)
    BY <1>1, <1>2, <1>3, <2>1 DEF OnlyAt
  <2> QED
    BY <1>3, <2>2, NothingIs, AttendedStays
<1>4. CASE batch[s] = <<>> /\ \E new : ToSet(new) = In(s, "ready") /\ Fetch(s, new, "gone")
  BY <1>1, <1>2, <1>4, ReadingIs
<1> QED
  BY <1>1, <1>3, <1>4

LEMMA BeginReadImplements ==
  ASSUME BusInv, NEW s \in Subscribers, BeginRead(s)
  PROVE  Bus!Next
<1>1. /\ BusInv'
      /\ \A r \in BusQueues \ {s} : queue'[r] = queue[r]
      /\ In(s, "ready")' \subseteq In(s, "ready")
  BY BeginReadKeepsBus
<1>2. /\ backend = "redis" /\ ~grouped
      /\ UNCHANGED <<backend, grouped, log, sub, batch, done>>
  BY DEF BeginRead
<1>3. QueueOf(s) = s /\ s \in BusQueues
  BY <1>2 DEF QueueOf, BusQueues
<1>4. OnlyAt(s)
  <2>1. \A r \in BusQueues \ {s} : Outstanding(r)' = Outstanding(r)
    BY <1>1, <1>2, <1>3, Elsewhere DEF In, Known
  <2> QED
    BY <1>1, <1>2, <1>3, <2>1 DEF OnlyAt
<1>5. (Listens(s)' <=> Listens(s)) /\ MembersOf(s)' = MembersOf(s)
  BY <1>2, <1>3, SameListeners
<1>6. Outstanding(s)' \subseteq Outstanding(s)
  BY <1>1, <1>2, <1>5 DEF Outstanding, Pending, Fetched
<1> QED
  BY <1>2, <1>4, <1>6, LosingIs, AttendedStays

(* A backend that owes a message until it is handled: what is marked       *)
(* stays owed.                                                             *)
LEMMA MarkingIs ==
  ASSUME BusInv, BusInv', backend # "redis", UNCHANGED <<backend, grouped, log, sub, done>>,
         \A r \in BusQueues : Known(r)' = Known(r)
  PROVE  UNCHANGED Bus!vars
<1>1. \A r \in BusQueues : Outstanding(r)' = Outstanding(r)
  BY DEF Outstanding, Listens, Pending, MembersOf, QueueOf
<1>2. PICK q : q = "group"
  OBVIOUS
<1>3. OnlyAt(q) /\ Outstanding(q)' = Outstanding(q)
  BY <1>1, <1>2 DEF OnlyAt, BusQueues
<1> QED
  BY <1>3, NothingIs, AttendedStays

LEMMA DispatchImplements ==
  ASSUME BusInv, NEW s \in Subscribers, Dispatch(s)
  PROVE  Bus!Next \/ UNCHANGED Bus!vars
<1>1. PICK q, m : q = QueueOf(s) /\ m = Head(batch[s]) /\ HandsOut(s, q, m)
  BY DispatchIs
<1>2. /\ q \in BusQueues /\ m \in Known(q) /\ m \in 1 .. log /\ m \in Msgs
      /\ ToSet(batch[s]) = ToSet(Tail(batch[s])) \cup {m}
      /\ \A r \in BusQueues : Known(r)' = Known(r)
      /\ backend = "redis" => queue' = queue
      /\ done' = done \/ done' = [done EXCEPT ![q] = @ \cup {m}]
  BY <1>1 DEF HandsOut
<1>3. /\ batch' = [batch EXCEPT ![s] = Tail(@)]
      /\ UNCHANGED <<backend, grouped, log, open, sub>>
  BY DEF Dispatch, Rest
<1>4. BusInv'
  BY DispatchKeepsBus
<1>5. /\ \A t \in Subscribers : batch'[t] = IF t = s THEN Tail(batch[s]) ELSE batch[t]
      /\ \A r \in BusQueues \ {q} : done'[r] = done[r]
  BY <1>2, <1>3 DEF BusInv, BusTypes
<1>6. (Listens(q)' <=> Listens(q)) /\ MembersOf(q)' = MembersOf(q) /\ s \in MembersOf(q)
  BY <1>1, <1>2, <1>3, SameListeners DEF MembersOf
<1>7. Fetched(q) = Fetched(q)' \cup {m}
  <2>1. MembersOf(q) \subseteq Subscribers
    BY DEF MembersOf
  <2>2. ToSet(batch[s]) = ToSet(batch'[s]) \cup {m}
    BY <1>2, <1>5
  <2>3. \A t \in MembersOf(q) \ {s} : ToSet(batch'[t]) = ToSet(batch[t])
    BY <1>5, <2>1
  <2>4. Fetched(q)' = UNION {ToSet(batch'[t]) : t \in MembersOf(q)}
    BY <1>6 DEF Fetched
  <2>5. ASSUME NEW x \in Fetched(q) PROVE x \in Fetched(q)' \cup {m}
    <3>1. PICK t \in MembersOf(q) : x \in ToSet(batch[t])
      BY <2>5 DEF Fetched
    <3> QED
      BY <2>2, <2>3, <2>4, <3>1
  <2>6. ASSUME NEW x \in Fetched(q)' \cup {m} PROVE x \in Fetched(q)
    <3>1. CASE x = m
      BY <1>6, <2>2, <3>1 DEF Fetched
    <3>2. CASE x \in Fetched(q)'
      <4>1. PICK t \in MembersOf(q) : x \in ToSet(batch'[t])
        BY <2>4, <3>2
      <4> QED
        BY <2>2, <2>3, <4>1 DEF Fetched
    <3> QED
      BY <2>6, <3>1, <3>2
  <2> QED
    BY <2>5, <2>6
<1>8. backend = "redis" => Pending(q) = Pending(q)' \cup {m}
  BY <1>2, <1>3, <1>7 DEF Pending, In
<1>9. backend # "redis" => Pending(q) = Pending(q)' /\ m \in Pending(q)
  BY <1>2, <1>3 DEF Pending
<1>10. OnlyAt(q)
  <2>1. backend = "redis" => \A r \in BusQueues : In(r, "ready")' = In(r, "ready")
    BY <1>2 DEF In
  <2>2. \A r \in BusQueues \ {q} : MembersOf(r)' = MembersOf(r) /\ s \notin MembersOf(r)
    BY <1>1, <1>3 DEF MembersOf, QueueOf
  <2>3. \A r \in BusQueues \ {q} : (Listens(r)' <=> Listens(r)) /\ Fetched(r)' = Fetched(r)
    BY <1>3, <1>5, <2>2 DEF Listens, Fetched, MembersOf
  <2>4. \A r \in BusQueues \ {q} : Pending(r)' = Pending(r)
    BY <1>2, <1>3, <2>1, <2>3 DEF Pending
  <2>5. \A r \in BusQueues \ {q} : Outstanding(r)' = Outstanding(r)
    BY <1>5, <2>3, <2>4 DEF Outstanding
  <2> QED
    BY <1>2, <1>3, <1>4, <2>5 DEF OnlyAt
<1>11. Attended' = Attended
  BY <1>3, AttendedStays
<1>12. CASE done' = [done EXCEPT ![q] = @ \cup {m}]
  <2>1. done'[q] = done[q] \cup {m}
    BY <1>2, <1>12 DEF BusInv, BusTypes
  <2>2. Outstanding(q)' = Outstanding(q) \ {m}
    <3>1. CASE backend = "redis"
      BY <1>6, <1>8, <2>1, <3>1 DEF Outstanding
    <3>2. CASE backend # "redis"
      BY <1>6, <1>9, <2>1, <3>2 DEF Outstanding
    <3> QED
      BY <3>1, <3>2
  <2> QED
    BY <1>2, <1>10, <1>11, <1>12, <2>2, HandlingIs
<1>13. CASE done' = done
  <2>1. CASE backend = "redis"
    <3>1. Outstanding(q)' \subseteq Outstanding(q)
      BY <1>6, <1>8, <1>13, <2>1 DEF Outstanding
    <3> QED
      BY <1>10, <1>11, <1>13, <2>1, <3>1, LosingIs
  <2>2. CASE backend # "redis"
    BY <1>2, <1>3, <1>4, <1>13, <2>2, MarkingIs
  <2> QED
    BY <2>1, <2>2
<1> QED
  BY <1>2, <1>12, <1>13

LEMMA DiesImplements ==
  ASSUME BusInv, NEW s \in Subscribers, Dies(s)
  PROVE  Bus!Next \/ UNCHANGED Bus!vars
<1>1. /\ BusInv'
      /\ grouped => queue' = queue
      /\ ~grouped => Known(s)' = {}
      /\ \A r \in BusQueues \ {s} : queue'[r] = queue[r]
  BY DiesKeepsBus
<1>2. /\ sub[s] = "on" /\ sub' = [sub EXCEPT ![s] = "new"]
      /\ batch' = [batch EXCEPT ![s] = <<>>]
      /\ UNCHANGED <<backend, grouped, log, done>>
  BY DEF Dies
<1>3. PICK q : q = QueueOf(s)
  OBVIOUS
<1>4. q \in BusQueues /\ (~grouped => q = s)
  BY <1>3, QueueOfType DEF BusInv, QueueOf
<1>5. \A t \in Subscribers :
        /\ sub'[t] = IF t = s THEN "new" ELSE sub[t]
        /\ batch'[t] = IF t = s THEN <<>> ELSE batch[t]
  BY <1>2 DEF BusInv, BusTypes
<1>6. OnlyAt(q)
  <2>1. \A r \in BusQueues \ {q} : queue'[r] = queue[r]
    BY <1>1, <1>4
  <2>2. \A r \in BusQueues \ {q} : Outstanding(r)' = Outstanding(r)
    BY <1>2, <1>3, <1>5, <2>1, Elsewhere DEF In, Known
  <2> QED
    BY <1>1, <1>2, <1>4, <2>2 DEF OnlyAt
<1>7. (Listens(q)' <=> Listens(q)) /\ MembersOf(q)' = MembersOf(q)
  BY <1>2, <1>4, <1>5, SameListeners
<1>8. /\ q \in Attended' => Attended' = Attended
      /\ q \notin Attended' => Attended' = Attended \ {q}
  <2>1. /\ q \in Attended' => Attended' = Attended \cup {q}
        /\ q \notin Attended' => Attended' = Attended \ {q}
        /\ q \in Attended
    BY <1>2, <1>3, <1>5, AttendedMoves
  <2> QED
    BY <2>1
<1>9. CASE grouped
  <2>1. UNCHANGED queue
    BY <1>1, <1>9
  <2>2. \A t \in MembersOf(q) : ToSet(batch'[t]) \subseteq ToSet(batch[t])
    BY <1>5 DEF MembersOf, ToSet
  <2>3. Fetched(q)' \subseteq Fetched(q)
    BY <1>7, <2>2 DEF Fetched
  <2>4. /\ Outstanding(q)' \subseteq Outstanding(q)
        /\ backend # "redis" => Outstanding(q)' = Outstanding(q)
    BY <1>2, <1>7, <2>1, <2>3 DEF Outstanding, Pending, In, Known
  <2>5. CASE q \in Attended' /\ backend = "redis"
    BY <1>2, <1>6, <1>8, <2>4, <2>5, LosingIs
  <2>6. CASE q \in Attended' /\ backend # "redis"
    BY <1>2, <1>6, <1>8, <2>4, <2>6, NothingIs
  <2>7. CASE q \notin Attended'
    BY <1>2, <1>6, <1>8, <2>4, <2>7, LeavingIs
  <2> QED
    BY <2>5, <2>6, <2>7
<1>10. CASE ~grouped
  <2>1. In(s, "ready")' = {}
    BY <1>1, <1>10 DEF In, Known
  <2>2. \A t \in MembersOf(s)' : t = s
    BY <1>2, <1>10 DEF MembersOf, QueueOf
  <2>3. Fetched(s)' = {}
    BY <1>5, <2>2 DEF Fetched, ToSet
  <2>4. Outstanding(q)' = {}
    BY <1>1, <1>4, <1>10, <2>1, <2>3 DEF Outstanding, Pending
  <2>5. q \notin Attended'
    BY <1>4, <1>5, <1>10, <2>2 DEF Attended
  <2> QED
    BY <1>2, <1>6, <1>8, <2>4, <2>5, LeavingIs
<1> QED
  BY <1>9, <1>10

LEMMA ReadersStayBound ==
  ASSUME BusInv, ReadersAreBound, [BusNext]_busVars
  PROVE  ReadersAreBound'
<1>1. CASE UNCHANGED <<backend, grouped, sub, open>>
  BY <1>1 DEF ReadersAreBound, QueueOf
<1>2. ASSUME NEW s \in Subscribers, SubscribeTo(s)
      PROVE  ReadersAreBound'
  <2>1. /\ sub' = [sub EXCEPT ![s] = "on"]
        /\ UNCHANGED <<backend, grouped>>
        /\ backend # "redis" => open' = open \cup {QueueOf(s)}
    BY <1>2 DEF SubscribeTo, RedisSubscribe, SqsSubscribe, PubSubSubscribe, NatsSubscribe,
                Subscribed
  <2> QED
    BY <2>1 DEF BusInv, BusTypes, ReadersAreBound, QueueOf
<1>3. ASSUME NEW s \in Subscribers, BeginRead(s)
      PROVE  ReadersAreBound'
  BY <1>3 DEF BeginRead, ReadersAreBound
<1>4. ASSUME NEW s \in Subscribers, Unsubscribe(s)
      PROVE  ReadersAreBound'
  BY <1>4 DEF Unsubscribe, BusInv, BusTypes, ReadersAreBound, QueueOf
<1>5. ASSUME NEW s \in Subscribers, Dies(s)
      PROVE  ReadersAreBound'
  <2>1. /\ sub' = [sub EXCEPT ![s] = "new"]
        /\ UNCHANGED <<backend, grouped>>
        /\ open' = open \/ (~grouped /\ open' = open \ {s})
    BY <1>5 DEF Dies
  <2> QED
    BY <2>1 DEF BusInv, BusTypes, ReadersAreBound, QueueOf
<1>6. ASSUME NEW s \in Subscribers,
             \/ ReadGroup(s) \/ EndRead(s) \/ Dispatch(s) \/ AcknowledgeBatch(s)
             \/ \E m \in Msgs : Receive(s, m)
      PROVE  ReadersAreBound'
  <2>1. UNCHANGED <<backend, grouped, sub, open>>
    BY <1>6 DEF ReadGroup, EndRead, Dispatch, Rest, AcknowledgeBatch, Receive, SqsPoll,
                PubSubPull, NatsPush, Some, Fetch
  <2> QED
    BY <1>1, <2>1
<1>7. PublishMessage \/ (\E q \in BusQueues, m \in Msgs : Reappear(q, m)) \/ UNCHANGED busVars
      => UNCHANGED <<backend, grouped, sub, open>>
  BY DEF PublishMessage, Reappear, busVars
<1> QED
  BY <1>1, <1>2, <1>3, <1>4, <1>5, <1>6, <1>7 DEF BusNext, Loop

LEMMA BusStep ==
  ASSUME BusInv, ReadersAreBound, BusNext
  PROVE  BusInv' /\ [Bus!Next]_(Bus!vars)
<1>1. CASE PublishMessage
  BY <1>1, PublishKeepsBus, PublishImplements
<1>2. ASSUME NEW s \in Subscribers, SubscribeTo(s)
      PROVE  BusInv' /\ [Bus!Next]_(Bus!vars)
  BY <1>2, SubscribeKeepsBus, SubscribeImplements
<1>3. ASSUME NEW s \in Subscribers, ReadGroup(s)
      PROVE  BusInv' /\ [Bus!Next]_(Bus!vars)
  BY <1>3, ReadGroupKeepsBus, ReadGroupImplements
<1>4. ASSUME NEW s \in Subscribers, BeginRead(s)
      PROVE  BusInv' /\ [Bus!Next]_(Bus!vars)
  BY <1>4, BeginReadKeepsBus, BeginReadImplements
<1>5. ASSUME NEW s \in Subscribers, EndRead(s)
      PROVE  BusInv' /\ [Bus!Next]_(Bus!vars)
  BY <1>5, EndReadKeepsBus, EndReadImplements
<1>6. ASSUME NEW s \in Subscribers, Dispatch(s)
      PROVE  BusInv' /\ [Bus!Next]_(Bus!vars)
  BY <1>6, DispatchKeepsBus, DispatchImplements
<1>7. ASSUME NEW s \in Subscribers, AcknowledgeBatch(s)
      PROVE  BusInv' /\ [Bus!Next]_(Bus!vars)
  <2>1. UNCHANGED <<backend, grouped, log, sub, done>>
    BY <1>7 DEF AcknowledgeBatch
  <2> QED
    BY <1>7, <2>1, AcknowledgeBatchKeepsBus, MarkingIs
<1>8. ASSUME NEW s \in Subscribers, Unsubscribe(s)
      PROVE  BusInv' /\ [Bus!Next]_(Bus!vars)
  BY <1>8, UnsubscribeKeepsBus, UnsubscribeImplements
<1>9. ASSUME NEW s \in Subscribers, Dies(s)
      PROVE  BusInv' /\ [Bus!Next]_(Bus!vars)
  BY <1>9, DiesKeepsBus, DiesImplements
<1>10. ASSUME NEW s \in Subscribers, NEW m \in Msgs, Receive(s, m)
       PROVE  BusInv' /\ [Bus!Next]_(Bus!vars)
  <2>1. /\ BusInv' /\ backend # "redis" /\ \A q \in BusQueues : Known(q)' = Known(q)
        /\ \E ms : Fetch(s, ms, "taken")
    BY <1>10, ReceiveKeepsBus
  <2>2. UNCHANGED <<backend, grouped, log, sub, done>>
    BY <2>1 DEF Fetch
  <2> QED
    BY <2>1, <2>2, MarkingIs
<1>11. ASSUME NEW q \in BusQueues, NEW m \in Msgs, Reappear(q, m)
       PROVE  BusInv' /\ [Bus!Next]_(Bus!vars)
  <2>1. UNCHANGED <<backend, grouped, log, sub, done>>
    BY <1>11 DEF Reappear
  <2> QED
    BY <1>11, <2>1, ReappearKeepsBus, MarkingIs
<1> QED
  BY <1>1, <1>2, <1>3, <1>4, <1>5, <1>6, <1>7, <1>8, <1>9, <1>10, <1>11 DEF BusNext, Loop

LEMMA BusStands ==
  ASSUME BusInv, UNCHANGED busVars
  PROVE  BusInv' /\ UNCHANGED Bus!vars
<1>1. /\ UNCHANGED <<backend, grouped, log, queue, open, sub, stage, batch, acks, done, failures>>
      /\ Attended' = Attended
  BY AttendedStays DEF busVars
<1>2. BusTypes' /\ LoopInv' /\ HandsAreKnown'
  BY <1>1 DEF BusInv, BusTypes, LoopInv, HandsAreKnown, Known, QueueOf
<1>3. \A r \in BusQueues : Outstanding(r)' = Outstanding(r)
  BY <1>1 DEF Outstanding, Listens, Pending, Fetched, MembersOf, QueueOf, In, Known
<1>4. PICK q : q = "group"
  OBVIOUS
<1>5. OnlyAt(q) /\ Outstanding(q)' = Outstanding(q)
  BY <1>1, <1>2, <1>3, <1>4 DEF OnlyAt, BusQueues, BusInv
<1> QED
  BY <1>1, <1>2, <1>5, NothingIs DEF BusInv

LEMMA BusInitImplements == \A backends : BusInit(backends) => Bus!Init
<1> SUFFICES ASSUME NEW backends, BusInit(backends) PROVE Bus!Init
  OBVIOUS
<1>1. BusInv
  BY BusBegins
<1>2. \A q \in BusQueues : Outstanding(q) = {}
  <2>1. \A q \in BusQueues : In(q, "ready") = {} /\ Known(q) = {} /\ Fetched(q) = {}
    BY DEF BusInit, In, Known, Fetched, MembersOf, ToSet
  <2> QED
    BY <2>1 DEF Outstanding, Pending
<1>3. \A q \in BusQueues : Owed(q) = {}
  BY <1>1, <1>2, OwedIs DEF BusInv
<1>4. log = 0 /\ done = [q \in BusQueues |-> {}] /\ 1 .. log = {}
  BY DEF BusInit
<1>5. Attended = {}
  BY DEF BusInit, Attended, MembersOf
<1> QED
  BY <1>3, <1>4, <1>5 DEF Bus!Init

(* Whatever the backend, the group and the failures: a message published   *)
(* while somebody reads a queue is owed to it, what is owed stays owed until *)
(* it is handled or the last subscriber is gone, and only Redis loses any.  *)
THEOREM BusKeepsItsPromises == Spec => ImplementsMessageBus
<1>1. Init => Bus!Init /\ BusInv /\ ReadersAreBound
  <2>1. BusInit(Backends) => ReadersAreBound
    BY DEF BusInit, ReadersAreBound
  <2> QED
    BY <2>1, BusInitImplements, BusBegins DEF Init
<1>2. BusInv /\ ReadersAreBound /\ [Next]_vars
      => BusInv' /\ ReadersAreBound' /\ [Bus!Next]_(Bus!vars)
  <2> SUFFICES ASSUME BusInv, ReadersAreBound, [Next]_vars
               PROVE  BusInv' /\ ReadersAreBound' /\ [Bus!Next]_(Bus!vars)
    OBVIOUS
  <2>1. CASE BusNext
    BY <2>1, BusStep, ReadersStayBound
  <2>2. CASE UNCHANGED busVars
    BY <2>2, BusStands, ReadersStayBound
  <2>3. BusNext \/ UNCHANGED busVars
    BY DEF Next, vars, OnBus, InAudio, InSpeech, InChat, InFeed, InStream
  <2> QED
    BY <2>1, <2>2, <2>3
<1> QED
  BY <1>1, <1>2, PTL DEF Spec, ImplementsMessageBus
=============================================================================
