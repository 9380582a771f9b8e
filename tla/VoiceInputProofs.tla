-------------------------- MODULE VoiceInputProofs --------------------------
(***************************************************************************)
(* Theorems about VoiceInput, for any number of blocks, any hangover, any  *)
(* preroll at most one block longer than it, any window at least as long   *)
(* as the preroll, and any sizes of blocks and mel frames.                 *)
(***************************************************************************)
EXTENDS VoiceInput, TLAPS

\* A deque with a maxlen.  The block comes last; the rest stays, or moves up when
\* the deque was full.
LEMMA PushedShort ==
    ASSUME NEW S, NEW deque \in Seq(S), NEW block \in S, NEW maxlen \in Nat \ {0},
           Len(deque) < maxlen, NEW new, new = Pushed(deque, block, maxlen)
    PROVE  /\ new \in Seq(S) /\ Len(new) = Len(deque) + 1
           /\ new[Len(deque) + 1] = block
           /\ \A i \in 1 .. Len(deque) : new[i] = deque[i]
  BY DEF Pushed

LEMMA PushedFull ==
    ASSUME NEW S, NEW deque \in Seq(S), NEW block \in S, Len(deque) > 0,
           NEW new, new = Append(Tail(deque), block)
    PROVE  /\ new \in Seq(S) /\ Len(new) = Len(deque)
           /\ new[Len(deque)] = block
           /\ \A i \in 1 .. Len(deque) - 1 : new[i] = deque[i + 1]
<1>1. Len(deque) \in Nat \ {0} /\ deque # <<>>
  OBVIOUS
<1>2. Tail(deque) \in Seq(S) /\ Len(Tail(deque)) = Len(deque) - 1
      /\ \A i \in 1 .. Len(deque) - 1 : Tail(deque)[i] = deque[i + 1]
  BY <1>1
<1> QED
  BY <1>1, <1>2

LEMMA PushedBlocks ==
    ASSUME NEW S, NEW deque \in Seq(S), NEW block \in S, NEW maxlen \in Nat \ {0},
           Len(deque) <= maxlen, NEW new, new = Pushed(deque, block, maxlen)
    PROVE  new \in Seq(S) /\ Len(new) \in 1 .. maxlen /\ new[Len(new)] = block
<1>1. CASE Len(deque) < maxlen
  BY <1>1, PushedShort
<1>2. CASE Len(deque) = maxlen
  <2>1. Len(deque) > 0 /\ new = Append(Tail(deque), block)
    BY <1>2 DEF Pushed
  <2> QED
    BY <1>2, <2>1, PushedFull
<1> QED
  BY <1>1, <1>2

-----------------------------------------------------------------------------
\* Type correctness.  The deques keep to their lengths, and what the encoder has
\* consumed stays a number because it never gets ahead of the audio.

\* At most Consumed(emitted, samples) + 1 mel frames fit the audio.
LEMMA ConsumedFits ==
    ASSUME NEW emitted \in Nat, NEW samples \in Nat, emitted + 1 <= samples \div Hop
    PROVE  /\ Consumed(emitted, samples) \in Nat
           /\ Consumed(emitted, samples) + 1 <= samples \div Hop
<1> DEFINE rest == samples \div Hop - emitted - 1
<1>1. samples \div Hop \in Nat
  BY MelAssumption
<1>2. rest \in Nat
  BY <1>1
<1>3. Shift * (rest \div Shift) \in Nat /\ Shift * (rest \div Shift) <= rest
  <2> HIDE DEF rest
  <2> QED
    BY <1>2, MelAssumption
<1> QED
  BY <1>1, <1>2, <1>3 DEF Consumed

\* What process does to every block.
LEMMA ProcessKeeps ==
    ASSUME TypeOK, NEW speech \in BOOLEAN, Process(speech)
    PROVE  /\ now' = now + 1 /\ now' \in Blocks
           /\ sinceSpeech' \in 0 .. Hangover
           /\ voiced' \subseteq Blocks
           /\ preroll' \in Seq(Blocks) /\ Len(preroll') \in 1 .. Preroll
           /\ preroll'[Len(preroll')] = now'
<1>1. now' = now + 1 /\ now' \in Blocks
  BY BoundAssumption DEF Process, TypeOK, Blocks
<1>2. sinceSpeech' \in 0 .. Hangover /\ voiced' \subseteq Blocks
  BY <1>1, GateAssumption DEF Process, Hear, TypeOK
<1>3. preroll' = Pushed(preroll, now', Preroll)
  BY DEF Process, Remember
<1>4. preroll \in Seq(Blocks) /\ Len(preroll) <= Preroll /\ Preroll \in Nat \ {0}
  BY GateAssumption DEF TypeOK
<1>5. preroll' \in Seq(Blocks) /\ Len(preroll') \in 1 .. Preroll /\ preroll'[Len(preroll')] = now'
  <2> HIDE DEF Blocks
  <2>1. preroll' \in Seq(Blocks)
    BY <1>1, <1>3, <1>4, PushedBlocks
  <2>2. Len(preroll') \in 1 .. Preroll
    BY <1>1, <1>3, <1>4, PushedBlocks
  <2>3. preroll'[Len(preroll')] = now'
    BY <1>1, <1>3, <1>4, PushedBlocks
  <2> QED
    BY <2>1, <2>2, <2>3
<1> QED
  BY <1>1, <1>2, <1>5

\* The audio that is open is never empty, and the encoder never at its edge.
EncoderInv == Open => fed # <<>> /\ melEmitted + 1 <= Samples(fed) \div Hop

LEMMA SamplesFit ==
    ASSUME NEW blocks \in Seq(Blocks), blocks # <<>>
    PROVE  Samples(blocks) \in Nat /\ 1 <= Samples(blocks) \div Hop
<1>1. Len(blocks) \in Nat \ {0}
  OBVIOUS
<1>2. Samples(blocks) \in Nat /\ Samples(blocks) >= Hop
  <2>1. BlockSamples * Len(blocks) \in Nat /\ BlockSamples * Len(blocks) >= BlockSamples
    BY <1>1, MelAssumption
  <2> QED
    BY <2>1, MelAssumption DEF Samples
<1> QED
  BY <1>2, MelAssumption

LEMMA SamplesGrow ==
    ASSUME NEW blocks \in Seq(Blocks), NEW block \in Blocks
    PROVE  /\ Samples(blocks) \in Nat /\ Samples(Append(blocks, block)) \in Nat
           /\ Samples(blocks) \div Hop <= Samples(Append(blocks, block)) \div Hop
<1>1. Len(blocks) \in Nat /\ Len(Append(blocks, block)) = Len(blocks) + 1
  OBVIOUS
<1>2. Samples(blocks) \in Nat /\ Samples(Append(blocks, block)) = Samples(blocks) + BlockSamples
  BY <1>1, MelAssumption DEF Samples
<1> HIDE DEF Samples
<1> QED
  BY <1>2, MelAssumption

LEMMA StartTurnKeeps ==
    ASSUME TypeOK, NEW speech \in BOOLEAN, Process(speech), StartTurn
    PROVE  /\ utterance' \in Seq(Blocks) /\ Len(utterance') <= Window
           /\ fed' \in Seq(Blocks) /\ melEmitted' \in Nat /\ opened' \in 0 .. MaxBlocks
           /\ EncoderInv'
<1>1. preroll' \in Seq(Blocks) /\ Len(preroll') \in 1 .. Preroll /\ now' \in Blocks
  BY ProcessKeeps
<1>2. preroll' # <<>>
  BY <1>1
<1>3. /\ melEmitted' = Consumed(0, Samples(fed')) /\ fed' = preroll' /\ utterance' = preroll'
      /\ opened' = now'
  BY DEF StartTurn
<1>4. melEmitted' \in Nat /\ melEmitted' + 1 <= Samples(fed') \div Hop
  BY <1>1, <1>2, <1>3, SamplesFit, ConsumedFits
<1> QED
  BY <1>1, <1>2, <1>3, <1>4, WindowAssumption, GateAssumption DEF EncoderInv, Blocks

LEMMA RecordKeeps ==
    ASSUME TypeOK, EncoderInv, Open, NEW speech \in BOOLEAN, Process(speech), Record
    PROVE  /\ utterance' \in Seq(Blocks) /\ Len(utterance') <= Window
           /\ fed' \in Seq(Blocks) /\ melEmitted' \in Nat /\ opened' \in 0 .. MaxBlocks
           /\ EncoderInv'
<1>1. now' \in Blocks
  BY ProcessKeeps
<1>2. /\ fed' = Append(fed, now') /\ fed \in Seq(Blocks)
      /\ utterance' = Pushed(utterance, now', Window)
      /\ melEmitted' = Consumed(melEmitted, Samples(fed')) /\ opened' = opened
  BY DEF Record, TypeOK
<1>3. fed' \in Seq(Blocks) /\ fed' # <<>>
  BY <1>1, <1>2
<1>4. melEmitted \in Nat /\ Samples(fed') \in Nat /\ melEmitted + 1 <= Samples(fed') \div Hop
  <2>1. melEmitted \in Nat /\ melEmitted + 1 <= Samples(fed) \div Hop
    BY DEF EncoderInv, TypeOK
  <2>2. Samples(fed) \in Nat /\ Samples(fed') \in Nat
        /\ Samples(fed) \div Hop <= Samples(fed') \div Hop
    BY <1>1, <1>2, SamplesGrow
  <2>3. Samples(fed) \div Hop \in Int /\ Samples(fed') \div Hop \in Int
    BY <2>2, MelAssumption
  <2> QED
    BY <2>1, <2>2, <2>3
<1>5. melEmitted' \in Nat /\ melEmitted' + 1 <= Samples(fed') \div Hop
  BY <1>2, <1>4, ConsumedFits
<1>6. Window \in Nat \ {0}
  BY WindowAssumption, GateAssumption
<1>7. utterance' \in Seq(Blocks) /\ Len(utterance') <= Window
  <2>1. utterance \in Seq(Blocks) /\ Len(utterance) <= Window
    BY DEF TypeOK
  <2> QED
    BY <1>1, <1>2, <1>6, <2>1, PushedBlocks
<1> QED
  BY <1>2, <1>3, <1>5, <1>7 DEF EncoderInv, TypeOK

LEMMA TypeStep ==
    ASSUME TypeOK, EncoderInv, [Next]_vars
    PROVE  TypeOK' /\ EncoderInv'
<1>1. CASE UNCHANGED vars
  BY <1>1 DEF vars, TypeOK, EncoderInv, Open
<1>2. CASE Next
  <2> PICK speech \in BOOLEAN :
        \/ AssistantQuiet(speech) \/ AssistantBargeIn(speech)
        \/ UserSilent(speech) \/ UserStarts(speech) \/ UserContinues(speech)
        \/ UserPauses(speech) \/ UserFinishes(speech)
    BY <1>2 DEF Next
  <2>1. CASE AssistantQuiet(speech) \/ UserSilent(speech)
    <3>1. Process(speech) /\ LeaveAudio /\ turnState' \in {"idle", turnState} /\ recognized' = recognized
      BY <2>1 DEF AssistantQuiet, UserSilent
    <3> QED
      BY <3>1, ProcessKeeps DEF LeaveAudio, TypeOK, EncoderInv, Open, Blocks
  <2>2. CASE AssistantBargeIn(speech) \/ UserStarts(speech)
    <3>1. Process(speech) /\ StartTurn /\ turnState' = "recording" /\ recognized' = recognized
      BY <2>2 DEF AssistantBargeIn, UserStarts, StartTurn
    <3> QED
      BY <3>1, ProcessKeeps, StartTurnKeeps DEF TypeOK, Blocks
  <2>3. CASE UserContinues(speech) \/ UserPauses(speech) \/ UserFinishes(speech)
    <3>1. Process(speech) /\ Record /\ Open /\ turnState' \in {"recording", "awaiting", "idle"}
          /\ recognized' \subseteq recognized \cup voiced'
      BY <2>3 DEF UserContinues, UserPauses, UserFinishes, Open
    <3> QED
      BY <3>1, ProcessKeeps, RecordKeeps DEF TypeOK, Blocks
  <2> QED
    BY <2>1, <2>2, <2>3
<1> QED
  BY <1>1, <1>2

LEMMA TypeInit == Init => TypeOK /\ EncoderInv
<1> SUFFICES ASSUME Init PROVE TypeOK /\ EncoderInv
  OBVIOUS
<1>1. <<>> \in Seq(Blocks) /\ Len(<<>>) = 0
  OBVIOUS
<1> QED
  BY <1>1, BoundAssumption, GateAssumption, WindowAssumption DEF Init, TypeOK, EncoderInv, Open

THEOREM TypeCorrect == Spec => []TypeOK
<1> QED
  BY TypeInit, TypeStep, PTL DEF Spec

\* Arithmetic.
LEMMA WholeFrames ==
    ASSUME NEW samples \in Nat, NEW hop \in Nat \ {0}
    PROVE  samples \div hop \in Nat /\ (samples \div hop) * hop <= samples
  OBVIOUS

LEMMA TimesMonotonic ==
    ASSUME NEW m \in Nat, NEW n \in Nat, NEW h \in Nat, m <= n
    PROVE  m * h <= n * h
<1> DEFINE d == n - m
<1>1. d \in Nat /\ n = m + d
  OBVIOUS
<1>2. d * h \in Nat
  BY <1>1
<1>3. (m + d) * h = m * h + d * h
  BY <1>1
<1> HIDE DEF d
<1> QED
  BY <1>1, <1>2, <1>3

\* No mel frame is consumed whose window reaches past the audio there is: the
\* encoder stays a whole frame behind, and half a window is at most two hops.
THEOREM FramesExact == Spec => []NoEdgeFrame
<1>1. TypeOK /\ EncoderInv => NoEdgeFrame
  <2> SUFFICES ASSUME TypeOK, EncoderInv, Open, melEmitted > 0
               PROVE  (melEmitted - 1) * Hop + HalfWindow <= Samples(fed)
    BY DEF NoEdgeFrame
  <2>1. melEmitted \in Nat /\ Samples(fed) \in Nat /\ melEmitted + 1 <= Samples(fed) \div Hop
    BY SamplesFit DEF EncoderInv, TypeOK
  <2> DEFINE frames == Samples(fed) \div Hop
  <2>2. frames \in Nat /\ frames * Hop <= Samples(fed)
    BY <2>1, MelAssumption, WholeFrames
  <2>3. (melEmitted + 1) * Hop <= frames * Hop
    BY <2>1, <2>2, MelAssumption, TimesMonotonic
  <2>4. (melEmitted - 1) * Hop + 2 * Hop = (melEmitted + 1) * Hop
    <3>1. \A m, h \in Int : (m - 1) * h + 2 * h = (m + 1) * h
      OBVIOUS
    <3> QED
      BY <2>1, <3>1, MelAssumption
  <2>5. (melEmitted - 1) * Hop \in Int /\ (melEmitted + 1) * Hop \in Int /\ frames * Hop \in Int
    BY <2>1, <2>2, MelAssumption
  <2> QED
    BY <2>1, <2>2, <2>3, <2>4, <2>5, MelAssumption
<1> QED
  BY <1>1, TypeInit, TypeStep, PTL DEF Spec

-----------------------------------------------------------------------------
\* What makes NoSpeechTwice inductive: the preroll holds the last blocks, and
\* what was recognized is at least the hangover old.
HangoverInv ==
    /\ \A i \in 1 .. Len(preroll) : preroll[i] = now - Len(preroll) + i
    /\ \A b \in voiced : b <= now - sinceSpeech
    /\ \A b \in recognized : b <= now - Hangover
    /\ Open => \A i \in 1 .. Len(fed) : fed[i] <= now

\* The properties of the open utterance, as they are kept: its blocks in order,
\* its window the tail of them.
UtteranceInv ==
    /\ NoSpeechTwice
    /\ NoSpeechLost
    /\ Open => /\ \A i, j \in 1 .. Len(fed) : i < j => fed[i] < fed[j]
               /\ Len(utterance) <= Len(fed)
               /\ \A i \in 1 .. Len(utterance) : utterance[i] = fed[Len(fed) - Len(utterance) + i]
               /\ Len(utterance) = Window \/ utterance = fed

LEMMA ProcessHears ==
    ASSUME TypeOK, HangoverInv, NEW speech \in BOOLEAN, Process(speech)
    PROVE  /\ \A i \in 1 .. Len(preroll') : preroll'[i] = now' - Len(preroll') + i
           /\ \A b \in voiced' : b <= now' - sinceSpeech'
           /\ voiced \subseteq voiced' /\ voiced' \subseteq voiced \cup {now'}
           /\ ~Speaking => now' \notin voiced' /\ sinceSpeech' = Hangover
<1>1. now' = now + 1 /\ now \in Nat /\ now' \in Blocks
  BY ProcessKeeps DEF TypeOK
<1>2. ASSUME NEW i \in 1 .. Len(preroll')
      PROVE  preroll'[i] = now' - Len(preroll') + i
  <2>1. preroll' = Pushed(preroll, now', Preroll)
    BY DEF Process, Remember
  <2>2. preroll \in Seq(Blocks) /\ Len(preroll) <= Preroll /\ Preroll \in Nat \ {0}
    BY GateAssumption DEF TypeOK
  <2>3. \A k \in 1 .. Len(preroll) : preroll[k] = now - Len(preroll) + k
    BY DEF HangoverInv
  <2>4. CASE Len(preroll) < Preroll
    <3>1. /\ Len(preroll') = Len(preroll) + 1 /\ preroll'[Len(preroll) + 1] = now'
          /\ \A k \in 1 .. Len(preroll) : preroll'[k] = preroll[k]
      BY <1>1, <2>1, <2>2, <2>4, PushedShort
    <3>2. CASE i = Len(preroll) + 1
      BY <1>1, <2>2, <3>1, <3>2
    <3>3. CASE i \in 1 .. Len(preroll)
      BY <1>1, <2>2, <2>3, <3>1, <3>3
    <3> QED
      BY <2>2, <3>1, <3>2, <3>3
  <2>5. CASE Len(preroll) = Preroll
    <3>1. /\ Len(preroll') = Preroll /\ preroll'[Preroll] = now'
          /\ \A k \in 1 .. Preroll - 1 : preroll'[k] = preroll[k + 1]
      <4>1. Len(preroll) > 0 /\ preroll' = Append(Tail(preroll), now')
        BY <2>1, <2>2, <2>5 DEF Pushed
      <4>2. /\ Len(preroll') = Len(preroll) /\ preroll'[Len(preroll)] = now'
            /\ \A k \in 1 .. Len(preroll) - 1 : preroll'[k] = preroll[k + 1]
        BY <1>1, <2>2, <4>1, PushedFull
      <4> QED
        BY <2>5, <4>2
    <3>2. CASE i = Preroll
      BY <1>1, <2>2, <3>1, <3>2
    <3>3. CASE i \in 1 .. Preroll - 1
      <4>1. preroll'[i] = preroll[i + 1] /\ i + 1 \in 1 .. Len(preroll)
        BY <2>2, <2>5, <3>1, <3>3
      <4> QED
        BY <1>1, <2>2, <2>3, <2>5, <3>1, <4>1
    <3> QED
      BY <2>2, <3>1, <3>2, <3>3
  <2> QED
    BY <2>2, <2>4, <2>5
<1>3. \A b \in voiced : b \in Int /\ b <= now - sinceSpeech
  BY DEF HangoverInv, TypeOK, Blocks
<1>4. CASE speech
  BY <1>1, <1>2, <1>3, <1>4, GateAssumption DEF Process, Hear, Speaking, TypeOK
<1>5. CASE ~speech
  BY <1>1, <1>2, <1>3, <1>5, GateAssumption DEF Process, Hear, Speaking, TypeOK
<1> QED
  BY <1>4, <1>5

LEMMA StartTurnFresh ==
    ASSUME TypeOK, HangoverInv, NEW speech \in BOOLEAN, Process(speech), StartTurn,
           recognized' = recognized
    PROVE  (\A i \in 1 .. Len(fed') : fed'[i] <= now') /\ UtteranceInv'
<1>1. /\ fed' = preroll' /\ utterance' = preroll' /\ opened' = now'
      /\ now' = now + 1 /\ now \in Nat
      /\ fed' \in Seq(Blocks) /\ Len(fed') \in 1 .. Preroll /\ fed'[Len(fed')] = now'
  BY ProcessKeeps DEF StartTurn, TypeOK
<1>2. \A i \in 1 .. Len(fed') : fed'[i] = now' - Len(fed') + i
  BY <1>1, ProcessHears
<1>3. ToSet(fed') \cap recognized' = {}
  <2> SUFFICES ASSUME NEW i \in 1 .. Len(fed'), fed'[i] \in recognized PROVE FALSE
    BY <1>1 DEF ToSet
  <2>1. fed'[i] <= now - Hangover
    BY DEF HangoverInv
  <2> QED
    BY <1>1, <1>2, <2>1, GateAssumption
<1>4. ASSUME NEW b \in voiced', b >= opened'
      PROVE  b \in ToSet(fed')
  <2>1. b \in Int /\ b <= now' /\ now' \in voiced' \cup {now'}
    BY ProcessHears, ProcessKeeps DEF Blocks
  <2>2. b = now'
    BY <1>1, <1>4, <2>1
  <2> QED
    BY <1>1, <2>2 DEF ToSet
<1>5. \A i, j \in 1 .. Len(fed') : i < j => fed'[i] < fed'[j]
  BY <1>1, <1>2
<1> QED
  BY <1>1, <1>2, <1>3, <1>4, <1>5 DEF UtteranceInv, NoSpeechTwice, NoSpeechLost

LEMMA RecordFollows ==
    ASSUME TypeOK, HangoverInv, UtteranceInv, Open, NEW speech \in BOOLEAN, Process(speech), Record
    PROVE  /\ \A i \in 1 .. Len(fed') : fed'[i] <= now'
           /\ ToSet(fed') \cap recognized = {}
           /\ recognized' = recognized => UtteranceInv'
<1>1. /\ fed' = Append(fed, now') /\ opened' = opened
      /\ utterance' = Pushed(utterance, now', Window)
      /\ now' = now + 1 /\ now \in Nat /\ now' \in Blocks
      /\ fed \in Seq(Blocks) /\ utterance \in Seq(Blocks)
  BY ProcessKeeps DEF Record, TypeOK
<1>2. /\ fed' \in Seq(Blocks) /\ Len(fed') = Len(fed) + 1 /\ Len(fed) \in Nat
      /\ fed'[Len(fed')] = now' /\ \A i \in 1 .. Len(fed) : fed'[i] = fed[i] /\ fed[i] \in Int
  <2>1. \A i \in 1 .. Len(fed) : fed[i] \in Blocks
    BY <1>1
  <2>2. \A i \in 1 .. Len(fed) : fed[i] \in Int
    BY <2>1 DEF Blocks
  <2> QED
    BY <1>1, <2>2
<1>3. \A i \in 1 .. Len(fed') : i \in 1 .. Len(fed) \/ i = Len(fed')
  BY <1>2
<1>4. \A i \in 1 .. Len(fed) : fed[i] <= now
  BY DEF HangoverInv
<1>5. ToSet(fed') = ToSet(fed) \cup {now'}
  BY <1>2, <1>3 DEF ToSet
<1>6. \A i \in 1 .. Len(fed') : fed'[i] <= now'
  BY <1>1, <1>2, <1>3, <1>4
<1>7. ToSet(fed') \cap recognized = {}
  <2>1. now' \notin recognized
    BY <1>1, GateAssumption DEF HangoverInv
  <2> QED
    BY <1>5, <2>1 DEF UtteranceInv, NoSpeechTwice
<1>8. ASSUME NEW b \in voiced', b >= opened'
      PROVE  b \in ToSet(fed')
  <2>1. b \in voiced \/ b = now'
    BY ProcessHears
  <2> QED
    BY <1>1, <1>5, <1>8, <2>1 DEF UtteranceInv, NoSpeechLost
<1>9. ASSUME NEW i \in 1 .. Len(fed'), NEW j \in 1 .. Len(fed'), i < j
      PROVE  fed'[i] < fed'[j]
  <2>1. i \in 1 .. Len(fed)
    BY <1>2, <1>9
  <2>2. CASE j \in 1 .. Len(fed)
    BY <1>2, <1>9, <2>1, <2>2 DEF UtteranceInv
  <2>3. CASE j = Len(fed')
    BY <1>1, <1>2, <1>4, <2>1, <2>3
  <2> QED
    BY <1>3, <2>2, <2>3
<1>10. /\ Len(utterance') <= Len(fed')
       /\ \A i \in 1 .. Len(utterance') : utterance'[i] = fed'[Len(fed') - Len(utterance') + i]
       /\ Len(utterance') = Window \/ utterance' = fed'
  <2>1. Window \in Nat \ {0} /\ Len(utterance) <= Window /\ Len(utterance) \in Nat
        /\ Len(utterance) <= Len(fed)
        /\ \A i \in 1 .. Len(utterance) : utterance[i] = fed[Len(fed) - Len(utterance) + i]
    BY <1>1, GateAssumption, WindowAssumption DEF TypeOK, UtteranceInv
  <2>2. CASE Len(utterance) < Window
    <3>1. utterance = fed /\ utterance' = fed'
      BY <1>1, <2>1, <2>2 DEF Pushed, UtteranceInv
    <3> QED
      BY <1>2, <3>1
  <2>3. CASE ~(Len(utterance) < Window)
    <3>1. /\ Len(utterance') = Window /\ Len(utterance) = Window /\ utterance'[Window] = now'
          /\ \A i \in 1 .. Window - 1 : utterance'[i] = utterance[i + 1]
      <4>1. Len(utterance) = Window /\ Len(utterance) > 0
            /\ utterance' = Append(Tail(utterance), now')
        BY <1>1, <2>1, <2>3 DEF Pushed
      <4>2. /\ Len(utterance') = Len(utterance) /\ utterance'[Len(utterance)] = now'
            /\ \A i \in 1 .. Len(utterance) - 1 : utterance'[i] = utterance[i + 1]
        <5>1. utterance \in Seq(Blocks) /\ now' \in Blocks
          BY <1>1
        <5> QED
          BY <4>1, <5>1, PushedFull
      <4> QED
        BY <4>1, <4>2
    <3>2. ASSUME NEW i \in 1 .. Window
          PROVE  utterance'[i] = fed'[Len(fed') - Window + i]
      <4>1. CASE i = Window
        BY <1>2, <2>1, <3>1, <4>1
      <4>2. CASE i # Window
        <5>1. i \in 1 .. Window - 1
          BY <2>1, <4>2
        <5>3. utterance'[i] = utterance[i + 1] /\ i + 1 \in 1 .. Len(utterance)
          BY <2>1, <3>1, <5>1
        <5>4. utterance'[i] = fed[Len(fed) - Window + (i + 1)]
          BY <2>1, <3>1, <5>3
        <5>5. Len(fed) - Window + (i + 1) = Len(fed') - Window + i
              /\ Len(fed') - Window + i \in 1 .. Len(fed)
          BY <1>2, <2>1, <3>1, <5>3
        <5> QED
          BY <1>2, <5>4, <5>5
      <4> QED
        BY <4>1, <4>2
    <3> QED
      BY <1>2, <2>1, <3>1, <3>2
  <2> QED
    BY <2>2, <2>3
<1> QED
  BY <1>6, <1>7, <1>8, <1>9, <1>10 DEF UtteranceInv, NoSpeechTwice, NoSpeechLost

\* One step, by what it does to the audio.
LEMMA UtteranceStep ==
    ASSUME TypeOK, HangoverInv, UtteranceInv, [Next]_vars
    PROVE  HangoverInv' /\ UtteranceInv'
<1>1. CASE UNCHANGED vars
  BY <1>1 DEF vars, HangoverInv, UtteranceInv, NoSpeechTwice, NoSpeechLost, Open
<1>2. CASE Next
  <2> PICK speech \in BOOLEAN :
        \/ AssistantQuiet(speech) \/ AssistantBargeIn(speech)
        \/ UserSilent(speech) \/ UserStarts(speech) \/ UserContinues(speech)
        \/ UserPauses(speech) \/ UserFinishes(speech)
    BY <1>2 DEF Next
  <2>1. Process(speech)
    BY DEF AssistantQuiet, AssistantBargeIn, UserSilent, UserStarts, UserContinues, UserPauses,
       UserFinishes
  <2>2. now' = now + 1 /\ now \in Nat /\ now' \in Blocks
    BY <2>1, ProcessKeeps DEF TypeOK
  <2>3. /\ \A i \in 1 .. Len(preroll') : preroll'[i] = now' - Len(preroll') + i
        /\ \A b \in voiced' : b <= now' - sinceSpeech'
    BY <2>1, ProcessHears
  <2>4. \A b \in recognized : b <= now' - Hangover
    <3>1. \A b \in recognized : b \in Int /\ b <= now - Hangover
      BY DEF HangoverInv, TypeOK, Blocks
    <3> QED
      BY <2>2, <3>1, GateAssumption
  <2>5. CASE AssistantQuiet(speech)
    BY <2>3, <2>4, <2>5 DEF AssistantQuiet, HangoverInv, UtteranceInv, NoSpeechTwice, NoSpeechLost,
       Open
  <2>6. CASE UserSilent(speech)
    <3>1. LeaveAudio /\ turnState' = turnState /\ recognized' = recognized /\ ~Speaking
      BY <2>6 DEF UserSilent
    <3>2. voiced' = voiced
      BY <2>1, <3>1, ProcessHears
    <3>3. Open => \A i \in 1 .. Len(fed') : fed'[i] <= now'
      <4>1. Open => \A i \in 1 .. Len(fed) : fed[i] \in Int /\ fed[i] <= now
        <5>1. \A i \in 1 .. Len(fed) : fed[i] \in Blocks
          BY DEF TypeOK
        <5> QED
          BY <5>1 DEF HangoverInv, Blocks
      <4> QED
        BY <2>2, <3>1, <4>1 DEF LeaveAudio
    <3> QED
      BY <2>3, <2>4, <3>1, <3>2, <3>3 DEF LeaveAudio, HangoverInv, UtteranceInv, NoSpeechTwice,
         NoSpeechLost, Open
  <2>7. CASE AssistantBargeIn(speech) \/ UserStarts(speech)
    <3>1. StartTurn /\ recognized' = recognized
      BY <2>7 DEF AssistantBargeIn, UserStarts
    <3> QED
      BY <2>1, <2>3, <2>4, <3>1, StartTurnFresh DEF HangoverInv
  <2>8. CASE UserContinues(speech) \/ UserPauses(speech)
    <3>1. Record /\ Open /\ recognized' = recognized
      BY <2>8 DEF UserContinues, UserPauses, Open
    <3> QED
      BY <2>1, <2>3, <2>4, <3>1, RecordFollows DEF HangoverInv
  <2>9. CASE UserFinishes(speech)
    <3>1. Record /\ Open /\ turnState' = "idle" /\ ~Speaking
          /\ recognized' = recognized \cup (ToSet(fed') \cap voiced')
      BY <2>9 DEF UserFinishes, Open
    <3>2. \A b \in voiced' : b <= now' - Hangover
      BY <2>1, <2>3, <3>1, ProcessHears
    <3> QED
      BY <2>3, <2>4, <3>1, <3>2 DEF HangoverInv, UtteranceInv, NoSpeechTwice, NoSpeechLost, Open
  <2> QED
    BY <2>5, <2>6, <2>7, <2>8, <2>9
<1> QED
  BY <1>1, <1>2

LEMMA UtteranceInit == Init => HangoverInv /\ UtteranceInv
  BY DEF Init, HangoverInv, UtteranceInv, NoSpeechTwice, NoSpeechLost, Open

LEMMA Utterances == Spec => [](TypeOK /\ HangoverInv /\ UtteranceInv)
<1> QED
  BY TypeInit, TypeStep, UtteranceInit, UtteranceStep, PTL DEF Spec

\* No speech is recognized twice.
THEOREM SpokenOnce == Spec => []NoSpeechTwice
<1>1. UtteranceInv => NoSpeechTwice
  BY DEF UtteranceInv
<1> QED
  BY <1>1, Utterances, PTL

\* No speech is lost.
THEOREM SpokenHeard == Spec => []NoSpeechLost
<1>1. UtteranceInv => NoSpeechLost
  BY DEF UtteranceInv
<1> QED
  BY <1>1, Utterances, PTL

LEMMA TailIsSuffix ==
    ASSUME NEW S, NEW s \in Seq(S), NEW t \in Seq(S), Len(s) <= Len(t),
           \A i \in 1 .. Len(s) : s[i] = t[Len(t) - Len(s) + i]
    PROVE  IsSuffix(s, t)
<1> DEFINE r == Reverse(s)
           u == Reverse(t)
<1>1. /\ r \in Seq(S) /\ Len(r) = Len(s) /\ \A i \in 1 .. Len(s) : r[i] = s[Len(s) - i + 1]
      /\ u \in Seq(S) /\ Len(u) = Len(t) /\ \A i \in 1 .. Len(t) : u[i] = t[Len(t) - i + 1]
  BY DEF Reverse
<1>2. ASSUME NEW i \in 1 .. Len(s) PROVE r[i] = u[i]
  <2>1. Len(s) - i + 1 \in 1 .. Len(s) /\ i \in 1 .. Len(t) /\ Len(s) \in Nat /\ Len(t) \in Nat
    OBVIOUS
  <2>2. s[Len(s) - i + 1] = t[Len(t) - Len(s) + (Len(s) - i + 1)]
    BY <2>1
  <2>3. Len(t) - Len(s) + (Len(s) - i + 1) = Len(t) - i + 1
    BY <2>1
  <2> HIDE DEF r, u
  <2> QED
    BY <1>1, <2>1, <2>2, <2>3
<1> HIDE DEF r, u
<1>3. SubSeq(r, 1, Len(r)) = SubSeq(u, 1, Len(r))
  BY <1>1, <1>2
<1> QED
  BY <1>1, <1>3 DEF IsSuffix, IsPrefix, r, u

\* What is judged is the end of what is recognized, in the order it was spoken.
THEOREM WindowIsTail == Spec => []JudgedAsHeard
<1>1. TypeOK /\ UtteranceInv => JudgedAsHeard
  BY TailIsSuffix DEF TypeOK, UtteranceInv, JudgedAsHeard
<1> QED
  BY <1>1, Utterances, PTL
=============================================================================
