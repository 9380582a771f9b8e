------------------------------ MODULE VoiceInput ------------------------------
(***************************************************************************)
(* VoiceInputProcessor of src/sleeper/asr.py with its SpeechGate and the   *)
(* buffering of StreamingASR: which microphone blocks are recognized as    *)
(* part of which utterance.                                                *)
(*                                                                         *)
(* A block is the number it arrived under.  Whether it holds speech,       *)
(* whether the assistant is speaking meanwhile, whether that speech is an  *)
(* attempt to interrupt and whether an utterance is over are choices.      *)
(***************************************************************************)
EXTENDS Integers, Sequences, SequencesExt

CONSTANTS Hangover,     \* SpeechGate.hangover_frames: 8
          Preroll,      \* maxlen of the preroll: 9 blocks
          Window,       \* maxlen of the utterance: 250 blocks
          BlockSamples, \* VAD_FRAME_SAMPLES: 512
          Hop,          \* StreamingASR.HOP: 160
          Shift,        \* shift_frames: 16
          HalfWindow,   \* half of the preprocessor's STFT window, in samples
          MaxBlocks     \* bound: blocks of the run

ASSUME GateAssumption   == Hangover \in Nat \ {0} /\ Preroll \in 1 .. Hangover + 1
ASSUME WindowAssumption == Window \in Nat /\ Preroll <= Window
ASSUME MelAssumption ==
    /\ Hop \in Nat \ {0} /\ Shift \in Nat \ {0} /\ HalfWindow \in 0 .. 2 * Hop
    /\ BlockSamples \in Nat /\ Hop <= BlockSamples
ASSUME BoundAssumption  == MaxBlocks \in Nat

VARIABLES now,          \* the block just processed
          sinceSpeech,  \* _since_speech; Hangover stands for that or more
          preroll,      \* the deque of the last blocks
          turnState,    \* turn_state
          utterance,    \* the deque that Smart Turn judges
          fed,          \* the blocks of StreamingASR._audio
          melEmitted,   \* _emitted: mel frames the encoder has consumed
          voiced,       \* ghost: the VAD-positive blocks
          opened,       \* ghost: the block that opened the utterance
          recognized    \* ghost: the voiced blocks of the utterances finished so far

vars == <<now, sinceSpeech, preroll, turnState, utterance, fed, melEmitted,
          voiced, opened, recognized>>

Blocks == 1 .. MaxBlocks

TypeOK ==
    /\ now \in 0 .. MaxBlocks
    /\ sinceSpeech \in 0 .. Hangover
    /\ preroll \in Seq(Blocks) /\ Len(preroll) <= Preroll
    /\ turnState \in {"idle", "recording", "awaiting"}
    /\ utterance \in Seq(Blocks) /\ Len(utterance) <= Window
    /\ fed \in Seq(Blocks)
    /\ melEmitted \in Nat
    /\ voiced \subseteq Blocks
    /\ opened \in 0 .. MaxBlocks
    /\ recognized \subseteq Blocks

Init ==
    /\ now = 0
    /\ sinceSpeech = Hangover
    /\ preroll = <<>>
    /\ turnState = "idle"
    /\ utterance = <<>>
    /\ fed = <<>>
    /\ melEmitted = 0
    /\ voiced = {}
    /\ opened = 0
    /\ recognized = {}

-----------------------------------------------------------------------------
\* A deque with a maxlen, appended to.
Pushed(deque, block, maxlen) ==
    IF Len(deque) < maxlen THEN Append(deque, block) ELSE Append(Tail(deque), block)

Remember_OneMore ==             \* mutant: the preroll is a block too long
    preroll' = Pushed(preroll, now', Preroll + 1)

Remember == preroll' = Pushed(preroll, now', Preroll)

\* SpeechGate.update on one VAD frame.
Hear(speech) ==
    /\ voiced' = IF speech THEN voiced \cup {now'} ELSE voiced
    /\ sinceSpeech' = IF speech THEN 0
                      ELSE IF sinceSpeech < Hangover THEN sinceSpeech + 1 ELSE Hangover

Speaking == sinceSpeech' < Hangover

\* The steps the encoder takes: Shift frames at a time, as long as one more
\* frame would still fit the audio.
Consumed_ToTheEdge(emitted, samples) ==         \* mutant: the edge frame counts
    emitted + Shift * ((samples \div Hop - emitted) \div Shift)

Consumed(emitted, samples) ==
    emitted + Shift * ((samples \div Hop - emitted - 1) \div Shift)

Samples(blocks) == BlockSamples * Len(blocks)

StartTurn ==
    /\ utterance' = preroll'
    /\ fed' = preroll'
    /\ melEmitted' = Consumed(0, Samples(preroll'))
    /\ turnState' = "recording"
    /\ opened' = now'

Record_AsrOnly ==               \* mutant: Smart Turn hears only how it began
    /\ fed' = Append(fed, now')
    /\ melEmitted' = Consumed(melEmitted, Samples(fed'))
    /\ UNCHANGED <<utterance, opened>>

Record_Unbounded ==             \* mutant: the utterance has no maxlen
    /\ utterance' = Append(utterance, now')
    /\ fed' = Append(fed, now')
    /\ melEmitted' = Consumed(melEmitted, Samples(fed'))
    /\ UNCHANGED opened

Record ==
    /\ utterance' = Pushed(utterance, now', Window)
    /\ fed' = Append(fed, now')
    /\ melEmitted' = Consumed(melEmitted, Samples(fed'))
    /\ UNCHANGED opened

LeaveAudio == UNCHANGED <<utterance, fed, melEmitted, opened>>

-----------------------------------------------------------------------------
\* process, by what becomes of the block.

Process(speech) ==
    /\ now < MaxBlocks
    /\ now' = now + 1
    /\ Remember
    /\ Hear(speech)

AssistantQuiet(speech) ==
    /\ Process(speech)
    /\ turnState' = "idle"
    /\ LeaveAudio
    /\ UNCHANGED recognized

AssistantBargeIn(speech) ==
    /\ Process(speech)
    /\ Speaking
    /\ StartTurn
    /\ UNCHANGED recognized

UserSilent(speech) ==
    /\ Process(speech)
    /\ turnState # "recording" /\ ~Speaking
    /\ LeaveAudio
    /\ UNCHANGED <<turnState, recognized>>

UserStarts(speech) ==
    /\ Process(speech)
    /\ turnState = "idle" /\ Speaking
    /\ StartTurn
    /\ UNCHANGED recognized

UserContinues_ResumeUnheard(speech) ==  \* mutant: the block that ends a pause is not recorded
    /\ Process(speech)
    /\ turnState # "idle" /\ Speaking
    /\ IF turnState = "recording" THEN Record ELSE LeaveAudio
    /\ turnState' = "recording"
    /\ UNCHANGED recognized

UserContinues(speech) ==
    /\ Process(speech)
    /\ turnState # "idle" /\ Speaking
    /\ Record
    /\ turnState' = "recording"
    /\ UNCHANGED recognized

UserPauses(speech) ==
    /\ Process(speech)
    /\ turnState = "recording" /\ ~Speaking
    /\ Record
    /\ turnState' = "awaiting"
    /\ UNCHANGED recognized

\* The endpoint block is recorded, then the ASR is finished on padding.
UserFinishes(speech) ==
    /\ Process(speech)
    /\ turnState = "recording" /\ ~Speaking
    /\ Record
    /\ turnState' = "idle"
    /\ recognized' = recognized \cup (ToSet(fed') \cap voiced')

Next == \E speech \in BOOLEAN :
    \/ AssistantQuiet(speech) \/ AssistantBargeIn(speech)
    \/ UserSilent(speech) \/ UserStarts(speech) \/ UserContinues(speech)
    \/ UserPauses(speech) \/ UserFinishes(speech)

Spec == Init /\ [][Next]_vars

-----------------------------------------------------------------------------
\* Properties of the utterance that is open.

Open == turnState # "idle"

\* No speech is recognized twice: the preroll replayed into a new utterance
\* never reaches back to a voiced block of one that was finished, because the
\* gate's hangover outlasts it (asr.py:235-237, 291-297; interruption.py:91-92).
NoSpeechTwice == Open => ToSet(fed) \cap recognized = {}

\* No speech is lost: every voiced block since the one that opened the
\* utterance is heard by the recognizer, across pauses (asr.py:264-303).
NoSpeechLost == Open => \A b \in voiced : b >= opened => b \in ToSet(fed)

\* Smart Turn judges what the recognizer hears: its window is the tail of the
\* same audio, in the order it was spoken (asr.py:291-301).
JudgedAsHeard ==
    Open => /\ IsSuffix(utterance, fed)
            /\ Len(utterance) = Window \/ utterance = fed
            /\ \A i, j \in 1 .. Len(fed) : i < j => fed[i] < fed[j]

\* "Every frame exact": no mel frame is consumed whose window reaches past the
\* audio received so far (asr.py:49-58, 117-118).
NoEdgeFrame == Open /\ melEmitted > 0 => (melEmitted - 1) * Hop + HalfWindow <= Samples(fed)
===============================================================================
