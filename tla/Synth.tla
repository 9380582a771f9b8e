------------------------------- MODULE Synth -------------------------------
(***************************************************************************)
(* The Synth of src/sleeper/tts.py: the one streaming generator, the voice *)
(* it was built for, and the destination it speaks to.  Only the TTS       *)
(* worker touches it.                                                      *)
(*                                                                         *)
(* The generator is a pipeline of units, one per script entry, each with   *)
(* the utterance it belongs to; an entry leaves the pipeline as one frame  *)
(* of audio.  The model's lookahead and acoustic delay are that an entry   *)
(* stays in the pipeline until Ahead more follow it, or until a drain.     *)
(***************************************************************************)
EXTENDS Naturals, Sequences

CONSTANTS None,             \* Python's None
          Voices,           \* the voice names in use
          DefaultVoice,     \* DEFAULT_VOICE
          Ahead,            \* second_stream_ahead, in units
          RebuildMayFail    \* whether building an LMGen for a voice may raise

ASSUME VoicesAssumption == DefaultVoice \in Voices /\ None \notin Voices
ASSUME AheadAssumption  == Ahead \in Nat
ASSUME RebuildAssumption == RebuildMayFail \in BOOLEAN

VARIABLES voice,               \* the voice lm_gen was built for, or None: no lm_gen
          cache,               \* the voices of _attrs_cache
          pipeline,            \* units entered and not yet heard
          target,              \* the socket spoken to, or None
          conversationAudio,
          conversationVoice,   \* the voice the next turn opens with
          turnOpen,
          turnFailed

synthVars == <<voice, cache, pipeline, target, conversationAudio, conversationVoice,
               turnOpen, turnFailed>>
turnFlags == <<target, conversationAudio, turnOpen, turnFailed>>

\* After warmup: the default voice is built and nothing is being spoken.
SynthInit ==
    /\ voice = DefaultVoice
    /\ cache = {DefaultVoice}
    /\ pipeline = <<>>
    /\ target = None
    /\ conversationAudio = FALSE
    /\ conversationVoice = DefaultVoice
    /\ turnOpen = FALSE
    /\ turnFailed = FALSE

-----------------------------------------------------------------------------
\* set_voice, then speak: a new voice starts a new script.

SpeakIn(v, units) ==
    /\ voice' = v
    /\ cache' = cache \cup {v}
    /\ pipeline' = IF v = voice THEN pipeline \o units ELSE units

\* _attrs raises before anything is torn down.
LookupFails(v) ==
    /\ v # voice
    /\ v \notin cache
    /\ UNCHANGED <<voice, cache>>

\* LMGen raises after the old generator was torn down.
RebuildFails(v) ==
    /\ RebuildMayFail
    /\ v # voice
    /\ voice' = None
    /\ cache' = cache \cup {v}
    /\ pipeline' = <<>>

\* _reset_sequence, which asserts that there is a generator.
CanReset == voice # None

SelectVoice_Unvalidated(v) ==   \* mutant: any name is accepted
    /\ UNCHANGED cache
    /\ conversationVoice' = v

SelectVoice(v) ==
    /\ cache' = cache \cup {v}
    /\ conversationVoice' = v

\* _close_turn's finally.
ForgetTurn ==
    /\ target' = None
    /\ turnOpen' = FALSE
    /\ turnFailed' = FALSE
    /\ UNCHANGED conversationAudio

\* _abandon_turn: reset if the generator can be, then drop the destination.
AbandonTurn_KeepOpen ==         \* mutant: the next word is not refused
    /\ target' = None
    /\ turnOpen' = FALSE
    /\ turnFailed' = FALSE
    /\ UNCHANGED conversationAudio

AbandonTurn ==
    /\ target' = None
    /\ turnOpen' = FALSE
    /\ turnFailed' = TRUE
    /\ UNCHANGED conversationAudio
=============================================================================
