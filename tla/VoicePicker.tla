---------------------------- MODULE VoicePicker ----------------------------
(***************************************************************************)
(* VoicePickerApp of scripts/pick_voice.py: a terminal application that    *)
(* auditions one voice of a playlist at a time through /say.               *)
(*                                                                         *)
(* The application handles one message at a time: a key, a pressed radio   *)
(* button, the end of a worker.  Between a worker's end and its delivery,  *)
(* or between a radio button and its messages, any key may be handled. The *)
(* audio callback takes frames from whichever queue is installed.          *)
(*                                                                         *)
(* Workers are objects; a number stands for one until nobody refers to it. *)
(***************************************************************************)
EXTENDS Naturals, FiniteSets, Sequences, SequencesExt

CONSTANTS Voices,        \* the voice ids of the repository
          Playlists,     \* voice_sets: the ids of each radio button, in order
          Keepers,       \* the voices whose favorite star is ever pressed (bound)
          MaxFrames,     \* bound: frames of one phrase
          MaxWorkers,    \* bound: workers referred to at once
          MaxChanges,    \* bound: radio messages under way, to the RadioSet or from it
          AudioMayFail   \* whether opening the audio device may fail

VoiceSets == {"all", "english", "expresso"}

\* english and expresso filter all; the repository has voices of both.
ASSUME PlaylistsAssumption ==
    /\ Playlists \in [VoiceSets -> Seq(Voices)]
    /\ \A s \in VoiceSets :
          /\ Playlists[s] # <<>>
          /\ ToSet(Playlists[s]) \subseteq ToSet(Playlists["all"])

ASSUME WorkersAssumption == MaxWorkers \in Nat

VARIABLES load,        \* _load_voices: "loading", "loaded" or "failed"
          radio,       \* the pressed radio button, as the RadioSet has it
          presses,     \* buttons turned on that the RadioSet has not handled yet
          changes,     \* RadioSet.Changed messages not handled yet
          activeSet, index,
          auto, remaining,
          stream,      \* _audio_stream is open
          live,        \* _playback_worker, or 0
          work,        \* the live worker: "none", "stream", "drain" or "ended"
          cancelled,   \* superseded workers that have not seen their cancellation
          ends,        \* worker events not handled yet
          audio,       \* _audio_queue: whose it is, what it speaks, its frames
          synthesized, \* frames of the live worker's phrase so far (bounds the model)
          favorites,
          file,        \* favorite-voices.yaml: the one set it parses to, or none (Torn)
          aired,       \* ghost: voices whose phrase ended since auto came on or went off
          early        \* ghost: a radio message was ignored, the voices not being there

Files == {{saved} : saved \in SUBSET Keepers}
Torn  == {}
listVars  == <<load, radio, presses, changes, activeSet, index>>
autoVars  == <<auto, remaining, aired>>
playVars  == <<stream, live, work, cancelled, ends, audio, synthesized>>
starVars  == <<favorites, file>>
vars == <<listVars, autoVars, playVars, starVars, early>>

Workers == 1 .. MaxWorkers
Silence == [of |-> 0, voice |-> "none", frames |-> 0]

voices        == IF load = "loaded" THEN Playlists[activeSet] ELSE <<>>
Positions(s)  == 0 .. Len(Playlists[s]) - 1
VoiceAt(s, i) == Playlists[s][i + 1]
current_voice == VoiceAt(activeSet, index)

\* _load_favorites: a file that does not parse gives none.
Parsed(content) == UNION content

Init ==
    /\ load = "loading" /\ activeSet = "all" /\ index = 0
    /\ radio = "all" /\ presses = <<>> /\ changes = <<>>
    /\ auto = FALSE /\ remaining = 0 /\ aired = {}
    /\ stream = FALSE /\ live = 0 /\ work = "none" /\ cancelled = {} /\ ends = <<>>
    /\ audio = Silence /\ synthesized = 0
    /\ file \in Files \cup {Torn}
    /\ favorites = Parsed(file)
    /\ early = FALSE

-----------------------------------------------------------------------------
\* The voices arrive, or cannot be listed; nobody asks for them again.

LoadVoices ==
    /\ load = "loading"
    /\ load' = "loaded"
    /\ activeSet' = "all"
    /\ index' = 0
    /\ UNCHANGED <<radio, presses, changes, autoVars, playVars, starVars, early>>

LoadFails ==
    /\ load = "loading"
    /\ load' = "failed"
    /\ UNCHANGED <<radio, presses, changes, activeSet, index, autoVars, playVars, starVars, early>>

-----------------------------------------------------------------------------
\* _start_playback for the voice now shown: a new queue, then an exclusive
\* worker, which cancels the one before it.

InUse  == {live} \cup cancelled \cup {ends[i].worker : i \in DOMAIN ends}
Fresh  == CHOOSE w \in Workers : w \notin InUse

\* Bound: what starts a worker leaves one for auto mode to go on with.
Room == Cardinality(Workers \ InUse) > 1

\* exclusive=True cancels a worker that has not ended.
Superseded == IF work \in {"stream", "drain"} THEN cancelled \cup {live} ELSE cancelled

AudioError ==
    /\ AudioMayFail /\ ~stream
    /\ UNCHANGED playVars

Play ==
    /\ Workers \ InUse # {}
    /\ stream' = TRUE
    /\ live' = Fresh /\ work' = "stream" /\ synthesized' = 0
    /\ cancelled' = Superseded
    /\ audio' = [of |-> Fresh, voice |-> VoiceAt(activeSet', index'), frames |-> 0]
    /\ UNCHANGED ends

StartPlayback == AudioError \/ Play

-----------------------------------------------------------------------------
\* Keys.  Before the voices are there they do nothing.

AutoOff == auto' = FALSE /\ remaining' = 0 /\ aired' = {}

\* A key that is handled now.
Key ==
    /\ load = "loaded"
    /\ Room
    /\ UNCHANGED <<load, presses, changes, activeSet, starVars, early>>

\* action_previous_voice is a move by one less than the length.
Move(delta) ==
    /\ Key
    /\ index' = (index + delta) % Len(voices)
    /\ AutoOff
    /\ StartPlayback
    /\ UNCHANGED radio

Replay ==
    /\ Key
    /\ AutoOff
    /\ UNCHANGED <<radio, index>>
    /\ StartPlayback

\* The phrase that is playing goes on.
AutoModeOff ==
    /\ Key
    /\ auto
    /\ AutoOff
    /\ UNCHANGED <<radio, index, playVars>>

AutoModeOn ==
    /\ Key
    /\ ~auto
    /\ auto' = TRUE /\ remaining' = Len(voices) /\ aired' = {}
    /\ UNCHANGED <<radio, index>>
    /\ StartPlayback

Toggled == (favorites \ {current_voice}) \cup ({current_voice} \ favorites)

\* The file is written before the star is changed; a write that fails leaves
\* the file as it was, or cut off.
ToggleFavorite ==
    /\ load = "loaded"
    /\ current_voice \in Keepers
    /\ \/ file' = {Toggled} /\ favorites' = Toggled
       \/ file' \in {file, Torn} /\ UNCHANGED favorites
    /\ UNCHANGED <<listVars, autoVars, playVars, early>>

-----------------------------------------------------------------------------
\* The radio buttons.  A button that is on sends nothing when it is pressed; it
\* is turned off when the RadioSet handles the message of the next.

On == {radio} \cup ToSet(presses)

Press(s) ==
    /\ s \notin On
    /\ Len(presses) + Len(changes) < MaxChanges
    /\ presses' = Append(presses, s)
    /\ UNCHANGED <<load, radio, changes, activeSet, index, autoVars, playVars, starVars, early>>

TurnRadio ==
    /\ presses # <<>>
    /\ presses' = Tail(presses)
    /\ radio' = Head(presses)
    /\ changes' = Append(changes, Head(presses))
    /\ UNCHANGED <<load, activeSet, index, autoVars, playVars, starVars, early>>

Pressed ==
    /\ changes # <<>>
    /\ Room
    /\ changes' = Tail(changes)
    /\ UNCHANGED <<load, radio, presses, starVars>>

RadioIgnored ==                 \* no voices yet
    /\ load # "loaded"
    /\ Pressed
    /\ early' = TRUE
    /\ UNCHANGED <<activeSet, index, autoVars, playVars>>

\* The voice shown is kept if the new set has it.
RadioSetChanged_ByIndex ==      \* mutant: the position is compared, not the voice
    /\ load = "loaded"
    /\ Pressed
    /\ activeSet' = Head(changes)
    /\ index' = IF index < Len(Playlists[activeSet']) THEN index ELSE 0
    /\ AutoOff
    /\ early' = FALSE
    /\ IF index' = index THEN UNCHANGED playVars ELSE StartPlayback

RadioSetChanged_OnlyMoves ==    \* mutant: returns before the set is changed if the voice stays
    /\ load = "loaded"
    /\ Pressed
    /\ AutoOff
    /\ early' = FALSE
    /\ \/ /\ current_voice \in ToSet(Playlists[Head(changes)])
          /\ UNCHANGED <<activeSet, index, playVars>>
       \/ /\ current_voice \notin ToSet(Playlists[Head(changes)])
          /\ activeSet' = Head(changes)
          /\ index' = 0
          /\ StartPlayback

RadioSetChanged ==
    /\ load = "loaded"
    /\ Pressed
    /\ activeSet' = Head(changes)
    /\ AutoOff
    /\ early' = FALSE
    /\ \/ /\ index' \in {i \in Positions(activeSet') : VoiceAt(activeSet', i) = current_voice}
          /\ UNCHANGED playVars
       \/ /\ current_voice \notin ToSet(Playlists[activeSet'])
          /\ index' = 0
          /\ StartPlayback

-----------------------------------------------------------------------------
\* The live worker: _play against /say.

WorkerGoes(from, to) ==
    /\ work = from
    /\ work' = to
    /\ UNCHANGED <<listVars, auto, remaining, stream, live, cancelled, starVars, early>>

ReceiveFrame ==
    /\ WorkerGoes("stream", "stream")
    /\ synthesized < MaxFrames
    /\ synthesized' = synthesized + 1
    /\ audio' = [audio EXCEPT !.frames = @ + 1]
    /\ UNCHANGED <<ends, aired>>

\* The server closed the socket after the last frame.
StreamEnds == WorkerGoes("stream", "drain") /\ UNCHANGED <<ends, audio, synthesized, aired>>

Ended(state) == ends' = Append(ends, [worker |-> live, state |-> state])

\* No connection, a close with an error, a message that is not a frame.
StreamFails == WorkerGoes("stream", "ended") /\ Ended("error") /\ UNCHANGED <<audio, synthesized, aired>>

Drained ==
    /\ audio.frames = 0
    /\ WorkerGoes("drain", "ended")
    /\ Ended("success")
    /\ aired' = aired \cup {audio.voice}
    /\ UNCHANGED <<audio, synthesized>>

LiveWorker == ReceiveFrame \/ StreamEnds \/ StreamFails \/ Drained

\* A superseded worker sees its cancellation; a newer queue is not its own.
Cancel_FlushesAny(w) ==         \* mutant: whichever queue is installed is flushed
    /\ w \in cancelled
    /\ cancelled' = cancelled \ {w}
    /\ ends' = Append(ends, [worker |-> w, state |-> "cancelled"])
    /\ audio' = Silence
    /\ UNCHANGED <<listVars, autoVars, stream, live, work, synthesized, starVars, early>>

Cancel(w) ==
    /\ w \in cancelled
    /\ cancelled' = cancelled \ {w}
    /\ ends' = Append(ends, [worker |-> w, state |-> "cancelled"])
    /\ audio' = IF audio.of = w THEN Silence ELSE audio
    /\ UNCHANGED <<listVars, autoVars, stream, live, work, synthesized, starVars, early>>

\* The audio callback, every 80 ms.
PlayAudio ==
    /\ audio.frames > 0
    /\ audio' = [audio EXCEPT !.frames = @ - 1]
    /\ UNCHANGED <<listVars, autoVars, stream, live, work, cancelled, ends, synthesized,
                   starVars, early>>

-----------------------------------------------------------------------------
\* on_worker_state_changed.

FromLive_AnyWorker == TRUE      \* mutant: the events of any worker of the group count

FromLive == Head(ends).worker = live

Delivered(state) ==
    /\ ends # <<>>
    /\ Head(ends).state = state
    /\ FromLive
    /\ ends' = Tail(ends)
    /\ UNCHANGED <<load, radio, presses, changes, activeSet, starVars, early>>

WorkerIgnored ==
    /\ ends # <<>>
    /\ ~FromLive \/ Head(ends).state = "cancelled"
    /\ ends' = Tail(ends)
    /\ UNCHANGED <<listVars, autoVars, stream, live, work, cancelled, audio, synthesized,
                   starVars, early>>

WorkerFailed_KeepsAuto ==       \* mutant: an error leaves auto mode on
    /\ Delivered("error")
    /\ audio' = Silence
    /\ UNCHANGED <<index, autoVars, stream, live, work, cancelled, synthesized>>

WorkerFailed ==
    /\ Delivered("error")
    /\ AutoOff
    /\ audio' = Silence
    /\ UNCHANGED <<index, stream, live, work, cancelled, synthesized>>

WorkerIdle ==
    /\ Delivered("success")
    /\ ~auto
    /\ UNCHANGED <<index, autoVars, stream, live, work, cancelled, audio, synthesized>>

AutoComplete ==
    /\ Delivered("success")
    /\ auto /\ remaining <= 1
    /\ auto' = FALSE /\ remaining' = remaining - 1
    /\ UNCHANGED <<index, aired, stream, live, work, cancelled, audio, synthesized>>

AutoAdvance ==
    /\ auto /\ remaining > 1
    /\ ends # <<>> /\ Head(ends).state = "success" /\ FromLive
    /\ Workers \ InUse # {}
    /\ remaining' = remaining - 1
    /\ index' = (index + 1) % Len(voices)
    /\ live' = Fresh /\ work' = "stream" /\ synthesized' = 0
    /\ cancelled' = Superseded
    /\ audio' = [of |-> Fresh, voice |-> VoiceAt(activeSet, index'), frames |-> 0]
    /\ ends' = Tail(ends)
    /\ UNCHANGED <<load, radio, presses, changes, activeSet, auto, aired, stream, starVars, early>>

Deliver == WorkerIgnored \/ WorkerFailed \/ WorkerIdle \/ AutoComplete \/ AutoAdvance

User ==
    \/ \E delta \in {1, Len(voices) - 1} : Move(delta)
    \/ Replay \/ AutoModeOff \/ AutoModeOn \/ ToggleFavorite
    \/ \E s \in VoiceSets : Press(s)

Next ==
    \/ LoadVoices \/ LoadFails
    \/ User
    \/ TurnRadio \/ RadioIgnored \/ RadioSetChanged
    \/ LiveWorker \/ (\E w \in Workers : Cancel(w))
    \/ PlayAudio
    \/ Deliver

Spec == Init /\ [][Next]_vars

\* Messages are handled, tasks run, the callback is called, and a phrase ends.
Fairness ==
    /\ WF_vars(Deliver)
    /\ WF_vars(StreamEnds \/ StreamFails) /\ WF_vars(Drained)
    /\ WF_vars(PlayAudio)

FairSpec == Spec /\ Fairness

-----------------------------------------------------------------------------

\* What is heard is the voice on the screen, whatever keys and radio buttons
\* came since: on_radio_set_changed goes on with the phrase that is playing
\* only if its voice is the one it shows.
HeardIsShown == audio.frames > 0 => audio.voice = current_voice

\* The queue that a worker fills is the installed one while it is the live
\* worker: a superseded worker that sees its cancellation late has not flushed
\* the queue of the newer one (comment in _play).
NewerQueueKept == work \in {"stream", "drain"} => audio.of = live

\* The screen tells the truth.  Once no radio message is under way the list is
\* the one of the pressed button, unless a message came before the voices did
\* (on_radio_set_changed drops it); and the favorites are those in the file,
\* after a write that fails too, unless the file was cut short.
ScreenAgrees ==
    /\ load = "loaded" /\ changes = <<>> /\ ~early => radio = activeSet
    /\ file # Torn => favorites = Parsed(file)

\* Auto mode is complete only when a phrase of every voice of the list has been
\* played to its end: late events of superseded workers are not counted.
AuditionIsWhole ==
    [][auto /\ ~auto' /\ ends # <<>> /\ ends' = Tail(ends) /\ Head(ends).state = "success"
           => aired = ToSet(voices)]_vars

\* Auto mode with an open audio device ends: every phrase ends or fails, and
\* nobody is left to be waited for.
AutoEnds == auto /\ stream ~> ~auto
=============================================================================
