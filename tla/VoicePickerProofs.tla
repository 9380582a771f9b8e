-------------------------- MODULE VoicePickerProofs --------------------------
(***************************************************************************)
(* Theorems about VoicePicker, for any voices and playlists and however    *)
(* many phrases, workers and messages: what is heard is what is shown, a   *)
(* worker's queue is flushed by nobody else, the buttons, lists and stars  *)
(* on the screen agree, and auto mode completes when all was heard.        *)
(***************************************************************************)
EXTENDS VoicePicker, TLAPS

Events == [worker : Nat, state : {"success", "error", "cancelled"}]

Shapes ==
    /\ audio = [of |-> audio.of, voice |-> audio.voice, frames |-> audio.frames]
    /\ audio.frames \in Nat
    /\ live \in Nat /\ cancelled \subseteq Nat
    /\ ends \in Seq(Events)

\* Nothing happens to a worker before the audio device is open, which it is only
\* asked to be once the voices are there.
Silent ==
    /\ ~stream => audio.of = 0 /\ work = "none" /\ cancelled = {} /\ ends = <<>>
    /\ stream => load = "loaded"

\* The live worker is in no other role: it is not superseded, it owns the queue
\* while it works, and it is over once an event of it is on its way.
LiveApart ==
    /\ live \notin cancelled
    /\ work \in {"stream", "drain"} => live # 0 /\ audio.of = live
    /\ \A i \in DOMAIN ends : ends[i].worker = live => work \notin {"stream", "drain"}

\* Frames or not, an installed queue is for the voice that is shown.
QueueShown == IF audio.of = 0 THEN audio.frames = 0 ELSE audio.voice = current_voice

PickerInv == Shapes /\ Silent /\ LiveApart /\ QueueShown

-----------------------------------------------------------------------------
\* A fresh worker is nobody's that anybody still refers to.
LEMMA FreshApart ==
    ASSUME Workers \ InUse # {}
    PROVE  /\ Fresh \in Nat /\ Fresh # 0 /\ Fresh # live /\ Fresh \notin cancelled
           /\ \A i \in DOMAIN ends : ends[i].worker # Fresh
<1>1. Fresh \in Workers /\ Fresh \notin InUse
  BY DEF Fresh
<1>2. Fresh \in Nat /\ Fresh # 0
  BY <1>1, WorkersAssumption DEF Workers
<1> QED
  BY <1>1, <1>2 DEF InUse

\* A new phrase, whatever else has changed in the lists.
LEMMA PickerInvPlay ==
    ASSUME PickerInv, load = "loaded", load' = load, Play
    PROVE  PickerInv'
<1> USE DEF PickerInv, Shapes, Silent, LiveApart, QueueShown
<1>1. /\ Fresh \in Nat /\ Fresh # 0 /\ Fresh # live /\ Fresh \notin cancelled
      /\ \A i \in DOMAIN ends : ends[i].worker # Fresh
  BY FreshApart DEF Play
<1>2. /\ live' = Fresh /\ work' = "stream" /\ stream' = TRUE /\ ends' = ends
      /\ audio' = [of |-> Fresh, voice |-> VoiceAt(activeSet', index'), frames |-> 0]
      /\ cancelled' = Superseded
  BY DEF Play
<1>3. cancelled' \subseteq cancelled \cup {live}
  BY <1>2 DEF Superseded
<1>4. audio'.voice = current_voice'
  BY <1>2 DEF current_voice
<1> QED
  BY <1>1, <1>2, <1>3, <1>4

\* Without the device everything is silent, and stays so.
LEMMA PickerInvStart ==
    ASSUME PickerInv, load = "loaded", load' = load, StartPlayback
    PROVE  PickerInv'
<1>1. CASE Play
  BY <1>1, PickerInvPlay
<1>2. CASE AudioError
  BY <1>2 DEF AudioError, playVars, PickerInv, Shapes, Silent, LiveApart, QueueShown
<1> QED
  BY <1>1, <1>2 DEF StartPlayback

\* Going on with what is playing, when the voice shown is the same or nothing is
\* installed.
LEMMA PickerInvGoesOn ==
    ASSUME PickerInv, UNCHANGED playVars, load' = load \/ ~stream,
           audio.of = 0 \/ current_voice' = current_voice
    PROVE  PickerInv'
  BY DEF playVars, PickerInv, Shapes, Silent, LiveApart, QueueShown

LEMMA PickerInvUser ==
    ASSUME PickerInv,
           User \/ LoadVoices \/ LoadFails \/ TurnRadio \/ RadioIgnored \/ RadioSetChanged
    PROVE  PickerInv'
<1>1. ASSUME NEW delta, Move(delta)
      PROVE  PickerInv'
  BY <1>1, PickerInvStart DEF Move, Key
<1>2. CASE Replay \/ AutoModeOn
  BY <1>2, PickerInvStart DEF Replay, AutoModeOn, Key
<1>3. CASE AutoModeOff
  BY <1>3, PickerInvGoesOn DEF AutoModeOff, Key, current_voice
<1>4. CASE ToggleFavorite
  BY <1>4, PickerInvGoesOn DEF ToggleFavorite, listVars, current_voice
<1>5. ASSUME NEW s \in VoiceSets, Press(s)
      PROVE  PickerInv'
  BY <1>5, PickerInvGoesOn DEF Press, current_voice
<1>6. CASE LoadVoices \/ LoadFails
  <2>1. ~stream /\ audio.of = 0
    BY <1>6 DEF LoadVoices, LoadFails, PickerInv, Silent
  <2> QED
    BY <1>6, <2>1, PickerInvGoesOn DEF LoadVoices, LoadFails
<1>7. CASE RadioIgnored
  BY <1>7, PickerInvGoesOn DEF RadioIgnored, Pressed, current_voice
<1>8. CASE RadioSetChanged
  <2>1. load = "loaded" /\ load' = load
    BY <1>8 DEF RadioSetChanged, Pressed
  <2>2. CASE UNCHANGED playVars /\ VoiceAt(activeSet', index') = current_voice
    <3>1. current_voice' = current_voice
      BY <2>2 DEF current_voice
    <3> QED
      BY <2>1, <2>2, <3>1, PickerInvGoesOn
  <2>3. CASE StartPlayback
    BY <2>1, <2>3, PickerInvStart
  <2> QED
    BY <1>8, <2>2, <2>3 DEF RadioSetChanged
<1>9. CASE TurnRadio
  BY <1>9, PickerInvGoesOn DEF TurnRadio, current_voice
<1> QED
  BY <1>1, <1>2, <1>3, <1>4, <1>5, <1>6, <1>7, <1>8, <1>9 DEF User

\* The workers and the audio callback.
LEMMA PickerInvWorkers ==
    ASSUME PickerInv, LiveWorker \/ PlayAudio \/ (\E w \in Workers : Cancel(w))
    PROVE  PickerInv'
<1> USE DEF PickerInv, Shapes, Silent, LiveApart, QueueShown, WorkerGoes, listVars
<1>1. CASE ReceiveFrame
  <2>1. work = "stream" /\ work' = "stream" /\ audio' = [audio EXCEPT !.frames = @ + 1]
        /\ UNCHANGED <<load, stream, live, cancelled, ends>>
    BY <1>1 DEF ReceiveFrame
  <2>2. current_voice' = current_voice
    BY <1>1 DEF ReceiveFrame, current_voice
  <2>3. audio'.of = audio.of /\ audio'.voice = audio.voice /\ audio'.frames = audio.frames + 1
        /\ audio' = [of |-> audio'.of, voice |-> audio'.voice, frames |-> audio'.frames]
    BY <2>1
  <2> QED
    BY <2>1, <2>2, <2>3
<1>2. CASE StreamEnds
  <2>1. current_voice' = current_voice
    BY <1>2 DEF StreamEnds, current_voice
  <2> QED
    BY <1>2, <2>1 DEF StreamEnds
<1>3. CASE StreamFails \/ Drained
  <2>1. PICK state \in {"success", "error"} : ends' = Append(ends, [worker |-> live, state |-> state])
    BY <1>3 DEF StreamFails, Drained, Ended
  <2>2. ends' \in Seq(Events)
    BY <2>1 DEF Events
  <2>3. work \in {"stream", "drain"} /\ work' = "ended"
        /\ UNCHANGED <<load, stream, live, cancelled, audio>>
    BY <1>3 DEF StreamFails, Drained
  <2>4. current_voice' = current_voice
    BY <1>3 DEF StreamFails, Drained, current_voice
  <2> QED
    BY <2>2, <2>3, <2>4
<1>4. CASE PlayAudio
  <2>1. audio.frames > 0 /\ audio' = [audio EXCEPT !.frames = @ - 1]
        /\ UNCHANGED <<load, stream, live, work, cancelled, ends>>
    BY <1>4 DEF PlayAudio
  <2>2. current_voice' = current_voice
    BY <1>4 DEF PlayAudio, current_voice
  <2>3. audio'.of = audio.of /\ audio'.voice = audio.voice /\ audio'.frames \in Nat
        /\ audio' = [of |-> audio'.of, voice |-> audio'.voice, frames |-> audio'.frames]
    BY <2>1
  <2> QED
    BY <2>1, <2>2, <2>3
<1>5. ASSUME NEW w \in Workers, Cancel(w)
      PROVE  PickerInv'
  <2>1. w \in cancelled /\ w # live /\ cancelled' = cancelled \ {w}
        /\ ends' = Append(ends, [worker |-> w, state |-> "cancelled"])
        /\ UNCHANGED <<load, stream, live, work>>
    BY <1>5 DEF Cancel
  <2>2. ends' \in Seq(Events)
    BY <2>1 DEF Events
  <2>3. \A i \in DOMAIN ends' : ends'[i].worker = live => work \notin {"stream", "drain"}
    BY <2>1 DEF Events
  <2>4. audio' = audio \/ (audio.of # live /\ audio' = Silence)
    BY <1>5, <2>1 DEF Cancel
  <2>5. current_voice' = current_voice
    BY <1>5 DEF Cancel, current_voice
  <2>6. stream
    BY <2>1
  <2> QED
    BY <2>1, <2>2, <2>3, <2>4, <2>5, <2>6 DEF Silence
<1> QED
  BY <1>1, <1>2, <1>3, <1>4, <1>5 DEF LiveWorker

\* The events of workers.
LEMMA PickerInvDeliver ==
    ASSUME PickerInv, Deliver
    PROVE  PickerInv'
<1> USE DEF PickerInv, Shapes, Silent, LiveApart, QueueShown
<1>0. ends # <<>> /\ ends' = Tail(ends) /\ ends' \in Seq(Events)
      /\ \A i \in DOMAIN ends' : \E j \in DOMAIN ends : ends'[i] = ends[j]
  <2>1. ends # <<>> /\ ends' = Tail(ends)
    BY DEF Deliver, WorkerIgnored, WorkerFailed, WorkerIdle, AutoComplete, AutoAdvance, Delivered
  <2> QED
    BY <2>1
<1>1. CASE WorkerIgnored \/ WorkerIdle \/ AutoComplete
  <2>1. UNCHANGED <<load, stream, live, work, cancelled, audio>>
    BY <1>1 DEF WorkerIgnored, WorkerIdle, AutoComplete, Delivered, listVars
  <2>2. current_voice' = current_voice
    BY <1>1 DEF WorkerIgnored, WorkerIdle, AutoComplete, Delivered, listVars, current_voice
  <2> QED
    BY <1>0, <2>1, <2>2
<1>2. CASE WorkerFailed
  <2>1. UNCHANGED <<load, stream, live, work, cancelled>> /\ audio' = Silence
    BY <1>2 DEF WorkerFailed, Delivered
  <2>2. Head(ends).worker = live
    BY <1>2 DEF WorkerFailed, Delivered, FromLive
  <2>3. work \notin {"stream", "drain"}
    BY <1>0, <2>2
  <2> QED
    BY <1>0, <2>1, <2>3 DEF Silence
<1>3. CASE AutoAdvance
  <2>1. /\ live' = Fresh /\ work' = "stream"
        /\ audio' = [of |-> Fresh, voice |-> VoiceAt(activeSet, index'), frames |-> 0]
        /\ cancelled' = Superseded
        /\ UNCHANGED <<load, stream, activeSet>>
    BY <1>3 DEF AutoAdvance
  <2>2. /\ Fresh \in Nat /\ Fresh # 0 /\ Fresh # live /\ Fresh \notin cancelled
        /\ \A i \in DOMAIN ends : ends[i].worker # Fresh
    BY <1>3, FreshApart DEF AutoAdvance
  <2>3. cancelled' \subseteq cancelled \cup {live}
    BY <2>1 DEF Superseded
  <2>4. audio'.voice = current_voice'
    BY <2>1 DEF current_voice
  <2>5. stream
    BY <1>0
  <2> QED
    BY <1>0, <2>1, <2>2, <2>3, <2>4, <2>5
<1> QED
  BY <1>1, <1>2, <1>3 DEF Deliver

LEMMA PickerInvariant == Spec => []PickerInv
<1>1. Init => PickerInv
  BY DEF Init, PickerInv, Shapes, Silent, LiveApart, QueueShown, Silence
<1>2. PickerInv /\ [Next]_vars => PickerInv'
  <2> SUFFICES ASSUME PickerInv, [Next]_vars PROVE PickerInv'
    OBVIOUS
  <2>1. CASE UNCHANGED vars
    BY <2>1, PickerInvGoesOn DEF vars, listVars, current_voice
  <2> QED
    BY <2>1, PickerInvUser, PickerInvWorkers, PickerInvDeliver DEF Next
<1> QED
  BY <1>1, <1>2, PTL DEF Spec

\* Whatever keys, radio buttons and late events came, the voice heard is the one
\* on the screen.
THEOREM HeardShown == Spec => []HeardIsShown
<1>1. PickerInv => HeardIsShown
  BY DEF PickerInv, Shapes, QueueShown, HeardIsShown
<1> QED
  BY <1>1, PickerInvariant, PTL

\* A superseded worker never flushes the queue of the live one.
THEOREM QueueKept == Spec => []NewerQueueKept
<1>1. PickerInv => NewerQueueKept
  BY DEF PickerInv, LiveApart, NewerQueueKept
<1> QED
  BY <1>1, PickerInvariant, PTL

-----------------------------------------------------------------------------
\* What makes ScreenAgrees inductive.  The last radio message under way is that of
\* the pressed button, and the list that comes first is the one the first button
\* is pressed for; the file holds what was written last or is cut short.

RadioInv ==
    /\ presses \in Seq(VoiceSets) /\ changes \in Seq(VoiceSets) /\ early \in BOOLEAN
    /\ changes # <<>> => changes[Len(changes)] = radio
    /\ load # "loaded" => activeSet = "all"
    /\ changes = <<>> /\ ~early => radio = activeSet

StarInv ==
    /\ file \in Files \cup {Torn}
    /\ favorites \subseteq Keepers
    /\ file # Torn => favorites = Parsed(file)

\* Of the messages under way the first is taken.
LEMMA FirstTaken ==
    ASSUME RadioInv, Pressed
    PROVE  /\ Head(changes) \in VoiceSets /\ changes' \in Seq(VoiceSets) /\ radio' = radio
           /\ load' = load /\ presses' = presses
           /\ changes' # <<>> => changes'[Len(changes')] = radio'
           /\ changes' = <<>> => Head(changes) = radio'
<1>1. /\ changes \in Seq(VoiceSets) /\ changes # <<>> /\ changes' = Tail(changes)
      /\ radio' = radio /\ load' = load /\ presses' = presses
      /\ changes[Len(changes)] = radio
  BY DEF RadioInv, Pressed
<1>2. /\ Len(changes) \in Nat \ {0} /\ Head(changes) = changes[1] /\ changes[1] \in VoiceSets
      /\ changes' \in Seq(VoiceSets) /\ Len(changes') = Len(changes) - 1
      /\ \A i \in 1 .. Len(changes') : changes'[i] = changes[i + 1]
      /\ (changes' = <<>> <=> Len(changes') = 0)
  <2>1. /\ Len(changes) \in Nat \ {0} /\ Head(changes) = changes[1] /\ changes[1] \in VoiceSets
        /\ changes' \in Seq(VoiceSets) /\ Len(changes') = Len(changes) - 1
    BY <1>1
  <2>2. \A i \in 1 .. Len(changes') : changes'[i] = changes[i + 1]
    BY <1>1, <2>1
  <2>3. changes' = <<>> <=> Len(changes') = 0
    BY <2>1
  <2> QED
    BY <2>1, <2>2, <2>3
<1>3. ASSUME changes' # <<>>
      PROVE  changes'[Len(changes')] = changes[Len(changes)]
  <2>1. Len(changes') \in 1 .. Len(changes') /\ Len(changes') + 1 = Len(changes)
    BY <1>2, <1>3
  <2> QED
    BY <1>2, <2>1
<1>4. ASSUME changes' = <<>>
      PROVE  Len(changes) = 1
  BY <1>2, <1>4
<1> QED
  BY <1>1, <1>2, <1>3, <1>4

LEMMA RadioStep == RadioInv /\ [Next]_vars => RadioInv'
<1> SUFFICES ASSUME RadioInv, [Next]_vars PROVE RadioInv'
  OBVIOUS
<1>1. ASSUME UNCHANGED <<presses, changes, early, radio, activeSet>>,
             load' = load \/ activeSet' = "all"
      PROVE  RadioInv'
  BY <1>1 DEF RadioInv
<1>2. CASE LoadVoices \/ LoadFails
  BY <1>1, <1>2 DEF LoadVoices, LoadFails, RadioInv
<1>3. CASE (\E delta \in {1, Len(voices) - 1} : Move(delta)) \/ Replay \/ AutoModeOff \/ AutoModeOn
  <2>1. UNCHANGED <<presses, changes, early, radio, activeSet, load>>
    BY <1>3 DEF Move, Replay, AutoModeOff, AutoModeOn, Key
  <2> QED
    BY <1>1, <2>1
<1>4. CASE \/ ToggleFavorite \/ LiveWorker \/ PlayAudio \/ Deliver
           \/ (\E w \in Workers : Cancel(w)) \/ UNCHANGED vars
  <2>1. UNCHANGED <<presses, changes, early, radio, activeSet, load>>
    BY <1>4 DEF ToggleFavorite, LiveWorker, ReceiveFrame, StreamEnds, StreamFails, Drained, WorkerGoes,
       PlayAudio, Deliver, WorkerIgnored, WorkerFailed, WorkerIdle, AutoComplete, Delivered,
       AutoAdvance, Cancel, vars, listVars
  <2> QED
    BY <1>1, <2>1
<1>5. ASSUME NEW s \in VoiceSets, Press(s)
      PROVE  RadioInv'
  <2>1. presses' = Append(presses, s) /\ UNCHANGED <<load, radio, changes, activeSet, early>>
    BY <1>5 DEF Press
  <2>2. presses' \in Seq(VoiceSets)
    BY <2>1 DEF RadioInv
  <2> QED
    BY <2>1, <2>2 DEF RadioInv
<1>6. CASE RadioIgnored
  BY <1>6, FirstTaken DEF RadioIgnored, RadioInv
<1>7. CASE RadioSetChanged
  BY <1>7, FirstTaken DEF RadioSetChanged, RadioInv
<1>8. CASE TurnRadio
  <2>1. /\ presses # <<>> /\ presses' = Tail(presses) /\ radio' = Head(presses)
        /\ changes' = Append(changes, Head(presses)) /\ UNCHANGED <<load, activeSet, early>>
    BY <1>8 DEF TurnRadio
  <2>2. presses' \in Seq(VoiceSets) /\ Head(presses) \in VoiceSets
    BY <2>1 DEF RadioInv
  <2>3. changes' \in Seq(VoiceSets) /\ changes' # <<>> /\ changes'[Len(changes')] = radio'
    BY <2>1, <2>2 DEF RadioInv
  <2> QED
    BY <2>1, <2>2, <2>3 DEF RadioInv
<1> QED
  BY <1>2, <1>3, <1>4, <1>5, <1>6, <1>7, <1>8 DEF Next, User

LEMMA StarStep == StarInv /\ [Next]_vars => StarInv'
<1> SUFFICES ASSUME StarInv, [Next]_vars PROVE StarInv'
  OBVIOUS
<1>1. ASSUME UNCHANGED <<file, favorites>>
      PROVE  StarInv'
  BY <1>1 DEF StarInv
<1>2. CASE ToggleFavorite
  <2>1. Toggled \subseteq Keepers
    BY <1>2 DEF ToggleFavorite, Toggled, StarInv
  <2>2. {Toggled} \in Files /\ Parsed({Toggled}) = Toggled
    BY <2>1 DEF Files, Parsed
  <2> QED
    BY <1>2, <2>1, <2>2 DEF ToggleFavorite, StarInv
<1>3. CASE ~ToggleFavorite
  <2>1. UNCHANGED <<file, favorites>>
    BY <1>3 DEF Next, LoadVoices, LoadFails, User, Move, Replay, AutoModeOff, AutoModeOn, Key, Press,
       TurnRadio, RadioIgnored, RadioSetChanged, Pressed, LiveWorker, ReceiveFrame, StreamEnds,
       StreamFails, Drained, WorkerGoes, PlayAudio, Deliver, WorkerIgnored, WorkerFailed, WorkerIdle,
       AutoComplete, Delivered, AutoAdvance, Cancel, vars, starVars
  <2> QED
    BY <1>1, <2>1
<1> QED
  BY <1>2, <1>3

\* ScreenAgrees, for any voices, lists and favorites, and any number of radio
\* messages under way.
THEOREM ScreenTrue == Spec => []ScreenAgrees
<1>1. ASSUME Init
      PROVE  RadioInv /\ StarInv
  <2>1. RadioInv
    <3>1. <<>> \in Seq(VoiceSets)
      OBVIOUS
    <3> QED
      BY <1>1, <3>1 DEF Init, RadioInv
  <2>2. StarInv
    <3>1. Parsed(file) \subseteq Keepers
      BY <1>1 DEF Init, Files, Torn, Parsed
    <3> QED
      BY <1>1, <3>1 DEF Init, StarInv
  <2> QED
    BY <2>1, <2>2
<1>2. RadioInv /\ StarInv => ScreenAgrees
  BY DEF RadioInv, StarInv, ScreenAgrees
<1> QED
  BY <1>1, <1>2, RadioStep, StarStep, PTL DEF Spec

-----------------------------------------------------------------------------
\* What makes AuditionIsWhole hold.  In auto mode the voices behind the one shown,
\* as many as were advanced over, have been played to their end, and that of the
\* one shown has once its success is on its way.

Behind(i) == IF i <= index THEN index - i ELSE index - i + Len(voices)

ShownInv ==
    /\ activeSet \in VoiceSets /\ index \in Positions(activeSet)
    /\ auto => load = "loaded"

AuditionInv ==
    auto =>
       /\ remaining \in 1 .. Len(voices)
       /\ aired \subseteq ToSet(voices)
       /\ \A i \in Positions(activeSet) :
             Behind(i) \in 1 .. Len(voices) - remaining => VoiceAt(activeSet, i) \in aired
       /\ \A i \in DOMAIN ends :
             ends[i].worker = live /\ ends[i].state = "success" => current_voice \in aired

\* The lists are not empty, and a position is that of a voice.
LEMMA Lists ==
    ASSUME NEW s \in VoiceSets
    PROVE  /\ Playlists[s] \in Seq(Voices) /\ Len(Playlists[s]) \in Nat \ {0}
           /\ Positions(s) = 0 .. Len(Playlists[s]) - 1
           /\ ToSet(Playlists[s]) = {VoiceAt(s, i) : i \in Positions(s)}
<1>1. Playlists[s] \in Seq(Voices) /\ Len(Playlists[s]) \in Nat \ {0}
  BY PlaylistsAssumption
<1>2. \A i \in Positions(s) : i + 1 \in DOMAIN Playlists[s] /\ VoiceAt(s, i) = Playlists[s][i + 1]
  BY <1>1 DEF Positions, VoiceAt
<1>3. \A k \in DOMAIN Playlists[s] : k - 1 \in Positions(s) /\ VoiceAt(s, k - 1) = Playlists[s][k]
  BY <1>1 DEF Positions, VoiceAt
<1>4. ToSet(Playlists[s]) = {VoiceAt(s, i) : i \in Positions(s)}
  BY <1>2, <1>3 DEF ToSet
<1> QED
  BY <1>1, <1>4 DEF Positions

\* Round the list by one.
LEMMA Around ==
    ASSUME NEW n \in Nat \ {0}, NEW a \in 0 .. n - 1
    PROVE  /\ (a + 1) % n = (IF a + 1 = n THEN 0 ELSE a + 1)
           /\ \A b \in Nat : b % n \in 0 .. n - 1
  OBVIOUS

LEMMA ShownStep == RadioInv /\ ShownInv /\ [Next]_vars => ShownInv'
<1> SUFFICES ASSUME RadioInv, ShownInv, [Next]_vars PROVE ShownInv'
  OBVIOUS
<1>0. auto' => load' = "loaded"
  BY DEF ShownInv, Next, LoadVoices, LoadFails, User, Move, Replay, AutoModeOff, AutoModeOn, Key,
     AutoOff, ToggleFavorite, Press, TurnRadio, RadioIgnored, RadioSetChanged, Pressed, LiveWorker,
     ReceiveFrame,
     StreamEnds, StreamFails, Drained, WorkerGoes, PlayAudio, Cancel, Deliver, WorkerIgnored,
     WorkerFailed, WorkerIdle, AutoComplete, Delivered, AutoAdvance, vars, listVars, autoVars
<1>1. ASSUME UNCHANGED <<activeSet, index>>
      PROVE  ShownInv'
  BY <1>0, <1>1 DEF ShownInv
<1>2. ASSUME NEW s \in VoiceSets, activeSet' = s, index' \in Positions(s)
      PROVE  ShownInv'
  BY <1>0, <1>2 DEF ShownInv
<1>3. \A s \in VoiceSets : 0 \in Positions(s)
  BY Lists
<1>4. CASE LoadVoices
  BY <1>2, <1>3, <1>4 DEF LoadVoices, VoiceSets
<1>5. ASSUME NEW delta \in Nat, activeSet' = activeSet, load = "loaded",
             index' = (index + delta) % Len(voices)
      PROVE  ShownInv'
  <2>1. voices = Playlists[activeSet] /\ activeSet \in VoiceSets /\ index \in Nat
    BY <1>5, Lists DEF voices, ShownInv
  <2>2. Len(voices) \in Nat \ {0} /\ index + delta \in Nat
        /\ Positions(activeSet) = 0 .. Len(voices) - 1
    BY <1>5, <2>1, Lists
  <2>3. (index + delta) % Len(voices) \in 0 .. Len(voices) - 1
    BY <2>2, Around
  <2>4. index' \in Positions(activeSet)
    BY <1>5, <2>2, <2>3
  <2> QED
    BY <1>2, <1>5, <2>1, <2>4
<1>6. ASSUME NEW delta \in {1, Len(voices) - 1}, Move(delta)
      PROVE  ShownInv'
  <2>1. load = "loaded" /\ activeSet' = activeSet /\ index' = (index + delta) % Len(voices)
    BY <1>6 DEF Move, Key
  <2>2. delta \in Nat
    BY <2>1, Lists DEF voices, ShownInv
  <2> QED
    BY <1>5, <2>1, <2>2
<1>7. CASE AutoAdvance
  <2>1. activeSet' = activeSet /\ index' = (index + 1) % Len(voices) /\ load = "loaded"
    BY <1>7 DEF AutoAdvance, ShownInv
  <2> QED
    BY <1>5, <2>1
<1>8. CASE RadioSetChanged
  BY <1>2, <1>3, <1>8, FirstTaken DEF RadioSetChanged
<1>9. CASE \/ LoadFails \/ Replay \/ AutoModeOff \/ AutoModeOn \/ ToggleFavorite
           \/ (\E s \in VoiceSets : Press(s)) \/ TurnRadio \/ RadioIgnored \/ LiveWorker \/ PlayAudio
           \/ (\E w \in Workers : Cancel(w)) \/ UNCHANGED vars
           \/ WorkerIgnored \/ WorkerFailed \/ WorkerIdle \/ AutoComplete
  <2>1. UNCHANGED <<activeSet, index>>
    BY <1>9 DEF LoadFails, Replay, AutoModeOff, AutoModeOn, Key, ToggleFavorite, Press, TurnRadio,
       RadioIgnored,
       LiveWorker, ReceiveFrame, StreamEnds, StreamFails, Drained, WorkerGoes, PlayAudio,
       WorkerIgnored, WorkerFailed, WorkerIdle, AutoComplete, Delivered, Cancel, vars, listVars
  <2> QED
    BY <1>1, <2>1
<1> QED
  BY <1>4, <1>6, <1>7, <1>8, <1>9 DEF Next, User, Deliver

\* Steps that leave what was played and what is shown alone.
LEMMA AuditionRests ==
    ASSUME AuditionInv, UNCHANGED <<load, auto, remaining, aired, activeSet, index, live>>,
           ends' \in Seq(Events), ends \in Seq(Events),
           \A i \in DOMAIN ends' : ends'[i].worker = live /\ ends'[i].state = "success" =>
              current_voice \in aired \/ \E k \in DOMAIN ends : ends[k] = ends'[i]
    PROVE  AuditionInv'
<1>1. voices' = voices /\ current_voice' = current_voice /\ \A i : Behind(i)' = Behind(i)
  BY DEF voices, current_voice, Behind
<1> QED
  BY <1>1 DEF AuditionInv

LEMMA AuditionStep == PickerInv /\ RadioInv /\ ShownInv /\ AuditionInv /\ [Next]_vars => AuditionInv'
<1> SUFFICES ASSUME PickerInv, RadioInv, ShownInv, AuditionInv, auto', [Next]_vars
             PROVE  AuditionInv'
  BY DEF AuditionInv
<1>1. /\ ends \in Seq(Events) /\ live \in Nat
      /\ load = "loaded" => /\ voices = Playlists[activeSet] /\ Len(voices) \in Nat \ {0}
                            /\ Positions(activeSet) = 0 .. Len(voices) - 1
                            /\ ToSet(voices) = {VoiceAt(activeSet, i) : i \in Positions(activeSet)}
                            /\ current_voice \in ToSet(voices)
  <2>1. ends \in Seq(Events) /\ live \in Nat
    BY DEF PickerInv, Shapes
  <2>2. ASSUME load = "loaded"
        PROVE  voices = Playlists[activeSet] /\ activeSet \in VoiceSets
    BY <2>2 DEF voices, ShownInv
  <2>3. index \in Positions(activeSet)
    BY DEF ShownInv
  <2> QED
    BY <2>1, <2>2, <2>3, Lists DEF current_voice
<1>2. CASE \/ AutoModeOff \/ Replay \/ RadioSetChanged \/ WorkerFailed \/ AutoComplete
           \/ (\E delta \in {1, Len(voices) - 1} : Move(delta))
  BY <1>2 DEF AutoModeOff, Replay, RadioSetChanged, WorkerFailed, AutoComplete, Move, AutoOff
<1>3. CASE AutoModeOn
  <2>1. /\ load = "loaded" /\ remaining' = Len(voices) /\ aired' = {}
        /\ UNCHANGED <<load, activeSet, index>> /\ StartPlayback
    BY <1>3 DEF AutoModeOn, Key
  <2>2. voices' = voices
    BY <2>1 DEF voices
  <2>3. \A i \in DOMAIN ends' : ends'[i].worker # live'
    <3>1. CASE AudioError
      <4>1. ends = <<>> /\ ends' = ends
        BY <3>1 DEF AudioError, playVars, PickerInv, Silent
      <4> QED
        BY <4>1
    <3>2. CASE Play
      BY <3>2, FreshApart DEF Play
    <3> QED
      BY <2>1, <3>1, <3>2 DEF StartPlayback
  <2>4. remaining' \in 1 .. Len(voices) /\ ~(\E i \in 1 .. Len(voices) - remaining' : TRUE)
    BY <1>1, <2>1
  <2> QED
    BY <2>1, <2>2, <2>3, <2>4 DEF AuditionInv
<1>4. CASE AutoAdvance
  <2>1. /\ auto /\ auto' = auto /\ remaining > 1 /\ remaining' = remaining - 1
        /\ index' = (index + 1) % Len(voices) /\ UNCHANGED <<load, activeSet, aired>>
        /\ ends # <<>> /\ Head(ends).state = "success" /\ Head(ends).worker = live
        /\ Workers \ InUse # {} /\ live' = Fresh /\ ends' = Tail(ends)
    BY <1>4 DEF AutoAdvance, FromLive
  <2>2. load = "loaded" /\ voices' = voices /\ index \in 0 .. Len(voices) - 1
    BY <1>1, <2>1 DEF ShownInv, voices
  <2>3. /\ remaining \in 1 .. Len(voices) /\ remaining' \in 1 .. Len(voices)
        /\ Len(voices) \in Nat \ {0} /\ Len(voices) - remaining' = Len(voices) - remaining + 1
    BY <1>1, <2>1, <2>2 DEF AuditionInv
  <2>4. current_voice \in aired
    <3>1. 1 \in DOMAIN ends /\ ends[1] = Head(ends)
      BY <1>1, <2>1
    <3> QED
      BY <2>1, <3>1 DEF AuditionInv
  <2>5. index' = IF index + 1 = Len(voices) THEN 0 ELSE index + 1
    BY <2>1, <2>2, <2>3, Around
  <2>6. ASSUME NEW i \in Positions(activeSet), Behind(i)' \in 1 .. Len(voices) - remaining'
        PROVE  VoiceAt(activeSet, i) \in aired
    <3>1. i \in 0 .. Len(voices) - 1
      BY <1>1, <2>2
    <3>2. Behind(i)' = IF i <= index' THEN index' - i ELSE index' - i + Len(voices)
      BY <2>2 DEF Behind
    <3>3. Behind(i) = IF i <= index THEN index - i ELSE index - i + Len(voices)
      BY DEF Behind
    <3>4. i = index \/ Behind(i) \in 1 .. Len(voices) - remaining
      BY <2>2, <2>3, <2>5, <2>6, <3>1, <3>2, <3>3
    <3> QED
      BY <2>1, <2>4, <3>4 DEF AuditionInv, current_voice
  <2>7. \A i \in DOMAIN ends' : ends'[i].worker # live'
    <3>1. \A i \in DOMAIN ends : ends[i].worker # Fresh
      BY <2>1, FreshApart
    <3>2. ASSUME NEW i \in DOMAIN ends'
          PROVE  i + 1 \in DOMAIN ends /\ ends'[i] = ends[i + 1]
      BY <1>1, <2>1, <3>2
    <3> QED
      BY <2>1, <3>1, <3>2
  <2> QED
    BY <2>1, <2>2, <2>3, <2>6, <2>7 DEF AuditionInv
<1>5. CASE LoadVoices \/ LoadFails
  BY <1>5 DEF LoadVoices, LoadFails, ShownInv, autoVars
<1>6. CASE \/ ToggleFavorite \/ (\E s \in VoiceSets : Press(s)) \/ TurnRadio \/ RadioIgnored \/ PlayAudio
           \/ ReceiveFrame \/ StreamEnds \/ UNCHANGED vars
  <2>1. UNCHANGED <<load, auto, remaining, aired, activeSet, index, live, ends>>
    BY <1>6 DEF ToggleFavorite, Press, TurnRadio, RadioIgnored, Pressed, PlayAudio, ReceiveFrame,
       StreamEnds, WorkerGoes, vars, listVars, autoVars, playVars
  <2> QED
    BY <1>1, <2>1, AuditionRests
<1>7. CASE WorkerIgnored \/ WorkerIdle
  <2>1. UNCHANGED <<load, auto, remaining, aired, activeSet, index, live>>
        /\ ends # <<>> /\ ends' = Tail(ends)
    BY <1>7 DEF WorkerIgnored, WorkerIdle, Delivered, listVars, autoVars
  <2>2. ends' \in Seq(Events) /\ \A i \in DOMAIN ends' : i + 1 \in DOMAIN ends /\ ends'[i] = ends[i + 1]
    BY <1>1, <2>1
  <2> QED
    BY <1>1, <2>1, <2>2, AuditionRests
<1>8. ASSUME UNCHANGED <<load, auto, remaining, aired, activeSet, index, live>>,
             NEW e \in Events, e.worker # live \/ e.state # "success", ends' = Append(ends, e)
      PROVE  AuditionInv'
  <2>1. ends' \in Seq(Events)
        /\ \A i \in DOMAIN ends' : ends'[i] = e \/ (i \in DOMAIN ends /\ ends'[i] = ends[i])
    BY <1>1, <1>8
  <2> QED
    BY <1>1, <1>8, <2>1, AuditionRests
<1>9. CASE StreamFails \/ (\E w \in Workers : Cancel(w))
  <2>1. ASSUME StreamFails
        PROVE  AuditionInv'
    <3>1. [worker |-> live, state |-> "error"] \in Events
      BY <1>1 DEF Events
    <3> QED
      BY <1>8, <2>1, <3>1 DEF StreamFails, WorkerGoes, Ended, listVars
  <2>2. ASSUME NEW w \in Workers, Cancel(w)
        PROVE  AuditionInv'
    <3>1. [worker |-> w, state |-> "cancelled"] \in Events
      BY WorkersAssumption DEF Events, Workers
    <3> QED
      BY <1>8, <2>2, <3>1 DEF Cancel, listVars, autoVars
  <2> QED
    BY <1>9, <2>1, <2>2
<1>10. CASE Drained
  <2>1. /\ work = "drain" /\ aired' = aired \cup {audio.voice}
        /\ UNCHANGED <<load, auto, remaining, activeSet, index, live>>
        /\ ends' = Append(ends, [worker |-> live, state |-> "success"])
    BY <1>10 DEF Drained, WorkerGoes, Ended, listVars
  <2>2. audio.voice = current_voice
    BY <2>1 DEF PickerInv, LiveApart, QueueShown
  <2>3. load = "loaded" /\ auto
    BY <2>1 DEF ShownInv
  <2>4. voices' = voices /\ current_voice' = current_voice /\ \A i : Behind(i)' = Behind(i)
    BY <2>1 DEF voices, current_voice, Behind
  <2> QED
    BY <1>1, <2>1, <2>2, <2>3, <2>4 DEF AuditionInv
<1> QED
  BY <1>2, <1>3, <1>4, <1>5, <1>6, <1>7, <1>9, <1>10 DEF Next, User, LiveWorker, Deliver

\* AuditionIsWhole, for lists of any length: when auto mode completes, every voice
\* of the list was heard to the end of its phrase.
THEOREM AuditionWhole == Spec => AuditionIsWhole
<1>1. ASSUME Init
      PROVE  ShownInv /\ AuditionInv /\ RadioInv
  <2>1. "all" \in VoiceSets /\ <<>> \in Seq(VoiceSets)
    BY DEF VoiceSets
  <2>2. 0 \in Positions("all")
    BY <2>1, Lists
  <2> QED
    BY <1>1, <2>1, <2>2 DEF Init, ShownInv, AuditionInv, RadioInv
<1>2. PickerInv /\ RadioInv /\ ShownInv /\ AuditionInv /\ [Next]_vars
      => (RadioInv /\ ShownInv /\ AuditionInv)'
  BY RadioStep, ShownStep, AuditionStep
<1>3. PickerInv /\ ShownInv /\ AuditionInv /\ [Next]_vars
      => [auto /\ ~auto' /\ ends # <<>> /\ ends' = Tail(ends) /\ Head(ends).state = "success"
             => aired = ToSet(voices)]_vars
  <2> SUFFICES ASSUME PickerInv, ShownInv, AuditionInv, [Next]_vars, auto, ~auto', ends # <<>>,
                      ends' = Tail(ends), Head(ends).state = "success"
               PROVE  aired = ToSet(voices)
    OBVIOUS
  <2>1. ends \in Seq(Events)
    BY DEF PickerInv, Shapes
  <2>2. Len(ends') = Len(ends) - 1 /\ Len(ends) \in Nat /\ ends' # ends
        /\ 1 \in DOMAIN ends /\ ends[1] = Head(ends)
    BY <2>1
  <2>3. AutoComplete
    <3>1. CASE \/ AutoModeOff \/ Replay \/ RadioSetChanged
               \/ (\E delta \in {1, Len(voices) - 1} : Move(delta))
      BY <2>2, <3>1 DEF AutoModeOff, Replay, RadioSetChanged, Move, StartPlayback, Play, AudioError,
         playVars
    <3>2. CASE WorkerFailed
      BY <3>2 DEF WorkerFailed, Delivered
    <3>3. CASE \/ LoadVoices \/ LoadFails \/ AutoModeOn \/ ToggleFavorite
               \/ (\E s \in VoiceSets : Press(s)) \/ TurnRadio \/ RadioIgnored \/ LiveWorker \/ PlayAudio
               \/ (\E w \in Workers : Cancel(w)) \/ UNCHANGED vars
               \/ WorkerIgnored \/ WorkerIdle \/ AutoAdvance
      <4>1. auto' = auto \/ auto'
        BY <3>3 DEF LoadVoices, LoadFails, AutoModeOn, ToggleFavorite, Press, TurnRadio,
           RadioIgnored, LiveWorker, ReceiveFrame, StreamEnds, StreamFails, Drained, WorkerGoes, PlayAudio, Cancel,
           WorkerIgnored, WorkerIdle, AutoAdvance, vars, autoVars
      <4> QED
        BY <4>1
    <3> QED
      BY <3>1, <3>2, <3>3 DEF Next, User, Deliver
  <2>4. remaining <= 1 /\ ends[1].worker = live
    BY <2>2, <2>3 DEF AutoComplete, Delivered, FromLive
  <2>5. load = "loaded" /\ voices = Playlists[activeSet] /\ activeSet \in VoiceSets
        /\ index \in Positions(activeSet)
    BY DEF ShownInv, voices
  <2>6. /\ Len(voices) \in Nat \ {0} /\ Positions(activeSet) = 0 .. Len(voices) - 1
        /\ ToSet(voices) = {VoiceAt(activeSet, i) : i \in Positions(activeSet)}
    BY <2>5, Lists
  <2>7. remaining = 1 /\ current_voice \in aired /\ aired \subseteq ToSet(voices)
    <3>1. ends[1].state = "success"
      BY <2>2
    <3>2. remaining \in 1 .. Len(voices) /\ aired \subseteq ToSet(voices)
      BY DEF AuditionInv
    <3>3. current_voice \in aired
      BY <2>2, <2>4, <3>1 DEF AuditionInv
    <3> QED
      BY <2>4, <2>6, <3>2, <3>3
  <2>8. ASSUME NEW i \in Positions(activeSet)
        PROVE  VoiceAt(activeSet, i) \in aired
    <3>1. i = index \/ Behind(i) \in 1 .. Len(voices) - remaining
      BY <2>5, <2>6, <2>7 DEF Behind
    <3> QED
      BY <2>7, <3>1 DEF AuditionInv, current_voice
  <2> QED
    BY <2>6, <2>7, <2>8
<1> QED
  BY <1>1, <1>2, <1>3, PickerInvariant, PTL DEF Spec, AuditionIsWhole
=============================================================================
