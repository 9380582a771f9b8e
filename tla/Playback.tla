------------------------------ MODULE Playback ------------------------------
(***************************************************************************)
(* PlaybackTracker of src/sleeper/playback.py: what has been sent of the   *)
(* current reply and how much of it the user should have heard by now.     *)
(*                                                                         *)
(* Samples are counted in frames of 1920, the only size that is sent, and  *)
(* time in the 80 ms that a frame plays; the estimate, which rounds down   *)
(* to samples, is then exact for every comparison the code makes.          *)
(***************************************************************************)
EXTENDS Naturals, Sequences

CONSTANT MaxFrames      \* bound: frames of one reply

ASSUME MaxFramesAssumption == MaxFrames \in Nat

VARIABLES started,      \* _first_emitted_at is not None
          elapsed,      \* time since then; MaxFrames stands for that or more
          emitted,      \* _emitted_samples
          marks,        \* _marks: the watermark of each word spoken
          changed       \* the _changed event

trackerVars == <<started, elapsed, emitted, marks, changed>>

TrackerTypeOK ==
    /\ started \in BOOLEAN
    /\ elapsed \in 0 .. MaxFrames
    /\ emitted \in 0 .. MaxFrames
    /\ marks \in Seq(0 .. MaxFrames)
    /\ changed \in BOOLEAN

TrackerInit ==
    /\ started = FALSE
    /\ elapsed = 0
    /\ emitted = 0
    /\ marks = <<>>
    /\ changed = FALSE

ResetTurn ==
    /\ started' = FALSE
    /\ elapsed' = 0
    /\ emitted' = 0
    /\ marks' = <<>>
    /\ UNCHANGED changed

RecordEmission_Restamps ==      \* mutant: every frame restarts the clock
    /\ started' = TRUE
    /\ elapsed' = 0
    /\ emitted' = emitted + 1
    /\ changed' = TRUE
    /\ UNCHANGED marks

RecordEmission ==
    /\ started' = TRUE
    /\ elapsed' = IF started THEN elapsed ELSE 0
    /\ emitted' = emitted + 1
    /\ changed' = TRUE
    /\ UNCHANGED marks

MarkSpoken ==
    /\ marks' = Append(marks, emitted)
    /\ UNCHANGED <<started, elapsed, emitted, changed>>

Played == IF ~started THEN 0 ELSE IF elapsed < emitted THEN elapsed ELSE emitted

\* The words of heard_text, by their position in the reply.
Heard == {i \in 1 .. Len(marks) : marks[i] <= Played}

WakeWaiters == changed' = TRUE /\ UNCHANGED <<started, elapsed, emitted, marks>>

\* The clock.
Age ==
    /\ elapsed' = IF started /\ elapsed < MaxFrames THEN elapsed + 1 ELSE elapsed
    /\ UNCHANGED <<started, emitted, marks, changed>>
=============================================================================
