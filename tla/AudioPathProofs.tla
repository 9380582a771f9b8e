-------------------------- MODULE AudioPathProofs --------------------------
(***************************************************************************)
(* Theorems about AudioPath, for replies of any length and any number of   *)
(* them: what a completed wait has seen, that nothing heard is taken back, *)
(* and that an interrupted reply falls silent.                             *)
(***************************************************************************)
EXTENDS AudioPath, TLAPS

\* The timeline of one reply: the clock stands still until the first frame, and
\* the watermarks of the words rise with the frames emitted.
TimelineInv ==
    /\ elapsed \in Nat /\ emitted \in Nat /\ started \in BOOLEAN
    /\ marks \in Seq(Nat)
    /\ \A i \in 1 .. Len(marks) : marks[i] <= emitted
    /\ \A i, j \in 1 .. Len(marks) : i <= j => marks[i] <= marks[j]

\* The timeline grows, or is reset as a turn begins.
Grows ==
    /\ emitted <= emitted' /\ Played <= Played'
    /\ Len(marks) <= Len(marks')
    /\ \A i \in 1 .. Len(marks) : marks'[i] = marks[i]

\* With the count of turns, by which a step within a turn is told apart.
TimedInv == TimelineInv /\ turn \in Nat

\* Nothing of an earlier reply is left on the timeline.
LEMMA TimelineReset ==
    ASSUME started = FALSE, elapsed = 0, emitted = 0, marks = <<>>
    PROVE  TimelineInv
<1>1. <<>> \in Seq(Nat) /\ Len(<<>>) = 0
  OBVIOUS
<1>2. marks \in Seq(Nat) /\ 1 .. Len(marks) = {}
  BY <1>1
<1> QED
  BY <1>2 DEF TimelineInv

\* Only the start of a turn counts one.
LEMMA TurnCounted ==
    ASSUME turn \in Nat, [Next]_vars
    PROVE  turn' \in Nat
<1>1. CASE Worker \/ Tick \/ Interrupt \/ Stop \/ Client \/ UNCHANGED vars
  BY <1>1 DEF Worker, StepGenerator, OnFrame, SendFrame, Record, Mark, CloseTurn, WorkerStep, Tick,
     Interrupt, Stop, Client, ReceiveFrame, ReceiveCompleted, ReceiveInterrupted, Receiving,
     loopVars, vars
<1>2. CASE TurnLoop
  BY <1>2 DEF TurnLoop, CheckStopping, BeginTurn, StreamEnds, WaitCutShort, WaitGoesOn,
     LookAtTimeline, WaitDrained, WaitReturns, NotYet, SleepEnds, ClearChanged, SendTranscript,
     RecheckInterruption, WaitForCleanup, FinishTurn, Go
<1> QED
  BY <1>1, <1>2 DEF Next

LEMMA Timeline ==
    ASSUME TimelineInv, turn \in Nat, [Next]_vars
    PROVE  TimelineInv' /\ (turn' = turn => Grows)
<1> USE DEF TimelineInv, Grows, Played, trackerVars
<1>1. ASSUME UNCHANGED <<started, elapsed, emitted, marks>>
      PROVE  TimelineInv' /\ Grows
  BY <1>1
<1>2. CASE Record
  <2>1. RecordEmission
    BY <1>2 DEF Record
  <2> QED
    BY <2>1 DEF RecordEmission
<1>3. CASE Mark
  <2>1. marks' = Append(marks, emitted) /\ UNCHANGED <<started, elapsed, emitted>>
    BY <1>3 DEF Mark, MarkSpoken
  <2>2. marks' \in Seq(Nat) /\ Len(marks') = Len(marks) + 1 /\ marks'[Len(marks) + 1] = emitted
        /\ \A i \in 1 .. Len(marks) : marks'[i] = marks[i]
    BY <2>1
  <2>3. \A i \in 1 .. Len(marks') : i \in 1 .. Len(marks) \/ i = Len(marks) + 1
    BY <2>2
  <2>4. \A i \in 1 .. Len(marks') : marks'[i] <= emitted'
    BY <2>1, <2>2, <2>3
  <2>5. ASSUME NEW i \in 1 .. Len(marks'), NEW j \in 1 .. Len(marks'), i <= j
        PROVE  marks'[i] <= marks'[j]
    <3>1. CASE j = Len(marks) + 1
      BY <2>1, <2>2, <2>4, <3>1
    <3>2. CASE j \in 1 .. Len(marks)
      <4>1. i \in 1 .. Len(marks)
        BY <2>2, <2>5, <3>2
      <4> QED
        BY <2>2, <2>5, <3>2, <4>1
    <3> QED
      BY <2>3, <3>1, <3>2
  <2> QED
    BY <2>1, <2>2, <2>4, <2>5
<1>4. CASE BeginTurn
  <2>1. /\ started' = FALSE /\ elapsed' = 0 /\ emitted' = 0 /\ marks' = <<>>
        /\ turn' = turn + 1 /\ loop' = "stream" /\ loop = "begin"
    BY <1>4 DEF BeginTurn, ResetTurn, LoopStep
  <2>2. /\ <<>> \in Seq(Nat) /\ Len(<<>>) = 0
        /\ turn' # turn
    BY <2>1
  <2>3. marks' \in Seq(Nat) /\ 1 .. Len(marks') = {}
    BY <2>1, <2>2
  <2> QED
    BY <2>1, <2>2, <2>3
<1>5. CASE Tick
  <2>1. Age
    BY <1>5 DEF Tick
  <2> QED
    BY <2>1, MaxFramesAssumption DEF Age
<1>6. CASE StepGenerator \/ OnFrame \/ SendFrame \/ CloseTurn
  BY <1>1, <1>6 DEF StepGenerator, OnFrame, SendFrame, CloseTurn
<1>7. CASE TurnLoop /\ ~BeginTurn
  BY <1>1, <1>7 DEF TurnLoop, CheckStopping, StreamEnds, WaitCutShort, WaitGoesOn, LookAtTimeline,
     WaitDrained, WaitReturns, NotYet, SleepEnds, ClearChanged, SendTranscript,
     RecheckInterruption, WaitForCleanup, FinishTurn, Go
<1>8. CASE Interrupt \/ Stop \/ Client \/ UNCHANGED vars
  BY <1>1, <1>8 DEF Interrupt, WakeWaiters, Stop, Client, ReceiveFrame, ReceiveCompleted,
     ReceiveInterrupted, Receiving, vars
<1> QED
  BY <1>2, <1>3, <1>4, <1>5, <1>6, <1>7, <1>8 DEF Next, Worker

LEMMA Timed == Spec => []TimedInv
<1>1. Init => TimedInv
  <2> SUFFICES ASSUME Init PROVE TimelineInv /\ turn \in Nat
    BY DEF TimedInv
  <2>1. TimelineInv
    BY TimelineReset DEF Init, TrackerInit
  <2>2. turn \in Nat
    BY DEF Init
  <2> QED
    BY <2>1, <2>2
<1>2. TimedInv /\ [Next]_vars => TimedInv'
  BY Timeline, TurnCounted DEF TimedInv
<1> QED
  BY <1>1, <1>2, PTL DEF Spec

\* Within a turn nothing heard is ever taken back, and the words heard are the
\* first ones of the reply.
THEOREM NothingUnheard == Spec => HeardOnlyGrows
<1>1. TimedInv /\ TimedInv' /\ [Next]_vars
      => [/\ turn' = turn => Heard \subseteq Heard'
          /\ \A i \in Heard' : 1 .. i \subseteq Heard']_vars
  <2> SUFFICES ASSUME TimelineInv, TimelineInv', turn \in Nat, [Next]_vars
               PROVE  /\ turn' = turn => Heard \subseteq Heard'
                      /\ \A i \in Heard' : 1 .. i \subseteq Heard'
    BY DEF TimedInv
  <2>1. ASSUME turn' = turn
        PROVE  Heard \subseteq Heard'
    <3>1. Grows
      BY <2>1, Timeline
    <3>2. Played \in Nat /\ Played' \in Nat /\ Len(marks) \in Nat /\ Len(marks') \in Nat
      BY DEF TimelineInv, Played
    <3>3. ASSUME NEW i \in Heard
          PROVE  i \in Heard'
      <4>1. i \in 1 .. Len(marks) /\ marks[i] <= Played /\ marks[i] \in Nat
        BY DEF Heard, TimelineInv
      <4>2. i \in 1 .. Len(marks') /\ marks'[i] <= Played'
        BY <3>1, <3>2, <4>1 DEF Grows
      <4> QED
        BY <4>2 DEF Heard
    <3> QED
      BY <3>3
  <2>2. ASSUME NEW i \in Heard', NEW j \in 1 .. i
        PROVE  j \in Heard'
    <3>1. i \in 1 .. Len(marks') /\ marks'[i] <= Played' /\ marks'[i] \in Nat /\ Played' \in Nat
      BY DEF Heard, TimelineInv, Played
    <3>2. j \in 1 .. Len(marks') /\ marks'[j] <= marks'[i] /\ marks'[j] \in Nat
      BY <3>1 DEF TimelineInv
    <3> QED
      BY <3>1, <3>2 DEF Heard
  <2> QED
    BY <2>1, <2>2
<1> QED
  BY <1>1, Timed, PTL DEF Spec, HeardOnlyGrows

-----------------------------------------------------------------------------
\* What makes CompletedMeansPlayed inductive: what the wait read stays true of
\* the frames it has seen, and a turn that is done gets no more of them.
WaitInv ==
    /\ unseen \in Nat
    /\ done => worker = "closed"
    /\ loop = "decide" /\ drained => Played >= emitted - unseen
    /\ CompletedMeansPlayed

LEMMA WaitInvWorker ==
    ASSUME TimelineInv, TimelineInv', WaitInv, Worker
    PROVE  WaitInv'
<1> USE DEF TimelineInv, WaitInv, CompletedMeansPlayed, Played, WorkerStep, loopVars, trackerVars
<1>1. CASE StepGenerator \/ OnFrame \/ SendFrame \/ CloseTurn
  BY <1>1 DEF StepGenerator, OnFrame, SendFrame, CloseTurn
<1>2. CASE Record
  <2>1. worker = "record" /\ worker' = "ready" /\ done' = done /\ ~done
        /\ UNCHANGED <<loop, drained, completed>>
    BY <1>2 DEF Record
  <2>2. emitted' = emitted + 1 /\ Played' >= Played
    BY <1>2 DEF Record, RecordEmission
  <2>3. unseen' \in Nat /\ (loop = "decide" => unseen' = unseen + 1)
    BY <1>2 DEF Record
  <2>4. loop' = "decide" /\ drained' => Played' >= emitted' - unseen'
    <3> SUFFICES ASSUME loop = "decide", drained PROVE Played' >= emitted' - unseen'
      BY <2>1
    <3>1. Played >= emitted - unseen /\ unseen' = unseen + 1
      BY <2>3
    <3>2. Played \in Nat /\ Played' \in Nat
      OBVIOUS
    <3> HIDE DEF Played
    <3> QED
      BY <2>2, <3>1, <3>2
  <2> QED
    BY <2>1, <2>3, <2>4
<1>3. CASE Mark
  BY <1>3 DEF Mark, MarkSpoken
<1> HIDE DEF WaitInv
<1> QED
  BY <1>1, <1>2, <1>3 DEF Worker

LEMMA WaitInvTurnLoop ==
    ASSUME TimelineInv, WaitInv, TurnLoop
    PROVE  WaitInv'
<1> USE DEF TimelineInv, WaitInv, CompletedMeansPlayed, Played, LoopStep, Go, workerVars, trackerVars
<1>1. CASE CheckStopping \/ StreamEnds \/ WaitGoesOn \/ SleepEnds \/ ClearChanged
  BY <1>1 DEF CheckStopping, StreamEnds, WaitGoesOn, SleepEnds, ClearChanged
<1>2. CASE BeginTurn
  BY <1>2 DEF BeginTurn
<1>3. CASE WaitCutShort
  BY <1>3 DEF WaitCutShort, WaitReturns
<1>4. CASE LookAtTimeline
  <2>1. /\ loop' = "decide" /\ drained' = (Played >= emitted)
        /\ UNCHANGED <<started, elapsed, emitted, worker, done, completed, unseen>>
    BY <1>4 DEF LookAtTimeline
  <2>2. Played' = Played /\ Played \in Nat
    BY <2>1
  <2>3. ASSUME drained' PROVE Played' >= emitted' - unseen'
    <3> HIDE DEF Played
    <3>1. Played >= emitted
      BY <2>1, <2>3, Zenon
    <3> QED
      BY <2>1, <2>2, <3>1
  <2> QED
    BY <2>1, <2>3
<1>5. CASE WaitDrained
  BY <1>5 DEF WaitDrained, WaitReturns
<1>6. CASE NotYet \/ SendTranscript \/ RecheckInterruption \/ WaitForCleanup \/ FinishTurn
  BY <1>6 DEF NotYet, SendTranscript, RecheckInterruption, WaitForCleanup, FinishTurn
<1> HIDE DEF WaitInv
<1> QED
  BY <1>1, <1>2, <1>3, <1>4, <1>5, <1>6 DEF TurnLoop

\* A wait that reports completion has seen synthesis done and everything played
\* that had been sent when it looked.
THEOREM PlayedWhenCompleted == Spec => []CompletedMeansPlayed
<1>1. Init => WaitInv
  BY DEF Init, WaitInv, CompletedMeansPlayed
<1>2. TimedInv /\ TimedInv' /\ WaitInv /\ [Next]_vars => WaitInv'
  <2> SUFFICES ASSUME TimelineInv, TimelineInv', WaitInv, [Next]_vars PROVE WaitInv'
    BY DEF TimedInv
  <2>1. CASE Worker
    BY <2>1, WaitInvWorker
  <2>2. CASE TurnLoop
    BY <2>2, WaitInvTurnLoop
  <2>3. CASE Tick
    <3>1. Age /\ UNCHANGED <<workerVars, loopVars, unseen>>
      BY <2>3 DEF Tick
    <3>2. emitted' = emitted /\ Played' >= Played
      BY <3>1, MaxFramesAssumption DEF Age, Played, TimelineInv
    <3>3. Played \in Nat /\ Played' \in Nat
      BY DEF TimelineInv, Played
    <3> QED
      BY <3>1, <3>2, <3>3 DEF WaitInv, CompletedMeansPlayed, workerVars, loopVars, TimelineInv
  <2>4. CASE Interrupt \/ Stop \/ Client \/ UNCHANGED vars
    BY <2>4 DEF Interrupt, WakeWaiters, Stop, Client, ReceiveFrame, ReceiveCompleted,
       ReceiveInterrupted, Receiving, vars, workerVars, loopVars, trackerVars, WaitInv,
       CompletedMeansPlayed, Played
  <2> QED
    BY <2>1, <2>2, <2>3, <2>4 DEF Next
<1>3. WaitInv => CompletedMeansPlayed
  BY DEF WaitInv
<1> QED
  BY <1>1, <1>2, <1>3, Timed, PTL DEF Spec

-----------------------------------------------------------------------------
\* What makes InterruptedFallsSilent inductive.  A turn is told when its
\* interrupted transcript is on the wire or was read.  Of a told turn at most one
\* frame is behind the transcript, in the buffer, or played: the one that was on
\* its way through the worker when the transcript was sent.

Sent(m)     == \E i \in 1 .. Len(wire) : wire[i] = m
Buffered(t) == \E i \in 1 .. Len(buffer) : buffer[i] = t
Told(t)     == t \in flushed \/ Sent(Ending(t, FALSE))

PathTypes ==
    /\ wire \in Seq(Messages) /\ buffer \in Seq(Turns)
    /\ flushed \subseteq Turns /\ stale \in [Turns -> Nat]
    /\ turn \in 0 .. MaxTurns
    /\ turn = 0 => worker = "closed" /\ loop \in {"next", "begin", "exit"}
    /\ completed \in BOOLEAN

\* A turn is told once, and no frame of it is stale before that is read.
TellInv ==
    /\ \A t \in Turns : Told(t) => t <= turn
    /\ \A t \in flushed : ~Sent(Ending(t, FALSE))
    /\ \A t \in Turns \ flushed : stale[t] = 0
    /\ \A t \in Turns : \A i, k \in 1 .. Len(wire) :
          wire[i] = Ending(t, FALSE) /\ wire[k] = Ending(t, FALSE) => i = k

\* Between the transcript and the next turn the interruption stands, until the
\* worker has closed the turn.
StandsInv ==
    /\ done => worker = "closed"
    /\ loop = "transcript" /\ ~completed => interrupted
    /\ Told(turn) => \/ loop \in {"recheck", "cleanup"} /\ interrupted
                     \/ loop \in {"finish", "next", "begin"} /\ done
    /\ loop # "exit"

\* The frame that the worker has decided to send is the first one too many.
DecidedInv ==
    worker = "send" =>
       /\ turn \in flushed => ~Sent(Frame(turn)) /\ ~Buffered(turn) /\ stale[turn] = 0
       /\ \A i, k \in 1 .. Len(wire) :
             wire[i] = Ending(turn, FALSE) /\ i < k => wire[k] # Frame(turn)

OneBehind ==
    \A t \in Turns : \A i, k, l \in 1 .. Len(wire) :
       /\ wire[i] = Ending(t, FALSE) /\ wire[k] = Frame(t) /\ wire[l] = Frame(t)
       /\ i < k /\ i < l
       => k = l

OneLeft ==
    \A t \in flushed :
       /\ \A k, l \in 1 .. Len(wire) : wire[k] = Frame(t) /\ wire[l] = Frame(t) => k = l
       /\ \A k, l \in 1 .. Len(buffer) : buffer[k] = t /\ buffer[l] = t => k = l
       /\ Sent(Frame(t)) => ~Buffered(t)
       /\ stale[t] # 0 => stale[t] = 1 /\ ~Sent(Frame(t)) /\ ~Buffered(t)

SilentInv == TellInv /\ StandsInv /\ DecidedInv /\ OneBehind /\ OneLeft

PathInv == PathTypes /\ (stopping \/ SilentInv)

\* Frames and transcripts are told apart.
LEMMA Telling ==
    /\ \A t \in Turns : Frame(t) \in Messages /\ \A whole : Ending(t, whole) \in Messages
    /\ \A t, u : /\ Frame(t) # Ending(u, FALSE) /\ Frame(t) # Ending(u, TRUE)
                 /\ Ending(t, TRUE) # Ending(u, FALSE)
                 /\ Frame(t) = Frame(u) => t = u
                 /\ Ending(t, FALSE) = Ending(u, FALSE) => t = u
<1>1. \A t \in Turns : Frame(t) \in Messages /\ \A whole : Ending(t, whole) \in Messages
  BY DEF Frame, Ending, Messages
<1>2. ASSUME NEW t, NEW u
      PROVE  /\ Frame(t) # Ending(u, FALSE) /\ Frame(t) # Ending(u, TRUE)
             /\ Ending(t, TRUE) # Ending(u, FALSE)
             /\ Frame(t) = Frame(u) => t = u
             /\ Ending(t, FALSE) = Ending(u, FALSE) => t = u
  <2>1. Frame(t) # Ending(u, FALSE) /\ Frame(t) # Ending(u, TRUE)
    BY DEF Frame, Ending
  <2>2. Ending(t, TRUE) # Ending(u, FALSE)
    BY DEF Ending
  <2>3. Frame(t) = Frame(u) => t = u
    BY DEF Frame
  <2>4. Ending(t, FALSE) = Ending(u, FALSE) => t = u
    BY DEF Ending
  <2> QED
    BY <2>1, <2>2, <2>3, <2>4
<1> QED
  BY <1>1, <1>2

\* A message put on the wire, and one read from it.
LEMMA PutOn ==
    ASSUME wire \in Seq(Messages), NEW m \in Messages, wire' = Append(wire, m)
    PROVE  /\ wire' \in Seq(Messages) /\ Len(wire) \in Nat /\ Len(wire') = Len(wire) + 1
           /\ \A i \in 1 .. Len(wire') : \/ i \in 1 .. Len(wire) /\ wire'[i] = wire[i]
                                         \/ i = Len(wire) + 1 /\ wire'[i] = m
           /\ \A x : Sent(x)' => Sent(x) \/ x = m
<1>1. /\ wire' \in Seq(Messages) /\ Len(wire) \in Nat /\ Len(wire') = Len(wire) + 1
      /\ \A i \in 1 .. Len(wire) : wire'[i] = wire[i]
      /\ wire'[Len(wire) + 1] = m
  OBVIOUS
<1>2. \A i \in 1 .. Len(wire') : \/ i \in 1 .. Len(wire) /\ wire'[i] = wire[i]
                                 \/ i = Len(wire) + 1 /\ wire'[i] = m
  BY <1>1
<1> QED
  BY <1>1, <1>2 DEF Sent

LEMMA ReadOff ==
    ASSUME wire \in Seq(Messages), wire # <<>>, wire' = Tail(wire)
    PROVE  /\ wire' \in Seq(Messages) /\ 1 \in 1 .. Len(wire) /\ Head(wire) = wire[1]
           /\ wire[1] \in Messages
           /\ \A i \in 1 .. Len(wire') :
                 i + 1 \in 1 .. Len(wire) /\ wire'[i] = wire[i + 1] /\ 1 < i + 1
           /\ \A i, k \in 1 .. Len(wire') : (i + 1 = k + 1 => i = k) /\ (i < k => i + 1 < k + 1)
           /\ \A x : Sent(x)' => Sent(x)
<1>1. /\ wire' \in Seq(Messages) /\ Len(wire) \in Nat \ {0} /\ Len(wire') = Len(wire) - 1
      /\ Head(wire) = wire[1] /\ wire[1] \in Messages
      /\ \A i \in 1 .. Len(wire') : wire'[i] = wire[i + 1]
  OBVIOUS
<1>2. \A i \in 1 .. Len(wire') :
         i + 1 \in 1 .. Len(wire) /\ wire'[i] = wire[i + 1] /\ 1 < i + 1
  BY <1>1
<1> QED
  BY <1>1, <1>2 DEF Sent

LEMMA PathTypesHold == PathTypes /\ [Next]_vars => PathTypes'
<1> SUFFICES ASSUME PathTypes, [Next]_vars PROVE PathTypes'
  OBVIOUS
<1> USE DEF PathTypes
<1>1. CASE Worker
  <2>1. UNCHANGED <<turn, loop, completed, clientVars>>
    BY <1>1 DEF Worker, StepGenerator, OnFrame, SendFrame, Record, Mark, CloseTurn, WorkerStep, loopVars
  <2>2. worker # "closed"
    BY <1>1 DEF Worker, StepGenerator, OnFrame, SendFrame, Record, Mark, CloseTurn, WorkerStep
  <2>3. turn \in Turns
    BY <2>2, BoundsAssumption DEF Turns
  <2>4. wire' \in Seq(Messages)
    <3>1. CASE SendFrame
      BY <2>3, <3>1, PutOn, Telling DEF SendFrame
    <3>2. CASE ~SendFrame
      BY <1>1, <3>2 DEF Worker, StepGenerator, OnFrame, Record, Mark, CloseTurn
    <3> QED
      BY <3>1, <3>2
  <2> QED
    BY <2>1, <2>3, <2>4, BoundsAssumption DEF clientVars, Turns
<1>2. CASE TurnLoop
  <2>1. UNCHANGED clientVars
    BY <1>2 DEF TurnLoop, CheckStopping, BeginTurn, StreamEnds, WaitCutShort, WaitGoesOn,
       LookAtTimeline, WaitDrained, WaitReturns, NotYet, SleepEnds, ClearChanged, SendTranscript,
       RecheckInterruption, WaitForCleanup, FinishTurn, Go, LoopStep
  <2>2. CASE BeginTurn
    BY <2>1, <2>2, BoundsAssumption DEF BeginTurn, LoopStep, clientVars
  <2>3. CASE SendTranscript
    <3>1. turn \in Turns /\ UNCHANGED <<turn, completed, worker>>
      BY <2>3, BoundsAssumption DEF SendTranscript, LoopStep, Turns, workerVars
    <3>2. wire' \in Seq(Messages)
      BY <2>3, <3>1, PutOn, Telling DEF SendTranscript
    <3> QED
      BY <2>1, <3>1, <3>2, BoundsAssumption DEF clientVars, Turns
  <2>4. CASE ~BeginTurn /\ ~SendTranscript
    <3>1. UNCHANGED <<turn, wire, worker>> /\ completed' \in BOOLEAN
          /\ (loop \in {"next", "begin", "exit"} => loop' \in {"next", "begin", "exit"})
      BY <1>2, <2>4 DEF TurnLoop, CheckStopping, StreamEnds, WaitCutShort, WaitGoesOn, LookAtTimeline,
         WaitDrained, WaitReturns, NotYet, SleepEnds, ClearChanged, RecheckInterruption,
         WaitForCleanup, FinishTurn, Go, LoopStep, workerVars
    <3> QED
      BY <2>1, <3>1 DEF clientVars
  <2> QED
    BY <2>2, <2>3, <2>4
<1>3. CASE Client
  <2>1. UNCHANGED <<turn, loop, worker, completed, stale>>
    BY <1>3 DEF Client, ReceiveFrame, ReceiveCompleted, ReceiveInterrupted, Receiving, loopVars,
       workerVars
  <2>2. wire # <<>> /\ wire' = Tail(wire)
    BY <1>3 DEF Client, ReceiveFrame, ReceiveCompleted, ReceiveInterrupted, Receiving
  <2>3. Head(wire).turn \in Turns /\ wire' \in Seq(Messages)
    BY <2>2, ReadOff DEF Messages
  <2>4. buffer' \in Seq(Turns) /\ flushed' \subseteq Turns
    <3>1. CASE ReceiveFrame
      BY <2>3, <3>1 DEF ReceiveFrame
    <3>2. CASE ReceiveCompleted \/ ReceiveInterrupted
      <4>1. <<>> \in Seq(Turns)
        OBVIOUS
      <4> QED
        BY <2>3, <3>2, <4>1 DEF ReceiveCompleted, ReceiveInterrupted
    <3> QED
      BY <1>3, <3>1, <3>2 DEF Client
  <2> QED
    BY <2>1, <2>3, <2>4
<1>4. CASE Tick
  <2>1. UNCHANGED <<turn, loop, worker, completed, wire, flushed>>
    BY <1>4 DEF Tick, workerVars, loopVars
  <2>2. buffer' \in Seq(Turns) /\ stale' \in [Turns -> Nat]
    BY <1>4 DEF Tick
  <2> QED
    BY <2>1, <2>2
<1>5. CASE Interrupt \/ Stop \/ UNCHANGED vars
  BY <1>5 DEF Interrupt, Stop, vars, workerVars, loopVars, clientVars
<1> QED
  BY <1>1, <1>2, <1>3, <1>4, <1>5 DEF Next

\* A step that touches no message and no frame, and no turn but through its end.
LEMMA NothingMoves ==
    ASSUME PathTypes, SilentInv, StandsInv', UNCHANGED <<wire, buffer, flushed, stale, turn>>,
           worker' = "send" => worker = "send" \/ ~Told(turn)
    PROVE  SilentInv'
<1>1. /\ \A x : Sent(x)' = Sent(x) /\ Buffered(x)' = Buffered(x) /\ Told(x)' = Told(x)
  BY DEF Sent, Buffered, Told
<1>2. TellInv'
  BY <1>1 DEF SilentInv, TellInv
<1>3. OneBehind'
  BY <1>1 DEF SilentInv, OneBehind
<1>4. OneLeft'
  BY <1>1 DEF SilentInv, OneLeft
<1>5. DecidedInv'
  <2>1. CASE worker = "send"
    BY <1>1, <2>1 DEF SilentInv, DecidedInv
  <2>2. CASE worker' = "send" /\ ~Told(turn)
    BY <2>2 DEF DecidedInv, Told, Sent
  <2> QED
    BY <2>1, <2>2 DEF DecidedInv
<1> QED
  BY <1>2, <1>3, <1>4, <1>5 DEF SilentInv

LEMMA SilentWorker ==
    ASSUME PathTypes, SilentInv, Worker
    PROVE  SilentInv'
<1>1. UNCHANGED <<interrupted, loop, turn, completed, buffer, flushed, stale>>
  BY DEF Worker, StepGenerator, OnFrame, SendFrame, Record, Mark, CloseTurn, WorkerStep, loopVars,
     clientVars
<1>2. worker # "closed" /\ ~done /\ turn \in Turns
  <2>1. worker # "closed"
    BY DEF Worker, StepGenerator, OnFrame, SendFrame, Record, Mark, CloseTurn, WorkerStep
  <2> QED
    BY <2>1, BoundsAssumption DEF SilentInv, StandsInv, PathTypes, Turns
<1>3. done' => worker' = "closed"
  BY <1>2 DEF Worker, StepGenerator, OnFrame, SendFrame, Record, Mark, CloseTurn, WorkerStep
<1>4. CASE SendFrame
  <2>1. wire' = Append(wire, Frame(turn)) /\ worker = "send" /\ worker' = "record"
    BY <1>4 DEF SendFrame, WorkerStep
  <2>2. /\ Len(wire) \in Nat /\ Len(wire') = Len(wire) + 1
        /\ \A i \in 1 .. Len(wire') : \/ i \in 1 .. Len(wire) /\ wire'[i] = wire[i]
                                      \/ i = Len(wire) + 1 /\ wire'[i] = Frame(turn)
        /\ \A x : Sent(x)' => Sent(x) \/ x = Frame(turn)
    BY <1>2, <2>1, PutOn, Telling DEF PathTypes
  <2>3. \A t : (Told(t)' => Told(t)) /\ (Sent(Ending(t, FALSE))' => Sent(Ending(t, FALSE)))
    BY <1>1, <2>2, Telling DEF Told
  <2>4. \A i \in 1 .. Len(wire'), t \in Turns :
           wire'[i] = Ending(t, FALSE) => i \in 1 .. Len(wire) /\ wire'[i] = wire[i]
    BY <2>2, Telling
  <2>5. \A i \in 1 .. Len(wire'), t \in Turns : wire'[i] = Frame(t) =>
           \/ i \in 1 .. Len(wire) /\ wire'[i] = wire[i]
           \/ i = Len(wire) + 1 /\ t = turn
    BY <2>2, Telling
  <2>6. TellInv'
    <3>1. \A t \in Turns : Told(t)' => t <= turn
      BY <2>3 DEF SilentInv, TellInv
    <3>2. \A t \in flushed : ~Sent(Ending(t, FALSE))'
      BY <2>3 DEF SilentInv, TellInv
    <3>3. \A t \in Turns : \A i, k \in 1 .. Len(wire') :
             wire'[i] = Ending(t, FALSE) /\ wire'[k] = Ending(t, FALSE) => i = k
      BY <2>4 DEF SilentInv, TellInv
    <3> QED
      BY <1>1, <3>1, <3>2, <3>3 DEF SilentInv, TellInv
  <2>7. StandsInv'
    BY <1>1, <1>2, <1>3, <2>3 DEF SilentInv, StandsInv
  <2>8. DecidedInv'
    BY <2>1 DEF DecidedInv
  <2>9. OneBehind'
    <3>1. SUFFICES ASSUME NEW t \in Turns, NEW i \in 1 .. Len(wire'), NEW k \in 1 .. Len(wire'),
                          NEW l \in 1 .. Len(wire'),
                          wire'[i] = Ending(t, FALSE), wire'[k] = Frame(t), wire'[l] = Frame(t),
                          i < k, i < l
                   PROVE  k = l
      BY DEF OneBehind
    <3>2. i \in 1 .. Len(wire) /\ wire[i] = Ending(t, FALSE)
      BY <2>4, <3>1
    <3>3. ASSUME t = turn, NEW n \in 1 .. Len(wire'), i < n, wire'[n] = Frame(t)
          PROVE  n = Len(wire) + 1
      <4>1. \/ n \in 1 .. Len(wire) /\ wire'[n] = wire[n]
            \/ n = Len(wire) + 1
        BY <2>2
      <4> QED
        BY <2>1, <3>2, <3>3, <4>1 DEF SilentInv, DecidedInv
    <3>4. CASE t = turn
      BY <3>1, <3>3, <3>4
    <3>5. CASE t # turn
      <4>1. /\ k \in 1 .. Len(wire) /\ wire[k] = Frame(t)
            /\ l \in 1 .. Len(wire) /\ wire[l] = Frame(t)
        BY <2>5, <3>1, <3>5
      <4> QED
        BY <3>1, <3>2, <4>1 DEF SilentInv, OneBehind
    <3> QED
      BY <3>4, <3>5
  <2>10. OneLeft'
    <3>1. SUFFICES ASSUME NEW t \in flushed
                   PROVE  /\ \A k, l \in 1 .. Len(wire') :
                                wire'[k] = Frame(t) /\ wire'[l] = Frame(t) => k = l
                          /\ \A k, l \in 1 .. Len(buffer) : buffer[k] = t /\ buffer[l] = t => k = l
                          /\ Sent(Frame(t))' => ~Buffered(t)
                          /\ stale[t] # 0 => stale[t] = 1 /\ ~Sent(Frame(t))' /\ ~Buffered(t)
      BY <1>1 DEF OneLeft, Buffered
    <3>2. t \in Turns
      BY DEF PathTypes
    <3>3. CASE t = turn
      <4>1. ~Sent(Frame(t)) /\ ~Buffered(t) /\ stale[t] = 0
        BY <2>1, <3>3 DEF SilentInv, DecidedInv
      <4>2. \A k \in 1 .. Len(wire') : wire'[k] = Frame(t) => k = Len(wire) + 1
        BY <2>5, <3>2, <4>1 DEF Sent
      <4> QED
        BY <4>1, <4>2 DEF Buffered
    <3>4. CASE t # turn
      <4>1. Sent(Frame(t))' => Sent(Frame(t))
        BY <2>2, <3>4, Telling
      <4>2. \A k \in 1 .. Len(wire') :
               wire'[k] = Frame(t) => k \in 1 .. Len(wire) /\ wire[k] = Frame(t)
        BY <2>5, <3>2, <3>4
      <4> QED
        BY <4>1, <4>2 DEF SilentInv, OneLeft
    <3> QED
      BY <3>3, <3>4
  <2> QED
    BY <2>6, <2>7, <2>8, <2>9, <2>10 DEF SilentInv
<1>5. CASE ~SendFrame
  <2>1. wire' = wire
    BY <1>5 DEF Worker, StepGenerator, OnFrame, Record, Mark, CloseTurn
  <2>2. Told(turn)' = Told(turn)
    BY <1>1, <2>1 DEF Told, Sent
  <2>3. StandsInv'
    BY <1>1, <1>2, <1>3, <2>2 DEF SilentInv, StandsInv
  <2>4. worker' = "send" => ~interrupted
    BY <1>5 DEF Worker, StepGenerator, OnFrame, Record, Mark, CloseTurn, WorkerStep
  <2>5. worker' = "send" => ~Told(turn)
    BY <1>2, <2>4 DEF SilentInv, StandsInv
  <2> QED
    BY <1>1, <2>1, <2>3, <2>5, NothingMoves
<1> QED
  BY <1>4, <1>5

LEMMA SilentTurnLoop ==
    ASSUME PathTypes, SilentInv, ~stopping, TurnLoop
    PROVE  SilentInv'
<1>1. UNCHANGED <<buffer, flushed, stale>>
  BY DEF TurnLoop, CheckStopping, BeginTurn, StreamEnds, WaitCutShort, WaitGoesOn, LookAtTimeline,
     WaitDrained, WaitReturns, NotYet, SleepEnds, ClearChanged, SendTranscript, RecheckInterruption,
     WaitForCleanup, FinishTurn, Go, LoopStep, clientVars
<1>2. ASSUME UNCHANGED <<wire, turn, worker>>, StandsInv'
      PROVE  SilentInv'
  BY <1>1, <1>2, NothingMoves
<1>3. ASSUME UNCHANGED <<wire, turn>>
      PROVE  Told(turn)' = Told(turn)
  BY <1>1, <1>3 DEF Told, Sent
<1>4. CASE \/ CheckStopping \/ StreamEnds \/ WaitGoesOn \/ LookAtTimeline \/ NotYet \/ SleepEnds
           \/ ClearChanged \/ RecheckInterruption
  <2>1. /\ UNCHANGED <<wire, turn, worker, done, interrupted, completed>>
        /\ loop \notin {"transcript", "cleanup", "finish", "begin"}
        /\ loop' \notin {"transcript", "exit"}
        /\ loop = "next" => loop' = "begin"
        /\ loop = "recheck" => loop' = IF interrupted THEN "cleanup" ELSE "finish"
    BY <1>4 DEF CheckStopping, StreamEnds, WaitGoesOn, LookAtTimeline, NotYet, SleepEnds, ClearChanged,
       RecheckInterruption, Go, LoopStep, workerVars
  <2>2. StandsInv'
    BY <1>3, <2>1 DEF SilentInv, StandsInv
  <2> QED
    BY <1>2, <2>1, <2>2
<1>5. CASE WaitCutShort \/ WaitDrained
  <2>1. /\ UNCHANGED <<wire, turn, worker, done, interrupted>>
        /\ loop \in {"check", "decide"} /\ loop' = "transcript"
        /\ completed' \/ interrupted
    BY <1>5 DEF WaitCutShort, WaitDrained, WaitReturns, LoopStep, workerVars
  <2>2. StandsInv'
    BY <1>3, <2>1 DEF SilentInv, StandsInv
  <2> QED
    BY <1>2, <2>1, <2>2
<1>6. CASE WaitForCleanup
  <2>1. UNCHANGED <<wire, turn, worker, done, interrupted, completed>>
        /\ done /\ loop = "cleanup" /\ loop' = "finish"
    BY <1>6 DEF WaitForCleanup, Go, LoopStep, workerVars
  <2>2. StandsInv'
    BY <1>3, <2>1 DEF SilentInv, StandsInv
  <2> QED
    BY <1>2, <2>1, <2>2
<1>7. CASE FinishTurn
  <2>1. UNCHANGED <<wire, turn, worker, done, completed>> /\ loop = "finish" /\ loop' = "next"
    BY <1>7 DEF FinishTurn, LoopStep, workerVars
  <2>2. StandsInv'
    BY <1>3, <2>1 DEF SilentInv, StandsInv
  <2> QED
    BY <1>2, <2>1, <2>2
<1>8. CASE BeginTurn
  <2>1. /\ wire' = wire /\ turn' = turn + 1 /\ loop' = "stream" /\ worker' = "ready" /\ done' = FALSE
    BY <1>8 DEF BeginTurn, LoopStep
  <2>2. \A x : Sent(x)' = Sent(x) /\ Buffered(x)' = Buffered(x) /\ Told(x)' = Told(x)
    BY <1>1, <2>1 DEF Sent, Buffered, Told
  <2>3. turn' \in Turns /\ turn \in Nat
    BY <1>8, BoundsAssumption DEF BeginTurn, PathTypes, Turns
  <2>4. ~Told(turn')
    <3>1. Told(turn') => turn' <= turn
      BY <2>3 DEF SilentInv, TellInv
    <3> QED
      BY <2>1, <2>3, <3>1
  <2>5. StandsInv'
    <3>1. ~Told(turn)'
      BY <1>1, <2>1, <2>4 DEF Told, Sent
    <3> QED
      BY <2>1, <3>1 DEF StandsInv
  <2>6. TellInv'
    <3>1. \A t \in Turns : t <= turn => t <= turn'
      BY <2>1, <2>3 DEF Turns
    <3> QED
      BY <1>1, <2>1, <2>2, <3>1 DEF SilentInv, TellInv
  <2>7. DecidedInv'
    BY <2>1 DEF DecidedInv
  <2>8. OneBehind'
    BY <2>1 DEF SilentInv, OneBehind
  <2>9. OneLeft'
    BY <1>1, <2>1, <2>2 DEF SilentInv, OneLeft
  <2> QED
    BY <2>5, <2>6, <2>7, <2>8, <2>9 DEF SilentInv
<1>9. CASE SendTranscript
  <2>1. /\ wire' = Append(wire, Ending(turn, completed)) /\ loop = "transcript" /\ loop' = "recheck"
        /\ UNCHANGED <<turn, worker, done, interrupted, completed>>
    BY <1>9 DEF SendTranscript, LoopStep, workerVars
  <2>2. turn \in Turns /\ Ending(turn, completed) \in Messages
    BY <2>1, BoundsAssumption, Telling DEF PathTypes, Turns
  <2>3. /\ Len(wire) \in Nat /\ Len(wire') = Len(wire) + 1
        /\ \A i \in 1 .. Len(wire') : \/ i \in 1 .. Len(wire) /\ wire'[i] = wire[i]
                                      \/ i = Len(wire) + 1 /\ wire'[i] = Ending(turn, completed)
        /\ \A x : Sent(x)' => Sent(x) \/ x = Ending(turn, completed)
    BY <2>1, <2>2, PutOn DEF PathTypes
  <2>4. ~Told(turn)
    BY <2>1 DEF SilentInv, StandsInv
  <2>5. \A t \in Turns : Ending(turn, completed) # Frame(t)
                         /\ (Ending(turn, completed) = Ending(t, FALSE) => t = turn /\ ~completed)
    BY Telling DEF PathTypes
  <2>6. \A i \in 1 .. Len(wire'), t \in Turns : wire'[i] = Frame(t) =>
           i \in 1 .. Len(wire) /\ wire'[i] = wire[i]
    BY <2>3, <2>5
  <2>7. \A i \in 1 .. Len(wire'), t \in Turns : wire'[i] = Ending(t, FALSE) =>
           \/ i \in 1 .. Len(wire) /\ wire'[i] = wire[i]
           \/ i = Len(wire) + 1 /\ t = turn /\ ~completed
    BY <2>3, <2>5
  <2>8. /\ \A t \in Turns : Sent(Frame(t))' => Sent(Frame(t))
        /\ \A t \in Turns : Sent(Ending(t, FALSE))' =>
              Sent(Ending(t, FALSE)) \/ (t = turn /\ ~completed)
    BY <2>3, <2>5
  <2>9. TellInv'
    <3>1. \A t \in Turns : Told(t)' => t <= turn
      <4>1. \A t \in Turns : Told(t)' => Told(t) \/ t = turn
        BY <1>1, <2>8 DEF Told
      <4>2. turn <= turn
        BY <2>2 DEF Turns
      <4> QED
        BY <4>1, <4>2 DEF SilentInv, TellInv
    <3>2. \A t \in flushed : ~Sent(Ending(t, FALSE))'
      BY <2>4, <2>8 DEF SilentInv, TellInv, Told, PathTypes
    <3>3. \A t \in Turns : \A i, k \in 1 .. Len(wire') :
             wire'[i] = Ending(t, FALSE) /\ wire'[k] = Ending(t, FALSE) => i = k
      BY <2>4, <2>7 DEF SilentInv, TellInv, Told, Sent
    <3> QED
      BY <1>1, <2>1, <3>1, <3>2, <3>3 DEF SilentInv, TellInv
  <2>10. StandsInv'
    <3>1. Told(turn)' => ~completed
      BY <1>1, <2>1, <2>2, <2>4, <2>8 DEF Told
    <3> QED
      BY <2>1, <3>1 DEF SilentInv, StandsInv
  <2>11. DecidedInv'
    <3>1. SUFFICES ASSUME worker = "send"
                   PROVE  /\ turn \notin flushed
                          /\ \A i, k \in 1 .. Len(wire') :
                                wire'[i] = Ending(turn, FALSE) /\ i < k => wire'[k] # Frame(turn)
      BY <1>1, <2>1 DEF DecidedInv
    <3>2. \A i \in 1 .. Len(wire) : wire[i] # Ending(turn, FALSE)
      BY <2>4 DEF Told, Sent
    <3>3. \A i \in 1 .. Len(wire') : wire'[i] = Ending(turn, FALSE) => i = Len(wire) + 1
      BY <2>2, <2>7, <3>2
    <3>4. \A i, k \in 1 .. Len(wire') : i < k => i # Len(wire) + 1
      BY <2>3
    <3> QED
      BY <2>4, <3>3, <3>4 DEF Told
  <2>12. OneBehind'
    <3>1. SUFFICES ASSUME NEW t \in Turns, NEW i \in 1 .. Len(wire'), NEW k \in 1 .. Len(wire'),
                          NEW l \in 1 .. Len(wire'),
                          wire'[i] = Ending(t, FALSE), wire'[k] = Frame(t), wire'[l] = Frame(t),
                          i < k, i < l
                   PROVE  k = l
      BY DEF OneBehind
    <3>2. /\ k \in 1 .. Len(wire) /\ wire[k] = Frame(t)
          /\ l \in 1 .. Len(wire) /\ wire[l] = Frame(t)
      BY <2>6, <3>1
    <3>3. i # Len(wire) + 1
      BY <2>3, <3>1, <3>2
    <3>4. i \in 1 .. Len(wire) /\ wire[i] = Ending(t, FALSE)
      BY <2>7, <3>1, <3>3
    <3> QED
      BY <3>1, <3>2, <3>4 DEF SilentInv, OneBehind
  <2>13. OneLeft'
    <3>1. \A x : Buffered(x)' = Buffered(x)
      BY <1>1 DEF Buffered
    <3>2. flushed \subseteq Turns
      BY DEF PathTypes
    <3> QED
      BY <1>1, <2>6, <2>8, <3>1, <3>2 DEF SilentInv, OneLeft
  <2> QED
    BY <2>9, <2>10, <2>11, <2>12, <2>13 DEF SilentInv
<1> QED
  BY <1>4, <1>5, <1>6, <1>7, <1>8, <1>9 DEF TurnLoop

LEMMA SilentClient ==
    ASSUME PathTypes, SilentInv, Client
    PROVE  SilentInv'
<1>1. UNCHANGED <<interrupted, loop, turn, completed, worker, done, stale>>
  BY DEF Client, ReceiveFrame, ReceiveCompleted, ReceiveInterrupted, Receiving, loopVars, workerVars
<1>2. wire # <<>> /\ wire' = Tail(wire)
  BY DEF Client, ReceiveFrame, ReceiveCompleted, ReceiveInterrupted, Receiving
<1>3. /\ 1 \in 1 .. Len(wire) /\ Head(wire) = wire[1] /\ wire[1] \in Messages
      /\ \A i \in 1 .. Len(wire') :
            i + 1 \in 1 .. Len(wire) /\ wire'[i] = wire[i + 1] /\ 1 < i + 1
      /\ \A i, k \in 1 .. Len(wire') : (i + 1 = k + 1 => i = k) /\ (i < k => i + 1 < k + 1)
      /\ \A x : Sent(x)' => Sent(x)
  BY <1>2, ReadOff DEF PathTypes
<1>4. DEFINE u == wire[1].turn
<1>5. u \in Turns
  BY <1>3 DEF Messages
<1>6. \/ wire[1].kind \in {"frame", "completed"} /\ flushed' = flushed
      \/ wire[1] = Ending(u, FALSE) /\ flushed' = flushed \cup {u} /\ buffer' = <<>>
         /\ u \notin flushed
  <2>1. CASE ReceiveInterrupted
    <3>1. wire[1].kind = "interrupted" /\ flushed' = flushed \cup {u} /\ buffer' = <<>>
      BY <1>3, <2>1 DEF ReceiveInterrupted, Receiving
    <3>2. wire[1] = Ending(u, FALSE)
      BY <1>3, <3>1 DEF Messages, Ending
    <3>3. u \notin flushed
      BY <1>3, <3>2 DEF SilentInv, TellInv, Sent
    <3> QED
      BY <3>1, <3>2, <3>3
  <2>2. CASE ReceiveFrame \/ ReceiveCompleted
    BY <1>3, <2>2 DEF ReceiveFrame, ReceiveCompleted, Receiving
  <2> QED
    BY <2>1, <2>2 DEF Client
<1> HIDE DEF u
<1>7. flushed \subseteq flushed' /\ \A t : t \in flushed' => t \in flushed \/ (t = u /\ Sent(Ending(u, FALSE)))
  BY <1>3, <1>6 DEF Sent
<1>8. \A t : Told(t)' => Told(t)
  BY <1>3, <1>7 DEF Told
<1>9. TellInv'
  <2>1. \A t \in Turns : Told(t)' => t <= turn
    BY <1>8 DEF SilentInv, TellInv
  <2>2. ASSUME NEW t \in flushed'
        PROVE  ~Sent(Ending(t, FALSE))'
    <3>1. CASE t \in flushed
      BY <1>3, <3>1 DEF SilentInv, TellInv
    <3>2. CASE t \notin flushed
      <4>1. t = u /\ wire[1] = Ending(t, FALSE)
        BY <1>6, <3>2
      <4>2. ASSUME NEW i \in 1 .. Len(wire')
            PROVE  wire'[i] # Ending(t, FALSE)
        <5>1. i + 1 \in 1 .. Len(wire) /\ wire'[i] = wire[i + 1] /\ i + 1 # 1
          BY <1>3
        <5> QED
          BY <1>3, <1>5, <4>1, <5>1 DEF SilentInv, TellInv
      <4> QED
        BY <4>2 DEF Sent
    <3> QED
      BY <3>1, <3>2
  <2>3. \A t \in Turns \ flushed' : stale[t] = 0
    BY <1>7 DEF SilentInv, TellInv
  <2>4. \A t \in Turns : \A i, k \in 1 .. Len(wire') :
           wire'[i] = Ending(t, FALSE) /\ wire'[k] = Ending(t, FALSE) => i = k
    <3>1. TAKE t \in Turns
    <3>2. TAKE i, k \in 1 .. Len(wire')
    <3>3. /\ i + 1 \in 1 .. Len(wire) /\ wire'[i] = wire[i + 1]
          /\ k + 1 \in 1 .. Len(wire) /\ wire'[k] = wire[k + 1]
          /\ i + 1 = k + 1 => i = k
      BY <1>3
    <3> QED
      BY <3>3 DEF SilentInv, TellInv
  <2> QED
    BY <1>1, <2>1, <2>2, <2>3, <2>4 DEF TellInv
<1>10. StandsInv'
  BY <1>1, <1>8 DEF SilentInv, StandsInv
<1>11. OneBehind'
  <2>1. SUFFICES ASSUME NEW t \in Turns, NEW i \in 1 .. Len(wire'), NEW k \in 1 .. Len(wire'),
                        NEW l \in 1 .. Len(wire'),
                        wire'[i] = Ending(t, FALSE), wire'[k] = Frame(t), wire'[l] = Frame(t),
                        i < k, i < l
                 PROVE  k = l
    BY DEF OneBehind
  <2>2. /\ i + 1 \in 1 .. Len(wire) /\ wire[i + 1] = Ending(t, FALSE)
        /\ k + 1 \in 1 .. Len(wire) /\ wire[k + 1] = Frame(t) /\ i + 1 < k + 1
        /\ l + 1 \in 1 .. Len(wire) /\ wire[l + 1] = Frame(t) /\ i + 1 < l + 1
    BY <1>3, <2>1
  <2>3. k + 1 = l + 1
    BY <2>2 DEF SilentInv, OneBehind
  <2> QED
    BY <1>3, <2>3
<1>12. \A t \in Turns : \A k \in 1 .. Len(buffer') : buffer'[k] = t =>
          \/ k \in 1 .. Len(buffer) /\ buffer[k] = t
          \/ k = Len(buffer) + 1 /\ wire[1] = Frame(t)
  <2>1. CASE ReceiveFrame
    <3>1. buffer' = Append(buffer, u) /\ wire[1].kind = "frame"
      BY <1>3, <2>1 DEF ReceiveFrame, Receiving, u
    <3>2. wire[1] = Frame(u)
      BY <1>3, <3>1 DEF Messages, Frame, u
    <3>3. \A k \in 1 .. Len(buffer') : \/ k \in 1 .. Len(buffer) /\ buffer'[k] = buffer[k]
                                       \/ k = Len(buffer) + 1 /\ buffer'[k] = u
      BY <1>5, <3>1 DEF PathTypes
    <3> QED
      BY <3>2, <3>3
  <2>2. CASE ReceiveCompleted \/ ReceiveInterrupted
    <3>1. buffer' = buffer \/ buffer' = <<>>
      BY <2>2 DEF ReceiveCompleted, ReceiveInterrupted
    <3>2. Len(<<>>) = 0
      OBVIOUS
    <3> QED
      BY <3>1, <3>2
  <2> QED
    BY <2>1, <2>2 DEF Client
<1>13. \A t \in Turns : Buffered(t)' => Buffered(t) \/ wire[1] = Frame(t)
  BY <1>12 DEF Buffered
<1>14. \A t \in Turns : wire[1] = Frame(t) => Sent(Frame(t))
  BY <1>3 DEF Sent
<1>15. OneLeft'
  <2>1. SUFFICES ASSUME NEW t \in flushed'
                 PROVE  /\ \A k, l \in 1 .. Len(wire') :
                              wire'[k] = Frame(t) /\ wire'[l] = Frame(t) => k = l
                        /\ \A k, l \in 1 .. Len(buffer') : buffer'[k] = t /\ buffer'[l] = t => k = l
                        /\ Sent(Frame(t))' => ~Buffered(t)'
                        /\ stale[t] # 0 => stale[t] = 1 /\ ~Sent(Frame(t))' /\ ~Buffered(t)'
    BY <1>1 DEF OneLeft
  <2>2. t \in Turns
    BY <1>5, <1>7 DEF PathTypes
  <2>3. CASE t \in flushed
    <3>1. /\ \A k, l \in 1 .. Len(wire) : wire[k] = Frame(t) /\ wire[l] = Frame(t) => k = l
          /\ \A k, l \in 1 .. Len(buffer) : buffer[k] = t /\ buffer[l] = t => k = l
          /\ Sent(Frame(t)) => ~Buffered(t)
          /\ stale[t] # 0 => stale[t] = 1 /\ ~Sent(Frame(t)) /\ ~Buffered(t)
      BY <2>3 DEF SilentInv, OneLeft
    <3>2. \A k, l \in 1 .. Len(wire') : wire'[k] = Frame(t) /\ wire'[l] = Frame(t) => k = l
      BY <1>3, <3>1
    <3>3. ASSUME NEW k \in 1 .. Len(buffer'), NEW l \in 1 .. Len(buffer'),
                 buffer'[k] = t, buffer'[l] = t
          PROVE  k = l
      <4>1. wire[1] = Frame(t) => ~Buffered(t)
        BY <1>14, <2>2, <3>1
      <4> QED
        BY <1>12, <2>2, <3>1, <3>3, <4>1 DEF Buffered
    <3>4. ASSUME Sent(Frame(t))'
          PROVE  ~Buffered(t)'
      <4>1. wire[1] # Frame(t)
        <5>1. PICK i \in 1 .. Len(wire') : wire'[i] = Frame(t)
          BY <3>4 DEF Sent
        <5> QED
          BY <1>3, <3>1, <5>1
      <4> QED
        BY <1>3, <1>13, <2>2, <3>1, <3>4, <4>1
    <3>5. stale[t] # 0 => stale[t] = 1 /\ ~Sent(Frame(t))' /\ ~Buffered(t)'
      BY <1>3, <1>13, <1>14, <2>2, <3>1
    <3> QED
      BY <3>2, <3>3, <3>4, <3>5
  <2>4. CASE t \notin flushed
    <3>1. t = u /\ wire[1] = Ending(t, FALSE) /\ buffer' = <<>> /\ Len(<<>>) = 0
      BY <1>6, <2>4
    <3>2. stale[t] = 0
      BY <2>2, <2>4 DEF SilentInv, TellInv
    <3>3. \A k, l \in 1 .. Len(wire') : wire'[k] = Frame(t) /\ wire'[l] = Frame(t) => k = l
      <4>1. TAKE k, l \in 1 .. Len(wire')
      <4>2. wire'[k] = Frame(t) /\ wire'[l] = Frame(t) => k + 1 = l + 1
        <5>1. SUFFICES ASSUME wire'[k] = Frame(t), wire'[l] = Frame(t)
                       PROVE  k + 1 = l + 1
          OBVIOUS
        <5>2. /\ k + 1 \in 1 .. Len(wire) /\ wire[k + 1] = Frame(t) /\ 1 < k + 1
              /\ l + 1 \in 1 .. Len(wire) /\ wire[l + 1] = Frame(t) /\ 1 < l + 1
          BY <1>3, <5>1
        <5> QED
          BY <1>3, <2>2, <3>1, <5>2 DEF SilentInv, OneBehind
      <4> QED
        BY <1>3, <4>2
    <3>4. ~Buffered(t)' /\ \A k \in 1 .. Len(buffer') : FALSE
      BY <3>1 DEF Buffered
    <3> QED
      BY <3>2, <3>3, <3>4
  <2> QED
    BY <2>3, <2>4
<1>16. DecidedInv'
  <2>1. SUFFICES ASSUME worker = "send"
                 PROVE  /\ turn \in flushed' =>
                              ~Sent(Frame(turn))' /\ ~Buffered(turn)' /\ stale[turn] = 0
                        /\ \A i, k \in 1 .. Len(wire') :
                              wire'[i] = Ending(turn, FALSE) /\ i < k => wire'[k] # Frame(turn)
    BY <1>1 DEF DecidedInv
  <2>2. turn \in Turns
    BY <2>1, BoundsAssumption DEF PathTypes, Turns
  <2>3. /\ turn \in flushed => ~Sent(Frame(turn)) /\ ~Buffered(turn) /\ stale[turn] = 0
        /\ \A i, k \in 1 .. Len(wire) :
              wire[i] = Ending(turn, FALSE) /\ i < k => wire[k] # Frame(turn)
    BY <2>1 DEF SilentInv, DecidedInv
  <2>4. \A i, k \in 1 .. Len(wire') :
           wire'[i] = Ending(turn, FALSE) /\ i < k => wire'[k] # Frame(turn)
    <3>1. TAKE i, k \in 1 .. Len(wire')
    <3>2. /\ i + 1 \in 1 .. Len(wire) /\ wire'[i] = wire[i + 1]
          /\ k + 1 \in 1 .. Len(wire) /\ wire'[k] = wire[k + 1]
          /\ i < k => i + 1 < k + 1
      BY <1>3
    <3> QED
      BY <2>3, <3>2
  <2>5. CASE turn \in flushed
    <3>1. ~Sent(Frame(turn))' /\ wire[1] # Frame(turn)
      BY <1>1, <1>3, <1>14, <2>2, <2>3, <2>5
    <3>2. ~Buffered(turn)'
      BY <1>1, <1>13, <2>2, <2>3, <2>5, <3>1
    <3> QED
      BY <2>3, <2>4, <2>5, <3>1, <3>2
  <2>6. CASE turn \in flushed' /\ turn \notin flushed
    <3>1. wire[1] = Ending(turn, FALSE) /\ buffer' = <<>> /\ Len(<<>>) = 0
      BY <1>6, <2>6
    <3>2. stale[turn] = 0
      BY <2>2, <2>6 DEF SilentInv, TellInv
    <3>3. \A k \in 1 .. Len(wire') : wire'[k] # Frame(turn)
      BY <1>3, <2>3, <3>1
    <3>4. ~Sent(Frame(turn))'
      BY <1>1, <3>3 DEF Sent
    <3>5. ~Buffered(turn)'
      BY <3>1 DEF Buffered
    <3> QED
      BY <2>4, <3>2, <3>4, <3>5
  <2> QED
    BY <2>4, <2>5, <2>6
<1> QED
  BY <1>9, <1>10, <1>11, <1>15, <1>16 DEF SilentInv

LEMMA SilentTick ==
    ASSUME PathTypes, SilentInv, Tick
    PROVE  SilentInv'
<1>1. UNCHANGED <<interrupted, loop, turn, completed, worker, done, wire, flushed>>
  BY DEF Tick, loopVars, workerVars
<1>2. \A x : Sent(x)' = Sent(x) /\ Told(x)' = Told(x)
  BY <1>1 DEF Sent, Told
<1>3. StandsInv' /\ OneBehind'
  BY <1>1, <1>2 DEF SilentInv, StandsInv, OneBehind
<1>4. CASE buffer = <<>>
  <2>1. UNCHANGED <<buffer, stale>>
    BY <1>4 DEF Tick
  <2> QED
    BY <1>1, <1>3, <2>1, NothingMoves
<1>5. CASE buffer # <<>>
  <2>1. DEFINE u == Head(buffer)
  <2>2. /\ 1 \in 1 .. Len(buffer) /\ u = buffer[1] /\ u \in Turns
        /\ \A k \in 1 .. Len(buffer') : k + 1 \in 1 .. Len(buffer) /\ buffer'[k] = buffer[k + 1]
                                        /\ k + 1 # 1
        /\ \A k, l \in 1 .. Len(buffer') : k + 1 = l + 1 => k = l
    BY <1>5 DEF Tick, PathTypes
  <2>3. stale' = IF u \in flushed THEN [stale EXCEPT ![u] = @ + 1] ELSE stale
    BY <1>5 DEF Tick
  <2>4. /\ stale \in [Turns -> Nat] /\ flushed \subseteq Turns
        /\ u \in flushed => stale'[u] = stale[u] + 1
        /\ \A t \in Turns : t # u \/ u \notin flushed => stale'[t] = stale[t]
    BY <2>2, <2>3 DEF PathTypes
  <2> HIDE DEF u
  <2>5. /\ \A t \in Turns : Buffered(t)' => Buffered(t)
        /\ Buffered(u)
    BY <2>2 DEF Buffered
  <2>6. TellInv'
    BY <1>1, <1>2, <2>4 DEF SilentInv, TellInv
  <2>7. DecidedInv'
    <3>1. SUFFICES ASSUME worker = "send"
                   PROVE  /\ turn \in flushed =>
                                ~Sent(Frame(turn)) /\ ~Buffered(turn)' /\ stale'[turn] = 0
                          /\ \A i, k \in 1 .. Len(wire) :
                                wire[i] = Ending(turn, FALSE) /\ i < k => wire[k] # Frame(turn)
      BY <1>1, <1>2 DEF DecidedInv
    <3>2. /\ turn \in flushed => ~Sent(Frame(turn)) /\ ~Buffered(turn) /\ stale[turn] = 0
          /\ \A i, k \in 1 .. Len(wire) :
                wire[i] = Ending(turn, FALSE) /\ i < k => wire[k] # Frame(turn)
      BY <3>1 DEF SilentInv, DecidedInv
    <3>3. turn \in flushed => turn \in Turns /\ turn # u
      BY <2>4, <2>5, <3>2
    <3> QED
      BY <1>1, <2>4, <2>5, <3>2, <3>3
  <2>8. OneLeft'
    <3>1. SUFFICES ASSUME NEW t \in flushed
                   PROVE  /\ \A k, l \in 1 .. Len(wire) :
                                wire[k] = Frame(t) /\ wire[l] = Frame(t) => k = l
                          /\ \A k, l \in 1 .. Len(buffer') :
                                buffer'[k] = t /\ buffer'[l] = t => k = l
                          /\ Sent(Frame(t)) => ~Buffered(t)'
                          /\ stale'[t] # 0 => stale'[t] = 1 /\ ~Sent(Frame(t)) /\ ~Buffered(t)'
      BY <1>1, <1>2 DEF OneLeft
    <3>2. /\ \A k, l \in 1 .. Len(wire) : wire[k] = Frame(t) /\ wire[l] = Frame(t) => k = l
          /\ \A k, l \in 1 .. Len(buffer) : buffer[k] = t /\ buffer[l] = t => k = l
          /\ Sent(Frame(t)) => ~Buffered(t)
          /\ stale[t] # 0 => stale[t] = 1 /\ ~Sent(Frame(t)) /\ ~Buffered(t)
          /\ t \in Turns
      BY <2>4 DEF SilentInv, OneLeft
    <3>3. \A k, l \in 1 .. Len(buffer') : buffer'[k] = t /\ buffer'[l] = t => k = l
      BY <2>2, <3>2
    <3>4. CASE t = u
      <4>1. stale'[t] = 1 /\ ~Sent(Frame(t))
        BY <2>4, <2>5, <3>2, <3>4
      <4>2. ~Buffered(t)'
        BY <2>2, <3>2, <3>4 DEF Buffered
      <4> QED
        BY <3>2, <3>3, <4>1, <4>2
    <3>5. CASE t # u
      BY <2>4, <2>5, <3>2, <3>3, <3>5
    <3> QED
      BY <3>4, <3>5
  <2> QED
    BY <1>3, <2>6, <2>7, <2>8 DEF SilentInv
<1> QED
  BY <1>4, <1>5

LEMMA PathStep == PathInv /\ [Next]_vars => PathInv'
<1> SUFFICES ASSUME PathInv, [Next]_vars PROVE PathInv'
  OBVIOUS
<1>1. PathTypes'
  BY PathTypesHold DEF PathInv
<1>2. stopping => stopping'
  BY DEF Next, Worker, StepGenerator, OnFrame, SendFrame, Record, Mark, CloseTurn, WorkerStep,
     TurnLoop, CheckStopping, BeginTurn, StreamEnds, WaitCutShort, WaitGoesOn, LookAtTimeline,
     WaitDrained, WaitReturns, NotYet, SleepEnds, ClearChanged, SendTranscript,
     RecheckInterruption, WaitForCleanup, FinishTurn, Go, LoopStep, Interrupt, Stop, Client,
     ReceiveFrame, ReceiveCompleted, ReceiveInterrupted, Receiving, Tick, vars
<1>3. ASSUME ~stopping'
      PROVE  SilentInv'
  <2>1. PathTypes /\ SilentInv /\ ~stopping
    BY <1>2, <1>3 DEF PathInv
  <2>2. CASE Interrupt \/ Stop \/ UNCHANGED vars
    <3>1. /\ UNCHANGED <<wire, buffer, flushed, stale, turn, worker, done, loop, completed>>
          /\ interrupted => interrupted'
      BY <1>3, <2>2 DEF Interrupt, Stop, vars, workerVars, loopVars, clientVars
    <3>2. Told(turn)' = Told(turn)
      BY <3>1 DEF Told, Sent
    <3>3. StandsInv'
      BY <2>1, <3>1, <3>2 DEF SilentInv, StandsInv
    <3> QED
      BY <2>1, <3>1, <3>3, NothingMoves
  <2> QED
    BY <2>1, <2>2, SilentWorker, SilentTurnLoop, SilentClient, SilentTick DEF Next
<1> QED
  BY <1>1, <1>3 DEF PathInv

\* InterruptedFallsSilent, for any number of replies of any length, and a wire and
\* a buffer that hold any number of frames.
THEOREM FallsSilent == Spec => []InterruptedFallsSilent
<1>1. ASSUME Init
      PROVE  PathInv
  <2>1. PathTypes
    <3>1. <<>> \in Seq(Messages) /\ <<>> \in Seq(Turns) /\ 0 \in 0 .. MaxTurns
      BY BoundsAssumption
    <3> QED
      BY <1>1, <3>1 DEF Init, PathTypes
  <2>2. wire = <<>> /\ Len(<<>>) = 0 /\ flushed = {} /\ (\A t \in Turns : stale[t] = 0)
        /\ worker = "closed" /\ loop = "next"
    BY <1>1 DEF Init
  <2>3. \A x : ~Sent(x) /\ ~Told(x)
    BY <2>2 DEF Sent, Told
  <2> QED
    BY <2>1, <2>2, <2>3 DEF PathInv, SilentInv, TellInv, StandsInv, DecidedInv, OneBehind, OneLeft
<1>2. PathInv => InterruptedFallsSilent
  <2>1. ASSUME PathTypes, SilentInv, NEW t \in Turns
        PROVE  stale[t] <= 1
    <3>1. stale[t] = 0 \/ stale[t] = 1
      BY <2>1 DEF SilentInv, TellInv, OneLeft
    <3> QED
      BY <3>1
  <2> QED
    BY <2>1 DEF PathInv, InterruptedFallsSilent
<1> QED
  BY <1>1, <1>2, PathStep, PTL DEF Spec
=============================================================================
