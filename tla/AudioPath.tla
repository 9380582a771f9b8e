------------------------------ MODULE AudioPath ------------------------------
(***************************************************************************)
(* The way of a reply to the user's ears: the TTS worker sends frames and  *)
(* accounts for them, the turn loop waits until they should have played or *)
(* somebody interrupts, and the client queues what arrives, plays a frame  *)
(* per tick, and flushes its queue when it reads that the reply was        *)
(* interrupted.                                                            *)
(*                                                                         *)
(* The worker is reduced to the frames and marks of the open turn: what    *)
(* one turn may leave to the next is the subject of Speech.                *)
(***************************************************************************)
EXTENDS Playback

CONSTANTS MaxTurns,     \* bound: replies
          MaxWords      \* bound: words of one reply

ASSUME BoundsAssumption == MaxTurns \in Nat /\ MaxWords \in Nat

VARIABLES worker,       \* where the TTS worker is
          done,         \* the turn's _done event
          interrupted,  \* the session's event
          stopping,     \* the stopping event
          loop,         \* where the turn loop is
          turn,         \* turns begun; the serial number of the current one
          drained,      \* wait_until_complete: played >= emitted, as read under the lock
          completed,    \* what it returned
          unseen,       \* ghost: frames accounted for between that and the decision
          wire,         \* frames and transcripts on their way to the client
          buffer,       \* the client's playback queue
          flushed,      \* ghost: the turns the client has read to be interrupted
          stale         \* ghost: per turn, its frames played after that

workerVars == <<worker, done>>
loopVars   == <<loop, turn, drained, completed>>
clientVars == <<buffer, flushed, stale>>
vars == <<trackerVars, workerVars, interrupted, stopping, loopVars, unseen, wire, clientVars>>

Turns == 1 .. MaxTurns
Waiting == {"check", "look", "decide", "sleep", "clear"}

Frame(t)         == [kind |-> "frame", turn |-> t]
Ending(t, whole) == [kind |-> IF whole THEN "completed" ELSE "interrupted", turn |-> t]
Messages == [kind : {"frame", "completed", "interrupted"}, turn : Turns]

TypeOK ==
    /\ TrackerTypeOK
    /\ worker \in {"ready", "frame", "send", "record", "closed"}
    /\ done \in BOOLEAN /\ interrupted \in BOOLEAN /\ stopping \in BOOLEAN
    /\ loop \in Waiting \cup {"next", "begin", "stream", "transcript", "recheck", "cleanup",
                                "finish", "exit"}
    /\ turn \in 0 .. MaxTurns
    /\ drained \in BOOLEAN /\ completed \in BOOLEAN /\ unseen \in 0 .. MaxFrames
    /\ wire \in Seq(Messages)
    /\ buffer \in Seq(Turns)
    /\ flushed \subseteq Turns
    /\ stale \in [Turns -> Nat]

Init ==
    /\ TrackerInit
    /\ worker = "closed" /\ done = FALSE
    /\ interrupted = FALSE /\ stopping = FALSE
    /\ loop = "next" /\ turn = 0
    /\ drained = FALSE /\ completed = FALSE /\ unseen = 0
    /\ wire = <<>> /\ buffer = <<>>
    /\ flushed = {} /\ stale = [t \in Turns |-> 0]

-----------------------------------------------------------------------------
\* The TTS worker on the open turn.

WorkerStep(from, to) ==
    /\ worker = from
    /\ worker' = to
    /\ UNCHANGED <<interrupted, stopping, loopVars, clientVars>>

StepGenerator ==
    /\ WorkerStep("ready", "frame")
    /\ emitted < MaxFrames
    /\ UNCHANGED <<trackerVars, done, unseen, wire>>

OnFrame_Unchecked ==            \* mutant: conversation audio ignores the interruption
    /\ WorkerStep("frame", "send")
    /\ UNCHANGED <<trackerVars, done, unseen, wire>>

OnFrame ==
    /\ WorkerStep("frame", IF interrupted THEN "ready" ELSE "send")
    /\ UNCHANGED <<trackerVars, done, unseen, wire>>

SendFrame ==
    /\ WorkerStep("send", "record")
    /\ wire' = Append(wire, Frame(turn))
    /\ UNCHANGED <<trackerVars, done, unseen>>

Record ==
    /\ WorkerStep("record", "ready")
    /\ RecordEmission
    /\ unseen' = IF loop = "decide" THEN unseen + 1 ELSE unseen
    /\ UNCHANGED <<done, wire>>

Mark ==
    /\ WorkerStep("ready", "ready")
    /\ Len(marks) < MaxWords
    /\ MarkSpoken
    /\ UNCHANGED <<done, unseen, wire>>

\* The EndOfTurn, which the loop queues before it waits.
CloseTurn ==
    /\ WorkerStep("ready", "closed")
    /\ loop # "stream"
    /\ done' = TRUE
    /\ UNCHANGED <<trackerVars, unseen, wire>>

Worker == StepGenerator \/ OnFrame \/ SendFrame \/ Record \/ Mark \/ CloseTurn

-----------------------------------------------------------------------------
\* The turn loop: a reply, the wait for its end, and the transcript.

LoopStep(from, to) ==
    /\ loop = from
    /\ loop' = to
    /\ UNCHANGED <<stopping, clientVars>>

\* A step that changes nothing but the place.
Go(from, to) ==
    /\ LoopStep(from, to)
    /\ UNCHANGED <<trackerVars, workerVars, interrupted, turn, drained, completed, unseen, wire>>

CheckStopping == Go("next", IF stopping THEN "exit" ELSE "begin")

BeginTurn ==
    /\ LoopStep("begin", "stream")
    /\ turn < MaxTurns
    /\ interrupted' = FALSE
    /\ ResetTurn
    /\ turn' = turn + 1
    /\ worker' = "ready" /\ done' = FALSE
    /\ unseen' = 0
    /\ UNCHANGED <<drained, completed, wire>>

StreamEnds == Go("stream", "check")

WaitReturns(from, result) ==
    /\ LoopStep(from, "transcript")
    /\ completed' = result
    /\ UNCHANGED <<trackerVars, workerVars, interrupted, turn, drained, unseen, wire>>

WaitCutShort == (stopping \/ interrupted) /\ WaitReturns("check", FALSE)
WaitGoesOn   == ~stopping /\ ~interrupted /\ Go("check", "look")

LookAtTimeline ==
    /\ LoopStep("look", "decide")
    /\ drained' = (Played >= emitted)
    /\ UNCHANGED <<trackerVars, workerVars, interrupted, turn, completed, unseen, wire>>

WaitDrained_NotPlayed == done /\ WaitReturns("decide", TRUE)    \* mutant: synthesis alone
WaitDrained           == done /\ drained /\ WaitReturns("decide", TRUE)

NotYet ==
    /\ LoopStep("decide", "sleep")
    /\ ~(done /\ drained)
    /\ unseen' = 0
    /\ UNCHANGED <<trackerVars, workerVars, interrupted, turn, drained, completed, wire>>

\* _changed.wait(0.05), which returns on the event or on the timeout.
SleepEnds_Untimed == changed /\ Go("sleep", "clear")    \* mutant: wait() without a timeout
SleepEnds         == Go("sleep", "clear")

ClearChanged ==
    /\ LoopStep("clear", "check")
    /\ changed' = FALSE
    /\ UNCHANGED <<started, elapsed, emitted, marks, workerVars, interrupted, turn,
                   drained, completed, unseen, wire>>

\* heard_text is read and put in the transcript.
SendTranscript ==
    /\ LoopStep("transcript", "recheck")
    /\ wire' = Append(wire, Ending(turn, completed))
    /\ UNCHANGED <<trackerVars, workerVars, interrupted, turn, drained, completed, unseen>>

RecheckInterruption == Go("recheck", IF interrupted THEN "cleanup" ELSE "finish")

WaitForCleanup == done /\ Go("cleanup", "finish")

FinishTurn ==
    /\ LoopStep("finish", "next")
    /\ interrupted' = FALSE
    /\ UNCHANGED <<trackerVars, workerVars, turn, drained, completed, unseen, wire>>

TurnLoop ==
    \/ CheckStopping \/ BeginTurn \/ StreamEnds
    \/ WaitCutShort \/ WaitGoesOn \/ LookAtTimeline \/ WaitDrained \/ NotYet
    \/ SleepEnds \/ ClearChanged
    \/ SendTranscript \/ RecheckInterruption \/ WaitForCleanup \/ FinishTurn

-----------------------------------------------------------------------------
\* Those who interrupt a reply.

Interrupt ==
    /\ ~interrupted
    /\ interrupted' = TRUE
    /\ WakeWaiters
    /\ UNCHANGED <<workerVars, stopping, loopVars, unseen, wire, clientVars>>

Stop ==
    /\ ~stopping
    /\ stopping' = TRUE
    /\ UNCHANGED <<trackerVars, workerVars, interrupted, loopVars, unseen, wire, clientVars>>

-----------------------------------------------------------------------------
\* The client.

Receiving(kind) ==
    /\ wire # <<>>
    /\ Head(wire).kind = kind
    /\ wire' = Tail(wire)
    /\ UNCHANGED <<trackerVars, workerVars, interrupted, stopping, loopVars, unseen, stale>>

ReceiveFrame ==
    /\ Receiving("frame")
    /\ buffer' = Append(buffer, Head(wire).turn)
    /\ UNCHANGED flushed

ReceiveCompleted ==             \* logged only
    /\ Receiving("completed")
    /\ UNCHANGED <<buffer, flushed>>

ReceiveInterrupted_KeepsQueue ==        \* mutant: the queue plays on
    /\ Receiving("interrupted")
    /\ flushed' = flushed \cup {Head(wire).turn}
    /\ UNCHANGED buffer

ReceiveInterrupted ==
    /\ Receiving("interrupted")
    /\ flushed' = flushed \cup {Head(wire).turn}
    /\ buffer' = <<>>

Client == ReceiveFrame \/ ReceiveCompleted \/ ReceiveInterrupted

\* 80 ms pass, and the client's callback takes a frame, or plays silence.
Tick ==
    /\ Age
    /\ buffer' = IF buffer = <<>> THEN <<>> ELSE Tail(buffer)
    /\ stale' = IF buffer # <<>> /\ Head(buffer) \in flushed
                THEN [stale EXCEPT ![Head(buffer)] = @ + 1] ELSE stale
    /\ UNCHANGED <<workerVars, interrupted, stopping, loopVars, unseen, wire, flushed>>

Next == Worker \/ TurnLoop \/ Interrupt \/ Stop \/ Client \/ Tick

Spec == Init /\ [][Next]_vars

\* The worker has only so much to generate and closes the turn in the end; the
\* loop keeps running and time passes.  Nobody has to interrupt.
Fairness == WF_vars(Worker) /\ SF_vars(CloseTurn) /\ WF_vars(TurnLoop) /\ WF_vars(Tick)

FairSpec == Spec /\ Fairness

-----------------------------------------------------------------------------
\* Properties.

\* Within a turn, what counts as heard only grows, a word after the words
\* before it: a transcript never loses a word that an earlier look at the
\* timeline had counted (playback.py:51-81).
HeardOnlyGrows ==
    [][/\ turn' = turn => Heard \subseteq Heard'
       /\ \A i \in Heard' : 1 .. i \subseteq Heard']_vars

\* Once the client has read that a reply was interrupted, it plays no more than
\* the one frame that the worker had already decided to send (client.py:175-176,
\* tts.py:245-249) -- until the server stops, when the transcript may precede the
\* interruption.
InterruptedFallsSilent == stopping \/ \A t \in Turns : stale[t] <= 1

\* The wait ends although neither the passing of time nor the close of the turn
\* sets the event it sleeps on: the timeout is what makes it look again
\* (playback.py:100-112).
WaitEnds == loop \in Waiting ~> loop \notin Waiting

\* A completed wait has seen synthesis finished and every frame played that was
\* accounted for when it read the timeline.  The docstring promises every frame
\* (playback.py:95-96), but those of the moment between the lock and the done
\* event, if the turn is closed in it as well, are not waited for.
CompletedMeansPlayed ==
    loop = "transcript" /\ completed => done /\ Played >= emitted - unseen
=============================================================================
