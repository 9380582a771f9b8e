----------------------------- MODULE TurnTaking -----------------------------
(***************************************************************************)
(* Turn taking: the threads of the server around one ConversationSession.  *)
(*                                                                         *)
(*   - a handler thread per /conversation socket (server.py) puts the      *)
(*     frames it receives on mic_frames;                                   *)
(*   - the listener thread (asr.py, listen_worker and VoiceInputProcessor) *)
(*     takes them off, decides whether the user speaks, pauses, finishes   *)
(*     or interrupts, and puts recognized prompts on turns;                *)
(*   - the turn loop (conversation.py, turn_loop and _run_turn) answers    *)
(*     one prompt at a time;                                               *)
(*   - the TTS worker, reduced here to the queued EndOfTurns it closes in  *)
(*     order (Speech has the detail);                                      *)
(*   - the main thread's shutdown (__main__.py).                           *)
(*                                                                         *)
(* A frame is the connection it came from; what the recognizers make of it *)
(* is a choice.  One frame of the model stands for the run of 32 ms blocks *)
(* that leads to one decision.                                             *)
(***************************************************************************)
EXTENDS Session, Sequences

CONSTANT Frames         \* bound: how many frames each connection sends

\* ws is the QueuedTurn's connection; speaker is a ghost, whose voice it was.
QueuedTurn == [ws : Conns, speaker : Conns \cup {None}]

ASSUME SentinelAssumption == None \notin QueuedTurn
ASSUME FramesAssumption == Frames \in [Conns -> Nat]

VARIABLES handler,     \* per socket: where its handler thread is
          closed,      \* the sockets the server knows to be closed
          sent,        \* per socket: the frames received so far (bounds the model)
          mic,         \* mic_frames
          listener,    \* where the listener thread is
          utter,       \* turn_state of the VoiceInputProcessor
          speaker,     \* ghost: the connection whose frame opened the utterance
          prompt,      \* the prompt the listener is handing over, or None
          turns,       \* the queue of QueuedTurns and the None sentinel
          loop,        \* where the turn loop is
          item,        \* the QueuedTurn being answered, or None
          served,      \* turns begun so far; the serial number of the current one
          completed,   \* what wait_for_playback returned
          failed,      \* the model stream of this turn raised AgentRunError
          cut,         \* ghost: when this turn was interrupted
          ends,        \* EndOfTurn jobs the TTS worker has not closed
          done,        \* the turns whose done event is set
          main,        \* where the main thread is
          stopping,    \* the stopping event
          ttsStopped   \* TTS._stopped

handlerVars  == <<handler, closed, sent>>
listenerVars == <<listener, utter, speaker, prompt>>
turnVars     == <<loop, item, served, completed, failed, cut>>
ttsVars      == <<ends, done, ttsStopped>>
mainVars     == <<main, stopping>>
vars == <<sessionVars, handlerVars, mic, listenerVars, turns, turnVars, ttsVars, mainVars>>

HandlerStates  == {"new", "acquired", "refused", "serving", "leaving", "releasing", "gone"}
ListenerStates == {"check", "get", "barge", "resolve", "send", "giveback", "handoff", "put", "exit"}
UtterStates    == {"idle", "recording", "awaiting"}
LoopStates     == {"check", "get", "owner", "drop", "begin", "stream", "abandon", "end", "wait",
                   "drain", "transcript", "recheck", "cleanup", "finish", "exit"}
MainStates     == {"serving", "interrupt", "tts", "poke", "sentinel", "join"}
Cuts           == {"no", "early", "late"}

TypeOK ==
    /\ SessionTypeOK
    /\ handler \in [Conns -> HandlerStates]
    /\ closed \in SUBSET Conns
    /\ sent \in [Conns -> Nat]
    /\ mic \in Seq(ConnOrNone)
    /\ listener \in ListenerStates
    /\ utter \in UtterStates
    /\ speaker \in ConnOrNone
    /\ prompt \in QueuedTurn \cup {None}
    /\ turns \in Seq(QueuedTurn \cup {None})
    /\ loop \in LoopStates
    /\ item \in QueuedTurn \cup {None}
    /\ served \in Nat
    /\ completed \in BOOLEAN
    /\ failed \in BOOLEAN
    /\ cut \in Cuts
    /\ ends \in Seq(Nat)
    /\ done \in SUBSET Nat
    /\ main \in MainStates
    /\ stopping \in BOOLEAN
    /\ ttsStopped \in BOOLEAN

Init ==
    /\ SessionInit
    /\ handler = [c \in Conns |-> "new"]
    /\ closed = {}
    /\ sent = [c \in Conns |-> 0]
    /\ mic = <<>>
    /\ listener = "check"
    /\ utter = "idle"
    /\ speaker = None
    /\ prompt = None
    /\ turns = <<>>
    /\ loop = "check"
    /\ item = None
    /\ served = 0
    /\ completed = FALSE
    /\ failed = FALSE
    /\ cut = "no"
    /\ ends = <<>>
    /\ done = {}
    /\ main = "serving"
    /\ stopping = FALSE
    /\ ttsStopped = FALSE

-----------------------------------------------------------------------------
\* The handler thread of one /conversation socket.

HandlerStep(c, from, to) ==
    /\ handler[c] = from
    /\ handler' = [handler EXCEPT ![c] = to]
    /\ UNCHANGED <<listenerVars, turns, ttsVars, mainVars, loop, item, served, completed, failed>>

TryAcquire(c) ==
    /\ HandlerStep(c, "new", "acquired")
    /\ AcquireGuard(c)
    /\ UNCHANGED <<closed, sent, mic, cut>>

Refuse(c) ==                    \* close 1013: a conversation is already active
    /\ HandlerStep(c, "new", "refused")
    /\ GuardHeld
    /\ closed' = closed \cup {c}
    /\ UNCHANGED <<sessionVars, sent, mic, cut>>

Publish(c) ==
    /\ HandlerStep(c, "acquired", "serving")
    /\ PublishConnection(c)
    /\ UNCHANGED <<closed, sent, mic, cut>>

\* Frames buffered before the close are still delivered after it.
ReceiveFrame(c) ==
    /\ HandlerStep(c, "serving", "serving")
    /\ sent[c] < Frames[c]
    /\ sent' = [sent EXCEPT ![c] = @ + 1]
    /\ mic' = Append(mic, c)
    /\ UNCHANGED <<sessionVars, closed, cut>>

RejectFrame(c) ==               \* close 1003: not a 1024-byte frame
    /\ HandlerStep(c, "serving", "leaving")
    /\ closed' = closed \cup {c}
    /\ UNCHANGED <<sessionVars, sent, mic, cut>>

PeerCloses(c) ==
    /\ handler[c] \in {"acquired", "serving"}
    /\ c \notin closed
    /\ closed' = closed \cup {c}
    /\ UNCHANGED <<sessionVars, handler, sent, mic, listenerVars, turns, turnVars, ttsVars, mainVars>>

\* The places in a turn where wait_for_playback has yet to look at the
\* interruption, and where it has looked.
BeforeWait == {"stream", "abandon", "end", "wait"}
AfterWait  == {"transcript", "recheck", "cleanup", "finish"}
InTurn     == BeforeWait \cup {"drain"} \cup AfterWait

\* Ghost: what an interruption now does to the record of the current turn.
Cutting ==
    cut' = IF loop \in BeforeWait THEN "early"
           ELSE IF loop \in InTurn /\ cut = "no" THEN "late" ELSE cut

Disconnect(c) ==
    /\ HandlerStep(c, handler[c], "releasing")
    /\ handler[c] = "leaving" \/ (handler[c] = "serving" /\ c \in closed)
    /\ ClearConnection
    /\ Cutting
    /\ UNCHANGED <<closed, sent, mic>>

Release(c) ==
    /\ HandlerStep(c, "releasing", "gone")
    /\ ReleaseGuard
    /\ UNCHANGED <<closed, sent, mic, cut>>

Handler(c) ==
    \/ TryAcquire(c) \/ Refuse(c) \/ Publish(c) \/ ReceiveFrame(c)
    \/ RejectFrame(c) \/ Disconnect(c) \/ Release(c)

-----------------------------------------------------------------------------
\* The listener thread.

ListenerStep(from, to) ==
    /\ listener = from
    /\ listener' = to
    /\ UNCHANGED <<handlerVars, ttsVars, mainVars, loop, item, served, completed, failed>>

\* A step that changes nothing but the place.
Listen(from, to) ==
    /\ ListenerStep(from, to)
    /\ UNCHANGED <<sessionVars, mic, utter, speaker, prompt, turns, cut>>

PollMic     == Listen("check", IF stopping THEN "exit" ELSE "get")
PollTimeout == mic = <<>> /\ Listen("get", "check")

\* process takes a frame and reads the phase; nothing else it reads is shared.
Hear(ph, state, to) ==
    /\ ListenerStep("get", to)
    /\ mic # <<>>
    /\ phase = ph
    /\ mic' = Tail(mic)
    /\ utter' = state
    /\ UNCHANGED <<sessionVars, prompt, turns, cut>>

\* No speech, or not an attempt to interrupt: the open turn, if any, is dropped.
AssistantQuiet == Hear("assistant", "idle", "check") /\ UNCHANGED speaker

AssistantBargeIn == Hear("assistant", "idle", "barge") /\ speaker' = Head(mic)

\* Silence with no turn open, or with one left open.
UserSilent == utter # "recording" /\ Hear("user", utter, "check") /\ UNCHANGED speaker

UserStarts == utter = "idle" /\ Hear("user", "recording", "check") /\ speaker' = Head(mic)

UserContinues == utter # "idle" /\ Hear("user", "recording", "check") /\ UNCHANGED speaker

\* Smart Turn judges the utterance incomplete.
UserPauses == utter = "recording" /\ Hear("user", "awaiting", "check") /\ UNCHANGED speaker

\* It is complete, but recognized as the empty text.
UserSaidNothing == utter = "recording" /\ Hear("user", "idle", "check") /\ UNCHANGED speaker

UserFinishes == utter = "recording" /\ Hear("user", "idle", "resolve") /\ UNCHANGED speaker

\* session.barge_in under the state lock, then _start_turn.
ReclaimMicForUser ==
    /\ ListenerStep("barge", "check")
    /\ BargeIn
    /\ Cutting
    /\ utter' = "recording"
    /\ UNCHANGED <<mic, speaker, prompt, turns>>

ResolveSpeaker_Unchecked ==     \* mutant: nobody looks whether the client is still there
    /\ ListenerStep("resolve", "send")
    /\ prompt' = [ws |-> connection, speaker |-> speaker]
    /\ UNCHANGED <<sessionVars, mic, utter, speaker, turns, cut>>

ResolveSpeaker ==
    /\ ListenerStep("resolve", IF connection = None THEN "check" ELSE "send")
    /\ prompt' = IF connection = None THEN None ELSE [ws |-> connection, speaker |-> speaker]
    /\ UNCHANGED <<sessionVars, mic, utter, speaker, turns, cut>>

SendUserTranscript == Listen("send", IF prompt.ws \in closed THEN "giveback" ELSE "handoff")

GiveBack ==
    /\ ListenerStep("giveback", "check")
    /\ ReturnToUser
    /\ prompt' = None
    /\ UNCHANGED <<mic, utter, speaker, turns, cut>>

HandOff ==
    /\ ListenerStep("handoff", "put")
    /\ UserTurnFinished
    /\ UNCHANGED <<mic, utter, speaker, prompt, turns, cut>>

PutPrompt_First ==              \* mutant: the newest prompt goes to the head of the queue
    /\ ListenerStep("put", "check")
    /\ turns' = <<prompt>> \o turns
    /\ prompt' = None
    /\ UNCHANGED <<sessionVars, mic, utter, speaker, cut>>

PutPrompt ==
    /\ ListenerStep("put", "check")
    /\ turns' = Append(turns, prompt)
    /\ prompt' = None
    /\ UNCHANGED <<sessionVars, mic, utter, speaker, cut>>

Listener ==
    \/ PollMic \/ PollTimeout
    \/ AssistantQuiet \/ AssistantBargeIn \/ ReclaimMicForUser
    \/ UserSilent \/ UserStarts \/ UserContinues \/ UserPauses \/ UserSaidNothing \/ UserFinishes
    \/ ResolveSpeaker \/ SendUserTranscript \/ GiveBack \/ HandOff \/ PutPrompt

-----------------------------------------------------------------------------
\* The turn loop.

LoopStep(from, to) ==
    /\ loop = from
    /\ loop' = to
    /\ UNCHANGED <<handlerVars, mic, listenerVars, mainVars>>

\* A step that changes nothing but the place.
Go(from, to) ==
    /\ LoopStep(from, to)
    /\ UNCHANGED <<sessionVars, turns, ttsVars, item, served, completed, failed, cut>>

CheckStopping == Go("check", IF stopping THEN "exit" ELSE "get")

TakePrompt ==
    /\ turns # <<>>
    /\ LoopStep("get", IF Head(turns) = None THEN "exit" ELSE "owner")
    /\ turns' = Tail(turns)
    /\ item' = Head(turns)
    /\ UNCHANGED <<sessionVars, ttsVars, served, completed, failed, cut>>

CheckOwner == Go("owner", IF connection = item.ws THEN "begin" ELSE "drop")

DropPrompt ==
    /\ LoopStep("drop", "check")
    /\ ReturnToUser
    /\ item' = None
    /\ UNCHANGED <<turns, ttsVars, served, completed, failed, cut>>

BeginTurn ==
    /\ LoopStep("begin", "stream")
    /\ AssistantTurnStarted(served + 1)
    /\ served' = served + 1
    /\ failed' = FALSE
    /\ cut' = "no"
    /\ UNCHANGED <<turns, ttsVars, item, completed>>

\* The reply has streamed out, or its next word found the turn interrupted.
StreamEnds == Go("stream", "end")

StreamFails ==                  \* AgentRunError
    /\ LoopStep("stream", "abandon")
    /\ failed' = TRUE
    /\ UNCHANGED <<sessionVars, turns, ttsVars, item, served, completed, cut>>

AbandonTurn_NoEnd ==            \* mutant: the failed turn is waited for, never closed
    /\ LoopStep("abandon", IF turn = 0 THEN "finish" ELSE "wait")
    /\ TakeTurn
    /\ UNCHANGED <<turns, ttsVars, item, served, completed, failed, cut>>

AbandonTurn ==
    /\ LoopStep("abandon", IF turn = 0 THEN "finish" ELSE "end")
    /\ TakeTurn
    /\ UNCHANGED <<turns, ttsVars, item, served, completed, failed, cut>>

\* TTS.end_turn: queue the EndOfTurn, or set done at once when the TTS stopped.
EndTurn_RejectedUnsignalled ==  \* mutant: a rejected close leaves its waiter
    /\ LoopStep("end", "wait")
    /\ ends' = IF ttsStopped THEN ends ELSE Append(ends, served)
    /\ UNCHANGED <<sessionVars, turns, done, ttsStopped, item, served, completed, failed, cut>>

EndTurn ==
    /\ LoopStep("end", "wait")
    /\ ends' = IF ttsStopped THEN ends ELSE Append(ends, served)
    /\ done' = IF ttsStopped THEN done \cup {served} ELSE done
    /\ UNCHANGED <<sessionVars, turns, ttsStopped, item, served, completed, failed, cut>>

\* wait_until_complete, one round: the events, then the timeline.
WaitReturns(from, result) ==
    /\ LoopStep(from, IF failed THEN "recheck" ELSE "transcript")
    /\ completed' = result
    /\ UNCHANGED <<sessionVars, turns, ttsVars, item, served, failed, cut>>

WaitCutShort == (stopping \/ interrupted) /\ WaitReturns("wait", FALSE)
WaitLooks    == ~stopping /\ ~interrupted /\ Go("wait", "drain")
WaitDrained  == served \in done /\ WaitReturns("drain", TRUE)    \* and all of it has played
WaitAgain    == Go("drain", "wait")

SendAssistantTranscript == Go("transcript", "recheck")          \* whether or not it arrives

RecheckInterruption == Go("recheck", IF interrupted THEN "cleanup" ELSE "finish")

WaitForCleanup == served \in done /\ Go("cleanup", "finish")

FinishTurn ==
    /\ LoopStep("finish", "check")
    /\ IF failed THEN ReclaimMic ELSE AssistantTurnFinished(completed)
    /\ item' = None
    /\ UNCHANGED <<turns, ttsVars, served, completed, failed, cut>>

TurnLoop ==
    \/ CheckStopping \/ TakePrompt \/ CheckOwner \/ DropPrompt \/ BeginTurn
    \/ StreamEnds \/ StreamFails \/ AbandonTurn \/ EndTurn
    \/ WaitCutShort \/ WaitLooks \/ WaitDrained \/ WaitAgain
    \/ SendAssistantTranscript \/ RecheckInterruption \/ WaitForCleanup \/ FinishTurn

\* The TTS worker closes the turns in the order their EndOfTurns were queued.
CloseTurn ==
    /\ ends # <<>>
    /\ ends' = Tail(ends)
    /\ done' = done \cup {Head(ends)}
    /\ UNCHANGED <<sessionVars, handlerVars, mic, listenerVars, turns, turnVars, ttsStopped, mainVars>>

-----------------------------------------------------------------------------
\* The main thread's shutdown; mic is poked so that the listener's get returns.

Shut(from, to) ==
    /\ main = from
    /\ main' = to
    /\ UNCHANGED <<handlerVars, listenerVars, loop, item, served, completed, failed, ends, done>>

StopServing ==                  \* KeyboardInterrupt
    /\ Shut("serving", "interrupt")
    /\ stopping' = TRUE
    /\ UNCHANGED <<sessionVars, mic, turns, cut, ttsStopped>>

InterruptSession ==
    /\ Shut("interrupt", "tts")
    /\ Interrupt
    /\ Cutting
    /\ UNCHANGED <<mic, turns, ttsStopped, stopping>>

StopTts ==
    /\ Shut("tts", "poke")
    /\ ttsStopped' = TRUE
    /\ UNCHANGED <<sessionVars, mic, turns, cut, stopping>>

PokeListener ==
    /\ Shut("poke", "sentinel")
    /\ mic' = Append(mic, None)
    /\ UNCHANGED <<sessionVars, turns, cut, ttsStopped, stopping>>

PutSentinel ==
    /\ Shut("sentinel", "join")
    /\ turns' = Append(turns, None)
    /\ UNCHANGED <<sessionVars, mic, cut, ttsStopped, stopping>>

Shutdown == InterruptSession \/ StopTts \/ PokeListener \/ PutSentinel

\* The process ends here; the daemon threads that are still waiting end with it.
Terminated ==
    /\ main = "join" /\ loop = "exit" /\ listener = "exit"
    /\ UNCHANGED vars

Next ==
    \/ \E c \in Conns : Handler(c) \/ PeerCloses(c)
    \/ Listener
    \/ TurnLoop
    \/ CloseTurn
    \/ StopServing
    \/ Shutdown
    \/ Terminated

Spec == Init /\ [][Next]_vars

(***************************************************************************)
(* Fairness.  Each thread keeps running, so it is weakly fair; a socket's  *)
(* handler owes the steps it takes by itself, never a frame from the peer. *)
(* A reply that streams ends in one way or another.  The clock advances,   *)
(* so a wait whose turn is done cannot find the reply still playing for    *)
(* ever: WaitDrained is strongly fair.                                     *)
(***************************************************************************)
Fairness ==
    /\ WF_vars(Listener)
    /\ WF_vars(TurnLoop)
    /\ SF_vars(WaitDrained)
    /\ WF_vars(CloseTurn)
    /\ WF_vars(Shutdown)
    /\ \A c \in Conns : WF_vars(TryAcquire(c) \/ Refuse(c) \/ Publish(c) \/ Disconnect(c) \/ Release(c))

FairSpec == Spec /\ Fairness

-----------------------------------------------------------------------------
\* Properties.

\* Exactly one socket is served: its handler holds the guard and is the
\* published connection, and nothing is published before a handler has
\* acquired the guard or after it has started to release it
\* (try_connect and disconnect, conversation.py:102-120).
OwnerPublished ==
    /\ \A c \in Conns : handler[c] \in {"acquired", "serving", "leaving", "releasing"} => guard = c
    /\ \A c \in Conns : handler[c] \in {"serving", "leaving"} <=> connection = c

\* A prompt is on its way to the turn loop.
PromptPending == listener = "put" \/ turns # <<>>

\* The session is never stuck in the assistant phase with a client connected
\* and nothing left that will return the mic (the stranding that the comment
\* at conversation.py:332-338 fears): some prompt is on its way to the loop,
\* or the loop is handling one.
NotStranded ==
    phase = "assistant" /\ connection # None /\ ~stopping
        => PromptPending \/ loop \in {"owner", "drop", "begin"} \cup InTurn

\* What an assistant transcript says of how its turn ended is true: a turn
\* interrupted before the wait looked is not reported as completed, and one
\* reported as interrupted was interrupted during that turn, not by a signal
\* left from before it (conversation.py:273-307, 135-142).
FaithfulEnding ==
    loop \in AfterWait =>
        /\ cut = "early" => ~completed
        /\ ~completed => cut # "no" \/ stopping

\* The loop takes up another prompt only when the TTS worker has closed every
\* turn it began, so one generator never speaks two replies
\* (conversation.py:309-312, 164-168).
CleanupGate == loop \in {"get", "owner", "drop", "begin"} => 1 .. served \subseteq done

\* The threads together do what Answering promises: prompts in order and one at
\* a time, no reply over the speech of an earlier one, endings that are true.
Stage ==
    IF loop \in {"owner", "drop", "begin"} THEN "taken"
    ELSE IF loop \in BeforeWait \cup {"drain"} THEN "speaking"
    ELSE IF loop \in AfterWait THEN "ended" ELSE "none"

Answers == INSTANCE Answering
           WITH Prompts <- QueuedTurn, Last <- None,
                queue <- turns, prompt <- item, stage <- Stage,
                replies <- served, open <- (1 .. served) \ done,
                cut <- interrupted, whole <- completed

AnswersInOrder == Answers!Spec

\* A client that waits in the assistant phase gets the mic back.
MicHandedBack ==
    \A c \in Conns :
        phase = "assistant" /\ connection = c ~> phase = "user" \/ connection # c \/ stopping

\* Every prompt put on the queue is taken up, or the loop has ended.
PromptsTakenUp == turns # <<>> ~> turns = <<>> \/ loop = "exit"

\* Once the server stops, the turn loop and the listener both end, whatever
\* they were waiting for (__main__.py:86-91).
ShutdownCompletes == stopping ~> loop = "exit" /\ listener = "exit"

\* "A recognized prompt bound to the connection that spoke it"
\* (conversation.py:38): no prompt waits to be answered to a connection other
\* than the one whose voice opened it.
SpeakerOwnsPrompt ==
    \A i \in 1 .. Len(turns) : turns[i] # None => turns[i].ws = turns[i].speaker

\* "An incomplete semantic turn deliberately remains open indefinitely. Only
\* more speech followed by another VAD endpoint can reconsider it"
\* (asr.py:283-285): a turn awaiting speech is not thrown away.
OpenTurnStaysOpen == [][utter = "awaiting" => utter' # "idle"]_vars
=============================================================================
