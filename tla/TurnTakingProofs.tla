-------------------------- MODULE TurnTakingProofs --------------------------
(***************************************************************************)
(* Theorems about TurnTaking, for any set of sockets and any number of     *)
(* frames: type correctness, one owner, no stranding, truthful endings,    *)
(* and the cleanup gate.  Each invariant is proved with the strengthening  *)
(* that makes it inductive; later ones use the earlier ones.               *)
(***************************************************************************)
EXTENDS TurnTaking, TLAPS

\* The steps of a handler thread, with its peer's, keep every variable in its
\* type.
LEMMA HandlerTypes ==
    ASSUME TypeOK, NEW c \in Conns, Handler(c) \/ PeerCloses(c)
    PROVE  TypeOK'
<1> USE DEF TypeOK, SessionTypeOK, sessionVars, handlerVars, listenerVars, turnVars, ttsVars,
            mainVars, ConnOrNone, HandlerStates, HandlerStep
<1>1. CASE TryAcquire(c)
  BY <1>1 DEF TryAcquire, AcquireGuard
<1>2. CASE Refuse(c)
  BY <1>2 DEF Refuse
<1>3. CASE Publish(c)
  BY <1>3 DEF Publish, PublishConnection, Phases
<1>4. CASE ReceiveFrame(c)
  BY <1>4 DEF ReceiveFrame
<1>5. CASE RejectFrame(c)
  BY <1>5 DEF RejectFrame
<1>6. CASE PeerCloses(c)
  BY <1>6 DEF PeerCloses
<1>7. CASE Disconnect(c)
  BY <1>7 DEF Disconnect, ClearConnection, Cutting, Cuts
<1>8. CASE Release(c)
  BY <1>8 DEF Release, ReleaseGuard
<1> QED
  BY <1>1, <1>2, <1>3, <1>4, <1>5, <1>6, <1>7, <1>8 DEF Handler

\* So do the listener's.
LEMMA ListenerTypes ==
    ASSUME TypeOK, Listener
    PROVE  TypeOK'
<1> USE DEF TypeOK, SessionTypeOK, sessionVars, handlerVars, listenerVars, turnVars, ttsVars,
            mainVars, ConnOrNone, ListenerStates, UtterStates, ListenerStep, Listen, Hear
<1>1. CASE PollMic
  BY <1>1 DEF PollMic
<1>2. CASE PollTimeout
  BY <1>2 DEF PollTimeout
<1>3. CASE AssistantQuiet \/ AssistantBargeIn \/ UserSilent \/ UserStarts
           \/ UserContinues \/ UserPauses \/ UserSaidNothing \/ UserFinishes
  <2>1. mic # <<>> /\ mic' = Tail(mic)
    BY <1>3 DEF AssistantQuiet, AssistantBargeIn, UserSilent, UserStarts, UserContinues, UserPauses,
         UserSaidNothing, UserFinishes
  <2>2. mic' \in Seq(ConnOrNone) /\ Head(mic) \in ConnOrNone
    BY <2>1
  <2>3. UNCHANGED <<sessionVars, handlerVars, prompt, turns, turnVars, ttsVars, mainVars>>
    BY <1>3 DEF AssistantQuiet, AssistantBargeIn, UserSilent, UserStarts, UserContinues, UserPauses,
         UserSaidNothing, UserFinishes
  <2>4. listener' \in ListenerStates /\ utter' \in UtterStates /\ speaker' \in ConnOrNone
    BY <1>3, <2>2 DEF AssistantQuiet, AssistantBargeIn, UserSilent, UserStarts, UserContinues, UserPauses,
         UserSaidNothing, UserFinishes
  <2> QED
    BY <2>2, <2>3, <2>4
<1>4. CASE ReclaimMicForUser
  BY <1>4 DEF ReclaimMicForUser, BargeIn, Cutting, Cuts, Phases
<1>5. CASE ResolveSpeaker
  BY <1>5 DEF ResolveSpeaker, QueuedTurn
<1>6. CASE SendUserTranscript
  BY <1>6 DEF SendUserTranscript
<1>7. CASE GiveBack
  BY <1>7 DEF GiveBack, ReturnToUser, Phases
<1>8. CASE HandOff
  BY <1>8 DEF HandOff, UserTurnFinished, Phases
<1>9. CASE PutPrompt
  BY <1>9 DEF PutPrompt
<1> QED
  BY <1>1, <1>2, <1>3, <1>4, <1>5, <1>6, <1>7, <1>8, <1>9 DEF Listener

\* And the turn loop's.
LEMMA TurnLoopTypes ==
    ASSUME TypeOK, TurnLoop
    PROVE  TypeOK'
<1> USE DEF TypeOK, SessionTypeOK, sessionVars, handlerVars, listenerVars, turnVars, ttsVars,
            mainVars, LoopStates, LoopStep, Go, WaitReturns
<1>1. CASE CheckStopping
  BY <1>1 DEF CheckStopping
<1>2. CASE TakePrompt
  BY <1>2 DEF TakePrompt
<1>3. CASE CheckOwner
  BY <1>3 DEF CheckOwner
<1>4. CASE DropPrompt
  BY <1>4 DEF DropPrompt, ReturnToUser, Phases
<1>5. CASE BeginTurn
  <2>1. turn' \in Nat /\ served' \in Nat
    BY <1>5 DEF BeginTurn, AssistantTurnStarted
  <2>2. interrupted' \in BOOLEAN /\ failed' \in BOOLEAN
    BY <1>5 DEF BeginTurn, AssistantTurnStarted
  <2>3. phase' \in Phases /\ cut' \in Cuts /\ loop' \in LoopStates
    BY <1>5 DEF BeginTurn, AssistantTurnStarted, Phases, Cuts
  <2> QED
    BY <1>5, <2>1, <2>2, <2>3 DEF BeginTurn, AssistantTurnStarted
<1>6. CASE StreamEnds \/ StreamFails
  BY <1>6 DEF StreamEnds, StreamFails
<1>7. CASE AbandonTurn
  BY <1>7 DEF AbandonTurn, TakeTurn
<1>8. CASE EndTurn
  BY <1>8 DEF EndTurn
<1>9. CASE WaitCutShort \/ WaitDrained
  BY <1>9 DEF WaitCutShort, WaitDrained
<1>10. CASE WaitLooks \/ WaitAgain \/ SendAssistantTranscript \/ RecheckInterruption
            \/ WaitForCleanup
  BY <1>10 DEF WaitLooks, WaitAgain, SendAssistantTranscript, RecheckInterruption, WaitForCleanup
<1>11. CASE FinishTurn
  <2>1. phase' \in Phases /\ interrupted' \in BOOLEAN /\ turn' \in Nat
        /\ UNCHANGED <<guard, connection>>
    <3>1. CASE failed
      BY <1>11, <3>1 DEF FinishTurn, ReclaimMic, Phases
    <3>2. CASE ~failed
      <4>1. phase' = IF completed THEN "user" ELSE phase
        BY <1>11, <3>2 DEF FinishTurn, AssistantTurnFinished
      <4>2. interrupted' = FALSE /\ turn' = 0 /\ UNCHANGED <<guard, connection>>
        BY <1>11, <3>2 DEF FinishTurn, AssistantTurnFinished
      <4> QED
        BY <4>1, <4>2 DEF Phases
    <3> QED
      BY <3>1, <3>2
  <2> QED
    BY <1>11, <2>1 DEF FinishTurn
<1> QED
  BY <1>1, <1>2, <1>3, <1>4, <1>5, <1>6, <1>7, <1>8, <1>9, <1>10, <1>11 DEF TurnLoop

\* And the TTS worker's and the main thread's.
LEMMA MainTypes ==
    ASSUME TypeOK, CloseTurn \/ StopServing \/ Shutdown \/ Terminated \/ UNCHANGED vars
    PROVE  TypeOK'
<1> USE DEF TypeOK, SessionTypeOK, sessionVars, handlerVars, listenerVars, turnVars, ttsVars,
            mainVars, Shut
<1>1. CASE CloseTurn
  <2>1. ends' \in Seq(Nat) /\ done' \in SUBSET Nat
    <3>1. ends # <<>> /\ ends \in Seq(Nat)
      BY <1>1 DEF CloseTurn
    <3>2. Head(ends) \in Nat /\ Tail(ends) \in Seq(Nat)
      BY <3>1
    <3> QED
      BY <1>1, <3>2 DEF CloseTurn
  <2> QED
    BY <1>1, <2>1 DEF CloseTurn
<1>2. CASE StopServing
  BY <1>2 DEF StopServing, MainStates
<1>3. CASE InterruptSession
  BY <1>3 DEF InterruptSession, Interrupt, Cutting, Cuts, MainStates
<1>4. CASE StopTts
  BY <1>4 DEF StopTts, MainStates
<1>5. CASE PokeListener
  BY <1>5 DEF PokeListener, MainStates, ConnOrNone
<1>6. CASE PutSentinel
  BY <1>6 DEF PutSentinel, MainStates
<1>7. CASE Terminated \/ UNCHANGED vars
  BY <1>7 DEF Terminated, vars
<1> QED
  BY <1>1, <1>2, <1>3, <1>4, <1>5, <1>6, <1>7 DEF Shutdown

\* Every variable keeps its type.
THEOREM TypeCorrect == Spec => []TypeOK
<1>1. Init => TypeOK
  <2> SUFFICES ASSUME Init PROVE TypeOK
    OBVIOUS
  <2>1. SessionTypeOK
    BY DEF Init, SessionInit, SessionTypeOK, ConnOrNone, Phases
  <2>2. handler \in [Conns -> HandlerStates] /\ sent \in [Conns -> Nat]
    BY DEF Init, HandlerStates
  <2>3. mic \in Seq(ConnOrNone) /\ turns \in Seq(QueuedTurn \cup {None}) /\ ends \in Seq(Nat)
    BY DEF Init
  <2> QED
    BY <2>1, <2>2, <2>3 DEF Init, TypeOK, ConnOrNone, ListenerStates, UtterStates, LoopStates,
         MainStates, Cuts
<1>2. TypeOK /\ [Next]_vars => TypeOK'
  BY HandlerTypes, ListenerTypes, TurnLoopTypes, MainTypes DEF Next
<1> QED
  BY <1>1, <1>2, PTL DEF Spec

-----------------------------------------------------------------------------
\* One socket is served at a time, and it is the one that is published:
\* OwnerPublished is inductive by itself.
THEOREM OneOwner == Spec => []OwnerPublished
<1>1. Init => OwnerPublished
  BY NoneAssumption DEF Init, SessionInit, OwnerPublished
<1>2. TypeOK /\ OwnerPublished /\ [Next]_vars => OwnerPublished'
  <2> SUFFICES ASSUME TypeOK, OwnerPublished, [Next]_vars
               PROVE  OwnerPublished'
    OBVIOUS
  <2>1. handler \in [Conns -> HandlerStates]
    BY DEF TypeOK
  <2>2. ASSUME UNCHANGED <<handler, guard, connection>>
        PROVE  OwnerPublished'
    BY <2>2 DEF OwnerPublished
  <2>3. ASSUME NEW c \in Conns, Handler(c) \/ PeerCloses(c)
        PROVE  OwnerPublished'
    <3>1. CASE TryAcquire(c)
      <4>1. handler[c] = "new" /\ guard = None /\ guard' = c /\ connection' = connection
            /\ handler' = [handler EXCEPT ![c] = "acquired"]
        BY <3>1 DEF TryAcquire, AcquireGuard, HandlerStep, listenerVars, ttsVars, mainVars
      <4>2. \A d \in Conns : handler[d] \notin {"acquired", "serving", "leaving", "releasing"}
        BY <4>1, NoneAssumption DEF OwnerPublished
      <4> QED
        BY <4>1, <4>2, <2>1 DEF OwnerPublished
    <3>2. CASE Refuse(c)
      BY <3>2, <2>1 DEF Refuse, OwnerPublished, sessionVars, HandlerStep, listenerVars, ttsVars,
           mainVars
    <3>3. CASE Publish(c)
      <4>1. handler[c] = "acquired" /\ guard' = guard /\ connection' = c
            /\ handler' = [handler EXCEPT ![c] = "serving"]
        BY <3>3 DEF Publish, PublishConnection, HandlerStep, listenerVars, ttsVars, mainVars
      <4>2. \A d \in Conns : handler[d] \in {"acquired", "serving", "leaving", "releasing"} => d = c
        BY <4>1 DEF OwnerPublished
      <4> QED
        BY <4>1, <4>2, <2>1 DEF OwnerPublished
    <3>4. CASE ReceiveFrame(c) \/ PeerCloses(c)
      BY <2>1, <2>2, <3>4 DEF ReceiveFrame, PeerCloses, sessionVars, HandlerStep, listenerVars, ttsVars,
           mainVars
    <3>5. CASE RejectFrame(c)
      BY <3>5, <2>1 DEF RejectFrame, OwnerPublished, sessionVars, HandlerStep, listenerVars,
           ttsVars, mainVars
    <3>6. CASE Disconnect(c)
      <4>1. handler[c] \in {"serving", "leaving"} /\ guard' = guard /\ connection' = None
            /\ handler' = [handler EXCEPT ![c] = "releasing"]
        BY <3>6 DEF Disconnect, ClearConnection, HandlerStep, listenerVars, ttsVars, mainVars
      <4>2. \A d \in Conns : handler[d] \in {"acquired", "serving", "leaving", "releasing"} => d = c
        BY <4>1 DEF OwnerPublished
      <4> QED
        BY <4>1, <4>2, <2>1, NoneAssumption DEF OwnerPublished
    <3>7. CASE Release(c)
      <4>1. handler[c] = "releasing" /\ guard' = None /\ connection' = connection
            /\ handler' = [handler EXCEPT ![c] = "gone"]
        BY <3>7 DEF Release, ReleaseGuard, HandlerStep, listenerVars, ttsVars, mainVars
      <4>2. \A d \in Conns : handler[d] \in {"acquired", "serving", "leaving", "releasing"} => d = c
        BY <4>1 DEF OwnerPublished
      <4> QED
        BY <4>1, <4>2, <2>1 DEF OwnerPublished
    <3> QED
      BY <2>3, <3>1, <3>2, <3>3, <3>4, <3>5, <3>6, <3>7 DEF Handler
  <2>4. CASE Listener
    BY <2>4, <2>2 DEF Listener, PollMic, PollTimeout, AssistantQuiet, AssistantBargeIn, UserSilent,
         UserStarts, UserContinues, UserPauses, UserSaidNothing, UserFinishes, Hear,
         ReclaimMicForUser, BargeIn, ResolveSpeaker, SendUserTranscript, GiveBack, ReturnToUser,
         HandOff, UserTurnFinished, PutPrompt, sessionVars, handlerVars, ListenerStep, Listen,
         ttsVars, mainVars
  <2>5. CASE TurnLoop
    <3>1. CASE FinishTurn
      BY <3>1, <2>2 DEF FinishTurn, ReclaimMic, AssistantTurnFinished, handlerVars, LoopStep, Go,
           WaitReturns, sessionVars, listenerVars, ttsVars, mainVars
    <3>2. CASE TurnLoop /\ ~FinishTurn
      BY <3>2, <2>2 DEF TurnLoop, CheckStopping, TakePrompt, CheckOwner, DropPrompt, ReturnToUser,
           BeginTurn, AssistantTurnStarted, StreamEnds, StreamFails, AbandonTurn, TakeTurn, EndTurn,
           WaitCutShort, WaitLooks, WaitDrained, WaitReturns, WaitAgain, SendAssistantTranscript,
           RecheckInterruption, WaitForCleanup, sessionVars, handlerVars, LoopStep, Go,
           listenerVars, ttsVars, mainVars
    <3> QED
      BY <2>5, <3>1, <3>2
  <2>6. CASE CloseTurn \/ StopServing \/ Shutdown
    BY <2>6, <2>2 DEF CloseTurn, StopServing, Shutdown, InterruptSession, Interrupt, StopTts,
         PokeListener, PutSentinel, sessionVars, handlerVars, Shut, listenerVars
  <2>7. CASE Terminated \/ UNCHANGED vars
    BY <2>7, <2>2 DEF Terminated, vars, sessionVars, handlerVars
  <2> QED
    BY <2>3, <2>4, <2>5, <2>6, <2>7 DEF Next
<1> QED
  BY <1>1, <1>2, TypeCorrect, PTL DEF Spec

-----------------------------------------------------------------------------
\* What makes NotStranded inductive.  The sentinel is only queued once the
\* server is stopping; a prompt being handed over is a prompt; a turn whose
\* stream is open is in the session; the verdict of the wait is founded; and a
\* turn that was interrupted while the session is in the assistant phase was
\* interrupted by a user who has since spoken another prompt, so that not
\* returning the mic when it ends is right.

StopOrder == main # "serving" => stopping

HandedOver == listener \in {"send", "giveback", "handoff", "put"} => prompt \in QueuedTurn

TurnHeld == loop \in {"stream", "abandon"} => turn # 0

LiveQueue == stopping \/ turns \in Seq(QueuedTurn)

VerdictFounded ==
    loop \in AfterWait =>
        \/ completed /\ served \in done
        \/ ~completed /\ (interrupted \/ stopping)

CutTurnKept ==
    loop \in InTurn /\ interrupted /\ phase = "assistant" /\ connection # None /\ ~stopping
        => PromptPending

StrandInv ==
    StopOrder /\ HandedOver /\ TurnHeld /\ LiveQueue /\ VerdictFounded /\ CutTurnKept /\ NotStranded

LEMMA StrandInvInit == Init => StrandInv
  BY DEF Init, SessionInit, StrandInv, StopOrder, HandedOver, TurnHeld, LiveQueue, VerdictFounded,
       CutTurnKept, NotStranded, AfterWait, InTurn, BeforeWait

\* A handler thread interrupts and clears the connection together, and a new
\* connection starts in the user phase.
LEMMA StrandInvHandler ==
    ASSUME TypeOK, StrandInv, NEW c \in Conns, Handler(c) \/ PeerCloses(c)
    PROVE  StrandInv'
<1> USE DEF StrandInv, StopOrder, HandedOver, TurnHeld, LiveQueue, VerdictFounded, CutTurnKept,
            NotStranded, PromptPending, InTurn, BeforeWait, AfterWait, listenerVars, turnVars,
            ttsVars, mainVars, HandlerStep
<1>1. CASE TryAcquire(c)
  BY <1>1 DEF TryAcquire, AcquireGuard
<1>2. CASE Refuse(c) \/ ReceiveFrame(c) \/ RejectFrame(c) \/ PeerCloses(c)
  BY <1>2 DEF Refuse, ReceiveFrame, RejectFrame, PeerCloses, sessionVars
<1>3. CASE Publish(c)
  BY <1>3 DEF Publish, PublishConnection
<1>4. CASE Disconnect(c)
  BY <1>4 DEF Disconnect, ClearConnection
<1>5. CASE Release(c)
  BY <1>5 DEF Release, ReleaseGuard
<1> QED
  BY <1>1, <1>2, <1>3, <1>4, <1>5 DEF Handler

\* The listener makes the phase "assistant" only with a prompt in hand.
LEMMA StrandInvListener ==
    ASSUME TypeOK, StrandInv, Listener
    PROVE  StrandInv'
<1> USE DEF StrandInv, StopOrder, HandedOver, TurnHeld, LiveQueue, VerdictFounded, CutTurnKept,
            NotStranded, PromptPending, InTurn, BeforeWait, AfterWait, handlerVars, turnVars,
            ttsVars, mainVars, ListenerStep, Listen, Hear, sessionVars
<1>1. CASE PollMic \/ PollTimeout
  BY <1>1 DEF PollMic, PollTimeout
<1>2. CASE AssistantQuiet \/ AssistantBargeIn \/ UserSilent \/ UserStarts
           \/ UserContinues \/ UserPauses \/ UserSaidNothing \/ UserFinishes
  <2>1. listener = "get" /\ listener' \in {"check", "barge", "resolve"}
        /\ UNCHANGED <<sessionVars, turns, turnVars, ttsVars, mainVars>>
    BY <1>2 DEF AssistantQuiet, AssistantBargeIn, UserSilent, UserStarts, UserContinues, UserPauses,
         UserSaidNothing, UserFinishes
  <2> QED
    BY <2>1
<1>3. CASE ReclaimMicForUser
  BY <1>3 DEF ReclaimMicForUser, BargeIn
<1>4. CASE ResolveSpeaker
  <2>1. listener' = "send" => prompt' \in QueuedTurn
    BY <1>4 DEF ResolveSpeaker, TypeOK, SessionTypeOK, ConnOrNone, QueuedTurn
  <2> QED
    BY <1>4, <2>1 DEF ResolveSpeaker
<1>5. CASE SendUserTranscript
  BY <1>5 DEF SendUserTranscript
<1>6. CASE GiveBack
  BY <1>6 DEF GiveBack, ReturnToUser
<1>7. CASE HandOff
  BY <1>7 DEF HandOff, UserTurnFinished
<1>8. CASE PutPrompt
  <2>1. prompt \in QueuedTurn /\ turns' = Append(turns, prompt)
    BY <1>8 DEF PutPrompt
  <2>2. turns' # <<>> /\ (turns \in Seq(QueuedTurn) => turns' \in Seq(QueuedTurn))
    BY <2>1 DEF TypeOK
  <2> QED
    BY <1>8, <2>2 DEF PutPrompt
<1> QED
  BY <1>1, <1>2, <1>3, <1>4, <1>5, <1>6, <1>7, <1>8 DEF Listener

\* The loop leaves a turn with the mic returned, or interrupted by a user whose
\* next prompt is pending.
LEMMA StrandInvTurnLoop ==
    ASSUME TypeOK, StrandInv, TurnLoop
    PROVE  StrandInv'
<1> USE DEF StrandInv, StopOrder, HandedOver, TurnHeld, LiveQueue, VerdictFounded, CutTurnKept,
            NotStranded, PromptPending, InTurn, BeforeWait, AfterWait, handlerVars, listenerVars,
            ttsVars, mainVars, LoopStep, Go, WaitReturns, sessionVars, turnVars
<1>1. CASE CheckStopping
  BY <1>1 DEF CheckStopping
<1>2. CASE TakePrompt
  <2>1. turns # <<>> /\ turns' = Tail(turns)
    BY <1>2 DEF TakePrompt
  <2>2. turns \in Seq(QueuedTurn) => turns' \in Seq(QueuedTurn) /\ Head(turns) \in QueuedTurn
    BY <2>1
  <2>3. stopping \/ loop' = "owner"
    BY <1>2, <2>2, SentinelAssumption DEF TakePrompt
  <2> QED
    BY <1>2, <2>2, <2>3 DEF TakePrompt
<1>3. CASE CheckOwner
  BY <1>3 DEF CheckOwner
<1>4. CASE DropPrompt
  BY <1>4 DEF DropPrompt, ReturnToUser
<1>5. CASE BeginTurn
  <2>1. loop' = "stream" /\ interrupted' = FALSE /\ turn' # 0
        /\ UNCHANGED <<listener, prompt, turns, stopping, main>>
    BY <1>5 DEF BeginTurn, AssistantTurnStarted, TypeOK
  <2> QED
    BY <2>1
<1>6. CASE StreamEnds \/ StreamFails
  BY <1>6 DEF StreamEnds, StreamFails
<1>7. CASE AbandonTurn
  <2>1. loop' \in {"end", "finish"} /\ UNCHANGED <<connection, phase, interrupted, listener, prompt,
            turns, stopping, main>>
    BY <1>7 DEF AbandonTurn, TakeTurn
  <2>2. loop' = "end"
    BY <1>7 DEF AbandonTurn
  <2> QED
    BY <1>7, <2>1, <2>2 DEF AbandonTurn
<1>8. CASE EndTurn
  BY <1>8 DEF EndTurn
<1>9. CASE WaitCutShort \/ WaitLooks \/ WaitDrained \/ WaitAgain
  BY <1>9 DEF WaitCutShort, WaitLooks, WaitDrained, WaitAgain
<1>10. CASE SendAssistantTranscript \/ RecheckInterruption \/ WaitForCleanup
  BY <1>10 DEF SendAssistantTranscript, RecheckInterruption, WaitForCleanup
<1>11. CASE FinishTurn
  <2>1. loop' = "check" /\ UNCHANGED <<listener, prompt, turns, stopping, main, connection>>
    <3>1. CASE failed
      BY <1>11, <3>1 DEF FinishTurn, ReclaimMic
    <3>2. CASE ~failed
      BY <1>11, <3>2 DEF FinishTurn, AssistantTurnFinished
    <3> QED
      BY <3>1, <3>2
  <2>2. phase' = "user" \/ (phase' = phase /\ (interrupted \/ stopping))
    <3>1. CASE failed
      BY <1>11, <3>1 DEF FinishTurn, ReclaimMic
    <3>2. CASE ~failed
      BY <1>11, <3>2 DEF FinishTurn, AssistantTurnFinished
    <3> QED
      BY <3>1, <3>2
  <2> QED
    BY <1>11, <2>1, <2>2 DEF FinishTurn
<1> QED
  BY <1>1, <1>2, <1>3, <1>4, <1>5, <1>6, <1>7, <1>8, <1>9, <1>10, <1>11 DEF TurnLoop

LEMMA StrandInvMain ==
    ASSUME TypeOK, StrandInv, CloseTurn \/ StopServing \/ Shutdown \/ Terminated \/ UNCHANGED vars
    PROVE  StrandInv'
<1> USE DEF StrandInv, StopOrder, HandedOver, TurnHeld, LiveQueue, VerdictFounded, CutTurnKept,
            NotStranded, PromptPending, InTurn, BeforeWait, AfterWait, handlerVars, listenerVars,
            turnVars, ttsVars, mainVars, Shut
<1>1. CASE CloseTurn
  <2>1. done \subseteq done'
    BY <1>1 DEF CloseTurn
  <2> QED
    BY <1>1, <2>1 DEF CloseTurn, sessionVars
<1>2. CASE StopServing
  BY <1>2 DEF StopServing, sessionVars
<1>3. CASE Shutdown
  BY <1>3 DEF Shutdown, InterruptSession, Interrupt, StopTts, PokeListener, PutSentinel, sessionVars
<1>4. CASE Terminated \/ UNCHANGED vars
  BY <1>4 DEF Terminated, vars, sessionVars
<1> QED
  BY <1>1, <1>2, <1>3, <1>4

LEMMA StrandInvariant == Spec => []StrandInv
<1>1. TypeOK /\ StrandInv /\ [Next]_vars => StrandInv'
  BY StrandInvHandler, StrandInvListener, StrandInvTurnLoop, StrandInvMain DEF Next
<1> QED
  BY <1>1, StrandInvInit, TypeCorrect, PTL DEF Spec

\* No client is left waiting in the assistant phase with nothing pending that
\* would give it the mic back.
THEOREM NeverStranded == Spec => []NotStranded
<1>1. StrandInv => NotStranded
  BY DEF StrandInv
<1> QED
  BY <1>1, StrandInvariant, PTL

-----------------------------------------------------------------------------
\* What makes FaithfulEnding inductive: within a turn the interruption event
\* and the ghost agree, because the loop cleared the event when the turn began
\* and clears it again only when the turn is over; and the wait looks at the
\* timeline only after finding the turn uninterrupted.

CutAgrees ==
    /\ loop \in InTurn => (cut = "early" => interrupted) /\ (interrupted => cut # "no")
    /\ loop = "drain" => cut # "early"

CutInv == CutAgrees /\ FaithfulEnding

\* Whatever interrupts a turn does it with Cutting.
LEMMA CutInvCutting ==
    ASSUME TypeOK, CutInv, Cutting, interrupted' = TRUE, UNCHANGED <<loop, completed>>,
           stopping => stopping'
    PROVE  CutInv'
<1>1. cut' = "early" => loop \in BeforeWait \/ cut = "early"
  BY DEF Cutting
<1>2. loop \in InTurn => cut' # "no"
  BY DEF Cutting, InTurn, TypeOK, Cuts
<1>3. cut' = "no" => cut = "no"
  BY DEF Cutting, TypeOK, Cuts
<1> QED
  BY <1>1, <1>2, <1>3 DEF CutInv, CutAgrees, FaithfulEnding, InTurn, BeforeWait, AfterWait

LEMMA CutInvTurnLoop ==
    ASSUME TypeOK, TurnHeld, CutInv, TurnLoop
    PROVE  CutInv'
<1> USE DEF CutInv, CutAgrees, FaithfulEnding, InTurn, BeforeWait, AfterWait, LoopStep, Go,
            WaitReturns, sessionVars, handlerVars, listenerVars, ttsVars, mainVars, turnVars
<1>1. CASE CheckStopping \/ TakePrompt \/ CheckOwner
  BY <1>1 DEF CheckStopping, TakePrompt, CheckOwner
<1>2. CASE DropPrompt
  BY <1>2 DEF DropPrompt
<1>3. CASE BeginTurn
  <2>1. loop' = "stream" /\ interrupted' = FALSE /\ cut' = "no"
    BY <1>3 DEF BeginTurn, AssistantTurnStarted
  <2> QED
    BY <2>1
<1>4. CASE StreamEnds \/ StreamFails \/ EndTurn
  BY <1>4 DEF StreamEnds, StreamFails, EndTurn
<1>5. CASE AbandonTurn
  <2>1. loop = "abandon" /\ loop' \in {"end", "finish"}
        /\ UNCHANGED <<interrupted, cut, completed, stopping>>
    BY <1>5 DEF AbandonTurn, TakeTurn
  <2>2. loop' = "end"
    BY <1>5 DEF AbandonTurn, TurnHeld
  <2> QED
    BY <2>1, <2>2
<1>6. CASE WaitCutShort
  BY <1>6 DEF WaitCutShort
<1>7. CASE WaitLooks \/ WaitDrained \/ WaitAgain
  BY <1>7 DEF WaitLooks, WaitDrained, WaitAgain
<1>8. CASE SendAssistantTranscript \/ RecheckInterruption \/ WaitForCleanup
  BY <1>8 DEF SendAssistantTranscript, RecheckInterruption, WaitForCleanup
<1>9. CASE FinishTurn
  BY <1>9 DEF FinishTurn
<1> QED
  BY <1>1, <1>2, <1>3, <1>4, <1>5, <1>6, <1>7, <1>8, <1>9 DEF TurnLoop

\* An assistant transcript never claims a completion that an interruption had
\* already cut short, nor an interruption that did not happen in that turn.
THEOREM EndingsTold == Spec => []FaithfulEnding
<1>1. Init => CutInv
  BY DEF Init, CutInv, CutAgrees, FaithfulEnding, InTurn, BeforeWait, AfterWait
<1>2. TypeOK /\ TurnHeld /\ CutInv /\ [Next]_vars => CutInv'
  <2> SUFFICES ASSUME TypeOK, TurnHeld, CutInv, [Next]_vars PROVE CutInv'
    OBVIOUS
  <2>1. ASSUME UNCHANGED <<interrupted, turnVars>>, stopping => stopping'
        PROVE  CutInv'
    BY <2>1 DEF CutInv, CutAgrees, FaithfulEnding, turnVars, TypeOK
  <2>2. ASSUME NEW c \in Conns, Handler(c) \/ PeerCloses(c)
        PROVE  CutInv'
    <3>1. CASE Disconnect(c)
      BY <3>1, CutInvCutting DEF Disconnect, ClearConnection, mainVars, HandlerStep, listenerVars,
           ttsVars
    <3>2. CASE ~Disconnect(c)
      BY <2>1, <2>2, <3>2 DEF turnVars, Handler, TryAcquire, AcquireGuard, Refuse, Publish, PublishConnection,
           ReceiveFrame, RejectFrame, PeerCloses, Release, ReleaseGuard, sessionVars, mainVars,
           HandlerStep, listenerVars, ttsVars
    <3> QED
      BY <3>1, <3>2
  <2>3. CASE Listener
    <3>1. CASE ReclaimMicForUser
      BY <3>1, CutInvCutting DEF ReclaimMicForUser, BargeIn, mainVars, ListenerStep, Listen, Hear,
           sessionVars, handlerVars, ttsVars
    <3>2. CASE ~ReclaimMicForUser
      BY <2>1, <2>3, <3>2 DEF turnVars, Listener, PollMic, PollTimeout, AssistantQuiet, AssistantBargeIn,
           UserSilent, UserStarts, UserContinues, UserPauses, UserSaidNothing, UserFinishes, Hear,
           ResolveSpeaker, SendUserTranscript, GiveBack, ReturnToUser, HandOff, UserTurnFinished,
           PutPrompt, sessionVars, mainVars, ListenerStep, Listen, handlerVars, ttsVars
    <3> QED
      BY <3>1, <3>2
  <2>4. CASE TurnLoop
    BY <2>4, CutInvTurnLoop
  <2>5. CASE InterruptSession
    BY <2>5, CutInvCutting DEF InterruptSession, Interrupt, Shut, handlerVars, listenerVars
  <2>6. CASE CloseTurn \/ StopServing \/ StopTts \/ PokeListener \/ PutSentinel \/ Terminated
             \/ UNCHANGED vars
    BY <2>6, <2>1 DEF turnVars, CloseTurn, StopServing, StopTts, PokeListener, PutSentinel, Terminated, vars,
         sessionVars, mainVars, Shut, handlerVars, listenerVars
  <2> QED
    BY <2>2, <2>3, <2>4, <2>5, <2>6 DEF Next, Shutdown, Shut, handlerVars, listenerVars
<1>3. CutInv => FaithfulEnding
  BY DEF CutInv
<1>4. StrandInv => TurnHeld
  BY DEF StrandInv
<1> QED
  BY <1>1, <1>2, <1>3, <1>4, TypeCorrect, StrandInvariant, PTL DEF Spec

-----------------------------------------------------------------------------
\* What makes CleanupGate inductive: while a turn is open every earlier one is
\* closed, and the loop leaves it closed unless the server is stopping.
GateInv ==
    /\ CleanupGate
    /\ loop = "check" => stopping \/ 1 .. served \subseteq done
    /\ loop \in InTurn => 1 .. (served - 1) \subseteq done
    /\ loop = "finish" => stopping \/ served \in done

LEMMA GateInvTurnLoop ==
    ASSUME TypeOK, TurnHeld, VerdictFounded, GateInv, TurnLoop
    PROVE  GateInv'
<1> USE DEF GateInv, CleanupGate, InTurn, BeforeWait, AfterWait, LoopStep, Go, WaitReturns,
            sessionVars, handlerVars, listenerVars, ttsVars, mainVars, turnVars
<1>0. served \in Nat
  BY DEF TypeOK
<1>1. CASE CheckStopping \/ CheckOwner
  BY <1>1 DEF CheckStopping, CheckOwner
<1>2. CASE TakePrompt \/ DropPrompt
  BY <1>2 DEF TakePrompt, DropPrompt
<1>3. CASE BeginTurn
  <2>1. loop = "begin" /\ loop' = "stream" /\ served' = served + 1 /\ done' = done
    BY <1>3 DEF BeginTurn
  <2>2. 1 .. (served' - 1) \subseteq done'
    BY <1>0, <2>1
  <2> QED
    BY <2>1, <2>2
<1>4. CASE StreamEnds \/ StreamFails
  BY <1>4 DEF StreamEnds, StreamFails
<1>5. CASE AbandonTurn
  <2>1. loop = "abandon" /\ loop' = "end" /\ UNCHANGED <<served, done>>
    BY <1>5 DEF AbandonTurn, TurnHeld
  <2> QED
    BY <2>1
<1>6. CASE EndTurn
  <2>1. loop = "end" /\ loop' = "wait" /\ served' = served /\ done \subseteq done'
    BY <1>6 DEF EndTurn
  <2> QED
    BY <2>1
<1>7. CASE WaitCutShort \/ WaitLooks \/ WaitDrained \/ WaitAgain
  BY <1>7 DEF WaitCutShort, WaitLooks, WaitDrained, WaitAgain
<1>8. CASE SendAssistantTranscript \/ WaitForCleanup
  BY <1>8 DEF SendAssistantTranscript, WaitForCleanup
<1>9. CASE RecheckInterruption
  <2>1. loop = "recheck" /\ loop' \in {"cleanup", "finish"} /\ UNCHANGED <<served, done, stopping>>
    BY <1>9 DEF RecheckInterruption
  <2>2. loop' = "finish" => stopping \/ served \in done
    BY <1>9 DEF RecheckInterruption, VerdictFounded
  <2> QED
    BY <2>1, <2>2
<1>10. CASE FinishTurn
  <2>1. loop = "finish" /\ loop' = "check" /\ UNCHANGED <<served, done, stopping>>
    BY <1>10 DEF FinishTurn
  <2>2. served \in done => 1 .. served \subseteq done
    BY <1>0, <2>1
  <2> QED
    BY <2>1, <2>2
<1> QED
  BY <1>1, <1>2, <1>3, <1>4, <1>5, <1>6, <1>7, <1>8, <1>9, <1>10 DEF TurnLoop

LEMMA GateInvariant == Spec => []GateInv
<1>1. Init => GateInv
  BY DEF Init, GateInv, CleanupGate, InTurn, BeforeWait, AfterWait
<1>2. TypeOK /\ TurnHeld /\ VerdictFounded /\ GateInv /\ [Next]_vars => GateInv'
  <2> SUFFICES ASSUME TypeOK, TurnHeld, VerdictFounded, GateInv, [Next]_vars PROVE GateInv'
    OBVIOUS
  <2>1. ASSUME UNCHANGED <<loop, served>>, done \subseteq done', stopping => stopping'
        PROVE  GateInv'
    BY <2>1 DEF GateInv, CleanupGate, TypeOK
  <2>2. ASSUME NEW c \in Conns, Handler(c) \/ PeerCloses(c)
        PROVE  GateInv'
    BY <2>1, <2>2 DEF Handler, TryAcquire, Refuse, Publish, ReceiveFrame, RejectFrame, PeerCloses,
         Disconnect, Release, turnVars, ttsVars, mainVars, HandlerStep, listenerVars
  <2>3. CASE Listener
    BY <2>1, <2>3 DEF Listener, PollMic, PollTimeout, AssistantQuiet, AssistantBargeIn, UserSilent,
         UserStarts, UserContinues, UserPauses, UserSaidNothing, UserFinishes, Hear,
         ReclaimMicForUser, ResolveSpeaker, SendUserTranscript, GiveBack, HandOff, PutPrompt,
         turnVars, ttsVars, mainVars, ListenerStep, Listen, sessionVars, handlerVars
  <2>4. CASE TurnLoop
    BY <2>4, GateInvTurnLoop
  <2>5. CASE CloseTurn \/ StopServing \/ Shutdown \/ Terminated \/ UNCHANGED vars
    BY <2>5, <2>1 DEF CloseTurn, StopServing, Shutdown, InterruptSession, StopTts, PokeListener,
         PutSentinel, Terminated, vars, turnVars, ttsVars, mainVars, Shut, handlerVars, listenerVars
  <2> QED
    BY <2>2, <2>3, <2>4, <2>5 DEF Next
<1>3. StrandInv => TurnHeld /\ VerdictFounded
  BY DEF StrandInv
<1> QED
  BY <1>1, <1>2, <1>3, TypeCorrect, StrandInvariant, PTL DEF Spec

\* The next prompt is taken up only when the TTS worker has closed every turn
\* begun before, so two replies never share the generator.
THEOREM TurnsSerialized == Spec => []CleanupGate
<1>1. GateInv => CleanupGate
  BY DEF GateInv
<1> QED
  BY <1>1, GateInvariant, PTL
=============================================================================
