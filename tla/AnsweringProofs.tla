-------------------------- MODULE AnsweringProofs --------------------------
(***************************************************************************)
(* TurnTaking implements Answering, for any set of sockets and any number  *)
(* of frames: every step of a thread is a step of the abstract service, or *)
(* changes nothing that it can see.                                        *)
(***************************************************************************)
EXTENDS TurnTakingProofs

\* The mapping speaks of turns by their serial numbers: only turns that have
\* begun are closed or wait to be, and a turn that is being answered has begun.
SerialInv ==
    /\ done \subseteq 1 .. served
    /\ \A i \in DOMAIN ends : ends[i] \in 1 .. served
    /\ loop \in InTurn => served # 0

LEMMA SerialInvariant == Spec => []SerialInv
<1>1. Init => SerialInv
  BY DEF Init, SerialInv, InTurn, BeforeWait, AfterWait
<1>2. TypeOK /\ TurnHeld /\ SerialInv /\ [Next]_vars => SerialInv'
  <2> SUFFICES ASSUME TypeOK, TurnHeld, SerialInv, [Next]_vars PROVE SerialInv'
    OBVIOUS
  <2>0. served \in Nat /\ ends \in Seq(Nat)
    BY DEF TypeOK
  <2>1. ASSUME UNCHANGED <<loop, served, ends, done>>
        PROVE  SerialInv'
    BY <2>1 DEF SerialInv
  <2>2. ASSUME NEW c \in Conns, Handler(c) \/ PeerCloses(c)
        PROVE  SerialInv'
    BY <2>1, <2>2 DEF Handler, TryAcquire, Refuse, Publish, ReceiveFrame, RejectFrame, PeerCloses,
         Disconnect, Release, turnVars, ttsVars, HandlerStep
  <2>3. CASE Listener
    BY <2>1, <2>3 DEF Listener, PollMic, PollTimeout, AssistantQuiet, AssistantBargeIn, UserSilent,
         UserStarts, UserContinues, UserPauses, UserSaidNothing, UserFinishes, Hear,
         ReclaimMicForUser, ResolveSpeaker, SendUserTranscript, GiveBack, HandOff, PutPrompt,
         ttsVars, ListenerStep, Listen
  <2>4. CASE TurnLoop
    <3> USE DEF InTurn, BeforeWait, AfterWait, LoopStep, Go, WaitReturns
    <3>1. CASE BeginTurn
      <4>1. loop' = "stream" /\ served' = served + 1 /\ UNCHANGED <<ends, done>>
        BY <3>1 DEF BeginTurn, ttsVars
      <4> QED
        BY <4>1, <2>0 DEF SerialInv
    <3>2. CASE EndTurn
      <4>1. loop = "end" /\ loop' = "wait" /\ served' = served /\ served \in 1 .. served
        BY <3>2, <2>0 DEF EndTurn, SerialInv
      <4>2. CASE ttsStopped
        BY <3>2, <4>1, <4>2 DEF EndTurn, SerialInv
      <4>3. CASE ~ttsStopped
        <5>1. ends' = Append(ends, served) /\ done' = done
          BY <3>2, <4>3 DEF EndTurn
        <5>2. \A i \in DOMAIN ends' : ends'[i] \in 1 .. served
          BY <5>1, <4>1, <2>0 DEF SerialInv
        <5> QED
          BY <5>1, <5>2, <4>1 DEF SerialInv
      <4> QED
        BY <4>2, <4>3
    <3>3. CASE AbandonTurn
      <4>1. loop = "abandon" /\ loop' \in {"end", "finish"} /\ UNCHANGED <<served, ends, done>>
        BY <3>3 DEF AbandonTurn, ttsVars
      <4> QED
        BY <4>1 DEF SerialInv
    <3>4. CASE TurnLoop /\ ~BeginTurn /\ ~EndTurn /\ ~AbandonTurn
      <4>1. UNCHANGED <<served, ends, done>> /\ (loop' \in InTurn => loop \in InTurn)
        BY <3>4 DEF TurnLoop, CheckStopping, TakePrompt, CheckOwner, DropPrompt, StreamEnds,
             StreamFails, WaitCutShort, WaitLooks, WaitDrained, WaitAgain, SendAssistantTranscript,
             RecheckInterruption, WaitForCleanup, FinishTurn, ttsVars
      <4> QED
        BY <4>1 DEF SerialInv
    <3> QED
      BY <2>4, <3>1, <3>2, <3>3, <3>4
  <2>5. CASE CloseTurn
    <3>1. ends # <<>> /\ ends' = Tail(ends) /\ done' = done \cup {Head(ends)}
          /\ UNCHANGED <<loop, served>>
      BY <2>5 DEF CloseTurn, turnVars
    <3>2. Head(ends) \in 1 .. served
      BY <3>1, <2>0 DEF SerialInv
    <3>3. \A i \in DOMAIN ends' : ends'[i] \in 1 .. served
      BY <3>1, <2>0 DEF SerialInv
    <3> QED
      BY <3>1, <3>2, <3>3 DEF SerialInv
  <2>6. CASE StopServing \/ Shutdown \/ Terminated \/ UNCHANGED vars
    BY <2>6, <2>1 DEF StopServing, Shutdown, InterruptSession, StopTts, PokeListener, PutSentinel,
         Terminated, vars, turnVars, ttsVars, Shut
  <2> QED
    BY <2>2, <2>3, <2>4, <2>5, <2>6 DEF Next
<1>3. StrandInv => TurnHeld
  BY DEF StrandInv
<1> QED
  BY <1>1, <1>2, <1>3, TypeCorrect, StrandInvariant, PTL DEF Spec

-----------------------------------------------------------------------------
\* The step simulation, thread by thread.

\* What no abstract step is.
LEMMA Stutters ==
    ASSUME UNCHANGED <<turns, item, loop, served, done, interrupted, completed, stopping>>
    PROVE  UNCHANGED Answers!vars
  BY DEF Answers!vars, Stage

\* An interruption is all that the abstract service sees of a client that leaves.
LEMMA HandlerSimulates ==
    ASSUME NEW c \in Conns, Handler(c) \/ PeerCloses(c)
    PROVE  Answers!Cut \/ UNCHANGED Answers!vars
<1> USE DEF HandlerStep, listenerVars, turnVars, ttsVars, mainVars, sessionVars
<1>1. CASE Disconnect(c)
  <2>1. interrupted' = TRUE /\ UNCHANGED <<turns, item, loop, served, done, completed, stopping>>
    BY <1>1 DEF Disconnect, ClearConnection
  <2> QED
    BY <2>1 DEF Answers!Cut, Stage
<1>2. CASE ~Disconnect(c)
  BY <1>2, Stutters DEF Handler, TryAcquire, AcquireGuard, Refuse, Publish, PublishConnection,
       ReceiveFrame, RejectFrame, Release, ReleaseGuard, PeerCloses
<1> QED
  BY <1>1, <1>2

\* The listener interrupts, and puts prompts on the queue.
LEMMA ListenerSimulates ==
    ASSUME HandedOver, Listener
    PROVE  Answers!Next \/ UNCHANGED Answers!vars
<1> USE DEF ListenerStep, Listen, Hear, handlerVars, ttsVars, mainVars, sessionVars
<1>1. CASE ReclaimMicForUser
  <2>1. interrupted' = TRUE /\ UNCHANGED <<turns, item, loop, served, done, completed, stopping>>
    BY <1>1 DEF ReclaimMicForUser, BargeIn
  <2>2. Answers!Cut
    BY <2>1 DEF Answers!Cut, Stage
  <2> QED
    BY <2>2 DEF Answers!Next
<1>2. CASE PutPrompt
  <2>1. prompt \in QueuedTurn /\ prompt # None
    BY <1>2, SentinelAssumption DEF PutPrompt, HandedOver
  <2>2. turns' = Append(turns, prompt)
        /\ UNCHANGED <<item, loop, served, done, interrupted, completed, stopping>>
    BY <1>2 DEF PutPrompt
  <2>3. Answers!Accept(prompt)
    BY <2>1, <2>2 DEF Answers!Accept, Stage
  <2> QED
    BY <2>1, <2>3 DEF Answers!Next
<1>3. CASE ~ReclaimMicForUser /\ ~PutPrompt
  BY <1>3, Stutters DEF Listener, PollMic, PollTimeout, AssistantQuiet, AssistantBargeIn,
       UserSilent, UserStarts, UserContinues, UserPauses, UserSaidNothing, UserFinishes,
       ResolveSpeaker, SendUserTranscript, GiveBack, ReturnToUser, HandOff, UserTurnFinished
<1> QED
  BY <1>1, <1>2, <1>3

\* The turn loop takes, drops, begins, ends and finishes; the cleanup gate is
\* why nothing is open when it begins, and the wait why nothing is when it ends.
LEMMA TurnLoopSimulates ==
    ASSUME TypeOK, TurnHeld, VerdictFounded, GateInv, SerialInv, TurnLoop
    PROVE  Answers!Next \/ UNCHANGED Answers!vars
<1> USE DEF LoopStep, Go, WaitReturns, handlerVars, listenerVars, ttsVars, mainVars, sessionVars,
            BeforeWait, AfterWait
<1>0. served \in Nat
  BY DEF TypeOK
<1>1. CASE CheckStopping \/ CheckOwner \/ StreamEnds \/ StreamFails \/ WaitLooks \/ WaitAgain
           \/ SendAssistantTranscript \/ RecheckInterruption \/ WaitForCleanup
  BY <1>1 DEF CheckStopping, CheckOwner, StreamEnds, StreamFails, WaitLooks, WaitAgain,
       SendAssistantTranscript, RecheckInterruption, WaitForCleanup, Answers!vars, Stage
<1>2. CASE TakePrompt
  <2>1. Answers!Take
    BY <1>2 DEF TakePrompt, Answers!Take, Answers!Advance, Stage
  <2> QED
    BY <2>1 DEF Answers!Next
<1>3. CASE DropPrompt
  <2>1. Answers!Drop
    BY <1>3 DEF DropPrompt, ReturnToUser, Answers!Drop, Answers!Advance, Stage
  <2> QED
    BY <2>1 DEF Answers!Next
<1>4. CASE BeginTurn
  <2>1. loop = "begin" /\ loop' = "stream" /\ served' = served + 1 /\ interrupted' = FALSE
        /\ UNCHANGED <<turns, item, done, completed, stopping>>
    BY <1>4 DEF BeginTurn, AssistantTurnStarted
  <2>2. (1 .. served) \ done = {}
    BY <2>1 DEF GateInv, CleanupGate
  <2>3. ((1 .. served) \ done)' = {served'}
    <3>1. served' \notin done
      BY <1>0, <2>1 DEF SerialInv
    <3>2. \A t \in 1 .. served' : t \in done \/ t = served'
      BY <1>0, <2>1, <2>2
    <3> QED
      BY <1>0, <2>1, <3>1, <3>2
  <2>4. Answers!Begin
    BY <2>1, <2>2, <2>3 DEF Answers!Begin, Answers!Advance, Stage
  <2> QED
    BY <2>4 DEF Answers!Next
<1>5. CASE AbandonTurn
  <2>1. loop = "abandon" /\ loop' = "end"
        /\ UNCHANGED <<turns, item, served, done, interrupted, completed, stopping>>
    BY <1>5 DEF AbandonTurn, TakeTurn, TurnHeld
  <2> QED
    BY <2>1 DEF Answers!vars, Stage
<1>6. CASE EndTurn
  <2>1. loop = "end" /\ loop' = "wait" /\ served \in 1 .. served
        /\ UNCHANGED <<turns, item, served, interrupted, completed, stopping>>
    BY <1>0, <1>6 DEF EndTurn, SerialInv, InTurn
  <2>2. CASE done' = done
    BY <2>1, <2>2 DEF Answers!vars, Stage
  <2>3. CASE done' # done
    <3>1. done' = done \cup {served} /\ served \notin done
      BY <1>6, <2>3 DEF EndTurn
    <3>2. Answers!Close(served)
      BY <2>1, <3>1 DEF Answers!Close, Stage
    <3> QED
      BY <2>1, <3>1, <3>2 DEF Answers!Next
  <2> QED
    BY <2>2, <2>3
<1>7. CASE WaitCutShort
  <2>1. Answers!End(FALSE)
    BY <1>7 DEF WaitCutShort, Answers!End, Answers!Advance, Stage
  <2> QED
    BY <2>1 DEF Answers!Next
<1>8. CASE WaitDrained
  <2>1. (1 .. served) \ done = {}
    <3>1. 1 .. (served - 1) \subseteq done /\ served \in done
      BY <1>8 DEF WaitDrained, GateInv, InTurn
    <3> QED
      BY <1>0, <3>1
  <2>2. Answers!End(TRUE)
    BY <1>8, <2>1 DEF WaitDrained, Answers!End, Answers!Advance, Stage
  <2> QED
    BY <2>2 DEF Answers!Next
<1>9. CASE FinishTurn
  <2>1. loop = "finish" /\ loop' = "check" /\ item' = None /\ interrupted' = FALSE
        /\ UNCHANGED <<turns, served, done, completed, stopping>>
    BY <1>9 DEF FinishTurn, ReclaimMic, AssistantTurnFinished
  <2>2. stopping \/ (1 .. served) \ done = {}
    <3>1. 1 .. (served - 1) \subseteq done /\ (stopping \/ served \in done)
      BY <2>1 DEF GateInv, InTurn
    <3> QED
      BY <1>0, <3>1
  <2>3. Answers!Finish
    BY <2>1, <2>2 DEF Answers!Finish, Answers!Advance, Stage
  <2> QED
    BY <2>3 DEF Answers!Next
<1> QED
  BY <1>1, <1>2, <1>3, <1>4, <1>5, <1>6, <1>7, <1>8, <1>9 DEF TurnLoop

\* The TTS worker closes replies; the main thread stops, cuts and queues Last.
LEMMA MainSimulates ==
    ASSUME TypeOK, StopOrder, SerialInv,
           CloseTurn \/ StopServing \/ Shutdown \/ Terminated \/ UNCHANGED vars
    PROVE  Answers!Next \/ UNCHANGED Answers!vars
<1> USE DEF Shut, handlerVars, listenerVars, turnVars, mainVars, sessionVars
<1>1. CASE CloseTurn
  <2>1. ends # <<>> /\ done' = done \cup {Head(ends)}
        /\ UNCHANGED <<turns, item, loop, served, interrupted, completed, stopping>>
    BY <1>1 DEF CloseTurn
  <2>2. Head(ends) \in 1 .. served
    BY <2>1 DEF SerialInv, TypeOK
  <2>3. CASE Head(ends) \in done
    BY <2>1, <2>3, Stutters
  <2>4. CASE Head(ends) \notin done
    <3>1. Answers!Close(Head(ends))
      BY <2>1, <2>2, <2>4 DEF Answers!Close, Stage
    <3> QED
      BY <2>2, <2>4, <3>1 DEF Answers!Next
  <2> QED
    BY <2>3, <2>4
<1>2. CASE StopServing
  <2>1. Answers!Stop
    BY <1>2 DEF StopServing, Answers!Stop, Stage, ttsVars
  <2> QED
    BY <2>1 DEF Answers!Next
<1>3. CASE InterruptSession
  <2>1. Answers!Cut
    BY <1>3 DEF InterruptSession, Interrupt, Answers!Cut, Stage
  <2> QED
    BY <2>1 DEF Answers!Next
<1>4. CASE PutSentinel
  <2>1. stopping
    BY <1>4 DEF PutSentinel, StopOrder
  <2>2. Answers!Accept(None)
    BY <1>4, <2>1 DEF PutSentinel, Answers!Accept, Stage
  <2> QED
    BY <2>2 DEF Answers!Next
<1>5. CASE StopTts \/ PokeListener \/ Terminated \/ UNCHANGED vars
  BY <1>5, Stutters DEF StopTts, PokeListener, Terminated, vars, ttsVars
<1> QED
  BY <1>1, <1>2, <1>3, <1>4, <1>5 DEF Shutdown

\* The threads together answer prompts as Answering says: in the order they
\* were spoken, one at a time, no reply over the speech of an earlier one, and
\* none reported as whole that was not.
THEOREM ImplementsAnswering == Spec => AnswersInOrder
<1>1. Init => Answers!Init
  BY DEF Init, SessionInit, Answers!Init, Stage, BeforeWait, AfterWait
<1>2. TypeOK /\ StrandInv /\ GateInv /\ SerialInv /\ [Next]_vars => [Answers!Next]_(Answers!vars)
  <2> SUFFICES ASSUME TypeOK, StrandInv, GateInv, SerialInv, [Next]_vars
               PROVE  Answers!Next \/ UNCHANGED Answers!vars
    OBVIOUS
  <2>1. HandedOver /\ TurnHeld /\ VerdictFounded /\ StopOrder
    BY DEF StrandInv
  <2>2. ASSUME NEW c \in Conns, Handler(c) \/ PeerCloses(c)
        PROVE  Answers!Next \/ UNCHANGED Answers!vars
    BY <2>2, HandlerSimulates DEF Answers!Next
  <2>3. CASE Listener
    BY <2>1, <2>3, ListenerSimulates
  <2>4. CASE TurnLoop
    BY <2>1, <2>4, TurnLoopSimulates
  <2>5. CASE CloseTurn \/ StopServing \/ Shutdown \/ Terminated \/ UNCHANGED vars
    BY <2>1, <2>5, MainSimulates
  <2> QED
    BY <2>2, <2>3, <2>4, <2>5 DEF Next
<1> QED
  BY <1>1, <1>2, TypeCorrect, StrandInvariant, GateInvariant, SerialInvariant, PTL
     DEF Spec, AnswersInOrder, Answers!Spec
=============================================================================
