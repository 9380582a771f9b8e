-------------------------- MODULE DeploymentProofs --------------------------
(***************************************************************************)
(* Theorems about Deployment, for queues of any size, any number of        *)
(* connections and any number of restarts: no audio of one connection in   *)
(* another, no success reported unless a child ended well, and, with any   *)
(* bytes in reads of any length, a gain that follows the keys.             *)
(***************************************************************************)
EXTENDS Deployment, GainKeysProofs

LEMMA SeqWider ==
    ASSUME NEW S, NEW T, S \subseteq T, NEW s \in Seq(S)
    PROVE  s \in Seq(T)
  OBVIOUS

-----------------------------------------------------------------------------
\* What makes EachConnectionItsOwn inductive: a block is in the hand of the
\* sending task only within a connection, and from the flush of a queue until
\* the next connection it holds nothing that was captured, or received, in one.
OwnAudioInv ==
    /\ connection \in Nat
    /\ microphone \in Seq(Nat) /\ playback \in Seq(Nat)
    /\ sender = "sending" => run = "waiting" /\ hand \in {Between, connection}
    /\ run = "waiting" => /\ microphone \in Seq({Between, connection})
                          /\ playback \in Seq({connection})
    /\ run \in {"flushed", "sleeping", "connecting", "handshake"} => microphone \in Seq({Between})
    /\ run \in {"sleeping", "connecting", "handshake"} => playback = <<>>

\* The callbacks, the connection and the tasks.
LEMMA OwnAudioTasks ==
    ASSUME OwnAudioInv,
           capture \/ play \/ Tasks \/ LoseLink \/ Dial \/ ConnectFails
              \/ (\E message \in Messages : Arrives(message))
    PROVE  OwnAudioInv'
<1> USE DEF OwnAudioInv, taskVars, queueVars
<1>1. CASE capture
  <2>1. microphone' = Append(microphone, CapturedIn)
        /\ UNCHANGED <<run, connection, sender, hand, playback>>
    BY <1>1 DEF capture
  <2>2. CapturedIn \in Nat /\ CapturedIn \in {Between, connection}
        /\ (run \notin {"waiting", "closing", "flushing"} => CapturedIn = Between)
    BY DEF CapturedIn, Between
  <2> QED
    BY <2>1, <2>2
<1>2. CASE play
  <2>1. playback # <<>> /\ playback' = Tail(playback)
        /\ UNCHANGED <<run, connection, sender, hand, microphone>>
    BY <1>2 DEF play
  <2> QED
    BY <2>1
<1>3. CASE TakeBlock
  <2>1. run = "waiting" /\ microphone # <<>> /\ microphone' = Tail(microphone)
        /\ hand' = Head(microphone) /\ UNCHANGED <<run, connection, playback>>
    BY <1>3 DEF TakeBlock
  <2>2. hand' \in {Between, connection} /\ microphone' \in Seq({Between, connection})
        /\ microphone' \in Seq(Nat)
    BY <2>1
  <2> QED
    BY <2>1, <2>2
<1>4. CASE SendBlock
  BY <1>4 DEF SendBlock
<1>5. CASE Receive
  <2>1. CASE ReceiveFrame
    BY <2>1 DEF ReceiveFrame, Receiving
  <2>2. CASE ReceiveMalformed \/ ReceiverEnds
    BY <2>2 DEF ReceiveMalformed, ReceiverEnds
  <2> QED
    BY <1>5, <2>1, <2>2 DEF Receive
<1>6. CASE LoseLink \/ Dial \/ ConnectFails
  BY <1>6 DEF LoseLink, Dial, ConnectFails, RunGoes
<1>7. CASE \E message \in Messages : Arrives(message)
  BY <1>7 DEF Arrives
<1> QED
  BY <1>1, <1>2, <1>3, <1>4, <1>5, <1>6, <1>7 DEF Tasks

\* The loop of _run.
LEMMA OwnAudioLoop ==
    ASSUME OwnAudioInv, Loop
    PROVE  OwnAudioInv'
<1> USE DEF OwnAudioInv, taskVars, queueVars, RunGoes
<1>1. CASE Connected
  <2>1. run = "handshake" /\ run' = "waiting" /\ connection' = connection + 1
        /\ sender' = "idle" /\ UNCHANGED <<hand, microphone, playback>>
    BY <1>1 DEF Connected
  <2>2. microphone' \in Seq({Between, connection'})
    BY <2>1, SeqWider
  <2>3. playback' \in Seq({connection'})
    BY <2>1
  <2> QED
    BY <2>1, <2>2, <2>3
<1>2. CASE TaskEnds \/ Dies
  BY <1>2 DEF TaskEnds, Dies, Cancelled
<1>3. CASE HandshakeFails \/ Closed \/ SleepEnds
  BY <1>3 DEF HandshakeFails, Closed, SleepEnds
<1>4. CASE FlushMicrophone
  BY <1>4 DEF FlushMicrophone
<1>5. CASE FlushPlayback
  BY <1>5 DEF FlushPlayback
<1> QED
  BY <1>1, <1>2, <1>3, <1>4, <1>5 DEF Loop

\* A connection sends and plays no audio of an earlier one, however often the
\* client reconnects and whatever ended the connection.
THEOREM OwnAudio == Spec => []EachConnectionItsOwn
<1>1. Init => OwnAudioInv
  BY DEF Init, ClientInit, OwnAudioInv
<1>2. OwnAudioInv /\ [Next]_vars => OwnAudioInv'
  <2> SUFFICES ASSUME OwnAudioInv, [Next]_vars PROVE OwnAudioInv'
    OBVIOUS
  <2>1. ASSUME UNCHANGED <<run, connection, sender, hand, microphone, playback>>
        PROVE  OwnAudioInv'
    BY <2>1 DEF OwnAudioInv
  <2>2. CASE Keys \/ (SupervisorNext /\ Hangup) \/ StartAgain \/ UNCHANGED vars
    BY <2>1, <2>2 DEF Keys, Hangup, StartAgain, vars, clientVars, taskVars, queueVars
  <2> QED
    BY <2>2, OwnAudioTasks, OwnAudioLoop DEF Next
<1>3. OwnAudioInv => EachConnectionItsOwn
  <2> SUFFICES ASSUME OwnAudioInv PROVE EachConnectionItsOwn
    OBVIOUS
  <2>1. ASSUME playback \in Seq({connection}) PROVE ToSet(playback) \subseteq {connection}
    BY <2>1 DEF ToSet
  <2> QED
    BY <2>1 DEF OwnAudioInv, EachConnectionItsOwn
<1> QED
  BY <1>1, <1>2, <1>3, PTL DEF Spec

-----------------------------------------------------------------------------
\* What makes CrashReported inductive: when the script has ended no child is
\* left whose end could change what was reported.
ReportInv ==
    /\ child \in [Children -> {"absent", "starting", "ready", "gone"}]
    /\ left \in [Children -> {Clean, Failed, Killed, Unset}]
    /\ script = "exited" => \A c \in Children : ~Alive(c)
    /\ CrashReported

LEMMA ReportInvScript ==
    ASSUME ReportInv, Command \/ Trap \/ StopContainer \/ (\E c \in Children : Ready(c) \/ Leave(c))
    PROVE  ReportInv'
<1> USE DEF ReportInv, CrashReported, Alive, ScriptGoes, Exit, Clean, Failed, Killed, Unset
<1>1. CASE Healthy \/ NotHealthy \/ StillLoading \/ SleepOver \/ RecordPid
  BY <1>1 DEF Healthy, NotHealthy, StillLoading, SleepOver, RecordPid
<1>2. CASE StartSleeper
  BY <1>2 DEF StartSleeper, Children
<1>3. CASE DiedLoading \/ TrapInWait
  BY <1>3 DEF DiedLoading, TrapInWait
<1>4. CASE WaitReturns
  <2>1. PICK c \in Children : child[c] = "gone" /\ Exit(left[c])
    BY <1>4 DEF WaitReturns, Gone
  <2> QED
    BY <2>1
<1>5. CASE Trap \/ StopContainer
  BY <1>5 DEF Trap, StopContainer
<1>6. ASSUME NEW c \in Children, Ready(c) \/ Leave(c)
      PROVE  ReportInv'
  BY <1>6 DEF Ready, Leave
<1> QED
  BY <1>1, <1>2, <1>3, <1>4, <1>5, <1>6 DEF Command

\* A container that reports success had a child that ended well, in any order of
\* loading, crashes, signals and restarts.
THEOREM CrashTold == Spec => []CrashReported
<1>1. Init => ReportInv
  BY DEF Init, SupervisorInit, ReportInv, CrashReported, Clean, Failed, Killed, Unset
<1>2. ReportInv /\ [Next]_vars => ReportInv'
  <2> SUFFICES ASSUME ReportInv, [Next]_vars PROVE ReportInv'
    OBVIOUS
  <2>1. ASSUME UNCHANGED supervisorVars
        PROVE  ReportInv'
    BY <2>1 DEF supervisorVars, ReportInv, CrashReported, Alive
  <2>2. CASE SupervisorNext
    BY <2>2, ReportInvScript DEF SupervisorNext
  <2>3. CASE StartAgain
    BY <2>3 DEF StartAgain, Restart, ReportInv, CrashReported, Alive, Clean, Failed, Killed, Unset
  <2> QED
    BY <2>1, <2>2, <2>3 DEF Next, Keys, ClientAlone, Trouble, vars
<1>3. ReportInv => CrashReported
  BY DEF ReportInv
<1> QED
  BY <1>1, <1>2, <1>3, PTL DEF Spec

-----------------------------------------------------------------------------
\* However the bytes typed are cut into reads, the gain is the one that every
\* arrow key, taken once and in order, leads to (_gain_controls of client.py).
THEOREM EveryKeyCounts == Spec => []GainFollowsKeys
<1>1. Init => GainInv
  BY GainInvInit DEF Init
<1>2. GainInv /\ [Next]_vars => GainInv'
  BY GainInvNext DEF Next, Keys, ClientAlone, Trouble, Hangup, StartAgain, vars
<1>3. GainInv => GainFollowsKeys
  BY DEF GainInv
<1> QED
  BY <1>1, <1>2, <1>3, PTL DEF Spec

-----------------------------------------------------------------------------
\* What makes TypeOK inductive, for the client: it has connected at least once
\* when it receives, and may connect once more when it is about to.
ClientTypeInv ==
    /\ ClientTypeOK
    /\ run = "waiting" => connection >= 1
    /\ run = "handshake" => connection < MaxConnections

LEMMA ClientTyped ==
    ASSUME ClientTypeInv,
           \/ capture \/ play \/ Tasks \/ Loop \/ Dial \/ LoseLink \/ ConnectFails
           \/ \E message \in Messages : Arrives(message)
    PROVE  ClientTypeInv'
<1> USE QueueAssumption, ConnectionsAssumption
        DEF ClientTypeInv, ClientTypeOK, taskVars, queueVars, RunGoes, Between, Messages
<1>1. CASE capture
  BY <1>1 DEF capture, CapturedIn
<1>2. CASE play
  BY <1>2 DEF play
<1>3. CASE TakeBlock
  BY <1>3 DEF TakeBlock
<1>4. CASE SendBlock
  BY <1>4 DEF SendBlock
<1>5. CASE ReceiveFrame
  BY <1>5 DEF ReceiveFrame, Receiving
<1>6. CASE ReceiveMalformed
  BY <1>6 DEF ReceiveMalformed, Receiving
<1>7. CASE ReceiverEnds
  BY <1>7 DEF ReceiverEnds, Receiving
<1>8. CASE Connected
  BY <1>8 DEF Connected
<1>9. CASE HandshakeFails \/ SleepEnds
  BY <1>9 DEF HandshakeFails, SleepEnds
<1>10. CASE TaskEnds \/ Dies
  BY <1>10 DEF TaskEnds, Dies, Cancelled
<1>11. CASE Closed
  BY <1>11 DEF Closed
<1>12. CASE FlushMicrophone
  <2>1. microphone' = <<>> /\ run' = "flushed" /\ UNCHANGED <<connection, link, wire, sender, hand, receiver, playback>>
    BY <1>12 DEF FlushMicrophone
  <2> QED
    BY <2>1
<1>13. CASE FlushPlayback
  <2>1. playback' = <<>> /\ run' = "sleeping" /\ UNCHANGED <<connection, link, wire, sender, hand, receiver, microphone>>
    BY <1>13 DEF FlushPlayback
  <2> QED
    BY <2>1
<1>14. CASE Dial \/ LoseLink \/ ConnectFails
  BY <1>14 DEF Dial, LoseLink, ConnectFails
<1>15. CASE \E message \in Messages : Arrives(message)
  BY <1>15 DEF Arrives
<1> QED
  BY <1>1, <1>2, <1>3, <1>4, <1>5, <1>6, <1>7, <1>8, <1>9, <1>10, <1>11, <1>12, <1>13, <1>14, <1>15
  DEF Tasks, Receive, Loop

LEMMA SupervisorTyped ==
    ASSUME SupervisorTypeOK, SupervisorNext \/ Restart
    PROVE  SupervisorTypeOK'
<1> USE DEF SupervisorTypeOK, ScriptGoes, Exit, Children, Clean, Failed, Killed, Unset
<1>1. CASE Healthy \/ NotHealthy \/ StillLoading \/ SleepOver
  <2>1. script' \in {"fork", "check", "sleep", "curl"} /\ UNCHANGED <<status, pending, known, child, left, termed>>
    BY <1>1 DEF Healthy, NotHealthy, StillLoading, SleepOver
  <2> QED
    BY <2>1
<1>2. CASE StartSleeper
  BY <1>2 DEF StartSleeper
<1>3. CASE RecordPid
  BY <1>3 DEF RecordPid
<1>4. CASE DiedLoading
  BY <1>4 DEF DiedLoading
<1>5. CASE TrapInWait
  BY <1>5 DEF TrapInWait
<1>6. CASE WaitReturns
  <2>1. PICK c \in Children : Exit(left[c])
    BY <1>6 DEF WaitReturns, Gone
  <2> QED
    BY <2>1
<1>7. CASE Trap
  BY <1>7 DEF Trap
<1>8. CASE StopContainer
  BY <1>8 DEF StopContainer
<1>9. CASE Restart
  BY <1>9 DEF Restart
<1>10. ASSUME NEW c \in Children, Ready(c) \/ Leave(c)
      PROVE  SupervisorTypeOK'
  <2>1. PICK code \in {Clean, Failed, Killed, Unset} :
           /\ child' \in [Children -> {"absent", "starting", "ready", "gone"}]
           /\ left' \in {left, [left EXCEPT ![c] = code]}
           /\ UNCHANGED <<script, status, pending, known, termed>>
    BY <1>10 DEF Ready, Leave
  <2> QED
    BY <2>1
<1> QED
  BY <1>1, <1>2, <1>3, <1>4, <1>5, <1>6, <1>7, <1>8, <1>9, <1>10 DEF SupervisorNext, Command

\* Type correctness of client, container and keys together.
THEOREM TypeCorrect == Spec => []TypeOK
<1> DEFINE Inv == ClientTypeInv /\ SupervisorTypeOK /\ GainInv
<1>1. Init => Inv
  <2> SUFFICES ASSUME Init PROVE Inv
    OBVIOUS
  <2>1. ClientTypeInv
    BY QueueAssumption, ConnectionsAssumption
    DEF Init, ClientInit, ClientTypeInv, ClientTypeOK, Between, Messages
  <2>2. SupervisorTypeOK
    BY DEF Init, SupervisorInit, SupervisorTypeOK, Children, Clean, Failed, Killed, Unset
  <2> QED
    BY <2>1, <2>2, GainInvInit DEF Init
<1>2. Inv /\ [Next]_vars => Inv'
  <2> SUFFICES ASSUME Inv, [Next]_vars PROVE Inv'
    OBVIOUS
  <2>1. GainInv'
    BY GainInvNext DEF Next, Keys, ClientAlone, Trouble, Hangup, StartAgain, vars
  <2>2. SupervisorTypeOK'
    <3>1. CASE UNCHANGED supervisorVars
      BY <3>1 DEF supervisorVars, SupervisorTypeOK
    <3> QED
      BY <3>1, SupervisorTyped DEF Next, Keys, ClientAlone, Trouble, StartAgain, vars
  <2>3. ClientTypeInv'
    <3>1. CASE UNCHANGED clientVars
      BY <3>1 DEF clientVars, ClientTypeInv, ClientTypeOK
    <3>2. CASE Hangup
      BY <3>2 DEF Hangup, taskVars, queueVars, ClientTypeInv, ClientTypeOK
    <3> QED
      BY <3>1, <3>2, ClientTyped DEF Next, Keys, StartAgain, vars
  <2> QED
    BY <2>1, <2>2, <2>3
<1>3. Inv => TypeOK
  BY GainInvTyped DEF ClientTypeInv, TypeOK
<1> HIDE DEF Inv
<1> QED
  BY <1>1, <1>2, <1>3, PTL DEF Spec
=============================================================================
