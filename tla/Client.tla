------------------------------- MODULE Client -------------------------------
(***************************************************************************)
(* _run of client.py around its connections: the microphone's bounded      *)
(* queue and the task that sends it, the task that receives, and the loop  *)
(* that waits for either to end, clears up, flushes and connects again.    *)
(*                                                                         *)
(* Audio is the number of the connection it belongs to.  The capture and   *)
(* play callbacks run on threads of their own; the tasks and the loop share *)
(* one, and interleave where they await.                                   *)
(***************************************************************************)
EXTENDS Naturals, Sequences, SequencesExt

CONSTANTS MicrophoneSize,  \* maxsize of the microphone queue (32 in the code)
          MaxQueued,       \* bound: frames in the playback queue, and under way
          MaxConnections   \* bound: connections made

ASSUME QueueAssumption == MicrophoneSize \in Nat \ {0}
ASSUME ConnectionsAssumption == MaxConnections \in Nat

\* Audio captured when there is no connection, nor the clearing up after one.
Between == 0

VARIABLES run,        \* where the loop of _run is
          connection, \* connections made
          link,       \* the WebSocket: "none", "open" or "lost"
          wire,       \* messages sent by the server and not read yet
          sender, hand,  \* _send_mic, and the block it is sending
          receiver,   \* _receive
          microphone, \* per block, when it was captured
          playback    \* per frame, the connection it was received on

clientVars == <<run, connection, link, wire, sender, hand, receiver, microphone, playback>>
taskVars   == <<sender, hand, receiver>>
queueVars  == <<microphone, playback>>

Messages == {"frame", "malformed"}

ClientTypeOK ==
    /\ run \in {"connecting", "handshake", "waiting", "closing", "flushing", "flushed", "sleeping", "dead"}
    /\ connection \in 0 .. MaxConnections
    /\ link \in {"none", "open", "lost"}
    /\ wire \in Seq(Messages)
    /\ sender \in {"none", "idle", "sending", "over"}
    /\ hand \in 0 .. MaxConnections
    /\ receiver \in {"none", "reading", "over", "invalid"}
    /\ microphone \in Seq(0 .. MaxConnections) /\ Len(microphone) <= MicrophoneSize
    /\ playback \in Seq(1 .. MaxConnections)

ClientInit ==
    /\ run = "connecting" /\ connection = 0
    /\ link = "none" /\ wire = <<>>
    /\ sender = "none" /\ hand = Between /\ receiver = "none"
    /\ microphone = <<>> /\ playback = <<>>

-----------------------------------------------------------------------------
\* The sound callbacks.

CapturedIn == IF run \in {"waiting", "closing", "flushing"} THEN connection ELSE Between

\* A full queue drops the block that comes last.
capture_Unbounded ==            \* mutant: the queue has no maximal size
    /\ run # "dead"
    /\ microphone' = Append(microphone, CapturedIn)
    /\ UNCHANGED <<run, connection, link, wire, taskVars, playback>>

capture ==
    /\ run # "dead"
    /\ Len(microphone) < MicrophoneSize
    /\ microphone' = Append(microphone, CapturedIn)
    /\ UNCHANGED <<run, connection, link, wire, taskVars, playback>>

play ==
    /\ run # "dead"
    /\ playback # <<>>
    /\ playback' = Tail(playback)
    /\ UNCHANGED <<run, connection, link, wire, taskVars, microphone>>

-----------------------------------------------------------------------------
\* The WebSocket.

Arrives(message) ==
    /\ link = "open" /\ receiver = "reading"
    /\ Len(wire) + Len(playback) < MaxQueued
    /\ wire' = Append(wire, message)
    /\ UNCHANGED <<run, connection, link, taskVars, queueVars>>

LoseLink ==
    /\ link = "open"
    /\ link' = "lost"
    /\ UNCHANGED <<run, connection, wire, taskVars, queueVars>>

-----------------------------------------------------------------------------
\* _send_mic.

TakeBlock ==
    /\ sender = "idle" /\ run = "waiting"
    /\ microphone # <<>>
    /\ hand' = Head(microphone) /\ microphone' = Tail(microphone)
    /\ sender' = "sending"
    /\ UNCHANGED <<run, connection, link, wire, receiver, playback>>

\* A send on a lost connection raises ConnectionClosed.
SendBlock ==
    /\ sender = "sending" /\ run = "waiting"
    /\ sender' = IF link = "open" THEN "idle" ELSE "over"
    /\ hand' = Between
    /\ UNCHANGED <<run, connection, link, wire, receiver, queueVars>>

\* _receive.  What a transcript does to the playback queue is in AudioPath.

Receiving == receiver = "reading" /\ run = "waiting"

ReceiveFrame ==
    /\ Receiving
    /\ wire # <<>> /\ Head(wire) = "frame"
    /\ wire' = Tail(wire)
    /\ playback' = Append(playback, connection)
    /\ UNCHANGED <<run, connection, link, taskVars, microphone>>

\* ValueError: not caught by _run.
ReceiveMalformed ==
    /\ Receiving
    /\ wire # <<>> /\ Head(wire) = "malformed"
    /\ wire' = Tail(wire)
    /\ receiver' = "invalid"
    /\ UNCHANGED <<run, connection, link, sender, hand, queueVars>>

\* The iteration ends or raises ConnectionClosed once all that came is read.
ReceiverEnds ==
    /\ Receiving
    /\ wire = <<>> /\ link = "lost"
    /\ receiver' = "over"
    /\ UNCHANGED <<run, connection, link, wire, sender, hand, queueVars>>

Receive == ReceiveFrame \/ ReceiveMalformed \/ ReceiverEnds

Tasks == TakeBlock \/ SendBlock \/ Receive

-----------------------------------------------------------------------------
\* _run.

RunGoes(from, to) ==
    /\ run = from
    /\ run' = to

Dial ==
    /\ RunGoes("connecting", "handshake")
    /\ connection < MaxConnections
    /\ link' = "open"
    /\ UNCHANGED <<connection, wire, taskVars, queueVars>>

Connected ==
    /\ RunGoes("handshake", "waiting")
    /\ link = "open"
    /\ connection' = connection + 1
    /\ sender' = "idle" /\ receiver' = "reading"
    /\ UNCHANGED <<link, wire, hand, queueVars>>

\* OSError or TimeoutError: caught.
ConnectFails_Uncaught ==        \* mutant: connecting is outside the try
    /\ run \in {"connecting", "handshake"}
    /\ run' = "dead" /\ link' = "none"
    /\ UNCHANGED <<connection, wire, taskVars, queueVars>>

ConnectFails ==
    /\ run \in {"connecting", "handshake"}
    /\ run' = "flushing" /\ link' = "none"
    /\ UNCHANGED <<connection, wire, taskVars, queueVars>>

\* A server that hangs up in the handshake is an InvalidHandshake of websockets,
\* which is none of the exceptions caught.
HandshakeFails ==
    /\ RunGoes("handshake", "dead")
    /\ link = "lost"
    /\ UNCHANGED <<connection, link, wire, taskVars, queueVars>>

\* asyncio.wait returns with the tasks that are done by now; the others are
\* cancelled and their results dropped.  The first exception found among the
\* done ones decides: of a lost connection and a bad message, either.
TaskDone == sender = "over" \/ receiver \in {"over", "invalid"}

Cancelled == sender' = "none" /\ hand' = Between /\ UNCHANGED <<connection, link, wire, queueVars>>

TaskEnds ==
    /\ RunGoes("waiting", "closing")
    /\ TaskDone
    /\ receiver = "invalid" => sender = "over"
    /\ receiver' = "none"
    /\ Cancelled

\* The client exits with the error of the message.
Dies ==
    /\ RunGoes("waiting", "dead")
    /\ receiver = "invalid"
    /\ UNCHANGED receiver
    /\ Cancelled

\* Leaving the block of the connection closes it, which may take seconds.
Closed ==
    /\ RunGoes("closing", "flushing")
    /\ link' = "none" /\ wire' = <<>>
    /\ UNCHANGED <<connection, taskVars, queueVars>>

FlushMicrophone_Never ==        \* mutant: the microphone is not flushed
    /\ RunGoes("flushing", "flushed")
    /\ UNCHANGED <<connection, link, wire, taskVars, queueVars>>

FlushMicrophone ==
    /\ RunGoes("flushing", "flushed")
    /\ microphone' = <<>>
    /\ UNCHANGED <<connection, link, wire, taskVars, playback>>

FlushPlayback ==
    /\ RunGoes("flushed", "sleeping")
    /\ playback' = <<>>
    /\ UNCHANGED <<connection, link, wire, taskVars, microphone>>

SleepEnds ==
    /\ RunGoes("sleeping", "connecting")
    /\ UNCHANGED <<connection, link, wire, taskVars, queueVars>>

Loop == Connected \/ HandshakeFails \/ TaskEnds \/ Dies \/ Closed \/ FlushMicrophone \/ FlushPlayback \/ SleepEnds

-----------------------------------------------------------------------------

\* What the loop does not survive: a message it cannot read, and a server that
\* goes away in the handshake.
Fatal == run = "dead" /\ (receiver = "invalid" \/ link = "lost")

\* A connection sends no block captured during an earlier one or before that
\* one was cleared up, and plays no frame received on an earlier one: between
\* two connections _run empties both queues, after the tasks are gone.
EachConnectionItsOwn ==
    /\ sender = "sending" => hand \in {Between, connection}
    /\ run = "waiting" => ToSet(playback) \subseteq {connection}
=============================================================================
