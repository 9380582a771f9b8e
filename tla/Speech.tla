------------------------------- MODULE Speech -------------------------------
(***************************************************************************)
(* The TTS worker of src/sleeper/tts.py and those who give it jobs:        *)
(*                                                                         *)
(*   - the turn loop, which speaks the words of one reply after another    *)
(*     (conversation.py, reduced to what it asks of the TTS);              *)
(*   - /say and /voice requests, each in a handler thread that waits until *)
(*     the worker answers (server.py);                                     *)
(*   - whoever interrupts a reply: a barge-in, a disconnect, the shutdown. *)
(*                                                                         *)
(* Jobs are served first in, first out.  The worker checks the             *)
(* interruption event, sends, and accounts for a frame in three steps, so  *)
(* every interleaving with an interruption or a close is there.            *)
(***************************************************************************)
EXTENDS Synth

CONSTANTS Conns,        \* the /conversation sockets a reply is spoken to
          Sayers,       \* the /say sockets, one request each
          Pickers,      \* the /voice sockets, one request each
          SayEntries,   \* the script entries of one /say text
          MaxTurns,     \* bound: replies
          MaxWords      \* bound: words of one reply

ASSUME BoundsAssumption == SayEntries \in Nat /\ MaxTurns \in Nat /\ MaxWords \in Nat
ASSUME SocketsAssumption == None \notin Conns \cup Sayers \cup Pickers

VARIABLES jobs,          \* TTS._jobs
          stopped,       \* TTS._stopped
          worker,        \* where the worker is
          job,           \* the job it is on
          back,          \* the loop the frame in hand returns to
          interrupted,   \* the session's event
          closed,        \* sockets that are closed
          reply,         \* where the turn loop is
          served,        \* turns begun; the serial number of the current one
          owner,         \* the current turn's target
          spoken,        \* words it was asked to speak so far
          completed,     \* what wait_for_playback returned
          done,          \* turns whose done event is set
          emitted,       \* PlaybackTracker: frames recorded this turn
          marks,         \* PlaybackTracker: words marked this turn
          asking,        \* per /say or /voice request: where its handler is
          main,          \* the shutdown, up to the TTS stop
          cut,           \* ghost: the current turn was interrupted
          late,          \* ghost: its frames sent although interrupted
          broken,        \* ghost: turns abandoned after an error
          voicesUsed,    \* ghost: the voices the current turn was opened in
          heard,         \* ghost: per /say request, the frames delivered
          split          \* ghost: a /say came into the current turn and closed it

workVars   == <<worker, job, back>>
replyVars  == <<reply, served, owner, spoken, completed>>
trackVars  == <<emitted, marks>>
ghostVars  == <<cut, late, broken, voicesUsed, heard, split>>
vars == <<synthVars, jobs, stopped, workVars, interrupted, closed, replyVars, done, trackVars,
          asking, main, ghostVars>>

Sockets  == Conns \cup Sayers
stopping == main # "serving"

Word(n) == [kind |-> "word", turn |-> served, ws |-> owner, n |-> n]
End     == [kind |-> "end", turn |-> served]
SayJobs   == [kind : {"say"}, who : Sayers, voice : Voices]
VoiceJobs == [kind : {"voice"}, who : Pickers, voice : Voices]
WordJobs  == [kind : {"word"}, turn : 1 .. MaxTurns, ws : Conns, n : 1 .. MaxWords]
EndJobs   == [kind : {"end"}, turn : 1 .. MaxTurns]
Jobs      == WordJobs \cup EndJobs \cup SayJobs \cup VoiceJobs

ASSUME SentinelAssumption == None \notin Jobs

Idle == [kind |-> "none"]

WorkerStates == {"get", "speak", "drain", "frame", "send", "record", "mark", "say", "signal",
                 "exit", "dead"}
ReplyStates  == {"check", "begin", "stream", "end", "wait", "drain", "transcript", "cleanup",
                 "finish", "exit"}
AskStates    == {"new", "waiting", "answered", "refused", "rejected"}

\* The counts are bounded only by what was entered, so they are kept apart.
Typed ==
    /\ voice \in Voices \cup {None}
    /\ cache \subseteq Voices
    /\ conversationVoice \in cache
    /\ pipeline \in Seq(WordJobs \cup SayJobs)
    /\ target \in Sockets \cup {None}
    /\ conversationAudio \in BOOLEAN /\ turnOpen \in BOOLEAN /\ turnFailed \in BOOLEAN
    /\ jobs \in Seq(Jobs \cup {None})
    /\ stopped \in BOOLEAN
    /\ worker \in WorkerStates
    /\ job \in Jobs \cup {Idle}
    /\ back \in {"speak", "drain"}
    /\ interrupted \in BOOLEAN
    /\ closed \subseteq Sockets
    /\ reply \in ReplyStates
    /\ served \in 0 .. MaxTurns
    /\ owner \in Conns \cup {None}
    /\ spoken \in 0 .. MaxWords
    /\ completed \in BOOLEAN
    /\ done \subseteq 1 .. MaxTurns
    /\ emitted \in Nat
    /\ marks \in Seq(1 .. MaxWords)
    /\ asking \in [Sayers \cup Pickers -> AskStates]
    /\ main \in {"serving", "interrupt", "stop", "stopped"}
    /\ cut \in BOOLEAN
    /\ late \in Nat
    /\ broken \subseteq 1 .. MaxTurns
    /\ voicesUsed \subseteq Voices
    /\ heard \in [Sayers -> Nat]
    /\ split \in BOOLEAN

TypeOK == Typed /\ emitted <= MaxWords /\ \A s \in Sayers : heard[s] <= SayEntries

Init ==
    /\ SynthInit
    /\ jobs = <<>>
    /\ stopped = FALSE
    /\ worker = "get" /\ job = Idle /\ back = "speak"
    /\ interrupted = FALSE
    /\ closed = {}
    /\ reply = "check" /\ served = 0 /\ owner = None /\ spoken = 0 /\ completed = FALSE
    /\ done = {}
    /\ emitted = 0 /\ marks = <<>>
    /\ asking = [a \in Sayers \cup Pickers |-> "new"]
    /\ main = "serving"
    /\ cut = FALSE /\ late = 0 /\ broken = {} /\ voicesUsed = {}
    /\ heard = [s \in Sayers |-> 0]
    /\ split = FALSE

-----------------------------------------------------------------------------
\* The worker takes a job.

WorkerStep(from, to) ==
    /\ worker = from
    /\ worker' = to
    /\ UNCHANGED <<stopped, interrupted, closed, replyVars, main, cut>>

\* What the worker lets others know, and the ghosts that watch it.
accounts == <<done, trackVars, asking, late, broken, heard>>

Taking(kind, to) ==
    /\ WorkerStep("get", to)
    /\ jobs # <<>>
    /\ Head(jobs) # None
    /\ Head(jobs).kind = kind
    /\ jobs' = Tail(jobs)
    /\ job' = Head(jobs)
    /\ split' = (split \/ (kind = "say" /\ (turnOpen \/ turnFailed)))
    /\ UNCHANGED <<back, done, trackVars, late, heard>>

TakeSentinel ==
    /\ WorkerStep("get", "exit")
    /\ jobs # <<>>
    /\ Head(jobs) = None
    /\ jobs' = Tail(jobs)
    /\ UNCHANGED <<synthVars, job, back, accounts, voicesUsed, split>>

\* Words behind a barge-in or a failed socket wait for their EndOfTurn.
DropWord ==
    /\ Taking("word", "get")
    /\ interrupted \/ turnFailed
    /\ UNCHANGED <<synthVars, asking, broken, voicesUsed>>

OpenTurn ==
    /\ target' = job'.ws
    /\ conversationAudio' = TRUE
    /\ turnOpen' = TRUE
    /\ UNCHANGED turnFailed

SpeakWord_FollowsSelection ==   \* mutant: the selection is applied at every word
    /\ Taking("word", "speak")
    /\ ~interrupted /\ ~turnFailed
    /\ SpeakIn(conversationVoice, <<job'>>)
    /\ OpenTurn
    /\ voicesUsed' = voicesUsed \cup {conversationVoice}
    /\ UNCHANGED <<conversationVoice, asking, broken>>

SpeakWord ==
    /\ Taking("word", "speak")
    /\ ~interrupted /\ ~turnFailed
    /\ \/ turnOpen /\ SpeakIn(voice, <<job'>>) /\ UNCHANGED <<turnFlags, voicesUsed>>
       \/ /\ ~turnOpen
          /\ SpeakIn(conversationVoice, <<job'>>)
          /\ OpenTurn
          /\ voicesUsed' = voicesUsed \cup {conversationVoice}
    /\ UNCHANGED <<conversationVoice, asking, broken>>

\* The voice a turn opens in was looked up when it was selected, so only the
\* rebuild can fail.
FailToOpen ==
    /\ Taking("word", "get")
    /\ ~interrupted /\ ~turnFailed /\ ~turnOpen
    /\ RebuildFails(conversationVoice)
    /\ AbandonTurn
    /\ broken' = broken \cup {job'.turn}
    /\ UNCHANGED <<conversationVoice, asking, voicesUsed>>

\* EndOfTurn closes the open turn; so does a SayJob before it is spoken.
AfterClose(kind) == IF kind = "end" THEN "signal" ELSE "say"

Closing(kind, to) ==
    /\ Taking(kind, to)
    /\ UNCHANGED <<voice, cache, conversationVoice, asking, broken, voicesUsed>>

CloseUnopened(kind) ==
    /\ Closing(kind, AfterClose(kind))
    /\ ~turnOpen
    /\ turnFailed' = FALSE
    /\ UNCHANGED <<pipeline, target, conversationAudio, turnOpen>>

CloseInterrupted_NoReset(kind) ==       \* mutant: the aborted script is left in the generator
    /\ Closing(kind, AfterClose(kind))
    /\ turnOpen /\ interrupted
    /\ ForgetTurn
    /\ UNCHANGED pipeline

CloseInterrupted(kind) ==
    /\ Closing(kind, AfterClose(kind))
    /\ turnOpen /\ interrupted
    /\ pipeline' = <<>>
    /\ ForgetTurn

CloseByDraining(kind) ==
    /\ Closing(kind, "drain")
    /\ turnOpen /\ ~interrupted
    /\ UNCHANGED <<pipeline, turnFlags>>

SetConversationVoice ==
    /\ Taking("voice", "get")
    /\ SelectVoice(job'.voice)
    /\ asking' = [asking EXCEPT ![job'.who] = "answered"]
    /\ UNCHANGED <<voice, pipeline, turnFlags, broken, voicesUsed>>

RefuseConversationVoice ==      \* the lookup fails and the selection stays
    /\ Taking("voice", "get")
    /\ job'.voice \notin cache
    /\ asking' = [asking EXCEPT ![job'.who] = "refused"]
    /\ UNCHANGED <<synthVars, broken, voicesUsed>>

-----------------------------------------------------------------------------
\* The rest of a job: a SayJob, once the turn before it is closed.

Midway(from, to) ==
    /\ WorkerStep(from, to)
    /\ UNCHANGED <<jobs, job, conversationVoice, voicesUsed, split>>

SayUnits == [i \in 1 .. SayEntries |-> job]

BeginSay ==
    /\ Midway("say", "speak")
    /\ SpeakIn(job.voice, SayUnits)
    /\ target' = job.who
    /\ conversationAudio' = FALSE
    /\ UNCHANGED <<turnOpen, turnFailed, back, accounts>>

\* set_voice raises; abort_turn then has a generator to reset ...
FailSay ==
    /\ Midway("say", "signal")
    /\ LookupFails(job.voice)
    /\ CanReset
    /\ pipeline' = <<>>
    /\ target' = None
    /\ conversationAudio' = FALSE
    /\ UNCHANGED <<turnOpen, turnFailed, back, accounts>>

\* ... or has none: its assertion leaves the worker, after done is set.
DieInSay ==
    /\ Midway("say", "dead")
    /\ \/ RebuildFails(job.voice)
       \/ LookupFails(job.voice) /\ ~CanReset /\ UNCHANGED pipeline
    /\ target' = None
    /\ conversationAudio' = FALSE
    /\ asking' = [asking EXCEPT ![job.who] = "answered"]
    /\ UNCHANGED <<turnOpen, turnFailed, back, done, trackVars, late, broken, heard>>

-----------------------------------------------------------------------------
\* The loops of Synth.speak and Synth.end_turn, and one frame.

StepGenerator(from) ==
    /\ Midway(from, "frame")
    /\ back' = from
    /\ UNCHANGED <<synthVars, accounts>>

Pump  == Len(pipeline) > Ahead /\ StepGenerator("speak")
Drain == pipeline # <<>> /\ StepGenerator("drain")

Pumped ==
    /\ Midway("speak", IF job.kind = "word" THEN "mark" ELSE "drain")
    /\ Len(pipeline) <= Ahead
    /\ UNCHANGED <<synthVars, back, accounts>>

\* The drain of a turn closes it; the drain of a say ends the say.
Ended ==
    /\ Midway("drain", IF turnOpen THEN AfterClose(job.kind) ELSE "signal")
    /\ IF turnOpen THEN ForgetTurn
       ELSE target' = None /\ UNCHANGED <<conversationAudio, turnOpen, turnFailed>>
    /\ UNCHANGED <<voice, cache, back, accounts>>

Drained_NoTail ==               \* mutant: the delay tail is not run out
    /\ Ended
    /\ Len(pipeline) <= Ahead
    /\ pipeline' = <<>>

Drained == Ended /\ pipeline = <<>> /\ UNCHANGED pipeline

Dropping ==
    /\ Midway("frame", back)
    /\ pipeline' = Tail(pipeline)
    /\ UNCHANGED <<voice, cache, turnFlags, back, accounts>>

DropFrame_SayToo == interrupted /\ Dropping  \* mutant: an interruption silences /say as well

DropFrame == conversationAudio /\ interrupted /\ Dropping

KeepFrame_Unchecked ==          \* mutant: audio is sent whether or not it was interrupted
    /\ Midway("frame", "send")
    /\ UNCHANGED <<synthVars, back, accounts>>

KeepFrame ==
    /\ Midway("frame", "send")
    /\ ~(conversationAudio /\ interrupted)
    /\ UNCHANGED <<synthVars, back, accounts>>

SendFrame ==
    /\ Midway("send", IF conversationAudio THEN "record" ELSE back)
    /\ target \notin closed
    /\ pipeline' = IF conversationAudio THEN pipeline ELSE Tail(pipeline)
    /\ late' = IF conversationAudio /\ interrupted THEN late + 1 ELSE late
    /\ heard' = IF Head(pipeline).kind = "say"
                THEN [heard EXCEPT ![Head(pipeline).who] = @ + 1] ELSE heard
    /\ UNCHANGED <<voice, cache, turnFlags, back, done, trackVars, asking, broken>>

\* The send raises; what catches it depends on what was being spoken.
Raised(to) ==
    /\ Midway("send", to)
    /\ target \in closed
    /\ pipeline' = <<>>
    /\ UNCHANGED <<voice, cache, back, done, trackVars, asking, late, heard>>

WordRaises ==
    /\ job.kind = "word"
    /\ Raised("get")
    /\ AbandonTurn
    /\ broken' = broken \cup {Head(pipeline).turn}

CloseRaises ==
    /\ turnOpen /\ job.kind # "word"
    /\ Raised(AfterClose(job.kind))
    /\ ForgetTurn
    /\ broken' = broken \cup {Head(pipeline).turn}

SayRaises ==
    /\ ~turnOpen
    /\ Raised("signal")
    /\ target' = None
    /\ UNCHANGED <<conversationAudio, turnOpen, turnFailed, broken>>

RecordEmission ==
    /\ Midway("record", back)
    /\ emitted' = emitted + 1
    /\ pipeline' = Tail(pipeline)
    /\ UNCHANGED <<voice, cache, turnFlags, back, done, marks, asking, late, broken, heard>>

MarkSpoken ==
    /\ Midway("mark", "get")
    /\ marks' = Append(marks, job.n)
    /\ UNCHANGED <<synthVars, back, done, emitted, asking, late, broken, heard>>

\* done.set() of an EndOfTurn or of a SayJob.
SignalDone ==
    /\ Midway("signal", "get")
    /\ IF job.kind = "end"
       THEN done' = done \cup {job.turn} /\ UNCHANGED asking
       ELSE asking' = [asking EXCEPT ![job.who] = "answered"] /\ UNCHANGED done
    /\ UNCHANGED <<synthVars, back, trackVars, late, broken, heard>>

Worker ==
    \/ TakeSentinel \/ DropWord \/ SpeakWord \/ FailToOpen
    \/ \E kind \in {"end", "say"} :
          CloseUnopened(kind) \/ CloseInterrupted(kind) \/ CloseByDraining(kind)
    \/ SetConversationVoice \/ RefuseConversationVoice
    \/ BeginSay \/ FailSay \/ DieInSay
    \/ Pump \/ Pumped \/ Drain \/ Drained
    \/ DropFrame \/ KeepFrame \/ SendFrame \/ WordRaises \/ CloseRaises \/ SayRaises
    \/ RecordEmission \/ MarkSpoken \/ SignalDone

-----------------------------------------------------------------------------
\* Those who ask.  _try_enqueue admits a job unless the TTS has stopped.

Admit(j) == jobs' = IF stopped THEN jobs ELSE Append(jobs, j)

Ask(a, j) ==
    /\ asking[a] = "new"
    /\ Admit(j)
    /\ asking' = [asking EXCEPT ![a] = IF stopped THEN "rejected" ELSE "waiting"]
    /\ UNCHANGED <<synthVars, stopped, workVars, interrupted, closed, replyVars, done, trackVars,
                   main, ghostVars>>

AskSay(s)   == \E v \in Voices : Ask(s, [kind |-> "say", who |-> s, voice |-> v])
AskVoice(p) == \E v \in Voices : Ask(p, [kind |-> "voice", who |-> p, voice |-> v])

-----------------------------------------------------------------------------
\* The turn loop, from begin to finish of a reply.

ReplyStep(from, to) ==
    /\ reply = from
    /\ reply' = to
    /\ UNCHANGED <<synthVars, stopped, workVars, closed, asking, main, broken, heard>>

\* What belongs to the reply as a whole.
ofReply == <<interrupted, served, owner, trackVars, cut, late, voicesUsed, split>>

\* A step that changes nothing but the place.
Go(from, to) == ReplyStep(from, to) /\ UNCHANGED <<ofReply, jobs, spoken, completed, done>>

CheckStopping == Go("check", IF stopping THEN "exit" ELSE "begin")

BeginTurn(c) ==
    /\ ReplyStep("begin", "stream")
    /\ served < MaxTurns
    /\ interrupted' = FALSE
    /\ emitted' = 0 /\ marks' = <<>>
    /\ served' = served + 1
    /\ owner' = c
    /\ spoken' = 0
    /\ cut' = FALSE /\ late' = 0 /\ voicesUsed' = {} /\ split' = FALSE
    /\ UNCHANGED <<jobs, completed, done>>

StreamWord ==
    /\ ReplyStep("stream", "stream")
    /\ ~interrupted
    /\ spoken < MaxWords
    /\ spoken' = spoken + 1
    /\ Admit(Word(spoken + 1))
    /\ UNCHANGED <<ofReply, completed, done>>

StreamEnds == Go("stream", "end")       \* exhausted, interrupted, or failed

EndTurn_DoneAtOnce ==           \* mutant: done does not wait for the worker
    /\ ReplyStep("end", "wait")
    /\ Admit(End)
    /\ done' = done \cup {served}
    /\ UNCHANGED <<ofReply, spoken, completed>>

EndTurn_RejectedUnsignalled ==  \* mutant: a rejected close leaves its waiter
    /\ ReplyStep("end", "wait")
    /\ Admit(End)
    /\ UNCHANGED <<ofReply, spoken, completed, done>>

EndTurn ==
    /\ ReplyStep("end", "wait")
    /\ Admit(End)
    /\ done' = IF stopped THEN done \cup {served} ELSE done
    /\ UNCHANGED <<ofReply, spoken, completed>>

WaitReturns(from, result) ==
    /\ ReplyStep(from, "transcript")
    /\ completed' = result
    /\ UNCHANGED <<ofReply, jobs, spoken, done>>

WaitCutShort == (stopping \/ interrupted) /\ WaitReturns("wait", FALSE)
WaitLooks    == ~stopping /\ ~interrupted /\ Go("wait", "drain")
WaitDrained  == served \in done /\ WaitReturns("drain", TRUE)
WaitAgain    == Go("drain", "wait")

Recheck_Never == Go("transcript", "finish")     \* mutant: an interrupted turn is not waited for

\* After the transcript.
Recheck == Go("transcript", IF interrupted THEN "cleanup" ELSE "finish")

WaitForCleanup == served \in done /\ Go("cleanup", "finish")

FinishTurn ==
    /\ ReplyStep("finish", "check")
    /\ interrupted' = FALSE
    /\ UNCHANGED <<jobs, served, owner, spoken, completed, done, trackVars, cut, late, voicesUsed,
                   split>>

TurnLoop ==
    \/ CheckStopping \/ (\E c \in Conns : BeginTurn(c)) \/ StreamWord \/ StreamEnds \/ EndTurn
    \/ WaitCutShort \/ WaitLooks \/ WaitDrained \/ WaitAgain \/ Recheck \/ WaitForCleanup
    \/ FinishTurn

-----------------------------------------------------------------------------
\* The world around: interruptions, closing sockets, and the shutdown.

Interrupting ==
    /\ interrupted' = TRUE
    /\ cut' = (cut \/ reply \notin {"check", "begin", "exit"})

BargeInOrDisconnect ==
    /\ ~interrupted
    /\ Interrupting
    /\ UNCHANGED <<synthVars, jobs, stopped, workVars, closed, replyVars, done, trackVars, asking,
                   main, late, broken, voicesUsed, heard, split>>

CloseSocket(s) ==
    /\ s \notin closed
    /\ closed' = closed \cup {s}
    /\ UNCHANGED <<synthVars, jobs, stopped, workVars, interrupted, replyVars, done, trackVars,
                   asking, main, ghostVars>>

StopServing ==
    /\ main = "serving"
    /\ main' = "interrupt"
    /\ UNCHANGED <<synthVars, jobs, stopped, workVars, interrupted, closed, replyVars, done,
                   trackVars, asking, ghostVars>>

InterruptSession ==
    /\ main = "interrupt"
    /\ main' = "stop"
    /\ Interrupting
    /\ UNCHANGED <<synthVars, jobs, stopped, workVars, closed, replyVars, done, trackVars, asking,
                   late, broken, voicesUsed, heard, split>>

StopTts_SentinelFirst ==        \* mutant: admission stays open behind the sentinel
    /\ main = "stop"
    /\ main' = "stopped"
    /\ stopped' = FALSE
    /\ jobs' = Append(jobs, None)
    /\ UNCHANGED <<synthVars, workVars, interrupted, closed, replyVars, done, trackVars, asking,
                   ghostVars>>

\* Under _lock: no job is admitted behind the sentinel.
StopTts ==
    /\ main = "stop"
    /\ main' = "stopped"
    /\ stopped' = TRUE
    /\ jobs' = Append(jobs, None)
    /\ UNCHANGED <<synthVars, workVars, interrupted, closed, replyVars, done, trackVars, asking,
                   ghostVars>>

Environment ==
    \/ BargeInOrDisconnect
    \/ \E s \in Sockets : CloseSocket(s)
    \/ StopServing

Shutdown == InterruptSession \/ StopTts

Next ==
    \/ Worker
    \/ TurnLoop
    \/ \E s \in Sayers : AskSay(s)
    \/ \E p \in Pickers : AskVoice(p)
    \/ Environment
    \/ Shutdown

Spec == Init /\ [][Next]_vars

\* The worker and the turn loop are threads that keep running, and time passes:
\* a reply that is done does not play for ever.  Nobody has to ask, speak,
\* interrupt or stop, but a shutdown that was begun goes on.
Fairness ==
    /\ WF_vars(Worker)
    /\ WF_vars(TurnLoop)
    /\ SF_vars(StreamEnds)
    /\ SF_vars(WaitDrained)
    /\ WF_vars(Shutdown)

FairSpec == Spec /\ Fairness

-----------------------------------------------------------------------------
\* Properties.

\* Every frame is sent to the socket it was spoken for: no rest of one
\* utterance in the generator is heard by the client of the next
\* (tts.py:239-252, 353-370).
FramesToTheirOwner ==
    worker = "send" =>
        LET unit == Head(pipeline)
        IN  target = IF unit.kind = "word" THEN unit.ws ELSE unit.who

\* Emissions and word marks are accounted to the turn they belong to: a late
\* frame or word never counts in the next turn's timeline, and /say audio
\* counts in none (tts.py:29-31, 251-252, 426-427; playback.py:35-62).
AccountedToItsTurn ==
    /\ worker = "record" => Head(pipeline).kind = "word" /\ Head(pipeline).turn = served
    /\ worker = "mark" => job.turn = served

\* Once a turn is done nothing of it is left to be spoken, neither in the queue
\* nor in the generator (tts.py:392-411) -- until the TTS stops, when a close is
\* signalled without being queued behind the turn's words (tts.py:95-99).
DoneMeansSilent ==
    ~stopped => \A t \in done :
        /\ \A i \in 1 .. Len(jobs) :
              jobs[i] # None /\ jobs[i].kind = "word" => jobs[i].turn # t
        /\ \A i \in 1 .. Len(pipeline) : pipeline[i].kind = "word" => pipeline[i].turn # t

\* While the server runs, an interrupted turn sends at most the one frame whose
\* check came before the interruption (tts.py:245-249).  A shutdown may clear the
\* interruption of a turn it did not wait for (conversation.py:309-314).
OneLateFrameAtMost == stopping \/ late <= 1

\* A reply reported as completed, that nothing interrupted and no error broke,
\* was spoken whole: every word left as audio and is in the transcript.
CompletedIsWhole ==
    reply \in {"transcript", "cleanup", "finish"} /\ completed /\ ~cut /\ served \notin broken
        => emitted = spoken /\ Len(marks) = spoken

\* A /say is heard whole, or its socket is closed, or its voice could not be
\* had: neither an interruption nor the conversation cuts it
\* (tts.py:432-454).
SayIsWhole ==
    \A s \in Sayers :
        asking[s] = "answered" => heard[s] \in {0, SayEntries} \/ s \in closed

\* A job either runs and signals its waiter or is rejected outright: no admitted
\* request waits for ever (tts.py:75-78).
WaitersReleased ==
    \A a \in Sayers \cup Pickers : asking[a] = "waiting" ~> asking[a] # "waiting"

\* Every turn whose end was asked for is closed in the end
\* (conversation.py:65-67, tts.py:95-99).
TurnsClosed == reply = "wait" ~> served \in done

\* "Drop a broken conversation destination until its EndOfTurn arrives"
\* (tts.py:374): a turn that was abandoned is not opened again, unless a /say came
\* into it, whose _close_turn clears turn_failed of a turn that had failed before
\* and of one that fails while it drains (tts.py:394, tts.py:410).
BrokenStaysClosed == turnOpen /\ ~split => served \notin broken

\* "Set the voice for the next assistant turn without disturbing this one"
\* (tts.py:310): a turn that no /say closed in its midst is spoken in one voice.
OneVoicePerTurn == ~split => \A v, w \in voicesUsed : v = w
=============================================================================
