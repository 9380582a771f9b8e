# Sleeper in TLA+

Sleeper is a voice assistant server: a client streams a microphone over one
WebSocket, the server listens, recognizes, asks a language model and speaks the
answer back, and either side may cut the other short. It is a few hundred lines
of Python in which six kinds of threads share four queues, five events and one
resident speech generator. What is hard about it is not in any one function but
in the order in which those threads meet. This directory models that part and
leaves the signal processing alone.

Around the server stand a client that reconnects by itself, a terminal
application that auditions voices, and a shell script that keeps a language
model and the server alive in one container; these have orders of their own to
get wrong, and are modelled too.

The modules are translated from the source under `src/src/sleeper`; paths below
are relative to that directory unless they say otherwise.

## 1. The system

| Component | State it keeps | Operations | What makes it correct |
| --- | --- | --- | --- |
| `ConversationSession` (`conversation.py`) | owner lock, connection, phase, interrupted event, open turn | `try_connect`, `disconnect`, `barge_in`, `user_turn_finished`, `assistant_turn_started/finished`, `abandon_assistant_turn`, `return_to_user`, `interrupt` | one owner; never left in the assistant phase with nothing to end it; an interruption belongs to the turn it cut |
| Turn loop (`conversation.py`) | the prompt it answers, the model's history | `turn_loop`, `_run_turn` | one turn at a time; transcripts tell the truth; every prompt is taken up; ends at shutdown |
| Routes (`server.py`) | nothing of their own | `/conversation`, `/say`, `/voice` handlers, one thread per socket | second clients are refused; requests are answered |
| Voice input (`asr.py`, `interruption.py`) | utterance state, preroll, utterance window, recognizer buffer, hangover counter | `process`, `_start_turn`, `_record`, `_finish_turn`, `listen_worker` | no speech twice, none lost; a prompt goes to who spoke it |
| TTS queue and worker (`tts.py`) | job queue, stopped flag | `speak_word`, `end_turn`, `say`, `set_conversation_voice`, `stop`, `run` | every admitted job runs and releases its waiter |
| `Synth` (`tts.py`) | generator and its voice, conditioning cache, destination, turn flags, script in the pipeline | `set_voice`, `speak`, `end_turn`, `abort_turn`, `_on_frame`, job handlers | audio goes where it belongs and to nothing else; complete replies are whole |
| `PlaybackTracker` (`playback.py`) | clock start, emitted samples, word marks, changed event | `reset_turn`, `record_emission`, `mark_spoken`, `heard_text`, `wait_until_complete` | heard only grows; the wait ends, and for the reason it reports |
| Desktop client (`client.py`) | microphone queue (32 blocks), playback queue, the two tasks of a connection, gain and half-read keys | capture and play callbacks, `_send_mic`, `_receive`, the loop of `_run`, `on_readable` | silent after an interruption; nothing of a connection in the next; it comes back; the gain follows the keys |
| Startup and shutdown (`__main__.py`) | stopping event | `main` | every thread is woken and ends |
| Word splitting (`text.py`) | unfinished word | `iter_words` | words come out whole and once |
| Voice picker (`src/scripts/pick_voice.py`) | playlists, index, auto mode, live worker, installed audio queue, favorites and their file | keys, radio messages, `_play`, worker events, the audio callback | the voice heard is the voice shown; only the live worker counts; auto mode ends, and is complete only when it was |
| Container supervision (`src/docker/entrypoint.sh`) | two child processes, their recorded pids, a pending signal | start, health wait, `terminate`, `wait -n` | either child's exit, or a signal at any time, ends the container; a crash is told |
| Small clients and wiring (`say.py`, `src/scripts/set_voice.py`, `messages.py`, `llm.py`, `chat.py`) | none | one request each; schemas; construction of the agent | |

How they interact: a `/conversation` handler puts microphone blocks on
`mic_frames`; the listener takes them off, moves the session's phase, and puts
prompts on `turns`; the turn loop takes a prompt, begins a turn, puts a job per
word and a closing job on the TTS queue, and waits on the tracker; the worker
speaks jobs to the socket in their `target` and reports emissions to the
tracker; `/say` and `/voice` handlers put jobs on the same queue and block until
the worker answers; barge-in, disconnect and shutdown set the interrupted event,
which the worker, the tracker's wait and the turn loop poll. The client's sockets
live as long as the server's process, and that as long as the container's
script, which whoever runs the container starts again; the voice picker is one
more client, of `/say`.

The hard behaviours:

- interleavings of the handler, listener, turn loop, worker and main threads
  around a phase and an event that are each locked, but not across the several
  steps of an operation;
- check, then act: the owner of a prompt, the interruption of a frame, the
  timeline of a wait are read first and used later;
- partial failure: model streams, sockets, voice lookups and generator rebuilds
  fail in the middle of a turn;
- reuse: one generator, one tracker and one event serve turn after turn;
- shutdown while anybody may be blocked on any queue or event;
- late answers: cancellations, worker events and radio messages that arrive after
  what they were about has been replaced;
- reconnection: what ends a connection, and what it leaves in two queues;
- two processes, a script that reacts to signals only between its commands, and
  an exit status that must not hide a crash.

## 2. Modules

| Module | Models | State and actions |
| --- | --- | --- |
| `Session` | `ConversationSession` | one operator per critical section; a method that takes a lock twice is two operators |
| `TurnTaking` | the threads around the session | `handler`, `listener`, `loop`, `main` say where each thread is in its code; `mic`, `turns` and `ends` are the queues; one action per step that other threads can tell apart |
| `MCTurnTaking` | instances of it | |
| `TurnTakingProofs` | theorems about it | |
| `Answering` | what the server promises of prompts, without threads: an abstract specification | a queue, the prompt taken up, the stage of its reply, the replies whose speech is not over |
| `AnsweringProofs` | `TurnTaking` implements `Answering` | |
| `Synth` | the generator | `SpeakIn` is `set_voice` followed by `speak`, `pipeline` is what has entered the generator and is not yet heard |
| `Speech` | the TTS worker and its clients | a job is taken and dispatched in one action; the loops of `speak` and `end_turn` step by step, a frame in three steps (check, send, record) |
| `MCSpeech` | instances of it | |
| `SpeechProofs` | theorems about it | |
| `Playback` | `PlaybackTracker` | one operator per method, in frames of 1920 samples and ticks of 80 ms |
| `AudioPath` | worker, turn loop and client around a tracker | `wait_until_complete` in five steps; the wire; the client's playback queue and callback |
| `AudioPathProofs` | theorems about it | |
| `VoiceInput` | `VoiceInputProcessor` with `SpeechGate` and the buffering of `StreamingASR` | one action per way a block can go through `process` |
| `VoiceInputProofs` | theorems about it | |
| `VoicePicker`, `MCVoicePicker` | `VoicePickerApp` | one action per key, message, worker event and worker step; a radio button is turned on, taken by the RadioSet (`TurnRadio`), and handled, in three actions; a worker is the live one, superseded and not yet cancelled, or an event not yet delivered; the audio queue carries whose it is and what it speaks |
| `VoicePickerProofs` | theorems about it | |
| `Client` | `_run`, `_send_mic`, `_receive` and the callbacks of `client.py` | `run` is where the loop is; a task takes a block and sends it in two actions; audio is the connection it belongs to |
| `GainKeys` | `_gain_controls`, `_consume_gain_keys`, `PlaybackGain` | the bytes kept for the next read and the level; `Consume` is the parser, and what is done with what it finds, as a recursive function |
| `GainKeysProofs` | induction and recursion as facts about sets, and what `Consume` computes | |
| `Supervisor` | `entrypoint.sh` | `script` is the command about to run; a signal is pending until a trap runs; the children end when they like |
| `Deployment`, `MCDeployment` | `Client`, `Supervisor` and `GainKeys` together | a socket is reached only while sleeper serves and is lost when it ends; the network fails too; the container is started again |
| `DeploymentProofs` | theorems about it | |

`TurnTaking` reduces the TTS worker to the closes it owes, `Speech` reduces the
session to its interrupted event and the turn loop to what it asks of the
worker, and `AudioPath` reduces the worker to the frames of the open turn. Each
reduction is to what the other module has in full; the places of the turn loop
have the same names in all three.

`TurnTaking` is related to `Answering` by a refinement mapping: `Stage` reads off
the turn loop's place whether the prompt is taken up, being spoken or ended, the
replies whose speech is not over are the turns begun and not done, and the rest
is the variable of the same purpose. `AnswersInOrder` says that every step of
every thread is then a step of `Answering` or changes nothing it can see. Only
safety: `Answering` promises nothing about when.

In `Deployment` the keys share nothing with the rest (other than the thread), so
behaviours in which keys are typed show nothing else; that is a bound, in
`Keys`, which keeps the two state spaces from multiplying.

What is abstracted: audio is the turn or request it belongs to (`Speech`,
`AudioPath`) or the number of the block (`VoiceInput`); the verdicts of the
voice activity, barge-in, end-of-turn and recognition models are free choices;
the language model streams any number of words and ends, or fails, when it
likes. One microphone frame of `TurnTaking` stands for the run of 32 ms blocks
up to one decision. A script entry is one frame of audio and stays in the
pipeline until `Ahead` more follow or a drain; that is the model's text
lookahead and acoustic delay in one number. The audio that `_on_frame` drops
because no target is set (warmup only) is left out.

Ghost variables, which no action reads: in `TurnTaking` `speaker` (whose frame
opened the utterance) and `cut` (whether and when the turn was interrupted); in
`Speech` `cut`, `late`, `broken`, `voicesUsed` and `heard`; in `AudioPath`
`flushed`, `stale` and `unseen`; in `VoiceInput` `voiced`, `opened` and
`recognized`; in `VoicePicker` `aired` and `early`; in `GainKeys` `typed`. The
connection number on audio in `Client` and the `voice` of the queue in
`VoicePicker` are ghosts too.

The operators whose names have a suffix after an underscore are mutants: a
definition changed the way a mistake in the code would change it. They are used
by no specification. Each property is violated when one of them takes the place
of the definition it follows.

## 3. Runs

Deadlock is checked in the turn-taking runs, where the process's end is the
action `Terminated`. The other models stop when their bounds are used up, so
there it is not checked.

| Run | Instance | What it shows |
| --- | --- | --- |
| `turn_taking` (4.6 M states) | two sockets, four frames and one | `OwnerPublished`, `NotStranded`, `FaithfulEnding`, `CleanupGate`, and the refinement `AnswersInOrder` |
| `turn_taking_live` (0.3 M) | one socket, four frames, fairness | `MicHandedBack`, `PromptsTakenUp`, `ShutdownCompletes` |
| `speech_replies` (3.8 M) | two replies of three words, two sockets, one voice request, rebuilds may fail | `FramesToTheirOwner`, `AccountedToItsTurn`, `DoneMeansSilent`, `OneLateFrameAtMost`, `CompletedIsWhole` |
| `speech_faults` (12 M) | one reply of two words, one /say, one voice request, three voices, rebuilds may fail | `SayIsWhole`; `BrokenStaysClosed` and `OneVoicePerTurn`, with a /say anywhere in the reply |
| `speech_live` (0.2 M) | one reply, one /say, fairness, rebuilds succeed | `TurnsClosed`, `WaitersReleased` |
| `audio_path` (1.2 M) | two replies of two frames and two words, fairness | `CompletedMeansPlayed`, `HeardOnlyGrows`, `InterruptedFallsSilent`, `WaitEnds` |
| `voice_input` (34 k) | nine blocks, hangover 2, preroll 3, window 4 | `NoSpeechTwice`, `NoSpeechLost`, `JudgedAsHeard`, `NoEdgeFrame` |
| `voice_picker` (0.8 M) | three voices in lists of three, two and one; two frames a phrase, three workers referred to at once, two radio messages under way to the RadioSet or from it, one star; fairness | `HeardIsShown`, `NewerQueueKept`, `ScreenAgrees`, `AuditionIsWhole`, `AutoEnds` |
| `deployment` (0.6 M) | three connections, queues of two, one restart of the container, one loss with the server up; six bytes of four kinds in reads of up to three, a gain of two steps; fairness | `EachConnectionItsOwn`, `GainFollowsKeys`, `CrashReported`, `EitherEndsContainer`, `ClientComesBack` |

The runs of `TurnTaking`, `Speech`, `VoiceInput` and `Deployment` check a type
invariant as well.

Why these bounds are enough to be worth running:

- A prompt takes two frames (one opens it, one ends it), so four frames are two
  prompts, or a prompt, a barge-in and a second prompt, or a pause and its
  resumption. Two sockets give every order of one leaving and the other
  arriving; a third could only be refused. The theorems of section 5 hold for
  any number of both.
- Two replies are what one can leave to the next. Three words with a lookahead
  of two bring frames out both in the middle of a word and at the close, and
  leave a word behind one that failed. In `speech_faults` one reply is enough,
  and of its two words the second may come behind a /say.
- Three voices are the default one, one whose rebuild fails, and one still to be
  looked up when there is no generator.
- The hangover and preroll of `voice_input` keep the relation the code has (8
  blocks and 9, that is `Preroll = Hangover + 1`), which is the one that matters
  to `NoSpeechTwice`. A window of four blocks slides within nine.
  `HalfWindow = 256` is half of a 512-point STFT, which the library centres on
  the frame; anything up to twice the hop would do.
- The lists of `voice_picker` are ordered so that a voice is found at another
  position in another list, or not at all. Three workers are a live one, a
  superseded one and one whose event is on its way; what the user does leaves
  one to auto mode (`Room`).
- Three connections are a first, one that follows the restart of the container,
  and one that follows a loss with the server up; a queue of two is full after
  two blocks, taken during two different connections or none.
- Six bytes are two sequences, or one with a false start on either side; a read
  of three cuts a sequence anywhere, and two steps reach both ends of the gain.

### What the code does not keep

Three runs check a statement that the source makes of itself and find a
behaviour that breaks it.

| Run | Statement | Behaviour |
| --- | --- | --- |
| `speaker_binding` | a prompt is bound to the connection that spoke it (`conversation.py:38`) | the client leaves with its last blocks still queued, another connects, and `_finish_turn` binds the prompt to the second (`asr.py:306`) |
| `open_turn` | an incomplete turn remains open until more speech (`asr.py:283`) | the user barges in between the hand-off of a prompt and the start of its turn, and pauses; the turn loop starts that turn, clears the barge-in and takes the phase; the next block drops the open turn (`asr.py:256`) |
| `speech_rebuild` | an admitted job runs or is rejected (`tts.py:75`) | a failed rebuild in a /say leaves no generator, the error handler asserts there is one, the worker dies and later jobs are admitted |

Other places where the code does less than it, or a reader, might say. The
properties are stated so that they hold of what the code does, and name the
exception:

- The wait for playback reads the timeline under its lock and the done event
  after it (`playback.py:104-108`). Frames sent and a turn closed between the two
  are not waited for, though the docstring promises every sample.
  `CompletedMeansPlayed` allows exactly the frames of that moment (`unseen`).
- A /say in the middle of a reply closes the turn, and the next word reopens it
  with the voice selected since (`tts.py:434`, against 310-314); and `_close_turn`
  clears `turn_failed`, of a turn that had failed before as of one that fails
  while it drains (`tts.py:394`, 410, against 374), so the words left of a broken
  turn are tried again. `OneVoicePerTurn` and `BrokenStaysClosed` except the turns
  that a /say closed in their midst: the ghost `split` is set when a /say job
  finds the turn open or broken.
- What counts as played assumes that playback never starved (`playback.py:70`),
  so words may count as heard too early. The tracker calls itself approximate;
  `HeardOnlyGrows` holds all the same.
- A radio button pressed before the voices are listed is dropped
  (`pick_voice.py:516`), and the list then shown is not the button's until the
  next press (`early` in `ScreenAgrees`).
- Auto mode switched on with an audio device that cannot be opened stays on with
  nothing playing (`pick_voice.py:411`, the premise of `AutoEnds`).
- A favorites file cut short by a failed write is lost at the next start
  (`Torn` in `ScreenAgrees`).
- A server that goes away in the WebSocket handshake raises `InvalidHandshake`,
  which `client.py:250` does not list, and a message that cannot be read raises
  `ValueError`: either ends the client (`Fatal` in `ClientComesBack`).
- Blocks captured while the client pauses or connects do go to the next
  connection, the oldest of them kept and the newest dropped; those of a
  connection do not (`EachConnectionItsOwn`).
- `wait -n` under `set -e` ends the script with the failed child's status before
  `terminate` (`entrypoint.sh:59-61`), so the survivor is killed by the end of
  process one, not by the SIGTERM the comment speaks of. The container ends and
  tells the crash all the same. If one child ends well and the other crashes at
  the same moment, either status may be reported.
- `entrypoint.sh` stops sleeper with SIGTERM, which Python leaves at its default:
  the sequence of `__main__.py:84-91` runs on Ctrl-C only.

## 4. Fairness

- Threads that never block on anything but what the model shows are weakly fair
  as a whole: the listener, the turn loop, the TTS worker, the shutdown. The
  scheduler runs every thread again, and a blocked `get` or `wait` returns once
  it can.
- A socket's handler owes the steps it takes on its own (accepting, refusing,
  leaving, releasing), never a frame: the peer owes nothing.
- `SF(WaitDrained)`: the wait looks again every 50 ms and time passes, so a turn
  that is done does not go on playing for ever. The models of `TurnTaking` and
  `Speech` have no clock; this stands for it. `AudioPath` has one, and needs
  only weak fairness there.
- `SF(StreamEnds)` in `Speech`: a language model's stream is finite. In
  `TurnTaking` a stream is a single step and weak fairness does.
- `SF(CloseTurn)` in `AudioPath`: the worker, with frames and marks left to
  produce, comes to the closing job that is queued behind them.
- In `VoicePicker` the event loop delivers what is queued and runs the live
  worker's steps, and the audio callback keeps being called while the device is
  open. A stream ends or fails: the socket is closed by the server after the
  phrase, or lost.
- In `Client` the loop of `_run` and the receiving task run (`WF`), and a server
  that goes on serving is reached (`WF(Serving /\ Dial)`). The sending task owes
  nothing: `ClientComesBack` does not need it.
- In `Supervisor` the script goes on although signals keep arriving, since between
  two of them the next command begins (`SF(Command)`), a trap that is due runs
  (`WF(Trap)`), and a child that was sent SIGTERM ends: neither program handles
  it in a way that would keep it.
- Speaking, interrupting, asking, pressing a key, closing a socket, crashing and
  stopping the server are never owed.

## 5. Proofs

`TurnTakingProofs` holds theorems for any set of sockets and any number of
frames. They assume only that `None` is neither a socket nor a prompt
(`NoneAssumption`, `SentinelAssumption`) and that frame counts are natural
numbers (`FramesAssumption`).

| Theorem | States | Inductive invariant |
| --- | --- | --- |
| `TypeCorrect` | `Spec => []TypeOK` | `TypeOK` itself |
| `OneOwner` | `Spec => []OwnerPublished` | `OwnerPublished`, given `TypeOK`: at most one handler is between acquiring and releasing, and it is the lock's holder |
| `NeverStranded` | `Spec => []NotStranded` | `StrandInv`. The hard case is a turn that ends without completing, for then the loop does not return the mic. `CutTurnKept` says why that is right: if such a turn finds the session in the assistant phase, its interrupter has already put another prompt on the queue. `VerdictFounded` ties the result of the wait to what it saw, and `TurnHeld`, `HandedOver`, `LiveQueue` and `StopOrder` say what is in the session, in the listener's hand and on the queue |
| `EndingsTold` | `Spec => []FaithfulEnding` | `CutInv`: from the start of a turn to its end the interrupted event and the record of interruptions agree, since the loop clears the event only at those two points |
| `TurnsSerialized` | `Spec => []CleanupGate` | `GateInv`: within a turn all earlier ones are closed, and a turn is left either closed or while stopping. It uses `VerdictFounded`: a completed wait has seen the turn closed |

`AnsweringProofs` holds the refinement, from the same assumptions:

| Theorem | States | Argument |
| --- | --- | --- |
| `ImplementsAnswering` | `Spec => AnswersInOrder` | the initial state maps to an initial state, and each step to a step or a stutter, one lemma per thread. `GateInv` is why nothing is open when a reply begins and why a wait that saw its turn done leaves nothing open; `HandedOver` and `StopOrder` are why what is queued is a prompt, or the sentinel of a server that stops. `SerialInv`, proved inductive here, says that only turns that have begun are closed or wait to be, so that a new serial number is open and a close is one of an open turn |

`SpeechProofs` holds theorems for any sockets, voices, replies, words and script
entries, and any lookahead. They assume that the counts are natural numbers, that
`None` is no job (`SentinelAssumption`), and what the other assumptions of
`Speech` say of its constants.

| Theorem | States | Inductive invariant |
| --- | --- | --- |
| `ShapeHolds` | `Spec => []BaseInv` | `BaseInv`: what job the worker has in hand at each place of its code, whose entries the generator holds and which destination, voice and flags go with them |
| `FramesReachTheirOwner` | `Spec => []FramesToTheirOwner` | `TurnInv` on top of `BaseInv`. `QueueInv`: all words and closes that are queued or in hand are the current turn's and its owner's, and nothing of the turn is behind its close; `PipelineInv`: so are the entries in the generator |
| `AccountsAreExact` | `Spec => []AccountedToItsTurn` | the same |
| `DoneIsSilent` | `Spec => []DoneMeansSilent` | the same, with `WorkInv`: a turn with work anywhere is not done. `LoopInv` says why that lasts: no new turn begins before the last one is done |
| `OneLateFrame` | `Spec => []OneLateFrameAtMost` | `LateInv`: after the late frame the interruption stands, and no frame is about to be sent, until the turn is done |
| `BrokenIsNotReopened`, `OneVoice` | `Spec => []BrokenStaysClosed`, `Spec => []OneVoicePerTurn` | `OnceOpenInv`: a turn that was opened or broke, and is closed, refuses its words or has none behind it, unless a /say split it; and a /say in hand while the turn is open has split it |
| `CompletedRepliesAreWhole` | `Spec => []CompletedIsWhole` | `NumberInv`: the words are in order in queue and generator, all emissions behind them. `PlacesInv`: in an unbroken reply each word is queued, or entered the generator, and of those each is still there or was emitted. `CutInv`: the ghosts of cut and broken replies know of every cause |
| `SaysAreWhole` | `Spec => []SayIsWhole` | `SayInv`: a request is queued or in hand once, and while it is its handler waits; what was heard of a /say in hand and what the generator holds make it up |
| `TypeCorrect` | `Spec => []TypeOK` | `Typed` is part of `BaseInv`; the two bounds on what was emitted and heard are from `NumberInv` and `SayInv` |

`VoiceInputProofs` holds theorems for any number of blocks. They assume that the
preroll is at most one block longer than the hangover (`GateAssumption`: the code
has 9 and 8), that the window holds a preroll (`WindowAssumption`), and that a
block has samples for a mel frame and half a window is at most two hops
(`MelAssumption`).

| Theorem | States | Inductive invariant |
| --- | --- | --- |
| `TypeCorrect` | `Spec => []TypeOK` | `TypeOK`, with `EncoderInv`: the audio that is open is never empty, and the encoder stays a frame behind it |
| `FramesExact` | `Spec => []NoEdgeFrame` | `EncoderInv`, which is the frame withheld, times the hop |
| `SpokenOnce` | `Spec => []NoSpeechTwice` | `HangoverInv`: the preroll is the last blocks, and what was recognized is a hangover old when an utterance can begin. One block more of preroll and a lemma (`StartTurnFresh`) fails |
| `SpokenHeard` | `Spec => []NoSpeechLost` | `UtteranceInv`, given `HangoverInv` |
| `WindowIsTail` | `Spec => []JudgedAsHeard` | `UtteranceInv`: the blocks of the utterance are in order, and the window is as many of the last of them as it holds |

`AudioPathProofs`, `VoicePickerProofs` and `DeploymentProofs` hold theorems for
replies of any length and number, for any playlists, and for queues, connections
and restarts in any number. They assume that the bounds are natural numbers
(`MaxFramesAssumption`, `WorkersAssumption`, `ReadsAssumption`,
`ConnectionsAssumption`), that the microphone queue has a size
(`QueueAssumption`), that no list is empty (`PlaylistsAssumption`), that an escape
is none of the other bytes of a key (`BytesAssumption`), and that the limits of the
gain include the level it starts from (`LimitsAssumption`).

| Theorem | States | Inductive invariant |
| --- | --- | --- |
| `NothingUnheard` | `Spec => HeardOnlyGrows` | `TimelineInv`: the watermarks of the words never fall and none is above what has been emitted. Every step then leaves the marks and grows what has played, or appends a mark at its end, or begins a turn |
| `PlayedWhenCompleted` | `Spec => []CompletedMeansPlayed` | `WaitInv`: between the reading of the timeline and that of the done event, all that was read as played stays so and `unseen` counts the rest; a turn that is done gets no more frames |
| `FallsSilent` | `Spec => []InterruptedFallsSilent` | `PathInv`. Behind the transcript that tells of an interruption there is at most one frame of the turn, on the wire (`OneBehind`), then in the client's queue or played (`OneLeft`). `DecidedInv`: while the worker is about to send it there is none; `StandsInv`: it cannot decide on a second one, because the interruption stands until the turn is closed |
| `HeardShown` | `Spec => []HeardIsShown` | `PickerInv`. Its `QueueShown` extends the property to a queue that is installed and still empty, which the next frame makes audible; `LiveApart` says why no other worker's frame can: the live one owns the queue while it works, and is neither superseded nor the worker of an event under way |
| `QueueKept` | `Spec => []NewerQueueKept` | `PickerInv`: a worker that works owns the installed queue, so that a cleanup which removed a newer one would be seen; `FreshApart` says that the next worker is nobody's |
| `ScreenTrue` | `Spec => []ScreenAgrees` | `RadioInv`: the last message under way is that of the pressed button, and with none under way the list is its. `StarInv`: the file holds what was written last or is cut short |
| `AuditionWhole` | `Spec => AuditionIsWhole` | `AuditionInv`: in auto mode the voices from where it began to the one before that shown, counted round the list, were played to their end, and so was the one shown once its success is on its way |
| `OwnAudio` | `Spec => []EachConnectionItsOwn` | `OwnAudioInv`: where the loop of the client is tells what its two queues can hold. From the flush to the next connection the one holds blocks of no connection and the other is empty; within a connection both hold its own or, of the microphone, the blocks from before it |
| `CrashTold` | `Spec => []CrashReported` | `ReportInv`: once the script has ended no child is left whose end could change what was reported |
| `EveryKeyCounts` | `Spec => []GainFollowsKeys` | `GainInv`: the buffer is the end of what was typed, and no key sequence begins before it and reaches into it (`NoneAcross`) |
| `TypeCorrect` | `Spec => []TypeOK` | `ClientTypeInv`, which bounds the connections to come, and `GainInv` |

`EveryKeyCounts` is about a recursive function, `Consume`, and says what it computes
for bytes of any number. `GainKeysProofs` gets there from facts that take no
operator, which the provers can use: `InductiveSet` (a set with 0 and the
successors of its members has all naturals) from the library's theorem that an
injection of a finite set into itself is onto it, and `RecursionExists` (a
definition by the value at a smaller argument has a solution) from that. With them
`ConsumeIs` and `LevelIs` unfold the two recursive functions once, `ConsumeStep`
follows one turn of the parser's loop, and `ConsumeReads` all of them.

Each proof has an initial-state lemma or step, one lemma or step per thread, and
one case per action.

Only model-checked: liveness (`MicHandedBack`, `PromptsTakenUp`,
`ShutdownCompletes`, `TurnsClosed`, `WaitersReleased`, `WaitEnds`, `AutoEnds`,
`EitherEndsContainer`, `ClientComesBack`), since fairness and `ENABLED` are outside
what the proof system handles. Every invariant and action property that a passing
run checks is a theorem. No module uses `RECURSIVE`.

## 6. Not modelled

- Neural networks, tensors, sampling hooks, mel and PCM conversions: no control
  in them. What the recognizers decide is a free choice.
- The history given to the language model: nothing in the server reads it back.
- Startup: strictly sequential until the TTS worker has warmed up, and a failure
  ends the process; the models begin with the server ready.
- Exceptions other than those the code catches by design: one other than
  `AgentRunError` in the turn loop, or any in the listener, ends that thread.
- `messages.py`, `llm.py`, `chat.py`, `say.py`, `set_voice.py`: schemas, wiring
  and one-request clients without state.
- `iter_words` (`text.py`): a pure function with no actor, failure or timing in
  it, which the repository tests on chunked input. What it yields is the word
  that `StreamWord` of `Speech` chooses.
- The picker's drawing and its `close_audio` at the end of the program; playlists
  for which one of the radio buttons has no voice (`pick_voice.py:523` would
  raise; the repository of voices has some for each, `PlaylistsAssumption`).
- The scaling of a frame by the gain, and the terminal's mode.

## 7. Plan

1. Turn taking: `Session`, `TurnTaking`, safety, liveness, theorems. Done.
2. Speech and the audio path: `Synth`, `Speech`, `Playback`, `AudioPath`, and the
   listener's buffers, `VoiceInput`. Done.
3. The client, the voice picker and the container: `Client`, `GainKeys`,
   `VoicePicker`, `Supervisor`, `Deployment`. Done.
4. The abstract specification `Answering` and its refinement by `TurnTaking`.
   Done, checked and proved.
5. Theorems: every invariant and action property of the runs, section 5. Done.
6. Still worth stating: an abstract speaker, which takes replies and /says and
   sends each whole, cut or not at all, refined by `Speech`.
