---------------------------- MODULE SpeechProofs ----------------------------
(***************************************************************************)
(* Theorems about Speech, for any sockets, voices, lookahead and numbers   *)
(* of replies, words and script entries.  The invariants are layered: the  *)
(* shape of the worker's state, whose work is in the queue, how the words  *)
(* are numbered, and where each word of an unbroken reply is.  Each layer  *)
(* is proved from the ones before it.                                      *)
(***************************************************************************)
EXTENDS Speech, TLAPS

TurnJobs == WordJobs \cup EndJobs
AskJobs  == SayJobs \cup VoiceJobs

\* The kind of a job says which sort of record it is.
LEMMA Kinds ==
    /\ \A j \in Jobs :
          /\ j # None /\ j # Idle
          /\ j.kind = "word" <=> j \in WordJobs
          /\ j.kind = "end" <=> j \in EndJobs
          /\ j.kind = "say" <=> j \in SayJobs
          /\ j.kind = "voice" <=> j \in VoiceJobs
    /\ \A j \in WordJobs : j \in Jobs /\ j \notin EndJobs \cup SayJobs \cup VoiceJobs
                           /\ j.turn \in 1 .. MaxTurns /\ j.ws \in Conns /\ j.n \in 1 .. MaxWords
    /\ \A j \in EndJobs : j \in Jobs /\ j \notin WordJobs \cup SayJobs \cup VoiceJobs
                          /\ j.turn \in 1 .. MaxTurns
    /\ \A j \in SayJobs : j \in Jobs /\ j \notin WordJobs \cup EndJobs \cup VoiceJobs
                          /\ j.who \in Sayers /\ j.voice \in Voices
    /\ \A j \in VoiceJobs : j \in Jobs /\ j \notin WordJobs \cup EndJobs \cup SayJobs
                            /\ j.who \in Pickers /\ j.voice \in Voices
    /\ Idle \notin Jobs
<1>1. \A j \in WordJobs : j.kind = "word" /\ j.turn \in 1 .. MaxTurns /\ j.ws \in Conns
                          /\ j.n \in 1 .. MaxWords
  BY DEF WordJobs
<1>2. \A j \in EndJobs : j.kind = "end" /\ j.turn \in 1 .. MaxTurns
  BY DEF EndJobs
<1>3. \A j \in SayJobs : j.kind = "say" /\ j.who \in Sayers /\ j.voice \in Voices
  BY DEF SayJobs
<1>4. \A j \in VoiceJobs : j.kind = "voice" /\ j.who \in Pickers /\ j.voice \in Voices
  BY DEF VoiceJobs
<1>5. Idle.kind = "none"
  BY DEF Idle
<1> QED
  BY <1>1, <1>2, <1>3, <1>4, <1>5, SentinelAssumption DEF Jobs

\* A queue without its first element, and with one more at its end.
LEMMA TailOf ==
    ASSUME NEW S, NEW s \in Seq(S), s # <<>>
    PROVE  /\ Len(s) \in Nat \ {0} /\ Head(s) = s[1] /\ Head(s) \in S
           /\ Tail(s) \in Seq(S) /\ Len(Tail(s)) = Len(s) - 1
           /\ \A i \in 1 .. Len(s) - 1 : Tail(s)[i] = s[i + 1]
  OBVIOUS

LEMMA AppendOf ==
    ASSUME NEW S, NEW s \in Seq(S), NEW e \in S
    PROVE  /\ Len(s) \in Nat
           /\ Append(s, e) \in Seq(S) /\ Len(Append(s, e)) = Len(s) + 1
           /\ \A i \in 1 .. Len(s) : Append(s, e)[i] = s[i]
           /\ Append(s, e)[Len(s) + 1] = e
  OBVIOUS

LEMMA EmptyOf == ASSUME NEW S PROVE <<>> \in Seq(S) /\ Len(<<>>) = 0 /\ 1 .. Len(<<>>) = {}
  OBVIOUS

\* What SpeakIn leaves in the generator.
LEMMA OneUnit ==
    ASSUME NEW S, NEW s \in Seq(S), NEW e \in S
    PROVE  /\ s \o <<e>> = Append(s, e)
           /\ <<e>> \in Seq(S) /\ Len(<<e>>) = 1 /\ <<e>>[1] = e
  OBVIOUS

-----------------------------------------------------------------------------
\* The shape of the worker's state: where it may be with which job, whom the
\* generator speaks to, and whose units are in it.

Framing == worker \in {"frame", "send", "record"}
Looping == worker \in {"speak", "drain"} \/ Framing
InSpeak == worker = "speak" \/ (Framing /\ back = "speak")
InDrain == worker = "drain" \/ (Framing /\ back = "drain")
Saying  == Looping /\ ~turnOpen

JobInv ==
    /\ worker = "mark" => job \in WordJobs /\ turnOpen
    /\ worker = "say" => job \in SayJobs /\ ~turnOpen /\ ~turnFailed
    /\ worker = "signal" => job \in EndJobs \cup SayJobs /\ ~turnOpen /\ ~turnFailed
    /\ Looping => \/ job \in WordJobs /\ turnOpen /\ InSpeak
                  \/ job \in EndJobs /\ turnOpen /\ InDrain
                  \/ job \in SayJobs /\ (turnOpen => InDrain)
    /\ worker = "record" => turnOpen

UnitsInv ==
    /\ Framing => pipeline # <<>>
    /\ turnOpen => /\ conversationAudio /\ ~turnFailed /\ target \in Conns /\ voice \in Voices
                   /\ \A i \in 1 .. Len(pipeline) : pipeline[i] \in WordJobs
    /\ Saying => /\ ~conversationAudio /\ ~turnFailed /\ target = job.who
                 /\ \A i \in 1 .. Len(pipeline) : pipeline[i] = job
    /\ ~turnOpen /\ ~Looping => pipeline = <<>>

\* A reply that was begun has a number and an owner.
BegunInv ==
    /\ served = 0 => reply \in {"check", "begin", "exit"}
    /\ served > 0 => owner \in Conns

BaseInv == Typed /\ JobInv /\ UnitsInv /\ BegunInv

Units == WordJobs \cup SayJobs

\* What a job taken from the queue leaves behind.
LEMMA TakenJob ==
    ASSUME Typed, NEW kind, NEW to, Taking(kind, to)
    PROVE  /\ worker = "get" /\ worker' = to
           /\ Len(jobs) \in Nat \ {0} /\ job' = jobs[1] /\ job' \in Jobs /\ job'.kind = kind
           /\ jobs' \in Seq(Jobs \cup {None}) /\ Len(jobs') = Len(jobs) - 1
           /\ \A i \in 1 .. Len(jobs) - 1 : jobs'[i] = jobs[i + 1]
<1>1. jobs \in Seq(Jobs \cup {None}) /\ jobs # <<>>
  BY DEF Typed, Taking
<1>2. jobs' = Tail(jobs) /\ job' = Head(jobs) /\ Head(jobs) # None /\ Head(jobs).kind = kind
  BY DEF Taking
<1>3. worker = "get" /\ worker' = to
  BY DEF Taking, WorkerStep
<1> QED
  BY <1>1, <1>2, <1>3, TailOf

LEMMA TakingTypes ==
    ASSUME BaseInv, NEW kind, NEW to \in WorkerStates, Taking(kind, to),
           voice' \in Voices \cup {None}, cache' \subseteq Voices, conversationVoice' \in cache',
           pipeline' \in Seq(Units), target' \in Sockets \cup {None},
           conversationAudio' \in BOOLEAN, turnOpen' \in BOOLEAN, turnFailed' \in BOOLEAN,
           asking' \in [Sayers \cup Pickers -> AskStates],
           broken' \subseteq 1 .. MaxTurns, voicesUsed' \subseteq Voices
    PROVE  Typed'
<1>1. jobs' \in Seq(Jobs \cup {None}) /\ job' \in Jobs /\ worker' = to
  BY TakenJob DEF BaseInv
<1>2. UNCHANGED <<stopped, interrupted, closed, replyVars, main, cut, back, done, trackVars, late,
                  heard>>
  BY DEF Taking, WorkerStep
<1>3. split' \in BOOLEAN
  BY DEF Taking, BaseInv, Typed
<1> QED
  BY <1>1, <1>2, <1>3 DEF BaseInv, Typed, replyVars, trackVars, Units

\* The fields of a job are known from the queue it was in.
LEMMA TakingJobs ==
    ASSUME BaseInv, NEW kind \in {"word", "end", "say", "voice"}, NEW to \in WorkerStates,
           Taking(kind, to)
    PROVE  /\ kind = "word" => job' \in WordJobs
           /\ kind = "end" => job' \in EndJobs
           /\ kind = "say" => job' \in SayJobs
           /\ kind = "voice" => job' \in VoiceJobs
  BY TakenJob, Kinds DEF BaseInv

LEMMA SpeakInTypes ==
    ASSUME BaseInv, NEW v \in Voices, NEW units \in Seq(Units), SpeakIn(v, units)
    PROVE  /\ voice' \in Voices \cup {None} /\ cache' \subseteq Voices /\ cache \subseteq cache'
           /\ pipeline' \in Seq(Units)
  BY DEF SpeakIn, BaseInv, Typed, Units

LEMMA QueueTypes ==
    ASSUME BaseInv,
           \/ TakeSentinel \/ DropWord \/ SpeakWord \/ FailToOpen
           \/ \E kind \in {"end", "say"} :
                 CloseUnopened(kind) \/ CloseInterrupted(kind) \/ CloseByDraining(kind)
           \/ SetConversationVoice \/ RefuseConversationVoice
    PROVE  Typed'
<1>1. {"get", "speak", "drain", "say", "signal"} \subseteq WorkerStates
  BY DEF WorkerStates
<1>2. <<>> \in Seq(Units) /\ DefaultVoice \in Voices
  BY VoicesAssumption
<1>3. /\ voice \in Voices \cup {None} /\ cache \subseteq Voices /\ conversationVoice \in cache
      /\ pipeline \in Seq(Units) /\ target \in Sockets \cup {None}
      /\ conversationAudio \in BOOLEAN /\ turnOpen \in BOOLEAN /\ turnFailed \in BOOLEAN
      /\ asking \in [Sayers \cup Pickers -> AskStates]
      /\ broken \subseteq 1 .. MaxTurns /\ voicesUsed \subseteq Voices
  BY DEF BaseInv, Typed, Units
<1>4. CASE TakeSentinel
  <2>1. jobs' \in Seq(Jobs \cup {None})
    BY <1>4, TailOf DEF TakeSentinel, BaseInv, Typed
  <2>2. worker' \in WorkerStates
    BY <1>4 DEF TakeSentinel, WorkerStep, WorkerStates
  <2> QED
    BY <1>4, <2>1, <2>2 DEF TakeSentinel, WorkerStep, BaseInv, Typed, synthVars, accounts,
       replyVars, trackVars
<1>5. CASE DropWord
  BY <1>1, <1>3, <1>5, TakingTypes DEF DropWord, synthVars
<1>6. CASE SpeakWord
  <2>1. Taking("word", "speak") /\ job' \in WordJobs
    BY <1>1, <1>6, TakingJobs DEF SpeakWord
  <2>2. <<job'>> \in Seq(Units) /\ job'.ws \in Conns
    BY <2>1, Kinds DEF Units
  <2>3. UNCHANGED <<conversationVoice, asking, broken>>
    BY <1>6 DEF SpeakWord
  <2>4. CASE turnOpen /\ SpeakIn(voice, <<job'>>) /\ UNCHANGED <<turnFlags, voicesUsed>>
    <3>1. voice \in Voices
      BY <2>4 DEF BaseInv, UnitsInv
    <3>2. voice' \in Voices \cup {None} /\ cache' \subseteq Voices /\ cache \subseteq cache'
          /\ pipeline' \in Seq(Units)
      BY <2>2, <2>4, <3>1, SpeakInTypes
    <3> QED
      BY <1>1, <1>3, <2>1, <2>3, <2>4, <3>2, TakingTypes DEF turnFlags
  <2>5. CASE /\ ~turnOpen /\ SpeakIn(conversationVoice, <<job'>>) /\ OpenTurn
             /\ voicesUsed' = voicesUsed \cup {conversationVoice}
    <3>1. voice' \in Voices \cup {None} /\ cache' \subseteq Voices /\ cache \subseteq cache'
          /\ pipeline' \in Seq(Units)
      BY <1>3, <2>2, <2>5, SpeakInTypes
    <3>2. target' \in Sockets \cup {None} /\ conversationAudio' \in BOOLEAN /\ turnOpen' \in BOOLEAN
          /\ turnFailed' \in BOOLEAN
      BY <1>3, <2>2, <2>5 DEF OpenTurn, Sockets
    <3> QED
      BY <1>1, <1>3, <2>1, <2>3, <2>5, <3>1, <3>2, TakingTypes
  <2> QED
    BY <1>6, <2>4, <2>5 DEF SpeakWord
<1>7. CASE FailToOpen
  <2>1. Taking("word", "get") /\ job'.turn \in 1 .. MaxTurns
    BY <1>1, <1>7, TakingJobs, Kinds DEF FailToOpen
  <2> QED
    BY <1>1, <1>2, <1>3, <1>7, <2>1, TakingTypes DEF FailToOpen, RebuildFails, AbandonTurn
<1>8. ASSUME NEW kind \in {"end", "say"},
             CloseUnopened(kind) \/ CloseInterrupted(kind) \/ CloseByDraining(kind)
      PROVE  Typed'
  <2>1. AfterClose(kind) \in WorkerStates
    BY <1>1 DEF AfterClose
  <2>2. CASE CloseUnopened(kind)
    BY <1>3, <2>1, <2>2, TakingTypes DEF CloseUnopened, Closing
  <2>3. CASE CloseInterrupted(kind)
    BY <1>2, <1>3, <2>1, <2>3, TakingTypes DEF CloseInterrupted, Closing, ForgetTurn
  <2>4. CASE CloseByDraining(kind)
    BY <1>1, <1>3, <2>4, TakingTypes DEF CloseByDraining, Closing, turnFlags
  <2> QED
    BY <1>8, <2>2, <2>3, <2>4
<1>9. CASE SetConversationVoice
  <2>1. Taking("voice", "get") /\ job'.voice \in Voices
    BY <1>1, <1>9, TakingJobs, Kinds DEF SetConversationVoice
  <2>2. asking' \in [Sayers \cup Pickers -> AskStates]
    BY <1>3, <1>9 DEF SetConversationVoice, AskStates
  <2> QED
    BY <1>1, <1>3, <1>9, <2>1, <2>2, TakingTypes DEF SetConversationVoice, SelectVoice, turnFlags
<1>10. CASE RefuseConversationVoice
  <2>1. asking' \in [Sayers \cup Pickers -> AskStates]
    BY <1>3, <1>10 DEF RefuseConversationVoice, AskStates
  <2> QED
    BY <1>1, <1>3, <1>10, <2>1, TakingTypes DEF RefuseConversationVoice, synthVars
<1> QED
  BY <1>4, <1>5, <1>6, <1>7, <1>8, <1>9, <1>10

\* The rest of a job touches neither the queue nor the job.
LEMMA MidwayTypes ==
    ASSUME BaseInv, NEW from, NEW to \in WorkerStates, Midway(from, to),
           voice' \in Voices \cup {None}, cache' \subseteq Voices, conversationVoice' \in cache',
           pipeline' \in Seq(Units), target' \in Sockets \cup {None},
           conversationAudio' \in BOOLEAN, turnOpen' \in BOOLEAN, turnFailed' \in BOOLEAN,
           back' \in {"speak", "drain"}, done' \subseteq 1 .. MaxTurns,
           emitted' \in Nat, marks' \in Seq(1 .. MaxWords),
           asking' \in [Sayers \cup Pickers -> AskStates],
           late' \in Nat, broken' \subseteq 1 .. MaxTurns, heard' \in [Sayers -> Nat]
    PROVE  Typed'
<1>1. worker' = to /\ UNCHANGED <<jobs, job, voicesUsed, split, stopped, interrupted, closed,
                                  replyVars, main, cut>>
  BY DEF Midway, WorkerStep
<1> QED
  BY <1>1 DEF BaseInv, Typed, replyVars, Units

\* The units in the generator while a frame is in hand.
LEMMA FirstUnit ==
    ASSUME BaseInv, Framing
    PROVE  /\ Len(pipeline) \in Nat \ {0} /\ Head(pipeline) = pipeline[1]
           /\ Head(pipeline) \in Units
           /\ Tail(pipeline) \in Seq(Units) /\ Len(Tail(pipeline)) = Len(pipeline) - 1
           /\ \A i \in 1 .. Len(pipeline) - 1 : Tail(pipeline)[i] = pipeline[i + 1]
           /\ turnOpen => Head(pipeline) \in WordJobs
           /\ ~turnOpen => Head(pipeline) = job /\ job \in SayJobs
<1>1. pipeline \in Seq(Units) /\ pipeline # <<>>
  BY DEF BaseInv, Typed, UnitsInv, Units
<1>2. Looping
  BY DEF Looping
<1>3. /\ Len(pipeline) \in Nat \ {0} /\ Head(pipeline) = pipeline[1]
      /\ Head(pipeline) \in Units
      /\ Tail(pipeline) \in Seq(Units) /\ Len(Tail(pipeline)) = Len(pipeline) - 1
      /\ \A i \in 1 .. Len(pipeline) - 1 : Tail(pipeline)[i] = pipeline[i + 1]
  BY <1>1, TailOf
<1>4. 1 \in 1 .. Len(pipeline)
  BY <1>3
<1> QED
  BY <1>2, <1>3, <1>4 DEF BaseInv, UnitsInv, JobInv, Saying

LEMMA SayTypes ==
    ASSUME BaseInv, BeginSay \/ FailSay \/ DieInSay
    PROVE  Typed'
<1>1. {"speak", "signal", "dead"} \subseteq WorkerStates
  BY DEF WorkerStates
<1>2. /\ voice \in Voices \cup {None} /\ cache \subseteq Voices /\ conversationVoice \in cache
      /\ pipeline \in Seq(Units) /\ target \in Sockets \cup {None}
      /\ conversationAudio \in BOOLEAN /\ turnOpen \in BOOLEAN /\ turnFailed \in BOOLEAN
      /\ back \in {"speak", "drain"} /\ done \subseteq 1 .. MaxTurns
      /\ emitted \in Nat /\ marks \in Seq(1 .. MaxWords)
      /\ asking \in [Sayers \cup Pickers -> AskStates]
      /\ late \in Nat /\ broken \subseteq 1 .. MaxTurns /\ heard \in [Sayers -> Nat]
  BY DEF BaseInv, Typed, Units
<1>3. job \in SayJobs /\ job.who \in Sayers /\ job.voice \in Voices
  <2>1. worker = "say"
    BY DEF BeginSay, FailSay, DieInSay, Midway, WorkerStep
  <2> QED
    BY <2>1, Kinds DEF BaseInv, JobInv
<1>4. <<>> \in Seq(Units)
  OBVIOUS
<1>5. CASE BeginSay
  <2>1. SayUnits \in Seq(Units)
    BY <1>3, BoundsAssumption DEF SayUnits, Units
  <2>2. voice' \in Voices \cup {None} /\ cache' \subseteq Voices /\ cache \subseteq cache'
        /\ pipeline' \in Seq(Units)
    BY <1>3, <1>5, <2>1, SpeakInTypes DEF BeginSay
  <2>3. target' \in Sockets \cup {None} /\ conversationAudio' \in BOOLEAN
        /\ conversationVoice' \in cache'
    BY <1>2, <1>3, <1>5, <2>2 DEF BeginSay, Sockets, Midway
  <2> QED
    BY <1>1, <1>2, <1>5, <2>2, <2>3, MidwayTypes DEF BeginSay, accounts, trackVars
<1>6. CASE FailSay
  BY <1>1, <1>2, <1>4, <1>6, MidwayTypes DEF FailSay, LookupFails, accounts, trackVars, Midway
<1>7. CASE DieInSay
  <2>1. asking' \in [Sayers \cup Pickers -> AskStates]
    BY <1>2, <1>7 DEF DieInSay, AskStates
  <2>2. voice' \in Voices \cup {None} /\ cache' \subseteq Voices /\ cache \subseteq cache'
        /\ pipeline' \in Seq(Units)
    BY <1>2, <1>3, <1>4, <1>7 DEF DieInSay, LookupFails, RebuildFails
  <2> QED
    BY <1>1, <1>2, <1>7, <2>1, <2>2, MidwayTypes DEF DieInSay, trackVars, Midway
<1> QED
  BY <1>5, <1>6, <1>7

LEMMA FrameTypes ==
    ASSUME BaseInv,
           \/ Pump \/ Pumped \/ Drain \/ Drained
           \/ DropFrame \/ KeepFrame \/ SendFrame \/ WordRaises \/ CloseRaises \/ SayRaises
           \/ RecordEmission \/ MarkSpoken \/ SignalDone
    PROVE  Typed'
<1>1. WorkerStates = {"get", "speak", "drain", "frame", "send", "record", "mark", "say", "signal",
                      "exit", "dead"}
  BY DEF WorkerStates
<1>2. /\ voice \in Voices \cup {None} /\ cache \subseteq Voices /\ conversationVoice \in cache
      /\ pipeline \in Seq(Units) /\ target \in Sockets \cup {None}
      /\ conversationAudio \in BOOLEAN /\ turnOpen \in BOOLEAN /\ turnFailed \in BOOLEAN
      /\ back \in {"speak", "drain"} /\ done \subseteq 1 .. MaxTurns
      /\ emitted \in Nat /\ marks \in Seq(1 .. MaxWords)
      /\ asking \in [Sayers \cup Pickers -> AskStates]
      /\ late \in Nat /\ broken \subseteq 1 .. MaxTurns /\ heard \in [Sayers -> Nat]
  BY DEF BaseInv, Typed, Units
<1>3. <<>> \in Seq(Units)
  OBVIOUS
<1>4. CASE Pump \/ Drain
  BY <1>1, <1>2, <1>4, MidwayTypes DEF Pump, Drain, StepGenerator, synthVars, accounts, trackVars
<1>5. CASE Pumped
  <2>1. PICK to \in WorkerStates : Midway("speak", to)
    BY <1>1, <1>5 DEF Pumped
  <2> QED
    BY <1>2, <1>5, <2>1, MidwayTypes DEF Pumped, synthVars, accounts, trackVars
<1>6. CASE Drained
  <2>1. PICK to \in WorkerStates : Midway("drain", to)
    BY <1>1, <1>6 DEF Drained, Ended, AfterClose
  <2>2. target' = None /\ turnOpen' \in BOOLEAN /\ turnFailed' \in BOOLEAN
        /\ UNCHANGED conversationAudio
    BY <1>2, <1>6 DEF Drained, Ended, ForgetTurn
  <2> QED
    BY <1>2, <1>6, <2>1, <2>2, MidwayTypes DEF Drained, Ended, accounts, trackVars, Midway
<1>7. CASE DropFrame
  <2>1. Framing /\ Midway("frame", back)
    BY <1>7 DEF DropFrame, Dropping, Framing, Midway, WorkerStep
  <2>2. pipeline' \in Seq(Units) /\ back \in WorkerStates
    BY <1>1, <1>2, <1>7, <2>1, FirstUnit DEF DropFrame, Dropping
  <2> QED
    BY <1>2, <1>7, <2>1, <2>2, MidwayTypes DEF DropFrame, Dropping, turnFlags, accounts, trackVars,
       Midway
<1>8. CASE KeepFrame
  BY <1>1, <1>2, <1>8, MidwayTypes DEF KeepFrame, synthVars, accounts, trackVars
<1>9. CASE SendFrame
  <2>1. Framing
    BY <1>9 DEF SendFrame, Framing, Midway, WorkerStep
  <2>2. pipeline' \in Seq(Units)
    BY <1>2, <1>9, <2>1, FirstUnit DEF SendFrame
  <2>3. late' \in Nat
    BY <1>2, <1>9 DEF SendFrame
  <2>4. heard' \in [Sayers -> Nat]
    <3>1. CASE Head(pipeline).kind = "say"
      <4>1. heard' = [heard EXCEPT ![Head(pipeline).who] = heard[Head(pipeline).who] + 1]
        BY <1>9, <3>1 DEF SendFrame
      <4>2. Head(pipeline).who \in Sayers
        BY <2>1, <3>1, FirstUnit, Kinds DEF Units
      <4> QED
        BY <1>2, <4>1, <4>2
    <3>2. CASE Head(pipeline).kind # "say"
      BY <1>2, <1>9, <3>2 DEF SendFrame
    <3> QED
      BY <3>1, <3>2
  <2>5. PICK to \in WorkerStates : Midway("send", to)
    BY <1>1, <1>2, <1>9 DEF SendFrame
  <2> QED
    BY <1>2, <1>9, <2>2, <2>3, <2>4, <2>5, MidwayTypes DEF SendFrame, turnFlags, trackVars, Midway
<1>10. CASE WordRaises \/ CloseRaises
  <2>1. Framing /\ turnOpen
    BY <1>10, Kinds DEF WordRaises, CloseRaises, Framing, Midway, WorkerStep, Raised, BaseInv, JobInv,
       Looping
  <2>2. Head(pipeline).turn \in 1 .. MaxTurns
    BY <2>1, FirstUnit, Kinds
  <2>3. PICK to \in WorkerStates : Midway("send", to)
    BY <1>1, <1>10 DEF WordRaises, CloseRaises, Raised, AfterClose
  <2>4. broken' \subseteq 1 .. MaxTurns
    BY <1>2, <1>10, <2>2 DEF WordRaises, CloseRaises
  <2>5. target' = None /\ turnOpen' \in BOOLEAN /\ turnFailed' \in BOOLEAN
        /\ UNCHANGED conversationAudio
    BY <1>10 DEF WordRaises, CloseRaises, AbandonTurn, ForgetTurn
  <2> QED
    BY <1>2, <1>3, <1>10, <2>3, <2>4, <2>5, MidwayTypes DEF WordRaises, CloseRaises, Raised, trackVars,
       Midway
<1>11. CASE SayRaises
  BY <1>1, <1>2, <1>3, <1>11, MidwayTypes DEF SayRaises, Raised, trackVars, Midway
<1>12. CASE RecordEmission
  <2>1. Framing /\ Midway("record", back) /\ back \in WorkerStates
    BY <1>1, <1>2, <1>12 DEF RecordEmission, Framing, Midway, WorkerStep
  <2>2. pipeline' \in Seq(Units) /\ emitted' \in Nat
    BY <1>2, <1>12, <2>1, FirstUnit DEF RecordEmission
  <2> QED
    BY <1>2, <1>12, <2>1, <2>2, MidwayTypes DEF RecordEmission, turnFlags, Midway
<1>13. CASE MarkSpoken
  <2>1. job.n \in 1 .. MaxWords
    BY <1>13, Kinds DEF MarkSpoken, Midway, WorkerStep, BaseInv, JobInv
  <2>2. marks' \in Seq(1 .. MaxWords)
    BY <1>2, <1>13, <2>1 DEF MarkSpoken
  <2> QED
    BY <1>1, <1>2, <1>13, <2>2, MidwayTypes DEF MarkSpoken, synthVars
<1>14. CASE SignalDone
  <2>1. job \in EndJobs \cup SayJobs
    BY <1>14 DEF SignalDone, Midway, WorkerStep, BaseInv, JobInv
  <2>2. done' \subseteq 1 .. MaxTurns /\ asking' \in [Sayers \cup Pickers -> AskStates]
    BY <1>2, <1>14, <2>1, Kinds DEF SignalDone, AskStates
  <2> QED
    BY <1>1, <1>2, <1>14, <2>2, MidwayTypes DEF SignalDone, synthVars, trackVars
<1> QED
  BY <1>4, <1>5, <1>6, <1>7, <1>8, <1>9, <1>10, <1>11, <1>12, <1>13, <1>14

LEMMA WorkerTypes ==
    ASSUME BaseInv, Worker
    PROVE  Typed'
  BY QueueTypes, SayTypes, FrameTypes DEF Worker

\* Those who ask, the turn loop and the world around leave the worker alone.
LEMMA Admitted ==
    ASSUME Typed, NEW j \in Jobs, Admit(j)
    PROVE  jobs' \in Seq(Jobs \cup {None})
  BY AppendOf DEF Admit, Typed

LEMMA ReplyTypes ==
    ASSUME Typed, NEW from, NEW to \in ReplyStates, ReplyStep(from, to),
           jobs' \in Seq(Jobs \cup {None}), interrupted' \in BOOLEAN,
           served' \in 0 .. MaxTurns, owner' \in Conns \cup {None}, spoken' \in 0 .. MaxWords,
           completed' \in BOOLEAN, done' \subseteq 1 .. MaxTurns, emitted' \in Nat,
           marks' \in Seq(1 .. MaxWords), cut' \in BOOLEAN, late' \in Nat,
           voicesUsed' \subseteq Voices, split' \in BOOLEAN
    PROVE  Typed'
<1>1. UNCHANGED <<synthVars, stopped, workVars, closed, asking, main, broken, heard>> /\ reply' = to
  BY DEF ReplyStep
<1> QED
  BY <1>1 DEF Typed, synthVars, workVars

LEMMA TurnLoopTypes ==
    ASSUME BaseInv, TurnLoop
    PROVE  Typed' /\ BegunInv'
<1>1. ReplyStates = {"check", "begin", "stream", "end", "wait", "drain", "transcript", "cleanup",
                     "finish", "exit"}
  BY DEF ReplyStates
<1>2. /\ jobs \in Seq(Jobs \cup {None}) /\ interrupted \in BOOLEAN
      /\ served \in 0 .. MaxTurns /\ owner \in Conns \cup {None} /\ spoken \in 0 .. MaxWords
      /\ completed \in BOOLEAN /\ done \subseteq 1 .. MaxTurns /\ emitted \in Nat
      /\ marks \in Seq(1 .. MaxWords) /\ cut \in BOOLEAN /\ late \in Nat
      /\ voicesUsed \subseteq Voices /\ split \in BOOLEAN /\ Typed /\ BegunInv
  BY DEF BaseInv, Typed
<1>3. ASSUME NEW from, NEW to \in ReplyStates, Go(from, to),
             from \in {"check", "begin", "exit"} => to \in {"begin", "exit"}
      PROVE  Typed' /\ BegunInv'
  <2>1. ReplyStep(from, to) /\ UNCHANGED <<ofReply, jobs, spoken, completed, done>>
    BY <1>3 DEF Go
  <2> QED
    BY <1>2, <1>3, <2>1, ReplyTypes DEF ofReply, trackVars, BegunInv, ReplyStep
<1>4. CASE CheckStopping \/ StreamEnds \/ WaitLooks \/ WaitAgain \/ Recheck \/ WaitForCleanup
  <2>1. PICK from \in ReplyStates, to \in ReplyStates :
             Go(from, to) /\ (from \in {"check", "begin", "exit"} => to \in {"begin", "exit"})
    BY <1>1, <1>4 DEF CheckStopping, StreamEnds, WaitLooks, WaitAgain, Recheck, WaitForCleanup
  <2> QED
    BY <1>3, <2>1
<1>5. ASSUME NEW c \in Conns, BeginTurn(c)
      PROVE  Typed' /\ BegunInv'
  <2>1. served' \in 0 .. MaxTurns /\ served' > 0 /\ spoken' \in 0 .. MaxWords
    BY <1>2, <1>5, BoundsAssumption DEF BeginTurn
  <2>2. <<>> \in Seq(1 .. MaxWords)
    OBVIOUS
  <2>3. "stream" \in ReplyStates
    BY <1>1
  <2>4. /\ ReplyStep("begin", "stream") /\ UNCHANGED <<jobs, completed, done>>
        /\ interrupted' = FALSE /\ emitted' = 0 /\ marks' = <<>> /\ owner' = c
        /\ cut' = FALSE /\ late' = 0 /\ voicesUsed' = {} /\ split' = FALSE
    BY <1>5 DEF BeginTurn
  <2>5. Typed'
    BY <1>2, <2>1, <2>2, <2>3, <2>4, ReplyTypes
  <2>6. BegunInv'
    BY <2>1, <2>4 DEF BegunInv
  <2> QED
    BY <2>5, <2>6
<1>6. ASSUME StreamWord \/ EndTurn
      PROVE  Typed' /\ BegunInv'
  <2>1. served \in 1 .. MaxTurns /\ owner \in Conns
    BY <1>2, <1>6 DEF StreamWord, EndTurn, ReplyStep, BegunInv
  <2>2. CASE StreamWord
    <3>1. spoken + 1 \in 1 .. MaxWords
      BY <1>2, <2>2, BoundsAssumption DEF StreamWord
    <3>2. Word(spoken + 1) \in Jobs
      BY <2>1, <3>1 DEF Word, Jobs, WordJobs
    <3>3. jobs' \in Seq(Jobs \cup {None}) /\ spoken' \in 0 .. MaxWords
      BY <1>2, <2>2, <3>1, <3>2, Admitted DEF StreamWord
    <3> QED
      BY <1>1, <1>2, <2>1, <2>2, <3>3, ReplyTypes DEF StreamWord, ofReply, trackVars, BegunInv,
         ReplyStep
  <2>3. CASE EndTurn
    <3>1. End \in Jobs
      BY <2>1 DEF End, Jobs, EndJobs
    <3>2. jobs' \in Seq(Jobs \cup {None}) /\ done' \subseteq 1 .. MaxTurns
      BY <1>2, <2>1, <2>3, <3>1, Admitted DEF EndTurn
    <3> QED
      BY <1>1, <1>2, <2>1, <2>3, <3>2, ReplyTypes DEF EndTurn, ofReply, trackVars, BegunInv, ReplyStep
  <2> QED
    BY <1>6, <2>2, <2>3
<1>7. ASSUME WaitCutShort \/ WaitDrained
      PROVE  Typed' /\ BegunInv'
  <2>1. PICK from \in {"wait", "drain"}, result \in BOOLEAN : WaitReturns(from, result)
    BY <1>7 DEF WaitCutShort, WaitDrained
  <2> QED
    BY <1>1, <1>2, <2>1, ReplyTypes DEF WaitReturns, ofReply, trackVars, BegunInv, ReplyStep
<1>8. ASSUME FinishTurn
      PROVE  Typed' /\ BegunInv'
  BY <1>1, <1>2, <1>8, ReplyTypes DEF FinishTurn, trackVars, BegunInv, ReplyStep
<1> QED
  BY <1>4, <1>5, <1>6, <1>7, <1>8 DEF TurnLoop

LEMMA OutsideTypes ==
    ASSUME BaseInv,
           \/ \E s \in Sayers : AskSay(s)
           \/ \E p \in Pickers : AskVoice(p)
           \/ Environment
           \/ Shutdown
    PROVE  Typed' /\ BegunInv' /\ UNCHANGED <<synthVars, workVars>>
<1>1. ASSUME NEW a \in Sayers \cup Pickers, NEW j \in Jobs, Ask(a, j)
      PROVE  Typed' /\ BegunInv' /\ UNCHANGED <<synthVars, workVars>>
  <2>1. UNCHANGED <<synthVars, stopped, workVars, interrupted, closed, replyVars, done, trackVars,
                    main, ghostVars>>
    BY <1>1 DEF Ask
  <2>2. jobs' \in Seq(Jobs \cup {None})
    BY <1>1, Admitted DEF Ask, BaseInv
  <2>3. asking' \in [Sayers \cup Pickers -> AskStates]
    BY <1>1 DEF Ask, BaseInv, Typed, AskStates
  <2> QED
    BY <2>1, <2>2, <2>3 DEF BaseInv, Typed, BegunInv, synthVars, workVars, replyVars, trackVars,
       ghostVars
<1>2. CASE \E s \in Sayers : AskSay(s)
  <2>1. PICK s \in Sayers, v \in Voices : Ask(s, [kind |-> "say", who |-> s, voice |-> v])
    BY <1>2 DEF AskSay
  <2>2. [kind |-> "say", who |-> s, voice |-> v] \in Jobs
    BY DEF Jobs, SayJobs
  <2> QED
    BY <1>1, <2>1, <2>2
<1>3. CASE \E p \in Pickers : AskVoice(p)
  <2>1. PICK p \in Pickers, v \in Voices : Ask(p, [kind |-> "voice", who |-> p, voice |-> v])
    BY <1>3 DEF AskVoice
  <2>2. [kind |-> "voice", who |-> p, voice |-> v] \in Jobs
    BY DEF Jobs, VoiceJobs
  <2> QED
    BY <1>1, <2>1, <2>2
<1>4. CASE Environment \/ Shutdown
  <2>1. UNCHANGED <<synthVars, workVars, replyVars, done, trackVars, asking, late, broken, voicesUsed,
                    heard, split>>
    BY <1>4 DEF Environment, Shutdown, BargeInOrDisconnect, CloseSocket, StopServing,
       InterruptSession, StopTts, ghostVars
  <2>2. jobs' \in Seq(Jobs \cup {None})
    <3>1. CASE StopTts
      BY <3>1, AppendOf DEF StopTts, BaseInv, Typed
    <3>2. CASE UNCHANGED jobs
      BY <3>2 DEF BaseInv, Typed
    <3> QED
      BY <1>4, <3>1, <3>2 DEF Environment, Shutdown, BargeInOrDisconnect, CloseSocket, StopServing,
         InterruptSession
  <2>3. /\ stopped' \in BOOLEAN /\ interrupted' \in BOOLEAN /\ closed' \subseteq Sockets
        /\ main' \in {"serving", "interrupt", "stop", "stopped"} /\ cut' \in BOOLEAN
    BY <1>4 DEF Environment, Shutdown, BargeInOrDisconnect, CloseSocket, StopServing,
       InterruptSession, StopTts, ghostVars, Interrupting, BaseInv, Typed
  <2> QED
    BY <2>1, <2>2, <2>3 DEF BaseInv, Typed, BegunInv, synthVars, workVars, replyVars, trackVars
<1> QED
  BY <1>2, <1>3, <1>4

\* Every step of the worker keeps the shape.
LEMMA QueueShape ==
    ASSUME BaseInv,
           \/ TakeSentinel \/ DropWord \/ SpeakWord \/ FailToOpen
           \/ \E kind \in {"end", "say"} :
                 CloseUnopened(kind) \/ CloseInterrupted(kind) \/ CloseByDraining(kind)
           \/ SetConversationVoice \/ RefuseConversationVoice
    PROVE  JobInv' /\ UnitsInv'
<1> USE DEF JobInv, UnitsInv, Looping, Framing, InSpeak, InDrain, Saying
<1>1. {"get", "speak", "drain", "say", "signal"} \subseteq WorkerStates
  BY DEF WorkerStates
<1>2. pipeline \in Seq(Units) /\ turnOpen \in BOOLEAN /\ turnFailed \in BOOLEAN
      /\ conversationVoice \in Voices /\ JobInv /\ UnitsInv
  BY DEF BaseInv, Typed, Units
<1>3. worker = "get" /\ ~Looping /\ (~turnOpen => pipeline = <<>>)
  BY <1>2 DEF TakeSentinel, DropWord, SpeakWord, FailToOpen, CloseUnopened, CloseInterrupted,
     CloseByDraining, Closing, SetConversationVoice, RefuseConversationVoice, Taking, WorkerStep
<1>4. ASSUME NEW to \in {"get", "exit"}, worker' = to, UNCHANGED <<voice, pipeline, turnFlags>>
      PROVE  JobInv' /\ UnitsInv'
  BY <1>2, <1>3, <1>4 DEF turnFlags
<1>5. CASE TakeSentinel \/ DropWord \/ SetConversationVoice \/ RefuseConversationVoice
  <2>1. worker' \in {"get", "exit"} /\ UNCHANGED <<voice, pipeline, turnFlags>>
    BY <1>5 DEF TakeSentinel, DropWord, SetConversationVoice, RefuseConversationVoice, Taking,
       WorkerStep, synthVars, turnFlags
  <2> QED
    BY <1>4, <2>1
<1>6. CASE SpeakWord
  <2>1. job' \in WordJobs /\ worker' = "speak" /\ ~turnFailed
    BY <1>1, <1>6, TakingJobs, TakenJob DEF SpeakWord, BaseInv
  <2>2. job'.ws \in Conns
    BY <2>1, Kinds
  <2>3. CASE turnOpen /\ SpeakIn(voice, <<job'>>) /\ UNCHANGED turnFlags
    <3>1. pipeline' = Append(pipeline, job') /\ voice' = voice
      BY <1>2, <2>1, <2>3, OneUnit DEF SpeakIn, Units
    <3>2. \A i \in 1 .. Len(pipeline') : pipeline'[i] \in WordJobs
      BY <1>2, <2>1, <2>3, <3>1, AppendOf DEF Units
    <3> QED
      BY <1>2, <2>1, <2>3, <3>1, <3>2 DEF turnFlags
  <2>4. CASE ~turnOpen /\ SpeakIn(conversationVoice, <<job'>>) /\ OpenTurn
    <3>1. pipeline' = <<job'>>
      BY <1>2, <1>3, <2>1, <2>4 DEF SpeakIn
    <3>2. \A i \in 1 .. Len(pipeline') : pipeline'[i] \in WordJobs
      BY <2>1, <3>1, OneUnit
    <3>3. voice' \in Voices /\ target' \in Conns /\ conversationAudio' = TRUE /\ turnOpen' = TRUE
          /\ turnFailed' = FALSE
      BY <1>2, <2>1, <2>2, <2>4 DEF SpeakIn, OpenTurn
    <3> QED
      BY <2>1, <3>2, <3>3
  <2> QED
    BY <1>6, <2>3, <2>4 DEF SpeakWord
<1>7. CASE FailToOpen
  BY <1>2, <1>3, <1>7 DEF FailToOpen, RebuildFails, AbandonTurn, Taking, WorkerStep
<1>8. ASSUME NEW kind \in {"end", "say"},
             CloseUnopened(kind) \/ CloseInterrupted(kind) \/ CloseByDraining(kind)
      PROVE  JobInv' /\ UnitsInv'
  <2>1. PICK to \in {"signal", "say", "drain"} : Taking(kind, to) /\ to \in {"drain", AfterClose(kind)}
    BY <1>8 DEF CloseUnopened, CloseInterrupted, CloseByDraining, Closing, AfterClose
  <2>2. /\ kind = "end" => job' \in EndJobs
        /\ kind = "say" => job' \in SayJobs
        /\ worker' = to /\ to \in {"drain", AfterClose(kind)}
    BY <1>1, <2>1, TakingJobs, TakenJob DEF BaseInv
  <2>3. CASE CloseUnopened(kind) \/ CloseInterrupted(kind)
    <3>1. worker' = AfterClose(kind) /\ turnOpen' = FALSE /\ turnFailed' = FALSE /\ pipeline' = <<>>
      BY <1>2, <1>3, <2>3 DEF CloseUnopened, CloseInterrupted, Closing, Taking, WorkerStep, ForgetTurn
    <3>2. /\ worker' = "say" => job' \in SayJobs
          /\ worker' = "signal" => job' \in EndJobs
          /\ worker' \in {"say", "signal"}
      BY <2>2, <3>1 DEF AfterClose
    <3> QED
      BY <3>1, <3>2
  <2>4. CASE CloseByDraining(kind)
    <3>1. worker' = "drain" /\ turnOpen /\ UNCHANGED <<voice, pipeline, turnFlags>>
      BY <2>4 DEF CloseByDraining, Closing, Taking, WorkerStep
    <3>2. job' \in EndJobs \cup SayJobs
      BY <2>2
    <3> QED
      BY <1>2, <3>1, <3>2 DEF turnFlags
  <2> QED
    BY <1>8, <2>3, <2>4
<1> QED
  BY <1>5, <1>6, <1>7, <1>8

LEMMA JobShape ==
    ASSUME BaseInv,
           \/ BeginSay \/ FailSay \/ DieInSay
           \/ Pump \/ Pumped \/ Drain \/ Drained
           \/ DropFrame \/ KeepFrame \/ SendFrame \/ WordRaises \/ CloseRaises \/ SayRaises
           \/ RecordEmission \/ MarkSpoken \/ SignalDone
    PROVE  JobInv' /\ UnitsInv'
<1> USE DEF JobInv, UnitsInv, Looping, Framing, InSpeak, InDrain, Saying, Midway, WorkerStep
<1>1. pipeline \in Seq(Units) /\ turnOpen \in BOOLEAN /\ turnFailed \in BOOLEAN
      /\ conversationAudio \in BOOLEAN /\ back \in {"speak", "drain"} /\ JobInv /\ UnitsInv
  BY DEF BaseInv, Typed, Units
<1>2. CASE BeginSay
  <2>1. job \in SayJobs /\ ~turnOpen /\ ~turnFailed /\ pipeline = <<>>
    BY <1>1, <1>2 DEF BeginSay
  <2>2. SayUnits \in Seq({job}) /\ <<>> \o SayUnits = SayUnits
    BY BoundsAssumption DEF SayUnits
  <2>3. pipeline' = SayUnits
    BY <1>2, <2>1, <2>2 DEF BeginSay, SpeakIn
  <2>4. \A i \in 1 .. Len(pipeline') : pipeline'[i] = job
    BY <2>2, <2>3
  <2> QED
    BY <1>2, <2>1, <2>4 DEF BeginSay
<1>3. CASE FailSay \/ DieInSay
  BY <1>1, <1>3 DEF FailSay, DieInSay, LookupFails, RebuildFails
<1>4. CASE Pump \/ Drain
  <2>1. pipeline # <<>>
    BY <1>1, <1>4, AheadAssumption DEF Pump, Drain
  <2> QED
    BY <1>1, <1>4, <2>1 DEF Pump, Drain, StepGenerator, synthVars
<1>5. CASE Pumped
  <2>1. job \in WordJobs <=> job.kind = "word"
    BY <1>1, <1>5, Kinds DEF Pumped
  <2> QED
    BY <1>1, <1>5, <2>1, Kinds DEF Pumped, synthVars
<1>6. CASE Drained
  <2>1. /\ job.kind = "end" <=> job \in EndJobs
        /\ job \in EndJobs \cup SayJobs
        /\ ~turnOpen => job \in SayJobs
    BY <1>1, <1>6, Kinds DEF Drained, Ended
  <2> QED
    BY <1>1, <1>6, <2>1 DEF Drained, Ended, ForgetTurn, AfterClose
<1>7. CASE DropFrame \/ RecordEmission
  <2>1. Framing /\ turnOpen /\ worker' = back /\ pipeline' = Tail(pipeline) /\ UNCHANGED <<voice, turnFlags, job, back>>
    BY <1>1, <1>7 DEF DropFrame, Dropping, RecordEmission
  <2>2. \A i \in 1 .. Len(pipeline') : pipeline'[i] \in WordJobs
    BY <1>1, <2>1, FirstUnit
  <2> QED
    BY <1>1, <2>1, <2>2 DEF turnFlags
<1>8. CASE KeepFrame
  BY <1>1, <1>8 DEF KeepFrame, synthVars
<1>9. CASE SendFrame
  <2>1. Framing /\ UNCHANGED <<voice, turnFlags, job, back>>
    BY <1>9 DEF SendFrame
  <2>2. CASE turnOpen
    BY <1>1, <1>9, <2>1, <2>2 DEF SendFrame, turnFlags
  <2>3. CASE ~turnOpen
    <3>1. ~conversationAudio /\ pipeline' = Tail(pipeline) /\ worker' = back
      BY <1>1, <1>9, <2>1, <2>3 DEF SendFrame
    <3>2. \A i \in 1 .. Len(pipeline') : pipeline'[i] = job
      BY <1>1, <2>1, <2>3, <3>1, FirstUnit
    <3> QED
      BY <1>1, <2>1, <2>3, <3>1, <3>2 DEF turnFlags
  <2> QED
    BY <2>2, <2>3
<1>10. CASE WordRaises
  BY <1>1, <1>10 DEF WordRaises, Raised, AbandonTurn
<1>11. CASE CloseRaises
  <2>1. /\ job.kind = "end" <=> job \in EndJobs
        /\ job \in EndJobs \cup SayJobs
    BY <1>1, <1>11, Kinds DEF CloseRaises, Raised
  <2> QED
    BY <1>1, <1>11, <2>1 DEF CloseRaises, Raised, ForgetTurn, AfterClose
<1>12. CASE SayRaises
  <2>1. job \in SayJobs
    BY <1>1, <1>12 DEF SayRaises, Raised
  <2> QED
    BY <1>1, <1>12, <2>1 DEF SayRaises, Raised
<1>13. CASE MarkSpoken \/ SignalDone
  BY <1>1, <1>13 DEF MarkSpoken, SignalDone, synthVars
<1> QED
  BY <1>2, <1>3, <1>4, <1>5, <1>6, <1>7, <1>8, <1>9, <1>10, <1>11, <1>12, <1>13

-----------------------------------------------------------------------------
\* What the steps leave alone.
LEMMA WorkerLeaves ==
    ASSUME Worker
    PROVE  UNCHANGED <<stopped, interrupted, closed, replyVars, main, cut, reply, served, owner,
                       spoken, completed>>
<1>1. UNCHANGED <<stopped, interrupted, closed, replyVars, main, cut>>
  BY DEF Worker, TakeSentinel, DropWord, SpeakWord, FailToOpen, CloseUnopened, CloseInterrupted,
     CloseByDraining, Closing, SetConversationVoice, RefuseConversationVoice, Taking, BeginSay,
     FailSay, DieInSay, Pump, Pumped, Drain, Drained, StepGenerator, Ended, DropFrame, Dropping,
     KeepFrame, SendFrame, WordRaises, CloseRaises, SayRaises, Raised, RecordEmission, MarkSpoken,
     SignalDone, Midway, WorkerStep
<1> QED
  BY <1>1 DEF replyVars

LEMMA TurnLoopLeaves ==
    ASSUME TurnLoop
    PROVE  UNCHANGED <<synthVars, stopped, workVars, closed, asking, main, broken, heard>>
  BY DEF TurnLoop, CheckStopping, BeginTurn, StreamWord, StreamEnds, EndTurn, WaitCutShort, WaitLooks,
     WaitDrained, WaitAgain, Recheck, WaitForCleanup, FinishTurn, Go, WaitReturns, ReplyStep

LEMMA OutsideLeaves ==
    ASSUME \/ \E s \in Sayers : AskSay(s)
           \/ \E p \in Pickers : AskVoice(p)
           \/ Environment
           \/ Shutdown
    PROVE  /\ UNCHANGED <<reply, served, owner, spoken, completed, done, emitted, marks, late, broken,
                          voicesUsed, heard, split>>
           /\ main # "serving" => main' # "serving"
           /\ interrupted => interrupted'
<1>1. CASE (\E s \in Sayers : AskSay(s)) \/ (\E p \in Pickers : AskVoice(p))
  <2>1. UNCHANGED <<interrupted, replyVars, done, trackVars, main, ghostVars>>
    BY <1>1 DEF AskSay, AskVoice, Ask
  <2> QED
    BY <2>1 DEF replyVars, trackVars, ghostVars
<1>2. CASE Environment \/ Shutdown
  BY <1>2 DEF Environment, Shutdown, BargeInOrDisconnect, CloseSocket, StopServing, InterruptSession,
     StopTts, Interrupting, replyVars, trackVars, ghostVars
<1> QED
  BY <1>1, <1>2

\* The shape holds always: for every value of the constants the worker is where
\* its job belongs and the generator holds only units of one utterance.
LEMMA BaseStep == BaseInv /\ [Next]_vars => BaseInv'
<1>1. ASSUME BaseInv, Worker
      PROVE  BaseInv'
  <2>1. Typed'
    BY <1>1, WorkerTypes
  <2>2. JobInv' /\ UnitsInv'
    BY <1>1, QueueShape, JobShape DEF Worker
  <2>3. UNCHANGED <<reply, served, owner>>
    BY <1>1, WorkerLeaves
  <2> QED
    BY <1>1, <2>1, <2>2, <2>3 DEF BaseInv, BegunInv
<1>2. ASSUME BaseInv, UNCHANGED <<synthVars, workVars>>, Typed', BegunInv'
      PROVE  BaseInv'
  BY <1>2 DEF BaseInv, JobInv, UnitsInv, Looping, Framing, InSpeak, InDrain, Saying, synthVars, workVars
<1>3. ASSUME BaseInv, TurnLoop
      PROVE  BaseInv'
  <2>1. UNCHANGED <<synthVars, workVars>>
    BY <1>3, TurnLoopLeaves
  <2> QED
    BY <1>2, <1>3, <2>1, TurnLoopTypes
<1>4. ASSUME BaseInv, UNCHANGED vars
      PROVE  BaseInv'
  BY <1>4 DEF BaseInv, Typed, BegunInv, JobInv, UnitsInv, Looping, Framing, InSpeak, InDrain, Saying,
     vars, synthVars, workVars, replyVars, trackVars, ghostVars
<1> QED
  BY <1>1, <1>2, <1>3, <1>4, OutsideTypes DEF Next

LEMMA BaseInit == Init => BaseInv
<1>1. ASSUME Init
      PROVE  Typed
  <2>1. <<>> \in Seq(WordJobs \cup SayJobs) /\ <<>> \in Seq(Jobs \cup {None})
        /\ <<>> \in Seq(1 .. MaxWords) /\ 0 \in 0 .. MaxTurns /\ 0 \in 0 .. MaxWords
    BY BoundsAssumption
  <2> QED
    BY <1>1, <2>1, VoicesAssumption DEF Init, SynthInit, Typed, WorkerStates, ReplyStates, AskStates
<1>2. Init => JobInv /\ UnitsInv /\ BegunInv
  BY DEF Init, SynthInit, BegunInv, JobInv, UnitsInv, Looping, Framing, InSpeak, InDrain, Saying
<1> QED
  BY <1>1, <1>2 DEF BaseInv

THEOREM ShapeHolds == Spec => []BaseInv
  BY BaseInit, BaseStep, PTL DEF Spec

-----------------------------------------------------------------------------
\* Whose work is queued.  All words and ends, queued or in hand, are the current
\* turn's, its end comes last, and a turn that is done has no work left.

Busy       == worker \notin {"get", "exit", "dead"}
InHand(S)  == Busy /\ job \in S
Queued(S)  == \E i \in 1 .. Len(jobs) : jobs[i] \in S
TurnWork   == Queued(TurnJobs) \/ InHand(TurnJobs) \/ turnOpen \/ turnFailed

QueueInv ==
    /\ \A i \in 1 .. Len(jobs) : jobs[i] \in TurnJobs => jobs[i].turn = served
    /\ \A i \in 1 .. Len(jobs) : jobs[i] \in WordJobs => jobs[i].ws = owner
    /\ InHand(TurnJobs) => job.turn = served
    /\ InHand(WordJobs) => job.ws = owner
    /\ \A i, j \in 1 .. Len(jobs) : i < j /\ jobs[i] \in EndJobs => jobs[j] \notin TurnJobs
    /\ InHand(EndJobs) => ~Queued(TurnJobs)
    /\ Queued(EndJobs) \/ InHand(EndJobs) => reply \notin {"stream", "end"}

PipelineInv ==
    turnOpen => /\ target = owner
                /\ \A i \in 1 .. Len(pipeline) :
                      pipeline[i].turn = served /\ pipeline[i].ws = owner

WorkInv == TurnWork => served > 0 /\ reply # "begin" /\ (served \in done => stopped)

LoopInv ==
    /\ stopped => main = "stopped"
    /\ done \subseteq 1 .. served
    /\ reply \in {"stream", "end"} => served \notin done
    /\ reply = "finish" => served \in done \/ stopping
    /\ reply = "check" => served \in done \/ served = 0 \/ stopping
    /\ reply \in {"transcript", "cleanup", "finish"} /\ completed => served \in done
    /\ reply = "transcript" /\ ~completed => stopping \/ interrupted

TurnInv == QueueInv /\ PipelineInv /\ WorkInv /\ LoopInv

\* The worker takes the first job or goes on with the one in hand.
Takes ==
    /\ worker = "get" /\ Len(jobs) \in Nat \ {0}
    /\ jobs' \in Seq(Jobs \cup {None}) /\ Len(jobs') = Len(jobs) - 1
    /\ \A i \in 1 .. Len(jobs) - 1 : jobs'[i] = jobs[i + 1]
    /\ job' = jobs[1] \/ (worker' = "exit" /\ jobs[1] = None)

GoesOn == Busy /\ UNCHANGED <<jobs, job>>

Signals == worker = "signal" /\ worker' = "get" /\ done' = done \cup {job.turn}

LEMMA WorkerTakes == ASSUME BaseInv, Worker PROVE Takes \/ GoesOn
<1>1. CASE TakeSentinel
  BY <1>1, TailOf DEF TakeSentinel, WorkerStep, Takes, BaseInv, Typed
<1>2. ASSUME NEW kind, NEW to, Taking(kind, to)
      PROVE  Takes
  <2>1. /\ worker = "get" /\ Len(jobs) \in Nat \ {0} /\ job' = jobs[1]
        /\ jobs' \in Seq(Jobs \cup {None}) /\ Len(jobs') = Len(jobs) - 1
        /\ \A i \in 1 .. Len(jobs) - 1 : jobs'[i] = jobs[i + 1]
    BY <1>2, TakenJob DEF BaseInv
  <2> QED
    BY <2>1 DEF Takes
<1>3. CASE \/ DropWord \/ SpeakWord \/ FailToOpen
           \/ \E kind \in {"end", "say"} :
                 CloseUnopened(kind) \/ CloseInterrupted(kind) \/ CloseByDraining(kind)
           \/ SetConversationVoice \/ RefuseConversationVoice
  <2>1. PICK kind, to : Taking(kind, to)
    BY <1>3 DEF DropWord, SpeakWord, FailToOpen, CloseUnopened, CloseInterrupted, CloseByDraining,
       Closing, SetConversationVoice, RefuseConversationVoice
  <2> QED
    BY <1>2, <2>1
<1>4. CASE \/ BeginSay \/ FailSay \/ DieInSay
           \/ Pump \/ Pumped \/ Drain \/ Drained
           \/ DropFrame \/ KeepFrame \/ SendFrame \/ WordRaises \/ CloseRaises \/ SayRaises
           \/ RecordEmission \/ MarkSpoken \/ SignalDone
  BY <1>4 DEF BeginSay, FailSay, DieInSay, Pump, Pumped, Drain, Drained, StepGenerator, Ended,
     DropFrame, Dropping, KeepFrame, SendFrame, WordRaises, CloseRaises, SayRaises, Raised,
     RecordEmission, MarkSpoken, SignalDone, Midway, WorkerStep, GoesOn, Busy
<1> QED
  BY <1>1, <1>3, <1>4 DEF Worker

\* A turn's work comes from its queued words only.
LEMMA WorkerQueue ==
    ASSUME BaseInv, QueueInv, Worker
    PROVE  QueueInv' /\ (Queued(TurnJobs)' \/ InHand(TurnJobs)' => TurnWork)
<1>1. UNCHANGED <<reply, served, owner>>
  BY WorkerLeaves
<1>2. ASSUME NEW S, Queued(S)'
      PROVE  Queued(S)
  BY <1>2, WorkerTakes DEF Takes, GoesOn, Queued
<1>3. CASE Takes
  <2>1. \A i \in 1 .. Len(jobs') : i + 1 \in 1 .. Len(jobs) /\ jobs'[i] = jobs[i + 1]
    BY <1>3 DEF Takes
  <2>2. ASSUME NEW S, S \subseteq Jobs, InHand(S)'
        PROVE  jobs[1] \in S /\ 1 \in 1 .. Len(jobs) /\ job' = jobs[1] /\ Queued(S)
    BY <1>3, <2>2 DEF Takes, InHand, Busy, Queued
  <2>3. TurnJobs \subseteq Jobs /\ EndJobs \subseteq TurnJobs /\ WordJobs \subseteq TurnJobs
        /\ EndJobs \subseteq Jobs /\ WordJobs \subseteq Jobs
    BY DEF TurnJobs, Jobs
  <2>4. \A i \in 1 .. Len(jobs') : jobs'[i] \in TurnJobs => jobs'[i].turn = served
    BY <2>1 DEF QueueInv
  <2>5. \A i \in 1 .. Len(jobs') : jobs'[i] \in WordJobs => jobs'[i].ws = owner
    BY <2>1 DEF QueueInv
  <2>6. (InHand(TurnJobs)' => job'.turn = served) /\ (InHand(WordJobs)' => job'.ws = owner)
    BY <2>2, <2>3 DEF QueueInv
  <2>7. \A i, j \in 1 .. Len(jobs') : i < j /\ jobs'[i] \in EndJobs => jobs'[j] \notin TurnJobs
    <3>1. TAKE i, j \in 1 .. Len(jobs')
    <3>2. i + 1 \in 1 .. Len(jobs) /\ j + 1 \in 1 .. Len(jobs) /\ (i < j => i + 1 < j + 1)
          /\ jobs'[i] = jobs[i + 1] /\ jobs'[j] = jobs[j + 1]
      BY <1>3, <2>1 DEF Takes
    <3> QED
      BY <3>2 DEF QueueInv
  <2>8. InHand(EndJobs)' => ~Queued(TurnJobs)'
    <3>1. SUFFICES ASSUME InHand(EndJobs)', NEW j \in 1 .. Len(jobs'), jobs'[j] \in TurnJobs
                   PROVE  FALSE
      BY DEF Queued
    <3>2. jobs[1] \in EndJobs /\ 1 \in 1 .. Len(jobs)
      BY <2>2, <2>3, <3>1
    <3>3. j + 1 \in 1 .. Len(jobs) /\ jobs[j + 1] \in TurnJobs /\ 1 < j + 1
      BY <2>1, <3>1
    <3> QED
      BY <3>2, <3>3 DEF QueueInv
  <2>9. Queued(EndJobs)' \/ InHand(EndJobs)' => reply' \notin {"stream", "end"}
    BY <1>1, <1>2, <2>2, <2>3 DEF QueueInv
  <2> QED
    BY <1>1, <1>2, <2>2, <2>3, <2>4, <2>5, <2>6, <2>7, <2>8, <2>9 DEF QueueInv, TurnWork
<1>4. CASE GoesOn
  <2>1. \A S : InHand(S)' => InHand(S)
    BY <1>4 DEF GoesOn, InHand
  <2> QED
    BY <1>1, <1>2, <1>4, <2>1 DEF QueueInv, GoesOn, TurnWork, Queued
<1> QED
  BY <1>3, <1>4, WorkerTakes

\* An open turn speaks what it spoke before, and the word just taken.
LEMMA WorkerPipeline ==
    ASSUME BaseInv, QueueInv, PipelineInv, Worker
    PROVE  /\ PipelineInv'
           /\ turnOpen' \/ turnFailed' => TurnWork
<1> USE DEF Midway, WorkerStep
<1>1. UNCHANGED <<served, owner>>
  BY WorkerLeaves
<1>2. CASE UNCHANGED <<pipeline, target, turnOpen, turnFailed>>
  BY <1>1, <1>2 DEF PipelineInv, TurnWork
<1>3. CASE turnOpen' = FALSE /\ (turnFailed' => TurnWork)
  BY <1>3 DEF PipelineInv
<1>4. CASE \/ TakeSentinel \/ DropWord \/ SetConversationVoice \/ RefuseConversationVoice
           \/ (\E kind \in {"end", "say"} : CloseByDraining(kind))
           \/ Pump \/ Pumped \/ Drain \/ KeepFrame \/ MarkSpoken \/ SignalDone
  BY <1>2, <1>4 DEF TakeSentinel, DropWord, SetConversationVoice, RefuseConversationVoice,
     CloseByDraining, Closing, Pump, Pumped, Drain, StepGenerator, KeepFrame, MarkSpoken, SignalDone,
     synthVars, turnFlags
<1>5. CASE \/ (\E kind \in {"end", "say"} : CloseUnopened(kind) \/ CloseInterrupted(kind))
           \/ CloseRaises
  BY <1>3, <1>5 DEF CloseUnopened, CloseInterrupted, CloseRaises, ForgetTurn, BaseInv, Typed
<1>6. CASE FailToOpen \/ SpeakWord
  <2>1. PICK to \in WorkerStates : Taking("word", to) /\ to \in {"get", "speak"}
    BY <1>6 DEF FailToOpen, SpeakWord, WorkerStates
  <2>2. job' \in WordJobs /\ job' = jobs[1] /\ 1 \in 1 .. Len(jobs)
    BY <2>1, TakingJobs, TakenJob DEF BaseInv
  <2>3. TurnWork
    BY <2>2 DEF TurnWork, Queued, TurnJobs
  <2>4. job'.turn = served /\ job'.ws = owner
    BY <2>2 DEF QueueInv, TurnJobs
  <2>5. CASE FailToOpen
    BY <1>3, <2>3, <2>5 DEF FailToOpen, AbandonTurn
  <2>6. CASE SpeakWord
    <3>1. pipeline \in Seq(Units) /\ job' \in Units
      BY <2>2 DEF BaseInv, Typed, Units
    <3>2. CASE turnOpen /\ SpeakIn(voice, <<job'>>) /\ UNCHANGED turnFlags
      <4>1. pipeline' = Append(pipeline, job')
        BY <3>1, <3>2, OneUnit DEF SpeakIn
      <4>2. \A i \in 1 .. Len(pipeline') : \/ i \in 1 .. Len(pipeline) /\ pipeline'[i] = pipeline[i]
                                           \/ pipeline'[i] = job'
        BY <3>1, <4>1, AppendOf
      <4> QED
        BY <1>1, <2>3, <2>4, <3>2, <4>2 DEF PipelineInv, turnFlags
    <3>3. CASE ~turnOpen /\ SpeakIn(conversationVoice, <<job'>>) /\ OpenTurn
      <4>1. pipeline = <<>>
        BY <2>6, <3>3 DEF BaseInv, UnitsInv, Looping, Framing, SpeakWord, Taking
      <4>2. pipeline' = <<job'>> /\ target' = job'.ws
        BY <3>3, <4>1 DEF SpeakIn, OpenTurn
      <4> QED
        BY <1>1, <2>3, <2>4, <3>1, <4>2, OneUnit DEF PipelineInv
    <3> QED
      BY <2>6, <3>2, <3>3 DEF SpeakWord
  <2> QED
    BY <1>6, <2>5, <2>6
<1>7. CASE BeginSay \/ FailSay \/ DieInSay \/ SayRaises
  <2>1. turnOpen = FALSE
    BY <1>7 DEF BeginSay, FailSay, DieInSay, SayRaises, BaseInv, JobInv, Typed
  <2> QED
    BY <1>3, <1>7, <2>1 DEF BeginSay, FailSay, DieInSay, SayRaises, TurnWork
<1>8. CASE Drained
  <2>1. CASE turnOpen
    BY <1>3, <1>8, <2>1 DEF Drained, Ended, ForgetTurn
  <2>2. CASE ~turnOpen
    BY <1>3, <1>8, <2>2 DEF Drained, Ended, TurnWork, BaseInv, Typed
  <2> QED
    BY <2>1, <2>2
<1>9. CASE WordRaises
  <2>1. TurnWork
    BY <1>9, Kinds DEF WordRaises, Raised, TurnWork, BaseInv, JobInv, Looping, Framing
  <2> QED
    BY <1>3, <1>9, <2>1 DEF WordRaises, AbandonTurn
<1>10. CASE DropFrame \/ SendFrame \/ RecordEmission
  <2>1. Framing /\ (pipeline' = Tail(pipeline) \/ pipeline' = pipeline)
        /\ UNCHANGED <<target, turnOpen, turnFailed>>
    BY <1>10 DEF DropFrame, Dropping, SendFrame, RecordEmission, Framing, turnFlags
  <2>2. \A i \in 1 .. Len(pipeline') : \E k \in 1 .. Len(pipeline) : pipeline'[i] = pipeline[k]
    <3>1. CASE pipeline' = Tail(pipeline)
      <4>1. ASSUME NEW i \in 1 .. Len(pipeline')
            PROVE  i + 1 \in 1 .. Len(pipeline) /\ pipeline'[i] = pipeline[i + 1]
        BY <2>1, <3>1, FirstUnit
      <4> QED
        BY <4>1
    <3> QED
      BY <2>1, <3>1
  <2> QED
    BY <1>1, <2>1, <2>2 DEF PipelineInv, TurnWork
<1> QED
  BY <1>4, <1>5, <1>6, <1>7, <1>8, <1>9, <1>10 DEF Worker

\* done is set only for the end in hand, when nothing of its turn is left.
LEMMA WorkerDone ==
    ASSUME BaseInv, QueueInv, Worker
    PROVE  \/ done' = done
           \/ /\ InHand(EndJobs) /\ done' = done \cup {served}
              /\ worker' = "get" /\ UNCHANGED jobs /\ turnOpen' = FALSE /\ turnFailed' = FALSE
<1>1. CASE SignalDone /\ job.kind = "end"
  <2>1. worker = "signal" /\ turnOpen = FALSE /\ turnFailed = FALSE /\ job \in EndJobs
    BY <1>1, Kinds DEF SignalDone, Midway, WorkerStep, BaseInv, Typed, JobInv
  <2>2. InHand(EndJobs) /\ job.turn = served
    BY <2>1 DEF InHand, Busy, QueueInv, TurnJobs
  <2> QED
    BY <1>1, <2>1, <2>2 DEF SignalDone, synthVars, Midway, WorkerStep
<1>2. CASE ~(SignalDone /\ job.kind = "end")
  BY <1>2 DEF Worker, TakeSentinel, DropWord, SpeakWord, FailToOpen, CloseUnopened, CloseInterrupted,
     CloseByDraining, Closing, SetConversationVoice, RefuseConversationVoice, Taking, BeginSay,
     FailSay, DieInSay, Pump, Pumped, Drain, Drained, StepGenerator, Ended, DropFrame, Dropping,
     KeepFrame, SendFrame, WordRaises, CloseRaises, SayRaises, Raised, RecordEmission, MarkSpoken,
     SignalDone, accounts
<1> QED
  BY <1>1, <1>2

LEMMA WorkerTurn ==
    ASSUME BaseInv, TurnInv, Worker
    PROVE  TurnInv'
<1>1. UNCHANGED <<stopped, interrupted, main, reply, served, completed>>
  BY WorkerLeaves
<1>2. QueueInv' /\ PipelineInv' /\ (TurnWork' => TurnWork)
  BY WorkerQueue, WorkerPipeline DEF TurnInv, TurnWork
<1>3. CASE done' = done
  BY <1>1, <1>2, <1>3 DEF TurnInv, WorkInv, LoopInv, stopping
<1>4. CASE /\ InHand(EndJobs) /\ done' = done \cup {served}
           /\ worker' = "get" /\ UNCHANGED jobs /\ turnOpen' = FALSE /\ turnFailed' = FALSE
  <2>1. ~TurnWork'
    BY <1>4 DEF TurnWork, TurnInv, QueueInv, InHand, Busy, Queued
  <2>2. served > 0 /\ served \in Nat /\ reply \notin {"stream", "end"}
    BY <1>4 DEF TurnInv, WorkInv, TurnWork, InHand, TurnJobs, QueueInv, BaseInv, Typed
  <2> QED
    BY <1>1, <1>2, <1>4, <2>1, <2>2 DEF TurnInv, WorkInv, LoopInv, stopping
<1> QED
  BY <1>3, <1>4, WorkerDone DEF TurnInv

\* A job put at the end of the queue.
LEMMA Enqueued ==
    ASSUME BaseInv, QueueInv, NEW j \in Jobs \cup {None}, jobs' = Append(jobs, j),
           UNCHANGED <<worker, job, served, owner>>,
           j \in TurnJobs => j.turn = served /\ ~Queued(EndJobs) /\ ~InHand(EndJobs),
           j \in WordJobs => j.ws = owner,
           Queued(EndJobs) \/ InHand(EndJobs) \/ j \in EndJobs => reply' \notin {"stream", "end"}
    PROVE  QueueInv' /\ (Queued(TurnJobs)' => Queued(TurnJobs) \/ j \in TurnJobs)
<1>1. /\ Len(jobs) \in Nat /\ Len(jobs') = Len(jobs) + 1
      /\ \A i \in 1 .. Len(jobs) : jobs'[i] = jobs[i]
      /\ jobs'[Len(jobs) + 1] = j
  BY AppendOf DEF BaseInv, Typed
<1>2. \A i \in 1 .. Len(jobs') : \/ i \in 1 .. Len(jobs) /\ jobs'[i] = jobs[i]
                                 \/ i = Len(jobs) + 1 /\ jobs'[i] = j
  BY <1>1
<1>3. \A S : Queued(S)' => Queued(S) \/ j \in S
  BY <1>2 DEF Queued
<1>4. \A S : InHand(S)' = InHand(S)
  BY DEF InHand, Busy
<1>5. /\ \A i \in 1 .. Len(jobs') : jobs'[i] \in TurnJobs => jobs'[i].turn = served
      /\ \A i \in 1 .. Len(jobs') : jobs'[i] \in WordJobs => jobs'[i].ws = owner
  BY <1>2 DEF QueueInv
<1>6. \A i, k \in 1 .. Len(jobs') : i < k /\ jobs'[i] \in EndJobs => jobs'[k] \notin TurnJobs
  <2>1. TAKE i, k \in 1 .. Len(jobs')
  <2>2. i < k => i \in 1 .. Len(jobs) /\ jobs'[i] = jobs[i]
    BY <1>1, <1>2
  <2> QED
    BY <1>2, <2>2 DEF QueueInv, Queued
<1> QED
  BY <1>3, <1>4, <1>5, <1>6 DEF QueueInv

\* A step that leaves queue, worker and turn alone.
LEMMA SameQueue ==
    ASSUME QueueInv, PipelineInv, UNCHANGED <<jobs, worker, job, served, owner, synthVars>>,
           Queued(EndJobs) \/ InHand(EndJobs) => reply' \notin {"stream", "end"}
    PROVE  QueueInv' /\ PipelineInv' /\ TurnWork' = TurnWork
<1>1. \A S : Queued(S)' = Queued(S) /\ InHand(S)' = InHand(S)
  BY DEF Queued, InHand, Busy
<1> QED
  BY <1>1 DEF QueueInv, PipelineInv, TurnWork, synthVars

LEMMA TurnLoopTurn ==
    ASSUME BaseInv, TurnInv, TurnLoop
    PROVE  TurnInv'
<1>1. UNCHANGED <<synthVars, stopped, workVars, main>>
  BY TurnLoopLeaves
<1>2. QueueInv /\ PipelineInv /\ WorkInv /\ LoopInv /\ served \in Nat
  BY DEF TurnInv, BaseInv, Typed
<1>3. CASE \/ CheckStopping \/ StreamEnds \/ WaitLooks \/ WaitAgain \/ Recheck \/ WaitForCleanup
           \/ WaitCutShort \/ WaitDrained \/ FinishTurn
  <2>1. UNCHANGED <<jobs, served, owner, done>>
    BY <1>3 DEF CheckStopping, StreamEnds, WaitLooks, WaitAgain, Recheck, WaitForCleanup,
       WaitCutShort, WaitDrained, FinishTurn, Go, WaitReturns, ofReply
  <2>2. reply' \in {"stream", "end"} => reply \in {"stream", "end"}
    BY <1>3 DEF CheckStopping, StreamEnds, WaitLooks, WaitAgain, Recheck, WaitForCleanup,
       WaitCutShort, WaitDrained, FinishTurn, Go, WaitReturns, ReplyStep
  <2>3. QueueInv' /\ PipelineInv' /\ TurnWork' = TurnWork
    BY <1>1, <1>2, <2>1, <2>2, SameQueue DEF QueueInv, workVars
  <2>4. reply' = "begin" => ~TurnWork
    BY <1>2, <1>3 DEF CheckStopping, StreamEnds, WaitLooks, WaitAgain, Recheck, WaitForCleanup,
       WaitCutShort, WaitDrained, FinishTurn, Go, WaitReturns, ReplyStep, WorkInv, LoopInv, stopping
  <2>5. LoopInv'
    BY <1>1, <1>2, <1>3, <2>1 DEF CheckStopping, StreamEnds, WaitLooks, WaitAgain, Recheck,
       WaitForCleanup, WaitCutShort, WaitDrained, FinishTurn, Go, WaitReturns, ReplyStep, LoopInv,
       stopping, ofReply
  <2> QED
    BY <1>1, <1>2, <2>1, <2>3, <2>4, <2>5 DEF TurnInv, WorkInv
<1>4. ASSUME NEW c \in Conns, BeginTurn(c)
      PROVE  TurnInv'
  <2>1. reply = "begin" /\ reply' = "stream" /\ served' = served + 1 /\ UNCHANGED <<jobs, completed, done>>
    BY <1>4 DEF BeginTurn, ReplyStep
  <2>2. ~TurnWork /\ ~TurnWork' /\ ~turnOpen'
    BY <1>1, <1>2, <2>1 DEF WorkInv, TurnWork, Queued, InHand, Busy, workVars, synthVars
  <2>3. EndJobs \subseteq TurnJobs /\ WordJobs \subseteq TurnJobs
    BY DEF TurnJobs
  <2>4. QueueInv' /\ PipelineInv'
    BY <2>2, <2>3 DEF QueueInv, PipelineInv, TurnWork, Queued, InHand
  <2>5. LoopInv'
    BY <1>1, <1>2, <2>1 DEF LoopInv
  <2> QED
    BY <2>2, <2>4, <2>5 DEF TurnInv, WorkInv
<1>5. CASE StreamWord \/ EndTurn
  <2>1. /\ reply \in {"stream", "end"} /\ UNCHANGED <<served, owner, interrupted, completed>>
        /\ reply' \in {"stream", "wait"}
    BY <1>5 DEF StreamWord, EndTurn, ReplyStep, ofReply
  <2>2. served \in 1 .. MaxTurns /\ served \notin done /\ ~Queued(EndJobs) /\ ~InHand(EndJobs)
    BY <1>2, <2>1 DEF BaseInv, BegunInv, Typed, LoopInv, QueueInv
  <2>3. CASE stopped
    <3>1. UNCHANGED jobs
      BY <1>5, <2>3 DEF StreamWord, EndTurn, Admit
    <3>2. QueueInv' /\ PipelineInv' /\ TurnWork' = TurnWork
      BY <1>1, <1>2, <2>1, <2>2, <3>1, SameQueue DEF workVars
    <3>3. done' = done \/ (done' = done \cup {served} /\ reply' = "wait")
      BY <1>5 DEF StreamWord, EndTurn, ReplyStep
    <3>4. LoopInv'
      <4>1. done' \subseteq 1 .. served'
        <5>1. served \in 1 .. served /\ served' = served
          BY <1>2, <2>1, <2>2, BoundsAssumption
        <5>2. done \subseteq 1 .. served
          BY <1>2 DEF LoopInv
        <5> QED
          BY <3>3, <5>1, <5>2
      <4>2. reply' \in {"stream", "end"} => served' \notin done'
        BY <2>1, <2>2, <3>3
      <4> QED
        BY <1>1, <1>2, <2>1, <4>1, <4>2 DEF LoopInv
    <3> QED
      BY <1>1, <1>2, <2>1, <2>2, <2>3, <3>2, <3>4 DEF TurnInv, WorkInv
  <2>4. CASE ~stopped
    <3>1. PICK j \in TurnJobs : /\ jobs' = Append(jobs, j) /\ j.turn = served
                                /\ j \in WordJobs => j.ws = owner
                                /\ j \in EndJobs => reply' = "wait"
      <4>1. CASE StreamWord
        <5>1. Word(spoken + 1) \in WordJobs
          BY <2>1, <2>2, <4>1, BoundsAssumption DEF StreamWord, Word, WordJobs, BaseInv, BegunInv, Typed
        <5>2. Word(spoken + 1).turn = served /\ Word(spoken + 1).ws = owner
          BY DEF Word
        <5> QED
          BY <2>4, <4>1, <5>1, <5>2, Kinds DEF StreamWord, Admit, TurnJobs
      <4>2. CASE EndTurn
        <5>1. End \in EndJobs /\ End.turn = served
          BY <2>2 DEF End, EndJobs
        <5> QED
          BY <2>4, <4>2, <5>1, Kinds DEF EndTurn, Admit, TurnJobs, ReplyStep
      <4> QED
        BY <1>5, <4>1, <4>2
    <3>2. j \in Jobs
      BY DEF TurnJobs, Jobs
    <3>3. QueueInv'
      BY <1>1, <1>2, <2>1, <2>2, <3>1, <3>2, Enqueued DEF workVars
    <3>4. done' = done
      BY <1>5, <2>4 DEF StreamWord, EndTurn
    <3> QED
      BY <1>1, <1>2, <2>1, <2>2, <3>3, <3>4 DEF TurnInv, WorkInv, LoopInv, PipelineInv, synthVars
  <2> QED
    BY <2>3, <2>4
<1> QED
  BY <1>3, <1>4, <1>5 DEF TurnLoop

\* Nobody else queues words or ends.
LEMMA OutsideQueues ==
    ASSUME \/ \E s \in Sayers : AskSay(s)
           \/ \E p \in Pickers : AskVoice(p)
           \/ Environment
           \/ Shutdown
    PROVE  jobs' = jobs \/ \E j \in (Jobs \ TurnJobs) \cup {None} : jobs' = Append(jobs, j)
<1>1. \A s \in Sayers, v \in Voices : [kind |-> "say", who |-> s, voice |-> v] \in SayJobs
  BY DEF SayJobs
<1>2. \A p \in Pickers, v \in Voices : [kind |-> "voice", who |-> p, voice |-> v] \in VoiceJobs
  BY DEF VoiceJobs
<1>3. SayJobs \cup VoiceJobs \subseteq Jobs \ TurnJobs
  BY Kinds DEF TurnJobs
<1> QED
  BY <1>1, <1>2, <1>3 DEF AskSay, AskVoice, Ask, Admit, Environment, Shutdown, BargeInOrDisconnect,
     CloseSocket, StopServing, InterruptSession, StopTts

LEMMA OutsideWords ==
    ASSUME BaseInv,
           \/ \E s \in Sayers : AskSay(s)
           \/ \E p \in Pickers : AskVoice(p)
           \/ Environment
           \/ Shutdown
    PROVE  Queued(WordJobs)' => Queued(WordJobs)
<1>1. CASE jobs' = jobs
  BY <1>1 DEF Queued
<1>2. ASSUME NEW j \in (Jobs \ TurnJobs) \cup {None}, jobs' = Append(jobs, j)
      PROVE  Queued(WordJobs)' => Queued(WordJobs)
  <2>1. j \in Jobs \cup {None} /\ j \notin WordJobs
    BY <1>2, Kinds DEF TurnJobs
  <2>2. \A i \in 1 .. Len(jobs') : (i \in 1 .. Len(jobs) /\ jobs'[i] = jobs[i]) \/ jobs'[i] = j
    BY <1>2, <2>1, AppendOf DEF BaseInv, Typed
  <2> QED
    BY <2>1, <2>2 DEF Queued
<1> QED
  BY <1>1, <1>2, OutsideQueues

LEMMA OutsideTurn ==
    ASSUME BaseInv, TurnInv,
           \/ \E s \in Sayers : AskSay(s)
           \/ \E p \in Pickers : AskVoice(p)
           \/ Environment
           \/ Shutdown
    PROVE  TurnInv'
<1>1. UNCHANGED <<synthVars, workVars>>
  BY OutsideTypes
<1>2. UNCHANGED <<reply, served, owner, completed, done>>
  BY OutsideLeaves
<1>3. /\ stopped' => main' = "stopped"
      /\ stopped => stopped'
      /\ main # "serving" => main' # "serving"
      /\ interrupted => interrupted'
  <2>1. CASE Environment \/ Shutdown
    BY <2>1 DEF Environment, Shutdown, BargeInOrDisconnect, CloseSocket, StopServing,
       InterruptSession, StopTts, Interrupting, TurnInv, LoopInv
  <2>2. CASE (\E s \in Sayers : AskSay(s)) \/ (\E p \in Pickers : AskVoice(p))
    <3>1. UNCHANGED <<stopped, main, interrupted>>
      BY <2>2 DEF AskSay, AskVoice, Ask
    <3> QED
      BY <3>1 DEF TurnInv, LoopInv
  <2> QED
    BY <2>1, <2>2
<1>4. QueueInv /\ PipelineInv /\ WorkInv /\ LoopInv
  BY DEF TurnInv
<1>5. jobs' = jobs \/ \E j \in (Jobs \ TurnJobs) \cup {None} : jobs' = Append(jobs, j)
  BY OutsideQueues
<1>6. QueueInv' /\ PipelineInv' /\ (TurnWork' => TurnWork)
  <2>1. CASE jobs' = jobs
    BY <1>1, <1>2, <1>4, <2>1, SameQueue DEF QueueInv, workVars
  <2>2. ASSUME NEW j \in (Jobs \ TurnJobs) \cup {None}, jobs' = Append(jobs, j)
        PROVE  QueueInv' /\ PipelineInv' /\ (TurnWork' => TurnWork)
    <3>1. j \in Jobs \cup {None} /\ j \notin TurnJobs /\ j \notin WordJobs /\ j \notin EndJobs
      BY <2>2, Kinds DEF TurnJobs
    <3>2. QueueInv' /\ (Queued(TurnJobs)' => Queued(TurnJobs))
      BY <1>1, <1>2, <1>4, <2>2, <3>1, Enqueued DEF QueueInv, workVars
    <3> QED
      BY <1>1, <1>2, <1>4, <3>2 DEF PipelineInv, TurnWork, InHand, Busy, workVars, synthVars
  <2> QED
    BY <1>5, <2>1, <2>2
<1> QED
  BY <1>2, <1>3, <1>4, <1>6 DEF TurnInv, WorkInv, LoopInv, stopping

LEMMA TurnStep == BaseInv /\ TurnInv /\ [Next]_vars => TurnInv'
<1>1. ASSUME TurnInv, UNCHANGED vars
      PROVE  TurnInv'
  <2>1. UNCHANGED <<jobs, worker, job, served, owner, synthVars, reply, done, stopped, main, completed,
                    interrupted>>
    BY <1>1 DEF vars, workVars, replyVars
  <2>2. QueueInv' /\ PipelineInv' /\ TurnWork' = TurnWork
    BY <1>1, <2>1, SameQueue DEF TurnInv, QueueInv
  <2> QED
    BY <1>1, <2>1, <2>2 DEF TurnInv, WorkInv, LoopInv, stopping
<1> QED
  BY <1>1, WorkerTurn, TurnLoopTurn, OutsideTurn DEF Next

LEMMA TurnInit == Init => TurnInv
  BY DEF Init, SynthInit, TurnInv, QueueInv, PipelineInv, WorkInv, LoopInv, TurnWork, Queued, InHand,
     Busy

LEMMA TurnHolds == Spec => [](BaseInv /\ TurnInv)
<1>1. Init => BaseInv /\ TurnInv
  BY BaseInit, TurnInit
<1>2. BaseInv /\ TurnInv /\ [Next]_vars => (BaseInv /\ TurnInv)'
  BY BaseStep, TurnStep
<1> QED
  BY <1>1, <1>2, PTL DEF Spec

\* FramesToTheirOwner, for every number of conversations, sayers and words.
THEOREM FramesReachTheirOwner == Spec => []FramesToTheirOwner
<1>1. BaseInv /\ TurnInv => FramesToTheirOwner
  <2>1. SUFFICES ASSUME BaseInv, TurnInv, worker = "send"
                 PROVE  target = IF Head(pipeline).kind = "word" THEN Head(pipeline).ws
                                 ELSE Head(pipeline).who
    BY DEF FramesToTheirOwner
  <2>2. Framing /\ Looping /\ 1 \in 1 .. Len(pipeline)
    BY <2>1, FirstUnit DEF Framing, Looping
  <2>3. CASE turnOpen
    BY <2>1, <2>2, <2>3, FirstUnit, Kinds DEF TurnInv, PipelineInv
  <2>4. CASE ~turnOpen
    BY <2>1, <2>2, <2>4, FirstUnit, Kinds DEF BaseInv, UnitsInv, Saying
  <2> QED
    BY <2>3, <2>4
<1> QED
  BY <1>1, TurnHolds, PTL

\* AccountedToItsTurn: no frame or word mark counts in another turn's timeline.
THEOREM AccountsAreExact == Spec => []AccountedToItsTurn
<1>1. BaseInv /\ TurnInv => AccountedToItsTurn
  <2>1. SUFFICES ASSUME BaseInv, TurnInv
                 PROVE  AccountedToItsTurn
    OBVIOUS
  <2>2. ASSUME worker = "record"
        PROVE  Head(pipeline).kind = "word" /\ Head(pipeline).turn = served
    <3>1. Framing /\ turnOpen
      BY <2>1, <2>2 DEF Framing, BaseInv, JobInv
    <3>2. Head(pipeline) \in WordJobs /\ Head(pipeline) = pipeline[1] /\ 1 \in 1 .. Len(pipeline)
      BY <2>1, <3>1, FirstUnit
    <3> QED
      BY <2>1, <3>1, <3>2, Kinds DEF TurnInv, PipelineInv
  <2>3. ASSUME worker = "mark"
        PROVE  job.turn = served
    BY <2>1, <2>3 DEF BaseInv, JobInv, TurnInv, QueueInv, InHand, Busy, TurnJobs
  <2> QED
    BY <2>2, <2>3 DEF AccountedToItsTurn
<1> QED
  BY <1>1, TurnHolds, PTL

\* DoneMeansSilent: the words of a turn that is done are neither queued nor in
\* the generator, however many turns there were.
THEOREM DoneIsSilent == Spec => []DoneMeansSilent
<1>1. BaseInv /\ TurnInv => DoneMeansSilent
  <2>1. SUFFICES ASSUME BaseInv, TurnInv, ~stopped, NEW t \in done
                 PROVE  /\ \A i \in 1 .. Len(jobs) :
                              jobs[i] # None /\ jobs[i].kind = "word" => jobs[i].turn # t
                        /\ \A i \in 1 .. Len(pipeline) :
                              pipeline[i].kind = "word" => pipeline[i].turn # t
    BY DEF DoneMeansSilent
  <2>2. served \in done => ~TurnWork
    BY <2>1 DEF TurnInv, WorkInv
  <2>3. ASSUME NEW i \in 1 .. Len(jobs), jobs[i] # None, jobs[i].kind = "word"
        PROVE  jobs[i].turn # t
    <3>1. jobs[i] \in WordJobs
      BY <2>1, <2>3, Kinds DEF BaseInv, Typed
    <3> QED
      BY <2>1, <2>2, <3>1 DEF TurnWork, Queued, TurnInv, QueueInv, TurnJobs
  <2>4. ASSUME NEW i \in 1 .. Len(pipeline), pipeline[i].kind = "word"
        PROVE  pipeline[i].turn # t
    <3>1. CASE turnOpen
      BY <2>1, <2>2, <3>1 DEF TurnWork, TurnInv, PipelineInv
    <3>2. CASE ~turnOpen
      BY <2>1, <2>4, <3>2, Kinds DEF BaseInv, UnitsInv, JobInv, Looping, Saying, InSpeak, InDrain,
         Framing
    <3> QED
      BY <3>1, <3>2
  <2> QED
    BY <2>3, <2>4
<1> QED
  BY <1>1, TurnHolds, PTL

-----------------------------------------------------------------------------
\* The late frame.  Once it was sent, no other is about to be: the interruption
\* stands until the turn is done, and a turn that is done is silent.

LateInv ==
    ~stopping /\ late > 0 =>
        late = 1 /\ (served \in done \/ (interrupted /\ ~(worker = "send" /\ conversationAudio)))

LEMMA WorkerLate ==
    ASSUME BaseInv, TurnInv, LateInv, Worker
    PROVE  LateInv'
<1>1. UNCHANGED <<interrupted, main, served>> /\ done \subseteq done'
  BY WorkerLeaves, WorkerDone DEF TurnInv
<1>2. CASE SendFrame
  <2>1. worker = "send" /\ worker' # "send"
    BY <1>2 DEF SendFrame, Midway, WorkerStep, BaseInv, Typed
  <2>2. CASE conversationAudio /\ interrupted
    <3>1. turnOpen
      BY <2>1, <2>2 DEF BaseInv, UnitsInv, Saying, Looping, Framing
    <3>2. ~stopping => served \notin done
      BY <3>1 DEF TurnInv, WorkInv, TurnWork, LoopInv, stopping
    <3>3. late' = late + 1 /\ late \in Nat
      BY <1>2, <2>2 DEF SendFrame, BaseInv, Typed
    <3> QED
      BY <1>1, <2>1, <2>2, <3>2, <3>3 DEF LateInv, stopping
  <2>3. CASE ~(conversationAudio /\ interrupted)
    BY <1>1, <1>2, <2>1, <2>3 DEF SendFrame, LateInv, stopping
  <2> QED
    BY <2>2, <2>3
<1>3. CASE KeepFrame
  BY <1>1, <1>3 DEF KeepFrame, LateInv, stopping, synthVars, accounts
<1>4. CASE ~(SendFrame \/ KeepFrame)
  <2>1. late' = late /\ worker' # "send"
    BY <1>4 DEF Worker, TakeSentinel, DropWord, SpeakWord, FailToOpen, CloseUnopened,
       CloseInterrupted, CloseByDraining, Closing, SetConversationVoice, RefuseConversationVoice,
       Taking, BeginSay, FailSay, DieInSay, Pump, Pumped, Drain, Drained, StepGenerator, Ended,
       DropFrame, Dropping, WordRaises, CloseRaises, SayRaises, Raised, RecordEmission, MarkSpoken,
       SignalDone, accounts, Midway, WorkerStep, AfterClose, BaseInv, Typed
  <2> QED
    BY <1>1, <2>1 DEF LateInv, stopping
<1> QED
  BY <1>2, <1>3, <1>4

LEMMA LateStep == BaseInv /\ TurnInv /\ LateInv /\ [Next]_vars => LateInv'
<1>1. ASSUME BaseInv, TurnInv, LateInv, TurnLoop
      PROVE  LateInv'
  <2>1. UNCHANGED <<worker, conversationAudio, main>>
    BY <1>1, TurnLoopLeaves DEF workVars, synthVars
  <2>2. CASE \E c \in Conns : BeginTurn(c)
    BY <2>2 DEF BeginTurn, LateInv
  <2>3. CASE FinishTurn
    <3>1. served \in done \/ stopping
      BY <1>1, <2>3 DEF FinishTurn, ReplyStep, TurnInv, LoopInv
    <3> QED
      BY <1>1, <2>1, <2>3, <3>1 DEF FinishTurn, LateInv, stopping
  <2>4. CASE ~(FinishTurn \/ \E c \in Conns : BeginTurn(c))
    <3>1. UNCHANGED <<interrupted, late, served>> /\ done \subseteq done'
      BY <1>1, <2>4 DEF TurnLoop, CheckStopping, StreamWord, StreamEnds, EndTurn, WaitCutShort,
         WaitLooks, WaitDrained, WaitAgain, Recheck, WaitForCleanup, Go, WaitReturns, ofReply
    <3> QED
      BY <1>1, <2>1, <3>1 DEF LateInv, stopping
  <2> QED
    BY <2>2, <2>3, <2>4
<1>2. ASSUME BaseInv, TurnInv, LateInv,
             \/ \E s \in Sayers : AskSay(s)
             \/ \E p \in Pickers : AskVoice(p)
             \/ Environment
             \/ Shutdown
      PROVE  LateInv'
  <2>1. UNCHANGED <<synthVars, workVars>>
    BY <1>2, OutsideTypes
  <2>2. UNCHANGED <<late, served, done>> /\ (main # "serving" => main' # "serving")
        /\ (interrupted => interrupted')
    BY <1>2, OutsideLeaves
  <2> QED
    BY <1>2, <2>1, <2>2 DEF LateInv, stopping, synthVars, workVars
<1>3. ASSUME LateInv, UNCHANGED vars
      PROVE  LateInv'
  BY <1>3 DEF LateInv, stopping, vars, synthVars, workVars, replyVars, ghostVars
<1> QED
  BY <1>1, <1>2, <1>3, WorkerLate DEF Next

\* OneLateFrameAtMost, however long the reply and whoever interrupts it.
THEOREM OneLateFrame == Spec => []OneLateFrameAtMost
<1>1. Init => LateInv
  BY DEF Init, LateInv
<1>2. BaseInv /\ TurnInv /\ LateInv => OneLateFrameAtMost
  BY DEF LateInv, OneLateFrameAtMost, BaseInv, Typed
<1> QED
  BY <1>1, <1>2, TurnHolds, LateStep, PTL DEF Spec

-----------------------------------------------------------------------------
\* A turn is opened once, unless a /say closes it in its midst: whatever else
\* closed or broke it either refuses its words or has its end in hand, with no
\* word behind it.

OnceOpenInv ==
    /\ OneVoicePerTurn
    /\ broken \subseteq 1 .. served
    /\ BrokenStaysClosed
    /\ turnOpen /\ InHand(SayJobs) => split
    /\ ~turnOpen /\ ~turnFailed /\ ~split /\ (voicesUsed # {} \/ served \in broken) =>
          reply \notin {"stream", "end"} /\ ~Queued(WordJobs)

\* A /say that finds the turn open has split it.
LEMMA WorkerSplits ==
    ASSUME BaseInv, OnceOpenInv, Worker
    PROVE  (split => split') /\ (turnOpen' /\ InHand(SayJobs)' => split')
<1>1. split \in BOOLEAN /\ turnOpen \in BOOLEAN
  BY DEF BaseInv, Typed
<1>2. CASE TakeSentinel
  BY <1>2 DEF TakeSentinel, WorkerStep, InHand, Busy
<1>3. ASSUME NEW kind \in {"word", "voice"}, NEW to \in WorkerStates, Taking(kind, to)
      PROVE  (split => split') /\ ~InHand(SayJobs)'
  BY <1>1, <1>3, TakingJobs, Kinds DEF Taking, InHand
<1>4. CASE DropWord \/ SpeakWord \/ FailToOpen \/ SetConversationVoice \/ RefuseConversationVoice
  <2>1. PICK kind \in {"word", "voice"}, to \in {"get", "speak"} : Taking(kind, to)
    BY <1>4 DEF DropWord, SpeakWord, FailToOpen, SetConversationVoice, RefuseConversationVoice
  <2> QED
    BY <1>3, <2>1 DEF WorkerStates
<1>5. CASE \E kind \in {"end", "say"} :
             CloseUnopened(kind) \/ CloseInterrupted(kind) \/ CloseByDraining(kind)
  <2>1. PICK kind \in {"end", "say"} :
               CloseUnopened(kind) \/ CloseInterrupted(kind) \/ CloseByDraining(kind)
    BY <1>5
  <2>2. PICK to \in {"signal", "say", "drain"} : Taking(kind, to)
    BY <2>1 DEF CloseUnopened, CloseInterrupted, CloseByDraining, Closing, AfterClose
  <2>3. split' = (split \/ (kind = "say" /\ (turnOpen \/ turnFailed)))
    BY <2>2 DEF Taking
  <2>4. turnOpen' => turnOpen
    BY <1>1, <2>1 DEF CloseUnopened, CloseInterrupted, CloseByDraining, ForgetTurn, turnFlags
  <2>5. kind = "end" => ~InHand(SayJobs)'
    BY <2>2, TakingJobs, Kinds DEF InHand, WorkerStates
  <2> QED
    BY <1>1, <2>3, <2>4, <2>5
<1>6. ASSUME Busy, UNCHANGED <<job, split>>, turnOpen' => turnOpen
      PROVE  (split => split') /\ (turnOpen' /\ InHand(SayJobs)' => split')
  BY <1>6 DEF OnceOpenInv, InHand
<1>7. CASE \/ BeginSay \/ FailSay \/ DieInSay
           \/ Pump \/ Pumped \/ Drain \/ Drained
           \/ DropFrame \/ KeepFrame \/ SendFrame \/ WordRaises \/ CloseRaises \/ SayRaises
           \/ RecordEmission \/ MarkSpoken \/ SignalDone
  <2>1. Busy /\ UNCHANGED <<job, split>>
    BY <1>7 DEF BeginSay, FailSay, DieInSay, Pump, Pumped, Drain, Drained, StepGenerator, Ended,
       DropFrame, Dropping, KeepFrame, SendFrame, WordRaises, CloseRaises, SayRaises, Raised,
       RecordEmission, MarkSpoken, SignalDone, Midway, WorkerStep, Busy
  <2>2. turnOpen' => turnOpen
    BY <1>7 DEF BeginSay, FailSay, DieInSay, Pump, Pumped, Drain, Drained, StepGenerator, Ended,
       DropFrame, Dropping, KeepFrame, SendFrame, WordRaises, CloseRaises, SayRaises, Raised,
       RecordEmission, MarkSpoken, SignalDone, ForgetTurn, AbandonTurn, turnFlags, synthVars
  <2> QED
    BY <1>6, <2>1, <2>2
<1> QED
  BY <1>2, <1>4, <1>5, <1>7 DEF Worker

LEMMA WorkerOnce ==
    ASSUME BaseInv, TurnInv, OnceOpenInv, Worker
    PROVE  OnceOpenInv'
<1> USE DEF Midway, WorkerStep
<1>1. UNCHANGED <<reply, served>>
  BY WorkerLeaves
<1>2. QueueInv /\ QueueInv' /\ (Queued(WordJobs)' => Queued(WordJobs))
  BY WorkerQueue, WorkerTakes DEF TurnInv, Takes, GoesOn, Queued
<1>3. (split => split') /\ (turnOpen' /\ InHand(SayJobs)' => split')
  BY WorkerSplits
<1>4. WordJobs \subseteq TurnJobs /\ turnOpen \in BOOLEAN /\ turnFailed \in BOOLEAN
      /\ split \in BOOLEAN
  BY DEF TurnJobs, BaseInv, Typed
<1>5. CASE UNCHANGED <<turnOpen, turnFailed, broken, voicesUsed>>
  BY <1>1, <1>2, <1>3, <1>5 DEF OnceOpenInv, OneVoicePerTurn, BrokenStaysClosed
<1>6. ASSUME turnOpen' = FALSE, InHand(EndJobs)' \/ (InHand(EndJobs) /\ UNCHANGED jobs),
             UNCHANGED voicesUsed, broken' \subseteq 1 .. served
      PROVE  OnceOpenInv'
  <2>1. reply \notin {"stream", "end"} /\ ~Queued(TurnJobs)'
    BY <1>1, <1>2, <1>6 DEF QueueInv, Queued
  <2> QED
    BY <1>1, <1>3, <1>4, <1>6, <2>1 DEF OnceOpenInv, OneVoicePerTurn, BrokenStaysClosed, Queued
<1>7. ASSUME turnOpen' = FALSE, turnFailed' = TRUE, UNCHANGED voicesUsed, broken' \subseteq 1 .. served
      PROVE  OnceOpenInv'
  BY <1>1, <1>3, <1>7 DEF OnceOpenInv, OneVoicePerTurn, BrokenStaysClosed
<1>7a. ASSUME split', broken' \subseteq 1 .. served
      PROVE  OnceOpenInv'
  BY <1>1, <1>3, <1>7a DEF OnceOpenInv, OneVoicePerTurn, BrokenStaysClosed
<1>8. CASE \/ TakeSentinel \/ DropWord \/ SetConversationVoice \/ RefuseConversationVoice
           \/ (\E kind \in {"end", "say"} : CloseByDraining(kind))
           \/ Pump \/ Pumped \/ Drain \/ DropFrame \/ KeepFrame \/ SendFrame \/ RecordEmission
           \/ MarkSpoken \/ SignalDone
  BY <1>5, <1>8 DEF TakeSentinel, DropWord, SetConversationVoice, RefuseConversationVoice,
     CloseByDraining, Closing, Pump, Pumped, Drain, StepGenerator, DropFrame, Dropping, KeepFrame,
     SendFrame, RecordEmission, MarkSpoken, SignalDone, synthVars, turnFlags, accounts
<1>9. CASE \E kind \in {"end", "say"} : CloseUnopened(kind) \/ CloseInterrupted(kind)
  <2>1. PICK kind \in {"end", "say"} : CloseUnopened(kind) \/ CloseInterrupted(kind)
    BY <1>9
  <2>2. Taking(kind, AfterClose(kind)) /\ AfterClose(kind) \in WorkerStates
    BY <2>1 DEF CloseUnopened, CloseInterrupted, Closing, AfterClose, WorkerStates
  <2>3. turnOpen' = FALSE /\ UNCHANGED <<broken, voicesUsed>>
    BY <1>4, <2>1 DEF CloseUnopened, CloseInterrupted, Closing, ForgetTurn
  <2>4. CASE kind = "end"
    <3>1. job' \in EndJobs /\ worker' = "signal"
      BY <2>2, <2>4, TakingJobs DEF Taking, AfterClose
    <3> QED
      BY <1>6, <2>3, <3>1 DEF InHand, Busy, OnceOpenInv
  <2>5. CASE kind = "say" /\ (turnOpen \/ turnFailed)
    BY <1>7a, <2>2, <2>3, <2>5 DEF Taking, OnceOpenInv
  <2>6. CASE ~turnOpen /\ ~turnFailed
    BY <1>4, <1>5, <2>1, <2>3, <2>6 DEF CloseUnopened, CloseInterrupted
  <2> QED
    BY <1>4, <2>4, <2>5, <2>6
<1>10. CASE (Drained /\ turnOpen) \/ CloseRaises
  <2>1. turnOpen /\ Looping /\ InHand(EndJobs \cup SayJobs) /\ UNCHANGED jobs
    <3>1. Looping /\ Busy /\ UNCHANGED jobs
      BY <1>10 DEF Drained, Ended, CloseRaises, Raised, Looping, Framing, Busy
    <3>2. CASE Drained
      BY <1>10, <3>1, <3>2 DEF Drained, Ended, Framing, CloseRaises, BaseInv, JobInv, InSpeak, InHand
    <3>3. CASE CloseRaises
      BY <3>1, <3>3, Kinds DEF CloseRaises, BaseInv, JobInv, InHand
    <3> QED
      BY <1>10, <3>1, <3>2, <3>3
  <2>2. turnOpen' = FALSE /\ UNCHANGED voicesUsed
    BY <1>10, <2>1 DEF Drained, Ended, CloseRaises, Raised, ForgetTurn
  <2>3. broken' \subseteq 1 .. served
    <3>1. CASE Drained
      BY <3>1 DEF Drained, Ended, accounts, OnceOpenInv
    <3>2. CASE CloseRaises
      <4>1. Framing /\ 1 \in 1 .. Len(pipeline) /\ Head(pipeline) = pipeline[1]
        BY <3>2, FirstUnit DEF CloseRaises, Raised, Framing
      <4>2. Head(pipeline).turn = served /\ served \in 1 .. served
        BY <2>1, <4>1 DEF TurnInv, PipelineInv, WorkInv, TurnWork, BaseInv, Typed
      <4> QED
        BY <3>2, <4>2 DEF CloseRaises, OnceOpenInv
    <3> QED
      BY <1>10, <3>1, <3>2
  <2>4. CASE InHand(EndJobs)
    BY <1>6, <2>1, <2>2, <2>3, <2>4
  <2>5. CASE InHand(SayJobs)
    BY <1>3, <1>7a, <2>1, <2>3, <2>5 DEF OnceOpenInv
  <2> QED
    BY <2>1, <2>4, <2>5 DEF InHand
<1>11. CASE FailToOpen
  <2>1. Taking("word", "get") /\ "get" \in WorkerStates
    BY <1>11 DEF FailToOpen, WorkerStates
  <2>2. job' \in WordJobs /\ job' = jobs[1] /\ 1 \in 1 .. Len(jobs)
    BY <2>1, TakingJobs, TakenJob DEF BaseInv
  <2>3. job'.turn = served /\ served \in 1 .. served
    BY <1>2, <1>4, <2>2 DEF QueueInv, TurnInv, WorkInv, TurnWork, Queued, BaseInv, Typed
  <2> QED
    BY <1>7, <1>11, <2>3 DEF FailToOpen, AbandonTurn, OnceOpenInv
<1>12. CASE WordRaises
  <2>1. Framing /\ turnOpen
    BY <1>12, Kinds DEF WordRaises, Raised, Framing, Looping, BaseInv, JobInv
  <2>2. 1 \in 1 .. Len(pipeline) /\ Head(pipeline) = pipeline[1]
    BY <2>1, FirstUnit
  <2>3. Head(pipeline).turn = served /\ served \in 1 .. served
    BY <2>1, <2>2 DEF TurnInv, PipelineInv, WorkInv, TurnWork, BaseInv, Typed
  <2> QED
    BY <1>7, <1>12, <2>3 DEF WordRaises, Raised, AbandonTurn, OnceOpenInv
<1>13. CASE SpeakWord
  <2>1. CASE turnOpen
    BY <1>5, <1>13, <2>1 DEF SpeakWord, turnFlags
  <2>2. CASE ~turnOpen
    <3>1. Taking("word", "speak") /\ "speak" \in WorkerStates
      BY <1>13 DEF SpeakWord, WorkerStates
    <3>2. Queued(WordJobs)
      BY <3>1, TakingJobs, TakenJob DEF BaseInv, Queued
    <3>3. split \/ (voicesUsed = {} /\ served \notin broken)
      BY <1>13, <2>2, <3>2 DEF SpeakWord, OnceOpenInv
    <3>4. turnOpen' = TRUE /\ voicesUsed' = voicesUsed \cup {conversationVoice} /\ UNCHANGED broken
      BY <1>13, <2>2 DEF SpeakWord, OpenTurn
    <3> QED
      BY <1>1, <1>3, <3>3, <3>4 DEF OnceOpenInv, OneVoicePerTurn, BrokenStaysClosed
  <2> QED
    BY <2>1, <2>2
<1>14. CASE BeginSay \/ FailSay \/ DieInSay \/ SayRaises \/ (Drained /\ ~turnOpen)
  BY <1>5, <1>14 DEF BeginSay, FailSay, DieInSay, SayRaises, Raised, Drained, Ended, accounts
<1> QED
  BY <1>8, <1>9, <1>10, <1>11, <1>12, <1>13, <1>14 DEF Worker

\* The turn loop puts words only where they may still be spoken.
LEMMA TurnLoopOnce ==
    ASSUME BaseInv, TurnInv, OnceOpenInv, TurnLoop
    PROVE  OnceOpenInv'
<1>1. UNCHANGED <<turnOpen, turnFailed, broken>>
  BY TurnLoopLeaves DEF synthVars
<1>2. CASE \E c \in Conns : BeginTurn(c)
  <2>1. served' = served + 1 /\ served \in Nat /\ voicesUsed' = {} /\ ~TurnWork
    BY <1>2 DEF BeginTurn, ReplyStep, TurnInv, WorkInv, BaseInv, Typed
  <2>2. served' \notin broken /\ broken \subseteq 1 .. served'
    BY <2>1 DEF OnceOpenInv
  <2> QED
    BY <1>1, <2>1, <2>2 DEF OnceOpenInv, OneVoicePerTurn, BrokenStaysClosed, TurnWork
<1>3. CASE StreamWord
  <2>1. reply = "stream" /\ UNCHANGED <<worker, job, voicesUsed, split, served>>
    BY <1>3 DEF StreamWord, ReplyStep, ofReply, workVars
  <2> QED
    BY <1>1, <2>1 DEF OnceOpenInv, OneVoicePerTurn, BrokenStaysClosed, InHand, Busy
<1>4. CASE EndTurn
  <2>1. reply = "end" /\ UNCHANGED <<worker, job, voicesUsed, split, served>>
    BY <1>4 DEF EndTurn, ReplyStep, ofReply, workVars
  <2> QED
    BY <1>1, <2>1 DEF OnceOpenInv, OneVoicePerTurn, BrokenStaysClosed, InHand, Busy
<1>5. CASE \/ CheckStopping \/ StreamEnds \/ WaitLooks \/ WaitAgain \/ Recheck \/ WaitForCleanup
           \/ WaitCutShort \/ WaitDrained \/ FinishTurn
  <2>1. UNCHANGED <<worker, job, jobs, served, voicesUsed, split>>
    BY <1>5 DEF CheckStopping, StreamEnds, WaitLooks, WaitAgain, Recheck, WaitForCleanup,
       WaitCutShort, WaitDrained, FinishTurn, Go, WaitReturns, ReplyStep, ofReply, workVars
  <2>2. reply' \in {"stream", "end"} => reply \in {"stream", "end"}
    BY <1>5 DEF CheckStopping, StreamEnds, WaitLooks, WaitAgain, Recheck, WaitForCleanup,
       WaitCutShort, WaitDrained, FinishTurn, Go, WaitReturns, ReplyStep
  <2> QED
    BY <1>1, <2>1, <2>2 DEF OnceOpenInv, OneVoicePerTurn, BrokenStaysClosed, InHand, Busy, Queued
<1> QED
  BY <1>2, <1>3, <1>4, <1>5 DEF TurnLoop

LEMMA OnceStep == BaseInv /\ TurnInv /\ OnceOpenInv /\ [Next]_vars => OnceOpenInv'
<1>1. ASSUME BaseInv, TurnInv, OnceOpenInv,
             \/ \E s \in Sayers : AskSay(s)
             \/ \E p \in Pickers : AskVoice(p)
             \/ Environment
             \/ Shutdown
      PROVE  OnceOpenInv'
  <2>1. UNCHANGED <<turnOpen, turnFailed, worker, job, broken, reply, served, voicesUsed, split>>
    BY <1>1, OutsideTypes, OutsideLeaves DEF synthVars, workVars
  <2>2. Queued(WordJobs)' => Queued(WordJobs)
    BY <1>1, OutsideWords
  <2> QED
    BY <1>1, <2>1, <2>2 DEF OnceOpenInv, OneVoicePerTurn, BrokenStaysClosed, InHand, Busy
<1>2. ASSUME OnceOpenInv, UNCHANGED vars
      PROVE  OnceOpenInv'
  BY <1>2 DEF OnceOpenInv, OneVoicePerTurn, BrokenStaysClosed, InHand, Busy, Queued, vars,
     synthVars, workVars, replyVars, ghostVars
<1> QED
  BY <1>1, <1>2, WorkerOnce, TurnLoopOnce DEF Next

LEMMA OnceHolds == Spec => []OnceOpenInv
<1>1. Init => OnceOpenInv
  BY DEF Init, SynthInit, OnceOpenInv, OneVoicePerTurn, BrokenStaysClosed
<1>2. BaseInv /\ TurnInv /\ OnceOpenInv /\ [Next]_vars => OnceOpenInv'
  BY OnceStep
<1> QED
  BY <1>1, <1>2, TurnHolds, PTL DEF Spec

\* BrokenStaysClosed: "Drop a broken conversation destination until its EndOfTurn
\* arrives" (tts.py:374), unless a /say in between clears turn_failed (tts.py:394,
\* tts.py:410).
THEOREM BrokenIsNotReopened == Spec => []BrokenStaysClosed
<1>1. OnceOpenInv => BrokenStaysClosed
  BY DEF OnceOpenInv
<1> QED
  BY <1>1, OnceHolds, PTL

\* OneVoicePerTurn: a selection made while a turn is spoken waits for the next
\* one, however many are made, unless a /say closes the turn in its midst and its
\* rest is opened again in the voice then selected (tts.py:434).
THEOREM OneVoice == Spec => []OneVoicePerTurn
<1>1. OnceOpenInv => OneVoicePerTurn
  BY DEF OnceOpenInv
<1> QED
  BY <1>1, OnceHolds, PTL

-----------------------------------------------------------------------------
\* The words of a turn are numbered, and pass the queue and the generator in
\* order: every emission is behind all of them.

NumberInv ==
    /\ emitted <= spoken
    /\ \A i \in 1 .. Len(jobs) :
          jobs[i] \in WordJobs => emitted < jobs[i].n /\ jobs[i].n <= spoken
    /\ \A i, k \in 1 .. Len(jobs) :
          i < k /\ jobs[i] \in WordJobs /\ jobs[k] \in WordJobs => jobs[i].n < jobs[k].n
    /\ turnOpen =>
          /\ \A i \in 1 .. Len(pipeline) : emitted < pipeline[i].n /\ pipeline[i].n <= spoken
          /\ \A i, k \in 1 .. Len(pipeline) : i < k => pipeline[i].n < pipeline[k].n
          /\ \A i \in 1 .. Len(pipeline), k \in 1 .. Len(jobs) :
                jobs[k] \in WordJobs => pipeline[i].n < jobs[k].n

\* What the worker may do to the words in the generator: close the turn, leave
\* them, let the first one out, or put one more in.
ForgetsUnits == turnOpen' = FALSE /\ UNCHANGED emitted
LeavesUnits  == turnOpen /\ UNCHANGED <<turnOpen, pipeline, emitted>>
EmitsUnit    == /\ turnOpen /\ UNCHANGED <<turnOpen, jobs>>
                /\ Framing /\ pipeline' = Tail(pipeline)
                /\ emitted' \in {emitted, emitted + 1}
EntersUnit   == /\ Takes /\ job' \in WordJobs /\ job' = jobs[1]
                /\ turnOpen' = TRUE /\ UNCHANGED emitted
                /\ pipeline' = IF turnOpen THEN Append(pipeline, job') ELSE <<job'>>

\* It does one of the four.
LEMMA WorkerUnits ==
    ASSUME BaseInv, Worker
    PROVE  ForgetsUnits \/ LeavesUnits \/ EmitsUnit \/ EntersUnit
<1> USE DEF Midway, WorkerStep
<1>1. pipeline \in Seq(Units) /\ turnOpen \in BOOLEAN
  BY DEF BaseInv, Typed, Units
<1>2. CASE \/ TakeSentinel \/ DropWord \/ SetConversationVoice \/ RefuseConversationVoice
           \/ (\E kind \in {"end", "say"} : CloseByDraining(kind))
           \/ Pump \/ Pumped \/ Drain \/ KeepFrame \/ MarkSpoken \/ SignalDone
  <2>1. UNCHANGED <<turnOpen, pipeline, emitted>>
    BY <1>2 DEF TakeSentinel, DropWord, SetConversationVoice, RefuseConversationVoice, Taking,
       CloseByDraining, Closing, Pump, Pumped, Drain, StepGenerator, KeepFrame, MarkSpoken,
       SignalDone, synthVars, turnFlags, accounts, trackVars
  <2> QED
    BY <1>1, <2>1 DEF ForgetsUnits, LeavesUnits
<1>3. CASE \/ (\E kind \in {"end", "say"} : CloseUnopened(kind) \/ CloseInterrupted(kind))
           \/ CloseRaises \/ FailToOpen \/ WordRaises
  BY <1>1, <1>3 DEF ForgetsUnits, CloseUnopened, CloseInterrupted, CloseRaises, Closing, Taking, Raised,
     FailToOpen, WordRaises, AbandonTurn, ForgetTurn, trackVars
<1>4. CASE BeginSay \/ FailSay \/ DieInSay \/ SayRaises
  <2>1. turnOpen' = FALSE
    BY <1>1, <1>4 DEF BeginSay, FailSay, DieInSay, SayRaises, BaseInv, JobInv
  <2> QED
    BY <1>4, <2>1 DEF ForgetsUnits, BeginSay, FailSay, DieInSay, SayRaises, Raised, accounts, trackVars
<1>5. CASE Drained
  BY <1>1, <1>5 DEF ForgetsUnits, Drained, Ended, ForgetTurn, accounts, trackVars
<1>6. CASE DropFrame \/ SendFrame \/ RecordEmission
  <2>1. /\ Framing /\ UNCHANGED <<turnOpen, jobs>>
        /\ emitted' = emitted \/ (emitted' = emitted + 1 /\ turnOpen)
        /\ (pipeline' = pipeline /\ UNCHANGED emitted) \/ pipeline' = Tail(pipeline)
    BY <1>6 DEF DropFrame, Dropping, SendFrame, RecordEmission, Framing, turnFlags, accounts,
       trackVars, BaseInv, JobInv
  <2> QED
    BY <1>1, <2>1 DEF ForgetsUnits, LeavesUnits, EmitsUnit
<1>7. CASE SpeakWord
  <2>1. Taking("word", "speak") /\ "speak" \in WorkerStates
    BY <1>7 DEF SpeakWord, WorkerStates
  <2>2. job' \in WordJobs /\ job' = jobs[1] /\ worker' = "speak" /\ job' \in Units
    BY <2>1, TakingJobs, TakenJob DEF BaseInv, Units
  <2>3. Takes /\ UNCHANGED emitted
    BY <1>7, <2>1, <2>2, WorkerTakes DEF Taking, trackVars, GoesOn, Busy, Worker
  <2>4. turnOpen' = TRUE /\ pipeline' = IF turnOpen THEN Append(pipeline, job') ELSE <<job'>>
    <3>1. CASE turnOpen
      BY <1>1, <1>7, <2>2, <3>1, OneUnit DEF SpeakWord, SpeakIn, turnFlags
    <3>2. CASE ~turnOpen
      <4>1. pipeline = <<>>
        BY <1>7, <3>2 DEF BaseInv, UnitsInv, Looping, Framing, SpeakWord, Taking
      <4> QED
        BY <1>7, <3>2, <4>1 DEF SpeakWord, SpeakIn, OpenTurn
    <3> QED
      BY <3>1, <3>2
  <2> QED
    BY <2>2, <2>3, <2>4 DEF EntersUnit
<1> QED
  BY <1>2, <1>3, <1>4, <1>5, <1>6, <1>7 DEF Worker

LEMMA WordNumbers ==
    ASSUME BaseInv
    PROVE  /\ \A j \in WordJobs : j.n \in Nat
           /\ emitted \in Nat /\ spoken \in Nat
           /\ turnOpen => \A i \in 1 .. Len(pipeline) : pipeline[i] \in WordJobs
           /\ pipeline \in Seq(Units) /\ jobs \in Seq(Jobs \cup {None})
           /\ Len(pipeline) \in Nat /\ Len(jobs) \in Nat
<1>1. \A j \in WordJobs : j.n \in Nat
  BY Kinds, BoundsAssumption
<1>2. /\ emitted \in Nat /\ spoken \in Nat
      /\ turnOpen => \A i \in 1 .. Len(pipeline) : pipeline[i] \in WordJobs
      /\ pipeline \in Seq(Units) /\ jobs \in Seq(Jobs \cup {None})
  BY BoundsAssumption DEF BaseInv, Typed, UnitsInv, Units
<1> QED
  BY <1>1, <1>2

LEMMA WorkerNumbers ==
    ASSUME BaseInv, NumberInv, Worker
    PROVE  NumberInv'
<1> USE WordNumbers
<1>1. UNCHANGED spoken
  BY WorkerLeaves
<1>2. \A i \in 1 .. Len(jobs') :
         \/ Takes /\ i + 1 \in 1 .. Len(jobs) /\ jobs'[i] = jobs[i + 1]
         \/ GoesOn /\ i \in 1 .. Len(jobs) /\ jobs'[i] = jobs[i]
  BY WorkerTakes DEF Takes, GoesOn
<1>3. \A i \in 1 .. Len(jobs') : \E k \in 1 .. Len(jobs) : jobs'[i] = jobs[k]
  BY <1>2
<1>4. \A i, k \in 1 .. Len(jobs') :
         i < k /\ jobs'[i] \in WordJobs /\ jobs'[k] \in WordJobs => jobs'[i].n < jobs'[k].n
  <2>1. TAKE i, k \in 1 .. Len(jobs')
  <2>2. CASE Takes
    <3>1. /\ i + 1 \in 1 .. Len(jobs) /\ jobs'[i] = jobs[i + 1]
          /\ k + 1 \in 1 .. Len(jobs) /\ jobs'[k] = jobs[k + 1]
          /\ i < k => i + 1 < k + 1
      BY <2>2 DEF Takes
    <3> QED
      BY <3>1 DEF NumberInv
  <2>3. CASE GoesOn
    BY <2>3 DEF GoesOn, NumberInv
  <2> QED
    BY <2>2, <2>3, WorkerTakes
<1>5. /\ \A i \in 1 .. Len(jobs) :
            jobs[i] \in WordJobs => emitted < jobs[i].n /\ jobs[i].n <= spoken
      /\ \A i, k \in 1 .. Len(jobs) :
            i < k /\ jobs[i] \in WordJobs /\ jobs[k] \in WordJobs => jobs[i].n < jobs[k].n
      /\ emitted <= spoken
  BY DEF NumberInv
<1>6. ASSUME UNCHANGED emitted
      PROVE  emitted' <= spoken'
             /\ \A i \in 1 .. Len(jobs') :
                   jobs'[i] \in WordJobs => emitted' < jobs'[i].n /\ jobs'[i].n <= spoken'
  BY <1>1, <1>3, <1>5, <1>6
<1>7. CASE ForgetsUnits
  BY <1>4, <1>6, <1>7 DEF ForgetsUnits, NumberInv
<1>8. ASSUME turnOpen
      PROVE  /\ \A i \in 1 .. Len(pipeline) : emitted < pipeline[i].n /\ pipeline[i].n <= spoken
             /\ \A i, k \in 1 .. Len(pipeline) : i < k => pipeline[i].n < pipeline[k].n
             /\ \A i \in 1 .. Len(pipeline), k \in 1 .. Len(jobs) :
                   jobs[k] \in WordJobs => pipeline[i].n < jobs[k].n
  BY <1>8 DEF NumberInv
<1>9. CASE LeavesUnits
  <2>1. turnOpen /\ UNCHANGED <<pipeline, emitted>>
    BY <1>9 DEF LeavesUnits
  <2>2. \A i \in 1 .. Len(pipeline'), k \in 1 .. Len(jobs') :
           jobs'[k] \in WordJobs => pipeline'[i].n < jobs'[k].n
    BY <1>3, <1>8, <2>1
  <2> QED
    BY <1>1, <1>4, <1>6, <1>8, <2>1, <2>2 DEF NumberInv
<1>10. CASE EmitsUnit
  <2>1. /\ turnOpen /\ UNCHANGED jobs /\ emitted' \in {emitted, emitted + 1}
        /\ Len(pipeline) \in Nat \ {0} /\ Len(pipeline') = Len(pipeline) - 1
        /\ \A i \in 1 .. Len(pipeline') : i + 1 \in 1 .. Len(pipeline)
                                          /\ pipeline'[i] = pipeline[i + 1]
        /\ 1 \in 1 .. Len(pipeline)
    BY <1>10, FirstUnit DEF EmitsUnit
  <2>2. /\ emitted < pipeline[1].n /\ pipeline[1].n <= spoken /\ pipeline[1].n \in Nat
        /\ \A k \in 1 .. Len(jobs) : jobs[k] \in WordJobs => pipeline[1].n < jobs[k].n
        /\ \A i \in 1 .. Len(pipeline) : 1 < i => pipeline[1].n < pipeline[i].n
    BY <1>8, <2>1
  <2>3. emitted' <= pipeline[1].n /\ emitted' \in Nat
    BY <2>1, <2>2
  <2>4. emitted' <= spoken'
    BY <1>1, <2>2, <2>3
  <2>5. \A i \in 1 .. Len(jobs') : jobs'[i] \in WordJobs => emitted' < jobs'[i].n /\ jobs'[i].n <= spoken'
    BY <1>1, <1>5, <2>1, <2>2, <2>3
  <2>6. \A i \in 1 .. Len(pipeline') : emitted' < pipeline'[i].n /\ pipeline'[i].n <= spoken'
    <3>1. TAKE i \in 1 .. Len(pipeline')
    <3>2. i + 1 \in 1 .. Len(pipeline) /\ pipeline'[i] = pipeline[i + 1] /\ 1 < i + 1
          /\ pipeline[i + 1].n \in Nat
      BY <2>1
    <3>3. pipeline[1].n < pipeline[i + 1].n /\ pipeline[i + 1].n <= spoken
      BY <1>8, <2>1, <2>2, <3>2
    <3> QED
      BY <1>1, <2>2, <2>3, <3>2, <3>3
  <2>7. \A i, k \in 1 .. Len(pipeline') : i < k => pipeline'[i].n < pipeline'[k].n
    <3>1. TAKE i, k \in 1 .. Len(pipeline')
    <3>2. /\ i + 1 \in 1 .. Len(pipeline) /\ pipeline'[i] = pipeline[i + 1]
          /\ k + 1 \in 1 .. Len(pipeline) /\ pipeline'[k] = pipeline[k + 1]
          /\ i < k => i + 1 < k + 1
      BY <2>1
    <3> QED
      BY <1>8, <2>1, <3>2
  <2>8. \A i \in 1 .. Len(pipeline'), k \in 1 .. Len(jobs') :
           jobs'[k] \in WordJobs => pipeline'[i].n < jobs'[k].n
    BY <1>8, <2>1
  <2> QED
    BY <1>4, <2>4, <2>5, <2>6, <2>7, <2>8 DEF NumberInv
<1>11. CASE EntersUnit
  <2>1. /\ job' \in WordJobs /\ job' = jobs[1] /\ 1 \in 1 .. Len(jobs) /\ UNCHANGED emitted
        /\ job'.n \in Nat /\ Takes
    BY <1>11 DEF EntersUnit, Takes
  <2>2. \A k \in 1 .. Len(jobs') : jobs'[k] \in WordJobs => job'.n < jobs'[k].n
    <3>1. TAKE k \in 1 .. Len(jobs')
    <3>2. k + 1 \in 1 .. Len(jobs) /\ jobs'[k] = jobs[k + 1] /\ 1 < k + 1
      BY <2>1 DEF Takes
    <3> QED
      BY <1>5, <2>1, <3>2
  <2>3. emitted' < job'.n /\ job'.n <= spoken'
    BY <1>1, <1>5, <2>1
  <2>4. CASE ~turnOpen
    <3>1. Len(pipeline') = 1 /\ pipeline'[1] = job'
      BY <1>11, <2>4, OneUnit DEF EntersUnit
    <3> QED
      BY <1>4, <1>6, <2>1, <2>2, <2>3, <3>1 DEF NumberInv
  <2>5. CASE turnOpen
    <3>1. job' \in Units
      BY <2>1 DEF Units
    <3>2. /\ Len(pipeline') = Len(pipeline) + 1 /\ pipeline'[Len(pipeline) + 1] = job'
          /\ \A i \in 1 .. Len(pipeline) : pipeline'[i] = pipeline[i]
      BY <1>11, <2>5, <3>1, AppendOf DEF EntersUnit
    <3>3. \A i \in 1 .. Len(pipeline') :
             \/ i \in 1 .. Len(pipeline) /\ pipeline'[i] = pipeline[i]
             \/ i = Len(pipeline) + 1 /\ pipeline'[i] = job'
      BY <3>2
    <3>4. \A i \in 1 .. Len(pipeline) : pipeline[i].n < job'.n /\ pipeline[i].n \in Nat
      BY <1>8, <2>1, <2>5
    <3>5. \A i \in 1 .. Len(pipeline') : emitted' < pipeline'[i].n /\ pipeline'[i].n <= spoken'
      BY <1>1, <1>8, <2>1, <2>3, <2>5, <3>3
    <3>6. \A i, k \in 1 .. Len(pipeline') : i < k => pipeline'[i].n < pipeline'[k].n
      <4>1. TAKE i, k \in 1 .. Len(pipeline')
      <4>2. i < k => i \in 1 .. Len(pipeline) /\ pipeline'[i] = pipeline[i]
        BY <3>2, <3>3
      <4> QED
        BY <1>8, <2>5, <3>3, <3>4, <4>2
    <3>7. \A i \in 1 .. Len(pipeline'), k \in 1 .. Len(jobs') :
             jobs'[k] \in WordJobs => pipeline'[i].n < jobs'[k].n
      <4>1. TAKE i \in 1 .. Len(pipeline'), k \in 1 .. Len(jobs')
      <4>2. k + 1 \in 1 .. Len(jobs) /\ jobs'[k] = jobs[k + 1]
        BY <2>1 DEF Takes
      <4>3. CASE i \in 1 .. Len(pipeline) /\ pipeline'[i] = pipeline[i]
        BY <1>8, <2>5, <4>2, <4>3
      <4>4. CASE pipeline'[i] = job'
        BY <2>2, <4>4
      <4> QED
        BY <3>3, <4>3, <4>4
    <3> QED
      BY <1>4, <1>6, <2>1, <3>5, <3>6, <3>7 DEF NumberInv
  <2> QED
    BY <2>4, <2>5
<1> QED
  BY <1>7, <1>9, <1>10, <1>11, WorkerUnits

\* The numbers stay right when a job is put at the end of the queue.
LEMMA EnqueuedNumber ==
    ASSUME BaseInv, NumberInv, NEW j \in Jobs \cup {None}, jobs' = Append(jobs, j),
           UNCHANGED <<emitted, turnOpen, pipeline>>, spoken' \in Nat, spoken <= spoken',
           j \in WordJobs => spoken < j.n /\ j.n <= spoken'
    PROVE  NumberInv'
<1> USE WordNumbers
<1>1. /\ Len(jobs') = Len(jobs) + 1
      /\ \A i \in 1 .. Len(jobs) : jobs'[i] = jobs[i]
      /\ jobs'[Len(jobs) + 1] = j
  BY AppendOf
<1>2. \A i \in 1 .. Len(jobs') : \/ i \in 1 .. Len(jobs) /\ jobs'[i] = jobs[i]
                                 \/ i = Len(jobs) + 1 /\ jobs'[i] = j
  BY <1>1
<1>3. /\ emitted <= spoken
      /\ \A i \in 1 .. Len(jobs) :
            jobs[i] \in WordJobs => emitted < jobs[i].n /\ jobs[i].n <= spoken
      /\ \A i, k \in 1 .. Len(jobs) :
            i < k /\ jobs[i] \in WordJobs /\ jobs[k] \in WordJobs => jobs[i].n < jobs[k].n
  BY DEF NumberInv
<1>4. \A i \in 1 .. Len(jobs') :
         jobs'[i] \in WordJobs => emitted' < jobs'[i].n /\ jobs'[i].n <= spoken'
  BY <1>2, <1>3
<1>5. \A i, k \in 1 .. Len(jobs') :
         i < k /\ jobs'[i] \in WordJobs /\ jobs'[k] \in WordJobs => jobs'[i].n < jobs'[k].n
  <2>1. TAKE i, k \in 1 .. Len(jobs')
  <2>2. i < k => i \in 1 .. Len(jobs) /\ jobs'[i] = jobs[i]
    BY <1>1, <1>2
  <2> QED
    BY <1>2, <1>3, <2>2
<1>6. ASSUME turnOpen
      PROVE  /\ \A i \in 1 .. Len(pipeline) :
                   emitted < pipeline[i].n /\ pipeline[i].n <= spoken /\ pipeline[i].n \in Nat
             /\ \A i, k \in 1 .. Len(pipeline) : i < k => pipeline[i].n < pipeline[k].n
             /\ \A i \in 1 .. Len(pipeline), k \in 1 .. Len(jobs) :
                   jobs[k] \in WordJobs => pipeline[i].n < jobs[k].n
  BY <1>6 DEF NumberInv
<1>7. ASSUME turnOpen
      PROVE  \A i \in 1 .. Len(pipeline), k \in 1 .. Len(jobs') :
                jobs'[k] \in WordJobs => pipeline[i].n < jobs'[k].n
  BY <1>2, <1>6, <1>7
<1>8. ASSUME turnOpen
      PROVE  \A i \in 1 .. Len(pipeline) : pipeline[i].n <= spoken'
  BY <1>6, <1>8
<1>9. emitted' <= spoken'
  BY <1>3
<1> QED
  BY <1>4, <1>5, <1>6, <1>7, <1>8, <1>9 DEF NumberInv

LEMMA NumberStep == BaseInv /\ TurnInv /\ NumberInv /\ [Next]_vars => NumberInv'
<1>1. ASSUME NumberInv, UNCHANGED <<jobs, emitted, spoken, turnOpen, pipeline>>
      PROVE  NumberInv'
  BY <1>1 DEF NumberInv
<1>2. ASSUME BaseInv, TurnInv, NumberInv, TurnLoop
      PROVE  NumberInv'
  <2>1. UNCHANGED <<turnOpen, pipeline>>
    BY <1>2, TurnLoopLeaves DEF synthVars
  <2>2. CASE \E c \in Conns : BeginTurn(c)
    <3>1. emitted' = 0 /\ spoken' = 0 /\ UNCHANGED jobs /\ ~TurnWork
      BY <1>2, <2>2 DEF BeginTurn, ReplyStep, TurnInv, WorkInv
    <3> QED
      BY <2>1, <3>1 DEF NumberInv, TurnWork, Queued, TurnJobs
  <2>3. CASE StreamWord
    <3>1. spoken' = spoken + 1 /\ spoken \in Nat /\ UNCHANGED emitted
      BY <1>2, <2>3, WordNumbers DEF StreamWord, ofReply, trackVars
    <3>2. CASE stopped
      <4>1. UNCHANGED jobs
        BY <2>3, <3>2 DEF StreamWord, Admit
      <4>2. /\ \A i \in 1 .. Len(jobs) : jobs[i] \in WordJobs => jobs[i].n <= spoken'
            /\ emitted <= spoken'
            /\ turnOpen => \A i \in 1 .. Len(pipeline) : pipeline[i].n <= spoken'
        BY <1>2, <3>1, WordNumbers DEF NumberInv
      <4> QED
        BY <1>2, <2>1, <3>1, <4>1, <4>2 DEF NumberInv
    <3>3. CASE ~stopped
      <4>1. jobs' = Append(jobs, Word(spoken + 1)) /\ Word(spoken + 1).n = spoken + 1
        BY <2>3, <3>3 DEF StreamWord, Admit, Word
      <4>2. Word(spoken + 1) \in Jobs
        <5>1. served \in 1 .. MaxTurns /\ owner \in Conns /\ spoken + 1 \in 1 .. MaxWords
          BY <1>2, <2>3, BoundsAssumption DEF StreamWord, ReplyStep, BaseInv, BegunInv, Typed
        <5> QED
          BY <5>1 DEF Word, WordJobs, Jobs
      <4> QED
        BY <1>2, <2>1, <3>1, <4>1, <4>2, EnqueuedNumber
    <3> QED
      BY <3>2, <3>3
  <2>4. CASE EndTurn
    <3>1. UNCHANGED <<emitted, spoken>> /\ spoken \in Nat
      BY <1>2, <2>4, WordNumbers DEF EndTurn, ofReply, trackVars
    <3>2. CASE stopped
      BY <1>1, <1>2, <2>1, <2>4, <3>1, <3>2 DEF EndTurn, Admit
    <3>3. CASE ~stopped
      <4>1. served \in 1 .. MaxTurns
        BY <1>2, <2>4, BoundsAssumption DEF EndTurn, ReplyStep, BaseInv, BegunInv, Typed
      <4>2. jobs' = Append(jobs, End) /\ End \in Jobs /\ End \notin WordJobs
        BY <2>4, <3>3, <4>1, Kinds DEF EndTurn, Admit, End, EndJobs
      <4> QED
        BY <1>2, <2>1, <3>1, <4>2, EnqueuedNumber
    <3> QED
      BY <3>2, <3>3
  <2>5. CASE \/ CheckStopping \/ StreamEnds \/ WaitLooks \/ WaitAgain \/ Recheck \/ WaitForCleanup
             \/ WaitCutShort \/ WaitDrained \/ FinishTurn
    <3>1. UNCHANGED <<jobs, emitted, spoken>>
      BY <2>5 DEF CheckStopping, StreamEnds, WaitLooks, WaitAgain, Recheck, WaitForCleanup,
         WaitCutShort, WaitDrained, FinishTurn, Go, WaitReturns, ofReply, trackVars
    <3> QED
      BY <1>1, <1>2, <2>1, <3>1
  <2> QED
    BY <1>2, <2>2, <2>3, <2>4, <2>5 DEF TurnLoop
<1>3. ASSUME BaseInv, TurnInv, NumberInv,
             \/ \E s \in Sayers : AskSay(s)
             \/ \E p \in Pickers : AskVoice(p)
             \/ Environment
             \/ Shutdown
      PROVE  NumberInv'
  <2>1. UNCHANGED <<emitted, spoken, turnOpen, pipeline>> /\ spoken \in Nat
    BY <1>3, OutsideTypes, OutsideLeaves, WordNumbers DEF synthVars
  <2>2. ASSUME NEW j \in (Jobs \ TurnJobs) \cup {None}, jobs' = Append(jobs, j)
        PROVE  NumberInv'
    <3>1. j \in Jobs \cup {None} /\ j \notin WordJobs
      BY <2>2, Kinds DEF TurnJobs
    <3> QED
      BY <1>3, <2>1, <2>2, <3>1, EnqueuedNumber
  <2> QED
    BY <1>1, <1>3, <2>1, <2>2, OutsideQueues
<1>4. ASSUME NumberInv, UNCHANGED vars
      PROVE  NumberInv'
  BY <1>1, <1>4 DEF vars, synthVars, replyVars, trackVars
<1> QED
  BY <1>2, <1>3, <1>4, WorkerNumbers DEF Next

-----------------------------------------------------------------------------
\* Where each word of an unbroken reply is.  Entered counts the words that went
\* into the generator; the others are queued, and of those that entered each has
\* left as a frame or is still in the generator.

Entered == Len(marks) + (IF InHand(WordJobs) THEN 1 ELSE 0)
Left    == emitted + (IF turnOpen THEN Len(pipeline) ELSE 0)

Replying == reply \notin {"check", "begin", "exit"}
Unbroken == ~cut /\ served \notin broken /\ main \in {"serving", "interrupt"} /\ Replying

PlacesInv ==
    /\ \A i \in 1 .. Len(jobs) : jobs[i] \in WordJobs => Entered < jobs[i].n
    /\ \A k \in Entered + 1 .. spoken :
          \E i \in 1 .. Len(jobs) : jobs[i] \in WordJobs /\ jobs[i].n = k
    /\ Entered <= spoken
    /\ Entered = Left

CutInv ==
    /\ broken \subseteq 1 .. served
    /\ turnFailed => served \in broken
    /\ interrupted /\ Replying => cut
    /\ reply = "drain" /\ main \in {"stop", "stopped"} => cut
    /\ reply \in {"transcript", "cleanup", "finish"} /\ completed /\ main \in {"stop", "stopped"}
          => cut

WordsInv == CutInv /\ (Unbroken => PlacesInv)

\* A step of the worker breaks the current turn or none.
LEMMA WorkerBreaks ==
    ASSUME BaseInv, TurnInv, Worker
    PROVE  /\ \/ UNCHANGED broken /\ ~FailToOpen /\ ~WordRaises /\ ~CloseRaises
              \/ broken' = broken \cup {served} /\ served \in 1 .. served
           /\ turnFailed' => turnFailed \/ served \in broken'
<1> USE DEF Midway, WorkerStep
<1>1. CASE FailToOpen
  <2>1. Taking("word", "get") /\ "get" \in WorkerStates
    BY <1>1 DEF FailToOpen, WorkerStates
  <2>2. job' \in TurnJobs /\ job' = jobs[1] /\ 1 \in 1 .. Len(jobs)
    BY <2>1, TakingJobs, TakenJob DEF BaseInv, TurnJobs
  <2>3. job'.turn = served /\ served \in 1 .. served
    BY <2>2 DEF TurnInv, QueueInv, WorkInv, TurnWork, Queued, BaseInv, Typed
  <2> QED
    BY <1>1, <2>3 DEF FailToOpen
<1>2. CASE WordRaises \/ CloseRaises
  <2>1. Framing /\ turnOpen
    BY <1>2, Kinds DEF WordRaises, CloseRaises, Raised, Framing, Looping, BaseInv, JobInv
  <2>2. 1 \in 1 .. Len(pipeline) /\ Head(pipeline) = pipeline[1]
    BY <2>1, FirstUnit
  <2>3. Head(pipeline).turn = served
    BY <2>1, <2>2 DEF TurnInv, PipelineInv
  <2>4. served \in 1 .. served
    BY <2>1 DEF TurnInv, WorkInv, TurnWork, BaseInv, Typed
  <2>5. turnFailed' => served \in broken'
    BY <1>2, <2>3 DEF WordRaises, CloseRaises
  <2> QED
    BY <1>2, <2>3, <2>4, <2>5 DEF WordRaises, CloseRaises
<1>3. CASE ~(FailToOpen \/ WordRaises \/ CloseRaises)
  <2>1. UNCHANGED broken
    BY <1>3 DEF Worker, TakeSentinel, DropWord, SpeakWord, CloseUnopened, CloseInterrupted,
       CloseByDraining, Closing, SetConversationVoice, RefuseConversationVoice, BeginSay, FailSay,
       DieInSay, Pump, Pumped, Drain, Drained, StepGenerator, Ended, DropFrame, Dropping, KeepFrame,
       SendFrame, SayRaises, RecordEmission, MarkSpoken, SignalDone, accounts
  <2>2. turnFailed' => turnFailed
    BY <1>3 DEF Worker, TakeSentinel, DropWord, SpeakWord, CloseUnopened, CloseInterrupted,
       CloseByDraining, Closing, SetConversationVoice, RefuseConversationVoice, BeginSay, FailSay,
       DieInSay, Pump, Pumped, Drain, Drained, StepGenerator, Ended, DropFrame, Dropping, KeepFrame,
       SendFrame, SayRaises, RecordEmission, MarkSpoken, SignalDone, synthVars, turnFlags, OpenTurn,
       ForgetTurn
  <2> QED
    BY <1>3, <2>1, <2>2
<1> QED
  BY <1>1, <1>2, <1>3

\* The places do not change when a job other than a word is taken.
LEMMA SamePlaces ==
    ASSUME BaseInv, PlacesInv, UNCHANGED spoken, Entered' = Entered, Left' = Left,
           GoesOn \/ (Takes /\ jobs[1] \notin WordJobs)
    PROVE  PlacesInv'
<1>1. CASE GoesOn
  BY <1>1 DEF GoesOn, PlacesInv
<1>2. CASE Takes /\ jobs[1] \notin WordJobs
  <2>1. \A i \in 1 .. Len(jobs') : i + 1 \in 1 .. Len(jobs) /\ jobs'[i] = jobs[i + 1]
    BY <1>2 DEF Takes
  <2>2. \A i \in 1 .. Len(jobs) : jobs[i] \in WordJobs =>
           i - 1 \in 1 .. Len(jobs') /\ jobs'[i - 1] = jobs[i]
    <3>1. TAKE i \in 1 .. Len(jobs)
    <3>2. SUFFICES ASSUME jobs[i] \in WordJobs
                   PROVE  i - 1 \in 1 .. Len(jobs') /\ jobs'[i - 1] = jobs[i]
      OBVIOUS
    <3>3. i # 1
      BY <1>2, <3>2
    <3>4. i - 1 \in 1 .. Len(jobs) - 1 /\ (i - 1) + 1 = i
      BY <1>2, <3>3 DEF Takes
    <3> QED
      BY <1>2, <3>4 DEF Takes
  <2>3. \A i \in 1 .. Len(jobs') : jobs'[i] \in WordJobs => Entered' < jobs'[i].n
    BY <2>1 DEF PlacesInv
  <2>4. \A k \in Entered' + 1 .. spoken' :
           \E i \in 1 .. Len(jobs') : jobs'[i] \in WordJobs /\ jobs'[i].n = k
    <3>1. TAKE k \in Entered' + 1 .. spoken'
    <3>2. PICK i \in 1 .. Len(jobs) : jobs[i] \in WordJobs /\ jobs[i].n = k
      BY DEF PlacesInv
    <3> QED
      BY <2>2, <3>2
  <2> QED
    BY <2>3, <2>4 DEF PlacesInv
<1> QED
  BY <1>1, <1>2

LEMMA WorkerPlaces ==
    ASSUME BaseInv, TurnInv, NumberInv, PlacesInv, ~interrupted, ~turnFailed,
           ~FailToOpen, ~WordRaises, ~CloseRaises, Worker
    PROVE  PlacesInv'
<1> USE DEF Midway, WorkerStep
<1>1. UNCHANGED spoken /\ (Takes \/ GoesOn)
  BY WorkerLeaves, WorkerTakes
<1>2. /\ emitted \in Nat /\ spoken \in Nat /\ marks \in Seq(1 .. MaxWords) /\ Len(marks) \in Nat
      /\ turnOpen \in BOOLEAN /\ pipeline \in Seq(Units) /\ Len(pipeline) \in Nat
      /\ back \in {"speak", "drain"}
  BY WordNumbers DEF BaseInv, Typed
<1>3. CASE TakeSentinel
  <2>1. worker = "get" /\ worker' = "exit" /\ Takes /\ jobs[1] \notin WordJobs
    <3>1. Head(jobs) = None /\ jobs # <<>> /\ worker = "get" /\ worker' = "exit"
      BY <1>3 DEF TakeSentinel
    <3>2. Head(jobs) = jobs[1]
      BY <3>1, TailOf DEF BaseInv, Typed
    <3> QED
      BY <1>1, <3>1, <3>2, Kinds DEF GoesOn, Busy
  <2>2. UNCHANGED <<marks, emitted, turnOpen, pipeline>>
    BY <1>3 DEF TakeSentinel, synthVars, accounts, trackVars
  <2>3. Entered' = Entered /\ Left' = Left
    BY <2>1, <2>2 DEF Entered, Left, InHand, Busy
  <2> QED
    BY <1>1, <2>1, <2>3, SamePlaces
<1>4. CASE DropWord \/ \E kind \in {"end", "say"} : CloseInterrupted(kind)
  BY <1>4 DEF DropWord, CloseInterrupted
<1>5. CASE \/ (\E kind \in {"end", "say"} : CloseUnopened(kind) \/ CloseByDraining(kind))
           \/ SetConversationVoice \/ RefuseConversationVoice
  <2>1. PICK kind \in {"end", "say", "voice"}, to \in {"get", "drain", "say", "signal"} :
             Taking(kind, to)
    BY <1>5 DEF CloseUnopened, CloseByDraining, Closing, SetConversationVoice,
       RefuseConversationVoice, AfterClose
  <2>2. worker = "get" /\ job' = jobs[1] /\ job' \notin WordJobs
    BY <2>1, TakenJob, TakingJobs, Kinds DEF BaseInv, WorkerStates
  <2>3. Takes
    BY <1>1, <2>2 DEF GoesOn, Busy
  <2>4. UNCHANGED <<marks, emitted, pipeline, turnOpen>>
    BY <1>5, <2>1 DEF CloseUnopened, CloseByDraining, Closing, SetConversationVoice,
       RefuseConversationVoice, Taking, trackVars, synthVars, turnFlags
  <2>5. Entered' = Entered /\ Left' = Left
    BY <2>2, <2>4 DEF Entered, Left, InHand, Busy
  <2> QED
    BY <1>1, <2>2, <2>3, <2>4, <2>5, SamePlaces
<1>6. CASE BeginSay \/ FailSay \/ DieInSay \/ SayRaises \/ SignalDone
  <2>1. ~turnOpen /\ ~turnOpen' /\ job \notin WordJobs /\ job' = job /\ worker # "get"
        /\ UNCHANGED <<marks, emitted>>
    BY <1>6, Kinds DEF BeginSay, FailSay, DieInSay, SayRaises, Raised, SignalDone, BaseInv, JobInv,
       accounts, trackVars, synthVars, Looping, Framing
  <2>2. Entered' = Entered /\ Left' = Left /\ GoesOn
    BY <1>1, <2>1 DEF Entered, Left, InHand, Takes
  <2> QED
    BY <1>1, <2>2, SamePlaces
<1>7. CASE Pump \/ Pumped \/ Drain \/ KeepFrame \/ SendFrame
  <2>1. /\ worker \in {"speak", "drain", "frame", "send"} /\ job' = job
        /\ worker' \in {"frame", "mark", "drain", "send", "record", "speak"}
        /\ UNCHANGED <<marks, emitted, turnOpen>>
    BY <1>2, <1>7 DEF Pump, Pumped, Drain, StepGenerator, KeepFrame, SendFrame, accounts, trackVars,
       synthVars, turnFlags
  <2>2. turnOpen => pipeline' = pipeline
    BY <1>7 DEF Pump, Pumped, Drain, StepGenerator, KeepFrame, SendFrame, synthVars, BaseInv, UnitsInv
  <2>3. Entered' = Entered /\ Left' = Left /\ GoesOn
    BY <1>1, <2>1, <2>2 DEF Entered, Left, InHand, Busy, Takes
  <2> QED
    BY <1>1, <2>3, SamePlaces
<1>8. CASE Drained
  <2>1. worker = "drain" /\ job \notin WordJobs /\ job' = job /\ UNCHANGED <<marks, emitted>>
    BY <1>8, Kinds DEF Drained, Ended, accounts, trackVars, BaseInv, JobInv, Looping, Framing, InSpeak
  <2>2. Len(pipeline) = 0 /\ turnOpen' = FALSE
    BY <1>2, <1>8 DEF Drained, Ended, ForgetTurn
  <2>3. Entered' = Entered /\ Left' = Left /\ GoesOn
    BY <1>1, <1>2, <2>1, <2>2 DEF Entered, Left, InHand, Takes
  <2> QED
    BY <1>1, <2>3, SamePlaces
<1>9. CASE DropFrame
  BY <1>9 DEF DropFrame
<1>10. CASE RecordEmission
  <2>1. /\ worker = "record" /\ worker' \in {"speak", "drain"} /\ job' = job /\ turnOpen
        /\ emitted' = emitted + 1 /\ UNCHANGED <<marks, turnOpen>>
    BY <1>2, <1>10 DEF RecordEmission, turnFlags, BaseInv, JobInv
  <2>2. Len(pipeline') = Len(pipeline) - 1
    BY <1>10, <2>1, FirstUnit DEF Framing, RecordEmission
  <2>3. Entered' = Entered /\ Left' = Left /\ GoesOn
    BY <1>1, <1>2, <2>1, <2>2 DEF Entered, Left, InHand, Busy, Takes
  <2> QED
    BY <1>1, <2>3, SamePlaces
<1>11. CASE MarkSpoken
  <2>1. /\ worker = "mark" /\ worker' = "get" /\ job \in WordJobs /\ job' = job
        /\ UNCHANGED <<emitted, turnOpen, pipeline>> /\ marks' = Append(marks, job.n)
    BY <1>11 DEF MarkSpoken, synthVars, BaseInv, JobInv
  <2>2. Len(marks') = Len(marks) + 1
    BY <1>2, <2>1, Kinds
  <2>3. Entered' = Entered /\ Left' = Left /\ GoesOn
    BY <1>1, <1>2, <2>1, <2>2 DEF Entered, Left, InHand, Busy, Takes
  <2> QED
    BY <1>1, <2>3, SamePlaces
<1>12. CASE SpeakWord
  <2>1. Taking("word", "speak") /\ "speak" \in WorkerStates
    BY <1>12 DEF SpeakWord, WorkerStates
  <2>2. worker = "get" /\ worker' = "speak" /\ job' \in WordJobs /\ job' = jobs[1] /\ UNCHANGED marks
    BY <2>1, TakenJob, TakingJobs DEF BaseInv, Taking, trackVars
  <2>3. Takes /\ 1 \in 1 .. Len(jobs)
    BY <1>1, <2>2 DEF GoesOn, Busy, Takes
  <2>4. Entered \in Nat /\ Entered' = Entered + 1
    BY <1>2, <2>2 DEF Entered, InHand, Busy
  <2>5. Left' = Left + 1
    <3>1. job' \in Units
      BY <2>2 DEF Units
    <3>2. CASE turnOpen
      <4>1. pipeline' = Append(pipeline, job') /\ turnOpen' = turnOpen /\ emitted' = emitted
        BY <1>2, <1>12, <3>1, <3>2, OneUnit DEF SpeakWord, SpeakIn, turnFlags, Taking, trackVars
      <4>2. Len(pipeline') = Len(pipeline) + 1
        BY <1>2, <3>1, <4>1, AppendOf
      <4> QED
        BY <1>2, <3>2, <4>1, <4>2 DEF Left
    <3>3. CASE ~turnOpen
      <4>1. pipeline = <<>>
        BY <2>2, <3>3 DEF BaseInv, UnitsInv, Looping, Framing
      <4>2. pipeline' = <<job'>> /\ turnOpen' = TRUE /\ emitted' = emitted
        BY <1>12, <3>3, <4>1 DEF SpeakWord, SpeakIn, OpenTurn, Taking, trackVars
      <4>3. Len(pipeline') = 1
        BY <3>1, <4>2, OneUnit
      <4> QED
        BY <1>2, <3>3, <4>2, <4>3 DEF Left
    <3> QED
      BY <3>2, <3>3
  <2>6. job'.n = Entered + 1
    <3>1. Entered < job'.n /\ job'.n <= spoken /\ job'.n \in Nat
      BY <2>2, <2>3, WordNumbers DEF PlacesInv, NumberInv
    <3>2. PICK i \in 1 .. Len(jobs) : jobs[i] \in WordJobs /\ jobs[i].n = Entered + 1
      BY <1>2, <2>4, <3>1 DEF PlacesInv
    <3>3. i = 1 \/ job'.n < Entered + 1
      BY <2>2, <2>3, <3>2 DEF NumberInv, Takes
    <3> QED
      BY <2>2, <2>4, <3>1, <3>2, <3>3
  <2>7. \A i \in 1 .. Len(jobs') : jobs'[i] \in WordJobs => Entered' < jobs'[i].n
    <3>1. TAKE i \in 1 .. Len(jobs')
    <3>2. i + 1 \in 1 .. Len(jobs) /\ jobs'[i] = jobs[i + 1] /\ 1 < i + 1
      BY <2>3 DEF Takes
    <3> QED
      BY <2>2, <2>3, <2>4, <2>6, <3>2 DEF NumberInv
  <2>8. \A k \in Entered' + 1 .. spoken' :
           \E i \in 1 .. Len(jobs') : jobs'[i] \in WordJobs /\ jobs'[i].n = k
    <3>1. TAKE k \in Entered' + 1 .. spoken'
    <3>2. k \in Entered + 1 .. spoken /\ k # Entered + 1
      BY <1>1, <1>2, <2>4
    <3>3. PICK i \in 1 .. Len(jobs) : jobs[i] \in WordJobs /\ jobs[i].n = k
      BY <3>2 DEF PlacesInv
    <3>4. i # 1
      BY <2>2, <2>6, <3>2, <3>3
    <3>5. i - 1 \in 1 .. Len(jobs') /\ i - 1 \in 1 .. Len(jobs) - 1 /\ (i - 1) + 1 = i
      BY <2>3, <3>4 DEF Takes
    <3>6. jobs'[i - 1] = jobs[i]
      BY <2>3, <3>5 DEF Takes
    <3> QED
      BY <3>3, <3>5, <3>6
  <2>9. Entered' <= spoken'
    <3>1. job'.n <= spoken
      BY <2>2, <2>3 DEF NumberInv
    <3> QED
      BY <1>1, <2>4, <2>6, <3>1
  <2> QED
    BY <2>4, <2>5, <2>7, <2>8, <2>9 DEF PlacesInv
<1> QED
  BY <1>3, <1>4, <1>5, <1>6, <1>7, <1>8, <1>9, <1>10, <1>11, <1>12 DEF Worker

LEMMA WorkerWords ==
    ASSUME BaseInv, TurnInv, NumberInv, WordsInv, Worker
    PROVE  WordsInv'
<1>1. UNCHANGED <<interrupted, main, cut, reply, served, completed>>
  BY WorkerLeaves
<1>2. broken' \subseteq 1 .. served /\ broken \subseteq broken'
  BY WorkerBreaks DEF WordsInv, CutInv
<1>3. turnFailed' => served \in broken'
  BY <1>2, WorkerBreaks DEF WordsInv, CutInv
<1>4. CutInv'
  BY <1>1, <1>2, <1>3 DEF WordsInv, CutInv, Replying
<1>5. ASSUME Unbroken'
      PROVE  PlacesInv'
  <2>1. Unbroken /\ served \notin broken' /\ ~interrupted /\ ~turnFailed
    BY <1>1, <1>2, <1>5 DEF Unbroken, Replying, WordsInv, CutInv
  <2>2. ~FailToOpen /\ ~WordRaises /\ ~CloseRaises
    BY <2>1, WorkerBreaks
  <2> QED
    BY <2>1, <2>2, WorkerPlaces DEF WordsInv
<1> QED
  BY <1>4, <1>5 DEF WordsInv

\* The numbering of what is already queued, when a job is put at its end.
LEMMA EnqueuedPlaces ==
    ASSUME BaseInv, PlacesInv, NEW j \in Jobs \cup {None}, jobs' = Append(jobs, j),
           Entered' = Entered, Left' = Left, Entered \in Nat,
           \/ spoken' = spoken /\ j \notin WordJobs
           \/ spoken' = spoken + 1 /\ j \in WordJobs /\ j.n = spoken + 1
    PROVE  PlacesInv'
<1>1. /\ Len(jobs) \in Nat /\ Len(jobs') = Len(jobs) + 1
      /\ \A i \in 1 .. Len(jobs) : jobs'[i] = jobs[i]
      /\ jobs'[Len(jobs) + 1] = j
  BY AppendOf DEF BaseInv, Typed
<1>2. \A i \in 1 .. Len(jobs') : \/ i \in 1 .. Len(jobs) /\ jobs'[i] = jobs[i]
                                 \/ i = Len(jobs) + 1 /\ jobs'[i] = j
  BY <1>1
<1>3. \A i \in 1 .. Len(jobs) : i \in 1 .. Len(jobs') /\ jobs'[i] = jobs[i]
  BY <1>1
<1>4. Len(jobs) + 1 \in 1 .. Len(jobs')
  BY <1>1
<1>5. spoken \in Nat /\ Entered <= spoken
  BY WordNumbers DEF PlacesInv
<1>6. \A i \in 1 .. Len(jobs') : jobs'[i] \in WordJobs => Entered' < jobs'[i].n
  BY <1>2, <1>5 DEF PlacesInv
<1>7. \A k \in Entered' + 1 .. spoken' :
         \E i \in 1 .. Len(jobs') : jobs'[i] \in WordJobs /\ jobs'[i].n = k
  <2>1. TAKE k \in Entered' + 1 .. spoken'
  <2>2. CASE k \in Entered + 1 .. spoken
    <3>1. PICK i \in 1 .. Len(jobs) : jobs[i] \in WordJobs /\ jobs[i].n = k
      BY <2>2 DEF PlacesInv
    <3> QED
      BY <1>3, <3>1
  <2>3. CASE k \notin Entered + 1 .. spoken
    <3>1. k = spoken + 1 /\ j \in WordJobs /\ j.n = k
      BY <1>5, <2>3
    <3> QED
      BY <1>1, <1>4, <3>1
  <2> QED
    BY <2>2, <2>3
<1>8. Entered' <= spoken' /\ Entered' = Left'
  BY <1>5 DEF PlacesInv
<1> QED
  BY <1>6, <1>7, <1>8 DEF PlacesInv

LEMMA TurnLoopWords ==
    ASSUME BaseInv, TurnInv, WordsInv, TurnLoop
    PROVE  WordsInv'
<1>1. UNCHANGED <<synthVars, stopped, workVars, main, broken>>
  BY TurnLoopLeaves
<1>2. /\ CutInv /\ LoopInv /\ served \in Nat /\ emitted \in Nat /\ Len(marks) \in Nat
      /\ Entered \in Nat
  BY DEF WordsInv, TurnInv, BaseInv, Typed, Entered
<1>3. CASE \E c \in Conns : BeginTurn(c)
  <2>1. /\ reply = "begin" /\ reply' = "stream" /\ served' = served + 1 /\ interrupted' = FALSE
        /\ emitted' = 0 /\ marks' = <<>> /\ spoken' = 0 /\ UNCHANGED jobs /\ ~TurnWork
    BY <1>3 DEF BeginTurn, ReplyStep, TurnInv, WorkInv
  <2>2. Entered' = 0
    <3>1. ~InHand(WordJobs)'
      BY <1>1, <2>1 DEF TurnWork, InHand, Busy, TurnJobs, workVars
    <3>2. Len(marks') = 0
      BY <2>1, EmptyOf
    <3> QED
      BY <3>1, <3>2 DEF Entered
  <2>3. Left' = 0
    BY <1>1, <2>1 DEF Left, TurnWork, synthVars
  <2>4. \A i \in 1 .. Len(jobs') : jobs'[i] \notin WordJobs
    BY <2>1 DEF TurnWork, Queued, TurnJobs
  <2>5. PlacesInv'
    BY <2>1, <2>2, <2>3, <2>4 DEF PlacesInv
  <2>6. ~turnFailed' /\ broken' \subseteq 1 .. served'
    BY <1>1, <1>2, <2>1 DEF CutInv, TurnWork, synthVars
  <2> QED
    BY <2>1, <2>5, <2>6 DEF WordsInv, CutInv
<1>4. CASE StreamWord \/ EndTurn
  <2>1. /\ reply \in {"stream", "end"} /\ reply' \in {"stream", "wait"}
        /\ UNCHANGED <<interrupted, served, owner, emitted, marks, cut, completed>>
    BY <1>4 DEF StreamWord, EndTurn, ReplyStep, ofReply, trackVars
  <2>2. CutInv'
    BY <1>1, <1>2, <2>1 DEF CutInv, Replying, synthVars
  <2>3. Entered' = Entered /\ Left' = Left
    BY <1>1, <2>1 DEF Entered, Left, InHand, Busy, workVars, synthVars
  <2>4. ASSUME Unbroken'
        PROVE  PlacesInv'
    <3>1. Unbroken /\ ~stopped
      BY <1>1, <1>2, <2>1, <2>4 DEF Unbroken, Replying, LoopInv
    <3>2. PlacesInv
      BY <3>1 DEF WordsInv
    <3>3. served \in 1 .. MaxTurns /\ owner \in Conns
      BY <2>1 DEF BaseInv, BegunInv, Typed
    <3>4. CASE StreamWord
      <4>1. spoken' = spoken + 1 /\ jobs' = Append(jobs, Word(spoken + 1))
        BY <3>1, <3>4 DEF StreamWord, Admit
      <4>2. spoken + 1 \in 1 .. MaxWords
        BY <3>4, BoundsAssumption DEF StreamWord, BaseInv, Typed
      <4>3. Word(spoken + 1) \in WordJobs /\ Word(spoken + 1).n = spoken + 1
        BY <3>3, <4>2 DEF Word, WordJobs
      <4> QED
        BY <1>2, <2>3, <3>2, <4>1, <4>3, EnqueuedPlaces, Kinds
    <3>5. CASE EndTurn
      <4>1. spoken' = spoken /\ jobs' = Append(jobs, End)
        BY <3>1, <3>5 DEF EndTurn, Admit
      <4>2. End \in Jobs /\ End \notin WordJobs
        BY <3>3, Kinds DEF End, EndJobs
      <4> QED
        BY <1>2, <2>3, <3>2, <4>1, <4>2, EnqueuedPlaces
    <3> QED
      BY <1>4, <3>4, <3>5
  <2> QED
    BY <2>2, <2>4 DEF WordsInv
<1>5. CASE \/ CheckStopping \/ StreamEnds \/ WaitLooks \/ WaitAgain \/ Recheck \/ WaitForCleanup
           \/ WaitCutShort \/ WaitDrained \/ FinishTurn
  <2>1. UNCHANGED <<jobs, served, emitted, marks, spoken, cut>>
    BY <1>5 DEF CheckStopping, StreamEnds, WaitLooks, WaitAgain, Recheck, WaitForCleanup,
       WaitCutShort, WaitDrained, FinishTurn, Go, WaitReturns, ofReply, trackVars
  <2>2. (Replying' => Replying) /\ (Replying' /\ interrupted' => interrupted)
    BY <1>5 DEF CheckStopping, StreamEnds, WaitLooks, WaitAgain, Recheck, WaitForCleanup,
       WaitCutShort, WaitDrained, FinishTurn, Go, WaitReturns, ReplyStep, ofReply, Replying
  <2>3. reply' = "drain" => ~stopping
    BY <1>5 DEF CheckStopping, StreamEnds, WaitLooks, WaitAgain, Recheck, WaitForCleanup,
       WaitCutShort, WaitDrained, FinishTurn, Go, WaitReturns, ReplyStep
  <2>4. reply' \in {"transcript", "cleanup", "finish"} /\ completed' =>
           \/ reply = "drain"
           \/ reply \in {"transcript", "cleanup", "finish"} /\ completed
    BY <1>5 DEF CheckStopping, StreamEnds, WaitLooks, WaitAgain, Recheck, WaitForCleanup,
       WaitCutShort, WaitDrained, FinishTurn, Go, WaitReturns, ReplyStep
  <2>5. CutInv'
    BY <1>1, <1>2, <2>1, <2>2, <2>3, <2>4 DEF CutInv, synthVars, stopping
  <2>6. Unbroken' => Unbroken
    BY <1>1, <2>1, <2>2 DEF Unbroken
  <2>7. PlacesInv => PlacesInv'
    BY <1>1, <2>1 DEF PlacesInv, Entered, Left, InHand, Busy, workVars, synthVars
  <2> QED
    BY <2>5, <2>6, <2>7 DEF WordsInv
<1> QED
  BY <1>3, <1>4, <1>5 DEF TurnLoop

LEMMA OutsideWordsInv ==
    ASSUME BaseInv, TurnInv, WordsInv,
           \/ \E s \in Sayers : AskSay(s)
           \/ \E p \in Pickers : AskVoice(p)
           \/ Environment
           \/ Shutdown
    PROVE  WordsInv'
<1>1. UNCHANGED <<synthVars, workVars, reply, served, spoken, completed, emitted, marks, broken>>
  BY OutsideTypes, OutsideLeaves
<1>2. Entered' = Entered /\ Left' = Left /\ Entered \in Nat
  BY <1>1 DEF Entered, Left, InHand, Busy, workVars, synthVars, BaseInv, Typed
<1>3. /\ cut => cut'
      /\ interrupted' /\ Replying => interrupted \/ cut'
      /\ main' \in {"stop", "stopped"} /\ Replying => main \in {"stop", "stopped"} \/ cut'
      /\ main' \in {"serving", "interrupt"} => main \in {"serving", "interrupt"}
  <2>1. CASE Environment \/ Shutdown
    <3>1. CASE BargeInOrDisconnect \/ InterruptSession
      <4>1. Interrupting /\ (main' = main \/ (main = "interrupt" /\ main' = "stop"))
        BY <3>1 DEF BargeInOrDisconnect, InterruptSession
      <4>2. (cut => cut') /\ (Replying => cut')
        BY <4>1 DEF Interrupting, Replying
      <4> QED
        BY <4>1, <4>2
    <3>2. CASE StopServing \/ StopTts \/ \E s \in Sockets : CloseSocket(s)
      BY <3>2 DEF CloseSocket, StopServing, StopTts, ghostVars
    <3> QED
      BY <2>1, <3>1, <3>2 DEF Environment, Shutdown
  <2>2. CASE (\E s \in Sayers : AskSay(s)) \/ (\E p \in Pickers : AskVoice(p))
    <3>1. UNCHANGED <<main, interrupted, ghostVars>>
      BY <2>2 DEF AskSay, AskVoice, Ask
    <3> QED
      BY <3>1 DEF ghostVars
  <2> QED
    BY <2>1, <2>2
<1>4. CutInv'
  BY <1>1, <1>3 DEF WordsInv, CutInv, Replying, synthVars
<1>5. ASSUME Unbroken'
      PROVE  PlacesInv'
  <2>1. PlacesInv
    <3>1. ~cut'
      BY <1>5 DEF Unbroken
    <3>2. Unbroken
      BY <1>1, <1>3, <1>5, <3>1 DEF Unbroken, Replying
    <3> QED
      BY <3>2 DEF WordsInv
  <2>2. CASE jobs' = jobs
    BY <1>1, <1>2, <2>1, <2>2 DEF PlacesInv
  <2>3. ASSUME NEW j \in (Jobs \ TurnJobs) \cup {None}, jobs' = Append(jobs, j)
        PROVE  PlacesInv'
    <3>1. j \in Jobs \cup {None} /\ j \notin WordJobs
      BY <2>3, Kinds DEF TurnJobs
    <3> QED
      BY <1>1, <1>2, <2>1, <2>3, <3>1, EnqueuedPlaces
  <2> QED
    BY <2>2, <2>3, OutsideQueues
<1> QED
  BY <1>4, <1>5 DEF WordsInv

LEMMA WordsStep == BaseInv /\ TurnInv /\ NumberInv /\ WordsInv /\ [Next]_vars => WordsInv'
<1>1. ASSUME WordsInv, UNCHANGED vars
      PROVE  WordsInv'
  BY <1>1 DEF WordsInv, CutInv, Unbroken, Replying, PlacesInv, Entered, Left, InHand, Busy, vars,
     synthVars, workVars, replyVars, trackVars, ghostVars
<1> QED
  BY <1>1, WorkerWords, TurnLoopWords, OutsideWordsInv DEF Next

LEMMA WordsHold == Spec => [](BaseInv /\ TurnInv /\ NumberInv /\ WordsInv)
<1>1. Init => NumberInv
  BY DEF Init, SynthInit, NumberInv
<1>2. Init => WordsInv
  BY DEF Init, SynthInit, WordsInv, CutInv, Unbroken, Replying
<1>3. BaseInv /\ TurnInv /\ NumberInv /\ WordsInv /\ [Next]_vars
         => (BaseInv /\ TurnInv /\ NumberInv /\ WordsInv)'
  BY BaseStep, TurnStep, NumberStep, WordsStep
<1> QED
  BY <1>1, <1>2, <1>3, BaseInit, TurnInit, PTL DEF Spec

\* CompletedIsWhole, for replies of any length and any lookahead: what was
\* reported as completed, uncut and unbroken, was spoken and marked to the last
\* word.
THEOREM CompletedRepliesAreWhole == Spec => []CompletedIsWhole
<1>1. BaseInv /\ TurnInv /\ NumberInv /\ WordsInv => CompletedIsWhole
  <2>1. SUFFICES ASSUME BaseInv, TurnInv, NumberInv, WordsInv,
                        reply \in {"transcript", "cleanup", "finish"}, completed, ~cut,
                        served \notin broken
                 PROVE  emitted = spoken /\ Len(marks) = spoken
    BY DEF CompletedIsWhole
  <2>2. main \in {"serving", "interrupt"} /\ served \in done /\ ~stopped
    BY <2>1 DEF WordsInv, CutInv, TurnInv, LoopInv, BaseInv, Typed
  <2>3. PlacesInv /\ ~TurnWork
    BY <2>1, <2>2 DEF Unbroken, Replying, WordsInv, TurnInv, WorkInv
  <2>4. ~Queued(WordJobs) /\ ~InHand(WordJobs) /\ ~turnOpen
    BY <2>3 DEF TurnWork, Queued, InHand, TurnJobs
  <2>5. Entered = Len(marks) /\ Left = emitted /\ Len(marks) \in Nat /\ spoken \in Nat
    BY <2>1, <2>4, WordNumbers DEF Entered, Left, BaseInv, Typed
  <2>6. Entered <= spoken /\ Entered = Left /\ ~(spoken \in Entered + 1 .. spoken)
    BY <2>3, <2>4 DEF PlacesInv, Queued
  <2> QED
    BY <2>5, <2>6
<1> QED
  BY <1>1, WordsHold, PTL

-----------------------------------------------------------------------------
\* One request, one answer.  While a request is queued or in hand its handler
\* waits, and what was heard of a /say and what is in the generator make it up.

AskQueueInv ==
    /\ \A i, k \in 1 .. Len(jobs) :
          jobs[i] \in AskJobs /\ jobs[k] \in AskJobs /\ jobs[i].who = jobs[k].who => i = k
    /\ \A i \in 1 .. Len(jobs) : jobs[i] \in AskJobs =>
          asking[jobs[i].who] = "waiting" /\ ~(InHand(SayJobs) /\ job.who = jobs[i].who)

SayHandInv ==
    InHand(SayJobs) =>
       /\ asking[job.who] = "waiting"
       /\ \/ Saying /\ heard[job.who] + Len(pipeline) = SayEntries
          \/ ~Saying /\ worker # "signal" /\ heard[job.who] = 0
          \/ worker = "signal" /\ (heard[job.who] \in {0, SayEntries} \/ job.who \in closed)

HeardInv ==
    /\ \A s \in Sayers : heard[s] = 0 \/ asking[s] = "answered" \/ (InHand(SayJobs) /\ job.who = s)
    /\ \A s \in Sayers : heard[s] <= SayEntries
    /\ SayIsWhole

SayInv == AskQueueInv /\ SayHandInv /\ HeardInv

\* The worker answers the request it took or has in hand, and no other.
LEMMA WorkerAnswers ==
    ASSUME BaseInv, Worker
    PROVE  \A a \in Sayers \cup Pickers :
              \/ asking'[a] = asking[a]
              \/ Takes /\ jobs[1] \in VoiceJobs /\ a = jobs[1].who /\ job' = jobs[1]
              \/ GoesOn /\ InHand(SayJobs) /\ a = job.who /\ worker' \in {"get", "dead"}
                 /\ asking'[a] = "answered" /\ ~turnOpen
                 /\ UNCHANGED <<heard, closed>> /\ worker \in {"say", "signal"}
<1> USE DEF Midway, WorkerStep
<1>1. asking \in [Sayers \cup Pickers -> AskStates] /\ (Takes \/ GoesOn)
  BY WorkerTakes DEF BaseInv, Typed
<1>2. CASE SetConversationVoice \/ RefuseConversationVoice
  <2>1. Taking("voice", "get") /\ "get" \in WorkerStates
    BY <1>2 DEF SetConversationVoice, RefuseConversationVoice, WorkerStates
  <2>2. job' \in VoiceJobs /\ job' = jobs[1] /\ worker = "get"
    BY <2>1, TakenJob, TakingJobs DEF BaseInv
  <2>3. Takes
    BY <1>1, <2>2 DEF GoesOn, Busy
  <2>4. ASSUME NEW a \in Sayers \cup Pickers, a # job'.who
        PROVE  asking'[a] = asking[a]
    BY <1>1, <1>2, <2>4 DEF SetConversationVoice, RefuseConversationVoice
  <2> QED
    BY <2>2, <2>3, <2>4
<1>3. CASE DieInSay \/ (SignalDone /\ job.kind # "end")
  <2>1. job \in SayJobs /\ worker \in {"say", "signal"} /\ worker' \in {"get", "dead"} /\ ~turnOpen
        /\ UNCHANGED <<heard, closed>> /\ job.who \in Sayers
    BY <1>3, Kinds DEF DieInSay, SignalDone, BaseInv, JobInv
  <2>2. InHand(SayJobs) /\ GoesOn
    BY <1>1, <2>1 DEF InHand, Busy, Takes
  <2>3. asking' = [asking EXCEPT ![job.who] = "answered"]
    BY <1>3 DEF DieInSay, SignalDone
  <2>4. ASSUME NEW a \in Sayers \cup Pickers, a # job.who
        PROVE  asking'[a] = asking[a]
    BY <1>1, <2>3, <2>4
  <2>5. asking'[job.who] = "answered"
    BY <1>1, <2>1, <2>3
  <2> QED
    BY <2>1, <2>2, <2>4, <2>5
<1>4. CASE ~(\/ SetConversationVoice \/ RefuseConversationVoice \/ DieInSay
             \/ (SignalDone /\ job.kind # "end"))
  <2>1. asking' = asking
    BY <1>4 DEF Worker, TakeSentinel, DropWord, SpeakWord, FailToOpen, CloseUnopened,
       CloseInterrupted, CloseByDraining, Closing, BeginSay, FailSay, Pump, Pumped, Drain, Drained,
       StepGenerator, Ended, DropFrame, Dropping, KeepFrame, SendFrame, WordRaises, CloseRaises,
       SayRaises, Raised, RecordEmission, MarkSpoken, SignalDone, accounts
  <2> QED
    BY <2>1
<1> QED
  BY <1>2, <1>3, <1>4

LEMMA AskJobFields ==
    /\ \A j \in AskJobs : j \in Jobs /\ j.who \in Sayers \cup Pickers
    /\ \A j \in SayJobs : j \in AskJobs /\ j.who \in Sayers
    /\ VoiceJobs \subseteq AskJobs /\ SayJobs \subseteq Jobs
  BY Kinds DEF AskJobs

LEMMA WorkerAskQueue ==
    ASSUME BaseInv, AskQueueInv, Worker
    PROVE  AskQueueInv'
<1>1. CASE Takes
  <2>1. \A i \in 1 .. Len(jobs') : i + 1 \in 1 .. Len(jobs) /\ jobs'[i] = jobs[i + 1] /\ i + 1 # 1
    BY <1>1 DEF Takes
  <2>2. 1 \in 1 .. Len(jobs) /\ ~GoesOn
    BY <1>1 DEF Takes, GoesOn, Busy
  <2>3. \A i, k \in 1 .. Len(jobs') :
           jobs'[i] \in AskJobs /\ jobs'[k] \in AskJobs /\ jobs'[i].who = jobs'[k].who => i = k
    <3>1. TAKE i, k \in 1 .. Len(jobs')
    <3>2. i + 1 = k + 1 => i = k
      OBVIOUS
    <3> QED
      BY <2>1, <3>2 DEF AskQueueInv
  <2>4. ASSUME NEW i \in 1 .. Len(jobs'), jobs'[i] \in AskJobs
        PROVE  asking'[jobs'[i].who] = "waiting" /\ ~(InHand(SayJobs)' /\ job'.who = jobs'[i].who)
    <3>1. /\ i + 1 \in 1 .. Len(jobs) /\ jobs'[i] = jobs[i + 1] /\ i + 1 # 1
          /\ jobs[i + 1] \in AskJobs
      BY <2>1, <2>4
    <3>2. asking[jobs'[i].who] = "waiting" /\ jobs'[i].who \in Sayers \cup Pickers
      BY <3>1, AskJobFields DEF AskQueueInv
    <3>3. jobs[1] \in AskJobs => jobs[1].who # jobs'[i].who
      BY <2>2, <3>1 DEF AskQueueInv
    <3>4. asking'[jobs'[i].who] = "waiting"
      BY <2>2, <3>2, <3>3, WorkerAnswers, AskJobFields
    <3>5. InHand(SayJobs)' => job' = jobs[1] /\ jobs[1] \in AskJobs
      BY <1>1, AskJobFields DEF Takes, InHand, Busy
    <3> QED
      BY <3>3, <3>4, <3>5
  <2> QED
    BY <2>3, <2>4 DEF AskQueueInv
<1>2. CASE GoesOn
  <2>1. UNCHANGED <<jobs, job>> /\ ~Takes /\ (InHand(SayJobs)' => InHand(SayJobs))
    BY <1>2 DEF GoesOn, Takes, Busy, InHand
  <2>2. ASSUME NEW i \in 1 .. Len(jobs), jobs[i] \in AskJobs
        PROVE  asking'[jobs[i].who] = "waiting" /\ ~(InHand(SayJobs)' /\ job.who = jobs[i].who)
    <3>1. asking[jobs[i].who] = "waiting" /\ ~(InHand(SayJobs) /\ job.who = jobs[i].who)
          /\ jobs[i].who \in Sayers \cup Pickers
      BY <2>2, AskJobFields DEF AskQueueInv
    <3> QED
      BY <2>1, <3>1, WorkerAnswers
  <2> QED
    BY <2>1, <2>2 DEF AskQueueInv
<1> QED
  BY <1>1, <1>2, WorkerTakes

\* Only a frame of the /say in hand is heard, and it leaves the generator.
LEMMA WorkerHears ==
    ASSUME BaseInv, Worker
    PROVE  \/ heard' = heard
           \/ /\ SendFrame /\ Saying /\ job \in SayJobs
              /\ heard' = [heard EXCEPT ![job.who] = heard[job.who] + 1]
<1>1. CASE SendFrame
  <2>1. Framing /\ Looping
    BY <1>1 DEF SendFrame, Midway, WorkerStep, Framing, Looping
  <2>2. CASE turnOpen
    <3>1. Head(pipeline).kind # "say"
      BY <2>1, <2>2, FirstUnit, Kinds
    <3> QED
      BY <1>1, <3>1 DEF SendFrame
  <2>3. CASE ~turnOpen
    <3>1. Head(pipeline) = job /\ job \in SayJobs /\ job.kind = "say"
      BY <2>1, <2>3, FirstUnit, Kinds
    <3> QED
      BY <1>1, <2>1, <2>3, <3>1 DEF SendFrame, Saying
  <2> QED
    BY <2>2, <2>3
<1>2. CASE ~SendFrame
  BY <1>2 DEF Worker, TakeSentinel, DropWord, SpeakWord, FailToOpen, CloseUnopened, CloseInterrupted,
     CloseByDraining, Closing, SetConversationVoice, RefuseConversationVoice, Taking, BeginSay,
     FailSay, DieInSay, Pump, Pumped, Drain, Drained, StepGenerator, Ended, DropFrame, Dropping,
     KeepFrame, WordRaises, CloseRaises, SayRaises, Raised, RecordEmission, MarkSpoken, SignalDone,
     accounts
<1> QED
  BY <1>1, <1>2

\* A /say that is taken waits for the turn before it to be closed.
LEMMA WorkerTakesSay ==
    ASSUME BaseInv, Worker, Takes, InHand(SayJobs)'
    PROVE  worker' = "say" \/ (worker' = "drain" /\ turnOpen')
<1>1. worker = "get" /\ worker' \notin {"get", "exit", "dead"} /\ job' \in SayJobs
  BY DEF Takes, InHand, Busy
<1>2. CASE SpeakWord
  <2>1. Taking("word", "speak") /\ "speak" \in WorkerStates
    BY <1>2 DEF SpeakWord, WorkerStates
  <2> QED
    BY <1>1, <2>1, TakingJobs, Kinds
<1>3. CASE \E kind \in {"end", "say"} :
              CloseUnopened(kind) \/ CloseInterrupted(kind) \/ CloseByDraining(kind)
  <2>1. PICK kind \in {"end", "say"} :
             CloseUnopened(kind) \/ CloseInterrupted(kind) \/ CloseByDraining(kind)
    BY <1>3
  <2>2. PICK to \in {"drain", "signal", "say"} :
             Taking(kind, to) /\ (to = AfterClose(kind) \/ (to = "drain" /\ turnOpen'))
    BY <2>1 DEF CloseUnopened, CloseInterrupted, CloseByDraining, Closing, AfterClose, turnFlags
  <2>3. kind = "say" /\ worker' = to
    BY <1>1, <2>2, TakingJobs, TakenJob, Kinds DEF WorkerStates, BaseInv
  <2> QED
    BY <2>2, <2>3 DEF AfterClose
<1> QED
  BY <1>1, <1>2, <1>3 DEF Worker, TakeSentinel, DropWord, FailToOpen, SetConversationVoice,
     RefuseConversationVoice, Taking, BeginSay, FailSay, DieInSay, Pump, Pumped, Drain, Drained,
     StepGenerator, Ended, DropFrame, Dropping, KeepFrame, SendFrame, WordRaises, CloseRaises,
     SayRaises, Raised, RecordEmission, MarkSpoken, SignalDone, Midway, WorkerStep

\* What the steps of a /say do to what was heard of it and what is to come.
LEMMA WorkerSpeaksSay ==
    ASSUME BaseInv, Worker, GoesOn, job \in SayJobs, SayHandInv
    PROVE  InHand(SayJobs)' =>
              \/ Saying' /\ heard'[job.who] + Len(pipeline') = SayEntries
              \/ ~Saying' /\ worker' # "signal" /\ heard'[job.who] = 0
              \/ worker' = "signal" /\ (heard'[job.who] \in {0, SayEntries} \/ job.who \in closed')
<1> USE DEF Midway, WorkerStep
<1>1. /\ pipeline \in Seq(Units) /\ Len(pipeline) \in Nat /\ turnOpen \in BOOLEAN
      /\ heard \in [Sayers -> Nat] /\ job.who \in Sayers /\ job.kind = "say"
      /\ heard[job.who] \in Nat /\ SayEntries \in Nat /\ job \notin WordJobs
      /\ back \in {"speak", "drain"}
  BY WordNumbers, Kinds, BoundsAssumption DEF BaseInv, Typed
<1>2. worker # "get" /\ InHand(SayJobs)
  BY DEF GoesOn, Busy, InHand
<1>3. \/ Saying /\ heard[job.who] + Len(pipeline) = SayEntries
      \/ ~Saying /\ worker # "signal" /\ heard[job.who] = 0
      \/ worker = "signal" /\ (heard[job.who] \in {0, SayEntries} \/ job.who \in closed)
  BY <1>2 DEF SayHandInv
<1>4. CASE BeginSay
  <2>1. worker = "say" /\ ~turnOpen /\ ~turnOpen' /\ worker' = "speak" /\ heard' = heard
    BY <1>4 DEF BeginSay, accounts, BaseInv, JobInv
  <2>2. heard[job.who] = 0
    BY <1>3, <2>1 DEF Saying, Looping, Framing
  <2>3. Len(pipeline') = SayEntries
    <3>1. pipeline = <<>>
      BY <2>1 DEF BaseInv, UnitsInv, Looping, Framing
    <3>2. SayUnits \in Seq({job}) /\ <<>> \o SayUnits = SayUnits /\ Len(SayUnits) = SayEntries
      BY <1>1 DEF SayUnits
    <3> QED
      BY <1>4, <3>1, <3>2 DEF BeginSay, SpeakIn
  <2> QED
    BY <1>1, <2>1, <2>2, <2>3 DEF Saying, Looping
<1>5. CASE FailSay \/ DieInSay
  <2>1. worker = "say" /\ worker' \in {"signal", "dead"} /\ heard' = heard
    BY <1>5 DEF FailSay, DieInSay, accounts
  <2>2. heard[job.who] = 0
    BY <1>3, <2>1 DEF Saying, Looping, Framing
  <2> QED
    BY <2>1, <2>2 DEF InHand, Busy
<1>6. CASE Pump \/ Pumped \/ Drain \/ KeepFrame
  <2>1. /\ worker \in {"speak", "drain", "frame"} /\ worker' \in {"frame", "drain", "send"}
        /\ UNCHANGED <<turnOpen, pipeline, heard>>
    BY <1>1, <1>6 DEF Pump, Pumped, Drain, StepGenerator, KeepFrame, accounts, synthVars
  <2> QED
    BY <1>3, <2>1 DEF Saying, Looping, Framing
<1>7. CASE Drained
  <2>1. worker = "drain" /\ Len(pipeline) = 0 /\ heard' = heard
        /\ worker' = IF turnOpen THEN "say" ELSE "signal"
    BY <1>1, <1>7 DEF Drained, Ended, accounts, AfterClose
  <2>2. CASE turnOpen
    <3>1. heard[job.who] = 0
      BY <1>3, <2>1, <2>2 DEF Saying
    <3> QED
      BY <2>1, <2>2, <3>1 DEF Saying, Looping, Framing
  <2>3. CASE ~turnOpen
    <3>1. heard[job.who] = SayEntries
      BY <1>1, <1>3, <2>1, <2>3 DEF Saying, Looping
    <3> QED
      BY <2>1, <2>3, <3>1
  <2> QED
    BY <2>2, <2>3
<1>8. CASE DropFrame \/ RecordEmission \/ (SendFrame /\ turnOpen)
  <2>1. /\ turnOpen /\ Framing /\ UNCHANGED turnOpen /\ worker' \in {"speak", "drain", "record"}
    BY <1>1, <1>8 DEF DropFrame, Dropping, RecordEmission, SendFrame, Framing, turnFlags, BaseInv,
       JobInv, UnitsInv, Saying, Looping
  <2>2. heard' = heard
    BY <2>1, WorkerHears DEF Saying
  <2>3. heard[job.who] = 0 /\ ~Saying'
    BY <1>3, <2>1 DEF Saying, Framing
  <2> QED
    BY <2>1, <2>2, <2>3
<1>9. CASE SendFrame /\ ~turnOpen
  <2>1. Framing /\ Saying /\ worker = "send"
    BY <1>9 DEF SendFrame, Framing, Saying, Looping
  <2>2. ~conversationAudio
    BY <2>1 DEF BaseInv, UnitsInv
  <2>3. pipeline' = Tail(pipeline) /\ worker' = back /\ turnOpen' = turnOpen
    BY <1>9, <2>2 DEF SendFrame, turnFlags
  <2>4. Len(pipeline') = Len(pipeline) - 1
    BY <2>1, <2>3, FirstUnit
  <2>5. heard'[job.who] = heard[job.who] + 1
    <3>1. Head(pipeline) = job
      BY <1>9, <2>1, FirstUnit
    <3>2. heard' = [heard EXCEPT ![job.who] = heard[job.who] + 1]
      BY <1>1, <1>9, <3>1 DEF SendFrame
    <3> QED
      BY <1>1, <3>2
  <2>6. Saying' /\ heard[job.who] + Len(pipeline) = SayEntries
    BY <1>1, <1>3, <1>9, <2>1, <2>3 DEF Saying, Looping
  <2> QED
    BY <1>1, <2>4, <2>5, <2>6
<1>10. CASE CloseRaises
  <2>1. turnOpen /\ worker = "send" /\ worker' = "say" /\ turnOpen' = FALSE /\ heard' = heard
    BY <1>1, <1>10 DEF CloseRaises, Raised, AfterClose, ForgetTurn
  <2>2. heard[job.who] = 0
    BY <1>3, <2>1 DEF Saying
  <2> QED
    BY <2>1, <2>2 DEF Saying, Looping, Framing
<1>11. CASE SayRaises
  <2>1. worker = "send" /\ worker' = "signal" /\ ~turnOpen /\ target \in closed /\ closed' = closed
    BY <1>11 DEF SayRaises, Raised
  <2>2. target = job.who
    BY <2>1 DEF BaseInv, UnitsInv, Saying, Looping, Framing
  <2> QED
    BY <2>1, <2>2
<1>12. CASE WordRaises \/ MarkSpoken \/ SignalDone
  BY <1>1, <1>12 DEF WordRaises, MarkSpoken, SignalDone, BaseInv, JobInv, InHand, Busy
<1> QED
  BY <1>2, <1>4, <1>5, <1>6, <1>7, <1>8, <1>9, <1>10, <1>11, <1>12 DEF Worker, TakeSentinel, DropWord,
     SpeakWord, FailToOpen, CloseUnopened, CloseInterrupted, CloseByDraining, Closing,
     SetConversationVoice, RefuseConversationVoice, Taking

\* The worker lets a /say go only with an answer.
LEMMA WorkerLetsGo ==
    ASSUME BaseInv, Worker, GoesOn, job \in SayJobs, ~Busy'
    PROVE  asking'[job.who] = "answered"
<1> USE DEF Midway, WorkerStep
<1>1. /\ asking \in [Sayers \cup Pickers -> AskStates] /\ job.who \in Sayers /\ job.kind = "say"
      /\ job \notin WordJobs /\ back \in {"speak", "drain"}
  BY Kinds DEF BaseInv, Typed
<1>2. worker # "get" /\ worker' \in {"get", "exit", "dead"}
  BY DEF GoesOn, Busy
<1>3. CASE DieInSay \/ SignalDone
  <2>1. asking' = [asking EXCEPT ![job.who] = "answered"]
    BY <1>1, <1>3 DEF DieInSay, SignalDone
  <2> QED
    BY <1>1, <2>1
<1>4. CASE MarkSpoken \/ WordRaises
  BY <1>1, <1>4 DEF MarkSpoken, WordRaises, BaseInv, JobInv
<1>5. CASE ~(DieInSay \/ SignalDone \/ MarkSpoken \/ WordRaises)
  BY <1>1, <1>2, <1>5 DEF Worker, TakeSentinel, DropWord, SpeakWord, FailToOpen, CloseUnopened,
     CloseInterrupted, CloseByDraining, Closing, SetConversationVoice, RefuseConversationVoice,
     Taking, BeginSay, FailSay, Pump, Pumped, Drain, Drained, StepGenerator, Ended, DropFrame,
     Dropping, KeepFrame, SendFrame, CloseRaises, SayRaises, Raised, RecordEmission, AfterClose
<1> QED
  BY <1>3, <1>4, <1>5

LEMMA WorkerSay ==
    ASSUME BaseInv, SayInv, Worker
    PROVE  SayHandInv' /\ HeardInv'
<1>1. /\ AskQueueInv /\ SayHandInv /\ HeardInv /\ SayIsWhole
      /\ heard \in [Sayers -> Nat] /\ closed' = closed /\ SayEntries \in Nat
  BY WorkerLeaves, BoundsAssumption DEF SayInv, HeardInv, BaseInv, Typed
<1>2. CASE Takes
  <2>1. worker = "get" /\ ~InHand(SayJobs) /\ ~GoesOn /\ 1 \in 1 .. Len(jobs)
        /\ (InHand(SayJobs)' => job' = jobs[1])
    BY <1>2 DEF Takes, GoesOn, InHand, Busy
  <2>2. heard' = heard
    BY <2>1, WorkerHears DEF Saying, Looping, Framing
  <2>3. ASSUME jobs[1] \in AskJobs
        PROVE  asking[jobs[1].who] = "waiting"
    BY <1>1, <2>1, <2>3 DEF AskQueueInv
  <2>4. \A s \in Sayers : asking'[s] = asking[s] \/ (asking[s] = "waiting" /\ heard[s] = 0)
    <3>1. TAKE s \in Sayers
    <3>2. asking'[s] = asking[s] \/ (jobs[1] \in AskJobs /\ s = jobs[1].who)
      BY <2>1, WorkerAnswers, AskJobFields
    <3> QED
      BY <1>1, <2>1, <2>3, <3>2 DEF HeardInv
  <2>5. HeardInv'
    BY <1>1, <2>1, <2>2, <2>4 DEF HeardInv, SayIsWhole
  <2>6. ASSUME InHand(SayJobs)'
        PROVE  /\ asking'[job'.who] = "waiting" /\ heard'[job'.who] = 0
               /\ ~Saying' /\ worker' # "signal"
    <3>1. job' = jobs[1] /\ jobs[1] \in SayJobs /\ jobs[1].who \in Sayers
          /\ jobs[1] \in AskJobs /\ jobs[1] \notin VoiceJobs
      BY <2>1, <2>6, AskJobFields, Kinds DEF InHand
    <3>2. asking'[jobs[1].who] = asking[jobs[1].who]
      BY <2>1, <3>1, WorkerAnswers
    <3>3. heard[jobs[1].who] = 0
      BY <1>1, <2>1, <2>3, <3>1 DEF HeardInv
    <3>4. ~Saying' /\ worker' # "signal"
      BY <1>2, <2>6, WorkerTakesSay DEF Saying, Looping, Framing
    <3> QED
      BY <2>2, <2>3, <3>1, <3>2, <3>3, <3>4
  <2> QED
    BY <2>5, <2>6 DEF SayHandInv
<1>3. CASE GoesOn /\ job \notin SayJobs
  <2>1. ~Takes /\ ~InHand(SayJobs) /\ ~InHand(SayJobs)'
    BY <1>3 DEF GoesOn, Takes, InHand, Busy
  <2>2. heard' = heard /\ \A s \in Sayers : asking'[s] = asking[s]
    BY <1>3, <2>1, WorkerHears, WorkerAnswers
  <2> QED
    BY <1>1, <2>1, <2>2 DEF SayHandInv, HeardInv, SayIsWhole
<1>4. CASE GoesOn /\ job \in SayJobs
  <2>1. ~Takes /\ InHand(SayJobs) /\ job' = job /\ job.who \in Sayers
        /\ (InHand(SayJobs)' <=> Busy')
    BY <1>4, AskJobFields DEF GoesOn, Takes, InHand, Busy
  <2>2. asking[job.who] = "waiting"
    BY <1>1, <2>1 DEF SayHandInv
  <2>3. ASSUME InHand(SayJobs)'
        PROVE  asking'[job.who] = "waiting"
    <3>1. worker' \notin {"get", "dead"}
      BY <2>3 DEF InHand, Busy
    <3> QED
      BY <2>1, <2>2, <3>1, WorkerAnswers
  <2>4. SayHandInv'
    BY <1>1, <1>4, <2>1, <2>3, WorkerSpeaksSay DEF SayHandInv
  <2>5. ASSUME NEW s \in Sayers, s # job.who
        PROVE  /\ asking'[s] = asking[s] /\ heard'[s] = heard[s]
               /\ (heard[s] = 0 \/ asking[s] = "answered")
    BY <1>1, <2>1, <2>5, WorkerHears, WorkerAnswers DEF HeardInv
  <2>6. heard'[job.who] = 0 \/ asking'[job.who] = "answered" \/ InHand(SayJobs)'
    BY <1>4, <2>1, WorkerLetsGo
  <2>7. heard'[job.who] <= SayEntries
    <3>1. CASE heard' = heard
      BY <1>1, <2>1, <3>1 DEF HeardInv
    <3>2. CASE SendFrame /\ Saying /\ heard' = [heard EXCEPT ![job.who] = heard[job.who] + 1]
      <4>1. heard[job.who] + Len(pipeline) = SayEntries
        <5>1. worker = "send"
          BY <3>2 DEF SendFrame, Midway, WorkerStep
        <5> QED
          BY <1>1, <2>1, <3>2, <5>1 DEF SayHandInv
      <4>2. Framing
        BY <3>2 DEF SendFrame, Midway, WorkerStep, Framing
      <4>3. Len(pipeline) \in Nat \ {0}
        BY <4>2, FirstUnit
      <4>4. heard'[job.who] = heard[job.who] + 1 /\ heard[job.who] \in Nat
        BY <1>1, <2>1, <3>2
      <4> QED
        BY <1>1, <4>1, <4>3, <4>4
    <3> QED
      BY <3>1, <3>2, WorkerHears
  <2>8. ASSUME asking'[job.who] = "answered"
        PROVE  heard'[job.who] \in {0, SayEntries} \/ job.who \in closed'
    <3>1. ~turnOpen /\ UNCHANGED <<heard, closed>> /\ worker \in {"say", "signal"}
      BY <2>1, <2>2, <2>8, WorkerAnswers
    <3>2. ~Saying
      BY <3>1 DEF Saying, Looping, Framing
    <3> QED
      BY <1>1, <2>1, <3>1, <3>2 DEF SayHandInv
  <2>9. HeardInv'
    <3>1. \A s \in Sayers : \/ heard'[s] = 0 \/ asking'[s] = "answered"
                            \/ (InHand(SayJobs)' /\ job'.who = s)
      BY <2>1, <2>5, <2>6
    <3>2. \A s \in Sayers : heard'[s] <= SayEntries
      BY <1>1, <2>5, <2>7 DEF HeardInv
    <3>3. SayIsWhole'
      BY <1>1, <2>5, <2>8 DEF SayIsWhole
    <3> QED
      BY <3>1, <3>2, <3>3 DEF HeardInv
  <2> QED
    BY <2>4, <2>9
<1> QED
  BY <1>2, <1>3, <1>4, WorkerTakes

LEMMA SameSay ==
    ASSUME SayHandInv, HeardInv, UNCHANGED <<worker, job, pipeline, turnOpen, asking, heard>>,
           closed \subseteq closed'
    PROVE  SayHandInv' /\ HeardInv'
<1>1. InHand(SayJobs)' = InHand(SayJobs) /\ Saying' = Saying
  BY DEF InHand, Busy, Saying, Looping, Framing
<1> QED
  BY <1>1 DEF SayHandInv, HeardInv, SayIsWhole

LEMMA SameAskQueue ==
    ASSUME BaseInv, AskQueueInv, UNCHANGED <<worker, job, asking>>,
           jobs' = jobs \/ \E j \in Jobs \cup {None} : j \notin AskJobs /\ jobs' = Append(jobs, j)
    PROVE  AskQueueInv'
<1>1. InHand(SayJobs)' = InHand(SayJobs)
  BY DEF InHand, Busy
<1>2. \A i \in 1 .. Len(jobs') : jobs'[i] \in AskJobs => i \in 1 .. Len(jobs) /\ jobs'[i] = jobs[i]
  <2>1. CASE jobs' = jobs
    BY <2>1
  <2>2. ASSUME NEW j \in Jobs \cup {None}, j \notin AskJobs, jobs' = Append(jobs, j)
        PROVE  \A i \in 1 .. Len(jobs') :
                  jobs'[i] \in AskJobs => i \in 1 .. Len(jobs) /\ jobs'[i] = jobs[i]
    <3>1. /\ Len(jobs) \in Nat /\ Len(jobs') = Len(jobs) + 1
          /\ \A i \in 1 .. Len(jobs) : jobs'[i] = jobs[i]
          /\ jobs'[Len(jobs) + 1] = j
      BY <2>2, AppendOf DEF BaseInv, Typed
    <3>2. \A i \in 1 .. Len(jobs') : i \in 1 .. Len(jobs) \/ i = Len(jobs) + 1
      BY <3>1
    <3> QED
      BY <2>2, <3>1, <3>2
  <2> QED
    BY <2>1, <2>2
<1> QED
  BY <1>1, <1>2 DEF AskQueueInv

\* Each socket asks once, so a new request is neither queued nor in hand.
LEMMA AskSays ==
    ASSUME BaseInv, SayInv, NEW a \in Sayers \cup Pickers, NEW j \in AskJobs, j.who = a, Ask(a, j)
    PROVE  SayInv'
<1>1. /\ AskQueueInv /\ SayHandInv /\ HeardInv /\ SayIsWhole
      /\ asking \in [Sayers \cup Pickers -> AskStates]
      /\ jobs \in Seq(Jobs \cup {None}) /\ stopped \in BOOLEAN /\ asking[a] = "new"
  BY DEF SayInv, HeardInv, BaseInv, Typed, Ask
<1>2. UNCHANGED <<worker, job, pipeline, turnOpen, heard, closed>>
  BY DEF Ask, workVars, synthVars, ghostVars
<1>3. InHand(SayJobs)' = InHand(SayJobs) /\ Saying' = Saying
  BY <1>2 DEF InHand, Busy, Saying, Looping, Framing
<1>4. /\ asking'[a] = IF stopped THEN "rejected" ELSE "waiting"
      /\ \A b \in Sayers \cup Pickers : b # a => asking'[b] = asking[b]
  BY <1>1 DEF Ask
<1>5. /\ InHand(SayJobs) => job.who # a /\ job.who \in Sayers
      /\ \A i \in 1 .. Len(jobs) :
            jobs[i] \in AskJobs => jobs[i].who # a /\ jobs[i].who \in Sayers \cup Pickers
  BY <1>1, AskJobFields DEF SayHandInv, AskQueueInv, InHand
<1>6. SayHandInv'
  BY <1>1, <1>2, <1>3, <1>4, <1>5 DEF SayHandInv
<1>7. HeardInv'
  <2>1. \A s \in Sayers : asking'[s] = asking[s] \/ (asking[s] = "new" /\ asking'[s] # "answered")
    BY <1>1, <1>4
  <2>2. \A s \in Sayers : heard[s] = 0 \/ asking[s] = "answered" \/ (InHand(SayJobs) /\ job.who = s)
    BY <1>1 DEF HeardInv
  <2>3. \A s \in Sayers : asking[s] = "new" => heard[s] = 0
    BY <1>1, <2>2 DEF SayHandInv
  <2> QED
    BY <1>1, <1>2, <1>3, <2>1, <2>2, <2>3 DEF HeardInv, SayIsWhole
<1>8. AskQueueInv'
  <2>1. CASE stopped
    <3>1. jobs' = jobs
      BY <2>1 DEF Ask, Admit
    <3> QED
      BY <1>1, <1>2, <1>3, <1>4, <1>5, <3>1 DEF AskQueueInv
  <2>2. CASE ~stopped
    <3>1. jobs' = Append(jobs, j) /\ j \in Jobs \cup {None}
      BY <2>2, AskJobFields DEF Ask, Admit
    <3>2. /\ Len(jobs) \in Nat /\ Len(jobs') = Len(jobs) + 1
          /\ \A i \in 1 .. Len(jobs) : jobs'[i] = jobs[i]
          /\ jobs'[Len(jobs) + 1] = j
      BY <1>1, <3>1, AppendOf
    <3>3. \A i \in 1 .. Len(jobs') : \/ i \in 1 .. Len(jobs) /\ jobs'[i] = jobs[i]
                                     \/ i = Len(jobs) + 1 /\ jobs'[i] = j
      BY <3>2
    <3>4. \A i, k \in 1 .. Len(jobs') :
             jobs'[i] \in AskJobs /\ jobs'[k] \in AskJobs /\ jobs'[i].who = jobs'[k].who => i = k
      BY <1>1, <1>5, <3>3 DEF AskQueueInv
    <3>5. \A i \in 1 .. Len(jobs') : jobs'[i] \in AskJobs =>
             asking'[jobs'[i].who] = "waiting" /\ ~(InHand(SayJobs) /\ job.who = jobs'[i].who)
      BY <1>1, <1>4, <1>5, <2>2, <3>3 DEF AskQueueInv
    <3> QED
      BY <1>2, <1>3, <3>4, <3>5 DEF AskQueueInv
  <2> QED
    BY <2>1, <2>2
<1> QED
  BY <1>6, <1>7, <1>8 DEF SayInv

LEMMA SayStep == BaseInv /\ SayInv /\ [Next]_vars => SayInv'
<1>1. ASSUME BaseInv, SayInv, Worker
      PROVE  SayInv'
  BY <1>1, WorkerAskQueue, WorkerSay DEF SayInv
<1>2. ASSUME BaseInv, SayInv, UNCHANGED <<worker, job, pipeline, turnOpen, asking, heard>>,
             closed \subseteq closed',
             \/ jobs' = jobs
             \/ \E j \in Jobs \cup {None} : j \notin AskJobs /\ jobs' = Append(jobs, j)
      PROVE  SayInv'
  BY <1>2, SameAskQueue, SameSay DEF SayInv
<1>3. None \notin AskJobs
  BY SentinelAssumption, AskJobFields
<1>4. ASSUME BaseInv, SayInv, TurnLoop
      PROVE  SayInv'
  <2>1. UNCHANGED <<worker, job, pipeline, turnOpen, asking, heard, closed>>
    BY <1>4, TurnLoopLeaves DEF synthVars, workVars
  <2>2. ASSUME NEW j, j.kind \in {"word", "end"}
        PROVE  j \notin AskJobs
    BY <2>2, Kinds DEF AskJobs
  <2>3. CASE StreamWord
    <3>1. served \in 1 .. MaxTurns /\ owner \in Conns /\ spoken + 1 \in 1 .. MaxWords
      BY <1>4, <2>3, BoundsAssumption DEF StreamWord, ReplyStep, BaseInv, BegunInv, Typed
    <3>2. Word(spoken + 1) \in Jobs /\ Word(spoken + 1).kind = "word"
      BY <3>1 DEF Word, WordJobs, Jobs
    <3> QED
      BY <1>2, <1>4, <2>1, <2>2, <2>3, <3>2 DEF StreamWord, Admit
  <2>4. CASE EndTurn
    <3>1. served \in 1 .. MaxTurns
      BY <1>4, <2>4, BoundsAssumption DEF EndTurn, ReplyStep, BaseInv, BegunInv, Typed
    <3>2. End \in Jobs /\ End.kind = "end"
      BY <3>1 DEF End, EndJobs, Jobs
    <3> QED
      BY <1>2, <1>4, <2>1, <2>2, <2>4, <3>2 DEF EndTurn, Admit
  <2>5. CASE ~(StreamWord \/ EndTurn)
    <3>1. jobs' = jobs
      BY <1>4, <2>5 DEF TurnLoop, CheckStopping, BeginTurn, StreamEnds, WaitLooks, WaitAgain, Recheck,
         WaitForCleanup, WaitCutShort, WaitDrained, FinishTurn, Go, WaitReturns
    <3> QED
      BY <1>2, <1>4, <2>1, <3>1
  <2> QED
    BY <2>3, <2>4, <2>5
<1>5. ASSUME BaseInv, SayInv, (\E s \in Sayers : AskSay(s)) \/ (\E p \in Pickers : AskVoice(p))
      PROVE  SayInv'
  <2>1. PICK a \in Sayers \cup Pickers, j \in AskJobs : j.who = a /\ Ask(a, j)
    BY <1>5 DEF AskSay, AskVoice, AskJobs, SayJobs, VoiceJobs
  <2> QED
    BY <1>5, <2>1, AskSays
<1>6. ASSUME BaseInv, SayInv, Environment \/ Shutdown
      PROVE  SayInv'
  <2>1. /\ UNCHANGED <<synthVars, workVars, asking, heard>>
        /\ closed \subseteq closed'
        /\ jobs' = jobs \/ jobs' = Append(jobs, None)
    BY <1>6 DEF Environment, Shutdown, BargeInOrDisconnect, CloseSocket, StopServing,
       InterruptSession, StopTts, ghostVars
  <2>2. UNCHANGED <<worker, job, pipeline, turnOpen, asking, heard>>
    BY <2>1 DEF synthVars, workVars
  <2> QED
    BY <1>2, <1>3, <1>6, <2>1, <2>2
<1>7. ASSUME BaseInv, SayInv, UNCHANGED vars
      PROVE  SayInv'
  <2>1. UNCHANGED <<worker, job, pipeline, turnOpen, asking, heard, closed, jobs>>
    BY <1>7 DEF vars, synthVars, workVars, ghostVars
  <2> QED
    BY <1>2, <1>7, <2>1
<1> QED
  BY <1>1, <1>4, <1>5, <1>6, <1>7 DEF Next

LEMMA SayHolds == Spec => [](BaseInv /\ NumberInv /\ SayInv)
<1>1. ASSUME Init
      PROVE  SayInv
  <2>1. jobs = <<>> /\ worker = "get" /\ \A s \in Sayers : heard[s] = 0
    BY <1>1 DEF Init
  <2> QED
    BY <2>1, EmptyOf, BoundsAssumption DEF SayInv, AskQueueInv, SayHandInv, HeardInv, SayIsWhole,
       InHand, Busy
<1>2. BaseInv /\ SayInv /\ [Next]_vars => SayInv'
  BY SayStep
<1> QED
  BY <1>1, <1>2, ShapeHolds, WordsHold, PTL DEF Spec

\* SayIsWhole, for every number of sockets, length of text and lookahead, with
\* interruptions, closes and the shutdown at any step.
THEOREM SaysAreWhole == Spec => []SayIsWhole
<1>1. SayInv => SayIsWhole
  BY DEF SayInv, HeardInv
<1> QED
  BY <1>1, SayHolds, PTL

\* TypeOK, with its bounds: no more frames are recorded than words were spoken,
\* and no more of a /say is heard than it says.
THEOREM TypeCorrect == Spec => []TypeOK
<1>1. BaseInv /\ NumberInv /\ SayInv => TypeOK
  BY BoundsAssumption DEF BaseInv, NumberInv, SayInv, HeardInv, Typed, TypeOK
<1> QED
  BY <1>1, SayHolds, PTL

=============================================================================
