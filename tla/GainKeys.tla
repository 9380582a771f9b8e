------------------------------ MODULE GainKeys ------------------------------
(***************************************************************************)
(* PlaybackGain and _gain_controls of client.py: arrow keys arrive on      *)
(* standard input as escape sequences of three bytes, cut into reads       *)
(* wherever the terminal pleases, and step the gain between its limits.    *)
(***************************************************************************)
EXTENDS Integers, Sequences, SequencesExt, FiniteSetsExt

CONSTANTS Bytes,          \* Esc, Bracket, ArrowUp, ArrowDown; any other is like Bracket
          Esc, Bracket, ArrowUp, ArrowDown,
          GAIN_STEP_DECIBELS, MIN_GAIN_DECIBELS, MAX_GAIN_DECIBELS,
          MaxRead,        \* bound: bytes of one read (1024 in the code)
          MaxTyped        \* bound: bytes typed in all

ASSUME BytesAssumption ==
    {Esc, Bracket, ArrowUp, ArrowDown} \subseteq Bytes /\ Esc \notin {Bracket, ArrowUp, ArrowDown}
ASSUME ReadsAssumption == MaxRead \in Nat
ASSUME LimitsAssumption ==
    /\ GAIN_STEP_DECIBELS \in Int
    /\ MIN_GAIN_DECIBELS \in Int /\ MAX_GAIN_DECIBELS \in Int
    /\ MIN_GAIN_DECIBELS <= 0 /\ 0 <= MAX_GAIN_DECIBELS

VARIABLES typed,          \* ghost: every byte read so far
          buffer,         \* the bytes kept for the next read
          decibels        \* PlaybackGain._snapshot
gainVars == <<typed, buffer, decibels>>

UpSequence   == <<Esc, Bracket, ArrowUp>>
DownSequence == <<Esc, Bracket, ArrowDown>>
Steps == [keys \in {UpSequence, DownSequence} |->
             IF keys = UpSequence THEN GAIN_STEP_DECIBELS ELSE -GAIN_STEP_DECIBELS]

adjust(level, delta) == Max({MIN_GAIN_DECIBELS, Min({MAX_GAIN_DECIBELS, level + delta})})

\* _consume_gain_keys, and the adjustments it returns, from the level before:
\* what stays in the buffer, and the level after.
Consume[from \in Seq(Bytes) \X Int] ==
    LET bytes  == from[1]
        level  == from[2]
        prefix == SubSeq(bytes, 1, 3)
        rest   == SubSeq(bytes, 4, Len(bytes))
    IN  IF bytes = <<>> \/ (bytes[1] = Esc /\ Len(bytes) < 3)
        THEN [left |-> bytes, decibels |-> level]
        ELSE IF bytes[1] = Esc /\ prefix \in DOMAIN Steps
        THEN Consume[<<rest, adjust(level, Steps[prefix])>>]
        ELSE Consume[<<Tail(bytes), level>>]

GainInit == typed = <<>> /\ buffer = <<>> /\ decibels = 0

\* on_readable.
Read_DropsTail(chunk) ==        \* mutant: each read is parsed on its own
    /\ Len(typed) + Len(chunk) <= MaxTyped
    /\ typed' = typed \o chunk
    /\ decibels' = Consume[<<chunk, decibels>>].decibels
    /\ UNCHANGED buffer

Read(chunk) ==
    /\ Len(typed) + Len(chunk) <= MaxTyped
    /\ typed' = typed \o chunk
    /\ LET consumed == Consume[<<buffer \o chunk, decibels>>]
       IN  buffer' = consumed.left /\ decibels' = consumed.decibels

GainNext == \E n \in 1 .. MaxRead : \E chunk \in [1 .. n -> Bytes] : Read(chunk)

-----------------------------------------------------------------------------
GainTypeOK ==
    /\ buffer \in Seq(Bytes) /\ Len(buffer) < 3
    /\ decibels \in MIN_GAIN_DECIBELS .. MAX_GAIN_DECIBELS

\* The level that keys lead to: an arrow key counts when its last byte is there.
LevelAfter[keys \in Seq(Bytes)] ==
    IF keys = <<>> THEN 0
    ELSE LET before == LevelAfter[Front(keys)]
             last   == SubSeq(keys, Len(keys) - 2, Len(keys))
         IN  IF Len(keys) >= 3 /\ last \in DOMAIN Steps THEN adjust(before, Steps[last]) ELSE before

\* However the bytes were cut into reads, the gain is the one that every arrow
\* key typed so far, each taken once and in order, leads to (_gain_controls: an
\* incomplete tail is retained until the remaining bytes arrive).
GainFollowsKeys == decibels = LevelAfter[typed]
=============================================================================
