----------------------------- MODULE Answering -----------------------------
(***************************************************************************)
(* What the server promises of the prompts it accepts, with no threads in  *)
(* it: they are taken up one at a time in the order they were spoken, each *)
(* is dropped or replied to once, a reply begins when no speech of an      *)
(* earlier one is left, its ending is true, and it is over when its own    *)
(* speech is -- except that a server that stops waits for nothing.         *)
(* TurnTaking implements this.                                             *)
(***************************************************************************)
EXTENDS Naturals, Sequences

CONSTANTS Prompts,
          Last       \* what the stopping server queues behind them

VARIABLES queue,     \* the prompts accepted and not taken up
          prompt,    \* the one taken up, or Last
          stage,     \* "none", "taken", "speaking" or "ended"
          replies,   \* how many replies have begun
          open,      \* the replies whose speech is not over
          cut,       \* somebody has interrupted
          whole,     \* how the last reply ended
          stopping

vars == <<queue, prompt, stage, replies, open, cut, whole, stopping>>

Init ==
    /\ queue = <<>> /\ prompt = Last /\ stage = "none"
    /\ replies = 0 /\ open = {}
    /\ cut = FALSE /\ whole = FALSE /\ stopping = FALSE

Accept(p) ==
    /\ p = Last => stopping
    /\ queue' = Append(queue, p)
    /\ UNCHANGED <<prompt, stage, replies, open, cut, whole, stopping>>

Advance(from, to) ==
    /\ stage = from
    /\ stage' = to
    /\ UNCHANGED stopping

Take ==
    /\ queue # <<>>
    /\ Advance("none", IF Head(queue) = Last THEN "none" ELSE "taken")
    /\ queue' = Tail(queue)
    /\ prompt' = Head(queue)
    /\ UNCHANGED <<replies, open, cut, whole>>

Drop ==
    /\ Advance("taken", "none")
    /\ prompt' = Last
    /\ UNCHANGED <<queue, replies, open, cut, whole>>

Begin ==
    /\ Advance("taken", "speaking")
    /\ open = {}
    /\ replies' = replies + 1
    /\ open' = {replies'}
    /\ cut' = FALSE
    /\ UNCHANGED <<queue, prompt, whole>>

End(result) ==
    /\ Advance("speaking", "ended")
    /\ IF result THEN open = {} ELSE cut \/ stopping
    /\ whole' = result
    /\ UNCHANGED <<queue, prompt, replies, open, cut>>

Finish ==
    /\ Advance("ended", "none")
    /\ open = {} \/ stopping
    /\ prompt' = Last
    /\ cut' = FALSE
    /\ UNCHANGED <<queue, replies, open, whole>>

\* The speech of a reply is over.
Close(r) ==
    /\ r \in open
    /\ open' = open \ {r}
    /\ UNCHANGED <<queue, prompt, stage, replies, cut, whole, stopping>>

Cut ==
    /\ cut' = TRUE
    /\ UNCHANGED <<queue, prompt, stage, replies, open, whole, stopping>>

Stop ==
    /\ stopping' = TRUE
    /\ UNCHANGED <<queue, prompt, stage, replies, open, cut, whole>>

Next ==
    \/ \E p \in Prompts \cup {Last} : Accept(p)
    \/ Take \/ Drop \/ Begin \/ Finish
    \/ \E result \in BOOLEAN : End(result)
    \/ \E r \in open : Close(r)
    \/ Cut \/ Stop

Spec == Init /\ [][Next]_vars
=============================================================================
