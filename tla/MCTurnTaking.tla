---------------------------- MODULE MCTurnTaking ----------------------------
(***************************************************************************)
(* TurnTaking on small instances.  What takes long to go wrong needs one   *)
(* socket that talks for long; what goes wrong around a change of owner    *)
(* needs two, each with the frames of one prompt.                          *)
(***************************************************************************)
EXTENDS TurnTaking, TLC

CONSTANTS c1, c2

OneConn  == {c1}
TwoConns == {c1, c2}

OneTalker   == [c \in {c1} |-> 6]        \* three prompts, or barge-ins between them
TalkerFirst == c1 :> 4 @@ c2 :> 1
OneSpeaker  == [c \in {c1} |-> 4]
Both        == [c \in {c1, c2} |-> 2]
=============================================================================
