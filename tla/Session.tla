------------------------------ MODULE Session ------------------------------
(***************************************************************************)
(* ConversationSession of src/sleeper/conversation.py: who owns the one    *)
(* conversation socket, whose turn it is to speak, and whether the reply   *)
(* being spoken has been interrupted.                                      *)
(*                                                                         *)
(* Every operator below is one critical section of _state_guard (or one    *)
(* operation on _connection_guard); the threads that perform them are in   *)
(* TurnTaking.  A method that takes a lock twice is two operators.         *)
(***************************************************************************)
EXTENDS Naturals

CONSTANTS Conns,     \* the /conversation sockets, one element per connection
          None       \* Python's None: no connection, or the queue's sentinel

ASSUME NoneAssumption == None \notin Conns

VARIABLES guard,        \* the holder of _connection_guard, or None
          connection,   \* _connection
          phase,        \* _phase
          interrupted,  \* the _interrupted event
          turn          \* _turn: the serial number of the open AssistantTurn, or 0

sessionVars == <<guard, connection, phase, interrupted, turn>>

ConnOrNone == Conns \cup {None}
Phases     == {"user", "assistant"}

SessionTypeOK ==
    /\ guard \in ConnOrNone
    /\ connection \in ConnOrNone
    /\ phase \in Phases
    /\ interrupted \in BOOLEAN
    /\ turn \in Nat

SessionInit ==
    /\ guard = None
    /\ connection = None
    /\ phase = "user"
    /\ interrupted = FALSE
    /\ turn = 0

-----------------------------------------------------------------------------
\* try_connect takes the connection guard without blocking, then publishes.

AcquireGuard_Stolen(ws) ==      \* mutant: acquire() no longer excludes
    /\ guard' = ws
    /\ UNCHANGED <<connection, phase, interrupted, turn>>

AcquireGuard(ws) ==
    /\ guard = None
    /\ guard' = ws
    /\ UNCHANGED <<connection, phase, interrupted, turn>>

GuardHeld == guard # None

PublishConnection_KeepPhase(ws) ==      \* mutant: the phase is not reset
    /\ connection' = ws
    /\ UNCHANGED <<guard, phase, interrupted, turn>>

PublishConnection(ws) ==
    /\ connection' = ws
    /\ phase' = "user"
    /\ UNCHANGED <<guard, interrupted, turn>>

\* disconnect interrupts and clears the connection, then releases the guard.

ClearConnection ==
    /\ interrupted' = TRUE
    /\ connection' = None
    /\ UNCHANGED <<guard, phase, turn>>

ReleaseGuard ==
    /\ guard' = None
    /\ UNCHANGED <<connection, phase, interrupted, turn>>

-----------------------------------------------------------------------------
\* The turn-taking transitions.

UserTurnFinished_Clears ==      \* mutant: the hand-off also clears interruption
    /\ phase' = "assistant"
    /\ interrupted' = FALSE
    /\ UNCHANGED <<guard, connection, turn>>

UserTurnFinished ==
    /\ phase' = "assistant"
    /\ UNCHANGED <<guard, connection, interrupted, turn>>

AssistantTurnStarted_KeepStale(t) ==    \* mutant: a stale interruption survives
    /\ phase' = "assistant"
    /\ turn' = t
    /\ UNCHANGED <<guard, connection, interrupted>>

AssistantTurnStarted(t) ==
    /\ phase' = "assistant"
    /\ interrupted' = FALSE
    /\ turn' = t
    /\ UNCHANGED <<guard, connection>>

AssistantTurnFinished(completed) ==
    /\ phase' = IF completed THEN "user" ELSE phase
    /\ interrupted' = FALSE
    /\ turn' = 0
    /\ UNCHANGED <<guard, connection>>

\* abandon_assistant_turn first takes the turn out of the session ...
TakeTurn ==
    /\ turn' = 0
    /\ UNCHANGED <<guard, connection, phase, interrupted>>

\* ... and, once the turn has drained, reclaims the mic unconditionally.
ReclaimMic_KeepPhase ==         \* mutant: a failed reply keeps the assistant phase
    /\ interrupted' = FALSE
    /\ UNCHANGED <<guard, connection, phase, turn>>

ReclaimMic ==
    /\ phase' = "user"
    /\ interrupted' = FALSE
    /\ UNCHANGED <<guard, connection, turn>>

BargeIn ==
    /\ interrupted' = TRUE
    /\ phase' = "user"
    /\ UNCHANGED <<guard, connection, turn>>

ReturnToUser ==
    /\ phase' = "user"
    /\ UNCHANGED <<guard, connection, interrupted, turn>>

Interrupt ==
    /\ interrupted' = TRUE
    /\ UNCHANGED <<guard, connection, phase, turn>>
=============================================================================
