----------------------------- MODULE Deployment -----------------------------
(***************************************************************************)
(* A client somewhere and the server's container: the client reaches a      *)
(* socket only while sleeper serves, its connection is lost when sleeper    *)
(* ends, and whoever runs the container starts it again.                   *)
(***************************************************************************)
EXTENDS Client, Supervisor, GainKeys

CONSTANTS MaxRestarts,    \* bound: times the container is started again
          MaxTroubles     \* bound: losses and failures of a network with a server behind it

VARIABLES restarts, troubles

boundVars == <<restarts, troubles>>
vars == <<clientVars, supervisorVars, gainVars, boundVars>>

TypeOK == ClientTypeOK /\ SupervisorTypeOK /\ GainTypeOK

Init ==
    /\ ClientInit /\ SupervisorInit /\ GainInit
    /\ restarts = 0 /\ troubles = 0

\* The network, with or without a server behind it.
Trouble ==
    /\ Serving => troubles < MaxTroubles
    /\ troubles' = IF Serving THEN troubles + 1 ELSE troubles
    /\ UNCHANGED <<supervisorVars, gainVars, restarts>>

ClientAlone == UNCHANGED <<supervisorVars, gainVars, boundVars>>

\* The sockets of sleeper are closed when it ends.
Hangup ==
    /\ link' = IF link = "open" /\ ~Serving' THEN "lost" ELSE link
    /\ UNCHANGED <<run, connection, wire, taskVars, queueVars, gainVars, boundVars>>

StartAgain ==
    /\ restarts < MaxRestarts
    /\ Restart
    /\ restarts' = restarts + 1
    /\ UNCHANGED <<clientVars, gainVars, troubles>>

\* The keys share nothing with the connection (bound: a behaviour in which keys
\* are typed shows nothing else).
Keys ==
    /\ ClientInit /\ SupervisorInit
    /\ GainNext
    /\ UNCHANGED <<clientVars, supervisorVars, boundVars>>

Next ==
    \/ Keys
    \/ /\ typed = <<>>
       /\ \/ ClientAlone /\ (capture \/ play \/ Tasks \/ Loop)
          \/ ClientAlone /\ Serving /\ (Dial \/ \E message \in Messages : Arrives(message))
          \/ Trouble /\ (LoseLink \/ ConnectFails)
          \/ SupervisorNext /\ Hangup
          \/ StartAgain

\* The loop and the tasks run; a server that serves is reached in the end.
Fairness ==
    /\ SupervisorFairness
    /\ WF_clientVars(Loop) /\ WF_clientVars(Receive)
    /\ WF_clientVars(Serving /\ Dial)

Spec == Init /\ [][Next]_vars /\ Fairness

-----------------------------------------------------------------------------

\* Once a server stays up, the client is connected to it for good, however
\* many connections and attempts were lost before: whatever ends the tasks, the
\* loop of _run clears up and tries again, unless it met something fatal.
ClientComesBack == <>[]Serving => <>[](run = "waiting" \/ Fatal)
=============================================================================
