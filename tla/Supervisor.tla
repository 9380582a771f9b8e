----------------------------- MODULE Supervisor -----------------------------
(***************************************************************************)
(* docker/entrypoint.sh, process one of the container, and its two         *)
(* children.  Bash runs a trap between two commands, not in the middle of a *)
(* foreground one; only wait returns at once.  set -e ends the script when  *)
(* wait returns a status other than zero.  When process one ends, so does   *)
(* every process of the container.                                         *)
(***************************************************************************)
EXTENDS Naturals, FiniteSets

Children == {"llama", "sleeper"}

VARIABLES script,   \* where the script is
          status,   \* its exit status
          pending,  \* a SIGTERM or SIGINT it has not handled
          known,    \* the children whose pid a variable holds
          child,    \* per child: "absent", "starting", "ready" or "gone"
          left,     \* per child, the status it ended with
          termed    \* the children that were sent SIGTERM

supervisorVars == <<script, status, pending, known, child, left, termed>>

Clean  == 0
Failed == 1      \* exit 1, and any status of a child that failed
Killed == 143    \* 128 + SIGTERM
Unset  == 255

Alive(c) == child[c] \in {"starting", "ready"}
Gone     == {c \in Children : child[c] = "gone"}
Serving  == child["sleeper"] = "ready"

SupervisorTypeOK ==
    /\ script \in {"curl", "check", "sleep", "fork", "record", "wait", "exited"}
    /\ status \in {Clean, Failed, Killed, Unset}
    /\ pending \in BOOLEAN
    /\ known \subseteq Children /\ termed \subseteq known
    /\ child \in [Children -> {"absent", "starting", "ready", "gone"}]
    /\ left \in [Children -> {Clean, Failed, Killed, Unset}]

SupervisorInit ==
    /\ script = "curl" /\ status = Unset /\ pending = FALSE
    /\ known = {"llama"} /\ termed = {}
    /\ child = [c \in Children |-> IF c = "llama" THEN "starting" ELSE "absent"]
    /\ left = [c \in Children |-> Unset]

-----------------------------------------------------------------------------
\* The children, and who stops the container.

Ready(c) ==
    /\ child[c] = "starting"
    /\ child' = [child EXCEPT ![c] = "ready"]
    /\ UNCHANGED <<script, status, pending, known, left, termed>>

\* A child ends by itself, well or not, or because it was told to.
Leave(c) ==
    /\ Alive(c)
    /\ child' = [child EXCEPT ![c] = "gone"]
    /\ \E code \in {Clean, Failed} \cup (IF c \in termed THEN {Killed} ELSE {}) :
          left' = [left EXCEPT ![c] = code]
    /\ UNCHANGED <<script, status, pending, known, termed>>

\* Whoever runs the container starts it again.
Restart ==
    /\ script = "exited"
    /\ script' = "curl" /\ status' = Unset /\ pending' = FALSE
    /\ known' = {"llama"} /\ termed' = {}
    /\ child' = [c \in Children |-> IF c = "llama" THEN "starting" ELSE "absent"]
    /\ left' = [c \in Children |-> Unset]

StopContainer ==
    /\ script # "exited" /\ ~pending
    /\ pending' = TRUE
    /\ UNCHANGED <<script, status, known, child, left, termed>>

-----------------------------------------------------------------------------
\* The script.

\* A command begins only when no signal is waiting for its trap.
ScriptGoes(from, to) ==
    /\ script = from /\ script' = to
    /\ from # "sleep" /\ from # "curl" => ~pending
    /\ UNCHANGED <<status, pending, left, termed>>

Exit(code) ==
    /\ script' = "exited" /\ status' = code
    /\ child' = [c \in Children |-> IF Alive(c) THEN "gone" ELSE child[c]]
    /\ UNCHANGED <<pending, known, left, termed>>

Healthy == ScriptGoes("curl", "fork") /\ child["llama"] = "ready" /\ UNCHANGED <<known, child>>

NotHealthy == ScriptGoes("curl", "check") /\ UNCHANGED <<known, child>>

\* kill -0 of the language model's process.
StillLoading == ScriptGoes("check", "sleep") /\ Alive("llama") /\ UNCHANGED <<known, child>>

DiedLoading ==
    /\ script = "check" /\ ~pending
    /\ ~Alive("llama")
    /\ Exit(Failed)

SleepOver == ScriptGoes("sleep", "curl") /\ UNCHANGED <<known, child>>

StartSleeper ==
    /\ ScriptGoes("fork", "record")
    /\ child' = [child EXCEPT !["sleeper"] = "starting"]
    /\ UNCHANGED known

RecordPid ==
    /\ ScriptGoes("record", "wait")
    /\ known' = Children
    /\ UNCHANGED child

\* wait -n: the status of a child that has ended.  Zero goes on to terminate
\* and exit, anything else ends the script here.
WaitReturns_Masked ==           \* mutant: the status is taken after "wait -n || true"
    /\ script = "wait" /\ ~pending
    /\ Gone # {}
    /\ Exit(Clean)

WaitReturns_First ==            \* mutant: waits for the language model only
    /\ script = "wait" /\ ~pending
    /\ "llama" \in Gone
    /\ Exit(left["llama"])

WaitReturns ==
    /\ script = "wait" /\ ~pending
    /\ \E c \in Gone : Exit(left[c])

\* The trap in the loop or on the way to wait: the script goes on after it.
Trap ==
    /\ pending /\ script \in {"curl", "check", "fork", "record"}
    /\ pending' = FALSE
    /\ termed' = termed \cup known
    /\ UNCHANGED <<script, status, known, child, left>>

\* The trap interrupts wait, whose status ends the script.
TrapInWait ==
    /\ pending /\ script = "wait"
    /\ Exit(Killed)

Command ==
    \/ Healthy \/ NotHealthy \/ StillLoading \/ DiedLoading \/ SleepOver
    \/ StartSleeper \/ RecordPid \/ WaitReturns \/ TrapInWait

SupervisorNext == Command \/ Trap \/ StopContainer \/ (\E c \in Children : Ready(c) \/ Leave(c))

\* The script goes on, signals that keep coming or not, and a child that was
\* told to end does.
SupervisorFairness ==
    /\ SF_supervisorVars(Command) /\ WF_supervisorVars(Trap)
    /\ \A c \in Children : WF_supervisorVars(c \in termed /\ Leave(c))

-----------------------------------------------------------------------------

\* A container that reports success has a child that ended well (comment at the
\* head of the script).  When one ends well and the other crashes at the same
\* moment, either status may be reported.
CrashReported == script = "exited" /\ status = Clean => \E c \in Children : left[c] = Clean

\* Either child's end, or a signal at any moment of the script, ends the
\* container: while it loads, while sleeper is forked and not known yet, and in
\* wait.
EitherEndsContainer == Gone # {} \/ pending ~> script = "exited"
=============================================================================
