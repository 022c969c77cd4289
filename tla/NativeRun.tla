------------------------------- MODULE NativeRun -------------------------------
(***************************************************************************)
(* One invocation of a native command line agent (run_headless() and       *)
(* OwnedProcess of orchestration/native_agents/process.py, on POSIX): the  *)
(* observer reads the lines the agent appends to a file, limits it, and    *)
(* cleans up the private process group it was started in.  Agent and       *)
(* descendants write, fork and end at any time and may ignore SIGTERM;     *)
(* SIGKILL is obeyed in the time the code waits for it.  A descendant that *)
(* leaves the group is out of its reach.  Once the agent is reaped and its *)
(* group empty, the system may give the identifier to another group.       *)
(* A definition that stands just before another of the same parameters and *)
(* is used nowhere is a mutated form of it, for the properties to reject.  *)
(***************************************************************************)
EXTENDS Integers, Sequences, FiniteSets

CONSTANTS
    MaxTools,                 \* max_tool_calls
    MaxChildren, MaxOutput    \* bounds of the model

ASSUME NativeAssumption == MaxTools \in Nat \ {0} /\ MaxChildren \in Nat /\ MaxOutput \in Nat

VARIABLES
    agent,      \* the process started: none, running, exited (a zombie) or reaped
    status,     \* the status it exited with
    children,   \* how many other processes of its group live
    output,     \* the kinds of the lines in its output file
    sealed,     \* the last line has its newline
    said,       \* how many lines there were when the agent ended
    reused,     \* the group identifier belongs to others now
    disturbed,  \* a signal reached a process of the group
    at,         \* the step of the observer
    cancel,     \* the step of OwnedProcess.cancel(), when it is in progress
    owned,      \* _pgid is set
    consumed,   \* the lines parsed
    reason,     \* the outcome has a reason, so the effect is unknown
    code,       \* exit_code
    raising,    \* an exception of the callback is on its way out
    asked, late \* stop_requested(), and the timeout has passed

group == <<agent, status, children, output, sealed, said, reused, disturbed>>
observer == <<at, cancel, owned, consumed, reason, code, raising>>
limits == <<asked, late>>
nativeVars == <<group, observer, limits>>

\* "foreign": a line that names another session or another agent identity.
Kind == {"tool", "completed", "failed", "foreign"}
Exit == {"zero", "nonzero"}
Looping == {"read", "poll", "limits", "stop", "final"}
Ended == {"returned", "raised"}

NativeInit ==
    /\ agent = "none" /\ status = "zero" /\ children = 0
    /\ output = <<>> /\ sealed = TRUE /\ said = 0
    /\ reused = FALSE /\ disturbed = FALSE
    /\ at = "launch" /\ cancel = "no" /\ owned = FALSE
    /\ consumed = 0 /\ reason = FALSE /\ code = "none" /\ raising = FALSE
    /\ asked = FALSE /\ late = FALSE

-----------------------------------------------------------------------------
(* The agent, the system and the caller *)

Alive == agent = "running" \/ children > 0

AgentWrites(kind, newline) ==
    /\ Alive /\ sealed
    /\ Len(output) < MaxOutput
    /\ output' = Append(output, kind) /\ sealed' = newline
    /\ UNCHANGED <<agent, status, children, said, reused, disturbed, observer, limits>>

AgentSeals ==
    /\ Alive /\ ~sealed
    /\ sealed' = TRUE
    /\ UNCHANGED <<agent, status, children, output, said, reused, disturbed, observer, limits>>

AgentExits(c) ==
    /\ agent = "running"
    /\ agent' = "exited" /\ status' = c /\ said' = Len(output)
    /\ UNCHANGED <<children, output, sealed, reused, disturbed, observer, limits>>

Forks ==
    /\ Alive /\ children < MaxChildren
    /\ children' = children + 1
    /\ UNCHANGED <<agent, status, output, sealed, said, reused, disturbed, observer, limits>>

ChildExits ==
    /\ children > 0
    /\ children' = children - 1
    /\ UNCHANGED <<agent, status, output, sealed, said, reused, disturbed, observer, limits>>

IdReused ==
    /\ agent = "reaped" /\ children = 0 /\ ~reused
    /\ reused' = TRUE
    /\ UNCHANGED <<agent, status, children, output, sealed, said, disturbed, observer, limits>>

StopRequested ==
    /\ ~asked
    /\ asked' = TRUE
    /\ UNCHANGED <<group, observer, late>>

TimeUp ==
    /\ ~late
    /\ late' = TRUE
    /\ UNCHANGED <<group, observer, asked>>

-----------------------------------------------------------------------------
(* run_headless(): the loop *)

Launch ==
    /\ at = "launch"
    /\ IF asked
       THEN at' = "returned" /\ reason' = TRUE /\ UNCHANGED <<agent, owned>>
       ELSE at' = "read" /\ agent' = "running" /\ owned' = TRUE /\ UNCHANGED reason
    /\ UNCHANGED <<status, children, output, sealed, said, reused, disturbed,
                   cancel, consumed, code, raising, limits>>

LaunchFails ==
    /\ at = "launch" /\ ~asked
    /\ at' = "returned" /\ reason' = TRUE
    /\ UNCHANGED <<group, cancel, owned, consumed, code, raising, limits>>

\* consume(): the lines up to n are parsed.
Foreign(n) == \E k \in (consumed + 1) .. n : output[k] = "foreign"
Consume(n) == consumed' = n /\ reason' = (reason \/ Foreign(n))
WholeLines == IF sealed THEN Len(output) ELSE Len(output) - 1

ReadOutput ==
    /\ at = "read"
    /\ Consume(WholeLines)
    /\ at' = "poll"
    /\ UNCHANGED <<group, cancel, owned, code, raising, limits>>

\* owner.poll() reaps an agent that has exited.
Reap == agent' = IF agent = "exited" THEN "reaped" ELSE agent

PollExit ==
    /\ at = "poll"
    /\ Reap
    /\ IF agent = "exited" THEN code' = status /\ at' = "final" ELSE at' = "limits" /\ UNCHANGED code
    /\ UNCHANGED <<status, children, output, sealed, said, reused, disturbed,
                   cancel, owned, consumed, reason, raising, limits>>

Tools == Cardinality({k \in 1 .. consumed : output[k] = "tool"})
OverUntimed == reason \/ asked \/ Tools >= MaxTools
Over == reason \/ asked \/ late \/ Tools >= MaxTools

CheckLimits ==
    /\ at = "limits"
    /\ reason' = Over
    /\ IF Over THEN at' = "stop" /\ cancel' = "begin" ELSE at' = "read" /\ UNCHANGED cancel
    /\ UNCHANGED <<group, owned, consumed, code, raising, limits>>

Cleanup == at' = "cleanup" /\ cancel' = "begin"

\* The last read also takes a line without its newline.
LastWhole == WholeLines
LastLine == Len(output)

FinalRead ==
    /\ at = "final"
    /\ Consume(LastLine)
    /\ Cleanup
    /\ UNCHANGED <<group, owned, code, raising, limits>>

\* An interrupt or an error of the system ends the observation; so does an
\* exception of on_event(), which is passed on after the cleanup.
Interrupted ==
    /\ at \in Looping
    /\ reason' = TRUE
    /\ Cleanup
    /\ UNCHANGED <<group, owned, consumed, code, raising, limits>>

CallbackRaises ==
    /\ at \in {"read", "final"}
    /\ consumed < IF at = "final" THEN LastLine ELSE WholeLines
    /\ raising' = TRUE
    /\ Cleanup
    /\ UNCHANGED <<group, owned, consumed, reason, code, limits>>

-----------------------------------------------------------------------------
(* OwnedProcess.cancel(), from the loop and from the cleanup *)

\* What follows a cancellation that did or did not find anything alive; end is
\* the status of the agent by then.
After(active, end) ==
    /\ cancel' = "no"
    /\ IF at = "stop"
       THEN at' = "final" /\ code' = end /\ UNCHANGED reason
       ELSE /\ reason' = (reason \/ (active /\ code # "none"))
            /\ at' = IF raising THEN "raised" ELSE "returned"
            /\ UNCHANGED code

\* The group is still its own only once: _pgid is dropped when it is found
\* empty or has been killed.
CancelBeginOnce ==
    /\ cancel = "begin"
    /\ Reap
    /\ IF owned
       THEN cancel' = "term" /\ owned' = FALSE /\ UNCHANGED <<at, reason, code>>
       ELSE After(FALSE, status) /\ UNCHANGED owned
    /\ UNCHANGED <<status, children, output, sealed, said, reused, disturbed, consumed, raising, limits>>
CancelBegin ==
    /\ cancel = "begin"
    /\ Reap
    /\ IF owned
       THEN cancel' = "term" /\ UNCHANGED <<at, reason, code>>
       ELSE After(FALSE, status)
    /\ UNCHANGED <<status, children, output, sealed, said, reused, disturbed, owned,
                   consumed, raising, limits>>

\* killpg() finds the group: a zombie counts, and so do its new owners.
Found == Alive \/ agent = "exited" \/ reused

Terminate ==
    /\ cancel = "term"
    /\ IF Found
       THEN /\ disturbed' = (disturbed \/ Alive)
            /\ cancel' = "wait"
            /\ UNCHANGED <<at, code, reason, owned, status>>
       ELSE /\ owned' = FALSE
            /\ After(FALSE, status)
            /\ UNCHANGED <<disturbed, status>>
    /\ UNCHANGED <<agent, children, output, sealed, said, reused, consumed, raising, limits>>

GroupEmpty ==
    /\ cancel = "wait"
    /\ children = 0 /\ ~reused /\ agent \in {"exited", "reaped"}
    /\ Reap
    /\ owned' = FALSE
    /\ After(TRUE, status)
    /\ UNCHANGED <<status, children, output, sealed, said, reused, disturbed, consumed, raising, limits>>

\* The deadline: what is left is killed, and the agent waited for.
Kill ==
    /\ cancel = "wait"
    /\ agent' = "reaped" /\ children' = 0
    /\ status' = IF agent = "running" THEN "nonzero" ELSE status
    /\ said' = IF agent = "running" THEN Len(output) ELSE said
    /\ disturbed' = (disturbed \/ Alive)
    /\ owned' = FALSE
    /\ After(TRUE, IF agent = "running" THEN "nonzero" ELSE status)
    /\ UNCHANGED <<output, sealed, reused, consumed, raising, limits>>

-----------------------------------------------------------------------------
ObserverStep ==
    \/ Launch \/ ReadOutput \/ PollExit \/ CheckLimits \/ FinalRead
    \/ CancelBegin \/ Terminate \/ GroupEmpty \/ Kill

Environment ==
    \/ \E kind \in Kind, newline \in BOOLEAN : AgentWrites(kind, newline)
    \/ \E c \in Exit : AgentExits(c)
    \/ AgentSeals \/ Forks \/ ChildExits \/ IdReused \/ StopRequested
    \/ LaunchFails \/ Interrupted \/ CallbackRaises

NativeNext == ObserverStep \/ Environment \/ TimeUp

\* A live thread runs, and time passes.
NativeSpec ==
    NativeInit /\ [][NativeNext]_nativeVars /\ WF_nativeVars(ObserverStep) /\ WF_nativeVars(TimeUp)

-----------------------------------------------------------------------------
(* Properties *)

\* The state of the outcome, as the last lines of run_headless() compute it.
Heard(kind) == \E k \in 1 .. consumed : output[k] = kind
State ==
    IF reason \/ code = "none" THEN "unknown"
    ELSE IF code = "nonzero" \/ Heard("failed") THEN "failed"
    ELSE IF Heard("completed") THEN "completed"
    ELSE "unknown"

\* A verdict other than unknown is one on a run that nobody cut short, whatever
\* limit, request or descendant came up in between, and it has heard all that
\* the agent wrote before it ended (run_headless, the finally clause).
VerdictEarned ==
    at = "returned" /\ State # "unknown" =>
        /\ ~disturbed
        /\ said <= consumed
        /\ agent = "reaped" /\ code = status

\* When the call ends, by a result or by an exception, nothing of the group it
\* started is left, even if a first cancellation was interrupted (cancel,
\* _cancel_group).
NothingOutlives == at \in Ended => agent \in {"none", "reaped"} /\ children = 0

\* However the agent and its descendants behave, the call ends (the deadline of
\* the loop and of _cancel_group).
EveryInvocationEnds == at = "read" ~> at \in Ended
=============================================================================
