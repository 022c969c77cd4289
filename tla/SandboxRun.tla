------------------------------ MODULE SandboxRun ------------------------------
(***************************************************************************)
(* One experiment run in a remote sandbox: execute() of the registered and *)
(* of the generated executor (orchestration/experiments/executor.py and    *)
(* generated_executor.py), which share finalize_session(), over the session *)
(* of backend.py.  The run archive holds one result.json, replaced as a    *)
(* whole at each persist(); a call of the service may be lost before or    *)
(* after it had its effect, a write of the archive may fail, the sandbox   *)
(* may reach its lifetime, and the process may die at each step.  Several  *)
(* processes may be given the same run identifier.                         *)
(* A definition that stands just before another of the same parameters and *)
(* is used nowhere is a mutated form of it, for the properties to reject.  *)
(***************************************************************************)
EXTENDS Naturals, FiniteSets

CONSTANTS
    Runner     \* processes that call execute() with the same run_id

VARIABLES
    kind,      \* the executor: "registered" or "generated"
    made,      \* the directory of the run exists
    disk,      \* what of result.json the readers rely on
    step,      \* where each process is in execute()
    res,       \* its variable result
    session,   \* it holds a session
    wanted,    \* the file it downloads: "runtime" or "outputs"
    got,       \* how the download ended
    doubt,     \* _export_unknown: a pause, resume or read of unknown effect
    box        \* the sandbox the service made for each process

sandboxVars == <<kind, made, disk, step, res, session, wanted, got, doubt, box>>

Executor == {"registered", "generated"}
ExecutionState == {"succeeded", "failed", "timeout", "unknown", "unsupported", "missing_artifact"}
RunResult == [state : ExecutionState, effect : {"known", "unknown"},
           cleanup : {"not_created", "destroyed", "unknown"}]
NoArchive == [state |-> "unknown", effect |-> "unknown", cleanup |-> "no_archive"]
Fresh == [state |-> "unknown", effect |-> "unknown", cleanup |-> "not_created"]

\* The command of a sandbox is the experiment itself. It ends by itself, is killed
\* by the service at its own time limit, or is cut when the sandbox goes.
Sandbox == [life : {"none", "alive", "gone"}, paused : BOOLEAN,
            command : {"none", "running", "zero", "nonzero", "killed", "cut"}]
NoSandbox == [life |-> "none", paused |-> FALSE, command |-> "none"]
NewSandbox == [NoSandbox EXCEPT !.life = "alive"]

SandboxStep == {"start", "begun", "admit", "arm", "create", "prepare", "download", "pause",
                "read", "resume", "got", "command", "wait", "assess", "finalize", "write",
                "refused", "returned", "raised", "dead"}
AtRest == {"start", "refused", "returned", "raised", "dead"}

SandboxInit ==
    /\ kind \in Executor
    /\ made = FALSE /\ disk = NoArchive
    /\ step = [p \in Runner |-> "start"]
    /\ res = [p \in Runner |-> Fresh]
    /\ session = [p \in Runner |-> FALSE]
    /\ wanted = [p \in Runner |-> "runtime"]
    /\ got = [p \in Runner |-> "ok"]
    /\ doubt = [p \in Runner |-> FALSE]
    /\ box = [p \in Runner |-> NoSandbox]

-----------------------------------------------------------------------------
(* Steps and exceptions *)

Responds(p) == box[p].life = "alive" /\ ~box[p].paused

Goto(p, s) == step' = [step EXCEPT ![p] = s]

\* The except clauses: an unsupported capability or a refused admission, a
\* timeout of the transport, anything else (a failing write of the archive too).
Exception == {"unsupported", "timeout", "other"}
Handled(r, how, opened) ==
    CASE how = "unsupported" -> [r EXCEPT !.state = "unsupported"]
      [] how = "timeout"     -> [r EXCEPT !.state = "unknown", !.effect = "unknown"]
      [] how = "other"       ->
            [r EXCEPT !.state = IF kind = "generated" \/ opened \/ r.cleanup = "unknown"
                                THEN "unknown" ELSE "failed"]

\* An exception leaves the body with the result r.
Throw(p, r, how) ==
    /\ res' = [res EXCEPT ![p] = Handled(r, how, session[p])]
    /\ Goto(p, "finalize")

Persist(p, r) == res' = [res EXCEPT ![p] = r] /\ disk' = r

-----------------------------------------------------------------------------
(* execute() up to the session *)

\* The archive of a run is made once: mkdir(exist_ok=False).
MakeArchive(p) ==
    /\ step[p] = "start"
    /\ IF made THEN Goto(p, "refused") /\ UNCHANGED made
       ELSE made' = TRUE /\ Goto(p, "begun")
    /\ UNCHANGED <<kind, disk, res, session, wanted, got, doubt, box>>

\* plan.json and the first result.json, outside of the try block.
WritePlan(p) ==
    /\ step[p] = "begun"
    /\ \/ disk' = res[p] /\ Goto(p, "admit")
       \/ Goto(p, "raised") /\ UNCHANGED disk
    /\ UNCHANGED <<kind, made, res, session, wanted, got, doubt, box>>

\* Inputs, static checks, isolation proof, capabilities.
Admit(p) ==
    /\ step[p] = "admit"
    /\ \/ Goto(p, "arm") /\ UNCHANGED res
       \/ \E how \in {"unsupported", "other"} : Throw(p, res[p], how)
    /\ UNCHANGED <<kind, made, disk, session, wanted, got, doubt, box>>

Armed(p) == [res[p] EXCEPT !.cleanup = "unknown"]

\* The durable unknown state precedes the only create call.
ArmInMemory(p) ==
    /\ step[p] = "arm"
    /\ res' = [res EXCEPT ![p] = Armed(p)] /\ Goto(p, "create")
    /\ UNCHANGED <<kind, made, disk, session, wanted, got, doubt, box>>
Arm(p) ==
    /\ step[p] = "arm"
    /\ \/ Persist(p, Armed(p)) /\ Goto(p, "create")
       \/ Throw(p, Armed(p), "other") /\ UNCHANGED disk
    /\ UNCHANGED <<kind, made, session, wanted, got, doubt, box>>

Create(p) ==
    /\ step[p] = "create"
    /\ \/ /\ box' = [box EXCEPT ![p] = NewSandbox]
          /\ session' = [session EXCEPT ![p] = TRUE]
          /\ Goto(p, "prepare")
          /\ UNCHANGED res
       \/ \E made_anyway \in BOOLEAN, how \in {"timeout", "other"} :
             /\ box' = IF made_anyway THEN [box EXCEPT ![p] = NewSandbox] ELSE box
             /\ Throw(p, res[p], how)
             /\ UNCHANGED session
       \/ Throw(p, res[p], "unsupported") /\ UNCHANGED <<session, box>>
    /\ UNCHANGED <<kind, made, disk, wanted, got, doubt>>

\* Identity noted, inputs uploaded, the runtime probed.
UploadAndProbe(p) ==
    /\ step[p] = "prepare"
    /\ \/ Responds(p) /\ Goto(p, "download") /\ UNCHANGED res
       \/ \E state \in {"failed", "timeout", "unknown"} :
             /\ Responds(p)
             /\ res' = [res EXCEPT ![p].state = state]
             /\ Goto(p, "finalize")
       \/ \E how \in Exception : Throw(p, res[p], how)
    /\ UNCHANGED <<kind, made, disk, session, wanted, got, doubt, box>>

-----------------------------------------------------------------------------
(* download(): plain, or of a frozen sandbox whose binding is checked first *)

Ending(p, how) == got' = [got EXCEPT ![p] = how]
Doubtful(p) == Ending(p, "unknown") /\ doubt' = [doubt EXCEPT ![p] = TRUE]

Download(p) ==
    /\ step[p] = "download"
    /\ \/ kind = "generated" /\ Goto(p, "pause") /\ UNCHANGED got
       \/ /\ \/ kind # "generated" /\ Responds(p) /\ Ending(p, "ok")
             \/ Ending(p, "bad")
             \/ Ending(p, "unknown")
          /\ Goto(p, "got")
    /\ UNCHANGED <<kind, made, disk, res, session, wanted, doubt, box>>

Pause(p) ==
    /\ step[p] = "pause"
    /\ \/ /\ Responds(p)
          /\ box' = [box EXCEPT ![p].paused = TRUE]
          /\ Goto(p, "read")
          /\ UNCHANGED <<got, doubt>>
       \/ /\ \E applied \in BOOLEAN :
                box' = IF applied /\ Responds(p) THEN [box EXCEPT ![p].paused = TRUE] ELSE box
          /\ Doubtful(p)
          /\ Goto(p, "resume")
    /\ UNCHANGED <<kind, made, disk, res, session, wanted>>

ReadFrozen(p) ==
    /\ step[p] = "read"
    /\ \/ box[p].life = "alive" /\ Ending(p, "ok") /\ UNCHANGED doubt
       \/ Ending(p, "bad") /\ UNCHANGED doubt
       \/ Doubtful(p)
    /\ Goto(p, "resume")
    /\ UNCHANGED <<kind, made, disk, res, session, wanted, box>>

\* The finally clause: a sandbox found paused is resumed, once.
Resume(p) ==
    /\ step[p] = "resume"
    /\ \/ /\ box[p].life = "alive"
          /\ box' = [box EXCEPT ![p].paused = FALSE]
          /\ UNCHANGED <<got, doubt>>
       \/ /\ \E applied \in BOOLEAN :
                box' = IF applied THEN [box EXCEPT ![p].paused = FALSE] ELSE box
          /\ Doubtful(p)
    /\ Goto(p, "got")
    /\ UNCHANGED <<kind, made, disk, res, session, wanted>>

RuntimeRead(p) ==
    /\ step[p] = "got" /\ wanted[p] = "runtime"
    /\ \/ got[p] = "ok" /\ Goto(p, "command") /\ UNCHANGED res
       \/ got[p] # "unknown" /\ \E how \in {"unsupported", "other"} : Throw(p, res[p], how)
       \/ got[p] = "unknown" /\ Throw(p, res[p], "timeout")
    /\ UNCHANGED <<kind, made, disk, session, wanted, got, doubt, box>>

-----------------------------------------------------------------------------
(* The command and its record *)

Launched(p) == [box EXCEPT ![p].command = "running"]

StartCommand(p) ==
    /\ step[p] = "command"
    /\ \/ /\ Responds(p)
          /\ box' = Launched(p)
          /\ Goto(p, "wait")
          /\ UNCHANGED res
       \/ /\ \E begun \in BOOLEAN : box' = IF begun /\ Responds(p) THEN Launched(p) ELSE box
          /\ \E how \in {"timeout", "other"} : Throw(p, res[p], how)
    /\ UNCHANGED <<kind, made, disk, session, wanted, got, doubt>>

\* _execution_state: what the service answers about the command: an exit code, or
\* for the interpreter that it completed. Without either and without an error
\* nothing is known.
Verdict(p) ==
    {"unknown"}
        \cup (IF box[p].command = "zero" THEN {"succeeded"} ELSE {})
        \cup (IF box[p].command = "nonzero" THEN {"failed"} ELSE {})
        \cup (IF box[p].command = "killed" THEN {"timeout"} ELSE {})

Recorded(p, state) ==
    [res[p] EXCEPT !.state = state,
                   !.effect = IF state \in {"succeeded", "failed", "timeout"} THEN "known" ELSE "unknown"]

Record(p) ==
    /\ step[p] = "wait"
    /\ \/ \E state \in Verdict(p) :
             \/ Persist(p, Recorded(p, state)) /\ Goto(p, "download")
             \/ \E r \in {res[p], Recorded(p, state)} : Throw(p, r, "other") /\ UNCHANGED disk
       \/ \E how \in {"timeout", "other"} : Throw(p, res[p], how) /\ UNCHANGED disk
    /\ wanted' = [wanted EXCEPT ![p] = "outputs"]
    /\ UNCHANGED <<kind, made, session, got, doubt, box>>

WithoutArtifact(p) ==
    [res[p] EXCEPT !.state = IF @ = "succeeded" THEN "missing_artifact" ELSE @]

\* An output that cannot be read leaves a known failure behind, but not when the
\* state of the frozen sandbox is uncertain.
OutputsReadAnyway(p) ==
    /\ step[p] = "got" /\ wanted[p] = "outputs"
    /\ res' = [res EXCEPT ![p] = IF got[p] = "ok" THEN @ ELSE WithoutArtifact(p)]
    /\ Goto(p, "assess")
    /\ UNCHANGED <<kind, made, disk, session, wanted, got, doubt, box>>
OutputsRead(p) ==
    /\ step[p] = "got" /\ wanted[p] = "outputs"
    /\ IF kind = "generated" /\ got[p] = "unknown"
       THEN Throw(p, res[p], "timeout")
       ELSE /\ res' = [res EXCEPT ![p] = IF got[p] = "ok" THEN @ ELSE WithoutArtifact(p)]
            /\ Goto(p, "assess")
    /\ UNCHANGED <<kind, made, disk, session, wanted, got, doubt, box>>

AssessOutputs(p) ==
    /\ step[p] = "assess"
    /\ \/ Goto(p, "finalize") /\ UNCHANGED res
       \/ Throw(p, res[p], "other")
    /\ UNCHANGED <<kind, made, disk, session, wanted, got, doubt, box>>

-----------------------------------------------------------------------------
(* finalize_session() *)

Removed(b) == [b EXCEPT !.life = "gone", !.paused = FALSE,
                     !.command = IF @ = "running" THEN "cut" ELSE @]

Destroy(p) ==
    /\ step[p] = "finalize"
    /\ \/ /\ session[p]
          /\ box' = [box EXCEPT ![p] = Removed(box[p])]
          /\ res' = [res EXCEPT ![p].cleanup = "destroyed"]
       \/ /\ session[p]
          /\ \E applied \in BOOLEAN : box' = IF applied THEN [box EXCEPT ![p] = Removed(box[p])] ELSE box
          /\ res' = [res EXCEPT ![p].cleanup = "unknown", ![p].effect = "unknown"]
       \/ ~session[p] /\ UNCHANGED <<res, box>>
    /\ Goto(p, "write")
    /\ UNCHANGED <<kind, made, disk, session, wanted, got, doubt>>

WriteResult(p) ==
    /\ step[p] = "write"
    /\ \/ disk' = res[p] /\ Goto(p, "returned")
       \/ Goto(p, "raised") /\ UNCHANGED disk
    /\ UNCHANGED <<kind, made, res, session, wanted, got, doubt, box>>

-----------------------------------------------------------------------------
(* The world *)

DieRunning(p) ==
    /\ step[p] \notin AtRest
    /\ Goto(p, "dead")
    /\ UNCHANGED <<kind, made, disk, res, session, wanted, got, doubt, box>>

CommandEnds(p) ==
    /\ box[p].command = "running"
    /\ \E end \in {"zero", "nonzero", "killed"} : box' = [box EXCEPT ![p].command = end]
    /\ UNCHANGED <<kind, made, disk, step, res, session, wanted, got, doubt>>

\* The lifetime the sandbox was created with.
Expire(p) ==
    /\ box[p].life = "alive"
    /\ box' = [box EXCEPT ![p] = Removed(box[p])]
    /\ UNCHANGED <<kind, made, disk, step, res, session, wanted, got, doubt>>

SandboxRunStep(p) ==
    \/ MakeArchive(p) \/ WritePlan(p) \/ Admit(p) \/ Arm(p) \/ Create(p) \/ UploadAndProbe(p)
    \/ Download(p) \/ Pause(p) \/ ReadFrozen(p) \/ Resume(p) \/ RuntimeRead(p)
    \/ StartCommand(p) \/ Record(p) \/ OutputsRead(p) \/ AssessOutputs(p)
    \/ Destroy(p) \/ WriteResult(p)

SandboxNext ==
    \E p \in Runner : SandboxRunStep(p) \/ DieRunning(p) \/ CommandEnds(p) \/ Expire(p)

SandboxSpec == SandboxInit /\ [][SandboxNext]_sandboxVars

-----------------------------------------------------------------------------
(* Properties *)

SandboxTypeOK ==
    /\ kind \in Executor /\ made \in BOOLEAN
    /\ disk \in RunResult \cup {NoArchive}
    /\ step \in [Runner -> SandboxStep]
    /\ res \in [Runner -> RunResult]
    /\ session \in [Runner -> BOOLEAN]
    /\ wanted \in [Runner -> {"runtime", "outputs"}]
    /\ got \in [Runner -> {"ok", "bad", "unknown"}]
    /\ doubt \in [Runner -> BOOLEAN]
    /\ box \in [Runner -> Sandbox]

\* As long as a sandbox lives, whoever made it and however its process ended, the
\* archive says that its cleanup is unknown; an archive that denies any sandbox
\* is right (the order of persist() and create(), finalize_session()).
LeakRecorded ==
    \A p \in Runner :
        /\ box[p].life = "alive" => disk.cleanup = "unknown"
        /\ disk.cleanup \in {"not_created", "no_archive"} => box[p].life = "none"

\* What the readers of an archive trust (read_generated_result and
\* feedback_generated.py): a known effect and a destroyed sandbox. Then the one
\* command of the run ended before its sandbox went, no export was left in an
\* uncertain state, there was no other sandbox, and success means that the command
\* said so.
TrustEarned ==
    disk.effect = "known" /\ disk.cleanup = "destroyed" =>
        \E p \in Runner :
            /\ box[p].life = "gone"
            /\ box[p].command \in {"zero", "nonzero", "killed"}
            /\ disk.state = "succeeded" => box[p].command = "zero"
            /\ ~doubt[p]
            /\ \A q \in Runner \ {p} : box[q].life = "none"
=============================================================================
