--------------------------- MODULE MCHubPublication ---------------------------
(* Small instances of the three parts of the system that drive somebody else's
   program or service: HubPublication (two operators and the mirror), NativeRun
   (one agent and a descendant) and SandboxRun (two processes given one run
   identifier). They share no variable: a behaviour is one of the three, by part. *)
EXTENDS HubPublication, NativeRun, SandboxRun

VARIABLE part

allVars == <<vars, nativeVars, sandboxVars, part>>

MCInit ==
    /\ part \in {"hub", "native", "sandbox"} /\ Init /\ NativeInit /\ SandboxInit
    /\ part # "sandbox" => kind = "registered"

InHub(A) == part = "hub" /\ A /\ UNCHANGED <<nativeVars, sandboxVars, part>>
InNative(A) == part = "native" /\ A /\ UNCHANGED <<vars, sandboxVars, part>>
InSandbox(A) == part = "sandbox" /\ A /\ UNCHANGED <<vars, nativeVars, part>>

HubPart == InHub(Next)
NativePart == InNative(NativeNext)
SandboxPart == InSandbox(SandboxNext)

MCSpec ==
    /\ MCInit
    /\ [][HubPart \/ NativePart \/ SandboxPart]_allVars
    /\ WF_allVars(InHub(MirrorStep))
    /\ WF_allVars(InNative(ObserverStep)) /\ WF_allVars(InNative(TimeUp))
=============================================================================
