------------------------------ MODULE RunReplay ------------------------------
(***************************************************************************)
(* One run of the orchestration runtime (orchestration/runtime.py): four   *)
(* graph nodes, a durable event log and result row (persistence/store.py), *)
(* the Gene store (metabolism/service.py), an in-memory topology engine    *)
(* (topology/engine.py) and the gateway executor. Several processes may    *)
(* hold the run at once: a start races another start, a resume races the   *)
(* process it was meant to replace, and each of them may crash or raise    *)
(* between any two durable writes.                                         *)
(* External: LangGraph, which stores the state after every node and loads  *)
(* the latest stored one; the model behind the gateway; the verifier.      *)
(***************************************************************************)
EXTENDS Naturals, Sequences, FiniteSets

CONSTANTS
    Process,      \* the processes that may start or resume the run
    Gene,         \* the Genes a host ingested before the run
    GeneBudget,   \* config.gene_budget
    MaxReviews    \* bound on the verifications, each with evidence of its own

ASSUME ConstantsAssumption == GeneBudget \in Nat /\ MaxReviews \in Nat

VARIABLES
    checkpoint,   \* what LangGraph stored last: the next node and its state
    events,       \* events[s]: <<>> or the one event of stage s
    stored,       \* the ResultRow of the attempt
    batch,        \* <<>> or the Genes first injected into the attempt
    stale, archived,  \* the Genes below the threshold, and those tombstoned
    uses,         \* use_count of every Gene
    adoptions,    \* the Adoption rows of the attempt
    stop,         \* whether the STOP file is there
    repaired,     \* whether sample.py holds the proposal
    invoked,      \* the paid requests sent
    reports,      \* the verifications made
    at, node, mem, left,     \* where each process is, and what it holds
    engine        \* the feedback applied by the engine of each process

durable == <<checkpoint, events, stored>>
genes == <<batch, stale, archived, uses, adoptions>>
executor == <<repaired, invoked>>
local == <<at, node, mem, left, engine>>
vars == <<durable, genes, executor, stop, reports, local>>

Node == {"select", "execute", "review", "feedback"}
Stage == {"selected", "intent", "executed", "reviewed", "feedback"}
Judged == {"succeeded", "failed"}
Status == {"none", "pending_review", "insufficient_evidence", "interrupted"} \cup Judged
Result == [status : Status, report : 0 .. MaxReviews]
NoResult == [status |-> "none", report |-> 0]
State == [genes : SUBSET Gene, result : Result, adopted : SUBSET Gene]
NoState == [genes |-> {}, result |-> NoResult, adopted |-> {}]
Payload == [genes : SUBSET Gene, result : Result, adopted : SUBSET Gene,
            topology : {<<>>, <<TRUE>>, <<FALSE>>}]
Step == Node \cup {"idle", "starting", "resumed", "resolve", "intent",
                   "request", "apply", "save", "mark", "look", "append", "checkpoint"}

Init ==
    /\ checkpoint = [next |-> "none", state |-> NoState]
    /\ events = [s \in Stage |-> <<>>]
    /\ stored = NoResult
    /\ batch = <<>>
    /\ stale = {} /\ archived = {}
    /\ uses = [g \in Gene |-> 0]
    /\ adoptions = {}
    /\ stop = FALSE
    /\ repaired = FALSE
    /\ invoked = 0
    /\ reports = 0
    /\ at = [p \in Process |-> "idle"]
    /\ node = [p \in Process |-> "select"]
    /\ mem = [p \in Process |-> NoState]
    /\ left = [p \in Process |-> {}]
    /\ engine = [p \in Process |-> <<>>]

-----------------------------------------------------------------------------
(* What a process sees and holds *)

At(p, step) == at[p] = step
Go(p, step) == at' = [at EXCEPT ![p] = step]
Recorded(s) == events[s] # <<>>

\* The process leaves the run; an engine it keeps outlives an exception.
Return(p) ==
    /\ at' = [at EXCEPT ![p] = "idle"]
    /\ node' = [node EXCEPT ![p] = "select"]
    /\ mem' = [mem EXCEPT ![p] = NoState]
    /\ left' = [left EXCEPT ![p] = {}]

Raise(p) == Return(p) /\ UNCHANGED engine

\* The process continues at a step, with a new state of the graph or the old.
Continue(p, step, state) ==
    /\ Go(p, step)
    /\ mem' = [mem EXCEPT ![p] = state]
    /\ UNCHANGED <<node, left, engine>>

Proceed(p, step) == Continue(p, step, mem[p])

Concluded(p, status) ==
    Continue(p, "save", [mem[p] EXCEPT !.result = [status |-> status, report |-> 0],
                                       !.adopted = {}])

\* The engine applies the verdict of an attempt once.
WithVerdict(applied, status) ==
    IF applied = <<>> /\ status \in Judged THEN <<status = "succeeded">> ELSE applied

Adopted(p) == IF mem[p].result.status = "succeeded" THEN mem[p].adopted ELSE {}

\* The stage a node records, and what it says there.
StageOf(n) == CASE n = "select" -> "selected" [] n = "execute" -> "executed"
                [] n = "review" -> "reviewed" [] n = "feedback" -> "feedback"
Says(p) ==
    CASE node[p] = "select" -> [NoState EXCEPT !.genes = mem[p].genes]
      [] node[p] = "execute" -> [mem[p] EXCEPT !.genes = {}]
      [] node[p] = "review" -> [NoState EXCEPT !.result = mem[p].result]
      [] node[p] = "feedback" ->
            [NoState EXCEPT !.result = [mem[p].result EXCEPT !.report = 0],
                            !.adopted = Adopted(p)]
Snapshot(p) == IF node[p] \in {"select", "feedback"} THEN engine[p] ELSE <<>>
PayloadOf(p) ==
    [genes |-> Says(p).genes, result |-> Says(p).result,
     adopted |-> Says(p).adopted, topology |-> Snapshot(p)]

NextOf(n) == CASE n = "select" -> "execute" [] n = "execute" -> "review"
               [] n = "review" -> "feedback" [] n = "feedback" -> "end"

-----------------------------------------------------------------------------
(* start() and resume() *)

\* No stored state and no event of the run.
Start(p) ==
    /\ At(p, "idle")
    /\ checkpoint.next = "none"
    /\ \A s \in Stage : ~Recorded(s)
    /\ Proceed(p, "starting")
    /\ UNCHANGED <<durable, genes, executor, stop, reports>>

\* The input sends the thread back to its first node, whatever it was at.
Invoke(p) ==
    /\ At(p, "starting")
    /\ checkpoint' = [checkpoint EXCEPT !.next = "select"]
    /\ Continue(p, "select", checkpoint.state)
    /\ UNCHANGED <<events, stored, genes, executor, stop, reports>>

\* The engine is filled again from the durable verdict, if there is one.
Resume(p) ==
    /\ At(p, "idle")
    /\ checkpoint.next # "none"
    /\ Go(p, "resumed")
    /\ engine' = [engine EXCEPT ![p] =
                      IF Recorded("reviewed")
                      THEN WithVerdict(@, events["reviewed"][1].result.status) ELSE @]
    /\ UNCHANGED <<durable, genes, executor, stop, reports, node, mem, left>>

Load(p) ==
    /\ At(p, "resumed")
    /\ \/ /\ checkpoint.next = "end"
          /\ Raise(p)
       \/ /\ checkpoint.next # "end"
          /\ at' = [at EXCEPT ![p] = checkpoint.next]
          /\ node' = [node EXCEPT ![p] = checkpoint.next]
          /\ mem' = [mem EXCEPT ![p] = checkpoint.state]
          /\ UNCHANGED <<left, engine>>
    /\ UNCHANGED <<durable, genes, executor, stop, reports>>

-----------------------------------------------------------------------------
(* The node `select' *)

Active == Gene \ archived
Injections ==
    {chosen \in SUBSET Active :
        Cardinality(chosen) = IF Cardinality(Active) < GeneBudget
                              THEN Cardinality(Active) ELSE GeneBudget}

\* inject(): the first call of an attempt fixes its batch; a later one returns
\* the part of it that was not archived since.
Inject(p) ==
    /\ At(p, "select")
    /\ \/ /\ batch = <<>>
          /\ \E chosen \in Injections :
                /\ batch' = <<chosen>>
                /\ Continue(p, "resolve", [mem[p] EXCEPT !.genes = chosen])
       \/ /\ batch # <<>>
          /\ Continue(p, "resolve", [mem[p] EXCEPT !.genes = batch[1] \ archived])
          /\ UNCHANGED batch
    /\ UNCHANGED <<durable, stale, archived, uses, adoptions>>
    /\ UNCHANGED <<executor, stop, reports>>

\* resolve(): a Gene archived meanwhile is not known any more.
Resolve(p) ==
    /\ At(p, "resolve")
    /\ IF mem[p].genes \cap archived # {} THEN Raise(p) ELSE Proceed(p, "look")
    /\ UNCHANGED <<durable, genes, executor, stop, reports>>

-----------------------------------------------------------------------------
(* The node `execute' *)

Interrupted(p) ==
    /\ At(p, "execute") /\ stop
    /\ Continue(p, "checkpoint", [mem[p] EXCEPT !.result =
                                      [status |-> "interrupted", report |-> 0]])
    /\ UNCHANGED <<durable, genes, executor, stop, reports>>

FindIntent(p) ==
    /\ At(p, "execute") /\ ~stop
    /\ IF Recorded("intent") THEN Raise(p) ELSE Proceed(p, "intent")
    /\ UNCHANGED <<durable, genes, executor, stop, reports>>

\* The unique key of the event decides between processes that found none.
IntentWonOld(p) == TRUE
IntentWon(p) == ~Recorded("intent")

AppendIntent(p) ==
    /\ At(p, "intent")
    /\ IF IntentWon(p)
       THEN /\ events' = [events EXCEPT !["intent"] =
                  <<[genes |-> {}, result |-> NoResult, adopted |-> {}, topology |-> <<>>]>>]
            /\ Proceed(p, "request")
       ELSE Raise(p) /\ UNCHANGED events
    /\ UNCHANGED <<checkpoint, stored, genes, executor, stop, reports>>

\* GatewayExecutor.execute(): one request, unless the run was stopped.
Request(p) ==
    /\ At(p, "request")
    /\ \/ stop /\ Concluded(p, "insufficient_evidence") /\ UNCHANGED invoked
       \/ ~stop /\ invoked' = invoked + 1 /\ Proceed(p, "apply")
    /\ UNCHANGED <<durable, genes, repaired, stop, reports>>

\* An answer that cannot be used, or that came after a stop; or one whose
\* proposal is written to sample.py and names some of the Genes it was given.
Apply(p) ==
    /\ At(p, "apply")
    /\ \/ Concluded(p, "insufficient_evidence") /\ UNCHANGED repaired
       \/ /\ ~stop
          /\ repaired' = TRUE
          /\ \E adopted \in SUBSET mem[p].genes :
                Continue(p, "save", [mem[p] EXCEPT !.result =
                                         [status |-> "pending_review", report |-> 0],
                                     !.adopted = adopted])
    /\ UNCHANGED <<durable, genes, invoked, stop, reports>>

\* save_result(): the row of the attempt is replaced, by `execute' and again by
\* `review'.
Save(p) ==
    /\ At(p, "save")
    /\ stored' = mem[p].result
    /\ Proceed(p, "look")
    /\ UNCHANGED <<checkpoint, events, genes, executor, stop, reports>>

-----------------------------------------------------------------------------
(* The nodes `review' and `feedback' *)

\* The sample as it was given fails its tests. Every report has evidence files
\* of its own, so that no two verdicts are the same value.
Verdicts == IF repaired THEN {"succeeded", "failed", "insufficient_evidence"}
            ELSE {"failed", "insufficient_evidence"}

Review(p) ==
    /\ At(p, "review")
    /\ \/ /\ mem[p].result.status # "pending_review"
          /\ Proceed(p, "checkpoint")
          /\ UNCHANGED reports
       \/ /\ mem[p].result.status = "pending_review"
          /\ reports < MaxReviews
          /\ reports' = reports + 1
          /\ \E status \in Verdicts :
                Continue(p, "save", [mem[p] EXCEPT !.result =
                                         [status |-> status, report |-> reports + 1]])
    /\ UNCHANGED <<durable, genes, executor, stop>>

Feedback(p) ==
    /\ At(p, "feedback")
    /\ engine' = [engine EXCEPT ![p] = WithVerdict(@, mem[p].result.status)]
    /\ left' = [left EXCEPT ![p] = Adopted(p)]
    /\ Go(p, "mark")
    /\ UNCHANGED <<durable, genes, executor, stop, reports, node, mem>>

\* mark_used(): one transaction for every adopted Gene.
AlreadyUsedOld(g) == FALSE
AlreadyUsed(g) == g \in adoptions

MarkUsed(p, g) ==
    /\ At(p, "mark") /\ g \in left[p]
    /\ \/ /\ ~AlreadyUsed(g) /\ (g \notin batch[1] \/ g \in archived)
          /\ Raise(p)
          /\ UNCHANGED <<uses, adoptions, stale>>
       \/ /\ AlreadyUsed(g) \/ (g \in batch[1] /\ g \notin archived)
          /\ left' = [left EXCEPT ![p] = @ \ {g}]
          /\ IF AlreadyUsed(g) THEN UNCHANGED <<uses, adoptions, stale>>
             ELSE /\ uses' = [uses EXCEPT ![g] = @ + 1]
                  /\ adoptions' = adoptions \cup {g}
                  /\ stale' = stale \ {g}
          /\ UNCHANGED <<at, node, mem, engine>>
    /\ UNCHANGED <<durable, batch, archived, executor, stop, reports>>

-----------------------------------------------------------------------------
(* _event(), and the state LangGraph stores when a node returns *)

\* A recorded event of the stage is returned only if it says the same.
AgreesOld(p) == TRUE
Agrees(p) == events[StageOf(node[p])][1] = PayloadOf(p)

Look(p) ==
    /\ At(p, "look") \/ (At(p, "mark") /\ left[p] = {})
    /\ \/ /\ ~Recorded(StageOf(node[p]))
          /\ Proceed(p, "append")
       \/ /\ Recorded(StageOf(node[p]))
          /\ IF Agrees(p) THEN Proceed(p, "checkpoint") ELSE Raise(p)
    /\ UNCHANGED <<durable, genes, executor, stop, reports>>

\* Another process may have recorded the stage since. Events carry the time
\* they were made: only two of one clock tick can be identical. The callback the
\* event is passed to may raise after it is stored.
AppendEvent(p) ==
    /\ At(p, "append")
    /\ \/ /\ ~Recorded(StageOf(node[p]))
          /\ events' = [events EXCEPT ![StageOf(node[p])] = <<PayloadOf(p)>>]
          /\ Proceed(p, "checkpoint") \/ Raise(p)
       \/ /\ Recorded(StageOf(node[p])) /\ Agrees(p)
          /\ Proceed(p, "checkpoint")
          /\ UNCHANGED events
       \/ /\ Recorded(StageOf(node[p]))
          /\ Raise(p)
          /\ UNCHANGED events
    /\ UNCHANGED <<checkpoint, stored, genes, executor, stop, reports>>

\* The next node follows; a graph compiled to pause returns after `execute'.
Checkpoint(p) ==
    /\ At(p, "checkpoint")
    /\ checkpoint' = [next |-> NextOf(node[p]), state |-> mem[p]]
    /\ \/ /\ node[p] \in {"execute", "feedback"}
          /\ Raise(p)
       \/ /\ node[p] # "feedback"
          /\ at' = [at EXCEPT ![p] = NextOf(node[p])]
          /\ node' = [node EXCEPT ![p] = NextOf(node[p])]
          /\ UNCHANGED <<mem, left, engine>>
    /\ UNCHANGED <<events, stored, genes, executor, stop, reports>>

-----------------------------------------------------------------------------
(* Failures, and the host *)

\* An executor or verifier that raises: a refused input, an unwritable file.
Fail(p) ==
    /\ \/ at[p] \in {"request", "apply"}
       \/ At(p, "review") /\ mem[p].result.status = "pending_review"
    /\ Raise(p)
    /\ UNCHANGED <<durable, genes, executor, stop, reports>>

Crash(p) ==
    /\ ~At(p, "idle") \/ engine[p] # <<>>
    /\ Return(p)
    /\ engine' = [engine EXCEPT ![p] = <<>>]
    /\ UNCHANGED <<durable, genes, executor, stop, reports>>

\* The operator's STOP file: nothing in the code removes it.
SetStop ==
    /\ ~stop
    /\ stop' = TRUE
    /\ UNCHANGED <<durable, genes, executor, reports, local>>

\* The weight of an unused Gene decays below the threshold.
Age(g) ==
    /\ g \in Active \ stale
    /\ stale' = stale \cup {g}
    /\ UNCHANGED <<durable, batch, archived, uses, adoptions>>
    /\ UNCHANGED <<executor, stop, reports, local>>

Archive ==
    /\ stale # {}
    /\ archived' = archived \cup stale
    /\ stale' = {}
    /\ UNCHANGED <<durable, batch, uses, adoptions>>
    /\ UNCHANGED <<executor, stop, reports, local>>

ProcessStep(p) ==
    \/ Start(p) \/ Invoke(p) \/ Resume(p) \/ Load(p)
    \/ Inject(p) \/ Resolve(p)
    \/ Interrupted(p) \/ FindIntent(p) \/ AppendIntent(p)
    \/ Request(p) \/ Apply(p) \/ Save(p)
    \/ Review(p) \/ Feedback(p)
    \/ \E g \in Gene : MarkUsed(p, g)
    \/ Look(p) \/ AppendEvent(p) \/ Checkpoint(p)
    \/ Fail(p) \/ Crash(p)

Next ==
    \/ \E p \in Process : ProcessStep(p)
    \/ SetStop \/ Archive
    \/ \E g \in Gene : Age(g)

Spec == Init /\ [][Next]_vars

-----------------------------------------------------------------------------
(* Properties *)

\* Every variable has its type.
TypeOK ==
    /\ checkpoint \in [next : Node \cup {"none", "end"}, state : State]
    /\ events \in [Stage -> Seq(Payload)]
    /\ stored \in Result
    /\ batch \in Seq(SUBSET Gene)
    /\ stale \subseteq Gene /\ archived \subseteq Gene
    /\ uses \in [Gene -> Nat]
    /\ adoptions \subseteq Gene
    /\ stop \in BOOLEAN
    /\ repaired \in BOOLEAN
    /\ invoked \in Nat
    /\ reports \in 0 .. MaxReviews
    /\ at \in [Process -> Step]
    /\ node \in [Process -> Node]
    /\ mem \in [Process -> State]
    /\ left \in [Process -> SUBSET Gene]
    /\ engine \in [Process -> {<<>>, <<TRUE>>, <<FALSE>>}]

\* However many processes start, resume and crash, one run makes at most one
\* paid request (runtime.py `_execute'): the intent is won once and for all.
OneInvocation == invoked <= 1

\* Whatever is reviewed again by a replay, what the run taught the topology
\* and the Gene store is what its one durable verdict says (runtime.py
\* `_event', `_feedback'): every engine holds that verdict or none, and a Gene
\* counts as used only if the verdict is a success of an execution that was
\* given it and reported it as adopted.
FeedbackFollowsRecord ==
    /\ \A p \in Process : engine[p] # <<>> =>
          /\ Recorded("reviewed")
          /\ events["reviewed"][1].result.status \in Judged
          /\ engine[p] = <<events["reviewed"][1].result.status = "succeeded">>
    /\ adoptions # {} =>
          /\ Recorded("selected") /\ Recorded("executed") /\ Recorded("reviewed")
          /\ events["reviewed"][1].result.status = "succeeded"
          /\ adoptions \subseteq events["executed"][1].adopted
          /\ events["executed"][1].adopted \subseteq events["selected"][1].genes

\* Adoption is exact under replay (metabolism/service.py `mark_used'): a Gene is
\* counted once per adoption however often the node ran, and a recorded
\* successful feedback has counted every Gene it names.
UsesMatchFeedback ==
    /\ \A g \in Gene : uses[g] = IF g \in adoptions THEN 1 ELSE 0
    /\ Recorded("feedback") /\ events["feedback"][1].result.status = "succeeded" =>
          events["feedback"][1].adopted = adoptions
=============================================================================
