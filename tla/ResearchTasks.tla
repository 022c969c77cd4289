---------------------------- MODULE ResearchTasks ----------------------------
(***************************************************************************)
(* The research service (swarm/research/service.py and dynamic.py): agents *)
(* that each call the service for their own worker, over the real task     *)
(* ledger, the real budget and the append-only asset store (local_assets). *)
(* A service call reads, then writes; between two of its durable writes,   *)
(* and between a check made without a lock and the write it allows, other  *)
(* callers, the clock and a crash may fall. The service keeps no state of  *)
(* its own: a call names a task and a token, and must still be the holder. *)
(* Both kinds of experiment are here: fixed plans, and generated ones,     *)
(* whose asset and purpose are frozen before anything runs.                *)
(* External: the experiment itself, file validation, and what an agent     *)
(* decides to call.                                                        *)
(***************************************************************************)
EXTENDS Naturals, Sequences, FiniteSets

CONSTANTS
    Task, Worker, Scope, Deps, Derived, Evidence, Visible, TTL,
    MaxTasks, MaxDerived, MaxAttempts, MaxAttemptsPerTask, MaxRuntime,
    MaxExecutions, MaxClock, NoWorker, NoRequest, NoResult, NoKey, NoLease,
    Bounds, Usages, NoUsage, Policies, PriceIn, PriceOut, MaxTokens, MaxCost,
    BurnRate, BurnWindow, NoTask, NoBound,
    Caller,           \* the calls a server may work on at the same time
    Host,             \* Host[c]: the worker the server of caller c is bound to
    Authors,          \* the tasks whose agents publish a candidate of their own
    Outcomes,         \* what an experiment may come back with
    NoAsset,
    Modes             \* the kinds of project: generated experiments or not

\* A run is one experiment of a task; an asset is the candidate of one attempt.
Request == Task \X (1 .. MaxExecutions)
Asset == Authors \X (1 .. MaxAttemptsPerTask) \X Worker
Result == [asset : Asset, run : Request \cup {NoRequest}]
LockWait == 0

Purpose == {"original", "reproduction", "counterexample"}
Verdict == {"passed", "failed", "not_evaluated"}
Outcome == [verdict : Verdict, known : BOOLEAN]
Report == [asset : Asset, run : Request, worker : Worker, purpose : Purpose,
           outcome : Outcome, token : Nat, source : Nat]

ASSUME ServiceAssumption ==
    /\ TTL \subseteq Nat /\ MaxAttemptsPerTask \in Nat
    /\ Host \in [Caller -> Worker]
    /\ Outcomes \subseteq Outcome
    /\ NoRequest \notin Request

VARIABLES
    clock, tasks, log, leases, intents, writer, applied, target,  \* the ledger
    rows, breaker, policy,                                        \* the budget
    generated,  \* whether the experiments of the project are generated ones
    frozen,     \* the asset and purpose a generated task is bound to
    calls,      \* the service call each caller is in
    began,      \* the runs that reached the backend
    executions, \* the research_execution events of the ledger
    confirmed,  \* the execution_confirmed events of the ledger
    published, reports, approved                       \* the asset store

ledger == <<clock, tasks, log, leases, intents, writer, applied, target>>
budget == <<rows, breaker, policy>>
experiments == <<began, executions, confirmed>>
store == <<published, reports, approved>>
vars == <<ledger, budget, generated, frozen, calls, experiments, store>>

L == INSTANCE TaskLedger
B == INSTANCE BudgetLedger

Execution == [run : Request, worker : Worker, token : Nat, outcome : Outcome]
Step == {"idle", "reserve", "begin", "run", "settle", "record", "event", "resolve",
         "confirm", "observe", "commit", "submit", "lock", "write"}
Idle == [step |-> "idle", task |-> NoTask, lease |-> NoLease, run |-> NoRequest,
         outcome |-> NoResult, asset |-> NoAsset, purpose |-> "original", source |-> 0]

Init ==
    /\ L!Init
    /\ B!Init
    /\ generated \in Modes
    /\ frozen = [t \in Task |-> NoAsset]
    /\ calls = [c \in Caller |-> Idle]
    /\ began = {}
    /\ executions = {}
    /\ confirmed = {}
    /\ published = {}
    /\ reports = {}
    /\ approved = {}

-----------------------------------------------------------------------------
(* What a call reads *)

At(c, step) == calls[c].step = step
Go(c, step) == calls' = [calls EXCEPT ![c].step = step]
Done(c) == calls' = [calls EXCEPT ![c] = Idle]

LedgerIdle == UNCHANGED ledger
BudgetIdle == UNCHANGED budget
RunsIdle == UNCHANGED experiments
StoreIdle == UNCHANGED store
Configured == UNCHANGED generated
PlansKept == Configured /\ UNCHANGED frozen

\* _lease: the lease the worker of this server now holds on t.
LeaseOn(c, t) == [task |-> t, worker |-> Host[c], token |-> tasks[t].token,
                  expires |-> tasks[t].expiry]
Leased(c, t) == t \in Visible[Host[c]] /\ L!Holds(LeaseOn(c, t))

\* The generation that made the call, and the lease as it is by now.
StillLeased(c) ==
    /\ Leased(c, calls[c].task)
    /\ tasks[calls[c].task].token = calls[c].lease.token
FreshLease(c) == LeaseOn(c, calls[c].task)

\* _budget_ready: read before, and without the lock of, the reservation.
BudgetReady(c) ==
    /\ ~B!Sleeping(Host[c], clock)
    /\ \A q \in Request : rows[q].status # "pending"
    /\ \A t \in Task : tasks[t].unconfirmed = NoRequest
    /\ B!Charged + B!Holds < MaxCost

\* require_reproduced: what the reports on an asset say by now.
Of(asset) == {r \in reports : r.asset = asset}
Passed(r, purpose) == r.purpose = purpose /\ r.outcome.verdict = "passed" /\ r.outcome.known
Doubted(asset) == \E r \in Of(asset) :
    \/ r.purpose # "counterexample" /\ r.outcome.verdict = "passed" /\ ~r.outcome.known
    \/ r.purpose # "original" /\ r.outcome.verdict = "failed"
Repeated(a, b) == a.purpose # b.purpose
Independent(a, b) == a.worker # b.worker /\ a.run # b.run
Reproduced(asset) ==
    /\ ~Doubted(asset)
    /\ \E a, b \in Of(asset) :
           /\ Passed(a, "original") /\ a.run[1] = asset[1]
           /\ Passed(b, "reproduction")
           /\ Independent(a, b)

\* fetch_approved
Usable(asset) == asset \in approved /\ Reproduced(asset)

-----------------------------------------------------------------------------
(* Leases *)

Seed(t) ==
    /\ L!Enqueue(t)
    /\ BudgetIdle /\ RunsIdle /\ StoreIdle /\ PlansKept /\ UNCHANGED calls

\* claim: the budget is read just before, without its lock.
Claim(c, t) ==
    /\ At(c, "idle")
    /\ t \in Visible[Host[c]]
    /\ BudgetReady(c)
    /\ \E ttl \in TTL : L!Claim(Host[c], t, ttl)
    /\ BudgetIdle /\ RunsIdle /\ StoreIdle /\ PlansKept /\ UNCHANGED calls

Renew(c, t) ==
    /\ At(c, "idle")
    /\ Leased(c, t)
    /\ \E ttl \in TTL : clock + ttl > tasks[t].expiry /\ L!Renew(LeaseOn(c, t), ttl)
    /\ BudgetIdle /\ RunsIdle /\ StoreIdle /\ PlansKept /\ UNCHANGED calls

Release(c, t) ==
    /\ At(c, "idle")
    /\ Leased(c, t)
    /\ L!Release(LeaseOn(c, t))
    /\ BudgetIdle /\ RunsIdle /\ StoreIdle /\ PlansKept /\ UNCHANGED calls

Handoff(c, t) ==
    /\ At(c, "idle")
    /\ Leased(c, t)
    /\ \E next \in Worker : L!Handoff(LeaseOn(c, t), next, NoResult)
    /\ BudgetIdle /\ RunsIdle /\ StoreIdle /\ PlansKept /\ UNCHANGED calls

-----------------------------------------------------------------------------
(* Candidates *)

\* publish: a candidate is quarantined also when the lease is lost meanwhile.
Mine(c, t) == <<t, tasks[t].token, Host[c]>>
Publish(c, t) ==
    /\ At(c, "idle")
    /\ ~generated
    /\ t \in Authors
    /\ Leased(c, t)
    /\ Mine(c, t) \notin published
    /\ published' = published \cup {Mine(c, t)}
    /\ LedgerIdle /\ BudgetIdle /\ RunsIdle /\ PlansKept
    /\ UNCHANGED <<calls, reports, approved>>

\* prepare: an agent publishes its own candidate, or takes up the candidate of a
\* completed dependency of another author; the plan is frozen under the fence,
\* before anything was executed for the task.
Prepare(c, t) ==
    /\ At(c, "idle")
    /\ generated
    /\ Leased(c, t)
    /\ tasks[t].unconfirmed = NoRequest
    /\ L!Unlocked
    /\ frozen[t] = NoAsset
    /\ tasks[t].executions = 0
    /\ \E asset \in published \cup (IF t \in Authors THEN {Mine(c, t)} ELSE {}),
          purpose \in Purpose :
           /\ IF purpose = "original" THEN asset = Mine(c, t)
              ELSE /\ asset[1] \in Deps[t] /\ tasks[asset[1]].status = "completed"
                   /\ tasks[asset[1]].owner # Host[c]
           /\ frozen' = [frozen EXCEPT ![t] = [asset |-> asset, purpose |-> purpose]]
           /\ published' = published \cup {asset}
    /\ LedgerIdle /\ BudgetIdle /\ RunsIdle /\ Configured
    /\ UNCHANGED <<calls, reports, approved>>

-----------------------------------------------------------------------------
(* One experiment *)

\* In a generated task the plan must still name the attempt that executes it.
Planned(c, t) ==
    generated => /\ frozen[t] # NoAsset
                 /\ frozen[t].purpose = "original" => frozen[t].asset = Mine(c, t)

ExecuteCheck(c, t) ==
    /\ At(c, "idle")
    /\ Leased(c, t)
    /\ Planned(c, t)
    /\ BudgetReady(c)
    /\ calls' = [calls EXCEPT ![c] = [Idle EXCEPT !.step = "reserve", !.task = t,
                                                  !.lease = LeaseOn(c, t)]]
    /\ LedgerIdle /\ BudgetIdle /\ RunsIdle /\ StoreIdle /\ PlansKept

\* The run has an identity of its own; the reservation carries it.
FreshRun(t) == {<<t, n>> : n \in {k \in 1 .. MaxExecutions :
                   /\ rows[<<t, k>>].status = "absent"
                   /\ k > 1 => rows[<<t, k - 1>>].status # "absent"}}
Reserve(c) ==
    /\ At(c, "reserve")
    /\ \E q \in FreshRun(calls[c].task), b \in Bounds :
           IF B!Reservable(Host[c], calls[c].task, q, b, clock)
           THEN /\ B!Reserve(Host[c], calls[c].task, q, b, clock)
                /\ calls' = [calls EXCEPT ![c].step = "begin", ![c].run = q]
           ELSE BudgetIdle /\ Done(c)
    /\ LedgerIdle /\ RunsIdle /\ StoreIdle /\ PlansKept

\* mark_uncertain: only a request still in flight is changed by it.
MarkUncertain(q) == IF rows[q].status = "pending" THEN B!Settle(q, NoUsage, FALSE, clock)
                    ELSE BudgetIdle

\* The lease is the one read before the reservation: one renewed since is lost.
Begin(c) ==
    /\ At(c, "begin")
    /\ L!Unlocked
    /\ LET may == /\ L!Holds(calls[c].lease)
                  /\ tasks[calls[c].task].unconfirmed = NoRequest
                  /\ tasks[calls[c].task].executions < MaxExecutions
       IN  IF may
           THEN /\ L!BeginExecution(calls[c].lease, calls[c].run)
                /\ Go(c, "run")
                /\ BudgetIdle
           ELSE LedgerIdle /\ Done(c) /\ MarkUncertain(calls[c].run)
    /\ RunsIdle /\ StoreIdle /\ PlansKept

\* A fixed plan settles its reservation first, a generated one records first.
AfterRunUnsettled(c) == "record"
AfterRun(c) == IF generated THEN "record" ELSE "settle"

\* The backend returns an outcome, or raises, with the effect unknown either way
\* until it says otherwise.
Run(c) ==
    /\ At(c, "run")
    /\ began' = began \cup {calls[c].run}
    /\ \/ /\ \E o \in Outcomes :
                 calls' = [calls EXCEPT ![c].step = AfterRun(c), ![c].outcome = o]
          /\ BudgetIdle
       \/ Done(c) /\ MarkUncertain(calls[c].run)
    /\ LedgerIdle /\ StoreIdle /\ PlansKept /\ UNCHANGED <<executions, confirmed>>

\* Only a backend that reports the effect known is confirmed.
EffectReported(c) == calls[c].outcome.verdict # "not_evaluated"
EffectKnown(c) == calls[c].outcome.known

\* A fixed experiment may report usage; a generated one has none to report.
Paid(c) == IF ~calls[c].outcome.known THEN {NoUsage}
           ELSE IF generated THEN {NoUsage} ELSE Usages \cup {NoUsage}
Settle(c) ==
    /\ At(c, "settle") \/ At(c, "resolve")
    /\ \E u \in Paid(c) : B!Settle(calls[c].run, u, FALSE, clock)
    /\ IF ~generated THEN Go(c, "record")
       ELSE IF EffectKnown(c) THEN Go(c, "confirm") ELSE Done(c)
    /\ LedgerIdle /\ RunsIdle /\ StoreIdle /\ PlansKept

\* The lineage of the run is written when the task was found to be still held ...
RecordCheck(c) ==
    /\ At(c, "record")
    /\ IF StillLeased(c)
       THEN Go(c, "event") /\ BudgetIdle
       ELSE Done(c) /\ IF generated THEN MarkUncertain(calls[c].run) ELSE BudgetIdle
    /\ LedgerIdle /\ RunsIdle /\ StoreIdle /\ PlansKept

\* ... by a transaction that asks for no lease: it may be lost by then.
Record(c) ==
    /\ At(c, "event")
    /\ L!Unlocked
    /\ executions' = executions \cup
           {[run |-> calls[c].run, worker |-> Host[c],
             token |-> calls[c].lease.token, outcome |-> calls[c].outcome]}
    /\ IF generated THEN Go(c, "resolve")
       ELSE IF EffectKnown(c) THEN Go(c, "confirm") ELSE Done(c)
    /\ LedgerIdle /\ BudgetIdle /\ StoreIdle /\ PlansKept /\ UNCHANGED <<began, confirmed>>

Confirm(c) ==
    /\ At(c, "confirm")
    /\ L!Unlocked
    /\ IF StillLeased(c)
       THEN /\ L!ConfirmExecution(FreshLease(c), calls[c].run)
            /\ confirmed' = confirmed \cup {calls[c].run}
       ELSE LedgerIdle /\ UNCHANGED confirmed
    /\ Done(c)
    /\ BudgetIdle /\ StoreIdle /\ PlansKept /\ UNCHANGED <<began, executions>>

-----------------------------------------------------------------------------
(* Evidence *)

\* _observation_source: a run of an earlier generation of this worker serves
\* only as its original, and only when it was confirmed with a known effect.
Observable(c, e, asset, purpose) ==
    LET t == e.run[1]
        recovered == e.token # tasks[t].token
    IN  /\ e.worker = Host[c]
        /\ purpose = "original" => asset = <<t, e.token, Host[c]>>
        /\ recovered => /\ ~generated
                        /\ purpose = "original" /\ e.outcome.known
                        /\ e.run \in confirmed
                        /\ tasks[t].unconfirmed = NoRequest
        /\ generated => frozen[t] = [asset |-> asset, purpose |-> purpose]

\* The observation is read without a lock; reporting the same run twice to the
\* same generation adds nothing, and is left out ...
ObserveRead(c) ==
    /\ At(c, "idle")
    /\ \E e \in executions, asset \in published, purpose \in Purpose :
           /\ Leased(c, e.run[1])
           /\ Observable(c, e, asset, purpose)
           /\ \A r \in Of(asset) : <<r.run, r.purpose>> = <<e.run, purpose>>
                                      => r.token # tasks[e.run[1]].token
           /\ calls' = [calls EXCEPT ![c] =
                 [Idle EXCEPT !.step = "observe", !.task = e.run[1],
                              !.lease = LeaseOn(c, e.run[1]), !.run = e.run,
                              !.outcome = e.outcome, !.asset = asset,
                              !.purpose = purpose, !.source = e.token]]
    /\ LedgerIdle /\ BudgetIdle /\ RunsIdle /\ StoreIdle /\ PlansKept

\* ... and written under the fence.
Fenced(c) == L!Unlocked /\ StillLeased(c)

ObserveRecord(c) ==
    /\ At(c, "observe")
    /\ IF Fenced(c)
       THEN reports' = reports \cup
                {[asset |-> calls[c].asset, run |-> calls[c].run, worker |-> Host[c],
                  purpose |-> calls[c].purpose, outcome |-> calls[c].outcome,
                  token |-> calls[c].lease.token, source |-> calls[c].source]}
       ELSE L!Unlocked /\ UNCHANGED reports
    /\ Done(c)
    /\ LedgerIdle /\ BudgetIdle /\ RunsIdle /\ PlansKept /\ UNCHANGED <<published, approved>>

\* complete_research: the candidate stays quarantined. Everything it reads is
\* append-only or changed by this generation alone, so it is one step.
Complete(c, t) ==
    /\ At(c, "idle")
    /\ Leased(c, t)
    /\ tasks[t].unconfirmed = NoRequest
    /\ \E r \in reports :
           /\ r.run[1] = t /\ r.worker = Host[c] /\ r.token = tasks[t].token
           /\ r.source # r.token => r.outcome.verdict = "passed" /\ r.outcome.known
           /\ L!SubmitFact(LeaseOn(c, t), [asset |-> r.asset, run |-> r.run])
    /\ BudgetIdle /\ RunsIdle /\ StoreIdle /\ PlansKept /\ UNCHANGED calls

-----------------------------------------------------------------------------
(* Approval and application *)

\* The scientific check is made before, and outside, the fenced index write.
ApprovePrepare(c, t) ==
    /\ At(c, "idle")
    /\ Leased(c, t)
    /\ tasks[t].unconfirmed = NoRequest
    /\ \E asset \in published \ approved :
           /\ generated => /\ frozen[t] # NoAsset /\ frozen[t].asset = asset
                           /\ asset[3] # Host[c]
           /\ Reproduced(asset)
           /\ calls' = [calls EXCEPT ![c] =
                 [Idle EXCEPT !.step = "commit", !.task = t, !.lease = LeaseOn(c, t),
                              !.asset = asset]]
    /\ LedgerIdle /\ BudgetIdle /\ RunsIdle /\ StoreIdle /\ PlansKept

\* A fixed plan asks for the lease again, a generated one presents the old value.
CommitFenced(c) == Fenced(c) /\ (generated => L!Holds(calls[c].lease))

ApproveCommit(c) ==
    /\ At(c, "commit")
    /\ L!Unlocked
    /\ approved' = IF CommitFenced(c) THEN approved \cup {calls[c].asset} ELSE approved
    /\ Done(c)
    /\ LedgerIdle /\ BudgetIdle /\ RunsIdle /\ PlansKept /\ UNCHANGED <<published, reports>>

ApplyCheck(c, t) ==
    /\ At(c, "idle")
    /\ Leased(c, t)
    /\ tasks[t].unconfirmed = NoRequest
    /\ \E asset \in published :
           /\ generated => frozen[t] # NoAsset /\ frozen[t].asset = asset
           /\ Usable(asset)
           /\ calls' = [calls EXCEPT ![c] =
                 [Idle EXCEPT !.step = "submit", !.task = t, !.lease = LeaseOn(c, t),
                              !.asset = asset]]
    /\ LedgerIdle /\ BudgetIdle /\ RunsIdle /\ StoreIdle /\ PlansKept

ApplySubmit(c) ==
    /\ At(c, "submit")
    /\ L!Unlocked
    /\ IF StillLeased(c)
       THEN /\ L!SubmitIntent(FreshLease(c), [asset |-> calls[c].asset, run |-> NoRequest])
            /\ calls' = [calls EXCEPT ![c].step = "lock", ![c].lease = FreshLease(c)]
       ELSE LedgerIdle /\ Done(c)
    /\ BudgetIdle /\ RunsIdle /\ StoreIdle /\ PlansKept

ApplyLock(c) ==
    /\ At(c, "lock")
    /\ L!PublishBegin(calls[c].lease)
    /\ IF writer' = calls[c].lease THEN Go(c, "write") ELSE Done(c)
    /\ BudgetIdle /\ RunsIdle /\ StoreIdle /\ PlansKept

\* A generated application is checked again inside the publication.
Revalidated(c) == generated => Usable(calls[c].asset)
ApplyWrite(c) ==
    /\ At(c, "write")
    /\ writer = calls[c].lease
    /\ \/ Revalidated(c) /\ L!PublishApply /\ UNCHANGED calls
       \/ L!PublishRefused /\ Done(c)
       \/ L!PublishCommit /\ Done(c)
    /\ BudgetIdle /\ RunsIdle /\ StoreIdle /\ PlansKept

-----------------------------------------------------------------------------

\* The server dies in the middle of a call. Nothing recovers what it held: the
\* next call of the agent finds what is in the tables.
Crash(c) ==
    /\ ~At(c, "idle")
    /\ IF calls[c].step \in {"lock", "write"} THEN L!Crash(Host[c]) ELSE LedgerIdle
    /\ Done(c)
    /\ BudgetIdle /\ RunsIdle /\ StoreIdle /\ PlansKept

Tick == L!Tick /\ BudgetIdle /\ RunsIdle /\ StoreIdle /\ PlansKept /\ UNCHANGED calls

CallStep(c) ==
    \/ \E t \in Task : Claim(c, t) \/ Renew(c, t) \/ Release(c, t) \/ Handoff(c, t)
    \/ \E t \in Task : Publish(c, t) \/ Prepare(c, t) \/ ExecuteCheck(c, t)
    \/ Reserve(c) \/ Begin(c) \/ Run(c) \/ Settle(c)
    \/ RecordCheck(c) \/ Record(c) \/ Confirm(c)
    \/ ObserveRead(c) \/ ObserveRecord(c)
    \/ \E t \in Task : Complete(c, t) \/ ApprovePrepare(c, t) \/ ApplyCheck(c, t)
    \/ ApproveCommit(c) \/ ApplySubmit(c) \/ ApplyLock(c) \/ ApplyWrite(c)
    \/ Crash(c)

Next ==
    \/ \E c \in Caller : CallStep(c)
    \/ \E t \in Task : Seed(t)
    \/ Tick

Spec == Init /\ [][Next]_vars

-----------------------------------------------------------------------------
(* Properties *)

\* No asset is usable on the word of its author: some other worker ran it again
\* and reported, whoever holds the tasks by then and in however many generations
\* (require_reproduced, _observation_source, the fenced reports).
ApprovedIndependently ==
    \A asset \in approved :
        \E e \in executions : /\ e.worker # asset[3] /\ e.outcome.known
                              /\ e.outcome.verdict = "passed"
                              /\ \E r \in Of(asset) : r.run = e.run

\* A completed piece of research rests on a run of its own worker that the
\* ledger has confirmed, also when an earlier generation made the run
\* (complete_research, _observation_source).
CompletedOnConfirmedRun ==
    \A t \in Task :
        tasks[t].status = "completed" /\ ~tasks[t].effect =>
            /\ tasks[t].result.run \in confirmed
            /\ \E e \in executions : /\ e.run = tasks[t].result.run
                                     /\ e.worker = tasks[t].owner /\ e.outcome.known

\* The two books agree, wherever a server dies: a run that reached the backend
\* and is still in flight for the budget is the one its task is blocked on, so
\* no task runs again while the cost of its last run is open
\* (execute() of both kinds of project).
BooksAgree ==
    \A q \in began : rows[q].status = "pending" => tasks[q[1]].unconfirmed = q
=============================================================================
