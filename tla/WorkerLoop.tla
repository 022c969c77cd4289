------------------------------ MODULE WorkerLoop ------------------------------
(***************************************************************************)
(* The worker process (swarm/worker_loop.py) over the real task ledger and *)
(* the real budget: sense, claim, a chain of candidate requests, settle,   *)
(* confirm, publish, finalize, recover. Each step of the process makes at  *)
(* most one durable change, and a crash may fall between any two of them.  *)
(* The lease keeper is a second thread of the process: it renews in the    *)
(* database first and replaces the lease of the process afterwards.        *)
(* External here: the verdict of the breaker (SharedBreaker), the replies  *)
(* of providers (Executors), validation and the ranking of tasks, which    *)
(* may come out either way; the fact store and the audit of failures,      *)
(* which nothing here reads.                                               *)
(***************************************************************************)
EXTENDS Naturals, Sequences, FiniteSets, SequencesExt, Executors

CONSTANTS
    Task, Worker, Scope, Deps, Derived, Evidence, Visible, TTL,
    MaxTasks, MaxDerived, MaxAttempts, MaxAttemptsPerTask, MaxRuntime,
    MaxExecutions, MaxClock, NoWorker, NoRequest, NoResult, NoKey, NoLease,
    Bounds, Usages, NoUsage, Policies, PriceIn, PriceOut, MaxTokens, MaxCost,
    BurnRate, BurnWindow, NoTask, NoBound,
    Kind,             \* Kind[t]: the executor protocol of task t
    Source,           \* Source[t]: the task whose asset t reuses, or NoTask
    LastCandidate,    \* the chain of candidates of w is 0 .. LastCandidate[w]
    Energy, EnergyPolicy, MaxSenses, MaxIdle, ContinueOnRejection,
    MaxStarts,        \* bound of the model: how often each process is started
    NoPending

\* The identity of a request and of a result hold the token of the claim.
Candidate == UNION {0 .. LastCandidate[w] : w \in Worker}
Request == Task \X (1 .. MaxAttemptsPerTask) \X Candidate
Result == Task \X (1 .. MaxAttemptsPerTask)
LockWait == 0

VARIABLES
    clock, tasks, log, leases, intents, writer, applied, target,  \* the ledger
    rows, breaker, policy,                                        \* the budget
    mem,        \* the memory of each process, lost in a crash
    disk,       \* the status file of each worker
    starts,     \* how often each process was started
    sent,       \* requests that left for a provider
    resolved,   \* those of them a reply has told the effect of
    approved,   \* results whose asset is promoted to approved
    fed,        \* how often the feedback pair of each result was applied
    audited     \* results with a durable "promoted" audit record

ledger == <<clock, tasks, log, leases, intents, writer, applied, target>>
budget == <<rows, breaker, policy>>
evidence == <<approved, fed, audited>>
vars == <<ledger, budget, mem, disk, starts, sent, resolved, evidence>>

L == INSTANCE TaskLedger
B == INSTANCE BudgetLedger

\* pc names the step the main thread takes next; "off" and "dead" are a process
\* that returned and one that crashed.
Label == {"off", "dead", "recover", "gate", "sense", "claim", "guard",
          "begin", "send", "wait", "confirm", "publish", "handoff", "submit",
          "lock", "apply", "promote", "mark", "pair", "complete", "audit",
          "finish", "reject", "unwind", "release"}
Ending == {"none", "sleeping", "failed", "rejected", "completed"}

Memory == [pc : Label, task : Task \cup {NoTask}, idle : 0 .. MaxIdle,
           lease : L!Lease \cup {NoLease}, fresh : L!Lease \cup {NoLease},
           keeper : {"none", "running", "failed"}, candidate : Candidate,
           active : Request \cup {NoRequest}, answer : Answer \cup {NoRequest},
           stopped : BOOLEAN, outcome : Ending]
Blank == [pc |-> "off", task |-> NoTask, idle |-> 0, lease |-> NoLease, fresh |-> NoLease,
          keeper |-> "none", candidate |-> 0, active |-> NoRequest, answer |-> NoRequest,
          stopped |-> FALSE, outcome |-> "none"]

\* The record of a submission, kept until its acceptance is finalized.
Pending == [result : Result, feedback : {"none", "started", "complete"}, count : Nat]
File == [energy : Nat, senses : Nat, completed : Nat, pending : Pending \cup {NoPending}]

ASSUME WorkerAssumption ==
    /\ TTL \subseteq Nat /\ MaxAttemptsPerTask \in Nat /\ Energy \in Nat
    /\ LastCandidate \in [Worker -> Nat]
    /\ Visible \in [Worker -> SUBSET Task]
    /\ NoRequest \notin Request /\ NoLease \notin L!Lease /\ NoPending \notin Pending

Init ==
    /\ L!Init
    /\ B!Init
    /\ mem = [w \in Worker |-> Blank]
    /\ disk = [w \in Worker |-> [energy |-> Energy, senses |-> 0, completed |-> 0,
                                 pending |-> NoPending]]
    /\ starts = [w \in Worker |-> 0]
    /\ sent = {}
    /\ resolved = {}
    /\ approved = {}
    /\ fed = [r \in Result |-> 0]
    /\ audited = {}

-----------------------------------------------------------------------------
(* Parts of steps *)

At(w, label) == mem[w].pc = label
Goto(w, label) == mem' = [mem EXCEPT ![w].pc = label]

\* Past the chain of candidates nothing reads the last answer again.
Leave(w, label) == mem' = [mem EXCEPT ![w].pc = label, ![w].answer = NoRequest,
                                      ![w].stopped = FALSE, ![w].candidate = 0]

\* The attempt is over with this outcome: the `finally' clause comes next.
End(w, outcome) == mem' = [mem EXCEPT ![w].pc = "unwind", ![w].outcome = outcome,
                                      ![w].answer = NoRequest, ![w].stopped = FALSE,
                                      ![w].candidate = 0]

\* run() returns: a status is written, memory is gone.
Return(w) == mem' = [mem EXCEPT ![w] = Blank]

LedgerIdle == UNCHANGED ledger
BudgetIdle == UNCHANGED budget
NoEvidence == UNCHANGED <<sent, resolved, evidence>>
MemoryOnly == LedgerIdle /\ BudgetIdle /\ NoEvidence /\ UNCHANGED <<disk, starts>>

\* The thread holds the lock of the keeper from the renewal in the database to
\* the replacement of the lease.
KeeperLockIgnored(w) == TRUE
KeeperLockFree(w) == mem[w].fresh = NoLease

\* keeper.check()
LeaseGood(w) == mem[w].keeper # "failed" /\ L!Holds(mem[w].lease)

RequestOf(w) == <<mem[w].task, mem[w].lease.token, mem[w].candidate>>
ResultOf(w) == <<mem[w].task, mem[w].lease.token>>

Larger(m, n) == IF m >= n THEN m ELSE n

\* The next idle step either comes back to sensing or exhausts the patience.
Idle(w) == IF mem[w].idle + 1 >= MaxIdle THEN Return(w)
           ELSE mem' = [mem EXCEPT ![w].pc = "sense", ![w].idle = @ + 1]

-----------------------------------------------------------------------------
(* Start and recovery *)

\* The operator enqueues the tasks before the first process starts.
Seed(t) ==
    /\ \A w \in Worker : starts[w] = 0
    /\ L!Enqueue(t)
    /\ BudgetIdle /\ NoEvidence /\ UNCHANGED <<mem, disk, starts>>

Start(w) ==
    /\ mem[w].pc \in {"off", "dead"}
    /\ starts[w] < MaxStarts[w]
    /\ starts' = [starts EXCEPT ![w] = @ + 1]
    /\ Goto(w, "recover")
    /\ LedgerIdle /\ BudgetIdle /\ NoEvidence /\ UNCHANGED disk

PendingOf(w) == {q \in Request : rows[q].status = "pending" /\ rows[q].worker = w}

\* _resume: every reservation a former process left in flight becomes uncertain.
\* The active reservation of the status file is one of them, or resolved.
Recover(w) ==
    /\ At(w, "recover")
    /\ IF PendingOf(w) = {}
       THEN /\ Goto(w, IF disk[w].pending # NoPending THEN "promote" ELSE "gate")
            /\ BudgetIdle
       ELSE /\ \E q \in PendingOf(w) : B!Settle(q, NoUsage, FALSE, clock)
            /\ UNCHANGED mem
    /\ LedgerIdle /\ NoEvidence /\ UNCHANGED <<disk, starts>>

Unresolved == \E q \in Request : rows[q].status = "uncertain"

\* "An exhausted local energy counter cannot hide a durable unknown send."
Gate(w) ==
    /\ At(w, "gate")
    /\ IF B!Sleeping(w, clock) /\ (Unresolved \/ breaker = "provider_http_error")
       THEN Return(w)
       ELSE Goto(w, "sense")
    /\ MemoryOnly

-----------------------------------------------------------------------------
(* Choosing and claiming *)

Eligible(w) == {t \in Visible[w] : L!Eligible(t)}

\* The run of this process may be over as soon as the run time of the swarm is;
\* otherwise one sense is counted, and one cycle of energy if that is the policy.
SenseLimit(w) == disk[w].energy = 0 \/ disk[w].senses >= MaxSenses
Counted(w) == [disk EXCEPT ![w].senses = @ + 1,
                           ![w].energy = IF EnergyPolicy = "cycle" THEN @ - 1 ELSE @]

SenseStops(w) ==
    /\ At(w, "sense")
    /\ SenseLimit(w) \/ clock >= MaxRuntime \/ B!Sleeping(w, clock)
    /\ Return(w)
    /\ MemoryOnly

\* stop_when_local_terminal, a setting of the worker, ends such a run early.
LocalTerminal(w) ==
    LET local == {t \in Visible[w] : tasks[t].status # "absent"}
    IN  local # {} /\ \A t \in local : tasks[t].status \in {"completed", "failed"}

Sense(w) ==
    /\ At(w, "sense")
    /\ ~SenseLimit(w) /\ ~B!Sleeping(w, clock)
    /\ disk' = Counted(w)
    /\ IF Eligible(w) = {} THEN Idle(w) \/ (LocalTerminal(w) /\ Return(w))
       ELSE \E t \in Eligible(w) :
                mem' = [mem EXCEPT ![w].pc = "claim", ![w].task = t]
    /\ LedgerIdle /\ BudgetIdle /\ NoEvidence /\ UNCHANGED starts

\* _reuse_verdict: a source that is completed but not approved yet is waited
\* for, without an attempt. (Eligibility already says it is completed.)
SourceReady(t) ==
    Source[t] # NoTask => \E k \in 1 .. MaxAttemptsPerTask :
                              /\ tasks[Source[t]].result = <<Source[t], k>>
                              /\ <<Source[t], k>> \in approved
Waits(w) ==
    /\ At(w, "claim")
    /\ ~SourceReady(mem[w].task)
    /\ Idle(w)
    /\ MemoryOnly

\* The lease a claim or a renewal returns, as the process keeps it.
Granted(w, ttl) == [task |-> mem[w].task, worker |-> w,
                    token |-> tasks[mem[w].task].token + 1, expires |-> clock + ttl]

ClaimLimit == ~L!WithinRuntime \/ L!AttemptCount >= MaxAttempts

\* Losing a race for the task costs no energy and never ends the run.
Contended(w) == mem' = [mem EXCEPT ![w].pc = "sense",
                                   ![w].idle = IF @ < MaxIdle THEN @ + 1 ELSE @]
ClaimDenied(w) ==
    /\ At(w, "claim")
    /\ SourceReady(mem[w].task)
    /\ L!Unlocked
    /\ \/ ClaimLimit /\ Return(w)
       \/ ~ClaimLimit /\ ~L!Eligible(mem[w].task) /\ Contended(w)
    /\ MemoryOnly

Claim(w) ==
    /\ At(w, "claim")
    /\ SourceReady(mem[w].task)
    /\ \E ttl \in TTL :
        /\ L!Claim(w, mem[w].task, ttl)
        /\ mem' = [mem EXCEPT ![w].pc = "guard", ![w].idle = 0, ![w].keeper = "running",
                              ![w].lease = Granted(w, ttl)]
    /\ disk' = [disk EXCEPT ![w].energy = IF EnergyPolicy = "claim" THEN @ - 1 ELSE @]
    /\ BudgetIdle /\ NoEvidence /\ UNCHANGED starts

-----------------------------------------------------------------------------
(* The keeper thread *)

\* _renew_locked: the lease is renewed, or the thread ends, whether the ledger
\* refused or raised.
KeeperRenew(w) ==
    /\ mem[w].keeper = "running"
    /\ mem[w].fresh = NoLease
    /\ \/ \E ttl \in TTL :
              /\ clock + ttl # mem[w].lease.expires
              /\ L!Renew(mem[w].lease, ttl)
              /\ mem' = [mem EXCEPT ![w].fresh = [mem[w].lease EXCEPT !.expires = clock + ttl]]
       \/ LedgerIdle /\ mem' = [mem EXCEPT ![w].keeper = "failed"]
    /\ BudgetIdle /\ NoEvidence /\ UNCHANGED <<disk, starts>>

KeeperAssignHolding(w) ==
    /\ mem[w].fresh # NoLease
    /\ mem' = [mem EXCEPT ![w].lease = mem[w].fresh]
    /\ MemoryOnly
KeeperAssign(w) ==
    /\ mem[w].fresh # NoLease
    /\ mem' = [mem EXCEPT ![w].lease = mem[w].fresh, ![w].fresh = NoLease]
    /\ MemoryOnly

-----------------------------------------------------------------------------
(* One attempt: the chain of candidates *)

\* An exception in the chain: stale lease, failed snapshot, provider code.
Raise(w) == End(w, "failed") /\ MemoryOnly

GuardStale(w) ==
    /\ At(w, "guard")
    /\ KeeperLockFree(w) /\ ~LeaseGood(w)
    /\ Raise(w)

\* guard_provider says no: nothing is reserved, nothing is sent. With every
\* candidate skipped the attempt sleeps; with an earlier one answered it has no
\* candidate to publish and fails.
GuardSkip(w) ==
    /\ At(w, "guard")
    /\ KeeperLockFree(w) /\ LeaseGood(w)
    /\ IF mem[w].candidate < LastCandidate[w]
       THEN mem' = [mem EXCEPT ![w].candidate = @ + 1]
       ELSE End(w, IF mem[w].answer = NoRequest THEN "sleeping" ELSE "failed")
    /\ MemoryOnly

\* The provider is routable: the request is reserved, or BudgetBlocked raised.
Reserve(w) ==
    /\ At(w, "guard")
    /\ KeeperLockFree(w) /\ LeaseGood(w)
    /\ \E b \in Bounds :
        IF B!Reservable(w, mem[w].task, RequestOf(w), b, clock)
        THEN /\ B!Reserve(w, mem[w].task, RequestOf(w), b, clock)
             /\ mem' = [mem EXCEPT ![w].pc = "begin", ![w].active = RequestOf(w)]
        ELSE BudgetIdle /\ End(w, "sleeping")
    /\ LedgerIdle /\ NoEvidence /\ UNCHANGED <<disk, starts>>

\* The last check before the request, and the mark against resending it, both
\* with the lease as the keeper left it.
Begin(w) ==
    /\ At(w, "begin")
    /\ KeeperLockFree(w) /\ LeaseGood(w)
    /\ L!BeginExecution(mem[w].lease, RequestOf(w))
    /\ Goto(w, "send")
    /\ BudgetIdle /\ NoEvidence /\ UNCHANGED <<disk, starts>>

\* A stale lease, a failed snapshot or an asset that cannot be consumed.
BeginFails(w) == At(w, "begin") /\ Raise(w)

Send(w) ==
    /\ At(w, "send")
    /\ sent' = sent \cup {mem[w].active}
    /\ Goto(w, "wait")
    /\ LedgerIdle /\ BudgetIdle /\ UNCHANGED <<disk, starts, resolved, evidence>>

\* A reply from which the effect of the request on the provider is known.
TellsEffect(a) == a.class # "unknown_effect" /\ (a.class = "confirmed_rejection" \/ ~a.uncertain)

\* Only an outcome that is known takes the mark away again.
AnyAnswerConfirms(a) == TRUE
EffectKnown(a) == /\ a.class # "unknown_effect"
                  /\ ~a.uncertain \/ a.class = "confirmed_rejection"

\* Stops of the swarm that end the attempt.
Grave == {"provider_bound_violated", "request_token_limit_exceeded", "unknown_usage",
          "provider_http_error"}

\* The attempt goes on with the answer, or not when the answer turns out to have
\* another provenance than its executor declares.
Use(w, a) == mem' = [mem EXCEPT ![w].pc = "confirm", ![w].active = NoRequest,
                                ![w].answer = a, ![w].stopped = breaker' \in Grave]
Mismatch(w) == mem' = [mem EXCEPT ![w].pc = "unwind", ![w].outcome = "failed",
                                  ![w].active = NoRequest, ![w].answer = NoRequest,
                                  ![w].stopped = FALSE, ![w].candidate = 0]

\* The reply decides how the reservation ends; the stop it leads to is kept for
\* the decision. The keeper's lock is not needed.
Settle(w) ==
    /\ At(w, "wait")
    /\ \E a \in Answers[Kind[mem[w].task]] :
           \E u \in (IF a.metered THEN Usages ELSE {NoUsage}) :
               /\ IF a.httpError THEN B!Settle(mem[w].active, u, TRUE, clock)
                  ELSE IF a.uncertain /\ a.class = "confirmed_rejection"
                  THEN B!MarkUnknownRejection(mem[w].active, clock)
                  ELSE B!Settle(mem[w].active, IF a.uncertain THEN NoUsage ELSE u, FALSE, clock)
               /\ Use(w, a) \/ Mismatch(w)
               /\ resolved' = IF TellsEffect(a) THEN resolved \cup {mem[w].active}
                              ELSE resolved
    /\ LedgerIdle /\ UNCHANGED <<disk, starts, sent, evidence>>

ExecuteRaises(w) == At(w, "wait") /\ Raise(w)

\* Where the attempt goes with the reply of its candidate.
Decided(w) ==
    LET a == mem[w].answer
        decision == Decision(a.class, mem[w].candidate < LastCandidate[w])
    IN  IF (a.uncertain /\ a.class # "confirmed_rejection") \/ mem[w].stopped
        THEN End(w, "sleeping")
        ELSE IF a.candidate /\ a.class # "unknown_effect" THEN Leave(w, "publish")
        ELSE IF decision = "switch"
        THEN mem' = [mem EXCEPT ![w].pc = "guard", ![w].candidate = @ + 1]
        ELSE IF decision = "stop" THEN End(w, "sleeping")
        ELSE Leave(w, "reject")

Confirm(w) ==
    /\ At(w, "confirm")
    /\ IF ~EffectKnown(mem[w].answer)
       THEN Decided(w) /\ LedgerIdle
       ELSE /\ KeeperLockFree(w)
            /\ IF LeaseGood(w)
               THEN L!ConfirmExecution(mem[w].lease, RequestOf(w)) /\ Decided(w)
               ELSE LedgerIdle /\ End(w, "failed")
    /\ BudgetIdle /\ NoEvidence /\ UNCHANGED <<disk, starts>>

\* reject_task: the keeper stops, and the attempt is failed with its last lease.
Reject(w) ==
    /\ At(w, "reject")
    /\ KeeperLockFree(w)
    /\ L!Unlocked
    /\ IF L!Holds(mem[w].lease)
       THEN /\ L!Fail(mem[w].lease)
            /\ mem' = [mem EXCEPT ![w].pc = "unwind", ![w].outcome = "rejected",
                                  ![w].keeper = "none"]
       ELSE LedgerIdle /\ End(w, "failed")
    /\ BudgetIdle /\ NoEvidence /\ UNCHANGED <<disk, starts>>

-----------------------------------------------------------------------------
(* Publication and finalization *)

\* The asset is stored and validated, the application prepared, and the
\* submission recorded in the status file.
Publish(w) ==
    /\ At(w, "publish")
    /\ KeeperLockFree(w) /\ LeaseGood(w)
    /\ disk' = [disk EXCEPT ![w].pending = [result |-> ResultOf(w), feedback |-> "none",
                                            count |-> disk[w].completed + 1]]
    /\ Goto(w, "handoff")
    /\ LedgerIdle /\ BudgetIdle /\ NoEvidence /\ UNCHANGED starts

PublishRejected(w) ==
    /\ At(w, "publish")
    /\ KeeperLockFree(w) /\ LeaseGood(w)
    /\ Goto(w, "reject")
    /\ MemoryOnly

PublishFails(w) == At(w, "publish") /\ KeeperLockFree(w) /\ Raise(w)

\* keeper.handoff(): the thread has ended, and one last renewal is made or fails
\* as the others do.
Handoff(w) ==
    /\ At(w, "handoff")
    /\ KeeperLockFree(w)
    /\ \/ /\ LeaseGood(w)
          /\ \E ttl \in TTL :
                /\ L!Renew(mem[w].lease, ttl)
                /\ mem' = [mem EXCEPT ![w].pc = "submit", ![w].keeper = "none",
                                      ![w].lease.expires = clock + ttl]
       \/ LedgerIdle /\ End(w, "failed")
    /\ BudgetIdle /\ NoEvidence /\ UNCHANGED <<disk, starts>>

Submit(w) ==
    /\ At(w, "submit")
    /\ L!Unlocked
    /\ IF L!Holds(mem[w].lease)
       THEN L!SubmitIntent(mem[w].lease, ResultOf(w)) /\ Goto(w, "lock")
       ELSE LedgerIdle /\ End(w, "failed")
    /\ BudgetIdle /\ NoEvidence /\ UNCHANGED <<disk, starts>>

Lock(w) ==
    /\ At(w, "lock")
    /\ L!PublishBegin(mem[w].lease)
    /\ IF writer' = mem[w].lease THEN Goto(w, "apply") ELSE End(w, "failed")
    /\ BudgetIdle /\ NoEvidence /\ UNCHANGED <<disk, starts>>

Apply(w) ==
    /\ At(w, "apply")
    /\ \/ L!PublishApply /\ UNCHANGED mem
       \/ L!PublishRefused /\ End(w, "failed")
       \/ /\ L!PublishCommit
          /\ IF tasks'[mem[w].task].status = "completed"
             THEN Goto(w, "promote") ELSE End(w, "failed")
    /\ BudgetIdle /\ NoEvidence /\ UNCHANGED <<disk, starts>>

\* _finalize raises: a starting process stops for review, an attempt fails. The
\* record stays in the status file.
Recovering(w) == mem[w].lease = NoLease
Review(w) == IF Recovering(w) THEN Return(w) ELSE End(w, "failed")

RecordAccepted(w) == TRUE

\* Only a completed, applied task of this very generation may be finalized.
Accepted(w) ==
    LET r == disk[w].pending.result
        row == tasks[r[1]]
    IN  /\ row.status = "completed" /\ row.owner = w /\ row.token = r[2]
        /\ row.result = r /\ row.effect

Promote(w) ==
    /\ At(w, "promote")
    /\ IF Accepted(w)
       THEN /\ approved' = approved \cup {disk[w].pending.result}
            /\ CASE disk[w].pending.feedback = "none" -> Goto(w, "mark")
                 [] disk[w].pending.feedback = "started" -> Review(w)
                 [] OTHER -> Goto(w, "audit")
       ELSE Review(w) /\ UNCHANGED approved
    /\ LedgerIdle /\ BudgetIdle /\ UNCHANGED <<disk, starts, sent, resolved, fed, audited>>

\* promote() or record_adoption() raises, before the asset is approved or after.
PromoteFails(w) ==
    /\ At(w, "promote") /\ Accepted(w)
    /\ approved' \in {approved, approved \cup {disk[w].pending.result}}
    /\ Review(w)
    /\ LedgerIdle /\ BudgetIdle /\ UNCHANGED <<disk, starts, sent, resolved, fed, audited>>

SetFeedback(w, state) == disk' = [disk EXCEPT ![w].pending.feedback = state]

MarkFeedback(w) ==
    /\ At(w, "mark")
    /\ SetFeedback(w, "started")
    /\ Goto(w, "pair")
    /\ LedgerIdle /\ BudgetIdle /\ NoEvidence /\ UNCHANGED starts

\* trusted_pair: pheromone and pipe history in one transaction, or nothing when
\* the trusted fact cannot be found.
Pair(w) ==
    /\ At(w, "pair")
    /\ \/ fed' = [fed EXCEPT ![disk[w].pending.result] = @ + 1] /\ Goto(w, "complete")
       \/ UNCHANGED fed /\ Review(w)
    /\ LedgerIdle /\ BudgetIdle /\ UNCHANGED <<disk, starts, sent, resolved, approved, audited>>

CompleteFeedback(w) ==
    /\ At(w, "complete")
    /\ SetFeedback(w, "complete")
    /\ Goto(w, "audit")
    /\ LedgerIdle /\ BudgetIdle /\ NoEvidence /\ UNCHANGED starts

\* The audit file is named after the result: writing it again changes nothing.
Audit(w) ==
    /\ At(w, "audit")
    /\ audited' = audited \cup {disk[w].pending.result}
    /\ Goto(w, "finish")
    /\ LedgerIdle /\ BudgetIdle /\ UNCHANGED <<disk, starts, sent, resolved, approved, fed>>

CountIfRunning(w) == IF Recovering(w) THEN disk[w].completed
                     ELSE Larger(disk[w].completed, disk[w].pending.count)
Count(w) == Larger(disk[w].completed, disk[w].pending.count)

Finish(w) ==
    /\ At(w, "finish")
    /\ disk' = [disk EXCEPT ![w].pending = NoPending,
                            ![w].completed = Count(w)]
    /\ IF Recovering(w) THEN Goto(w, "gate") ELSE End(w, "completed")
    /\ LedgerIdle /\ BudgetIdle /\ NoEvidence /\ UNCHANGED starts

\* A reservation still held when the attempt ends becomes uncertain.
Forget(q) == BudgetIdle
Abandon(q) == IF q = NoRequest THEN BudgetIdle ELSE B!Settle(q, NoUsage, FALSE, clock)

\* The `finally' clause: the thread is joined, the reservation abandoned; then
\* the lease goes back if it is still one.
Unwind(w) ==
    /\ At(w, "unwind")
    /\ KeeperLockFree(w)
    /\ mem' = [mem EXCEPT ![w].pc = "release", ![w].keeper = "none",
                          ![w].active = NoRequest]
    /\ Abandon(mem[w].active)
    /\ LedgerIdle /\ NoEvidence /\ UNCHANGED <<disk, starts>>

Continues(w) == \/ mem[w].outcome = "completed"
                \/ mem[w].outcome = "rejected" /\ ContinueOnRejection

Release(w) ==
    /\ At(w, "release")
    /\ L!Unlocked
    /\ IF L!Holds(mem[w].lease) THEN L!Release(mem[w].lease) ELSE LedgerIdle
    /\ IF Continues(w) THEN mem' = [mem EXCEPT ![w] = [Blank EXCEPT !.pc = "sense"]]
       ELSE Return(w)
    /\ BudgetIdle /\ NoEvidence /\ UNCHANGED <<disk, starts>>

-----------------------------------------------------------------------------

\* The process dies: memory and both threads are gone, files and tables stay.
Crash(w) ==
    /\ mem[w].pc \notin {"off", "dead"}
    /\ L!Crash(w)
    /\ mem' = [mem EXCEPT ![w] = [Blank EXCEPT !.pc = "dead"]]
    /\ BudgetIdle /\ NoEvidence /\ UNCHANGED <<disk, starts>>

Tick == L!Tick /\ BudgetIdle /\ NoEvidence /\ UNCHANGED <<mem, disk, starts>>

MainStep(w) ==
    \/ Recover(w) \/ Gate(w) \/ SenseStops(w) \/ Sense(w) \/ Waits(w)
    \/ ClaimDenied(w) \/ Claim(w)
    \/ GuardStale(w) \/ GuardSkip(w) \/ Reserve(w)
    \/ Begin(w) \/ BeginFails(w) \/ Send(w) \/ Settle(w) \/ ExecuteRaises(w)
    \/ Confirm(w) \/ Reject(w)
    \/ Publish(w) \/ PublishRejected(w) \/ PublishFails(w)
    \/ Handoff(w) \/ Submit(w) \/ Lock(w) \/ Apply(w)
    \/ Promote(w) \/ PromoteFails(w) \/ MarkFeedback(w) \/ Pair(w)
    \/ CompleteFeedback(w) \/ Audit(w)
    \/ Finish(w) \/ Unwind(w) \/ Release(w)
KeeperStep(w) == KeeperRenew(w) \/ KeeperAssign(w)

Next ==
    \/ \E w \in Worker : Start(w) \/ MainStep(w) \/ KeeperStep(w) \/ Crash(w)
    \/ \E t \in Task : Seed(t)
    \/ Tick

\* The operating system keeps running a live process, whichever of its two
\* threads can go on, and every external call has a timeout. Nobody has to start
\* a process again.
Fairness == \A w \in Worker : WF_vars(MainStep(w) \/ KeeperAssign(w))

Spec == Init /\ [][Next]_vars /\ Fairness

-----------------------------------------------------------------------------
(* Properties *)

\* A task has at most one request with an unknown effect: nothing is sent for
\* it, by whatever worker and after whatever crash, settlement or takeover,
\* while an earlier request has not been answered for certain (the order
\* begin_execution, execute, settle, confirm_execution of _process).
OneUnknownEffect ==
    [][\A q \in sent' \ sent : \A p \in sent : p[1] = q[1] => p \in resolved]_vars

\* A process that returned, by any of its exits, holds nothing: no reservation
\* in flight, and no live lease unless an earlier process left one behind
\* (the nested `finally' clauses of _process, and _resume).
ReturnsCleanly ==
    \A w \in Worker : mem[w].pc = "off" =>
        /\ PendingOf(w) = {}
        /\ starts[w] <= 1 => \A l \in leases : l.worker = w => ~L!Holds(l)

\* The keeper never makes its own process lose a task: when a call of the main
\* thread fails on its lease, no lease of that generation is good any more
\* (_Renewal: the lease is replaced and read under one lock).
OnlyRealLossFails ==
    [][\A w \in Worker :
           /\ mem[w].pc \in {"confirm", "reject", "submit"}
           /\ mem'[w].outcome = "failed"
           => \A l \in leases : /\ l.task = mem[w].task
                                /\ l.token = mem[w].lease.token
                                => ~L!Holds(l) \/ mem[w].keeper = "failed"]_vars

\* The feedback of a result is applied at most once, and "promoted" is recorded
\* only for a result whose task is completed with its effect, whose asset is
\* approved and whose feedback was applied, through any crash and restart
\* (_finalize).
PromotionEvidence ==
    /\ \A r \in Result : fed[r] <= 1
    /\ \A r \in audited :
           /\ fed[r] = 1
           /\ r \in approved
           /\ tasks[r[1]].status = "completed"
           /\ tasks[r[1]].result = r
           /\ tasks[r[1]].effect

\* The counter of a worker is the number of its promotions, also when it died
\* between the audit record and the counter (completion_count in _finalize).
CompletedCounts ==
    \A w \in Worker :
        LET mine == {r \in audited : tasks[r[1]].owner = w}
            open == IF disk[w].pending # NoPending THEN {disk[w].pending.result} ELSE {}
        IN  disk[w].completed = Cardinality(mine \ open)

\* Every run of a process ends: whatever providers answer, whoever else holds
\* the task or the database, run() returns unless the process is killed.
EveryRunReturns ==
    \A w \in Worker : mem[w].pc \notin {"off", "dead"} ~> mem[w].pc \in {"off", "dead"}
=============================================================================
