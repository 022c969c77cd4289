# Verification of the Morphogenesis swarm

TLA+ models of the durable coordination core of this repository, checked with
TLC on small instances, with theorems checked by TLAPS for every value of the
constants. The repository is a Python system in which several worker processes,
sharing nothing but SQLite databases, JSONL files and a target tree, claim
tasks, pay for external model requests, back off from failing providers and
publish files. There is no scheduler and no message bus: everything that makes
the system correct is a guard evaluated inside a transaction, and everything
that can go wrong happens between two of them.

## 1. Inventory

Paths are relative to the repository root. `PROJECT.json` lists every component
with its status, and every hazard with its line.

### The swarm core (`swarm/`)

| component | state it keeps | operations | hard behaviour | what makes it correct |
|---|---|---|---|---|
| task ledger, leases (`task_ledger.py`, `lease.py`) | SQLite tables tasks, task_attempts, dependencies, evidence | enqueue, claim, renew, release, fail, handoff, begin/confirm_execution, record_condition_failure, submit | expiry, late holders, crash between the two transactions of a publication, scope overlap | one live generation per task, no overlapping work, no request sent twice, files and rows agree |
| budget (`budget.py`) | reservations, the stop, the durable policy | reserve, settle, mark_uncertain, mark_unknown_rejection | late and repeated reports, clock read before the lock, restarts | ceiling and burn rate kept, evidence final, stop durable |
| breaker (`breaker.py`, `failure_chain.py`) | one row per (provider, reason); evidence cache per process | observe, try_claim_probe, report success/failure, guard_provider | evidence read without the lock, lapsed probes, late reports | one probe at a time, recovery only through it, suspensions served |
| fact store (`fault_observations.py`) | JSONL file plus an index | append, read, checkpoint | torn lines, lost fsync, duplicate requests | every accepted fact is read once, checkpoints separate old from new |
| worker loop (`worker_loop.py`) | status file, energy, pending finalization; renewal thread | sense, claim, reserve, execute, settle, confirm, submit, finalize, resume | thread races, crash at every step, unknown effects | never resend, never pay twice, finalize at most once |
| pheromone, feedback (`pheromone.py`, `feedback.py`) | learned facts and a derived index | feedback, reinforce, synchronize, project | half-applied pairs, rebuild against update | index is a function of the facts |
| router, observer | none of their own | rank, observe | ties, stale input | bounded choice |
| executors (`evomap_executor.py`, `code_executor.py`) | none | execute | timeout with unknown effect | one request per call, faithful classification |
| hub mirror (`hub_mirror.py`) | bounded queue, marker files | enqueue, publish, close | lost items, second process | at most one publication per asset |
| research (`research/`) | records in ledger and budget, dynamic task graph | claim, execute, publish, hand off | its own order of begin, reserve, settle, confirm | the same as the worker loop |
| projection, observatory, CLI | none | read | - | - |

### Around it

| component | state | why it matters |
|---|---|---|
| local assets (`local_assets/`) | append-only asset tables, validation reports, target tree | publication callback of the ledger, promotion ladder, consumption receipts |
| hub client (`hub_client/`) | publication record per artifact, lock file | a record is marked unknown before it is sent and never sent again |
| orchestration (`orchestration/runtime.py`, `gateway.py`, `rehearsal.py`) | LangGraph checkpoints, event store | replay of stages, one external execution per run |
| native agents (`orchestration/native_agents/`) | ownership of a process group | timeout, stop and exit race |
| persistence (`persistence/store.py`) | events, results, genes | unique message ids |
| metabolism, topology | genes with weights; conductances | inject once per attempt, decay, archive; choice of a builder |
| bridge, provisioning, readiness, contracts, bootstrap, viz, tools, deploy | none, or read-only | adapters, validation, display |

### How they interact

A worker senses eligible tasks, **claims** one in the ledger, asks the breaker
whether a provider is **routable** (and may win its probe slot), **reserves**
money in the budget, marks the task **begun** in the ledger, sends one external
request, **settles** the budget, **confirms** the ledger, reports to the
**breaker**, and **submits**: the ledger writes a durable intent, takes the
database lock again and runs the asset store's callback on the target tree while
it holds it. Ledger, budget and breaker are separate transactions (and may be
separate databases), so a crash can fall between any two of these verbs.

## 2. What is modelled

| module | models | its state |
|---|---|---|
| `FencedLocks` | what the ledger promises: numbered generations of mutually exclusive locks | `issued`, `held` |
| `TaskLedger` | `swarm/task_ledger.py`, the callback `local_assets/apply.py` | rows, attempt log, every lease value ever returned, publications in progress, target tree, clock |
| `BudgetLedger` | `swarm/budget.py` | reservation rows, the stop, the policy, clock |
| `FactStore` | `swarm/fault_observations.py`: the JSONL file, its index and checkpoints under failing writes and power failures | the lines, what of them is durable, the index, the call in progress |
| `SharedBreaker` | `swarm/breaker.py` and `failure_chain.py` over the abstract log of facts that `FactStore` provides | fact file, breaker row, each process's reading, evidence cache and store, the claims workers believe they hold, clock |
| `Executors` | what `evomap_executor.py`, `code_executor.py` and the provider adapters may answer, and how an answer is classified | none |
| `WorkerLoop` | `swarm/worker_loop.py`: the whole of `run()` over a real ledger and a real budget, with the renewal thread | per worker: program counter, lease in hand, keeper, request, answer, counters; the records of finalization and feedback; crashes |
| `ResearchTasks` | `swarm/research/service.py` and the parts of `experiments.py`, `promote.py`, `apply.py` it calls: a second client of ledger and budget | per caller: the call in progress and what it has read; runs, reports, approvals, applications |
| `ResearchRecords` | the records of `swarm/research/service.py` and `feedback.py`: proposals and their admission to the ledger, reviews, supersessions, corrections of branches | the record tables; the facts; per host: the call in progress and what it has read |
| `LearnedField` | `swarm/pheromone.py`, the facts of `feedback.py`, and the calls of `worker_loop.py` and `research/service.py` that write an index | the results that completed and are confirmed; per field: the facts learned, the signals raised, the samples of each history; the open pair of a worker; what a host has read |
| `RunReplay` | `orchestration/runtime.py`, `gateway.py`, `persistence/store.py`, `metabolism/service.py` | events, result row, genes, checkpoint; per process: stage, position and local values |
| `HubPublication` | `hub_client/client.py`, `swarm/hub_mirror.py` | publication and report records, lock files, the mirror's marker, queue and thread; what the Hub has received |
| `NativeRun` | `orchestration/native_agents/process.py` on POSIX: one headless invocation | the agent and its group, its output, the step of the observer, the outcome |
| `SandboxRun` | `orchestration/experiments/executor.py`, `generated_executor.py` and the session of `backend.py`: one experiment in a remote sandbox | the archive; per process: the step, the result in memory, the session, the download; per sandbox: its life and its command |
| `MC*` | small instances | - |
| `*Proofs` | theorems; those of `SharedBreakerProofs` are about `SharedBreaker` and `FactStore`, of `ResearchProofs` about `ResearchTasks`, `ResearchRecords` and `LearnedField`, of `RemoteProofs` about `HubPublication`, `NativeRun` and `SandboxRun` | - |
| `Induction` | lemmas the theorems share: induction over numbers and finite sets, and that a recursion over numbers has a solution | - |

`PROJECT.json` maps every definition to its lines.

**TaskLedger.** Every method of the class that writes is one `BEGIN IMMEDIATE`
transaction and one action. `submit()` with a callback is the exception: its first
transaction is `SubmitIntent`; its second holds the database lock while files are
written, so it is `PublishBegin`, then `PublishApply` or `PublishRefused`, then
`PublishCommit`, with `Tick` (the lease may run out) and `Crash` able to fall
between them; `Unlocked` keeps every other transaction out meanwhile. A crash
during the callback leaves the target tree untouched, part written or fully
written; so does a callback that raises, whose undo may fail half way. A lease is a value a caller keeps: all leases ever returned stay in
`leases`, and each may be presented again at any time, so late and repeated calls
need no action of their own. The path of a scope is a sequence of names, the
root is the empty one; `ScopesCollide` is the function of the code,
`SqlCollide` what its SQL computes.

**BudgetLedger.** A policy is chosen once; its fields are those that change
control flow. A caller reads the clock before it queues for the database lock,
so an operation carries a `now` up to `LockWait` older than the clock, and rows
of later dates may already be there. `mark_uncertain()` is `settle()` without
usage, as in the code. A replay that contradicts the recorded usage raises and
rolls back the stop it had asked for, so it is no step at all.

**SharedBreaker.** Keys are independent, so one is modelled. `observe()` is two
steps because the store is read before the state lock is taken. The cache
belongs to a process and is lost by `Restart`; the row and the fact file are not.
A recovery stores the position of the fact file when the process has a store
attached, and none otherwise. A claim a worker holds in memory may be reported at
any time later, or never (`AbandonClaim`, `Restart`).

**FactStore** lets a write stop anywhere in a line and a power failure keep the
synced bytes and any part of those after them; a line without its newline, or cut
in the middle, is repaired by the newline the next append writes first. The
index and the signature of the file it was built from are rolled back together.
The file system is trusted to keep the name of a file whose bytes it has synced
(the code does not sync the directory). A checkpoint may count bytes that were
never synced; when a power failure takes them the checkpoint has lost its
meaning, and the model drops it.

**WorkerLoop** composes `TaskLedger` and `BudgetLedger` (INSTANCE, their actions
taken with the worker's own arguments) by the order of calls of `run()`: resume
of what an earlier process left, sensing, claim, keeper thread, the guard of a
candidate, reservation, request, settlement, confirmation, submission,
promotion, feedback and audit. Every database call is a step of its own, and a
step that finds the database busy or the lease lost takes the exception path of
the code. The keeper is a second thread: it renews whenever the main thread does
not hold its lock, and once more when it is stopped. `Crash` ends both threads at
any step; a restarted process has only what the tables and its durable records
hold. Status writes that change counters only are merged with the transaction
before them, and `mark_uncertain` in the inner handler with the unwinding it
begins. The breaker's verdict on a candidate is any verdict (`SharedBreaker`
shows which are possible), and its reports have no effect here. The reuse verdict
`unsatisfiable` is not reachable from the callers and is absent. A renewal that is
refused or raises ends the keeper at any time; so may the write of a promotion
end a run, and an answer whose provenance is not that of its executor ends the
attempt after it was settled. That the join of the keeper times out is not
modelled: it waits longer than the keeper's one database call may take. One
process per worker identity is assumed, as in the code.

**ResearchTasks** has one `call` per host in progress: what the method has read
so far is kept in the call, so checks made before a transaction may be stale when
it runs. Ledger, budget and run ledger are separate transactions in the order of
this service, which differs from the worker loop's; a crash may fall between any
two. The event of a run is written after a look at the lease, without its fence,
so the lease may be lost between the two. Not modelled: native invocation binding,
inheritance (a child reproduced with its parents' lineage, in
`local_assets/research.py`) and consumption receipts, the race of two callers
between `_budget_ready` and the reservation (the reservation itself decides), and
the branch of `observe` for a rejected archive.

**ResearchRecords** is the rest of the same service, which shares no variable
with `ResearchTasks`. Each method reads its records, decides, and writes in a
transaction of its own, so two hosts may decide on the same reading; what the
unique keys of the tables make of the second write (accepted, equal and ignored,
or a conflict) is part of each action. A host may die between the write of a
proposal's task and the write of its verdict. The facts a correction cites are
results that become known one after the other; `trusted()` sorts them by
completion time, and the model lets those times grow. Not modelled: notes and
hypotheses, the dependency and locality filters of a proposal, and the
read-only context, package and snapshot.

**LearnedField** has the two files of the index: one the workers add to, one the
hosts of the research service rebuild. A weight is the fold of its samples, with
decay between them, so a row stands here as the sequence of its samples.
`trusted_pair()` is `RewardSignal`, `RewardHistory` and `CommitPair`, and nothing is
written while the pair is open; a host reads the facts and writes the index in two
steps, and any other step may fall between. A worker that has started the feedback
of a result never starts it again. Not modelled: the values of concentrations and
their decay, and the identity checks of a fact.

**RunReplay** follows one run with one builder through its stages. A stage is
a sequence of steps, each an event appended under a unique message identifier,
a result saved, a call, or a change of a gene; the checkpoint follows the last.
`Crash` and resumption by any process may fall between all of them. A replayed
step finds its event and must produce the same payload, otherwise the code
raises "conflicting replay" and the process stops. `on_event` may raise when the
event is already stored. A review is verified in one step and saved in another.
Genes may decay and be
archived by others between the steps. Ingestion of genes lies before or after
the run, and the stop file is only ever set.

**HubPublication** has the steps of `publish()` (lock file, prepare, mark
unknown, send, store the receipt, unlock), of `report_use()` and of the mirror
thread (marker, take, prepare, publish, clear, salvage at start). A response may
be lost after the Hub has accepted; a write may fail; a process may die at each
step, and its lock file then stays until an operator removes it. The states
`candidate`, `promoted` and `received` of a Hub asset are one. `hello` and
`fetch` keep no durable state; the cache of fetched assets, which a report
requires, is over-approximated. The mirror overwrites a record without the lock,
so a stored receipt may be replaced by `unknown`: that errs on the safe side, and
that receipts are never replaced is not claimed. An offer made after `close()`
may be accepted and never processed.

**NativeRun** follows `run_headless()` from the launch to the verdict. The agent
and its descendants write lines, fork and end at any time, also while they are
being cancelled; the observer reads, polls, checks its limits, and cleans up
through `OwnedProcess.cancel()`, from the loop and again from the `finally`
clause. An interrupt, an error of the system or an exception of the callback may
leave the loop at each of its steps. SIGKILL is obeyed within the wait the code
allows. Not modelled: the job object of Windows, interactive launches, an
interrupt during the cleanup itself or between the start of the agent and its
assignment to its owner (the code has nothing that would end the agent then), and
descendants that leave the process group, which are out of the code's reach.

**SandboxRun** is `execute()` of both executors, which share `finalize_session()`,
from the directory of the run to the last write of `result.json`. Each call of
the service (create, upload, probe, pause, read, resume, run, destroy) may fail
with or without its effect; a write of the archive may fail; the process may die
at each step; the sandbox may reach its lifetime. Several processes may be given
one run identifier. The generated executor downloads from a frozen sandbox, the
registered one reads the live file; its check of the export may fail before the
sandbox is paused. Writes of inputs and outputs that leave the
states in `result.json` as they are are merged with the step before them. Not
modelled: the content checks of inputs, outputs and archives, and attached
sessions, which `execute()` never uses.

### Abstractions

Money, tokens and time are small naturals. JSON bodies, hashes, error texts and
the event log are left out. Facts carry their time, whether they are a confirmed
rejection, and a Retry-After. Invalid arguments (a TTL that is not positive, a
foreign reservation) are not enumerated: the code refuses them before any
transaction. The clock is trusted not to run backwards, which
`docs/SWARM_ENVIRONMENT.md` asks of the deployment. In the budget, a price
estimate that overflows is not modelled. In the ledger the target tree of a
publication is old, partly written or new, not a set of files.

## 3. What the runs show

| run | instance | checks |
|---|---|---|
| `LedgerScopes` | a directory task, a task inside it, a third that depends on the second; two workers, each authorised for one side; TTL 1, time to 2 | `DependenciesFirst`, `ImplementsFencedLocks` |
| `LedgerPublication` | one task, two workers, two requests, two results, TTL 2, time to 4, two attempts | `AttemptHistory`, `EffectAuthority`, `GenerationFenced`, `NoBlindResend` |
| `BudgetPolicies` | three requests, two tasks, two workers, four policies, verified and unbounded requests, reports below, at and above the bound | `CeilingKept`, `BurnRateKept`, `OneInFlight`, `EvidenceFinal` |
| `BreakerProbes` | two workers, two facts, three probes, a Retry-After of 2, window 2, time to 2, clock readings up to 1 old; two keys, identities and bodies of observations, three lines, torn writes and power failures | `OneLiveProbe`, `OnlyWonProbesRecover`, `FreshEvidenceOnly`, `SuspensionServed`; `AcceptedForGood`, `CheckpointsSeparate` |
| `WorkerRuns` | two workers with their keepers on one task, crashes, restarts, busy databases, every answer of two candidates | `ReturnsCleanly`, `PromotionEvidence`, `OneUnknownEffect`, `OnlyRealLossFails` |
| `WorkerChain` | two tasks, the second depends on the first and reuses its asset; two workers, one that starts late | `CompletedCounts`, `EveryRunReturns` |
| `ResearchCalls` | two hosts, a task and its reproduction, answers with known and unknown cost, crashes; two hosts that propose, review and correct: two contents, room for one task, two workspaces, four facts, two branches; two workers and a host that learn from two completed tasks and one rejection each | `CompletedOnConfirmedRun`, `BooksAgree`, `ApprovedIndependently`; `AdmittedOnce`, `OnePerSource`, `AdviceStands`; `RewardsInOrder` |
| `RunReplays` | two processes, two genes, crashes and resumptions at every step | `OneInvocation`, `FeedbackFollowsRecord`, `UsesMatchFeedback` |
| `HubDelivery` | two operators and the mirror on one asset, a queue of two, lost answers, failed writes, locks removed by hand; one agent with a descendant, two lines of output, a limit of two tools; two processes given one experiment run, of either executor | `DeliveredOnce`, `RecordsAreTrue`, `QueueDrains`; `VerdictEarned`, `NothingOutlives`, `EveryInvocationEnds`; `LeakRecorded`, `TrustEarned` |
| `LedgerExpiredLimit` | as `LedgerPublication`, one attempt allowed | violates `ExpiredClaimReplaceable` |
| `LedgerRootScope` | a task scoped to the root and one inside it | violates `ScopeExclusion` |
| `BudgetUncertain` | the default policy | violates `UncertainBlocksTask` |

A run may hold two parts of the system that share no variable: the module then
starts as one of its parts and the others stand still. Type invariants that an
inductive invariant of section 4 contains, `IntentsFailClosed` of the ledger and
`AllowanceNeverFreed` and `StopIsDurable` of the budget are proved and not run again. `ScopeExclusion` is
proved, and implied by the refinement `ImplementsFencedLocks` that `LedgerScopes`
checks.

**Why the bounds are enough.** Every action fires. Attempts run out, per task
and (in `LedgerScopes`) for the run; the run time ends while leases are still
held; leases expire while held, while publishing and while an intent waits; the
ceiling and the burn rate refuse requests and are broken by providers; the burn
window passes. The limits on the number of tasks and of derived tasks, and the
deduplication by evidence key, are in the guard of `Enqueue`, but no instance
reaches them: no property depends on how few tasks there are. Two workers suffice for every race in these modules,
because each guard relates the caller to the present row only; the theorems
below confirm it for any number. Two facts and three probes let a breaker be
suspended, recovered, suspended again and recovered by another worker. In the
worker runs a worker may start twice, so that a crash is followed by a resume and
the resume by another worker's claim. In the Hub run the asset is offered by both
operators and the mirror, so that every pair of them meets on the lock and on the
record. `MaxClock`, `MaxFacts` and `MaxProbes`, the starts of a worker and the
crashes of a process are bounds of the models; all other limits are the code's.
`MaxExecutions` is the cap the research service gives `begin_execution()`; the
worker loop gives none, and its runs set it to the number of attempts times the
candidates, which is never exceeded.
Deadlock is not checked where time is bounded, or where a run whose tasks are all
terminal, or an invocation that has returned, has legitimately stopped. Symmetry is used only for identities no
definition distinguishes, and never in a run that checks liveness.

**Fairness.** Three liveness properties are checked. `EveryRunReturns` (a worker
that keeps running comes to the end of `run()`) assumes weak fairness of each
worker's own steps and of the stopping keeper: the operating system runs a live
thread, every database call has a busy timeout and every external request a
deadline, so no step waits for ever. It does not assume that a worker stays
alive: a death ends the obligation. `QueueDrains` (what the mirror has accepted
before it is closed is taken off the queue) assumes weak fairness of the mirror
thread, which the runtime starts as a daemon and whose requests have timeouts of
at most ten seconds. `EveryInvocationEnds` (a started native agent is waited for
or killed, and the call ends) assumes weak fairness of the observer, a live thread
of this process, and that the timeout passes; it assumes nothing of the agent,
which may write for ever and ignore SIGTERM. Everything else is safety and holds whoever stops.

Every property of a passing run is paired in `PROJECT.json` with a mutated
definition, the bug that property exists to reject, which stands just before the
definition it replaces.

### Disagreements found

1. *Root scope.* `_eligible` tests `substr(scope, ...) = outer || '/'`. For the
   root that is `//`, which no path starts with: a task scoped to the root and a
   task inside it are claimed side by side, although `scopes_collide` and the
   documentation say they collide (`LedgerRootScope`).
2. *Expiry of the last attempt.* A worker killed during the last allowed attempt
   leaves a row that is claimed, expired, not eligible and never closed; the
   documentation says it can be replaced (`LedgerExpiredLimit`). A handoff on the
   last attempt is stuck for the same reason.
3. *Uncertain requests.* A request left uncertain by a confirmed rejection does
   not block a second identity for its task, which `docs/SWARM_CONTRACTS.md` says
   it does; a comment in the code documents the newer intention
   (`BudgetUncertain`).

### Read from the code, and not claimed

These are behaviours the modelling showed for which no text of the repository
promises otherwise; no property states the opposite.

- `promote.py` checks the evidence of an approval before the fenced write: a
  counterexample recorded in between is not seen by it.
- `apply()` of a fixed plan checks that its source is approved and does not
  revalidate it in the publication; only the plan `generated-isolation-v1` does
  (`local_assets/apply.py:174`).
- The evidence of a verification names a fresh file. A crash after the event
  `reviewed` and before its checkpoint therefore makes every resume verify again,
  overwrite the result row and stop with "conflicting replay". A gene archived
  between injection and use stops the feedback stage for ever in the same way, and
  genes archived before a replayed selection change its payload.

- Two keepers of one branch may each record a correction that puts it to sleep
  (`service.py:1357`); from then on every advisory, choice and claim of the project
  raises `branch_not_active`. `AdviceStands` speaks of branches with one keeper.
- A correction equal to one recorded before a reopening is answered as already
  recorded, and the branch stays open.
- Two hosts whose workspaces differ may race to admit one proposal: the second
  enqueue conflicts, and overwrites the verdict "accepted" by "blocked" although
  the task exists. A blocked proposal stays blocked, because the verdict is part
  of what the next attempt compares. A run at its limit of tasks leaves the
  proposal undecided, and a proposal accepted in an earlier run is not enqueued in
  a later one.
- The existing supersessions are read before the write, so two hosts may record
  the same one twice; readers do not tell the difference.
- A task a worker rejects lowers the weight of its history in the table
  `pipe_history` alone. Once the history has a row of learned samples,
  `_history` (`pheromone.py:121`) reads that row first, and the rejection weighs
  nothing from then on.
- After the agent is reaped and its group empty, the system may give the group
  identifier away. The first `killpg` of the cleanup then finds, and terminates,
  a group that is not its own (`process.py:113`, `process.py:130`). The outcome
  errs on the safe side: the effect is recorded as unknown.
- A result whose first state was `unknown` can be written with the cleanup
  `destroyed` and the effect `unknown` although no command was ever started
  (`executor.py:156`); the readers treat it as an effect that may have happened.

## 4. What is proved

The theorems hold for every value of the constants that satisfies the named
assumptions of the modules (shapes of the constants, positive durations, null
values outside the sets), which TLC evaluates on every run. No clock bound, set
size or limit is used beyond those.

**TaskLedgerProofs.** The base is `HistoryInv`: the types, `AttemptHistory`,
`LeaseTokens` (a lease was granted for a token the row has reached) and
`AbsentIsEmpty` (a task never enqueued has left no trace). `AttemptHistory` alone
is not inductive: closing an attempt writes at the token of the presented lease,
and `LeaseTokens` is what keeps that write inside the table; the fencing check of
`Owned` makes it the newest row. `StepMoves` then shows once, action by action, that a row
changes only in one of a few ways (`RowMove`), and `TerminalRowsFinal`,
`IntentsFailClosed`, `UnconfirmedNeverResent` and `GenerationsFenced` follow from
it. `ScopesExclusive` and `LedgerImplementsLocks` assume `NoRootScope`, the
condition under which the SQL means what `scopes_collide` says; finding 1 shows
that it is needed. The refinement maps a generation to its token and a held lock
to a busy row; expiry is a step of the clock that vacates several locks at once.
`EffectsAuthoritative` strengthens `EffectAuthority` to `PublicationInv`: every
call in flight has left its task submitting and is the only one for that task,
and a callback that has returned has written everything.

**BudgetLedgerProofs.** `StepKinds` classifies every step per request: untouched,
reserved, or resolved from pending. With it, `OneInFlight` is inductive together
with the types and `AbsentIsBlank` (a request never reserved has an empty row), and
`EvidenceFinal`, `AllowanceNeverFreed` and `StopIsDurable` are action properties of
the same invariant. The ceiling and the burn rate speak of sums over the rows: the
lemmas from `SumExists` to `TotalSplit` say that `Total` is defined for every finite
set, that one row more adds its amount, and that a sum is the sum of its parts.
`MoneyInv` adds to the invariant that the rows are finitely many, that the ceiling
and the rate are kept, that a request in flight holds what it was reserved with
under a known bound, and that only settled rows are charged. A reservation adds an
amount the guard has compared with what is left. A settlement takes out more than
was held, or counts more tokens than the pending row did, only when the report
breaks the bound of the request, and then it raises the stop the properties name.

**WorkerLoopProofs.** `WorkerInv` is an invariant of the composition: the process
of every worker with its renewal thread, the rows of the task ledger, those of the
budget ledger and the worker's file. `Control` says, for each program point, which of
lease, keeper, request, outcome and pending file the process has there. `LeasesTrue`
relates the lease in hand to the ledger: one worker per claim (`Granting`), and of all
values ever returned for a claim at most the newest one the process or its keeper has
is good (`InHand`); without the value the keeper holds and the process has not yet
taken over, a renewal would break it. `CostsTrue` keeps a running process without
pending rows other than its active request. `SendsTrue` says that every request sent
is resolved or is the mark of its task; a process between `begin_execution` and the
confirmation is the one whose mark it is (`Marked`), and the answer it confirms has
been resolved (`Answering`). `PromotionsTrue` follows `_finalize` step by step: what
the file says of the submission (`PendingTrue`), of its feedback (`Fed`), and what
each step may presume (`Finalized`); it ends in `PromotionEvidence` and
`CompletedCounts`, where the audited results of a worker, less the open one, are
counted across the crash between audit record and counter.
The proof has one lemma per step of the process, all on one frame: `World` is what a
step must leave as the others presume it (`LedgerMoves` for the rows and leases,
`Landing` for reservations that only end), `Others` that the other processes stand
still, and `Mover` what the moving process owes; `MoverKeeps` concludes from them.
The five safety properties of its runs follow. `OnlyRealLossFails` is where `InHand` is
needed in full: a guard that refuses the lease in hand, while the keeper holds no
newer one, refuses every lease of the claim.
Two refinements say that the process uses its databases only through their
operations: `KeepsToLedger` (`Spec => L!Spec`) and `KeepsToBudget` (`Spec => B!Spec`).
With them what `TaskLedgerProofs` and `BudgetLedgerProofs` prove of the ledgers alone,
for callers that call anything in any order, is true of the ledgers under the worker
loops, where the constants meet the assumptions of both modules.

**SharedBreakerProofs.** `BreakerInv` is the types, `EvidenceInFile` (all evidence
in readings and caches points at facts of the file, none of them from the future)
and `ClaimsMatchSlot` (the claim with the current token is the slot of the row,
with its owner and expiry; every claim with an older token has expired).
`OneProbeAtATime` follows: a new slot is given only when the old one is over, and
time does not run backwards. `GreatestOfFinite` supplies the maximum of a finite
set of deadlines, from well-foundedness, for the Retry-After hints.
`OldEvidenceNeverSuspends` needs that filtering by `NewSince` is at least as strict
as the property's own notion of news, whether or not a checkpoint exists.
For the store of facts, `StoreInv` says that an index holds the records of the
file its signature names, each read from a line that no power failure takes, what
an append in progress knows at each of its steps, and that a checkpoint knows what
was read from the lines before it. It rests on `SamePrefix`: whether a line is read
is decided by the lines up to it. That is induction over the lines, and
`ReadRule`, the equation of the reader that every other lemma cites, needs first
that the recursion has a solution.

**RemoteProofs.** For the Hub adapter, `HubInv` is the types and `Kept`: the two
properties, `Knows` (what each step of a process presumes of the lock, the record
and the Hub: a process about to send has an unknown record of something not yet
delivered) and `Apart` (two processes are never both making, or both accounting
for, the record of one artifact). A record is marked unknown before it is sent
and an unknown record is never sent, so neither a lost answer nor a crash nor a
lock removed by hand leads to a second delivery.

For one native agent, `NativeInv` is the types and five facts: `AtSteps` (what goes
with each step of the observer), `Emptied` (ownership of the group is given up
only when nothing of it is left), `CodeIsStatus`, `AllHeard` (all that the agent
wrote before it ended has been read before the cleanup, or the outcome says why
not) and `DisturbedHasReason` (a signal that reached the group leads to a
reason). `VerdictEarned` and `NothingOutlives` follow; the second needs
`Emptied`, because a cancellation that was interrupted must not have given up
the group. For one experiment, `SandboxInv` is the types, `Local` (what a process at each
step knows of its sandbox, its result and its doubt about an export), `Solo` (only
one process gets past the directory of the run) and `Archive` (what the archive
owes to that process). `LeakRecorded` needs that the archive already says
`unknown` when the create call is sent and that only a confirmed destruction
changes it; `TrustEarned` needs that every way out with a doubtful export forgets
the known effect.

**ResearchProofs.** `ServiceInv` is the types, what every call in progress relies on
(`CallTrue`) and what the tables owe each other (`RunsBooked`, `RunsDistinct`), with
the three properties. The lemmas on the ledger say that only `begin_execution` and
`confirm_execution` move the mark of a task, those on the budget that a row in flight
leaves that state once, and `Onward` that a step concerns one run at most, so that a
call in progress, which owns its run, is left alone by all others: between
`begin_execution` and the confirmation its task carries the mark of its own run
(`Marked`), and a call about to confirm has closed its reservation (`Closed`), in both
orders in which fixed and generated experiments settle and record. `BooksAgree` is
this seen from the tables. An unmarked task has no unconfirmed run, hence
`CompletedOnConfirmedRun`; a report says what a run of its worker did and an original
is its author's, hence `ApprovedIndependently`, also when the evidence was read before
the fenced commit.

The service shares its databases with everything else, so it has the two refinements
too: `ServiceKeepsToLedger` and `ServiceKeepsToBudget` say that every step of a call
is one operation of the task ledger, or of the budget ledger, or none. They need
`ServedInv`: the row of a claimed task is covered by a lease that was given out
(`RowsGranted`), and what a call presents without reading it again, a lease to the
writer lock, an asset, a run to confirm, was given out, published or reported
(`Presented`, `StoreTrue`). So the fencing, the ceiling and the burn rate, proved of
the ledgers alone, are true under research calls as they are under worker loops.

For the records, `RecordsInv` has a part for each kind of call. `ProposalsTrue`:
a member between its reads and writes of `propose_work()` still sees a proposal
under its identity, and one about to record "accepted" has a task of that identity
and content to point to. `ReviewsTrue`: what is accepted, or about to be, has the
first review that repeats it, and completions, which are appended, do not change
which is first. `CorrectionsTrue`: what the only keeper of a branch has checked stays
true until it commits; `StatusAppend`, by induction over the corrections, says that
one more correction is applied to the status the branch has. For the field,
`FieldInv` says that every history lists what was learned of its worker in order
(`ListExists`: a finite set of dated results can be listed, by induction over its
subsets), that an open pair of updates and an old reading hold confirmed results
only, and that the signals and the facts of a field agree.

**RunReplayProofs.** `RunInv` is the types (`SharedTyped`, `LocalTyped`) and
`Kept`. Recorded stages never change (`Grows`), so what a process has read of them
stays true however the others interleave: `Knows` says what that is at each step,
`Stored` what the checkpoint owes to the stages recorded before it, `Taught` that
an engine holds the recorded verdict or none, `Paid` that only the winner of the
intent may send and that it has not sent yet, `Reported` that recorded stages and
adoptions agree.

**Induction.** Theorems of the library that take a predicate as a parameter cannot
be applied by the provers at hand. Those that take a set can: the well-foundedness
of the numbers gives the least number of a set, and with it induction in the form
"a set that holds zero, and with each number the next, holds them all"
(`EveryNumber`), the existence of recursive functions (`RecursionExists`) and
induction over the subsets of a finite set (`EverySubset`).

## 5. What is only model-checked

`EveryRunReturns`, `QueueDrains` and `EveryInvocationEnds` are liveness under fairness,
which stays with TLC, as does ENABLED. All other properties of the passing runs are
proved, those on scopes under `NoRootScope`. `WorkerInv` was checked by TLC, conjunct by
conjunct, on the instances of both worker runs before it was proved; so were
`ServedInv` and the two refinements of the research service, on the instance of
`ResearchCalls`.

## 6. Plan

What is left, in the order of importance; each step names its abstract
specification where there is one.

1. `Publication`: the callback of `submit()` file by file, refining the publication
   steps of `TaskLedger`.
2. `AssetStore`: validation reports with expiry, promotion and consumption.
3. `GeneLife` and `Conductance`: injection, decay and archive of genes, the choice of
   a builder; the pure ranking of the router against a reference definition.
4. The job object that owns a native process on Windows.

Theorems planned: the refinement of the publication.

## 7. Not modelled

Command lines, configuration, readiness, provisioning, contracts (types only),
visualisation, deployment, demos, benchmarks and archived artifacts keep no state
that other parts rest on. Path, link and payload checks are input validation.
External services are answers chosen nondeterministically. Numerical evaluation
of experiments is outside the scope of these models.
