------------------------------ MODULE TaskLedger ------------------------------
(***************************************************************************)
(* The durable task ledger of one swarm run (swarm/task_ledger.py behind   *)
(* the facade swarm/lease.py): task rows, generations of leases, attempt   *)
(* rows, the no-resend mark and the two transactions of a publication.     *)
(*                                                                         *)
(* Every write of the code is one BEGIN IMMEDIATE transaction, hence one   *)
(* action here; the second transaction of submit() runs a callback on the  *)
(* file system while it holds the database lock, so that one is split into *)
(* steps, with the clock and a crash able to fall between them.            *)
(* A definition that stands just before another of the same parameters and *)
(* is used nowhere is a mutated form of it: the bug that must break one of *)
(* the properties.                                                         *)
(* A Lease is a value: whoever received one may present it at any later    *)
(* moment, so every lease ever granted stays in `leases'.                  *)
(***************************************************************************)
EXTENDS Naturals, Sequences, FiniteSets, SequencesExt

CONSTANTS
    Task, Worker, Request, Result,   \* finite sets of identities
    Scope,                \* Scope[t]: canonical path of t, root first
    Deps,                 \* Deps[t]: the dependencies t is enqueued with
    Derived,              \* the tasks enqueued with derived_from
    Evidence,             \* Evidence[t]: the evidence key of t, or NoKey
    Visible,              \* Visible[w]: the tasks the locality of w admits
    TTL,                  \* the lease durations in use
    MaxTasks, MaxDerived, MaxAttempts, MaxAttemptsPerTask, MaxRuntime,
    MaxExecutions,        \* the cap a caller gives begin_execution; for a caller
                          \* that gives none, a bound of the model
    MaxClock,             \* bound of the model: time stops here
    NoWorker, NoRequest, NoResult, NoKey, NoLease

ASSUME FiniteAssumption == IsFiniteSet(Task)

ASSUME ShapeAssumption ==
    /\ DOMAIN Scope = Task
    /\ Deps \in [Task -> SUBSET Task]
    /\ Derived \subseteq Task
    /\ TTL \subseteq Nat \ {0}

ASSUME LimitsAssumption ==
    /\ MaxTasks \in Nat /\ MaxDerived \in Nat /\ MaxAttempts \in Nat
    /\ MaxAttemptsPerTask \in Nat \ {0} /\ MaxRuntime \in Nat
    /\ MaxExecutions \in Nat \ {0} /\ MaxClock \in Nat

ASSUME NullAssumption ==
    /\ NoWorker \notin Worker /\ NoRequest \notin Request /\ NoResult \notin Result

Lease == [task : Task, worker : Worker, token : Nat, expires : Nat]

ASSUME NoLeaseAssumption == NoLease \notin Lease

Status == {"absent", "available", "claimed", "submitting", "partial",
           "handoff", "completed", "failed", "blocked"}
Unclaimed == {"available", "partial", "handoff"}
Terminal  == {"completed", "failed", "blocked"}
Outcome   == {"open", "expired", "released", "failed", "partial", "handoff", "completed"}

\* What the target tree of a task holds: untouched, some files, or all of them.
Target == {"clean", "partial", "written"}

VARIABLES
    clock,      \* the shared wall clock, in units of the shortest TTL
    tasks,      \* the rows of table tasks
    log,        \* the rows of table task_attempts: log[t][token] is the outcome
    leases,     \* every Lease value the ledger has returned
    intents,    \* submit() calls between their two transactions
    writer,     \* the lease whose publication holds the database lock, or NoLease
    applied,    \* the callback of that publication has returned
    target      \* the target tree the callback of each task writes

vars == <<clock, tasks, log, leases, intents, writer, applied, target>>

Row == [status : Status, attempts : Nat, token : Nat,
        owner : Worker \cup {NoWorker}, expiry : Nat,
        result : Result \cup {NoResult}, effect : BOOLEAN, conditions : Nat,
        unconfirmed : Request \cup {NoRequest}, executions : Nat]

NoExpiry == 0
AbsentRow == [status |-> "absent", attempts |-> 0, token |-> 0,
              owner |-> NoWorker, expiry |-> NoExpiry,
              result |-> NoResult, effect |-> FALSE, conditions |-> 0,
              unconfirmed |-> NoRequest, executions |-> 0]

-----------------------------------------------------------------------------
(* Predicates the transactions are guarded by *)

Known == {t \in Task : tasks[t].status # "absent"}

\* scopes_collide: the meaning of two scopes overlapping
ScopesCollide(t, u) == IsPrefix(Scope[t], Scope[u]) \/ IsPrefix(Scope[u], Scope[t])

\* The SQL of _eligible appends the separator to the outer path, which for the
\* file system root (the empty path here) gives a prefix no path has.
Beneath(inner, outer) == outer # <<>> /\ IsStrictPrefix(outer, inner)
SqlCollide(t, u) == \/ Scope[t] = Scope[u]
                    \/ Beneath(Scope[t], Scope[u])
                    \/ Beneath(Scope[u], Scope[t])

Busy(t) == \/ tasks[t].status = "submitting"
           \/ tasks[t].status = "claimed" /\ tasks[t].expiry > clock

EligibleAfterTerminal(t) ==
    /\ \/ tasks[t].status \in Unclaimed
       \/ tasks[t].status = "claimed" /\ tasks[t].expiry <= clock
    /\ tasks[t].attempts < MaxAttemptsPerTask
    /\ tasks[t].unconfirmed = NoRequest
    /\ \A d \in Deps[t] : tasks[d].status \in Terminal
    /\ \A c \in Task \ {t} : SqlCollide(c, t) => ~Busy(c)
Eligible(t) ==
    /\ \/ tasks[t].status \in Unclaimed
       \/ tasks[t].status = "claimed" /\ tasks[t].expiry <= clock
    /\ tasks[t].attempts < MaxAttemptsPerTask
    /\ tasks[t].unconfirmed = NoRequest
    /\ \A d \in Deps[t] : tasks[d].status = "completed"
    /\ \A c \in Task \ {t} : SqlCollide(c, t) => ~Busy(c)

OwnedByWorker(l, statuses) ==
    /\ tasks[l.task].owner = l.worker
    /\ tasks[l.task].expiry = l.expires
    /\ tasks[l.task].status \in statuses
    /\ l.expires > clock
OwnedForever(l, statuses) ==
    /\ tasks[l.task].owner = l.worker
    /\ tasks[l.task].token = l.token
    /\ tasks[l.task].expiry = l.expires
    /\ tasks[l.task].status \in statuses
Owned(l, statuses) ==
    /\ tasks[l.task].owner = l.worker
    /\ tasks[l.task].token = l.token
    /\ tasks[l.task].expiry = l.expires
    /\ tasks[l.task].status \in statuses
    /\ l.expires > clock

Holds(l) == Owned(l, {"claimed"})

Unlocked == writer = NoLease
WithinRuntime == clock < MaxRuntime
AttemptCount == FoldFunction(LAMBDA s, n : Len(s) + n, 0, log)

-----------------------------------------------------------------------------
(* One action per transaction *)

Init ==
    /\ clock = 0
    /\ tasks = [t \in Task |-> AbsentRow]
    /\ log = [t \in Task |-> <<>>]
    /\ leases = {}
    /\ intents = {}
    /\ writer = NoLease
    /\ applied = FALSE
    /\ target = [t \in Task |-> "clean"]

\* Update the row of t, and leave everything but the rows alone.
Write(t, row) ==
    /\ tasks' = [tasks EXCEPT ![t] = row]
    /\ UNCHANGED <<clock, intents, writer, applied, target>>

\* Enqueueing a known task, or one whose evidence is already filed, only
\* returns the existing row. A derived task names a task that exists.
Enqueue(t) ==
    /\ Unlocked
    /\ t \notin Known
    /\ Evidence[t] # NoKey => \A u \in Known : Evidence[u] # Evidence[t]
    /\ WithinRuntime
    /\ Cardinality(Known) < MaxTasks
    /\ t \in Derived => Known # {} /\ Cardinality(Known \cap Derived) < MaxDerived
    /\ Deps[t] \subseteq Known
    /\ Write(t, [AbsentRow EXCEPT !.status = "available"])
    /\ UNCHANGED <<log, leases>>

Claim(w, t, ttl) ==
    /\ Unlocked
    /\ t \in Visible[w]
    /\ WithinRuntime
    /\ AttemptCount < MaxAttempts
    /\ Eligible(t)
    /\ LET token == tasks[t].token + 1
           closed == IF tasks[t].status = "claimed"
                     THEN [log[t] EXCEPT ![tasks[t].token] = "expired"]
                     ELSE log[t]
       IN  /\ Write(t, [tasks[t] EXCEPT !.status = "claimed", !.attempts = @ + 1,
                                        !.token = token, !.owner = w,
                                        !.expiry = clock + ttl])
           /\ log' = [log EXCEPT ![t] = Append(closed, "open")]
           /\ leases' = leases \cup {[task |-> t, worker |-> w, token |-> token,
                                      expires |-> clock + ttl]}

Renew(l, ttl) ==
    /\ Unlocked
    /\ Holds(l)
    /\ Write(l.task, [tasks[l.task] EXCEPT !.expiry = clock + ttl])
    /\ leases' = leases \cup {[l EXCEPT !.expires = clock + ttl]}
    /\ UNCHANGED log

\* release() and fail() share _finish_attempt.
FinishAttempt(l, outcome) ==
    /\ Unlocked
    /\ Holds(l)
    /\ LET row == tasks[l.task]
           next == IF row.unconfirmed # NoRequest THEN "blocked"
                   ELSE IF row.attempts >= MaxAttemptsPerTask THEN "failed"
                   ELSE "available"
       IN  Write(l.task, [row EXCEPT !.status = next, !.owner = NoWorker,
                                     !.expiry = NoExpiry])
    /\ log' = [log EXCEPT ![l.task][l.token] = outcome]
    /\ UNCHANGED leases

Release(l) == FinishAttempt(l, "released")
Fail(l) == FinishAttempt(l, "failed")

HandoffLeavingAttempt(l, next, body) ==
    /\ Unlocked
    /\ Holds(l)
    /\ next # l.worker
    /\ Write(l.task, [tasks[l.task] EXCEPT !.status = "handoff", !.owner = NoWorker,
                                           !.expiry = NoExpiry])
    /\ UNCHANGED <<log, leases>>

\* body = NoResult: no partial work is handed over and the old result stays.
Handoff(l, next, body) ==
    /\ Unlocked
    /\ Holds(l)
    /\ next # l.worker
    /\ LET status == IF body = NoResult THEN "handoff" ELSE "partial"
       IN  /\ Write(l.task, [tasks[l.task] EXCEPT
                                !.status = status, !.owner = NoWorker, !.expiry = NoExpiry,
                                !.result = IF body = NoResult THEN @ ELSE body])
           /\ log' = [log EXCEPT ![l.task][l.token] = status]
    /\ UNCHANGED leases

BeginOverUnconfirmed(l, q) ==
    /\ Unlocked
    /\ Holds(l)
    /\ tasks[l.task].executions < MaxExecutions
    /\ Write(l.task, [tasks[l.task] EXCEPT !.unconfirmed = q, !.executions = @ + 1])
    /\ UNCHANGED <<log, leases>>

BeginExecution(l, q) ==
    /\ Unlocked
    /\ Holds(l)
    /\ tasks[l.task].unconfirmed = NoRequest
    /\ tasks[l.task].executions < MaxExecutions
    /\ Write(l.task, [tasks[l.task] EXCEPT !.unconfirmed = q, !.executions = @ + 1])
    /\ UNCHANGED <<log, leases>>

ConfirmExecution(l, q) ==
    /\ Unlocked
    /\ Holds(l)
    /\ tasks[l.task].unconfirmed = q
    /\ Write(l.task, [tasks[l.task] EXCEPT !.unconfirmed = NoRequest])
    /\ UNCHANGED <<log, leases>>

RecordConditionFailure(t) ==
    /\ Unlocked
    /\ tasks[t].status \in Unclaimed
    /\ LET count == tasks[t].conditions + 1
       IN  Write(t, [tasks[t] EXCEPT
                        !.conditions = count,
                        !.status = IF count >= MaxAttemptsPerTask THEN "blocked" ELSE @])
    /\ UNCHANGED <<log, leases>>

\* _complete
Completed(l, r, effect) ==
    /\ tasks' = [tasks EXCEPT ![l.task] = [@ EXCEPT !.status = "completed", !.result = r,
                                                    !.effect = effect]]
    /\ log' = [log EXCEPT ![l.task][l.token] = "completed"]

\* submit() without a callback: completion is one transaction.
SubmitFact(l, r) ==
    /\ Unlocked
    /\ Holds(l)
    /\ Completed(l, r, FALSE)
    /\ UNCHANGED <<clock, leases, intents, writer, applied, target>>

SubmitWithoutIntent(l, r) ==
    /\ Unlocked
    /\ Holds(l)
    /\ tasks' = [tasks EXCEPT ![l.task].result = r]
    /\ intents' = intents \cup {l}
    /\ UNCHANGED <<clock, log, leases, writer, applied, target>>

\* submit() with a callback, first transaction: the durable intent.
SubmitIntent(l, r) ==
    /\ Unlocked
    /\ Holds(l)
    /\ tasks' = [tasks EXCEPT ![l.task].status = "submitting", ![l.task].result = r]
    /\ intents' = intents \cup {l}
    /\ UNCHANGED <<clock, log, leases, writer, applied, target>>

\* Second transaction: the lock and the first ownership check. When the check
\* fails the transaction rolls back and the row stays as it is.
PublishBegin(l) ==
    /\ Unlocked
    /\ l \in intents
    /\ intents' = intents \ {l}
    /\ writer' = IF Owned(l, {"claimed", "submitting"}) THEN l ELSE NoLease
    /\ UNCHANGED <<clock, tasks, log, leases, applied, target>>

\* The callback returns: every file is written, each after an ownership check.
PublishApply ==
    /\ writer # NoLease
    /\ ~applied
    /\ Owned(writer, {"claimed", "submitting"})
    /\ applied' = TRUE
    /\ target' = [target EXCEPT ![writer.task] = "written"]
    /\ UNCHANGED <<clock, tasks, log, leases, intents, writer>>

\* The callback raises (its own checks, the lease ran out under it, a file that
\* cannot be replaced) and puts the old bytes back, as far as that succeeds,
\* before the transaction rolls back.
PublishRefused ==
    /\ writer # NoLease
    /\ ~applied
    /\ writer' = NoLease
    /\ \E left \in Target : target' = [target EXCEPT ![writer.task] = left]
    /\ UNCHANGED <<clock, tasks, log, leases, intents, applied>>

\* The final ownership check and the commit. When the check fails, nothing
\* undoes the files.
PublishCommit ==
    /\ writer # NoLease
    /\ applied
    /\ IF Owned(writer, {"claimed", "submitting"})
       THEN Completed(writer, tasks[writer.task].result, TRUE)
       ELSE UNCHANGED <<tasks, log>>
    /\ writer' = NoLease
    /\ applied' = FALSE
    /\ UNCHANGED <<clock, leases, intents, target>>

\* The process of worker w dies. Its open transaction rolls back, but files
\* already replaced stay replaced.
Crash(w) ==
    /\ intents' = {l \in intents : l.worker # w}
    /\ IF writer # NoLease /\ writer.worker = w
       THEN /\ writer' = NoLease
            /\ applied' = FALSE
            /\ IF applied
               THEN UNCHANGED target
               ELSE \E left \in Target :
                        target' = [target EXCEPT ![writer.task] = left]
       ELSE UNCHANGED <<writer, applied, target>>
    /\ UNCHANGED <<clock, tasks, log, leases>>

\* The clock is trusted not to run backwards (SWARM_ENVIRONMENT asks for it).
Tick ==
    /\ clock < MaxClock
    /\ clock' = clock + 1
    /\ UNCHANGED <<tasks, log, leases, intents, writer, applied, target>>

LeaseStep(l) ==
    \/ \E ttl \in TTL : Renew(l, ttl)
    \/ Release(l)
    \/ Fail(l)
    \/ \E next \in Worker, body \in Result \cup {NoResult} : Handoff(l, next, body)
    \/ \E q \in Request : BeginExecution(l, q) \/ ConfirmExecution(l, q)
    \/ \E r \in Result : SubmitFact(l, r) \/ SubmitIntent(l, r)
    \/ PublishBegin(l)

Next ==
    \/ \E t \in Task : Enqueue(t) \/ RecordConditionFailure(t)
    \/ \E w \in Worker, t \in Task, ttl \in TTL : Claim(w, t, ttl)
    \/ \E l \in leases : LeaseStep(l)
    \/ PublishApply
    \/ PublishRefused
    \/ PublishCommit
    \/ \E w \in Worker : Crash(w)
    \/ Tick

Spec == Init /\ [][Next]_vars
-----------------------------------------------------------------------------
(* Properties *)

TypeOK ==
    /\ clock \in Nat
    /\ tasks \in [Task -> Row]
    /\ log \in [Task -> Seq(Outcome)]
    /\ leases \subseteq Lease
    /\ intents \subseteq leases
    /\ writer \in leases \cup {NoLease}
    /\ applied \in BOOLEAN
    /\ target \in [Task -> Target]

\* Parent and child scopes never run side by side: two tasks whose scopes
\* overlap are never both inside a live claim or a publication
\* (SWARM_ENVIRONMENT, "Parent/child scopes collide"; the guard of claim()).
ScopeExclusion ==
    \A t, u \in Task : t # u /\ ScopesCollide(t, u) => ~(Busy(t) /\ Busy(u))

\* The attempt rows tell the history of the generations: one row per token,
\* every superseded one closed, and the newest one open exactly while the task
\* is claimed or submitting. A worker that hands off, fails or loses its lease
\* must close its own row and no other (UPDATE ... WHERE token=?).
AttemptHistory ==
    \A t \in Task :
        /\ Len(log[t]) = tasks[t].token
        /\ tasks[t].attempts = tasks[t].token
        /\ \A k \in 1 .. Len(log[t]) :
               log[t][k] = "open" <=> /\ k = tasks[t].token
                                      /\ tasks[t].status \in {"claimed", "submitting"}

\* Work starts only on top of finished work: once a task has been granted to
\* anyone, all its dependencies are completed, and stay so.
DependenciesFirst ==
    \A t \in Task : tasks[t].attempts > 0
        => \A d \in Deps[t] : tasks[d].status = "completed"

\* A generation of a task: the token a claim hands out, over all its renewals.
LiveGeneration(t, k) == \E l \in leases : l.task = t /\ l.token = k /\ Holds(l)

\* Fencing: a generation that has lost its task never gets it back, whatever
\* lease values its worker kept and whoever claims, renews, releases or hands
\* off in between (_owned).
GenerationFenced ==
    [][\A t \in Task : \A k \in 1 .. tasks[t].token :
           ~LiveGeneration(t, k) => ~LiveGeneration(t, k)']_vars

\* A task with an external request whose outcome is unknown is granted to
\* nobody else: until its own generation confirms it, no new token is issued
\* and no second request is begun, through expiry, handoff, failure and crash
\* (begin_execution).
NoBlindResend ==
    [][\A t \in Task : tasks[t].unconfirmed # NoRequest =>
           /\ tasks'[t].token = tasks[t].token
           /\ tasks'[t].executions = tasks[t].executions
           /\ tasks'[t].unconfirmed # tasks[t].unconfirmed =>
                  /\ tasks'[t].unconfirmed = NoRequest
                  /\ LiveGeneration(t, tasks[t].token)]_vars

\* A finished row is final: no late submit, release, fail, handoff, renewal or
\* condition failure of a former owner changes anything in it.
TerminalIsFinal ==
    [][\A t \in Task : tasks[t].status \in Terminal => tasks'[t] = tasks[t]]_vars

\* The file system and the ledger agree where it matters: bytes of a task may
\* be on disk only while the row is submitting (so nobody can claim it or a
\* colliding scope) or completed with effect_applied; and effect_applied is
\* never set without all the bytes.
EffectAuthority ==
    \A t \in Task :
        /\ target[t] # "clean" => \/ tasks[t].status = "submitting"
                                  \/ tasks[t].status = "completed" /\ tasks[t].effect
        /\ tasks[t].effect => target[t] = "written"

\* Publication is attempted once: an intent leaves submitting only by being
\* completed by its own generation with its own result.
IntentFailsClosed ==
    [][\A t \in Task : tasks[t].status = "submitting" =>
           /\ tasks'[t].status \in {"submitting", "completed"}
           /\ tasks'[t].token = tasks[t].token
           /\ tasks'[t].result = tasks[t].result]_vars

\* The ledger implements the fenced locks: a lock is held while its task is
\* busy, and generations are tokens.
Locks == INSTANCE FencedLocks WITH
    issued <- [t \in Task |-> tasks[t].token],
    held <- [t \in Task |-> IF Busy(t) THEN tasks[t].token ELSE 0],
    Collide <- ScopesCollide
ImplementsFencedLocks == Locks!LocksSpec

-----------------------------------------------------------------------------
(* Statements of the documentation that the code does not keep *)

\* SWARM_RUNTIME: "A killed worker that has only claimed a lease can expire and
\* be replaced with a higher token."  An expired claim that nothing else blocks
\* can be claimed again.
ExpiredClaimReplaceable ==
    \A t \in Task :
        /\ tasks[t].status = "claimed"
        /\ tasks[t].expiry <= clock
        /\ tasks[t].unconfirmed = NoRequest
        /\ \A c \in Task \ {t} : ScopesCollide(c, t) => ~Busy(c)
        => Eligible(t)
=============================================================================
