----------------------------- MODULE BudgetLedger -----------------------------
(***************************************************************************)
(* Admission control of one swarm run (swarm/budget.py): reservations,     *)
(* their settlement, and the stop every worker shares. Each operation is   *)
(* one BEGIN IMMEDIATE transaction, but the caller reads the clock before  *)
(* it queues for the database lock. Money is counted in whole units.       *)
(* A definition that stands just before another of the same parameters and *)
(* is used nowhere is a mutated form of it, for the properties to reject.  *)
(***************************************************************************)
EXTENDS Integers, FiniteSets, FiniteSetsExt

CONSTANTS
    Task, Worker, Request,   \* finite sets; a Request is a request_id
    Bounds,                  \* the ExecutionBounds workers present
    Usages,                  \* the usage reports providers return
    NoUsage,                 \* a missing or malformed report
    Policies,                \* the policies a run may be started with
    PriceIn, PriceOut,
    MaxTokens, MaxCost, BurnRate, BurnWindow,
    MaxAttempts, MaxAttemptsPerTask, MaxTasks, MaxRuntime,
    LockWait,                \* how old the time a caller read may be once it
                             \* gets the database lock
    MaxClock,                \* bound of the model: time stops here
    NoTask, NoWorker, NoBound

Bound == [input : Nat, output : Nat, kind : {"verified", "unbounded"},
          cost : Nat, enforced : BOOLEAN]
Usage == [prompt : Nat, completion : Nat]

\* allowance: unbounded_reservation_usd, 0 when not given.
Policy == [priced : BOOLEAN, allowance : Nat, admission : BOOLEAN,
           unknownCost : BOOLEAN, unknownUsage : BOOLEAN]

ASSUME PolicyAssumption ==
    /\ Policies \subseteq Policy
    /\ \A p \in Policies : p.allowance > 0 => p.admission
    /\ PriceIn \in Nat /\ PriceOut \in Nat

ASSUME LimitsAssumption ==
    /\ Bounds \subseteq Bound /\ Usages \subseteq Usage
    /\ MaxTokens \in Nat /\ MaxCost \in Nat /\ BurnRate \in Nat /\ BurnWindow \in Nat
    /\ MaxAttempts \in Nat /\ MaxAttemptsPerTask \in Nat /\ MaxTasks \in Nat
    /\ MaxRuntime \in Nat /\ LockWait \in Nat /\ MaxClock \in Nat
    /\ \A b \in Bounds : b.kind = "verified" => b.enforced
    /\ NoUsage \notin Usage

Status == {"absent", "pending", "uncertain", "settled", "unknown_cost_allowed"}
Reason == {"swarm_cost_estimate_exhausted", "unknown_cost", "provider_bound_violated",
           "request_token_limit_exceeded", "unknown_usage", "provider_http_error"}
NoReason == "none"

Row == [status : Status, worker : Worker \cup {NoWorker}, task : Task \cup {NoTask},
        bound : Bound \cup {NoBound}, reserved : Nat, created : Nat, settledAt : Nat,
        usage : Usage \cup {NoUsage}, estimate : Nat, admitted : Nat]

AbsentRow == [status |-> "absent", worker |-> NoWorker, task |-> NoTask, bound |-> NoBound,
              reserved |-> 0, created |-> 0, settledAt |-> 0, usage |-> NoUsage,
              estimate |-> 0, admitted |-> 0]

VARIABLES
    clock,      \* the wall clock the callers read
    rows,       \* table budget_reservations, by request_id
    breaker,    \* the durable stop of the swarm
    policy      \* the durable policy, which no restart may change

vars == <<clock, rows, breaker, policy>>

-----------------------------------------------------------------------------
(* What the transactions compute from the table *)

Held == {q \in Request : rows[q].status # "absent"}
OfTask(t) == {q \in Held : rows[q].task = t}
TasksSeen == {rows[q].task : q \in Held}

\* The requests of t that may still be outstanding.
UnresolvedInFlight(t) == {q \in OfTask(t) : rows[q].status = "uncertain"}
InFlight(t) == {q \in OfTask(t) : rows[q].status = "pending"}

\* _estimate: the local price of some tokens
Estimate(prompt, completion) == prompt * PriceIn + completion * PriceOut

Violates(u, b) == u.prompt > b.input \/ u.completion > b.output
                  \/ u.prompt + u.completion > MaxTokens

\* Which bounds a request may be reserved under, and the amount set aside.
Admissible(b) ==
    /\ b.kind = "unbounded" => policy.allowance > 0 /\ policy.admission
    /\ b.input + b.output <= MaxTokens
    /\ b.kind = "verified" => policy.priced /\ b.cost >= Estimate(b.input, b.output)

ReservationAmount(b) ==
    IF b.kind = "verified" THEN b.cost
    ELSE IF policy.priced THEN Max({policy.allowance, Estimate(b.input, b.output)})
    ELSE policy.allowance

\* SUM(column) over some rows.
Total(amount, S) == MapThenSumSet(LAMBDA q : amount[q], S)

\* Capacity already committed: what settled requests were charged, and what the
\* others still hold.
Admitted == [q \in Held |-> rows[q].admitted]
Reserved == [q \in Held |-> rows[q].reserved]
Unsettled == {q \in Held : rows[q].status # "settled"}

Charged == Total(Admitted, Held)
PendingHolds == Total(Reserved, {q \in Held : rows[q].status = "pending"})
Holds == Total(Reserved, Unsettled)

\* Tokens of one worker inside the burn window: unresolved requests count in
\* full, and for ever.
InWindow(w, now) ==
    {q \in Held : /\ rows[q].worker = w
                  /\ \/ rows[q].status \notin {"settled", "unknown_cost_allowed"}
                     \/ rows[q].settledAt > now - BurnWindow}
TokensOf(q) == IF rows[q].usage # NoUsage
               THEN rows[q].usage.prompt + rows[q].usage.completion
               ELSE rows[q].bound.input + rows[q].bound.output
Tokens == [q \in Held |-> TokensOf(q)]
Burn(w, now) == Total(Tokens, InWindow(w, now))

\* The worker is not asleep, and the request still fits its rate.
RateByPastOnly(w, b, now) == Burn(w, now) < BurnRate
RateAllows(w, b, now) ==
    /\ Burn(w, now) < BurnRate
    /\ Burn(w, now) + b.input + b.output <= BurnRate

Priority(reason) ==
    CASE reason = NoReason -> 0
      [] reason = "swarm_cost_estimate_exhausted" -> 1
      [] reason = "unknown_cost" -> 2
      [] reason \in {"provider_bound_violated", "request_token_limit_exceeded"} -> 3
      [] OTHER -> 4

\* _trip: a stop is only ever replaced by a graver one.
Tripped(before, reason) ==
    IF Priority(reason) > Priority(before) THEN reason ELSE before

\* Callers read the clock before they queue for the database lock.
Read(now) == now <= clock /\ clock - now <= LockWait

-----------------------------------------------------------------------------
Init ==
    /\ clock = 0
    /\ rows = [q \in Request |-> AbsentRow]
    /\ breaker = NoReason
    /\ policy \in Policies

\* snapshot(worker): the swarm is stopped, or the worker used up its rate.
Sleeping(w, now) == breaker # NoReason \/ Burn(w, now) >= BurnRate

\* What reserve() demands before it writes; BudgetBlocked is raised otherwise.
Reservable(w, t, q, b, now) ==
    /\ Admissible(b)
    /\ now < MaxRuntime
    /\ Cardinality(Held) < MaxAttempts
    /\ Cardinality(OfTask(t)) < MaxAttemptsPerTask
    /\ OfTask(t) = {} => Cardinality(TasksSeen) < MaxTasks
    /\ breaker = NoReason
    /\ q \notin Held
    /\ InFlight(t) = {}
    /\ RateAllows(w, b, now)
    /\ policy.admission => Charged + Holds + ReservationAmount(b) <= MaxCost

Reserve(w, t, q, b, now) ==
    /\ Read(now)
    /\ Reservable(w, t, q, b, now)
    /\ rows' = [rows EXCEPT ![q] =
                  [AbsentRow EXCEPT !.status = "pending", !.worker = w, !.task = t,
                                    !.bound = b, !.reserved = ReservationAmount(b),
                                    !.created = now]]
    /\ UNCHANGED <<clock, breaker, policy>>

\* The outcome of a settlement for a request still in flight.
UncertainRow(row, now) == [row EXCEPT !.status = "uncertain", !.settledAt = now]

UncostedRow(row, u, now) ==
    [row EXCEPT !.status = IF policy.unknownCost THEN "unknown_cost_allowed" ELSE "uncertain",
                !.settledAt = now, !.usage = u]

CostedRow(row, u, now, admitted) ==
    [row EXCEPT !.status = "settled", !.settledAt = now, !.usage = u,
                !.estimate = Estimate(u.prompt, u.completion), !.admitted = admitted]

SettledRow(row, u, now) ==
    IF u = NoUsage THEN UncertainRow(row, now)
    ELSE IF ~policy.priced THEN UncostedRow(row, u, now)
    ELSE CostedRow(row, u, now, Max({Estimate(u.prompt, u.completion), row.reserved}))

\* Money the settled requests are estimated to have cost, with q settled by u.
SpentWith(q, u) == Estimate(u.prompt, u.completion)
                   + Total([p \in Held |-> rows[p].estimate], Held \ {q})

BoundViolated(q, u) ==
    \/ Violates(u, rows[q].bound)
    \/ /\ rows[q].bound.kind = "verified"
       /\ policy.priced
       /\ Estimate(u.prompt, u.completion) > rows[q].reserved

\* The stop a settlement calls for, on top of the one in force.
SettlementStop(q, u, before) ==
    LET costed == IF ~policy.priced /\ ~policy.unknownCost
                  THEN Tripped(before, "unknown_cost") ELSE before
    IN  IF u = NoUsage
        THEN IF policy.unknownUsage THEN before ELSE Tripped(before, "unknown_usage")
        ELSE IF BoundViolated(q, u)
        THEN Tripped(costed, IF rows[q].bound.enforced THEN "provider_bound_violated"
                             ELSE "request_token_limit_exceeded")
        ELSE IF policy.priced /\ SpentWith(q, u) >= MaxCost
        THEN Tripped(costed, "swarm_cost_estimate_exhausted")
        ELSE costed

\* settle(), and mark_uncertain() with u = NoUsage, of a request in flight; stop:
\* the caller asks for the stop of a provider HTTP error.
Requested(stop) == IF stop THEN Tripped(breaker, "provider_http_error") ELSE breaker

Settle(q, u, stop, now) ==
    /\ Read(now)
    /\ rows[q].status = "pending"
    /\ now >= rows[q].created
    /\ rows' = [rows EXCEPT ![q] = SettledRow(rows[q], u, now)]
    /\ breaker' = SettlementStop(q, u, Requested(stop))
    /\ UNCHANGED <<clock, policy>>

\* settle() of a request already resolved: only the stop it asks for remains,
\* and a report that contradicts the settled one takes even that back.
ReplaySettle(q, u, stop) ==
    /\ rows[q].status \notin {"absent", "pending"}
    /\ rows[q].usage = NoUsage \/ u = NoUsage \/ rows[q].usage = u
    /\ breaker' = Requested(stop)
    /\ UNCHANGED <<clock, rows, policy>>

\* mark_unknown_rejection(): the hold stays, the swarm is not stopped.
RejectAnyTime(q, now) ==
    /\ Read(now)
    /\ rows[q].status # "absent"
    /\ now >= rows[q].created
    /\ rows' = [rows EXCEPT ![q] = UncertainRow(rows[q], now)]
    /\ UNCHANGED <<clock, breaker, policy>>
MarkUnknownRejection(q, now) ==
    /\ Read(now)
    /\ rows[q].status = "pending"
    /\ now >= rows[q].created
    /\ rows' = [rows EXCEPT ![q] = UncertainRow(rows[q], now)]
    /\ UNCHANGED <<clock, breaker, policy>>

Tick ==
    /\ clock < MaxClock
    /\ clock' = clock + 1
    /\ UNCHANGED <<rows, breaker, policy>>

RequestStep(q) ==
    \/ \E w \in Worker, t \in Task, b \in Bounds, now \in 0 .. clock :
           Reserve(w, t, q, b, now)
    \/ \E u \in Usages \cup {NoUsage}, stop \in BOOLEAN, now \in 0 .. clock :
           Settle(q, u, stop, now)
    \/ \E u \in Usages \cup {NoUsage}, stop \in BOOLEAN : ReplaySettle(q, u, stop)
    \/ \E now \in 0 .. clock : MarkUnknownRejection(q, now)

Next == Tick \/ \E q \in Request : RequestStep(q)

Spec == Init /\ [][Next]_vars

-----------------------------------------------------------------------------
(* Properties *)

TypeOK ==
    /\ clock \in Nat
    /\ rows \in [Request -> Row]
    /\ breaker \in Reason \cup {NoReason}
    /\ policy \in Policies

\* What a request has taken out of the ceiling.
Commitment(row) == IF row.status = "settled" THEN row.admitted ELSE row.reserved
Commitments == [q \in Held |-> Commitment(rows[q])]

\* The ceiling: what settled requests were charged plus everything still held
\* never passes max_cost_usd, through any number of concurrent reservations and
\* late settlements, unless a provider broke the bound it was given; and then
\* the stop in force is at least as grave as that (reserve(), settle()).
CeilingKept ==
    policy.admission /\ Total(Commitments, Held) > MaxCost
        => Priority(breaker) >= 3

\* The same for the burn rate: one worker's tokens in the window stay within
\* burn_rate_tokens as long as providers respect the bounds they accepted, even
\* when a worker's idea of the time is older than the row it settles or adds.
BurnRateKept ==
    \A w \in Worker : Burn(w, clock) > BurnRate => Priority(breaker) >= 3

\* "Never free committed allowance on a lower estimate": the commitment of a
\* request never shrinks, whatever the report says and however it is replayed.
AllowanceNeverFreed ==
    [][\A q \in Request : Commitment(rows'[q]) >= Commitment(rows[q])]_vars

\* At most one request of a task is in flight, over all workers, request ids
\* and settlements (the task_already_reserved_no_retry check of reserve()).
OneInFlight ==
    \A p, q \in Held : /\ p # q
                       /\ rows[p].task = rows[q].task
                       => ~(rows[p].status = "pending" /\ rows[q].status = "pending")

\* Once resolved, the evidence of a request is final: replays, late answers
\* and the recovery of a dead owner change nothing in its row (settle(),
\* mark_uncertain(), mark_unknown_rejection() in any order).
EvidenceFinal ==
    [][\A q \in Request : rows[q].status \notin {"absent", "pending"}
                              => rows'[q] = rows[q]]_vars

\* The stop is durable: it is never lifted nor replaced by a lesser reason, and
\* while it stands no request is admitted (_trip(), the snapshot reserve() reads).
StopIsDurable ==
    [][breaker # NoReason =>
           /\ Priority(breaker') >= Priority(breaker)
           /\ \A q \in Request : rows[q].status = "absent" => rows'[q] = rows[q]]_vars

\* SWARM_CONTRACTS: "A pending/uncertain request for that task blocks a new
\* identity."
UncertainBlocksTask ==
    [][\A p, q \in Request :
           /\ rows[p].status \in {"pending", "uncertain"}
           /\ rows[q].status = "absent"
           /\ rows'[q].status # "absent"
           => rows'[q].task # rows[p].task]_vars
=============================================================================
