----------------------------- MODULE SharedBreaker -----------------------------
(***************************************************************************)
(* One (provider, reason) entry of the breaker all workers of a swarm      *)
(* share (swarm/breaker.py), the failure facts it is fed from              *)
(* (swarm/fault_observations.py) and the claims a worker keeps of the      *)
(* probe slot (swarm/failure_chain.py). Entries of different keys share no *)
(* state. The counts a row stores for display are left out.                *)
(* A definition that stands just before another of the same parameters and *)
(* is used nowhere is a mutated form of it, for the properties to reject.  *)
(***************************************************************************)
EXTENDS Integers, Sequences, FiniteSets, FiniteSetsExt

CONSTANTS
    Worker,
    RetryAfter,        \* the Retry-After durations servers send
    Direct,            \* the reason is one of direct_suspend_reasons
    Window, Threshold, MinSamples, Cooldown, ProbeTTL,
    LockWait,          \* how old the time a caller read may be once it has the lock
    MaxFacts, MaxProbes, MaxClock,   \* bounds of the model
    None

ASSUME ConfigAssumption ==
    /\ RetryAfter \subseteq Nat
    /\ Direct \in BOOLEAN
    /\ Window \in Nat \ {0} /\ Threshold \in Nat \ {0} /\ MinSamples \in Nat \ {0}
    /\ Cooldown \in Nat \ {0} /\ ProbeTTL \in Nat \ {0}
    /\ LockWait \in Nat /\ MaxFacts \in Nat /\ MaxProbes \in Nat /\ MaxClock \in Nat

ASSUME NoneAssumption == None \notin Int /\ None \notin Worker

State == {"insufficient_evidence", "normal", "suspended", "probing_recovery"}
Fact == [at : Nat, rejection : BOOLEAN, retry : RetryAfter \cup {None}]
Time == Nat \cup {None}
Row == [state : State, cooldown : Time, owner : Worker \cup {None}, token : Nat,
        expires : Time, recoveredAt : Time, recoverySeq : Time]
Claim == [worker : Worker, token : Nat, expires : Nat]

\* What observe() has read of the store when it queues for the state lock.
Reading == [at : Nat, samples : SUBSET Nat]

VARIABLES
    clock,      \* the wall clock of the workers
    facts,      \* the valid records of the JSONL file, in file order
    row,        \* the row of breaker_states
    reading,    \* reading[w]: an observe() of w between its read and its write
    window,     \* window[w]: the cached evidence of w (TTLCache) and when it was put
    attached,   \* attached[w]: w has a store to take recovery checkpoints from
    claims      \* probe slots workers believe they hold

vars == <<clock, facts, row, reading, window, attached, claims>>

Evidence == [samples : SUBSET Nat, put : Nat]
Indices == 1 .. Len(facts)

-----------------------------------------------------------------------------
(* Decisions *)

\* aggregate(): the facts in (at - Window, at]
Windowed(at) == {k \in Indices : at - Window < facts[k].at /\ facts[k].at <= at}

\* after_recovery(): the samples newer than the recovery of r.
UnfilteredSince(r, samples) == samples
NewSince(r, samples) ==
    IF r.recoveredAt = None THEN samples
    ELSE IF r.recoverySeq = None THEN {k \in samples : facts[k].at > r.recoveredAt}
    ELSE {k \in samples : k > r.recoverySeq /\ facts[k].at >= r.recoveredAt}

\* _suspension_required()
Suspends(samples) ==
    \/ Direct /\ \E k \in samples : facts[k].rejection
    \/ Cardinality(samples) >= Threshold /\ Cardinality(samples) >= MinSamples

\* The latest deadline servers asked for.
Hint(samples) ==
    LET hinted == {k \in samples : facts[k].retry # None}
    IN  IF hinted = {} THEN None ELSE Max({facts[k].at + facts[k].retry : k \in hinted})

\* cooldown_deadline()
Deadline(hint, at) == IF hint # None THEN hint ELSE at + Cooldown

Extends(hint, r) == hint # None /\ (r.cooldown = None \/ hint > r.cooldown)

\* transition(state, "aggregate", ...) and _next_values()
RowAfterAnyHint(r, samples, at) ==
    IF r.state = "suspended"
    THEN IF Hint(samples) # None THEN [r EXCEPT !.cooldown = Hint(samples)] ELSE r
    ELSE IF r.state # "probing_recovery" /\ Suspends(samples)
    THEN [r EXCEPT !.state = "suspended", !.cooldown = Deadline(Hint(samples), at),
                   !.owner = None, !.expires = None]
    ELSE r
RowAfter(r, samples, at) ==
    IF r.state = "suspended"
    THEN IF Extends(Hint(samples), r) THEN [r EXCEPT !.cooldown = Hint(samples)] ELSE r
    ELSE IF r.state = "probing_recovery"
    THEN r
    ELSE IF Suspends(samples)
    THEN [r EXCEPT !.state = "suspended", !.cooldown = Deadline(Hint(samples), at),
                   !.owner = None, !.expires = None]
    ELSE IF r.state = "insufficient_evidence" /\ Cardinality(samples) >= MinSamples
    THEN [r EXCEPT !.state = "normal"]
    ELSE r

\* The slot may be claimed: the cooldown is over, or the last owner let it lapse.
ClaimableAnyTime(at) ==
    \/ row.state = "suspended" /\ row.cooldown # None /\ row.cooldown <= at
    \/ row.state = "probing_recovery" /\ row.expires # None
Claimable(at) ==
    \/ row.state = "suspended" /\ row.cooldown # None /\ row.cooldown <= at
    \/ row.state = "probing_recovery" /\ row.expires # None /\ row.expires <= at

\* The slot belongs to w and has not lapsed (_live_probe, eligible).
LiveProbe(w, at) ==
    /\ row.state = "probing_recovery"
    /\ row.owner = w
    /\ row.expires # None
    /\ row.expires > at

\* The report of c is applied: its slot is live and the token is the current one.
AcceptsOwner(c, at) == LiveProbe(c.worker, at)
Accepts(c, at) == LiveProbe(c.worker, at) /\ row.token = c.token

\* Callers read the clock before they queue for the database lock.
Read(at) == at <= clock /\ clock - at <= LockWait

-----------------------------------------------------------------------------
Init ==
    /\ clock = 0
    /\ facts = <<>>
    /\ row = [state |-> "insufficient_evidence", cooldown |-> None, owner |-> None,
              token |-> 0, expires |-> None, recoveredAt |-> None, recoverySeq |-> None]
    /\ reading = [w \in Worker |-> None]
    /\ window = [w \in Worker |-> None]
    /\ attached = [w \in Worker |-> FALSE]
    /\ claims = {}

\* A failure is recorded, possibly some time after it occurred.
RecordFailure(fact) ==
    /\ Len(facts) < MaxFacts
    /\ facts' = Append(facts, fact)
    /\ UNCHANGED <<clock, row, reading, window, attached, claims>>

\* observe(): the store is read without the state lock ...
ObserveRead(w, at) ==
    /\ Read(at)
    /\ reading[w] = None
    /\ reading' = [reading EXCEPT ![w] = [at |-> at, samples |-> Windowed(at)]]
    /\ attached' = [attached EXCEPT ![w] = TRUE]
    /\ UNCHANGED <<clock, facts, row, window, claims>>

\* Cached evidence of w that has not outlived the window.
Cached(w) == IF window[w] # None /\ clock < window[w].put + Window
             THEN window[w].samples ELSE {}

\* ... and applied under it, in place of the cached evidence if there is any.
ObserveApply(w) ==
    /\ reading[w] # None
    /\ LET fresh == reading[w].samples
           effective == IF fresh # {} THEN fresh ELSE Cached(w)
           counted == NewSince(row, effective)
       IN  /\ row' = IF counted = {} THEN row ELSE RowAfter(row, counted, reading[w].at)
           /\ window' = [window EXCEPT ![w] =
                  IF counted = {} THEN None
                  ELSE IF fresh # {} \/ row.recoveredAt # None
                  THEN [samples |-> counted, put |-> clock]
                  ELSE @]
    /\ reading' = [reading EXCEPT ![w] = None]
    /\ UNCHANGED <<clock, facts, attached, claims>>

\* try_claim_probe()
TryClaimProbe(w, at) ==
    /\ Read(at)
    /\ row.token < MaxProbes
    /\ Claimable(at)
    /\ row' = [row EXCEPT !.state = "probing_recovery", !.owner = w,
                          !.token = @ + 1, !.expires = at + ProbeTTL]
    /\ claims' = claims \cup {[worker |-> w, token |-> row.token + 1,
                               expires |-> at + ProbeTTL]}
    /\ UNCHANGED <<clock, facts, reading, window, attached>>

\* guard_provider(): a worker that finds itself the live owner routes on the
\* slot it already has, also after a restart.
AdoptSlot(w, at) ==
    /\ Read(at)
    /\ LiveProbe(w, at)
    /\ claims' = claims \cup {[worker |-> w, token |-> row.token, expires |-> row.expires]}
    /\ UNCHANGED <<clock, facts, row, reading, window, attached>>

\* guard_provider(): the claim is dropped when another reason blocks the
\* provider; the slot stays taken until it lapses.
AbandonClaim(c) ==
    /\ claims' = claims \ {c}
    /\ UNCHANGED <<clock, facts, row, reading, window, attached>>

\* report_probe_success()
ReportSuccess(c, at) ==
    /\ Read(at)
    /\ IF Accepts(c, at)
       THEN /\ row' = [row EXCEPT !.state = "normal", !.owner = None, !.expires = None,
                           !.cooldown = None, !.recoveredAt = at,
                           !.recoverySeq = IF attached[c.worker] THEN Len(facts) ELSE None]
            /\ window' = [window EXCEPT ![c.worker] = None]
       ELSE UNCHANGED <<row, window>>
    /\ claims' = claims \ {c}
    /\ UNCHANGED <<clock, facts, reading, attached>>

\* report_probe_failure(): hint is an absolute deadline, or None; a server's
\* Retry-After counts from the answer, which came before the report.
ReportFailure(c, hint, at) ==
    /\ Read(at)
    /\ row' = IF Accepts(c, at)
              THEN [row EXCEPT !.state = "suspended", !.owner = None, !.expires = None,
                               !.cooldown = Deadline(hint, at)]
              ELSE row
    /\ claims' = claims \ {c}
    /\ UNCHANGED <<clock, facts, reading, window, attached>>

\* The process of w dies and comes back under the same worker id: everything
\* it had in memory is gone.
Restart(w) ==
    /\ reading' = [reading EXCEPT ![w] = None]
    /\ window' = [window EXCEPT ![w] = None]
    /\ attached' = [attached EXCEPT ![w] = FALSE]
    /\ claims' = {c \in claims : c.worker # w}
    /\ UNCHANGED <<clock, facts, row>>

Tick ==
    /\ clock < MaxClock
    /\ clock' = clock + 1
    /\ UNCHANGED <<facts, row, reading, window, attached, claims>>

WorkerStep(w) ==
    \/ \E at \in 0 .. clock : ObserveRead(w, at) \/ TryClaimProbe(w, at) \/ AdoptSlot(w, at)
    \/ ObserveApply(w)
    \/ Restart(w)

ClaimStep(c) ==
    \/ AbandonClaim(c)
    \/ \E at \in 0 .. clock :
           \/ ReportSuccess(c, at)
           \/ \E since \in 0 .. at, retry \in RetryAfter : ReportFailure(c, since + retry, at)
           \/ ReportFailure(c, None, at)

Next ==
    \/ \E w \in Worker : WorkerStep(w)
    \/ \E c \in claims : ClaimStep(c)
    \/ \E fact \in [at : 0 .. clock, rejection : BOOLEAN, retry : RetryAfter \cup {None}] :
           RecordFailure(fact)
    \/ Tick

Spec == Init /\ [][Next]_vars

-----------------------------------------------------------------------------
(* Properties *)

TypeOK ==
    /\ clock \in Nat
    /\ facts \in Seq(Fact)
    /\ row \in Row
    /\ row.state = "suspended" => row.cooldown # None
    /\ reading \in [Worker -> Reading \cup {None}]
    /\ window \in [Worker -> Evidence \cup {None}]
    /\ attached \in [Worker -> BOOLEAN]
    /\ claims \subseteq Claim

\* At most one worker probes a suspended provider at any moment: of all the
\* slots workers believe they hold, over lapses, restarts and late reports,
\* no two are unexpired (try_claim_probe()).
OneLiveProbe ==
    \A c, d \in claims : c.expires > clock /\ d.expires > clock => c = d

\* Recovery happens only through a won probe: a suspended or probing breaker
\* closes only on the report of the claim that holds its current token.
OnlyWonProbesRecover ==
    [][row.state \in {"suspended", "probing_recovery"}
           /\ row'.state \in {"insufficient_evidence", "normal"} =>
       /\ row.state = "probing_recovery"
       /\ \E c \in claims \ claims' : c.worker = row.owner /\ c.token = row.token]_vars

\* The failures that are news to a breaker recovered as row says.
SinceRecovery ==
    {k \in Indices : row.recoveredAt # None =>
                        /\ facts[k].at >= row.recoveredAt
                        /\ row.recoverySeq # None => k > row.recoverySeq}

\* A recovered breaker opens again only on failures newer than its recovery,
\* whatever evidence workers had read or cached before it (_apply_aggregate()).
FreshEvidenceOnly ==
    [][row.state = "normal" /\ row'.state = "suspended" =>
           Suspends(SinceRecovery)]_vars

\* A suspension is served: its deadline never moves back, not even on stale
\* evidence, and it ends only by a claim made after the deadline.
SuspensionServed ==
    [][row.state = "suspended" /\ row' # row =>
           \/ row'.state = "suspended" /\ row'.cooldown > row.cooldown
           \/ /\ row'.state = "probing_recovery"
              /\ row.cooldown <= clock
              /\ row'.token = row.token + 1]_vars
=============================================================================
