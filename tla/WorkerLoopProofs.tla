-------------------------- MODULE WorkerLoopProofs --------------------------
(***************************************************************************)
(* Theorems of the worker loop, for any number of workers, tasks, chains   *)
(* of candidates and starts: what a process holds at each point of _run,   *)
(* _process and _finalize, that the leases, reservations and marks it      *)
(* leaves in the shared ledgers are true, and that each of its steps is    *)
(* one of the task ledger and one of the budget ledger, or none of theirs. *)
(***************************************************************************)
EXTENDS WorkerLoop, Integers, FiniteSetTheorems, TLAPS

-----------------------------------------------------------------------------
(* Types *)

Answered == (UNION {Answers[Kind[t]] : t \in Task}) \cup {NoRequest}
Process == [pc : Label, task : Task \cup {NoTask}, idle : Nat,
            lease : L!Lease \cup {NoLease}, fresh : L!Lease \cup {NoLease},
            keeper : {"none", "running", "failed"}, candidate : Nat,
            active : Request \cup {NoRequest}, answer : Answered,
            stopped : BOOLEAN, outcome : Ending]
Stored == [energy : Int, senses : Nat, completed : Nat, pending : Pending \cup {NoPending}]
TaskRow == [status : L!Status, attempts : Nat, token : Nat,
            owner : Worker \cup {NoWorker}, expiry : Nat,
            result : Result \cup {NoResult}, effect : BOOLEAN, conditions : Nat,
            unconfirmed : Request \cup {NoRequest}, executions : Nat]

TasksTold == /\ clock \in Nat
             /\ tasks \in [Task -> TaskRow]
             /\ leases \subseteq L!Lease
             /\ \A t \in Task : /\ tasks[t].status = "absent" => /\ tasks[t].unconfirmed = NoRequest
                                                                 /\ tasks[t].token = 0
                                /\ tasks[t].attempts = tasks[t].token
                                /\ tasks[t].token <= MaxAttemptsPerTask
CostsTold == /\ rows = [q \in Request |-> rows[q]]
             /\ \A q \in Request : {"status", "worker"} \subseteq DOMAIN rows[q]

WorkerTyped ==
    /\ TasksTold /\ CostsTold
    /\ mem \in [Worker -> Process]
    /\ disk \in [Worker -> Stored]
    /\ starts \in [Worker -> Nat]
    /\ sent \subseteq Request
    /\ fed \in [Result -> Nat]
    /\ audited \subseteq Result /\ IsFiniteSet(audited)

-----------------------------------------------------------------------------
(* Where a process is, and what it holds there *)

Outside == {"off", "dead", "recover", "gate", "sense", "claim"}
Chain == {"guard", "begin", "send", "wait", "confirm", "reject", "publish"}
Handing == {"handoff", "submit", "lock", "apply"}
Finalizing == {"promote", "mark", "pair", "complete", "audit", "finish"}
Ended == {"unwind", "release"}

Control(w) ==
    LET m == mem[w] IN
    /\ m.pc \in Outside => m.lease = NoLease
    /\ m.pc \in Chain \cup Handing \cup Ended => m.lease # NoLease
    /\ m.lease = NoLease => m.fresh = NoLease /\ m.keeper = "none"
    /\ m.pc \in (Handing \ {"handoff"}) \cup Finalizing \cup {"release"} =>
           m.fresh = NoLease /\ m.keeper = "none"
    /\ m.keeper = "none" => m.fresh = NoLease
    /\ m.pc \notin Ended => m.outcome = "none"
    /\ m.active # NoRequest => m.pc \in {"begin", "send", "wait", "unwind"}
    /\ m.pc \in {"begin", "send", "wait"} => m.active = RequestOf(w)
    /\ m.pc \in {"claim"} \cup Chain \cup Handing => m.task \in Task
    /\ m.candidate <= LastCandidate[w]
    /\ m.pc # "off" => starts[w] > 0
    /\ m.pc \in {"gate", "sense", "claim"} \cup Chain => disk[w].pending = NoPending
    /\ m.outcome \in {"completed", "rejected"} => disk[w].pending = NoPending
    /\ m.pc \in Handing \cup Finalizing => disk[w].pending # NoPending

-----------------------------------------------------------------------------
(* Leases *)

SameClaim(k, l) == k.task = l.task /\ k.token = l.token
Newest(w) == IF mem[w].fresh # NoLease THEN mem[w].fresh ELSE mem[w].lease

Granting ==
    /\ \A l \in leases : l.token \in 1 .. tasks[l.task].token
    /\ \A k, l \in leases : SameClaim(k, l) => k.worker = l.worker

InHand(w) ==
    LET m == mem[w] IN
    /\ m.lease # NoLease =>
           /\ m.lease \in leases /\ m.lease.worker = w /\ m.lease.task = m.task
           /\ \A l \in leases : SameClaim(l, m.lease) /\ L!Holds(l) => l = Newest(w)
    /\ m.fresh # NoLease =>
           m.fresh \in leases /\ m.fresh.worker = w /\ SameClaim(m.fresh, m.lease)
    /\ starts[w] <= 1 /\ m.pc # "dead" =>
           \A l \in leases : l.worker = w /\ L!Holds(l) =>
               m.lease # NoLease /\ SameClaim(l, m.lease)

LeasesTrue == Granting /\ \A w \in Worker : InHand(w)

-----------------------------------------------------------------------------
(* Requests *)

CostsTrue == \A w \in Worker : mem[w].pc \notin {"dead", "recover"} =>
                                   PendingOf(w) \subseteq {mem[w].active}

Marked(w) == mem[w].pc \in {"send", "wait", "confirm"} =>
                 tasks[mem[w].task].unconfirmed = RequestOf(w)
Answering(w) == mem[w].pc = "confirm" /\ EffectKnown(mem[w].answer) => RequestOf(w) \in resolved
SendsTrue ==
    /\ \A q \in sent : q \in resolved \/ tasks[q[1]].unconfirmed = q
    /\ \A w \in Worker : Marked(w) /\ Answering(w)

-----------------------------------------------------------------------------
(* Finalization *)

Submitted(w) == disk[w].pending.result
Fed(w) ==
    LET p == disk[w].pending IN
    /\ p.feedback = "none" => fed[p.result] = 0
    /\ p.feedback = "started" => fed[p.result] <= 1
    /\ p.feedback = "complete" => fed[p.result] = 1
PendingTrue(w) == disk[w].pending # NoPending =>
    /\ \E l \in leases : l.worker = w /\ <<l.task, l.token>> = Submitted(w)
    /\ disk[w].pending.count = disk[w].completed + 1
    /\ Fed(w)
Finalized(w) == mem[w].pc \in Finalizing \ {"promote"} =>
    /\ Accepted(w) /\ Submitted(w) \in approved
    /\ mem[w].pc = "mark" => disk[w].pending.feedback = "none"
    /\ mem[w].pc = "pair" => disk[w].pending.feedback = "started" /\ fed[Submitted(w)] = 0
    /\ mem[w].pc = "complete" => fed[Submitted(w)] = 1
    /\ mem[w].pc \in {"audit", "finish"} => disk[w].pending.feedback = "complete"
    /\ mem[w].pc = "finish" => Submitted(w) \in audited

PromotionsTrue ==
    /\ \A w \in Worker : PendingTrue(w) /\ Finalized(w)
    /\ \A r \in Result : fed[r] > 0 => tasks[r[1]].status = "completed"
    /\ PromotionEvidence /\ CompletedCounts

Controlled == \A w \in Worker : Control(w)
WorkerInv == /\ WorkerTyped /\ Controlled /\ LeasesTrue
             /\ CostsTrue /\ SendsTrue /\ PromotionsTrue


-----------------------------------------------------------------------------
(* What the transactions of the ledger do to the rows and to the leases *)

\* New leases come from this set alone, and no other lease becomes good again.
LedgerMoves(new) ==
    /\ TasksTold'
    /\ leases \subseteq leases' /\ leases' \subseteq leases \cup new
    /\ \A t \in Task : /\ tasks'[t].token >= tasks[t].token
                       /\ tasks[t].status = "completed" => tasks'[t] = tasks[t]
    /\ \A l \in L!Lease : L!Holds(l)' => L!Holds(l) \/ l \in new
MarksKept == \A t \in Task : tasks'[t].unconfirmed = tasks[t].unconfirmed
LedgerQuiet == LedgerMoves({}) /\ MarksKept

\* A row with its generation counted, as the ledger may write it over another.
Follows(row, t) ==
    /\ row \in TaskRow
    /\ row.attempts = row.token /\ row.token <= MaxAttemptsPerTask
    /\ row.token >= tasks[t].token /\ row.status # "absent"
    /\ tasks[t].status # "completed"
Good(row, l) == /\ row.owner = l.worker /\ row.token = l.token /\ row.expiry = l.expires
                /\ row.status = "claimed" /\ l.expires > clock

LEMMA WriteMoves ==
  ASSUME TasksTold, NEW t \in Task, NEW row, Follows(row, t),
         tasks' = [tasks EXCEPT ![t] = row], clock' = clock,
         NEW new \in SUBSET L!Lease, leases' = leases \cup new,
         \A l \in L!Lease : l.task = t /\ Good(row, l) => L!Holds(l) \/ l \in new
  PROVE  /\ LedgerMoves(new)
         /\ row.unconfirmed = tasks[t].unconfirmed => MarksKept
<1>1. tasks'[t] = row /\ \A u \in Task : u # t => tasks'[u] = tasks[u]
  BY DEF TasksTold
<1>2. tasks' \in [Task -> TaskRow] /\ clock' \in Nat /\ leases' \subseteq L!Lease
  <2> HIDE DEF TaskRow
  <2> QED BY DEF TasksTold, Follows
<1>3. \A u \in Task : /\ tasks'[u].status = "absent" => /\ tasks'[u].unconfirmed = NoRequest
                                                         /\ tasks'[u].token = 0
                      /\ tasks'[u].attempts = tasks'[u].token
                      /\ tasks'[u].token <= MaxAttemptsPerTask
  BY <1>1 DEF TasksTold, Follows
<1>4. \A u \in Task : /\ tasks'[u].token >= tasks[u].token
                      /\ tasks[u].status = "completed" => tasks'[u] = tasks[u]
  <2>1. \A u \in Task : tasks[u].token \in Nat
    BY DEF TasksTold, TaskRow
  <2> QED BY <1>1, <2>1 DEF Follows
<1>5. ASSUME NEW l \in L!Lease, L!Holds(l)'
      PROVE  L!Holds(l) \/ l \in new
  <2>1. CASE l.task = t
    <3>1. Good(row, l)
      BY <1>1, <1>5, <2>1 DEF L!Holds, L!Owned, Good
    <3> QED BY <3>1, <2>1
  <2>2. CASE l.task # t
    BY <1>1, <1>5, <2>2 DEF L!Holds, L!Owned, L!Lease
  <2> QED BY <2>1, <2>2
<1>6. row.unconfirmed = tasks[t].unconfirmed => MarksKept
  BY <1>1 DEF MarksKept
<1> QED BY <1>2, <1>3, <1>4, <1>5, <1>6 DEF LedgerMoves, TasksTold

\* The same with no lease granted.
LEMMA WriteQuiet ==
  ASSUME TasksTold, NEW t \in Task, NEW row, Follows(row, t),
         tasks' = [tasks EXCEPT ![t] = row], clock' = clock, leases' = leases,
         \A l \in L!Lease : l.task = t /\ Good(row, l) => L!Holds(l)
  PROVE  /\ LedgerMoves({})
         /\ row.unconfirmed = tasks[t].unconfirmed => LedgerQuiet
<1>1. leases' = leases \cup {} /\ {} \in SUBSET L!Lease
  OBVIOUS
<1> QED BY <1>1, WriteMoves DEF LedgerQuiet

LEMMA RowsUntouched ==
  ASSUME TasksTold, UNCHANGED <<clock, tasks, leases>>
  PROVE  LedgerQuiet
BY DEF LedgerQuiet, LedgerMoves, MarksKept, TasksTold, L!Holds, L!Owned, TaskRow

\* Seeding a task touches no row but an absent one, and no lease.
LEMMA EnqueueQuiet ==
  ASSUME TasksTold, NEW t \in Task, L!Enqueue(t)
  PROVE  LedgerQuiet
<1> DEFINE row == [L!AbsentRow EXCEPT !.status = "available"]
<1>1. /\ tasks' = [tasks EXCEPT ![t] = row] /\ clock' = clock /\ leases' = leases
      /\ tasks[t].status = "absent"
  BY DEF L!Enqueue, L!Known, L!Write
<1>2. /\ row \in TaskRow /\ row.unconfirmed = NoRequest /\ row.status = "available"
      /\ row.attempts = 0 /\ row.token = 0
  BY DEF L!AbsentRow, L!NoExpiry, TaskRow, L!Status
<1>3. tasks[t].unconfirmed = NoRequest /\ tasks[t].token = 0
  BY <1>1 DEF TasksTold
<1>4. Follows(row, t) /\ \A l : ~Good(row, l)
  BY <1>1, <1>2, <1>3, WorkerAssumption DEF Follows, Good
<1> HIDE DEF row
<1> QED BY <1>1, <1>2, <1>3, <1>4, WriteQuiet

\* A claim opens the next attempt of its row, and its lease is the only good one of it.
LEMMA ClaimMoves ==
  ASSUME TasksTold, NEW w \in Worker, NEW t \in Task, NEW ttl \in TTL, L!Claim(w, t, ttl),
         NEW l, l = [task |-> t, worker |-> w, token |-> tasks[t].token + 1,
                     expires |-> clock + ttl],
         NEW new, new = {l}
  PROVE  /\ LedgerMoves(new) /\ MarksKept
         /\ l \in L!Lease /\ leases' = leases \cup {l} /\ tasks'[t].token = l.token
         /\ tasks[t].status # "completed" /\ tasks'[t].status = "claimed"
         /\ \A u \in Task : u # t => tasks'[u] = tasks[u]
<1> DEFINE row == [tasks[t] EXCEPT !.status = "claimed", !.attempts = @ + 1,
                                   !.token = tasks[t].token + 1, !.owner = w,
                                   !.expiry = clock + ttl]
<1>1. /\ tasks' = [tasks EXCEPT ![t] = row] /\ clock' = clock /\ leases' = leases \cup {l}
      /\ tasks[t].status \in L!Unclaimed \cup {"claimed"}
      /\ tasks[t].attempts < MaxAttemptsPerTask
  BY DEF L!Claim, L!Write, L!Eligible
<1>2. tasks[t] \in TaskRow /\ clock + ttl \in Nat /\ "claimed" \in L!Status
  BY WorkerAssumption DEF TasksTold, L!Status
<1>3. /\ tasks[t].attempts + 1 \in Nat /\ tasks[t].token + 1 \in Nat
      /\ row = [tasks[t] EXCEPT !.status = "claimed", !.attempts = tasks[t].attempts + 1,
                                !.token = tasks[t].token + 1, !.owner = w,
                                !.expiry = clock + ttl]
  BY <1>2 DEF TaskRow
<1>4. /\ row \in TaskRow /\ row.unconfirmed = tasks[t].unconfirmed /\ row.status = "claimed"
      /\ row.attempts = tasks[t].attempts + 1 /\ row.token = tasks[t].token + 1
      /\ row.owner = w /\ row.expiry = clock + ttl
  <2> HIDE DEF row
  <2> QED BY <1>2, <1>3 DEF TaskRow
<1>5. l \in L!Lease
  BY <1>2, <1>3 DEF L!Lease
<1>6. tasks[t].status # "completed"
  BY <1>1 DEF L!Unclaimed
<1> HIDE DEF row
<1>7. Follows(row, t)
  <2>1. tasks[t].attempts = tasks[t].token /\ tasks[t].token \in Nat
    BY DEF TasksTold, TaskRow
  <2> QED BY <1>1, <1>4, <1>6, <2>1, WorkerAssumption DEF Follows
<1>8. \A k \in L!Lease : k.task = t /\ Good(row, k) => k = l
  BY <1>4 DEF Good, L!Lease
<1>9. new \in SUBSET L!Lease /\ leases' = leases \cup new
  BY <1>1, <1>5
<1>10. LedgerMoves(new) /\ MarksKept
  <2>1. \A k \in L!Lease : k.task = t /\ Good(row, k) => L!Holds(k) \/ k \in new
    BY <1>8
  <2> QED BY <1>1, <1>4, <1>7, <1>9, <2>1, WriteMoves
<1>11. tasks'[t] = row /\ \A u \in Task : u # t => tasks'[u] = tasks[u]
  BY <1>1 DEF TasksTold
<1> QED BY <1>1, <1>4, <1>5, <1>6, <1>10, <1>11

Renewed(k, l, expires) == /\ k.task = l.task /\ k.worker = l.worker /\ k.token = l.token
                          /\ k.expires = expires

\* A renewal replaces the good lease of a claim by a longer one of the same claim.
LEMMA RenewMoves ==
  ASSUME TasksTold, NEW l \in L!Lease, NEW ttl \in TTL, L!Renew(l, ttl),
         NEW k \in L!Lease, Renewed(k, l, clock + ttl), NEW new, new = {k}
  PROVE  /\ LedgerMoves(new) /\ MarksKept
         /\ leases' = leases \cup {k} /\ L!Holds(l)
         /\ \A g \in L!Lease : L!Holds(g)' /\ g.task = l.task => g = k
<1> DEFINE t == l.task
           row == [tasks[t] EXCEPT !.expiry = clock + ttl]
<1>1. /\ tasks' = [tasks EXCEPT ![t] = row] /\ clock' = clock /\ leases' = leases \cup {k}
      /\ L!Holds(l)
  <2>1. k = [l EXCEPT !.expires = clock + ttl]
    BY DEF Renewed, L!Lease
  <2> QED BY <2>1 DEF L!Renew, L!Write
<1>2. tasks[t] \in TaskRow /\ clock + ttl \in Nat /\ t \in Task
      /\ tasks[t].owner = l.worker /\ tasks[t].token = l.token /\ tasks[t].status = "claimed"
      /\ tasks[t].attempts = tasks[t].token /\ tasks[t].token <= MaxAttemptsPerTask
  BY <1>1, WorkerAssumption DEF TasksTold, L!Lease, L!Holds, L!Owned
<1>3. /\ row \in TaskRow /\ row.unconfirmed = tasks[t].unconfirmed /\ row.status = "claimed"
      /\ row.attempts = tasks[t].attempts /\ row.token = tasks[t].token
      /\ row.owner = l.worker /\ row.expiry = clock + ttl
  BY <1>2 DEF TaskRow
<1>4. k.task = t /\ k.worker = l.worker /\ k.token = l.token /\ k.expires = clock + ttl
  BY DEF Renewed
<1> HIDE DEF row
<1>5. Follows(row, t)
  <2>1. tasks[t].token \in Nat
    BY <1>2 DEF TaskRow
  <2> QED BY <1>2, <1>3, <2>1 DEF Follows
<1>6. \A g \in L!Lease : g.task = t /\ Good(row, g) => g = k
  BY <1>2, <1>3, <1>4 DEF Good, L!Lease
<1>7. new \in SUBSET L!Lease /\ leases' = leases \cup new
  BY <1>1, <1>4
<1>8. LedgerMoves(new) /\ MarksKept
  <2>1. \A g \in L!Lease : g.task = t /\ Good(row, g) => L!Holds(g) \/ g \in new
    BY <1>6
  <2> QED BY <1>1, <1>2, <1>3, <1>5, <1>7, <2>1, WriteMoves
<1>9. tasks'[t] = row
  BY <1>1, <1>2 DEF TasksTold
<1>10. \A g \in L!Lease : L!Holds(g)' /\ g.task = t => g = k
  BY <1>1, <1>6, <1>9 DEF L!Holds, L!Owned, Good
<1> QED BY <1>1, <1>4, <1>8, <1>10

\* The end of an attempt: its row is free again, its lease good no more.
LEMMA FinishQuiet ==
  ASSUME TasksTold, NEW l \in L!Lease, NEW outcome, L!FinishAttempt(l, outcome)
  PROVE  /\ LedgerQuiet /\ L!Holds(l)
         /\ \A g \in L!Lease : L!Holds(g)' => g.task # l.task
<1> DEFINE t == l.task
           next == IF tasks[t].unconfirmed # NoRequest THEN "blocked"
                   ELSE IF tasks[t].attempts >= MaxAttemptsPerTask THEN "failed"
                   ELSE "available"
           row == [tasks[t] EXCEPT !.status = next, !.owner = NoWorker,
                                   !.expiry = L!NoExpiry]
<1>1. /\ tasks' = [tasks EXCEPT ![t] = row] /\ clock' = clock /\ leases' = leases
      /\ L!Holds(l)
  BY DEF L!FinishAttempt, L!Write
<1>2. next \in {"blocked", "failed", "available"} /\ next \in L!Status
      /\ tasks[t] \in TaskRow /\ L!NoExpiry \in Nat /\ t \in Task
      /\ tasks[t].status = "claimed"
      /\ tasks[t].attempts = tasks[t].token /\ tasks[t].token <= MaxAttemptsPerTask
  BY <1>1 DEF L!Status, TasksTold, L!NoExpiry, L!Lease, L!Holds, L!Owned
<1> HIDE DEF next
<1>3. /\ row \in TaskRow /\ row.unconfirmed = tasks[t].unconfirmed /\ row.status = next
      /\ row.attempts = tasks[t].attempts /\ row.token = tasks[t].token
  BY <1>2 DEF TaskRow
<1> HIDE DEF row
<1>4. Follows(row, t) /\ \A g : ~Good(row, g)
  <2>1. tasks[t].token \in Nat
    BY <1>2 DEF TaskRow
  <2> QED BY <1>2, <1>3, <2>1 DEF Follows, Good
<1>5. LedgerQuiet
  BY <1>1, <1>2, <1>3, <1>4, WriteQuiet
<1>6. tasks'[t] = row
  BY <1>1, <1>2 DEF TasksTold
<1>7. \A g \in L!Lease : L!Holds(g)' => g.task # t
  BY <1>1, <1>4, <1>6 DEF L!Holds, L!Owned, Good
<1> QED BY <1>1, <1>5, <1>7

\* The mark of one task is set, or taken away.
LEMMA MarkMoves ==
  ASSUME TasksTold, NEW l \in L!Lease, L!Holds(l), NEW q \in Request \cup {NoRequest},
         NEW n \in Nat,
         L!Write(l.task, [tasks[l.task] EXCEPT !.unconfirmed = q, !.executions = n]),
         leases' = leases
  PROVE  /\ LedgerMoves({}) /\ tasks'[l.task].unconfirmed = q
         /\ \A u \in Task : u # l.task => tasks'[u] = tasks[u]
<1> DEFINE t == l.task
           row == [tasks[t] EXCEPT !.unconfirmed = q, !.executions = n]
<1>1. /\ tasks' = [tasks EXCEPT ![t] = row] /\ clock' = clock
  BY DEF L!Write
<1>2. /\ tasks[t] \in TaskRow /\ t \in Task /\ tasks[t].status = "claimed"
      /\ tasks[t].attempts = tasks[t].token /\ tasks[t].token <= MaxAttemptsPerTask
  BY DEF TasksTold, L!Lease, L!Holds, L!Owned
<1>3. /\ row \in TaskRow /\ row.unconfirmed = q /\ row.status = tasks[t].status
      /\ row.attempts = tasks[t].attempts /\ row.token = tasks[t].token
      /\ row.owner = tasks[t].owner /\ row.expiry = tasks[t].expiry
  BY <1>2 DEF TaskRow
<1> HIDE DEF row
<1>4. Follows(row, t)
  <2>1. tasks[t].token \in Nat
    BY <1>2 DEF TaskRow
  <2> QED BY <1>2, <1>3, <2>1 DEF Follows
<1>5. \A g \in L!Lease : g.task = t /\ Good(row, g) => L!Holds(g)
  BY <1>2, <1>3 DEF Good, L!Holds, L!Owned
<1>6. LedgerMoves({})
  BY <1>1, <1>2, <1>4, <1>5, WriteQuiet
<1>7. tasks'[t] = row /\ \A u \in Task : u # t => tasks'[u] = tasks[u]
  BY <1>1, <1>2 DEF TasksTold
<1> QED BY <1>3, <1>6, <1>7

LEMMA IntentQuiet ==
  ASSUME TasksTold, NEW l \in L!Lease, NEW r \in Result, L!SubmitIntent(l, r)
  PROVE  LedgerQuiet
<1> DEFINE t == l.task
           row == [tasks[t] EXCEPT !.status = "submitting", !.result = r]
<1>1. tasks' = [tasks EXCEPT ![t] = row] /\ clock' = clock /\ leases' = leases
  BY DEF L!SubmitIntent
<1>2. /\ tasks[t] \in TaskRow /\ "submitting" \in L!Status /\ t \in Task
      /\ tasks[t].status = "claimed"
      /\ tasks[t].attempts = tasks[t].token /\ tasks[t].token <= MaxAttemptsPerTask
  BY DEF TasksTold, L!Status, L!Lease, L!SubmitIntent, L!Holds, L!Owned
<1>3. /\ row \in TaskRow /\ row.unconfirmed = tasks[t].unconfirmed
      /\ row.status = "submitting"
      /\ row.attempts = tasks[t].attempts /\ row.token = tasks[t].token
  BY <1>2 DEF TaskRow
<1> HIDE DEF row
<1>4. Follows(row, t) /\ \A g : ~Good(row, g)
  <2>1. tasks[t].token \in Nat
    BY <1>2 DEF TaskRow
  <2> QED BY <1>2, <1>3, <2>1 DEF Follows, Good
<1> QED BY <1>1, <1>2, <1>3, <1>4, WriteQuiet

\* A publication touches the row of a task only when it commits.
LEMMA CommitQuiet ==
  ASSUME TasksTold, L!PublishCommit
  PROVE  LedgerQuiet
<1>1. CASE L!Owned(writer, {"claimed", "submitting"}) /\ writer.task \in Task
  <2> DEFINE t == writer.task
             row == [tasks[t] EXCEPT !.status = "completed", !.result = tasks[t].result,
                                     !.effect = TRUE]
  <2>1. tasks' = [tasks EXCEPT ![t] = row] /\ clock' = clock /\ leases' = leases
    BY <1>1 DEF L!PublishCommit, L!Completed
  <2>2. /\ tasks[t] \in TaskRow /\ "completed" \in L!Status
        /\ tasks[t].status \in {"claimed", "submitting"}
        /\ tasks[t].attempts = tasks[t].token /\ tasks[t].token <= MaxAttemptsPerTask
    BY <1>1 DEF TasksTold, L!Status, L!Owned
  <2>3. /\ row \in TaskRow /\ row.unconfirmed = tasks[t].unconfirmed
        /\ row.status = "completed"
        /\ row.attempts = tasks[t].attempts /\ row.token = tasks[t].token
    BY <2>2 DEF TaskRow
  <2> HIDE DEF row
  <2>4. Follows(row, t) /\ \A g : ~Good(row, g)
    <3>1. tasks[t].token \in Nat
      BY <2>2 DEF TaskRow
    <3> QED BY <2>2, <2>3, <3>1 DEF Follows, Good
  <2> QED BY <1>1, <2>1, <2>2, <2>3, <2>4, WriteQuiet
<1>2. CASE L!Owned(writer, {"claimed", "submitting"}) /\ writer.task \notin Task
  <2>1. tasks' = tasks /\ UNCHANGED <<clock, leases>>
    BY <1>2 DEF L!PublishCommit, L!Completed, TasksTold
  <2> QED BY <2>1, RowsUntouched
<1>3. CASE ~L!Owned(writer, {"claimed", "submitting"})
  <2>1. UNCHANGED <<clock, tasks, leases>>
    BY <1>3 DEF L!PublishCommit
  <2> QED BY <2>1, RowsUntouched
<1> QED BY <1>1, <1>2, <1>3

LEMMA TickQuiet ==
  ASSUME TasksTold, L!Tick
  PROVE  LedgerQuiet
<1>1. clock \in Nat /\ clock' = clock + 1 /\ tasks' = tasks /\ leases' = leases
  BY DEF L!Tick, TasksTold
<1>2. TasksTold'
  BY <1>1 DEF TasksTold
<1>3. \A l \in L!Lease : L!Holds(l)' => L!Holds(l)
  BY <1>1 DEF L!Holds, L!Owned, L!Lease
<1>4. \A t \in Task : tasks[t].token \in Nat
  BY DEF TasksTold, TaskRow
<1> QED BY <1>1, <1>2, <1>3, <1>4 DEF LedgerQuiet, LedgerMoves, MarksKept

-----------------------------------------------------------------------------
(* What the transactions of the budget do to the reservations *)

\* No reservation comes into flight, or changes hands there.
Landing == /\ CostsTold'
           /\ \A q \in Request : rows'[q].status = "pending" =>
                  rows[q].status = "pending" /\ rows'[q].worker = rows[q].worker

LEMMA RowLanded ==
  ASSUME NEW row, {"status", "worker"} \subseteq DOMAIN row, NEW u, NEW now
  PROVE  /\ {"status", "worker"} \subseteq DOMAIN B!SettledRow(row, u, now)
         /\ B!SettledRow(row, u, now).status # "pending"
<1>1. CASE u = NoUsage
  BY <1>1 DEF B!SettledRow, B!UncertainRow
<1>2. CASE u # NoUsage /\ ~policy.priced
  BY <1>2 DEF B!SettledRow, B!UncostedRow
<1>3. CASE u # NoUsage /\ policy.priced
  BY <1>3 DEF B!SettledRow, B!CostedRow
<1> QED BY <1>1, <1>2, <1>3

LEMMA RowLands ==
  ASSUME CostsTold, NEW q \in Request, NEW row, {"status", "worker"} \subseteq DOMAIN row,
         row.status # "pending", rows' = [rows EXCEPT ![q] = row]
  PROVE  Landing /\ rows'[q].status # "pending"
<1>1. rows'[q] = row /\ \A p \in Request : p # q => rows'[p] = rows[p]
  BY DEF CostsTold
<1>2. rows' = [p \in Request |-> rows'[p]]
  BY DEF CostsTold
<1>3. \A p \in Request : {"status", "worker"} \subseteq DOMAIN rows'[p]
  <2>1. \A p \in Request : {"status", "worker"} \subseteq DOMAIN rows[p]
    BY DEF CostsTold
  <2> QED BY <1>1, <2>1
<1> QED BY <1>1, <1>2, <1>3 DEF Landing, CostsTold

\* Settling a reservation ends it and opens none.
LEMMA SettleLands ==
  ASSUME CostsTold, NEW q \in Request, NEW u, NEW stop, NEW now, B!Settle(q, u, stop, now)
  PROVE  Landing /\ rows'[q].status # "pending"
<1> DEFINE row == B!SettledRow(rows[q], u, now)
<1>1. rows' = [rows EXCEPT ![q] = row]
  BY DEF B!Settle
<1>2. {"status", "worker"} \subseteq DOMAIN row /\ row.status # "pending"
  BY RowLanded DEF CostsTold
<1> HIDE DEF row
<1> QED BY <1>1, <1>2, RowLands

LEMMA MarkLands ==
  ASSUME CostsTold, NEW q \in Request, NEW now, B!MarkUnknownRejection(q, now)
  PROVE  Landing /\ rows'[q].status # "pending"
<1> DEFINE row == B!UncertainRow(rows[q], now)
<1>1. rows' = [rows EXCEPT ![q] = row]
  BY DEF B!MarkUnknownRejection
<1>2. {"status", "worker"} \subseteq DOMAIN row /\ row.status # "pending"
  BY DEF CostsTold, B!UncertainRow
<1> HIDE DEF row
<1> QED BY <1>1, <1>2, RowLands

LEMMA BudgetStill ==
  ASSUME CostsTold, rows' = rows
  PROVE  Landing
BY DEF CostsTold, Landing

\* Where reservations only end, no process has more of them pending.
LEMMA LandingCosts ==
  ASSUME Landing, NEW w
  PROVE  PendingOf(w)' \subseteq PendingOf(w)
BY DEF Landing, PendingOf

LEMMA ReserveOpens ==
  ASSUME CostsTold, NEW q \in Request, NEW w, NEW t, NEW b, NEW now, B!Reserve(w, t, q, b, now)
  PROVE  /\ CostsTold'
         /\ PendingOf(w)' \subseteq PendingOf(w) \cup {q}
         /\ \A v : v # w => PendingOf(v)' \subseteq PendingOf(v)
<1> DEFINE row == [B!AbsentRow EXCEPT !.status = "pending", !.worker = w, !.task = t,
                       !.bound = b, !.reserved = B!ReservationAmount(b), !.created = now]
<1>1. rows' = [rows EXCEPT ![q] = row]
  BY DEF B!Reserve
<1>2. {"status", "worker"} \subseteq DOMAIN row /\ row.worker = w
  BY DEF B!AbsentRow
<1> HIDE DEF row
<1>3. rows'[q] = row /\ \A p \in Request : p # q => rows'[p] = rows[p]
  BY <1>1 DEF CostsTold
<1>4. rows' = [p \in Request |-> rows'[p]]
  BY <1>1 DEF CostsTold
<1>5. CostsTold'
  <2>1. \A p \in Request : {"status", "worker"} \subseteq DOMAIN rows[p]
    BY DEF CostsTold
  <2> QED BY <1>2, <1>3, <1>4, <2>1 DEF CostsTold
<1> QED BY <1>2, <1>3, <1>5 DEF PendingOf

-----------------------------------------------------------------------------
(* What stays true of a process, and of the leases, requests and promotions *)

LeaseKept(v) ==
    /\ mem'[v].lease = mem[v].lease /\ mem'[v].fresh = mem[v].fresh
    /\ mem[v].lease # NoLease => mem'[v].task = mem[v].task
    /\ mem'[v].pc # "dead" => mem[v].pc # "dead" \/ starts'[v] > 1
    /\ starts'[v] >= starts[v]
CostKept(v) == mem'[v].pc \notin {"dead", "recover"} =>
                   PendingOf(v)' \subseteq {mem'[v].active}
FileKept(v) == /\ disk'[v].pending = disk[v].pending
               /\ disk'[v].completed = disk[v].completed
Unmoved(v) == mem'[v] = mem[v] /\ starts'[v] = starts[v] /\ FileKept(v)
EvidenceKept == fed' = fed /\ audited' = audited /\ approved \subseteq approved'

LEMMA GrantingKept ==
  ASSUME TasksTold, Granting, LedgerMoves({})
  PROVE  Granting'
<1>1. leases' = leases /\ \A t \in Task : tasks'[t].token >= tasks[t].token
  BY DEF LedgerMoves
<1>2. \A l \in leases : l.task \in Task /\ l.token \in Nat
  BY DEF TasksTold, L!Lease
<1>3. \A t \in Task : tasks[t].token \in Nat /\ tasks'[t].token \in Nat
  BY DEF LedgerMoves, TasksTold, TaskRow
<1>4. \A l \in leases : l.token \in 1 .. tasks'[l.task].token
  BY <1>1, <1>2, <1>3 DEF Granting
<1> QED BY <1>1, <1>4 DEF Granting

\* A process that keeps its lease is not troubled by what others are granted.
LEMMA HandKept ==
  ASSUME WorkerTyped, NEW new \in SUBSET L!Lease, LedgerMoves(new), Granting',
         starts' \in [Worker -> Nat],
         NEW w \in Worker, InHand(w), LeaseKept(w), \A l \in new : l.worker # w
  PROVE  InHand(w)'
<1> DEFINE m == mem[w]
<1>1. leases \subseteq leases' /\ \A l \in L!Lease : L!Holds(l)' => L!Holds(l) \/ l \in new
  BY DEF LedgerMoves
<1>2. \A l \in leases' : L!Holds(l)' => (l \in leases /\ L!Holds(l)) \/ l \in new
  BY DEF LedgerMoves, TasksTold
<1>3. m.lease # NoLease =>
         /\ m.lease \in leases' /\ m.lease.worker = w /\ m.lease.task = m.task
         /\ \A l \in leases' : SameClaim(l, m.lease) /\ L!Holds(l)' => l = Newest(w)
  <2> SUFFICES ASSUME m.lease # NoLease
               PROVE  /\ m.lease \in leases' /\ m.lease.worker = w /\ m.lease.task = m.task
                      /\ \A l \in leases' : SameClaim(l, m.lease) /\ L!Holds(l)' => l = Newest(w)
    OBVIOUS
  <2>1. m.lease \in leases /\ m.lease.worker = w /\ m.lease.task = m.task
    BY DEF InHand
  <2>2. ASSUME NEW l \in leases', SameClaim(l, m.lease), L!Holds(l)'
        PROVE  l = Newest(w)
    <3>1. l.worker = w
      BY <1>1, <2>1, <2>2 DEF Granting
    <3>2. l \in leases /\ L!Holds(l)
      BY <1>2, <2>2, <3>1
    <3> QED BY <2>2, <3>2 DEF InHand
  <2> QED BY <1>1, <2>1, <2>2
<1>4. m.fresh # NoLease =>
         m.fresh \in leases' /\ m.fresh.worker = w /\ SameClaim(m.fresh, m.lease)
  BY <1>1 DEF InHand
<1>5. starts'[w] <= 1 /\ mem'[w].pc # "dead" =>
         \A l \in leases' : l.worker = w /\ L!Holds(l)' =>
             m.lease # NoLease /\ SameClaim(l, m.lease)
  <2> SUFFICES ASSUME starts'[w] <= 1, mem'[w].pc # "dead"
               PROVE  \A l \in leases' : l.worker = w /\ L!Holds(l)' =>
                          m.lease # NoLease /\ SameClaim(l, m.lease)
    OBVIOUS
  <2>1. starts[w] <= 1 /\ m.pc # "dead"
    BY DEF LeaseKept, WorkerTyped
  <2> QED BY <1>2, <2>1 DEF InHand
<1>6. mem'[w].lease = m.lease /\ mem'[w].fresh = m.fresh /\ Newest(w)' = Newest(w)
      /\ (m.lease # NoLease => mem'[w].task = m.task)
  BY DEF LeaseKept, Newest
<1> QED BY <1>3, <1>4, <1>5, <1>6 DEF InHand

\* No lease granted, each process with the leases it had: the leases stay true.
LEMMA LeasesKept ==
  ASSUME WorkerInv, LedgerMoves({}), starts' \in [Worker -> Nat],
         \A v \in Worker : LeaseKept(v)
  PROVE  LeasesTrue'
<1>1. Granting'
  BY GrantingKept DEF WorkerInv, WorkerTyped, LeasesTrue
<1>2. \A v \in Worker : InHand(v)'
  <2>1. {} \in SUBSET L!Lease /\ WorkerTyped /\ \A v \in Worker : InHand(v)
    BY DEF WorkerInv, LeasesTrue
  <2> QED BY <1>1, <2>1, HandKept
<1> QED BY <1>1, <1>2 DEF LeasesTrue

LEMMA UnmovedLease ==
  ASSUME WorkerInv, NEW v \in Worker, Unmoved(v)
  PROVE  LeaseKept(v) /\ Control(v)'
<1>1. starts[v] \in Nat /\ Control(v)
  BY DEF WorkerInv, WorkerTyped, Controlled
<1>2. LeaseKept(v)
  BY <1>1 DEF LeaseKept, Unmoved
<1>3. Control(v)'
  BY <1>1 DEF Control, Unmoved, RequestOf, FileKept
<1> QED BY <1>2, <1>3

LEMMA UnmovedCosts ==
  ASSUME WorkerInv, NEW v \in Worker, Unmoved(v), PendingOf(v)' \subseteq PendingOf(v)
  PROVE  CostKept(v)
BY DEF WorkerInv, CostsTrue, CostKept, Unmoved

LEMMA CostsKept ==
  ASSUME \A v \in Worker : CostKept(v)
  PROVE  CostsTrue'
BY DEF CostsTrue, CostKept

\* The mark a process counts on stays when its task has the same mark.
LEMMA UnmovedMarks ==
  ASSUME WorkerInv, NEW v \in Worker, Unmoved(v), resolved \subseteq resolved',
         mem[v].pc \in {"send", "wait", "confirm"} =>
             tasks'[mem[v].task].unconfirmed = tasks[mem[v].task].unconfirmed
  PROVE  Marked(v)' /\ Answering(v)'
BY DEF WorkerInv, SendsTrue, Marked, Answering, Unmoved, RequestOf, EffectKnown

\* Nothing sent, the marks kept: the requests stay accounted for.
LEMMA SendsKept ==
  ASSUME WorkerInv, MarksKept, sent' = sent, resolved \subseteq resolved',
         \A v \in Worker : Marked(v)' /\ Answering(v)'
  PROVE  SendsTrue'
<1>1. \A q \in sent : q[1] \in Task
  BY DEF WorkerInv, WorkerTyped, Request
<1> QED BY <1>1 DEF WorkerInv, SendsTrue, MarksKept

LEMMA UnmovedFinal ==
  ASSUME WorkerInv, NEW v \in Worker, Unmoved(v), NEW new, LedgerMoves(new),
         approved \subseteq approved', audited \subseteq audited',
         disk[v].pending # NoPending => fed'[Submitted(v)] = fed[Submitted(v)]
  PROVE  Finalized(v)'
<1> SUFFICES ASSUME mem[v].pc \in Finalizing \ {"promote"}
             PROVE  Finalized(v)'
  BY DEF Finalized, Unmoved
<1>1. Finalized(v) /\ disk[v].pending \in Pending /\ Submitted(v)[1] \in Task
  BY DEF WorkerInv, PromotionsTrue, Controlled, Control, WorkerTyped, Stored, Pending, Result,
         Submitted
<1>2. Submitted(v)' = Submitted(v) /\ Submitted(v) = disk[v].pending.result
  BY DEF Unmoved, FileKept, Submitted
<1>3. tasks'[Submitted(v)[1]] = tasks[Submitted(v)[1]] /\ Accepted(v)
  BY <1>1, <1>2, SMTT(30) DEF Finalized, Accepted, LedgerMoves
<1>4. Accepted(v)'
  BY <1>2, <1>3 DEF Accepted, Unmoved, FileKept
<1>5. fed'[Submitted(v)] = fed[Submitted(v)]
  BY DEF WorkerInv, Controlled, Control
<1> QED BY <1>1, <1>2, <1>4, <1>5 DEF Finalized, Unmoved, FileKept

LEMMA PendingKept ==
  ASSUME WorkerInv, NEW v \in Worker, FileKept(v), leases \subseteq leases',
         disk[v].pending # NoPending => fed'[Submitted(v)] = fed[Submitted(v)]
  PROVE  PendingTrue(v)'
BY DEF WorkerInv, PromotionsTrue, PendingTrue, Submitted, Fed, FileKept

\* What is recorded of completed tasks stays.
LEMMA RecordsKept ==
  ASSUME WorkerInv, NEW new, LedgerMoves(new), EvidenceKept,
         \A v \in Worker : FileKept(v)
  PROVE  /\ \A r \in Result : fed'[r] > 0 => tasks'[r[1]].status = "completed"
         /\ PromotionEvidence' /\ CompletedCounts'
<1>1. \A r \in Result : r[1] \in Task
  BY DEF Result
<1>2. /\ \A r \in Result : fed'[r] > 0 => tasks'[r[1]].status = "completed"
  BY <1>1 DEF WorkerInv, PromotionsTrue, LedgerMoves, EvidenceKept
<1>3. \A r \in audited : /\ tasks'[r[1]] = tasks[r[1]] /\ fed[r] = 1 /\ r \in approved
                         /\ tasks[r[1]].status = "completed" /\ tasks[r[1]].result = r
                         /\ tasks[r[1]].effect
  BY <1>1 DEF WorkerInv, WorkerTyped, PromotionsTrue, PromotionEvidence, LedgerMoves
<1>4. PromotionEvidence'
  BY <1>3 DEF PromotionEvidence, EvidenceKept, WorkerInv, PromotionsTrue
<1>5. CompletedCounts'
  <2>1. ASSUME NEW v \in Worker
        PROVE  {r \in audited : tasks'[r[1]].owner = v} = {r \in audited : tasks[r[1]].owner = v}
    BY <1>3
  <2> QED BY <2>1 DEF WorkerInv, PromotionsTrue, CompletedCounts, EvidenceKept, FileKept
<1> QED BY <1>2, <1>4, <1>5

\* Each file kept, what was recorded kept: the finalizations stay true.
LEMMA PromotionsKept ==
  ASSUME WorkerInv, NEW new, LedgerMoves(new), EvidenceKept,
         \A v \in Worker : FileKept(v) /\ Finalized(v)'
  PROVE  PromotionsTrue'
<1>1. \A v \in Worker : PendingTrue(v)'
  BY PendingKept DEF LedgerMoves, EvidenceKept
<1>2. /\ \A r \in Result : fed'[r] > 0 => tasks'[r[1]].status = "completed"
      /\ PromotionEvidence' /\ CompletedCounts'
  BY RecordsKept
<1> QED BY <1>1, <1>2 DEF PromotionsTrue

-----------------------------------------------------------------------------
(* Steps that leave the world of the other processes as it is *)

\* Rows, leases, reservations and files; then the marks and the requests sent.
WorldWith(new) ==
    /\ LedgerMoves(new) /\ CostsTold' /\ sent' \subseteq Request /\ EvidenceKept
    /\ disk' \in [Worker -> Stored] /\ \A v \in Worker : FileKept(v)
MarksStill == MarksKept /\ sent' = sent /\ resolved \subseteq resolved'
World == WorldWith({}) /\ MarksStill /\ Landing
Still(v) == mem'[v] = mem[v] /\ starts'[v] = starts[v]
Others(w) == /\ mem' \in [Worker -> Process] /\ starts' \in [Worker -> Nat]
             /\ \A v \in Worker : v # w => Still(v)
Settled(v) == Control(v)' /\ CostKept(v) /\ Finalized(v)'
Mover(v) == LeaseKept(v) /\ Settled(v) /\ Marked(v)' /\ Answering(v)'

LEMMA StillHolds ==
  ASSUME WorkerInv, NEW new, WorldWith(new), NEW v \in Worker, Still(v),
         PendingOf(v)' \subseteq PendingOf(v)
  PROVE  LeaseKept(v) /\ Settled(v)
<1>1. Unmoved(v)
  BY DEF WorldWith, Still, Unmoved
<1>2. LedgerMoves(new) /\ fed' = fed /\ audited' = audited /\ approved \subseteq approved'
  BY DEF WorldWith, EvidenceKept
<1> QED BY <1>1, <1>2, UnmovedLease, UnmovedCosts, UnmovedFinal DEF Settled

LEMMA StillMarks ==
  ASSUME WorkerInv, MarksStill, NEW v \in Worker, Still(v), FileKept(v)
  PROVE  Marked(v)' /\ Answering(v)'
<1>1. mem[v].pc \in {"send", "wait", "confirm"} =>
          tasks'[mem[v].task].unconfirmed = tasks[mem[v].task].unconfirmed
  BY DEF MarksStill, MarksKept, WorkerInv, Controlled, Control, Chain
<1> QED BY <1>1, UnmovedMarks DEF MarksStill, Still, Unmoved

LEMMA StillMover ==
  ASSUME WorkerInv, World, NEW v \in Worker, Still(v)
  PROVE  Mover(v)
<1>1. PendingOf(v)' \subseteq PendingOf(v)
  BY LandingCosts DEF World
<1> QED BY <1>1, StillHolds, StillMarks DEF World, WorldWith, Mover

\* What is left to show of a step in such a world.
LEMMA WorldKeeps ==
  ASSUME WorkerInv, NEW new, WorldWith(new),
         mem' \in [Worker -> Process], starts' \in [Worker -> Nat],
         LeasesTrue', SendsTrue', \A v \in Worker : Settled(v)
  PROVE  WorkerInv'
<1>1. WorkerTyped'
  BY DEF WorkerInv, WorkerTyped, WorldWith, LedgerMoves, EvidenceKept
<1>2. CostsTrue'
  BY CostsKept DEF Settled
<1>3. PromotionsTrue'
  BY PromotionsKept DEF WorldWith, Settled
<1> QED BY <1>1, <1>2, <1>3 DEF WorkerInv, Controlled, Settled

LEMMA MarksStillSends ==
  ASSUME WorkerInv, MarksStill, \A v \in Worker : Marked(v)' /\ Answering(v)'
  PROVE  SendsTrue'
BY SendsKept DEF MarksStill

\* A step that leaves the world alone, and each process as its new point needs it.
LEMMA MoversKeep ==
  ASSUME WorkerInv, World, mem' \in [Worker -> Process], starts' \in [Worker -> Nat],
         \A v \in Worker : Mover(v)
  PROVE  WorkerInv'
<1>1. LeasesTrue'
  BY LeasesKept DEF World, WorldWith, Mover
<1> QED BY <1>1, MarksStillSends, WorldKeeps DEF Mover, World

\* A step that leaves the memories alone too.
LEMMA StillKeeps ==
  ASSUME WorkerInv, World, UNCHANGED <<mem, starts>>
  PROVE  WorkerInv'
BY MoversKeep, StillMover DEF Still, WorkerInv, WorkerTyped

\* A step of one process, which leaves the others where they are.
LEMMA MoverKeeps ==
  ASSUME WorkerInv, World, NEW w \in Worker, Others(w), Mover(w)
  PROVE  WorkerInv'
BY MoversKeep, StillMover DEF Others

\* A step that changes the lease of one process and leaves the others theirs.
LEMMA HandKeeps ==
  ASSUME WorkerInv, NEW new \in SUBSET L!Lease, WorldWith(new), MarksStill, Landing,
         NEW w \in Worker, Others(w), Granting', InHand(w)', \A l \in new : l.worker = w,
         Settled(w), Marked(w)', Answering(w)'
  PROVE  WorkerInv'
<1>1. ASSUME NEW v \in Worker, v # w
      PROVE  InHand(v)' /\ Settled(v) /\ Marked(v)' /\ Answering(v)'
  <2>1. Still(v)
    BY <1>1 DEF Others
  <2>2. LeaseKept(v) /\ Settled(v) /\ Marked(v)' /\ Answering(v)'
    BY <2>1, LandingCosts, StillHolds, StillMarks DEF WorldWith
  <2>3. WorkerTyped /\ InHand(v) /\ \A l \in new : l.worker # v
    BY <1>1 DEF WorkerInv, LeasesTrue
  <2>4. InHand(v)'
    BY <2>2, <2>3, HandKept DEF WorldWith, Others
  <2> QED BY <2>2, <2>4
<1>2. LeasesTrue' /\ SendsTrue'
  BY <1>1, MarksStillSends DEF LeasesTrue
<1> QED BY <1>1, <1>2, WorldKeeps DEF Others

LEMMA FilesStill ==
  ASSUME WorkerInv, UNCHANGED disk
  PROVE  disk' \in [Worker -> Stored] /\ \A v \in Worker : FileKept(v)
BY DEF WorkerInv, WorkerTyped, FileKept

LEMMA LedgerStill ==
  ASSUME WorkerInv, LedgerIdle
  PROVE  LedgerQuiet
BY RowsUntouched DEF LedgerIdle, ledger, WorkerInv, WorkerTyped

\* A step on the memories alone leaves the world as it is.
LEMMA WorldStill ==
  ASSUME WorkerInv, LedgerQuiet, BudgetIdle, NoEvidence, UNCHANGED disk
  PROVE  World
BY BudgetStill, FilesStill
   DEF World, WorldWith, MarksStill, LedgerQuiet, WorkerInv, WorkerTyped, BudgetIdle, budget,
       NoEvidence, evidence, EvidenceKept, Landing

LEMMA MemoryOnlyWorld ==
  ASSUME WorkerInv, MemoryOnly
  PROVE  World /\ UNCHANGED starts
BY WorldStill, LedgerStill DEF MemoryOnly

-----------------------------------------------------------------------------
(* How the memory of a process moves *)

LEMMA MemoryMoves ==
  ASSUME WorkerInv, NEW w \in Worker, NEW m \in Process, mem' = [mem EXCEPT ![w] = m],
         UNCHANGED starts
  PROVE  Others(w) /\ mem'[w] = m
<1> HIDE DEF Process
<1> QED BY DEF WorkerInv, WorkerTyped, Others, Still

LEMMA Unanswered == NoRequest \in Answered
BY DEF Answered

LEMMA BlankTyped ==
  /\ Blank \in Process
  /\ \A label \in Label : [Blank EXCEPT !.pc = label] \in Process
<1>1. "off" \in Label /\ "none" \in Ending /\ 0 \in Nat
  BY DEF Label, Ending
<1>2. Blank \in Process
  BY <1>1, Unanswered DEF Blank, Process
<1> QED BY <1>2 DEF Process

LEMMA GotoMoves ==
  ASSUME WorkerInv, NEW w \in Worker, NEW label \in Label, Goto(w, label), UNCHANGED starts
  PROVE  Others(w) /\ mem'[w] = [mem[w] EXCEPT !.pc = label]
<1> DEFINE m == [mem[w] EXCEPT !.pc = label]
<1>1. mem[w] \in Process
  BY DEF WorkerInv, WorkerTyped
<1>2. m \in Process
  BY <1>1 DEF Process
<1>3. mem' = [mem EXCEPT ![w] = m]
  BY DEF Goto
<1> HIDE DEF m
<1> QED BY <1>2, <1>3, MemoryMoves DEF m

LEMMA LeaveMoves ==
  ASSUME WorkerInv, NEW w \in Worker, NEW label \in Label, Leave(w, label), UNCHANGED starts
  PROVE  Others(w) /\ mem'[w] = [mem[w] EXCEPT !.pc = label, !.answer = NoRequest,
                                               !.stopped = FALSE, !.candidate = 0]
<1> DEFINE m == [mem[w] EXCEPT !.pc = label, !.answer = NoRequest,
                               !.stopped = FALSE, !.candidate = 0]
<1>1. mem[w] \in Process
  BY DEF WorkerInv, WorkerTyped
<1>2. m \in Process
  BY <1>1, Unanswered DEF Process
<1>3. mem' = [mem EXCEPT ![w] = m]
  BY DEF Leave
<1> HIDE DEF m
<1> QED BY <1>2, <1>3, MemoryMoves DEF m

LEMMA EndMoves ==
  ASSUME WorkerInv, NEW w \in Worker, NEW outcome \in Ending, End(w, outcome), UNCHANGED starts
  PROVE  Others(w) /\ mem'[w] = [mem[w] EXCEPT !.pc = "unwind", !.outcome = outcome,
                                               !.answer = NoRequest, !.stopped = FALSE,
                                               !.candidate = 0]
<1> DEFINE m == [mem[w] EXCEPT !.pc = "unwind", !.outcome = outcome, !.answer = NoRequest,
                               !.stopped = FALSE, !.candidate = 0]
<1>1. mem[w] \in Process
  BY DEF WorkerInv, WorkerTyped
<1>2. m \in Process
  BY <1>1, Unanswered, ZenonT(60) DEF Process, Label
<1>3. mem' = [mem EXCEPT ![w] = m]
  BY DEF End
<1> HIDE DEF m
<1> QED BY <1>2, <1>3, MemoryMoves DEF m

\* A process that holds nothing may return.
LEMMA ReturnKeeps ==
  ASSUME WorkerInv, World, UNCHANGED starts, NEW w \in Worker, Return(w),
         mem[w].lease = NoLease, mem[w].active = NoRequest,
         mem[w].pc \notin {"dead", "recover"}
  PROVE  WorkerInv'
<1>1. Blank \in Process
  BY BlankTyped
<1>2. Others(w) /\ mem'[w] = Blank
  <2> HIDE DEF Blank
  <2> QED BY <1>1, MemoryMoves DEF Return
<1>3. Control(w) /\ starts[w] \in Nat /\ LastCandidate[w] \in Nat
  BY WorkerAssumption DEF WorkerInv, WorkerTyped, Controlled
<1>4. LeaseKept(w)
  BY <1>2, <1>3 DEF LeaseKept, Control, Blank
<1>5. Control(w)'
  BY <1>2, <1>3 DEF Control, Blank, Outside, Chain, Handing, Finalizing, Ended
<1>6. CostKept(w)
  BY <1>2, LandingCosts DEF CostKept, WorkerInv, CostsTrue, Blank, World
<1>7. Marked(w)' /\ Answering(w)' /\ Finalized(w)'
  BY <1>2 DEF Marked, Answering, Finalized, Blank, Finalizing
<1> QED BY <1>2, <1>4, <1>5, <1>6, <1>7, MoverKeeps DEF Mover, Settled

\* An attempt may end at any point, whatever it holds.
LEMMA EndKeeps ==
  ASSUME WorkerInv, World, UNCHANGED starts, NEW w \in Worker,
         NEW outcome \in {"none", "sleeping", "failed"}, End(w, outcome),
         mem[w].lease # NoLease
  PROVE  WorkerInv'
<1>1. Others(w) /\ mem'[w] = [mem[w] EXCEPT !.pc = "unwind", !.outcome = outcome,
                                            !.answer = NoRequest, !.stopped = FALSE,
                                            !.candidate = 0]
  <2>1. outcome \in Ending
    BY DEF Ending
  <2> QED BY <2>1, EndMoves
<1>2. Control(w) /\ starts[w] \in Nat /\ LastCandidate[w] \in Nat /\ mem[w] \in Process
      /\ mem[w].pc \notin Outside
  BY WorkerAssumption DEF WorkerInv, WorkerTyped, Controlled, Control
<1>3. /\ mem'[w].pc = "unwind" /\ mem'[w].outcome = outcome /\ mem'[w].candidate = 0
      /\ mem'[w].lease = mem[w].lease /\ mem'[w].fresh = mem[w].fresh
      /\ mem'[w].keeper = mem[w].keeper /\ mem'[w].active = mem[w].active
      /\ mem'[w].task = mem[w].task
  BY <1>1, <1>2 DEF Process
<1>4. LeaseKept(w)
  BY <1>2, <1>3 DEF LeaseKept, Outside
<1>5. Control(w)'
  BY <1>2, <1>3 DEF Control, Outside, Chain, Handing, Finalizing, Ended
<1>6. CostKept(w)
  BY <1>2, <1>3, LandingCosts DEF CostKept, WorkerInv, CostsTrue, World, Outside
<1>7. Marked(w)' /\ Answering(w)' /\ Finalized(w)'
  BY <1>3 DEF Marked, Answering, Finalized, Finalizing
<1> QED BY <1>1, <1>4, <1>5, <1>6, <1>7, MoverKeeps DEF Mover, Settled

-----------------------------------------------------------------------------
(* Starting, waking up, choosing a task *)

LEMMA SeedKeeps ==
  ASSUME WorkerInv, NEW t \in Task, Seed(t)
  PROVE  WorkerInv'
<1>1. LedgerQuiet
  BY EnqueueQuiet DEF Seed, WorkerInv, WorkerTyped
<1> QED BY <1>1, WorldStill, StillKeeps DEF Seed

LEMMA TickKeeps ==
  ASSUME WorkerInv, Tick
  PROVE  WorkerInv'
<1>1. LedgerQuiet
  BY TickQuiet DEF Tick, WorkerInv, WorkerTyped
<1> QED BY <1>1, WorldStill, StillKeeps DEF Tick

LEMMA StartKeeps ==
  ASSUME WorkerInv, NEW w \in Worker, Start(w)
  PROVE  WorkerInv'
<1> DEFINE m == [mem[w] EXCEPT !.pc = "recover"]
<1>1. /\ mem' = [mem EXCEPT ![w] = m] /\ starts' = [starts EXCEPT ![w] = starts[w] + 1]
      /\ mem[w].pc \in {"off", "dead"}
  BY DEF Start, Goto
<1>2. World
  BY WorldStill, LedgerStill DEF Start
<1>3. mem[w] \in Process /\ starts[w] \in Nat /\ Control(w)
  BY DEF WorkerInv, WorkerTyped, Controlled
<1>4. /\ m \in Process /\ m.pc = "recover" /\ m.lease = mem[w].lease
      /\ m.fresh = mem[w].fresh /\ m.task = mem[w].task /\ m.keeper = mem[w].keeper
      /\ m.active = mem[w].active /\ m.outcome = mem[w].outcome
      /\ m.candidate = mem[w].candidate
  BY <1>3, ZenonT(60) DEF Process, Label
<1> HIDE DEF m, Process
<1>5. Others(w) /\ mem'[w] = m /\ starts'[w] = starts[w] + 1
  BY <1>1, <1>3, <1>4 DEF Others, Still, WorkerInv, WorkerTyped
<1>6. LeaseKept(w)
  BY <1>1, <1>3, <1>4, <1>5 DEF LeaseKept, Control
<1>7. Control(w)'
  BY <1>1, <1>3, <1>4, <1>5 DEF Control, Outside, Chain, Handing, Finalizing, Ended
<1>8. CostKept(w) /\ Marked(w)' /\ Answering(w)' /\ Finalized(w)'
  BY <1>4, <1>5 DEF CostKept, Marked, Answering, Finalized, Finalizing
<1> QED BY <1>2, <1>5, <1>6, <1>7, <1>8, MoverKeeps DEF Mover, Settled

\* A process with nothing in hand goes on to sense or to claim.
LEMMA OutsideKeeps ==
  ASSUME WorkerInv, World, UNCHANGED starts, NEW w \in Worker, NEW m \in Process,
         mem' = [mem EXCEPT ![w] = m],
         mem[w].pc \in {"gate", "sense", "claim"}, m.pc \in {"sense", "claim"},
         m.pc = "claim" => m.task \in Task,
         m.lease = mem[w].lease, m.fresh = mem[w].fresh, m.keeper = mem[w].keeper,
         m.active = mem[w].active, m.outcome = mem[w].outcome,
         m.candidate = mem[w].candidate
  PROVE  WorkerInv'
<1>1. Others(w) /\ mem'[w] = m
  BY MemoryMoves
<1>2. Control(w) /\ starts[w] \in Nat
  BY DEF WorkerInv, WorkerTyped, Controlled
<1>3. LeaseKept(w)
  BY <1>1, <1>2 DEF LeaseKept, Control, Outside
<1>4. Control(w)'
  BY <1>1, <1>2 DEF Control, Outside, Chain, Handing, Finalizing, Ended, World, WorldWith, FileKept
<1>5. CostKept(w)
  BY <1>1, LandingCosts DEF CostKept, WorkerInv, CostsTrue, World
<1>6. Marked(w)' /\ Answering(w)' /\ Finalized(w)'
  BY <1>1 DEF Marked, Answering, Finalized, Finalizing
<1> QED BY <1>1, <1>3, <1>4, <1>5, <1>6, MoverKeeps DEF Mover, Settled

LEMMA NothingInHand ==
  ASSUME WorkerInv, NEW w \in Worker, mem[w].pc \in {"gate", "sense", "claim"}
  PROVE  mem[w].lease = NoLease /\ mem[w].active = NoRequest
BY DEF WorkerInv, Controlled, Control, Outside

LEMMA IdleKeeps ==
  ASSUME WorkerInv, World, UNCHANGED starts, NEW w \in Worker, Idle(w),
         mem[w].pc \in {"sense", "claim"}
  PROVE  WorkerInv'
<1>1. CASE Return(w)
  BY <1>1, NothingInHand, ReturnKeeps
<1>2. CASE mem' = [mem EXCEPT ![w].pc = "sense", ![w].idle = @ + 1]
  <2> DEFINE m == [mem[w] EXCEPT !.pc = "sense", !.idle = mem[w].idle + 1]
  <2>1. mem[w] \in Process /\ mem[w].idle + 1 \in Nat
    BY DEF WorkerInv, WorkerTyped, Process
  <2>2. /\ m \in Process /\ m.pc = "sense" /\ m.lease = mem[w].lease
        /\ m.fresh = mem[w].fresh /\ m.keeper = mem[w].keeper /\ m.active = mem[w].active
        /\ m.outcome = mem[w].outcome /\ m.candidate = mem[w].candidate
    BY <2>1, ZenonT(60) DEF Process, Label
  <2>3. mem' = [mem EXCEPT ![w] = m]
    BY <1>2
  <2> HIDE DEF m
  <2> QED BY <2>2, <2>3, OutsideKeeps
<1> QED BY <1>1, <1>2 DEF Idle

LEMMA GateKeeps ==
  ASSUME WorkerInv, NEW w \in Worker, Gate(w)
  PROVE  WorkerInv'
<1>1. World /\ UNCHANGED starts /\ mem[w].pc = "gate"
  BY MemoryOnlyWorld DEF Gate, At
<1>2. CASE Return(w)
  BY <1>1, <1>2, NothingInHand, ReturnKeeps
<1>3. CASE Goto(w, "sense")
  <2> DEFINE m == [mem[w] EXCEPT !.pc = "sense"]
  <2>1. mem[w] \in Process
    BY DEF WorkerInv, WorkerTyped
  <2>2. /\ m \in Process /\ m.pc = "sense" /\ m.lease = mem[w].lease
        /\ m.fresh = mem[w].fresh /\ m.keeper = mem[w].keeper /\ m.active = mem[w].active
        /\ m.outcome = mem[w].outcome /\ m.candidate = mem[w].candidate
    BY <2>1, ZenonT(60) DEF Process, Label
  <2>3. mem' = [mem EXCEPT ![w] = m]
    BY <1>3 DEF Goto
  <2> HIDE DEF m
  <2> QED BY <1>1, <2>2, <2>3, OutsideKeeps
<1> QED BY <1>2, <1>3 DEF Gate

LEMMA SenseStopsKeeps ==
  ASSUME WorkerInv, NEW w \in Worker, SenseStops(w)
  PROVE  WorkerInv'
BY MemoryOnlyWorld, NothingInHand, ReturnKeeps DEF SenseStops, At

LEMMA SenseKeeps ==
  ASSUME WorkerInv, NEW w \in Worker, Sense(w)
  PROVE  WorkerInv'
<1>1. UNCHANGED starts /\ mem[w].pc = "sense" /\ disk' = Counted(w)
  BY DEF Sense, At
<1>2. disk' \in [Worker -> Stored] /\ \A v \in Worker : FileKept(v)
  <2> DEFINE energy == IF EnergyPolicy = "cycle" THEN disk[w].energy - 1 ELSE disk[w].energy
             d == [disk[w] EXCEPT !.senses = disk[w].senses + 1, !.energy = energy]
  <2>1. disk \in [Worker -> Stored] /\ disk[w] \in Stored
        /\ energy \in Int /\ disk[w].senses + 1 \in Nat
    BY DEF WorkerInv, WorkerTyped, Stored
  <2>3. disk' = [disk EXCEPT ![w] = d]
    BY <1>1 DEF Counted
  <2> HIDE DEF energy
  <2>2. d \in Stored /\ d.pending = disk[w].pending /\ d.completed = disk[w].completed
    BY <2>1 DEF Stored
  <2> HIDE DEF d, Stored
  <2>4. disk' \in [Worker -> Stored] /\ disk'[w] = d
        /\ \A v \in Worker : v # w => disk'[v] = disk[v]
    BY <2>1, <2>2, <2>3
  <2> QED BY <2>2, <2>4 DEF FileKept
<1>3. World
  BY <1>2, LedgerStill, BudgetStill
     DEF Sense, World, WorldWith, MarksStill, LedgerQuiet, WorkerInv, WorkerTyped, BudgetIdle,
         budget, NoEvidence, evidence, EvidenceKept, Landing
<1>4. CASE Idle(w)
  BY <1>1, <1>3, <1>4, IdleKeeps
<1>5. CASE Return(w)
  BY <1>1, <1>3, <1>5, NothingInHand, ReturnKeeps
<1>6. ASSUME NEW t \in Eligible(w), mem' = [mem EXCEPT ![w].pc = "claim", ![w].task = t]
      PROVE  WorkerInv'
  <2> DEFINE m == [mem[w] EXCEPT !.pc = "claim", !.task = t]
  <2>1. mem[w] \in Process /\ t \in Task
    BY WorkerAssumption DEF WorkerInv, WorkerTyped, Eligible
  <2>2. /\ m \in Process /\ m.pc = "claim" /\ m.task = t /\ m.lease = mem[w].lease
        /\ m.fresh = mem[w].fresh /\ m.keeper = mem[w].keeper /\ m.active = mem[w].active
        /\ m.outcome = mem[w].outcome /\ m.candidate = mem[w].candidate
    BY <2>1, ZenonT(60) DEF Process, Label
  <2>3. mem' = [mem EXCEPT ![w] = m]
    BY <1>6
  <2> HIDE DEF m
  <2> QED BY <1>1, <1>3, <2>1, <2>2, <2>3, OutsideKeeps
<1> QED BY <1>4, <1>5, <1>6 DEF Sense

LEMMA WaitsKeeps ==
  ASSUME WorkerInv, NEW w \in Worker, Waits(w)
  PROVE  WorkerInv'
BY MemoryOnlyWorld, IdleKeeps DEF Waits, At

LEMMA ClaimDeniedKeeps ==
  ASSUME WorkerInv, NEW w \in Worker, ClaimDenied(w)
  PROVE  WorkerInv'
<1>1. World /\ UNCHANGED starts /\ mem[w].pc = "claim"
  BY MemoryOnlyWorld DEF ClaimDenied, At
<1>2. CASE Return(w)
  BY <1>1, <1>2, NothingInHand, ReturnKeeps
<1>3. CASE Contended(w)
  <2> DEFINE idle == IF mem[w].idle < MaxIdle THEN mem[w].idle + 1 ELSE mem[w].idle
             m == [mem[w] EXCEPT !.pc = "sense", !.idle = idle]
  <2>1. mem[w] \in Process /\ idle \in Nat
    BY DEF WorkerInv, WorkerTyped, Process
  <2>3. mem' = [mem EXCEPT ![w] = m]
    BY <1>3 DEF Contended
  <2> HIDE DEF idle
  <2>2. /\ m \in Process /\ m.pc = "sense" /\ m.lease = mem[w].lease
        /\ m.fresh = mem[w].fresh /\ m.keeper = mem[w].keeper /\ m.active = mem[w].active
        /\ m.outcome = mem[w].outcome /\ m.candidate = mem[w].candidate
    BY <2>1, ZenonT(60) DEF Process, Label
  <2> HIDE DEF m
  <2> QED BY <1>1, <2>2, <2>3, OutsideKeeps
<1> QED BY <1>2, <1>3 DEF ClaimDenied

\* Recovery lands what a former process left in flight, then goes on.
LEMMA RecoverKeeps ==
  ASSUME WorkerInv, NEW w \in Worker, Recover(w)
  PROVE  WorkerInv'
<1>1. CASE PendingOf(w) # {}
  <2>1. PICK q \in PendingOf(w) : B!Settle(q, NoUsage, FALSE, clock)
    BY <1>1 DEF Recover
  <2>2. Landing
    BY <2>1, SettleLands DEF PendingOf, WorkerInv, WorkerTyped
  <2>3. World
    BY <1>1, <2>2, LedgerStill, FilesStill
       DEF Recover, World, WorldWith, MarksStill, LedgerQuiet, WorkerInv, WorkerTyped,
           NoEvidence, evidence, EvidenceKept, Landing
  <2> QED BY <1>1, <2>3, StillKeeps DEF Recover
<1>2. CASE PendingOf(w) = {}
  <2> DEFINE label == IF disk[w].pending # NoPending THEN "promote" ELSE "gate"
  <2>1. World /\ UNCHANGED starts /\ mem[w].pc = "recover" /\ UNCHANGED disk
        /\ PendingOf(w)' = {}
    BY <1>2, WorldStill, LedgerStill, LandingCosts DEF Recover, At, World
  <2>2. Others(w) /\ mem'[w] = [mem[w] EXCEPT !.pc = label]
    <3>1. label \in Label /\ Goto(w, label)
      BY <1>2 DEF Recover, Label
    <3> HIDE DEF label
    <3> QED BY <2>1, <3>1, GotoMoves
  <2>3. /\ mem[w] \in Process /\ Control(w) /\ starts[w] \in Nat
    BY DEF WorkerInv, WorkerTyped, Controlled
  <2>4. /\ mem'[w].pc = label /\ mem'[w].lease = mem[w].lease
        /\ mem'[w].fresh = mem[w].fresh /\ mem'[w].task = mem[w].task
        /\ mem'[w].keeper = mem[w].keeper /\ mem'[w].active = mem[w].active
        /\ mem'[w].outcome = mem[w].outcome /\ mem'[w].candidate = mem[w].candidate
    BY <2>2, <2>3 DEF Process
  <2>5. LeaseKept(w)
    BY <2>1, <2>3, <2>4 DEF LeaseKept
  <2>6. Control(w)'
    BY <2>1, <2>3, <2>4 DEF Control, Outside, Chain, Handing, Finalizing, Ended
  <2>7. CostKept(w) /\ Marked(w)' /\ Answering(w)' /\ Finalized(w)'
    BY <2>1, <2>4 DEF CostKept, Marked, Answering, Finalized, Finalizing
  <2> QED BY <2>1, <2>2, <2>5, <2>6, <2>7, MoverKeeps DEF Mover, Settled
<1> QED BY <1>1, <1>2

\* A crash loses the memory alone: files, ledgers and evidence stay.
LEMMA CrashKeeps ==
  ASSUME WorkerInv, NEW w \in Worker, Crash(w)
  PROVE  WorkerInv'
<1> DEFINE m == [Blank EXCEPT !.pc = "dead"]
<1>1. UNCHANGED <<clock, tasks, leases>> /\ mem[w].pc \notin {"off", "dead"}
  BY DEF Crash, L!Crash
<1>2. World /\ UNCHANGED starts
  BY <1>1, RowsUntouched, WorldStill DEF Crash, WorkerInv, WorkerTyped
<1>3. Others(w) /\ mem'[w] = m
  <2>1. m \in Process /\ mem' = [mem EXCEPT ![w] = m]
    BY BlankTyped DEF Crash, Label
  <2> HIDE DEF m
  <2> QED BY <1>2, <2>1, MemoryMoves
<1>4. Control(w) /\ starts[w] \in Nat /\ LastCandidate[w] \in Nat
  BY WorkerAssumption DEF WorkerInv, WorkerTyped, Controlled
<1>5. Control(w)'
  BY <1>1, <1>2, <1>3, <1>4 DEF Control, Blank, Outside, Chain, Handing, Finalizing, Ended
<1>6. CostKept(w) /\ Marked(w)' /\ Answering(w)' /\ Finalized(w)'
  BY <1>3 DEF CostKept, Marked, Answering, Finalized, Blank, Finalizing
<1>7. Granting'
  BY <1>2, GrantingKept DEF World, WorldWith, WorkerInv, WorkerTyped, LeasesTrue
<1>8. InHand(w)'
  BY <1>3 DEF InHand, Blank
<1>9. {} \in SUBSET L!Lease
  OBVIOUS
<1> QED BY <1>2, <1>3, <1>5, <1>6, <1>7, <1>8, <1>9, HandKeeps DEF World, Settled

-----------------------------------------------------------------------------
(* The lease of a process: claimed, renewed, given back *)

\* The lease just granted is the only good one of a claim nobody had before.
LEMMA ClaimKeeps ==
  ASSUME WorkerInv, NEW w \in Worker, Claim(w)
  PROVE  WorkerInv'
<1>1. PICK ttl \in TTL :
          /\ L!Claim(w, mem[w].task, ttl)
          /\ mem' = [mem EXCEPT ![w].pc = "guard", ![w].idle = 0, ![w].keeper = "running",
                                ![w].lease = Granted(w, ttl)]
  BY DEF Claim
<1>0. PICK l, new : l = Granted(w, ttl) /\ new = {l}
  OBVIOUS
<1> DEFINE t == mem[w].task
           m == [mem[w] EXCEPT !.pc = "guard", !.idle = 0, !.keeper = "running", !.lease = l]
<1>2. mem[w] \in Process /\ Control(w) /\ mem[w].pc = "claim" /\ UNCHANGED starts
      /\ starts[w] \in Nat /\ t \in Task /\ TasksTold /\ CostsTold
      /\ mem[w].lease = NoLease /\ mem[w].fresh = NoLease /\ mem[w].outcome = "none"
      /\ mem[w].active = NoRequest /\ InHand(w) /\ Granting
  BY DEF WorkerInv, WorkerTyped, Controlled, Control, Claim, At, Outside, Ended, LeasesTrue
<1>3. /\ LedgerMoves(new) /\ MarksKept /\ l \in L!Lease /\ leases' = leases \cup {l}
      /\ tasks'[t].token = l.token
      /\ l.task = t /\ l.worker = w /\ l.token = tasks[t].token + 1
  <2>1. l = [task |-> t, worker |-> w, token |-> tasks[t].token + 1, expires |-> clock + ttl]
    BY <1>0 DEF Granted
  <2>2. l.task = t /\ l.worker = w /\ l.token = tasks[t].token + 1
    BY <2>1
  <2>3. PICK u \in Task : u = t
    BY <1>2
  <2>4. L!Claim(w, u, ttl)
    BY <1>1, <2>3
  <2>5. l = [task |-> u, worker |-> w, token |-> tasks[u].token + 1, expires |-> clock + ttl]
    BY <2>1, <2>3
  <2>6. /\ LedgerMoves(new) /\ MarksKept /\ l \in L!Lease /\ leases' = leases \cup {l}
        /\ tasks'[u].token = l.token
    BY <1>0, <1>2, <2>4, <2>5, ClaimMoves
  <2> QED BY <2>2, <2>3, <2>6
<1>4. /\ m \in Process /\ m.pc = "guard" /\ m.lease = l /\ m.fresh = NoLease /\ m.task = t
      /\ m.active = NoRequest /\ m.outcome = "none" /\ m.keeper = "running"
      /\ m.candidate = mem[w].candidate
  BY <1>2, <1>3, ZenonT(60) DEF Process, Label
<1>5. mem' = [mem EXCEPT ![w] = m]
  BY <1>0, <1>1
<1> HIDE DEF m
<1>6. Others(w) /\ mem'[w] = m
  BY <1>2, <1>4, <1>5, MemoryMoves
<1>7. disk' \in [Worker -> Stored] /\ \A v \in Worker : FileKept(v)
  <2> DEFINE energy == IF EnergyPolicy = "claim" THEN disk[w].energy - 1 ELSE disk[w].energy
             d == [disk[w] EXCEPT !.energy = energy]
  <2>1. disk \in [Worker -> Stored] /\ disk[w] \in Stored /\ energy \in Int
    BY DEF WorkerInv, WorkerTyped, Stored
  <2>2. disk' = [disk EXCEPT ![w] = d]
    BY DEF Claim
  <2> HIDE DEF energy
  <2>3. d \in Stored /\ d.pending = disk[w].pending /\ d.completed = disk[w].completed
    BY <2>1 DEF Stored
  <2> HIDE DEF d, Stored
  <2>4. disk' \in [Worker -> Stored] /\ disk'[w] = d
        /\ \A v \in Worker : v # w => disk'[v] = disk[v]
    BY <2>1, <2>2, <2>3
  <2> QED BY <2>3, <2>4 DEF FileKept
<1>8. WorldWith(new) /\ MarksStill /\ Landing
  BY <1>2, <1>3, <1>7, BudgetStill
     DEF Claim, WorldWith, MarksStill, WorkerInv, WorkerTyped, BudgetIdle, budget,
         NoEvidence, evidence, EvidenceKept, Landing
<1>9. tasks[t].token \in Nat /\ \A g \in leases : g.task = t => g.token <= tasks[t].token
  BY <1>2 DEF TasksTold, TaskRow, Granting
<1>10. Granting'
  <2>1. \A g \in leases : g.token \in 1 .. tasks'[g.task].token
    <3>1. \A g \in leases : g.task \in Task /\ g.token \in 1 .. tasks[g.task].token
      BY <1>2 DEF TasksTold, L!Lease, Granting
    <3>2. \A u \in Task : /\ tasks[u].token \in Nat /\ tasks'[u].token \in Nat
                          /\ tasks'[u].token >= tasks[u].token
      BY <1>2, <1>3 DEF LedgerMoves, TasksTold, TaskRow
    <3> QED BY <3>1, <3>2
  <2>2. l.token \in 1 .. tasks'[l.task].token
    BY <1>3, <1>9
  <2>3. \A g \in leases : ~SameClaim(g, l) /\ ~SameClaim(l, g)
    BY <1>3, <1>9 DEF SameClaim
  <2> QED BY <1>2, <1>3, <2>1, <2>2, <2>3 DEF Granting
<1>11. InHand(w)'
  <2>1. \A g \in leases' : SameClaim(g, l) => g = l
    BY <1>3, <1>9 DEF SameClaim
  <2>2. \A g \in leases' : L!Holds(g)' => (g \in leases /\ L!Holds(g)) \/ g = l
    BY <1>0, <1>2, <1>3 DEF LedgerMoves, TasksTold
  <2>3. starts[w] <= 1 => \A g \in leases' : g.worker = w /\ L!Holds(g)' => g = l
    BY <1>2, <2>2 DEF InHand
  <2>4. l # NoLease /\ SameClaim(l, l)
    BY <1>3, WorkerAssumption DEF SameClaim
  <2> QED BY <1>2, <1>3, <1>4, <1>6, <2>1, <2>3, <2>4 DEF InHand, Newest
<1>12. Control(w)'
  <2>1. disk[w].pending = NoPending
    BY <1>2 DEF Control
  <2> QED BY <1>2, <1>3, <1>4, <1>6, <1>7, <2>1, WorkerAssumption
          DEF Control, Outside, Chain, Handing, Finalizing, Ended, FileKept
<1>13. CostKept(w) /\ Marked(w)' /\ Answering(w)' /\ Finalized(w)'
  BY <1>2, <1>4, <1>6, <1>8, LandingCosts
     DEF CostKept, Marked, Answering, Finalized, Finalizing, WorkerInv, CostsTrue
<1>14. new \in SUBSET L!Lease /\ \A g \in new : g.worker = w
  BY <1>0, <1>3
<1> QED BY <1>6, <1>8, <1>10, <1>11, <1>12, <1>13, <1>14, HandKeeps DEF Settled

\* The renewed lease is the newest, in the hand of the process or on its way there.
LEMMA RenewedHand ==
  ASSUME WorkerInv, NEW w \in Worker, mem[w].lease # NoLease, mem[w].fresh = NoLease,
         NEW ttl \in TTL, L!Renew(mem[w].lease, ttl),
         NEW k \in L!Lease, Renewed(k, mem[w].lease, clock + ttl), NEW new, new = {k},
         mem'[w].task = mem[w].task, starts' = starts, mem[w].pc # "dead",
         \/ mem'[w].lease = mem[w].lease /\ mem'[w].fresh = k
         \/ mem'[w].lease = k /\ mem'[w].fresh = NoLease
  PROVE  /\ LedgerMoves(new) /\ MarksKept /\ Granting' /\ InHand(w)'
         /\ k # NoLease /\ k.task = mem[w].task /\ k.worker = w
         /\ k.token = mem[w].lease.token
<1>0. PICK l : l = mem[w].lease
  OBVIOUS
<1>1. /\ l \in leases /\ l \in L!Lease /\ l.worker = w /\ l.task = mem[w].task
      /\ TasksTold /\ Granting /\ InHand(w)
      /\ L!Renew(l, ttl) /\ Renewed(k, l, clock + ttl)
  BY <1>0 DEF WorkerInv, WorkerTyped, TasksTold, LeasesTrue, InHand
<1>2. /\ LedgerMoves(new) /\ MarksKept /\ k \in L!Lease /\ leases' = leases \cup {k}
      /\ k.task = l.task /\ k.worker = l.worker /\ k.token = l.token
      /\ \A g \in L!Lease : L!Holds(g)' /\ g.task = l.task => g = k
  BY <1>1, RenewMoves DEF Renewed
<1>3. Granting'
  <2>1. \A g \in leases' : g.token \in 1 .. tasks'[g.task].token
    <3>1. \A g \in leases : g.task \in Task /\ g.token \in 1 .. tasks[g.task].token
      BY <1>1 DEF TasksTold, L!Lease, Granting
    <3>2. \A u \in Task : /\ tasks[u].token \in Nat /\ tasks'[u].token \in Nat
                          /\ tasks'[u].token >= tasks[u].token
      BY <1>1, <1>2 DEF LedgerMoves, TasksTold, TaskRow
    <3>3. \A g \in leases : g.token \in 1 .. tasks'[g.task].token
      BY <3>1, <3>2
    <3> QED BY <1>1, <1>2, <3>3
  <2>2. \A g \in leases : SameClaim(g, k) \/ SameClaim(k, g) => g.worker = k.worker
    BY <1>1, <1>2 DEF SameClaim, Granting
  <2> QED BY <1>1, <1>2, <2>1, <2>2 DEF Granting
<1>4. k # NoLease
  BY <1>2, WorkerAssumption
<1>5. \A g \in leases' : SameClaim(g, l) /\ L!Holds(g)' => g = k
  BY <1>2 DEF SameClaim, LedgerMoves, TasksTold
<1>6. starts[w] <= 1 =>
          \A g \in leases' : g.worker = w /\ L!Holds(g)' => SameClaim(g, l)
  <2>1. \A g \in leases' : L!Holds(g)' => (g \in leases /\ L!Holds(g)) \/ g = k
    BY <1>2 DEF LedgerMoves, TasksTold
  <2> QED BY <1>0, <1>1, <1>2, <2>1 DEF InHand, SameClaim
<1>7. InHand(w)'
  <2>1. CASE mem'[w].lease = l /\ mem'[w].fresh = k
    BY <1>0, <1>1, <1>2, <1>4, <1>5, <1>6, <2>1 DEF InHand, Newest, SameClaim
  <2>2. CASE mem'[w].lease = k /\ mem'[w].fresh = NoLease
    <3>1. \A g : SameClaim(g, l) <=> SameClaim(g, k)
      BY <1>2 DEF SameClaim
    <3> QED BY <1>1, <1>2, <1>4, <1>5, <1>6, <2>2, <3>1 DEF InHand, Newest
  <2> QED BY <1>0, <2>1, <2>2
<1> QED BY <1>0, <1>1, <1>2, <1>3, <1>4, <1>7

\* The renewed lease is in the hand of the keeper before the process sees it: fresh.
LEMMA KeeperRenewKeeps ==
  ASSUME WorkerInv, NEW w \in Worker, KeeperRenew(w)
  PROVE  WorkerInv'
<1>1. /\ mem[w] \in Process /\ Control(w) /\ UNCHANGED <<starts, disk>> /\ starts[w] \in Nat
      /\ mem[w].fresh = NoLease /\ mem[w].keeper = "running" /\ mem[w].lease # NoLease
      /\ mem[w].pc # "dead" /\ TasksTold /\ CostsTold
  BY DEF WorkerInv, WorkerTyped, Controlled, Control, KeeperRenew, Outside
<1>2. ASSUME NEW ttl \in TTL, L!Renew(mem[w].lease, ttl),
             mem' = [mem EXCEPT ![w].fresh = [mem[w].lease EXCEPT !.expires = clock + ttl]]
      PROVE  WorkerInv'
  <2>0. PICK k, new : k = [mem[w].lease EXCEPT !.expires = clock + ttl] /\ new = {k}
    OBVIOUS
  <2> DEFINE m == [mem[w] EXCEPT !.fresh = k]
  <2>2. mem' = [mem EXCEPT ![w] = m]
    BY <1>2, <2>0
  <2>3. k \in L!Lease /\ Renewed(k, mem[w].lease, clock + ttl)
    <3>1. mem[w].lease \in L!Lease /\ clock + ttl \in Nat
      BY <1>1, WorkerAssumption DEF Process, TasksTold
    <3> QED BY <2>0, <3>1 DEF L!Lease, Renewed
  <2>4. /\ m \in Process /\ m.pc = mem[w].pc /\ m.lease = mem[w].lease /\ m.fresh = k
        /\ m.task = mem[w].task /\ m.active = mem[w].active /\ m.outcome = mem[w].outcome
        /\ m.keeper = mem[w].keeper /\ m.candidate = mem[w].candidate
        /\ m.answer = mem[w].answer
    BY <1>1, <2>3 DEF Process
  <2> HIDE DEF m
  <2>5. Others(w) /\ mem'[w] = m
    BY <1>1, <2>2, <2>4, MemoryMoves
  <2>6. /\ LedgerMoves(new) /\ MarksKept /\ Granting' /\ InHand(w)'
        /\ k # NoLease /\ k.task = mem[w].task /\ k.worker = w
        /\ k.token = mem[w].lease.token
    <3>1. /\ mem'[w].task = mem[w].task /\ starts' = starts /\ mem[w].pc # "dead"
          /\ mem'[w].lease = mem[w].lease /\ mem'[w].fresh = k /\ new = {k}
      BY <1>1, <2>0, <2>4, <2>5
    <3>2. mem[w].lease # NoLease /\ mem[w].fresh = NoLease
      BY <1>1
    <3>3. L!Renew(mem[w].lease, ttl)
      BY <1>2
    <3> QED BY <2>3, <3>1, <3>2, <3>3, RenewedHand
  <2>7. WorldWith(new) /\ MarksStill /\ Landing
    BY <1>1, <2>6, BudgetStill, FilesStill
       DEF KeeperRenew, WorldWith, MarksStill, WorkerInv, WorkerTyped, BudgetIdle, budget,
           NoEvidence, evidence, EvidenceKept, Landing
  <2>8. Control(w)'
    BY <1>1, <2>4, <2>5 DEF Control, RequestOf, Ended, Finalizing, Handing, Chain
  <2>9. CostKept(w)
    BY <2>4, <2>5, <2>7, LandingCosts DEF CostKept, WorkerInv, CostsTrue
  <2>10. Marked(w)' /\ Answering(w)'
    <3>1. RequestOf(w)' = RequestOf(w)
      BY <2>4, <2>5 DEF RequestOf
    <3> QED BY <1>1, <2>4, <2>5, <2>7, <3>1
            DEF Marked, Answering, MarksStill, MarksKept, WorkerInv, SendsTrue, EffectKnown,
                Control, Chain
  <2>11. Finalized(w)'
    BY <1>1, <2>4, <2>5 DEF Finalized, Control, Finalizing
  <2>12. new \in SUBSET L!Lease /\ \A g \in new : g.worker = w
    BY <2>0, <2>3, <2>6
  <2> QED BY <2>5, <2>6, <2>7, <2>8, <2>9, <2>10, <2>11, <2>12, HandKeeps DEF Settled
<1>3. CASE LedgerIdle /\ mem' = [mem EXCEPT ![w].keeper = "failed"]
  <2> DEFINE m == [mem[w] EXCEPT !.keeper = "failed"]
  <2>1. mem' = [mem EXCEPT ![w] = m] /\ LedgerIdle
    BY <1>3
  <2>2. World
    BY <2>1, WorldStill, LedgerStill DEF KeeperRenew
  <2>3. /\ m \in Process /\ m.pc = mem[w].pc /\ m.lease = mem[w].lease
        /\ m.fresh = mem[w].fresh /\ m.keeper = "failed"
        /\ m.task = mem[w].task /\ m.active = mem[w].active /\ m.outcome = mem[w].outcome
        /\ m.candidate = mem[w].candidate /\ m.answer = mem[w].answer
    BY <1>1 DEF Process
  <2> HIDE DEF m
  <2>4. Others(w) /\ mem'[w] = m
    BY <1>1, <2>1, <2>3, MemoryMoves
  <2>5. LeaseKept(w)
    BY <1>1, <2>3, <2>4 DEF LeaseKept
  <2>6. Control(w)'
    BY <1>1, <2>3, <2>4 DEF Control, RequestOf, Ended, Finalizing, Handing, Chain
  <2>7. CostKept(w)
    BY <2>2, <2>3, <2>4, LandingCosts DEF CostKept, WorkerInv, CostsTrue, World
  <2>8. Marked(w)' /\ Answering(w)'
    BY <1>1, <2>2, <2>3, <2>4, SMTT(30)
       DEF Marked, Answering, RequestOf, World, MarksStill, MarksKept, WorkerInv, SendsTrue,
           EffectKnown, Control, Chain
  <2>9. Finalized(w)'
    BY <1>1, <2>3, <2>4 DEF Finalized, Control, Finalizing
  <2> QED BY <2>2, <2>4, <2>5, <2>6, <2>7, <2>8, <2>9, MoverKeeps DEF Mover, Settled
<1> QED BY <1>2, <1>3 DEF KeeperRenew

\* The process takes over the lease the keeper renewed: it was the good one already.
LEMMA KeeperAssignKeeps ==
  ASSUME WorkerInv, NEW w \in Worker, KeeperAssign(w)
  PROVE  WorkerInv'
<1> DEFINE k == mem[w].fresh
           m == [mem[w] EXCEPT !.lease = k, !.fresh = NoLease]
<1>1. World /\ UNCHANGED <<starts, disk>>
  BY MemoryOnlyWorld DEF KeeperAssign, MemoryOnly
<1>2. /\ mem[w] \in Process /\ Control(w) /\ starts[w] \in Nat /\ InHand(w)
      /\ k # NoLease /\ mem[w].lease # NoLease /\ mem[w].keeper # "none" /\ k \in leases
      /\ k.worker = w /\ SameClaim(k, mem[w].lease) /\ mem[w].lease.task = mem[w].task
      /\ Granting
  BY DEF WorkerInv, WorkerTyped, Controlled, Control, KeeperAssign, LeasesTrue, InHand
<1>3. mem' = [mem EXCEPT ![w] = m]
  BY DEF KeeperAssign
<1>4. /\ m \in Process /\ m.pc = mem[w].pc /\ m.lease = k
      /\ m.fresh = NoLease /\ m.keeper = mem[w].keeper
      /\ m.task = mem[w].task /\ m.active = mem[w].active /\ m.outcome = mem[w].outcome
      /\ m.candidate = mem[w].candidate /\ m.answer = mem[w].answer
  BY <1>2 DEF Process
<1> HIDE DEF m
<1>5. Others(w) /\ mem'[w] = m
  BY <1>1, <1>3, <1>4, MemoryMoves
<1>6. Granting'
  BY <1>1, GrantingKept DEF World, WorldWith, WorkerInv, WorkerTyped, LeasesTrue
<1>7. InHand(w)'
  <2>1. leases' = leases /\ \A g \in leases : L!Holds(g)' => L!Holds(g)
    BY <1>1 DEF World, WorldWith, LedgerMoves, WorkerInv, WorkerTyped, TasksTold
  <2>2. \A g : SameClaim(g, k) <=> SameClaim(g, mem[w].lease)
    BY <1>2 DEF SameClaim
  <2>3. k.task = mem[w].task
    BY <1>2 DEF SameClaim
  <2>4. \A g \in leases : SameClaim(g, k) /\ L!Holds(g)' => g = k
    BY <1>2, <2>1, <2>2 DEF InHand, Newest
  <2>5. starts[w] <= 1 /\ mem[w].pc # "dead" =>
            \A g \in leases : g.worker = w /\ L!Holds(g)' => SameClaim(g, k)
    BY <1>2, <2>1, <2>2 DEF InHand
  <2> HIDE DEF k
  <2> QED BY <1>1, <1>2, <1>4, <1>5, <2>1, <2>3, <2>4, <2>5 DEF InHand, Newest
<1>8. RequestOf(w)' = RequestOf(w)
  BY <1>2, <1>4, <1>5 DEF RequestOf, SameClaim
<1>9. Control(w)'
  BY <1>1, <1>2, <1>4, <1>5, <1>8 DEF Control, Ended, Finalizing, Handing, Chain
<1>10. CostKept(w)
  BY <1>1, <1>4, <1>5, LandingCosts DEF CostKept, WorkerInv, CostsTrue, World
<1>11. Marked(w)' /\ Answering(w)'
  BY <1>1, <1>2, <1>4, <1>5, <1>8
     DEF Marked, Answering, World, MarksStill, MarksKept, WorkerInv, SendsTrue,
         EffectKnown, Control, Chain
<1>12. Finalized(w)'
  BY <1>2, <1>4, <1>5 DEF Finalized, Control, Finalizing
<1>13. {} \in SUBSET L!Lease
  OBVIOUS
<1> QED BY <1>1, <1>5, <1>6, <1>7, <1>9, <1>10, <1>11, <1>12, <1>13, HandKeeps
        DEF World, Settled

-----------------------------------------------------------------------------
(* One attempt: the chain of candidates *)

\* A process that works holds a lease the ledger granted it, for the task it works on.
LEMMA LeaseInHand ==
  ASSUME WorkerInv, NEW w \in Worker, mem[w].pc \in Chain \cup Handing \cup Ended
  PROVE  /\ mem[w].lease # NoLease /\ mem[w].lease \in L!Lease /\ mem[w].lease \in leases
         /\ mem[w].lease.worker = w /\ mem[w].lease.task = mem[w].task
         /\ mem[w].task \in Task
<1>1. mem[w].lease # NoLease /\ mem[w].lease \in leases /\ leases \subseteq L!Lease
      /\ mem[w].lease.worker = w /\ mem[w].lease.task = mem[w].task
  BY DEF WorkerInv, Controlled, Control, LeasesTrue, InHand, WorkerTyped, TasksTold
<1> QED BY <1>1 DEF L!Lease

LEMMA IdentitiesTyped ==
  ASSUME WorkerInv, NEW w \in Worker, mem[w].pc \in Chain \cup Handing
  PROVE  /\ RequestOf(w) \in Request /\ RequestOf(w) # NoRequest /\ ResultOf(w) \in Result
<1>1. mem[w].lease.token \in 1 .. tasks[mem[w].task].token /\ mem[w].task \in Task
  BY LeaseInHand DEF WorkerInv, LeasesTrue, Granting
<1>2. tasks[mem[w].task].token <= MaxAttemptsPerTask /\ tasks[mem[w].task].token \in Nat
  BY <1>1 DEF WorkerInv, WorkerTyped, TasksTold, TaskRow
<1>3. mem[w].lease.token \in 1 .. MaxAttemptsPerTask
  BY <1>1, <1>2, WorkerAssumption
<1>4. mem[w].candidate \in Candidate
  <2>1. mem[w].candidate \in 0 .. LastCandidate[w]
    BY WorkerAssumption DEF WorkerInv, WorkerTyped, Process, Controlled, Control
  <2> QED BY <2>1 DEF Candidate
<1> QED BY <1>1, <1>3, <1>4, WorkerAssumption DEF RequestOf, ResultOf, Request, Result

LEMMA RaiseKeeps ==
  ASSUME WorkerInv, NEW w \in Worker, mem[w].pc \in Chain, Raise(w)
  PROVE  WorkerInv'
<1>1. World /\ UNCHANGED starts /\ End(w, "failed")
  BY MemoryOnlyWorld DEF Raise
<1> QED BY <1>1, LeaseInHand, EndKeeps

\* Where an attempt may be after a candidate has been skipped or answered.
After(w) ==
    /\ mem'[w].lease = mem[w].lease /\ mem'[w].fresh = mem[w].fresh
    /\ mem'[w].task = mem[w].task /\ mem'[w].keeper = mem[w].keeper
    /\ mem'[w].active = NoRequest /\ mem[w].active = NoRequest
    /\ mem'[w].candidate <= LastCandidate[w]
    /\ mem'[w].pc \in {"guard", "publish", "reject", "unwind"}
    /\ mem'[w].outcome \in {"none", "sleeping", "failed"}
    /\ mem'[w].outcome = "none" \/ mem'[w].pc = "unwind"

\* A process that leaves a candidate behind holds what its next point needs.
LEMMA AfterMoves ==
  ASSUME WorkerInv, NEW new, WorldWith(new), Landing, NEW w \in Worker, mem[w].pc \in Chain,
         Others(w), UNCHANGED starts, After(w)
  PROVE  LeaseKept(w) /\ Settled(w) /\ Marked(w)' /\ Answering(w)'
<1>1. Control(w) /\ starts[w] \in Nat /\ mem[w].lease # NoLease /\ disk'[w].pending = NoPending
      /\ mem[w].task \in Task
  BY DEF WorkerInv, WorkerTyped, Controlled, Control, WorldWith, FileKept
<1>2. LeaseKept(w)
  BY <1>1 DEF LeaseKept, After, Chain
<1>3. Control(w)'
  BY <1>1 DEF Control, After, Outside, Chain, Handing, Finalizing, Ended
<1>4. CostKept(w)
  BY LandingCosts DEF CostKept, After, WorkerInv, CostsTrue, Chain
<1>5. Marked(w)' /\ Answering(w)' /\ Finalized(w)'
  BY DEF Marked, Answering, Finalized, After, Finalizing
<1> QED BY <1>2, <1>3, <1>4, <1>5 DEF Settled

LEMMA AfterKeeps ==
  ASSUME WorkerInv, World, UNCHANGED starts, NEW w \in Worker, mem[w].pc \in Chain,
         Others(w), After(w)
  PROVE  WorkerInv'
BY AfterMoves, MoverKeeps DEF World, Mover

LEMMA EndAfter ==
  ASSUME WorkerInv, NEW w \in Worker, mem[w].active = NoRequest,
         NEW outcome \in {"none", "sleeping", "failed"}, End(w, outcome), UNCHANGED starts
  PROVE  Others(w) /\ After(w)
<1>1. Others(w) /\ mem'[w] = [mem[w] EXCEPT !.pc = "unwind", !.outcome = outcome,
                                            !.answer = NoRequest, !.stopped = FALSE,
                                            !.candidate = 0]
  <2>1. outcome \in Ending
    BY DEF Ending
  <2> QED BY <2>1, EndMoves
<1>2. mem[w] \in Process /\ LastCandidate[w] \in Nat
  BY WorkerAssumption DEF WorkerInv, WorkerTyped
<1> QED BY <1>1, <1>2 DEF After, Process

LEMMA LeaveAfter ==
  ASSUME WorkerInv, NEW w \in Worker, mem[w].active = NoRequest, mem[w].outcome = "none",
         NEW label \in {"publish", "reject"}, Leave(w, label), UNCHANGED starts
  PROVE  Others(w) /\ After(w)
<1>1. Others(w) /\ mem'[w] = [mem[w] EXCEPT !.pc = label, !.answer = NoRequest,
                                            !.stopped = FALSE, !.candidate = 0]
  <2>1. label \in Label
    BY DEF Label
  <2> QED BY <2>1, LeaveMoves
<1>2. mem[w] \in Process /\ LastCandidate[w] \in Nat
  BY WorkerAssumption DEF WorkerInv, WorkerTyped
<1> QED BY <1>1, <1>2 DEF After, Process

\* The next candidate of the chain.
LEMMA SwitchAfter ==
  ASSUME WorkerInv, NEW w \in Worker, mem[w].active = NoRequest, mem[w].outcome = "none",
         mem[w].candidate < LastCandidate[w],
         mem' = [mem EXCEPT ![w].pc = "guard", ![w].candidate = @ + 1], UNCHANGED starts
  PROVE  Others(w) /\ After(w)
<1> DEFINE m == [mem[w] EXCEPT !.pc = "guard", !.candidate = mem[w].candidate + 1]
<1>1. mem[w] \in Process /\ LastCandidate[w] \in Nat /\ mem[w].candidate + 1 \in Nat
      /\ mem[w].candidate \in Nat
  BY WorkerAssumption DEF WorkerInv, WorkerTyped, Process
<1>2. mem' = [mem EXCEPT ![w] = m]
  OBVIOUS
<1>3. /\ m \in Process /\ m.pc = "guard" /\ m.lease = mem[w].lease
      /\ m.fresh = mem[w].fresh /\ m.keeper = mem[w].keeper
      /\ m.task = mem[w].task /\ m.active = mem[w].active /\ m.outcome = mem[w].outcome
      /\ m.candidate = mem[w].candidate + 1
  BY <1>1, ZenonT(60) DEF Process, Label
<1> HIDE DEF m
<1>4. Others(w) /\ mem'[w] = m
  BY <1>2, <1>3, MemoryMoves
<1> QED BY <1>1, <1>3, <1>4 DEF After

LEMMA AtRest ==
  ASSUME WorkerInv, NEW w \in Worker, mem[w].pc \in {"guard", "confirm", "publish"}
  PROVE  mem[w].active = NoRequest /\ mem[w].outcome = "none" /\ mem[w].pc \in Chain
BY DEF WorkerInv, Controlled, Control, Chain, Ended

LEMMA GuardSkipKeeps ==
  ASSUME WorkerInv, NEW w \in Worker, GuardSkip(w)
  PROVE  WorkerInv'
<1>1. World /\ UNCHANGED starts /\ mem[w].pc = "guard"
  BY MemoryOnlyWorld DEF GuardSkip, At
<1>2. CASE mem[w].candidate < LastCandidate[w]
  <2>1. mem' = [mem EXCEPT ![w].pc = "guard", ![w].candidate = @ + 1]
    <3> DEFINE n == mem[w].candidate + 1
    <3>1. mem' = [mem EXCEPT ![w] = [mem[w] EXCEPT !.candidate = n]]
      BY <1>2 DEF GuardSkip
    <3>2. [mem[w] EXCEPT !.candidate = n] = [mem[w] EXCEPT !.pc = "guard", !.candidate = n]
      <4>1. mem[w] \in Process
        BY DEF WorkerInv, WorkerTyped
      <4> HIDE DEF n
      <4> QED BY <1>1, <4>1 DEF Process
    <3> QED BY <3>1, <3>2
  <2> QED BY <1>1, <1>2, <2>1, AtRest, SwitchAfter, AfterKeeps
<1>3. CASE ~(mem[w].candidate < LastCandidate[w])
  <2>1. PICK outcome \in {"none", "sleeping", "failed"} : End(w, outcome)
    BY <1>3 DEF GuardSkip
  <2> QED BY <1>1, <2>1, AtRest, EndAfter, AfterKeeps
<1> QED BY <1>2, <1>3

LEMMA ReserveKeeps ==
  ASSUME WorkerInv, NEW w \in Worker, Reserve(w)
  PROVE  WorkerInv'
<1>1. PICK b \in Bounds :
          IF B!Reservable(w, mem[w].task, RequestOf(w), b, clock)
          THEN /\ B!Reserve(w, mem[w].task, RequestOf(w), b, clock)
               /\ mem' = [mem EXCEPT ![w].pc = "begin", ![w].active = RequestOf(w)]
          ELSE BudgetIdle /\ End(w, "sleeping")
  BY DEF Reserve
<1>2. /\ mem[w].pc = "guard" /\ LedgerIdle /\ NoEvidence /\ UNCHANGED <<disk, starts>>
  BY DEF Reserve, At
<1>3. CASE B!Reservable(w, mem[w].task, RequestOf(w), b, clock)
  <2>0. PICK q : q = RequestOf(w)
    OBVIOUS
  <2>1. /\ B!Reserve(w, mem[w].task, q, b, clock)
        /\ mem' = [mem EXCEPT ![w].pc = "begin", ![w].active = q]
    BY <1>1, <1>3, <2>0
  <2> DEFINE m == [mem[w] EXCEPT !.pc = "begin", !.active = q]
  <2>2. /\ mem[w] \in Process /\ Control(w) /\ mem[w].active = NoRequest /\ q \in Request
        /\ mem[w].outcome = "none" /\ mem[w].lease # NoLease /\ CostsTold /\ starts[w] \in Nat
        /\ mem[w].pc \in Chain /\ disk[w].pending = NoPending
    BY <1>2, <2>0, AtRest, LeaseInHand, IdentitiesTyped
       DEF WorkerInv, WorkerTyped, Controlled, Control
  <2>3. /\ m \in Process /\ m.pc = "begin" /\ m.lease = mem[w].lease
        /\ m.fresh = mem[w].fresh /\ m.keeper = mem[w].keeper
        /\ m.task = mem[w].task /\ m.active = q /\ m.outcome = "none"
        /\ m.candidate = mem[w].candidate
    BY <2>2, ZenonT(60) DEF Process, Label
  <2>4. mem' = [mem EXCEPT ![w] = m]
    BY <2>1
  <2> HIDE DEF m
  <2>5. Others(w) /\ mem'[w] = m
    BY <1>2, <2>3, <2>4, MemoryMoves
  <2>6. /\ CostsTold' /\ PendingOf(w)' \subseteq PendingOf(w) \cup {q}
        /\ \A v : v # w => PendingOf(v)' \subseteq PendingOf(v)
    BY <2>1, <2>2, ReserveOpens
  <2>7. WorldWith({}) /\ MarksStill
    BY <1>2, <2>6, LedgerStill, FilesStill
       DEF WorldWith, MarksStill, LedgerQuiet, NoEvidence, evidence, EvidenceKept, WorkerInv,
           WorkerTyped
  <2>8. RequestOf(w)' = q
    BY <2>0, <2>3, <2>5 DEF RequestOf
  <2>9. LeaseKept(w) /\ Marked(w)' /\ Answering(w)' /\ Finalized(w)'
    BY <1>2, <2>2, <2>3, <2>5
       DEF LeaseKept, Marked, Answering, Finalized, Finalizing
  <2>10. Control(w)'
    BY <1>2, <2>2, <2>3, <2>5, <2>8, WorkerAssumption
       DEF Control, Outside, Chain, Handing, Finalizing, Ended
  <2>11. CostKept(w)
    <3>1. PendingOf(w) \subseteq {NoRequest} /\ PendingOf(w) \subseteq Request
      BY <1>2, <2>2 DEF WorkerInv, CostsTrue, PendingOf
    <3>2. PendingOf(w) = {}
      BY <3>1, WorkerAssumption
    <3> QED BY <2>3, <2>5, <2>6, <3>2 DEF CostKept
  <2>12. \A v \in Worker : LeaseKept(v) /\ Settled(v) /\ Marked(v)' /\ Answering(v)'
    <3>1. ASSUME NEW v \in Worker, v # w
          PROVE  LeaseKept(v) /\ Settled(v) /\ Marked(v)' /\ Answering(v)'
      <4>1. Still(v) /\ PendingOf(v)' \subseteq PendingOf(v) /\ FileKept(v)
        BY <2>5, <2>6, <2>7, <3>1 DEF Others, WorldWith
      <4> QED BY <2>7, <4>1, StillHolds, StillMarks
    <3> QED BY <2>9, <2>10, <2>11, <3>1 DEF Settled
  <2>13. LeasesTrue' /\ SendsTrue'
    BY <2>5, <2>7, <2>12, LeasesKept, MarksStillSends DEF WorldWith, Others
  <2> QED BY <2>5, <2>7, <2>12, <2>13, WorldKeeps DEF Others
<1>4. CASE ~B!Reservable(w, mem[w].task, RequestOf(w), b, clock)
  <2>1. World /\ End(w, "sleeping")
    BY <1>1, <1>2, <1>4, WorldStill, LedgerStill
  <2> QED BY <1>2, <2>1, AtRest, EndAfter, AfterKeeps
<1> QED BY <1>3, <1>4

\* A step of the marks: the other layers, given how the process itself moves.
LEMMA MarkStep ==
  ASSUME WorkerInv, WorldWith({}), Landing, NEW w \in Worker, Others(w), UNCHANGED starts,
         LeaseKept(w), Settled(w), SendsTrue'
  PROVE  WorkerInv'
<1>1. \A v \in Worker : LeaseKept(v) /\ Settled(v)
  <2> SUFFICES ASSUME NEW v \in Worker, v # w
               PROVE  LeaseKept(v) /\ Settled(v)
    OBVIOUS
  <2>1. Still(v) /\ PendingOf(v)' \subseteq PendingOf(v)
    BY LandingCosts DEF Others
  <2> QED BY <2>1, StillHolds
<1>2. LeasesTrue'
  BY <1>1, LeasesKept DEF WorldWith, Others
<1> QED BY <1>1, <1>2, WorldKeeps DEF Others

\* The process goes one step on along a request.
LEMMA AlongRequest ==
  ASSUME WorkerInv, WorldWith({}), Landing, NEW w \in Worker, NEW label \in {"send", "wait"},
         mem[w].pc \in {"begin", "send"}, Goto(w, label), UNCHANGED <<starts, disk>>
  PROVE  /\ Others(w) /\ LeaseKept(w) /\ Settled(w)
         /\ RequestOf(w)' = RequestOf(w) /\ mem'[w].pc = label
         /\ mem'[w].task = mem[w].task
<1>1. Others(w) /\ mem'[w] = [mem[w] EXCEPT !.pc = label]
  <2>1. label \in Label
    BY DEF Label
  <2> QED BY <2>1, GotoMoves
<1>2. /\ mem[w] \in Process /\ Control(w) /\ starts[w] \in Nat /\ mem[w].lease # NoLease
      /\ mem[w].task \in Task /\ mem[w].outcome = "none" /\ disk[w].pending = NoPending
      /\ mem[w].active = RequestOf(w)
  BY DEF WorkerInv, WorkerTyped, Controlled, Control, Chain, Ended
<1>3. /\ mem'[w].pc = label /\ mem'[w].lease = mem[w].lease
      /\ mem'[w].fresh = mem[w].fresh /\ mem'[w].keeper = mem[w].keeper
      /\ mem'[w].task = mem[w].task /\ mem'[w].active = mem[w].active
      /\ mem'[w].outcome = mem[w].outcome /\ mem'[w].candidate = mem[w].candidate
  BY <1>1, <1>2 DEF Process
<1>4. RequestOf(w)' = RequestOf(w)
  BY <1>3 DEF RequestOf
<1>5. LeaseKept(w)
  BY <1>2, <1>3 DEF LeaseKept
<1>6. Control(w)'
  BY <1>2, <1>3, <1>4 DEF Control, Outside, Chain, Handing, Finalizing, Ended
<1>7. CostKept(w) /\ Finalized(w)'
  BY <1>3, LandingCosts DEF CostKept, WorkerInv, CostsTrue, Finalized, Finalizing
<1> QED BY <1>1, <1>3, <1>4, <1>5, <1>6, <1>7 DEF Settled

\* The mark is set before the request leaves ...
LEMMA BeginKeeps ==
  ASSUME WorkerInv, NEW w \in Worker, Begin(w)
  PROVE  WorkerInv'
<1>0. PICK l, q : l = mem[w].lease /\ q = RequestOf(w)
  OBVIOUS
<1>1. /\ mem[w].pc = "begin" /\ Goto(w, "send") /\ L!BeginExecution(l, q)
      /\ BudgetIdle /\ NoEvidence /\ UNCHANGED <<disk, starts>>
  BY <1>0 DEF Begin, At
<1>2. /\ l \in L!Lease /\ l.task = mem[w].task /\ l.task \in Task /\ q \in Request
      /\ q # NoRequest /\ TasksTold
  BY <1>0, <1>1, LeaseInHand, IdentitiesTyped DEF WorkerInv, WorkerTyped, Chain
<1>3. /\ LedgerMoves({}) /\ tasks'[l.task].unconfirmed = q
      /\ tasks[l.task].unconfirmed = NoRequest
      /\ \A u \in Task : u # l.task => tasks'[u] = tasks[u]
  <2> DEFINE n == tasks[l.task].executions + 1
  <2>1. n \in Nat /\ L!Holds(l) /\ leases' = leases /\ tasks[l.task].unconfirmed = NoRequest
    BY <1>1, <1>2 DEF L!BeginExecution, TasksTold, TaskRow
  <2>2. L!Write(l.task, [tasks[l.task] EXCEPT !.unconfirmed = q, !.executions = n])
    BY <1>1 DEF L!BeginExecution, L!Write
  <2> HIDE DEF n
  <2> QED BY <1>2, <2>1, <2>2, MarkMoves
<1>4. WorldWith({}) /\ Landing /\ resolved' = resolved /\ sent' = sent
  BY <1>1, <1>3, BudgetStill, FilesStill
     DEF WorldWith, NoEvidence, evidence, EvidenceKept, WorkerInv, WorkerTyped, BudgetIdle,
         budget, Landing
<1>5. /\ Others(w) /\ LeaseKept(w) /\ Settled(w)
      /\ RequestOf(w)' = RequestOf(w) /\ mem'[w].pc = "send" /\ mem'[w].task = mem[w].task
  BY <1>1, <1>4, AlongRequest
<1>6. SendsTrue'
  <2>1. ASSUME NEW p \in sent
        PROVE  p \in resolved \/ tasks'[p[1]].unconfirmed = p
    <3>1. p \in Request /\ p[1] \in Task /\ (p \in resolved \/ tasks[p[1]].unconfirmed = p)
      BY DEF WorkerInv, WorkerTyped, SendsTrue, Request
    <3> QED BY <1>3, <3>1, WorkerAssumption
  <2>2. Marked(w)' /\ Answering(w)'
    BY <1>0, <1>2, <1>3, <1>5 DEF Marked, Answering
  <2>3. ASSUME NEW v \in Worker, v # w
        PROVE  Marked(v)' /\ Answering(v)'
    <3>1. mem[v].pc \in {"send", "wait", "confirm"} =>
              /\ tasks[mem[v].task].unconfirmed = RequestOf(v) /\ RequestOf(v) # NoRequest
              /\ mem[v].task \in Task
      BY LeaseInHand, IdentitiesTyped DEF WorkerInv, SendsTrue, Marked, Chain
    <3>2. Unmoved(v)
      BY <1>4, <1>5, <2>3 DEF Others, Still, Unmoved, WorldWith
    <3> QED BY <1>3, <1>4, <3>1, <3>2, UnmovedMarks
  <2> QED BY <1>4, <2>1, <2>2, <2>3 DEF SendsTrue
<1> QED BY <1>1, <1>4, <1>5, <1>6, MarkStep

\* ... so a request that leaves is marked, and the one marked before it is resolved.
LEMMA SendKeeps ==
  ASSUME WorkerInv, NEW w \in Worker, Send(w)
  PROVE  WorkerInv'
<1>1. /\ mem[w].pc = "send" /\ Goto(w, "wait") /\ sent' = sent \cup {mem[w].active}
      /\ LedgerIdle /\ BudgetIdle /\ UNCHANGED <<disk, starts, resolved, evidence>>
  BY DEF Send, At
<1>2. /\ mem[w].active = RequestOf(w) /\ RequestOf(w) \in Request
      /\ tasks[mem[w].task].unconfirmed = RequestOf(w)
      /\ mem[w].task \in Task
  BY <1>1, LeaseInHand, IdentitiesTyped
     DEF WorkerInv, Controlled, Control, SendsTrue, Marked, Chain
<1>3. WorldWith({}) /\ MarksKept /\ Landing
  BY <1>1, <1>2, BudgetStill, FilesStill, LedgerStill
     DEF WorldWith, LedgerQuiet, evidence, EvidenceKept, WorkerInv, WorkerTyped, BudgetIdle,
         budget, Landing
<1>4. /\ Others(w) /\ LeaseKept(w) /\ Settled(w)
      /\ RequestOf(w)' = RequestOf(w) /\ mem'[w].pc = "wait" /\ mem'[w].task = mem[w].task
  BY <1>1, <1>3, AlongRequest
<1>5. SendsTrue'
  <2>1. ASSUME NEW p \in sent'
        PROVE  p \in resolved \/ tasks'[p[1]].unconfirmed = p
    <3>1. CASE p \in sent
      <4>1. p[1] \in Task /\ (p \in resolved \/ tasks[p[1]].unconfirmed = p)
        BY <3>1 DEF WorkerInv, WorkerTyped, SendsTrue, Request
      <4> QED BY <1>3, <4>1 DEF MarksKept
    <3>2. CASE p = RequestOf(w)
      <4>1. p[1] = mem[w].task
        BY <3>2 DEF RequestOf
      <4> QED BY <1>2, <1>3, <3>2, <4>1 DEF MarksKept
    <3> QED BY <1>1, <1>2, <3>1, <3>2
  <2>2. Marked(w)' /\ Answering(w)'
    BY <1>2, <1>3, <1>4 DEF Marked, Answering, MarksKept
  <2>3. ASSUME NEW v \in Worker, v # w
        PROVE  Marked(v)' /\ Answering(v)'
    <3>1. mem[v].pc \in {"send", "wait", "confirm"} => mem[v].task \in Task
      BY LeaseInHand DEF Chain
    <3>2. Unmoved(v)
      BY <1>3, <1>4, <2>3 DEF Others, Still, Unmoved, WorldWith
    <3> QED BY <1>1, <1>3, <3>1, <3>2, UnmovedMarks DEF MarksKept
  <2> QED BY <1>1, <2>1, <2>2, <2>3 DEF SendsTrue
<1> QED BY <1>1, <1>3, <1>4, <1>5, MarkStep

\* An answer whose effect is known resolves the request before the ledger is told.
LEMMA SettleKeeps ==
  ASSUME WorkerInv, NEW w \in Worker, Settle(w)
  PROVE  WorkerInv'
<1>1. PICK a \in Answers[Kind[mem[w].task]] :
          \E u \in (IF a.metered THEN Usages ELSE {NoUsage}) :
              /\ IF a.httpError THEN B!Settle(mem[w].active, u, TRUE, clock)
                 ELSE IF a.uncertain /\ a.class = "confirmed_rejection"
                 THEN B!MarkUnknownRejection(mem[w].active, clock)
                 ELSE B!Settle(mem[w].active, IF a.uncertain THEN NoUsage ELSE u, FALSE, clock)
              /\ Use(w, a) \/ Mismatch(w)
              /\ resolved' = IF TellsEffect(a) THEN resolved \cup {mem[w].active}
                             ELSE resolved
  BY DEF Settle
<1>2. /\ mem[w].pc = "wait" /\ LedgerIdle /\ UNCHANGED <<disk, starts, sent, evidence>>
  BY DEF Settle, At
<1>3. PICK q \in Request : q = RequestOf(w)
  BY <1>2, IdentitiesTyped DEF Chain
<1>4. /\ mem[w] \in Process /\ Control(w) /\ mem[w].active = q /\ starts[w] \in Nat
      /\ mem[w].outcome = "none" /\ mem[w].lease # NoLease /\ CostsTold
      /\ mem[w].task \in Task /\ disk[w].pending = NoPending
      /\ tasks[mem[w].task].unconfirmed = q /\ PendingOf(w) \subseteq {q}
  BY <1>2, <1>3 DEF WorkerInv, WorkerTyped, Controlled, Control, Chain, Ended, SendsTrue, Marked,
                    CostsTrue
<1>5. Landing /\ rows'[q].status # "pending"
  BY <1>1, <1>4, SettleLands, MarkLands
<1>6. World
  <2>1. resolved \subseteq resolved'
    BY <1>1
  <2> QED BY <1>2, <1>4, <1>5, <2>1, LedgerStill, FilesStill
          DEF World, WorldWith, MarksStill, LedgerQuiet, Landing, evidence, EvidenceKept,
              WorkerInv, WorkerTyped
<1>7. ASSUME mem'[w].active = NoRequest
      PROVE  CostKept(w)
  <2>1. PendingOf(w)' \subseteq PendingOf(w) /\ q \notin PendingOf(w)'
    BY <1>5, LandingCosts DEF PendingOf
  <2> QED BY <1>4, <2>1 DEF CostKept
<1>8. CASE Use(w, a)
  <2>1. PICK stopped \in BOOLEAN : stopped = (breaker' \in Grave)
    <3>1. CASE breaker' \in Grave
      <4>1. TRUE = (breaker' \in Grave)
        BY <3>1
      <4> QED BY <4>1
    <3>2. CASE breaker' \notin Grave
      <4>1. FALSE = (breaker' \in Grave)
        BY <3>2
      <4> QED BY <4>1
    <3> QED BY <3>1, <3>2
  <2> DEFINE m == [mem[w] EXCEPT !.pc = "confirm", !.active = NoRequest, !.answer = a,
                                 !.stopped = stopped]
  <2>2. mem' = [mem EXCEPT ![w] = m]
    BY <1>8, <2>1 DEF Use
  <2>3. /\ m \in Process /\ m.pc = "confirm" /\ m.lease = mem[w].lease
        /\ m.fresh = mem[w].fresh /\ m.keeper = mem[w].keeper
        /\ m.task = mem[w].task /\ m.active = NoRequest /\ m.outcome = "none"
        /\ m.candidate = mem[w].candidate /\ m.answer = a
    <3>1. a \in Answered /\ "confirm" \in Label
      BY <1>4 DEF Answered, Label
    <3> QED BY <1>4, <3>1 DEF Process
  <2> HIDE DEF m
  <2>4. Others(w) /\ mem'[w] = m
    BY <1>2, <2>2, <2>3, MemoryMoves
  <2>5. RequestOf(w)' = q
    BY <1>3, <2>3, <2>4 DEF RequestOf
  <2>6. LeaseKept(w) /\ Finalized(w)'
    BY <1>2, <1>4, <2>3, <2>4 DEF LeaseKept, Finalized, Finalizing
  <2>7. Control(w)'
    BY <1>2, <1>4, <2>3, <2>4, <2>5 DEF Control, Outside, Chain, Handing, Finalizing, Ended
  <2>8. CostKept(w)
    BY <1>7, <2>3, <2>4
  <2>9. Marked(w)'
    BY <1>4, <2>3, <2>4, <1>6, <2>5 DEF Marked, World, MarksStill, MarksKept
  <2>10. Answering(w)'
    <3>1. TellsEffect(a) => q \in resolved'
      BY <1>1, <1>4
    <3> QED BY <2>3, <2>4, <2>5, <3>1 DEF Answering, EffectKnown, TellsEffect
  <2> QED BY <2>4, <1>6, <2>6, <2>7, <2>8, <2>9, <2>10, MoverKeeps DEF Mover, Settled
<1>9. CASE Mismatch(w)
  <2> DEFINE m == [mem[w] EXCEPT !.pc = "unwind", !.outcome = "failed", !.active = NoRequest,
                                 !.answer = NoRequest, !.stopped = FALSE, !.candidate = 0]
  <2>1. mem' = [mem EXCEPT ![w] = m]
    BY <1>9 DEF Mismatch
  <2>2. /\ m \in Process /\ m.pc = "unwind" /\ m.lease = mem[w].lease
        /\ m.fresh = mem[w].fresh /\ m.keeper = mem[w].keeper
        /\ m.task = mem[w].task /\ m.active = NoRequest /\ m.outcome = "failed"
        /\ m.candidate = 0
    <3>1. NoRequest \in Answered /\ "unwind" \in Label /\ "failed" \in Ending
      BY Unanswered DEF Label, Ending
    <3> QED BY <1>4, <3>1, ZenonT(60) DEF Process
  <2> HIDE DEF m
  <2>3. Others(w) /\ mem'[w] = m
    BY <1>2, <2>1, <2>2, MemoryMoves
  <2>4. LeaseKept(w)
    BY <1>2, <1>4, <2>2, <2>3 DEF LeaseKept
  <2>5. Control(w)'
    BY <1>2, <1>4, <2>2, <2>3, WorkerAssumption
       DEF Control, Outside, Chain, Handing, Finalizing, Ended
  <2>6. Marked(w)' /\ Answering(w)' /\ Finalized(w)'
    BY <2>2, <2>3 DEF Marked, Answering, Finalized, Finalizing
  <2> QED BY <1>6, <1>7, <2>2, <2>3, <2>4, <2>5, <2>6, MoverKeeps DEF Mover, Settled
<1> QED BY <1>1, <1>8, <1>9

\* The decision after a reply takes the process away from its request.
LEMMA DecidedAfter ==
  ASSUME WorkerInv, NEW w \in Worker, mem[w].pc = "confirm", Decided(w), UNCHANGED starts
  PROVE  Others(w) /\ After(w)
<1> DEFINE a == mem[w].answer
           decision == Decision(a.class, mem[w].candidate < LastCandidate[w])
<1>1. mem[w].active = NoRequest /\ mem[w].outcome = "none"
  BY AtRest
<1>2. CASE End(w, "sleeping")
  BY <1>1, <1>2, EndAfter
<1>3. ASSUME NEW label \in {"publish", "reject"}, Leave(w, label)
      PROVE  Others(w) /\ After(w)
  BY <1>1, <1>3, LeaveAfter
<1>4. ASSUME decision = "switch", mem' = [mem EXCEPT ![w].pc = "guard", ![w].candidate = @ + 1]
      PROVE  Others(w) /\ After(w)
  <2>1. mem[w].candidate < LastCandidate[w]
    BY <1>4 DEF Decision
  <2> QED BY <1>1, <1>4, <2>1, SwitchAfter
<1> QED BY <1>2, <1>3, <1>4 DEF Decided

LEMMA ConfirmKeeps ==
  ASSUME WorkerInv, NEW w \in Worker, Confirm(w)
  PROVE  WorkerInv'
<1>1. /\ mem[w].pc = "confirm" /\ mem[w].pc \in Chain /\ mem[w].active = NoRequest
      /\ BudgetIdle /\ NoEvidence /\ UNCHANGED <<disk, starts>>
  BY AtRest DEF Confirm, At
<1>2. CASE Decided(w) /\ LedgerIdle
  <2>1. World
    BY <1>1, <1>2, WorldStill, LedgerStill
  <2> QED BY <1>1, <1>2, <2>1, DecidedAfter, AfterKeeps
<1>3. CASE LedgerIdle /\ End(w, "failed")
  <2>1. World
    BY <1>1, <1>3, WorldStill, LedgerStill
  <2> QED BY <1>1, <1>3, <2>1, EndAfter, AfterKeeps
<1>4. ASSUME EffectKnown(mem[w].answer), L!ConfirmExecution(mem[w].lease, RequestOf(w)),
             Decided(w)
      PROVE  WorkerInv'
  <2>0. PICK l, q : l = mem[w].lease /\ q = RequestOf(w)
    OBVIOUS
  <2>1. /\ l \in L!Lease /\ l.task = mem[w].task /\ l.task \in Task /\ TasksTold /\ l \in leases
        /\ l.worker = w /\ q[1] = l.task /\ q[2] = l.token
    BY <1>1, <2>0, LeaseInHand DEF WorkerInv, WorkerTyped, RequestOf
  <2>2. L!ConfirmExecution(l, q)
    BY <1>4, <2>0
  <2>3. /\ LedgerMoves({}) /\ tasks[l.task].unconfirmed = q
        /\ \A u \in Task : u # l.task => tasks'[u] = tasks[u]
    <3>1. /\ L!Holds(l) /\ leases' = leases /\ tasks[l.task].unconfirmed = q
          /\ L!Write(l.task, [tasks[l.task] EXCEPT !.unconfirmed = NoRequest])
      BY <2>2 DEF L!ConfirmExecution
    <3>2. tasks[l.task] \in TaskRow /\ tasks[l.task].executions \in Nat
      BY <2>1 DEF TasksTold, TaskRow
    <3>3. [tasks[l.task] EXCEPT !.unconfirmed = NoRequest] =
              [tasks[l.task] EXCEPT !.unconfirmed = NoRequest,
                                    !.executions = tasks[l.task].executions]
      BY <3>2 DEF TaskRow
    <3> DEFINE n == tasks[l.task].executions
    <3>4. L!Write(l.task, [tasks[l.task] EXCEPT !.unconfirmed = NoRequest, !.executions = n])
      BY <3>1, <3>3
    <3> HIDE DEF n
    <3>5. n \in Nat
      BY <3>2 DEF n
    <3> QED BY <2>1, <3>1, <3>4, <3>5, MarkMoves
  <2>4. WorldWith({}) /\ Landing /\ resolved' = resolved /\ sent' = sent
    BY <1>1, <2>3, BudgetStill, FilesStill
       DEF WorldWith, NoEvidence, evidence, EvidenceKept, WorkerInv, WorkerTyped, BudgetIdle,
           budget, Landing
  <2>5. Others(w) /\ After(w)
    BY <1>1, <1>4, DecidedAfter
  <2>6. LeaseKept(w) /\ Settled(w) /\ Marked(w)' /\ Answering(w)'
    BY <1>1, <2>4, <2>5, AfterMoves
  <2>7. SendsTrue'
    <3>1. ASSUME NEW p \in sent
          PROVE  p \in resolved \/ tasks'[p[1]].unconfirmed = p
      <4>1. p[1] \in Task /\ (p \in resolved \/ tasks[p[1]].unconfirmed = p)
        BY DEF WorkerInv, WorkerTyped, SendsTrue, Request
      <4>2. q \in resolved
        BY <1>1, <1>4, <2>0 DEF WorkerInv, SendsTrue, Answering
      <4> QED BY <2>3, <4>1, <4>2
    <3>2. ASSUME NEW v \in Worker, v # w
          PROVE  Marked(v)' /\ Answering(v)'
      <4>1. ASSUME mem[v].pc \in {"send", "wait", "confirm"}
            PROVE  mem[v].task \in Task /\ mem[v].task # l.task
        <5>1. /\ tasks[mem[v].task].unconfirmed = RequestOf(v) /\ mem[v].task \in Task
              /\ mem[v].lease \in leases /\ mem[v].lease.worker = v
              /\ mem[v].lease.task = mem[v].task
          BY <4>1, LeaseInHand DEF WorkerInv, SendsTrue, Marked, Chain
        <5>2. RequestOf(v)[2] = mem[v].lease.token
          BY DEF RequestOf
        <5>3. mem[v].task = l.task => SameClaim(mem[v].lease, l)
          BY <2>1, <2>3, <5>1, <5>2 DEF SameClaim
        <5> QED BY <2>1, <3>2, <5>1, <5>3 DEF WorkerInv, LeasesTrue, Granting
      <4>2. Unmoved(v)
        BY <2>4, <2>5, <3>2 DEF Others, Still, Unmoved, WorldWith
      <4> QED BY <2>3, <2>4, <4>1, <4>2, UnmovedMarks
    <3> QED BY <2>4, <2>6, <3>1, <3>2 DEF SendsTrue
  <2> QED BY <1>1, <2>4, <2>5, <2>6, <2>7, MarkStep
<1> QED BY <1>2, <1>3, <1>4 DEF Confirm

LEMMA RejectKeeps ==
  ASSUME WorkerInv, NEW w \in Worker, Reject(w)
  PROVE  WorkerInv'
<1>1. /\ mem[w].pc = "reject" /\ mem[w].fresh = NoLease
      /\ BudgetIdle /\ NoEvidence /\ UNCHANGED <<disk, starts>>
      /\ mem[w] \in Process /\ Control(w) /\ mem[w].active = NoRequest /\ starts[w] \in Nat
      /\ mem[w].lease # NoLease /\ disk[w].pending = NoPending /\ TasksTold
  BY DEF Reject, At, KeeperLockFree, WorkerInv, WorkerTyped, Controlled, Control, Chain
<1>2. CASE L!Holds(mem[w].lease)
  <2>0. PICK l \in L!Lease : l = mem[w].lease
    BY <1>1, LeaseInHand DEF Chain
  <2>1. LedgerQuiet
    <3>1. L!FinishAttempt(l, "failed")
      BY <1>2, <2>0 DEF Reject, L!Fail
    <3> QED BY <1>1, <3>1, FinishQuiet
  <2>2. World
    BY <1>1, <2>1, WorldStill
  <2> DEFINE m == [mem[w] EXCEPT !.pc = "unwind", !.outcome = "rejected", !.keeper = "none"]
  <2>3. mem' = [mem EXCEPT ![w] = m]
    BY <1>2 DEF Reject
  <2>4. /\ m \in Process /\ m.pc = "unwind" /\ m.lease = mem[w].lease
        /\ m.fresh = mem[w].fresh /\ m.keeper = "none"
        /\ m.task = mem[w].task /\ m.active = NoRequest /\ m.outcome = "rejected"
        /\ m.candidate = mem[w].candidate
    BY <1>1, ZenonT(60) DEF Process, Label, Ending
  <2> HIDE DEF m
  <2>5. Others(w) /\ mem'[w] = m
    BY <1>1, <2>3, <2>4, MemoryMoves
  <2>6. LeaseKept(w) /\ Marked(w)' /\ Answering(w)' /\ Finalized(w)'
    BY <1>1, <2>4, <2>5 DEF LeaseKept, Marked, Answering, Finalized, Finalizing
  <2>7. Control(w)'
    BY <1>1, <2>4, <2>5 DEF Control, Outside, Chain, Handing, Finalizing, Ended
  <2>8. CostKept(w)
    BY <1>1, <2>2, <2>4, <2>5, LandingCosts DEF CostKept, WorkerInv, CostsTrue, World
  <2> QED BY <2>2, <2>5, <2>6, <2>7, <2>8, MoverKeeps DEF Mover, Settled
<1>3. CASE ~L!Holds(mem[w].lease)
  <2>1. World /\ End(w, "failed")
    BY <1>1, <1>3, WorldStill, LedgerStill DEF Reject
  <2> QED BY <1>1, <2>1, EndKeeps
<1> QED BY <1>2, <1>3

-----------------------------------------------------------------------------
(* Publication, and the end of an attempt *)

LEMMA PublishRejectedKeeps ==
  ASSUME WorkerInv, NEW w \in Worker, PublishRejected(w)
  PROVE  WorkerInv'
<1>1. World /\ UNCHANGED starts /\ mem[w].pc = "publish" /\ Goto(w, "reject")
  BY MemoryOnlyWorld DEF PublishRejected, At
<1>2. Others(w) /\ mem'[w] = [mem[w] EXCEPT !.pc = "reject"]
  BY <1>1, GotoMoves DEF Label
<1>3. /\ mem[w] \in Process /\ mem[w].active = NoRequest /\ mem[w].outcome = "none"
      /\ mem[w].candidate <= LastCandidate[w] /\ mem[w].pc \in Chain
  BY <1>1, AtRest DEF WorkerInv, WorkerTyped, Controlled, Control
<1>4. After(w)
  BY <1>2, <1>3 DEF After, Process
<1> QED BY <1>1, <1>2, <1>3, <1>4, AfterKeeps

LEMMA HandoffKeeps ==
  ASSUME WorkerInv, NEW w \in Worker, Handoff(w)
  PROVE  WorkerInv'
<1>1. /\ mem[w].pc = "handoff" /\ mem[w].fresh = NoLease /\ TasksTold /\ CostsTold
      /\ BudgetIdle /\ NoEvidence /\ UNCHANGED <<disk, starts>>
      /\ mem[w] \in Process /\ Control(w) /\ mem[w].active = NoRequest /\ starts[w] \in Nat
      /\ mem[w].lease # NoLease /\ mem[w].outcome = "none"
  BY DEF Handoff, At, KeeperLockFree, WorkerInv, WorkerTyped, Controlled, Control, Chain, Handing,
         Ended
<1>2. ASSUME NEW ttl \in TTL, L!Renew(mem[w].lease, ttl),
             mem' = [mem EXCEPT ![w].pc = "submit", ![w].keeper = "none",
                                ![w].lease.expires = clock + ttl]
      PROVE  WorkerInv'
  <2>0. PICK k, new : k = [mem[w].lease EXCEPT !.expires = clock + ttl] /\ new = {k}
    OBVIOUS
  <2> DEFINE m == [mem[w] EXCEPT !.pc = "submit", !.keeper = "none", !.lease = k]
  <2>2. mem' = [mem EXCEPT ![w] = m]
    BY <1>1, <1>2, <2>0 DEF Process, WorkerInv, WorkerTyped
  <2>3. k \in L!Lease /\ Renewed(k, mem[w].lease, clock + ttl)
    <3>1. mem[w].lease \in L!Lease /\ clock + ttl \in Nat
      BY <1>1, WorkerAssumption DEF Process, TasksTold
    <3> QED BY <2>0, <3>1 DEF L!Lease, Renewed
  <2>4. /\ m \in Process /\ m.pc = "submit" /\ m.lease = k /\ m.fresh = NoLease
        /\ m.task = mem[w].task /\ m.active = NoRequest /\ m.outcome = "none"
        /\ m.keeper = "none" /\ m.candidate = mem[w].candidate
    BY <1>1, <2>3, ZenonT(60) DEF Process, Label
  <2> HIDE DEF m
  <2>5. Others(w) /\ mem'[w] = m
    BY <1>1, <2>2, <2>4, MemoryMoves
  <2>6. /\ LedgerMoves(new) /\ MarksKept /\ Granting' /\ InHand(w)'
        /\ k # NoLease /\ k.task = mem[w].task /\ k.worker = w
        /\ k.token = mem[w].lease.token
    <3>1. /\ mem'[w].task = mem[w].task /\ starts' = starts /\ mem[w].pc # "dead"
          /\ mem'[w].lease = k /\ mem'[w].fresh = NoLease /\ new = {k}
      BY <1>1, <2>0, <2>4, <2>5
    <3>2. mem[w].lease # NoLease /\ mem[w].fresh = NoLease
      BY <1>1
    <3>3. L!Renew(mem[w].lease, ttl)
      BY <1>2
    <3> QED BY <2>3, <3>1, <3>2, <3>3, RenewedHand
  <2>7. WorldWith(new) /\ MarksStill /\ Landing
    BY <1>1, <2>6, BudgetStill, FilesStill
       DEF WorldWith, MarksStill, WorkerInv, WorkerTyped, BudgetIdle, budget,
           NoEvidence, evidence, EvidenceKept, Landing
  <2>8. Control(w)'
    BY <1>1, <2>4, <2>5, <2>6 DEF Control, Outside, Ended, Finalizing, Handing, Chain
  <2>9. CostKept(w)
    BY <1>1, <2>4, <2>5, <2>7, LandingCosts DEF CostKept, WorkerInv, CostsTrue
  <2>10. Marked(w)' /\ Answering(w)' /\ Finalized(w)'
    BY <2>4, <2>5 DEF Marked, Answering, Finalized, Finalizing
  <2>11. new \in SUBSET L!Lease /\ \A g \in new : g.worker = w
    BY <2>0, <2>3, <2>6
  <2> QED BY <2>5, <2>6, <2>7, <2>8, <2>9, <2>10, <2>11, HandKeeps DEF Settled
<1>3. CASE LedgerIdle /\ End(w, "failed")
  <2>1. World
    BY <1>1, <1>3, WorldStill, LedgerStill
  <2> QED BY <1>1, <1>3, <2>1, EndKeeps
<1> QED BY <1>2, <1>3 DEF Handoff

\* The process goes one step on with its submission.
LEMMA HandingKeeps ==
  ASSUME WorkerInv, World, UNCHANGED starts, NEW w \in Worker,
         mem[w].pc \in {"submit", "lock", "apply"}, NEW label \in {"lock", "apply", "promote"},
         Goto(w, label)
  PROVE  WorkerInv'
<1>1. Others(w) /\ mem'[w] = [mem[w] EXCEPT !.pc = label]
  <2>1. label \in Label
    BY DEF Label
  <2> QED BY <2>1, GotoMoves
<1>2. /\ mem[w] \in Process /\ Control(w) /\ starts[w] \in Nat /\ mem[w].lease # NoLease
      /\ mem[w].task \in Task /\ mem[w].outcome = "none" /\ mem[w].active = NoRequest
      /\ mem[w].fresh = NoLease /\ mem[w].keeper = "none" /\ disk[w].pending # NoPending
      /\ disk'[w].pending = disk[w].pending
  BY DEF WorkerInv, WorkerTyped, Controlled, Control, Chain, Handing, Ended, World, WorldWith,
         FileKept
<1>3. /\ mem'[w].pc = label /\ mem'[w].lease = mem[w].lease
      /\ mem'[w].fresh = NoLease /\ mem'[w].keeper = "none"
      /\ mem'[w].task = mem[w].task /\ mem'[w].active = NoRequest
      /\ mem'[w].outcome = "none" /\ mem'[w].candidate = mem[w].candidate
  BY <1>1, <1>2 DEF Process
<1>4. LeaseKept(w) /\ Marked(w)' /\ Answering(w)' /\ Finalized(w)'
  BY <1>2, <1>3 DEF LeaseKept, Marked, Answering, Finalized, Finalizing
<1>5. Control(w)'
  BY <1>2, <1>3 DEF Control, Outside, Chain, Handing, Finalizing, Ended
<1>6. CostKept(w)
  BY <1>2, <1>3, LandingCosts DEF CostKept, WorkerInv, CostsTrue, World
<1> QED BY <1>1, <1>4, <1>5, <1>6, MoverKeeps DEF Mover, Settled

LEMMA SubmitKeeps ==
  ASSUME WorkerInv, NEW w \in Worker, Submit(w)
  PROVE  WorkerInv'
<1>1. /\ mem[w].pc = "submit" /\ TasksTold
      /\ BudgetIdle /\ NoEvidence /\ UNCHANGED <<disk, starts>>
      /\ mem[w].lease # NoLease /\ mem[w].lease \in L!Lease /\ ResultOf(w) \in Result
  BY LeaseInHand, IdentitiesTyped DEF Submit, At, WorkerInv, WorkerTyped, Handing
<1>2. CASE L!Holds(mem[w].lease)
  <2>0. PICK l \in L!Lease, r \in Result : l = mem[w].lease /\ r = ResultOf(w)
    BY <1>1
  <2>1. L!SubmitIntent(l, r) /\ Goto(w, "lock")
    BY <1>2, <2>0 DEF Submit
  <2>2. World
    BY <1>1, <2>1, IntentQuiet, WorldStill
  <2> QED BY <1>1, <2>1, <2>2, HandingKeeps
<1>3. CASE ~L!Holds(mem[w].lease)
  <2>1. World /\ End(w, "failed")
    BY <1>1, <1>3, WorldStill, LedgerStill DEF Submit
  <2> QED BY <1>1, <2>1, EndKeeps
<1> QED BY <1>2, <1>3

LEMMA LockKeeps ==
  ASSUME WorkerInv, NEW w \in Worker, Lock(w)
  PROVE  WorkerInv'
<1>1. /\ mem[w].pc = "lock" /\ TasksTold /\ UNCHANGED <<clock, tasks, leases>>
      /\ BudgetIdle /\ NoEvidence /\ UNCHANGED <<disk, starts>> /\ mem[w].lease # NoLease
  BY LeaseInHand DEF Lock, At, WorkerInv, WorkerTyped, Handing, L!PublishBegin
<1>2. World
  BY <1>1, RowsUntouched, WorldStill
<1> QED BY <1>1, <1>2, HandingKeeps, EndKeeps DEF Lock

LEMMA ApplyKeeps ==
  ASSUME WorkerInv, NEW w \in Worker, Apply(w)
  PROVE  WorkerInv'
<1>1. /\ mem[w].pc = "apply" /\ TasksTold
      /\ BudgetIdle /\ NoEvidence /\ UNCHANGED <<disk, starts>> /\ mem[w].lease # NoLease
  BY LeaseInHand DEF Apply, At, WorkerInv, WorkerTyped, Handing
<1>2. CASE L!PublishApply /\ UNCHANGED mem
  <2>1. World
    BY <1>1, <1>2, RowsUntouched, WorldStill DEF L!PublishApply
  <2> QED BY <1>1, <1>2, <2>1, StillKeeps
<1>3. CASE L!PublishRefused /\ End(w, "failed")
  <2>1. World
    BY <1>1, <1>3, RowsUntouched, WorldStill DEF L!PublishRefused
  <2> QED BY <1>1, <1>3, <2>1, EndKeeps
<1>4. CASE /\ L!PublishCommit
           /\ IF tasks'[mem[w].task].status = "completed"
              THEN Goto(w, "promote") ELSE End(w, "failed")
  <2>1. World
    BY <1>1, <1>4, CommitQuiet, WorldStill
  <2> QED BY <1>1, <1>4, <2>1, HandingKeeps, EndKeeps
<1> QED BY <1>2, <1>3, <1>4 DEF Apply

LEMMA UnwindKeeps ==
  ASSUME WorkerInv, NEW w \in Worker, Unwind(w)
  PROVE  WorkerInv'
<1> DEFINE m == [mem[w] EXCEPT !.pc = "release", !.keeper = "none", !.active = NoRequest]
<1>1. /\ mem[w].pc = "unwind" /\ mem[w].fresh = NoLease /\ CostsTold
      /\ LedgerIdle /\ NoEvidence /\ UNCHANGED <<disk, starts>>
      /\ mem[w] \in Process /\ Control(w) /\ starts[w] \in Nat /\ mem[w].lease # NoLease
      /\ PendingOf(w) \subseteq {mem[w].active} /\ mem[w].active \in Request \cup {NoRequest}
      /\ Abandon(mem[w].active) /\ mem' = [mem EXCEPT ![w] = m]
  BY DEF Unwind, At, KeeperLockFree, WorkerInv, WorkerTyped, Controlled, Control, Chain, Handing,
         Ended, CostsTrue, Process
<1>2. Landing /\ PendingOf(w)' = {}
  <2>1. CASE mem[w].active = NoRequest
    <3>1. Landing
      BY <1>1, <2>1, BudgetStill DEF Abandon, BudgetIdle, budget
    <3>2. PendingOf(w)' \subseteq {NoRequest} /\ PendingOf(w)' \subseteq Request
      BY <1>1, <2>1, <3>1, LandingCosts DEF PendingOf
    <3> QED BY <3>1, <3>2, WorkerAssumption
  <2>2. CASE mem[w].active # NoRequest
    <3>1. PICK q \in Request : q = mem[w].active
      BY <1>1, <2>2
    <3>2. B!Settle(q, NoUsage, FALSE, clock)
      BY <1>1, <2>2, <3>1 DEF Abandon
    <3>3. Landing /\ rows'[q].status # "pending"
      BY <1>1, <3>2, SettleLands
    <3>4. PendingOf(w)' \subseteq {q} /\ q \notin PendingOf(w)'
      BY <1>1, <3>1, <3>3, LandingCosts DEF PendingOf
    <3> QED BY <3>3, <3>4
  <2> QED BY <2>1, <2>2
<1>3. World
  BY <1>1, <1>2, LedgerStill, FilesStill
     DEF World, WorldWith, MarksStill, LedgerQuiet, Landing, NoEvidence, evidence, EvidenceKept,
         WorkerInv, WorkerTyped
<1>4. /\ m \in Process /\ m.pc = "release" /\ m.lease = mem[w].lease
      /\ m.fresh = mem[w].fresh /\ m.keeper = "none"
      /\ m.task = mem[w].task /\ m.active = NoRequest /\ m.outcome = mem[w].outcome
      /\ m.candidate = mem[w].candidate
  BY <1>1, ZenonT(60) DEF Process, Label
<1> HIDE DEF m
<1>5. Others(w) /\ mem'[w] = m
  BY <1>1, <1>4, MemoryMoves
<1>6. LeaseKept(w) /\ Marked(w)' /\ Answering(w)' /\ Finalized(w)' /\ CostKept(w)
  BY <1>1, <1>2, <1>4, <1>5 DEF LeaseKept, Marked, Answering, Finalized, Finalizing, CostKept
<1>7. Control(w)'
  BY <1>1, <1>4, <1>5 DEF Control, Outside, Chain, Handing, Finalizing, Ended
<1> QED BY <1>3, <1>5, <1>6, <1>7, MoverKeeps DEF Mover, Settled

LEMMA ReleaseKeeps ==
  ASSUME WorkerInv, NEW w \in Worker, Release(w)
  PROVE  WorkerInv'
<1>1. /\ mem[w].pc = "release" /\ mem[w].fresh = NoLease /\ TasksTold
      /\ BudgetIdle /\ NoEvidence /\ UNCHANGED <<disk, starts>>
      /\ mem[w] \in Process /\ Control(w) /\ starts[w] \in Nat
      /\ InHand(w) /\ Granting /\ LastCandidate[w] \in Nat /\ mem[w].active = NoRequest
      /\ Continues(w) => disk[w].pending = NoPending
  BY WorkerAssumption
     DEF Release, At, WorkerInv, WorkerTyped, Controlled, Control, Chain, Handing, Ended,
         LeasesTrue, Continues
<1>2. PICK l \in L!Lease : l = mem[w].lease
  BY <1>1, LeaseInHand DEF Ended
<1>3. LedgerQuiet /\ \A g \in leases : SameClaim(g, l) => ~L!Holds(g)'
  <2>1. CASE L!Holds(l)
    <3>1. L!FinishAttempt(l, "released")
      BY <1>2, <2>1 DEF Release, L!Release
    <3> QED BY <1>1, <3>1, FinishQuiet DEF SameClaim, TasksTold
  <2>2. CASE ~L!Holds(l)
    <3>1. LedgerQuiet
      BY <1>2, <2>2, LedgerStill DEF Release
    <3>2. l # NoLease
      BY <1>1, <1>2, LeaseInHand DEF Ended
    <3>3. \A g \in leases : SameClaim(g, l) => ~L!Holds(g)
      BY <1>1, <1>2, <2>2, <3>2 DEF InHand, Newest
    <3> QED BY <1>1, <3>1, <3>3 DEF LedgerQuiet, LedgerMoves, TasksTold
  <2> QED BY <2>1, <2>2
<1>4. World
  BY <1>1, <1>3, WorldStill
<1>5. PICK label \in {"off", "sense"} :
          /\ mem' = [mem EXCEPT ![w] = [Blank EXCEPT !.pc = label]]
          /\ label = "sense" => Continues(w)
  BY DEF Release, Return, Blank
<1> DEFINE m == [Blank EXCEPT !.pc = label]
<1>6. /\ m \in Process /\ m.pc = label /\ m.lease = NoLease /\ m.fresh = NoLease
      /\ m.keeper = "none" /\ m.active = NoRequest /\ m.outcome = "none" /\ m.candidate = 0
  <2>1. label \in Label
    BY DEF Label
  <2> QED BY <2>1, BlankTyped DEF Blank
<1> HIDE DEF m
<1>7. Others(w) /\ mem'[w] = m
  BY <1>1, <1>5, <1>6, MemoryMoves DEF m
<1>8. Granting'
  BY <1>1, <1>4, GrantingKept DEF World, WorldWith
<1>9. InHand(w)'
  <2>1. leases' = leases /\ \A g \in leases : L!Holds(g)' => L!Holds(g)
    BY <1>1, <1>4 DEF World, WorldWith, LedgerMoves, TasksTold
  <2>2. starts[w] <= 1 => \A g \in leases : g.worker = w => ~L!Holds(g)'
    BY <1>1, <1>2, <1>3, <2>1 DEF InHand
  <2> QED BY <1>1, <1>6, <1>7, <2>1, <2>2 DEF InHand
<1>10. Control(w)'
  <2>1. /\ starts'[w] > 0 /\ (label = "sense" => disk'[w].pending = NoPending)
        /\ 0 <= LastCandidate[w] /\ mem'[w] = m
    BY <1>1, <1>5, <1>7 DEF Control
  <2> QED BY <1>5, <1>6, <2>1 DEF Control, Outside, Chain, Handing, Finalizing, Ended
<1>11. CostKept(w) /\ Marked(w)' /\ Answering(w)' /\ Finalized(w)'
  BY <1>1, <1>4, <1>6, <1>7, LandingCosts
     DEF CostKept, Marked, Answering, Finalized, Finalizing, WorkerInv, CostsTrue, World
<1>12. {} \in SUBSET L!Lease
  OBVIOUS
<1> QED BY <1>4, <1>7, <1>8, <1>9, <1>10, <1>11, <1>12, HandKeeps DEF World, Settled

LEMMA ChainFailsKeeps ==
  ASSUME WorkerInv, NEW w \in Worker,
         GuardStale(w) \/ BeginFails(w) \/ ExecuteRaises(w) \/ PublishFails(w)
  PROVE  WorkerInv'
<1>1. mem[w].pc \in Chain /\ Raise(w)
  BY DEF GuardStale, BeginFails, ExecuteRaises, PublishFails, At, Chain
<1> QED BY <1>1, RaiseKeeps

-----------------------------------------------------------------------------
(* Submissions and their finalization *)

\* A claim has one worker, so no two files hold a submission of the same result.
LEMMA SubmissionsApart ==
  ASSUME WorkerInv, NEW v \in Worker, NEW w \in Worker, v # w,
         disk[v].pending # NoPending, disk[w].pending # NoPending
  PROVE  Submitted(v) # Submitted(w)
<1>1. PICK k \in leases : k.worker = v /\ <<k.task, k.token>> = Submitted(v)
  BY DEF WorkerInv, PromotionsTrue, PendingTrue
<1>2. PICK l \in leases : l.worker = w /\ <<l.task, l.token>> = Submitted(w)
  BY DEF WorkerInv, PromotionsTrue, PendingTrue
<1>3. Granting
  BY DEF WorkerInv, LeasesTrue
<1>4. ASSUME Submitted(v) = Submitted(w)
      PROVE  FALSE
  <2>1. k.task = l.task /\ k.token = l.token
    BY <1>1, <1>2, <1>4
  <2> QED BY <1>1, <1>2, <1>3, <2>1 DEF Granting, SameClaim
<1> QED BY <1>4

LEMMA PendingTyped ==
  ASSUME WorkerInv, NEW w \in Worker, disk[w].pending # NoPending
  PROVE  /\ disk[w] \in Stored /\ disk[w].pending \in Pending /\ Submitted(w) \in Result
         /\ Submitted(w)[1] \in Task
         /\ PendingTrue(w) /\ Finalized(w)
BY DEF WorkerInv, WorkerTyped, Stored, Pending, Submitted, Result, PromotionsTrue

\* What is left to show of a step on the file of one process and the records.
LEMMA FilesKeep ==
  ASSUME WorkerInv, LedgerIdle, BudgetIdle, UNCHANGED <<sent, resolved, starts>>,
         approved \subseteq approved', audited \subseteq audited',
         audited' \subseteq Result, IsFiniteSet(audited'), fed' \in [Result -> Nat],
         disk' \in [Worker -> Stored],
         NEW w \in Worker, Others(w), Mover(w), PendingTrue(w)',
         \A v \in Worker : v # w => FileKept(v),
         \A v \in Worker : v # w /\ disk[v].pending # NoPending =>
                               fed'[Submitted(v)] = fed[Submitted(v)],
         \A r \in Result : fed'[r] > 0 => tasks[r[1]].status = "completed",
         PromotionEvidence', CompletedCounts'
  PROVE  WorkerInv'
<1>1. /\ LedgerMoves({}) /\ MarksKept /\ Landing /\ leases' = leases /\ tasks' = tasks
      /\ MarksStill
  BY LedgerStill, BudgetStill
     DEF LedgerQuiet, LedgerIdle, ledger, BudgetIdle, budget, WorkerInv, WorkerTyped, MarksStill
<1>2. ASSUME NEW v \in Worker, v # w
      PROVE  Mover(v) /\ PendingTrue(v)'
  <2>1. Unmoved(v) /\ FileKept(v) /\ Still(v)
    BY <1>2 DEF Others, Still, Unmoved
  <2>2. PendingOf(v)' \subseteq PendingOf(v)
    BY <1>1, LandingCosts
  <2>3. disk[v].pending # NoPending => fed'[Submitted(v)] = fed[Submitted(v)]
    BY <1>2
  <2>4. LeaseKept(v) /\ Control(v)'
    BY <2>1, UnmovedLease
  <2>5. CostKept(v)
    BY <2>1, <2>2, UnmovedCosts
  <2>6. Marked(v)' /\ Answering(v)'
    BY <1>1, <2>1, StillMarks
  <2>7. Finalized(v)'
    BY <1>1, <2>1, <2>3, UnmovedFinal
  <2>8. PendingTrue(v)'
    BY <1>1, <2>1, <2>3, PendingKept
  <2> QED BY <2>4, <2>5, <2>6, <2>7, <2>8 DEF Mover, Settled
<1>3. \A v \in Worker : Mover(v) /\ PendingTrue(v)'
  BY <1>2
<1>4. LeasesTrue'
  <2>1. starts' \in [Worker -> Nat]
    BY DEF Others
  <2> QED BY <1>1, <1>3, <2>1, LeasesKept DEF Mover
<1>5. SendsTrue'
  BY <1>1, <1>3, MarksStillSends DEF Mover
<1>6. CostsTrue'
  BY <1>3, CostsKept DEF Mover, Settled
<1>7. PromotionsTrue'
  BY <1>1, <1>3 DEF PromotionsTrue, Mover, Settled
<1>8. WorkerTyped'
  <2>1. TasksTold' /\ CostsTold'
    BY <1>1 DEF LedgerMoves, Landing
  <2> QED BY <2>1 DEF WorkerInv, WorkerTyped, Others
<1> QED BY <1>3, <1>4, <1>5, <1>6, <1>7, <1>8 DEF WorkerInv, Controlled, Mover, Settled

\* What one process writes to its file, the files of the others stay.
LEMMA RecordMoves ==
  ASSUME WorkerInv, NEW w \in Worker, NEW d \in Stored, disk' = [disk EXCEPT ![w] = d]
  PROVE  /\ disk' \in [Worker -> Stored] /\ disk'[w] = d
         /\ \A v \in Worker : v # w => FileKept(v)
<1> HIDE DEF Stored
<1> QED BY DEF WorkerInv, WorkerTyped, FileKept

\* The counters depend on the files only through the submissions in them.
LEMMA CountsKept ==
  ASSUME WorkerInv, tasks' = tasks, audited' = audited, NEW w \in Worker,
         \A v \in Worker : v # w => FileKept(v),
         disk'[w].completed = disk[w].completed,
         disk[w].pending # NoPending, disk'[w].pending # NoPending,
         disk'[w].pending.result = disk[w].pending.result
  PROVE  CompletedCounts'
<1>1. CompletedCounts
  BY DEF WorkerInv, PromotionsTrue
<1>2. ASSUME NEW v \in Worker
      PROVE  /\ disk'[v].completed = disk[v].completed
             /\ (IF disk'[v].pending # NoPending THEN {disk'[v].pending.result} ELSE {}) =
                (IF disk[v].pending # NoPending THEN {disk[v].pending.result} ELSE {})
  BY DEF FileKept
<1> QED BY <1>1, <1>2, ZenonT(60) DEF CompletedCounts

\* The process goes one step on with its finalization.
LEMMA FinalGoto ==
  ASSUME WorkerInv, LedgerIdle, BudgetIdle, UNCHANGED <<starts, resolved, sent>>,
         NEW w \in Worker, mem[w].pc \in Finalizing,
         NEW label \in Finalizing \ {"promote"}, Goto(w, label), disk'[w].pending # NoPending
  PROVE  /\ Others(w) /\ LeaseKept(w) /\ Control(w)' /\ CostKept(w)
         /\ Marked(w)' /\ Answering(w)' /\ mem'[w].pc = label
<1>1. Others(w) /\ mem'[w] = [mem[w] EXCEPT !.pc = label]
  <2>1. label \in Label
    BY DEF Label, Finalizing
  <2> QED BY <2>1, GotoMoves
<1>2. /\ mem[w] \in Process /\ Control(w) /\ starts[w] \in Nat
      /\ mem[w].outcome = "none" /\ mem[w].active = NoRequest
      /\ mem[w].fresh = NoLease /\ mem[w].keeper = "none" /\ Landing
  BY BudgetStill DEF WorkerInv, WorkerTyped, Controlled, Control, Finalizing, Ended, BudgetIdle,
                     budget
<1>3. /\ mem'[w].pc = label /\ mem'[w].lease = mem[w].lease
      /\ mem'[w].fresh = NoLease /\ mem'[w].keeper = "none"
      /\ mem'[w].task = mem[w].task /\ mem'[w].active = NoRequest
      /\ mem'[w].outcome = "none" /\ mem'[w].candidate = mem[w].candidate
  BY <1>1, <1>2 DEF Process
<1>4. LeaseKept(w) /\ Marked(w)' /\ Answering(w)'
  BY <1>2, <1>3 DEF LeaseKept, Marked, Answering, Finalizing
<1>5. Control(w)'
  BY <1>2, <1>3 DEF Control, Outside, Chain, Handing, Finalizing, Ended
<1>6. CostKept(w)
  BY <1>2, <1>3, LandingCosts DEF CostKept, WorkerInv, CostsTrue, Finalizing
<1> QED BY <1>1, <1>3, <1>4, <1>5, <1>6

\* A submission that cannot be finalized stays in the file, for review.
LEMMA ReviewKeeps ==
  ASSUME WorkerInv, World, UNCHANGED starts, NEW w \in Worker, mem[w].pc \in Finalizing,
         Review(w)
  PROVE  WorkerInv'
<1>1. mem[w].active = NoRequest /\ mem[w].pc \notin {"dead", "recover"}
  BY DEF WorkerInv, Controlled, Control, Finalizing
<1>2. CASE mem[w].lease = NoLease
  BY <1>1, <1>2, ReturnKeeps DEF Review, Recovering
<1>3. CASE mem[w].lease # NoLease
  <2>1. End(w, "failed")
    BY <1>3 DEF Review, Recovering
  <2> QED BY <1>3, <2>1, EndKeeps
<1> QED BY <1>2, <1>3

LEMMA PublishKeeps ==
  ASSUME WorkerInv, NEW w \in Worker, Publish(w)
  PROVE  WorkerInv'
<1> DEFINE p == [result |-> ResultOf(w), feedback |-> "none", count |-> disk[w].completed + 1]
           d == [disk[w] EXCEPT !.pending = p]
<1>1. /\ mem[w].pc = "publish" /\ LeaseGood(w) /\ Goto(w, "handoff")
      /\ LedgerIdle /\ BudgetIdle /\ NoEvidence /\ UNCHANGED starts
      /\ disk' = [disk EXCEPT ![w] = d]
  BY DEF Publish, At
<1>2. /\ mem[w] \in Process /\ Control(w) /\ starts[w] \in Nat /\ mem[w].task \in Task
      /\ mem[w].outcome = "none" /\ mem[w].active = NoRequest /\ mem[w].keeper # "failed"
      /\ disk[w].pending = NoPending /\ disk[w] \in Stored
      /\ ResultOf(w) \in Result /\ RequestOf(w) # NoRequest
  BY <1>1, AtRest, IdentitiesTyped
     DEF WorkerInv, WorkerTyped, Controlled, Control, Chain, LeaseGood
<1>3. PICK l \in leases : /\ l = mem[w].lease /\ l # NoLease /\ l \in L!Lease
                          /\ l.worker = w /\ l.task = mem[w].task
  BY <1>1, LeaseInHand DEF Chain
<1>4. tasks[l.task].status = "claimed"
  BY <1>1, <1>3 DEF LeaseGood, L!Holds, L!Owned
<1> DEFINE r == ResultOf(w)
<1>5. r = <<l.task, l.token>> /\ r[1] = l.task /\ r \in Result
  BY <1>2, <1>3 DEF ResultOf
<1>6. p \in Pending /\ d \in Stored /\ d.pending = p /\ d.completed = disk[w].completed
      /\ p # NoPending
  <2>1. p \in Pending
    BY <1>2 DEF Pending, Stored
  <2> HIDE DEF p
  <2> QED BY <1>2, <2>1, WorkerAssumption DEF Stored
<1> HIDE DEF d
<1>7. /\ disk' \in [Worker -> Stored] /\ disk'[w] = d
      /\ \A v \in Worker : v # w => FileKept(v)
  BY <1>1, <1>6, RecordMoves
<1>8. fed[r] = 0 /\ r \notin audited
  BY <1>4, <1>5 DEF WorkerInv, WorkerTyped, PromotionsTrue, PromotionEvidence
<1>9. Others(w) /\ mem'[w] = [mem[w] EXCEPT !.pc = "handoff"]
  BY <1>1, GotoMoves DEF Label
<1>10. /\ mem'[w].pc = "handoff" /\ mem'[w].lease = mem[w].lease
       /\ mem'[w].fresh = mem[w].fresh /\ mem'[w].keeper = mem[w].keeper
       /\ mem'[w].task = mem[w].task /\ mem'[w].active = NoRequest
       /\ mem'[w].outcome = "none" /\ mem'[w].candidate = mem[w].candidate
  BY <1>2, <1>9 DEF Process
<1>11. Landing
  BY <1>1, BudgetStill DEF WorkerInv, WorkerTyped, BudgetIdle, budget
<1>12. Mover(w)
  <2>1. LeaseKept(w) /\ Marked(w)' /\ Answering(w)' /\ Finalized(w)'
    BY <1>1, <1>2, <1>10 DEF LeaseKept, Marked, Answering, Finalized, Finalizing
  <2>2. Control(w)'
    BY <1>1, <1>2, <1>3, <1>6, <1>7, <1>10
       DEF Control, Outside, Chain, Handing, Finalizing, Ended
  <2>3. CostKept(w)
    BY <1>1, <1>2, <1>10, <1>11, LandingCosts DEF CostKept, WorkerInv, CostsTrue
  <2> QED BY <2>1, <2>2, <2>3 DEF Mover, Settled
<1>13. PendingTrue(w)'
  <2>1. /\ p.result = r /\ p.feedback = "none" /\ p.count = disk[w].completed + 1
    OBVIOUS
  <2>2. leases' = leases /\ fed' = fed
    BY <1>1 DEF LedgerIdle, ledger, NoEvidence, evidence
  <2> HIDE DEF p, r
  <2> QED BY <1>3, <1>5, <1>6, <1>7, <1>8, <2>1, <2>2 DEF PendingTrue, Submitted, Fed
<1>14. /\ tasks' = tasks /\ fed' = fed /\ audited' = audited /\ approved' = approved
       /\ sent' = sent /\ resolved' = resolved
  BY <1>1 DEF LedgerIdle, ledger, NoEvidence, evidence
<1>15. CompletedCounts'
  <2>1. ASSUME NEW v \in Worker
        PROVE  disk'[v].completed =
                   Cardinality({a \in audited : tasks[a[1]].owner = v} \
                       (IF disk'[v].pending # NoPending THEN {disk'[v].pending.result} ELSE {}))
    <3>1. disk[v].completed =
              Cardinality({a \in audited : tasks[a[1]].owner = v} \
                  (IF disk[v].pending # NoPending THEN {disk[v].pending.result} ELSE {}))
      BY DEF WorkerInv, PromotionsTrue, CompletedCounts
    <3>2. CASE v # w
      BY <1>7, <3>1, <3>2 DEF FileKept
    <3>3. CASE v = w
      <4>1. {a \in audited : tasks[a[1]].owner = w} \ {r} =
                {a \in audited : tasks[a[1]].owner = w} \ {}
        BY <1>8
      <4>2. /\ disk'[w].completed = disk[w].completed /\ disk'[w].pending # NoPending
            /\ disk'[w].pending.result = r
        BY <1>6, <1>7
      <4> QED BY <1>2, <3>1, <3>3, <4>1, <4>2
    <3> QED BY <3>2, <3>3
  <2> QED BY <1>14, <2>1 DEF CompletedCounts
<1> QED BY <1>1, <1>7, <1>9, <1>12, <1>13, <1>14, <1>15, FilesKeep
        DEF WorkerInv, WorkerTyped, PromotionsTrue, PromotionEvidence

\* _finalize: the ledger has the result, and the asset is approved.
LEMMA PromoteKeeps ==
  ASSUME WorkerInv, NEW w \in Worker, Promote(w)
  PROVE  WorkerInv'
<1>1. /\ mem[w].pc = "promote" /\ mem[w].pc \in Finalizing /\ disk[w].pending # NoPending
      /\ LedgerIdle /\ BudgetIdle /\ UNCHANGED <<disk, starts, sent, resolved, fed, audited>>
      /\ approved \subseteq approved'
  BY DEF Promote, At, Finalizing, WorkerInv, Controlled, Control
<1>2. World
  BY <1>1, LedgerStill, BudgetStill, FilesStill
     DEF World, WorldWith, MarksStill, LedgerQuiet, WorkerInv, WorkerTyped, BudgetIdle, budget,
         EvidenceKept, Landing
<1>3. ASSUME Accepted(w), NEW label \in {"mark", "audit"}, Goto(w, label),
             approved' = approved \cup {Submitted(w)},
             label = "mark" => disk[w].pending.feedback = "none",
             label = "audit" => disk[w].pending.feedback = "complete"
      PROVE  WorkerInv'
  <2>1. disk'[w].pending # NoPending /\ label \in Finalizing \ {"promote"}
    BY <1>1 DEF Finalizing
  <2>2. /\ Others(w) /\ LeaseKept(w) /\ Control(w)' /\ CostKept(w)
        /\ Marked(w)' /\ Answering(w)' /\ mem'[w].pc = label
    BY <1>1, <1>3, <2>1, FinalGoto
  <2>3. Accepted(w)' /\ Submitted(w)' = Submitted(w)
    BY <1>1, <1>3 DEF Accepted, Submitted, LedgerIdle, ledger
  <2>4. Finalized(w)'
    BY <1>1, <1>3, <2>2, <2>3 DEF Finalized
  <2> QED BY <1>2, <2>2, <2>4, MoverKeeps DEF Mover, Settled
<1>4. CASE Accepted(w)
  <2>1. approved' = approved \cup {Submitted(w)}
    BY <1>4 DEF Promote, Submitted
  <2>2. CASE disk[w].pending.feedback = "none"
    <3>1. Goto(w, "mark")
      BY <1>4, <2>2 DEF Promote
    <3> QED BY <1>3, <1>4, <2>1, <2>2, <3>1
  <2>3. CASE disk[w].pending.feedback = "started"
    <3>1. Review(w)
      BY <1>4, <2>3 DEF Promote
    <3> QED BY <1>1, <1>2, <3>1, ReviewKeeps
  <2>4. CASE disk[w].pending.feedback = "complete"
    <3>1. Goto(w, "audit")
      BY <1>4, <2>4 DEF Promote
    <3> QED BY <1>3, <1>4, <2>1, <2>4, <3>1
  <2> QED BY <1>1, <2>2, <2>3, <2>4, PendingTyped DEF Pending
<1>5. CASE ~Accepted(w)
  <2>1. Review(w)
    BY <1>5 DEF Promote
  <2> QED BY <1>1, <1>2, <2>1, ReviewKeeps
<1> QED BY <1>4, <1>5

LEMMA PromoteFailsKeeps ==
  ASSUME WorkerInv, NEW w \in Worker, PromoteFails(w)
  PROVE  WorkerInv'
<1>1. /\ mem[w].pc = "promote" /\ mem[w].pc \in Finalizing /\ disk[w].pending # NoPending
      /\ LedgerIdle /\ BudgetIdle /\ UNCHANGED <<disk, starts, sent, resolved, fed, audited>>
      /\ approved \subseteq approved' /\ Review(w)
  BY DEF PromoteFails, At, Finalizing, WorkerInv, Controlled, Control
<1>2. World
  BY <1>1, LedgerStill, BudgetStill, FilesStill
     DEF World, WorldWith, MarksStill, LedgerQuiet, WorkerInv, WorkerTyped, BudgetIdle, budget,
         EvidenceKept, Landing
<1> QED BY <1>1, <1>2, ReviewKeeps

\* The state of the feedback in the record moves on before or after the pair.
LEMMA FeedbackKeeps ==
  ASSUME WorkerInv, NEW w \in Worker, mem[w].pc \in {"mark", "complete"},
         NEW state, SetFeedback(w, state), NEW label, Goto(w, label),
         \/ mem[w].pc = "mark" /\ state = "started" /\ label = "pair"
         \/ mem[w].pc = "complete" /\ state = "complete" /\ label = "audit",
         LedgerIdle, BudgetIdle, NoEvidence, UNCHANGED starts
  PROVE  WorkerInv'
<1> DEFINE p == [disk[w].pending EXCEPT !.feedback = state]
           d == [disk[w] EXCEPT !.pending = p]
<1>1. mem[w].pc \in Finalizing \ {"promote"} /\ disk[w].pending # NoPending
  BY DEF Finalizing, WorkerInv, Controlled, Control
<1>2. /\ disk[w] \in Stored /\ disk[w].pending \in Pending
      /\ PendingTrue(w) /\ Finalized(w) /\ Submitted(w) \in Result
  BY <1>1, PendingTyped
<1>3. /\ p \in Pending /\ d \in Stored /\ d.pending = p /\ d.completed = disk[w].completed
      /\ p # NoPending
      /\ p.result = Submitted(w) /\ p.feedback = state /\ p.count = disk[w].pending.count
  <2>1. /\ p \in Pending /\ p.result = Submitted(w) /\ p.feedback = state
        /\ p.count = disk[w].pending.count
    BY <1>2 DEF Pending, Submitted
  <2> HIDE DEF p
  <2> QED BY <1>2, <2>1, WorkerAssumption DEF Stored
<1>4. disk' = [disk EXCEPT ![w] = d]
  BY DEF SetFeedback
<1> HIDE DEF p, d
<1>5. /\ disk' \in [Worker -> Stored] /\ disk'[w] = d
      /\ \A v \in Worker : v # w => FileKept(v)
  BY <1>3, <1>4, RecordMoves
<1>6. /\ tasks' = tasks /\ fed' = fed /\ audited' = audited /\ approved' = approved
      /\ sent' = sent /\ resolved' = resolved /\ leases' = leases
  BY DEF LedgerIdle, ledger, NoEvidence, evidence
<1>7. /\ Others(w) /\ LeaseKept(w) /\ Control(w)' /\ CostKept(w)
      /\ Marked(w)' /\ Answering(w)' /\ mem'[w].pc = label
  <2>1. disk'[w].pending # NoPending /\ label \in Finalizing \ {"promote"}
    BY <1>3, <1>5 DEF Finalizing
  <2> QED BY <1>1, <1>6, <2>1, FinalGoto
<1>8. Submitted(w)' = Submitted(w) /\ Accepted(w)'
  <2>1. Accepted(w)
    BY <1>1, <1>2 DEF Finalized
  <2>2. disk'[w].pending.result = disk[w].pending.result
    BY <1>3, <1>5 DEF Submitted
  <2> QED BY <1>6, <2>1, <2>2 DEF Submitted, Accepted
<1>9. Finalized(w)' /\ PendingTrue(w)'
  <2>1. /\ Submitted(w) \in approved
        /\ mem[w].pc = "mark" => fed[Submitted(w)] = 0
        /\ mem[w].pc = "complete" => fed[Submitted(w)] = 1
    BY <1>1, <1>2 DEF Finalized, PendingTrue, Fed, Submitted
  <2>2. Finalized(w)'
    BY <1>3, <1>5, <1>6, <1>7, <1>8, <2>1 DEF Finalized
  <2>3. PendingTrue(w)'
    <3>1. disk'[w].pending = p /\ disk'[w].completed = disk[w].completed
      BY <1>3, <1>5
    <3>2. Fed(w)'
      BY <1>3, <1>6, <2>1, <3>1 DEF Fed, Submitted
    <3> QED BY <1>1, <1>2, <1>3, <1>6, <1>8, <3>1, <3>2 DEF PendingTrue
  <2> QED BY <2>2, <2>3
<1>10. Mover(w)
  BY <1>7, <1>9 DEF Mover, Settled
<1>11. CompletedCounts'
  BY <1>1, <1>3, <1>5, <1>6, CountsKept DEF Submitted
<1> QED BY <1>5, <1>6, <1>7, <1>9, <1>10, <1>11, FilesKeep
        DEF WorkerInv, WorkerTyped, PromotionsTrue, PromotionEvidence

LEMMA MarkFeedbackKeeps ==
  ASSUME WorkerInv, NEW w \in Worker, MarkFeedback(w)
  PROVE  WorkerInv'
BY FeedbackKeeps DEF MarkFeedback, At

LEMMA CompleteFeedbackKeeps ==
  ASSUME WorkerInv, NEW w \in Worker, CompleteFeedback(w)
  PROVE  WorkerInv'
BY FeedbackKeeps DEF CompleteFeedback, At

\* The feedback is applied between its two marks in the file, so once.
LEMMA PairKeeps ==
  ASSUME WorkerInv, NEW w \in Worker, Pair(w)
  PROVE  WorkerInv'
<1>1. /\ mem[w].pc = "pair" /\ mem[w].pc \in Finalizing /\ disk[w].pending # NoPending
      /\ LedgerIdle /\ BudgetIdle
      /\ UNCHANGED <<disk, starts, sent, resolved, approved, audited>>
  BY DEF Pair, At, Finalizing, WorkerInv, Controlled, Control
<1>2. CASE UNCHANGED fed /\ Review(w)
  <2>1. World
    BY <1>1, <1>2, WorldStill, LedgerStill DEF NoEvidence, evidence
  <2> QED BY <1>1, <1>2, <2>1, ReviewKeeps
<1>3. CASE fed' = [fed EXCEPT ![disk[w].pending.result] = @ + 1] /\ Goto(w, "complete")
  <2>1. PICK r \in Result : r = Submitted(w)
    BY <1>1, PendingTyped
  <2>2. /\ PendingTrue(w) /\ Accepted(w) /\ r \in approved
        /\ disk[w].pending.feedback = "started" /\ fed[r] = 0
    BY <1>1, <2>1, PendingTyped DEF Finalized, Finalizing
  <2>3. /\ fed' \in [Result -> Nat] /\ fed'[r] = 1
        /\ \A a \in Result : a # r => fed'[a] = fed[a]
    BY <1>3, <2>1, <2>2 DEF WorkerInv, WorkerTyped, Submitted
  <2>4. disk' \in [Worker -> Stored] /\ \A v \in Worker : FileKept(v)
    BY <1>1, FilesStill
  <2>5. /\ tasks' = tasks /\ leases' = leases
    BY <1>1 DEF LedgerIdle, ledger
  <2>6. /\ Others(w) /\ LeaseKept(w) /\ Control(w)' /\ CostKept(w)
        /\ Marked(w)' /\ Answering(w)' /\ mem'[w].pc = "complete"
    <3>1. disk'[w].pending # NoPending /\ "complete" \in Finalizing \ {"promote"}
      BY <1>1 DEF Finalizing
    <3> QED BY <1>1, <1>3, <3>1, FinalGoto
  <2>7. Submitted(w)' = r /\ Accepted(w)'
    BY <1>1, <2>1, <2>2, <2>5 DEF Submitted, Accepted
  <2>8. Finalized(w)'
    BY <1>1, <2>2, <2>3, <2>6, <2>7 DEF Finalized
  <2>9. PendingTrue(w)'
    <3>1. Fed(w)'
      BY <1>1, <2>1, <2>2, <2>3 DEF Fed, Submitted
    <3> QED BY <1>1, <2>1, <2>2, <2>5, <2>7, <3>1 DEF PendingTrue
  <2>10. \A v \in Worker : v # w /\ disk[v].pending # NoPending =>
                               fed'[Submitted(v)] = fed[Submitted(v)]
    BY <1>1, <2>1, <2>3, SubmissionsApart, PendingTyped
  <2>11. /\ \A a \in Result : fed'[a] > 0 => tasks[a[1]].status = "completed"
         /\ PromotionEvidence'
    <3>1. tasks[r[1]].status = "completed"
      BY <2>1, <2>2 DEF Accepted, Submitted
    <3>2. audited \subseteq Result
      BY DEF WorkerInv, WorkerTyped
    <3>3. /\ \A a \in Result : fed[a] > 0 => tasks[a[1]].status = "completed"
          /\ PromotionEvidence
      BY DEF WorkerInv, PromotionsTrue
    <3> QED BY <1>1, <2>2, <2>3, <2>5, <3>1, <3>2, <3>3 DEF PromotionEvidence
  <2>12. CompletedCounts'
    BY <1>1, <2>4, <2>5, CountsKept DEF FileKept
  <2>13. Mover(w)
    BY <2>6, <2>8 DEF Mover, Settled
  <2> QED BY <1>1, <2>3, <2>4, <2>6, <2>9, <2>10, <2>11, <2>12, <2>13, FilesKeep
          DEF WorkerInv, WorkerTyped
<1> QED BY <1>2, <1>3 DEF Pair

\* The audit record counts the result; the counter in the file follows at the end.
LEMMA AuditKeeps ==
  ASSUME WorkerInv, NEW w \in Worker, Audit(w)
  PROVE  WorkerInv'
<1>1. /\ mem[w].pc = "audit" /\ mem[w].pc \in Finalizing /\ disk[w].pending # NoPending
      /\ LedgerIdle /\ BudgetIdle /\ Goto(w, "finish")
      /\ UNCHANGED <<disk, starts, sent, resolved, approved, fed>>
      /\ audited' = audited \cup {Submitted(w)}
  BY DEF Audit, At, Finalizing, WorkerInv, Controlled, Control, Submitted
<1>2. PICK r \in Result : r = Submitted(w)
  BY <1>1, PendingTyped
<1>3. /\ PendingTrue(w) /\ Accepted(w) /\ r \in approved
      /\ disk[w].pending.feedback = "complete" /\ fed[r] = 1
  BY <1>1, <1>2, PendingTyped DEF Finalized, Finalizing, PendingTrue, Fed, Submitted
<1>4. /\ tasks[r[1]].status = "completed" /\ tasks[r[1]].owner = w
      /\ tasks[r[1]].result = r /\ tasks[r[1]].effect
  BY <1>2, <1>3 DEF Accepted, Submitted
<1>5. disk' \in [Worker -> Stored] /\ \A v \in Worker : FileKept(v)
  BY <1>1, FilesStill
<1>6. tasks' = tasks /\ leases' = leases
  BY <1>1 DEF LedgerIdle, ledger
<1>7. /\ Others(w) /\ LeaseKept(w) /\ Control(w)' /\ CostKept(w)
      /\ Marked(w)' /\ Answering(w)' /\ mem'[w].pc = "finish"
  <2>1. disk'[w].pending # NoPending /\ "finish" \in Finalizing \ {"promote"}
    BY <1>1 DEF Finalizing
  <2> QED BY <1>1, <2>1, FinalGoto
<1>8. Submitted(w)' = r /\ Accepted(w)'
  BY <1>1, <1>2, <1>3, <1>6 DEF Submitted, Accepted
<1>9. Mover(w)
  <2>1. r \in audited'
    BY <1>1, <1>2
  <2>2. Finalized(w)'
    BY <1>1, <1>3, <1>7, <1>8, <2>1 DEF Finalized
  <2> QED BY <1>7, <2>2 DEF Mover, Settled
<1>10. PendingTrue(w)'
  <2>1. Fed(w)'
    BY <1>1, <1>3 DEF Fed, PendingTrue
  <2> QED BY <1>1, <1>2, <1>3, <1>6, <1>8, <2>1 DEF PendingTrue
<1>11. audited' \subseteq Result /\ IsFiniteSet(audited')
  BY <1>1, <1>2, FS_AddElement DEF WorkerInv, WorkerTyped
<1>12. PromotionEvidence'
  BY <1>1, <1>2, <1>3, <1>4, <1>6 DEF PromotionEvidence, WorkerInv, PromotionsTrue
<1>13. CompletedCounts'
  <2>1. ASSUME NEW v \in Worker
        PROVE  disk'[v].completed =
                   Cardinality({a \in audited' : tasks[a[1]].owner = v} \
                       (IF disk'[v].pending # NoPending THEN {disk'[v].pending.result} ELSE {}))
    <3> DEFINE open == IF disk[v].pending # NoPending THEN {disk[v].pending.result} ELSE {}
    <3>1. disk[v].completed = Cardinality({a \in audited : tasks[a[1]].owner = v} \ open)
      BY DEF WorkerInv, PromotionsTrue, CompletedCounts
    <3>2. v = w => r \in open
      BY <1>1, <1>2 DEF Submitted
    <3> HIDE DEF open
    <3>3. {a \in audited' : tasks[a[1]].owner = v} \ open =
              {a \in audited : tasks[a[1]].owner = v} \ open
      BY <1>1, <1>2, <1>4, <3>2
    <3>4. disk' = disk
      BY <1>1
    <3> QED BY <3>1, <3>3, <3>4 DEF open
  <2> QED BY <1>6, <2>1 DEF CompletedCounts
<1> QED BY <1>1, <1>5, <1>7, <1>9, <1>10, <1>11, <1>12, <1>13, FilesKeep
        DEF WorkerInv, WorkerTyped, PromotionsTrue

\* The counter is saved with the file empty again.
LEMMA FinishKeeps ==
  ASSUME WorkerInv, NEW w \in Worker, Finish(w)
  PROVE  WorkerInv'
<1> DEFINE n == disk[w].completed + 1
           d == [disk[w] EXCEPT !.pending = NoPending, !.completed = n]
<1>1. /\ mem[w].pc = "finish" /\ mem[w].pc \in Finalizing /\ disk[w].pending # NoPending
      /\ LedgerIdle /\ BudgetIdle /\ NoEvidence /\ UNCHANGED starts
  BY DEF Finish, At, Finalizing, WorkerInv, Controlled, Control
<1>2. PICK r \in Result : r = Submitted(w)
  BY <1>1, PendingTyped
<1>3. /\ PendingTrue(w) /\ Accepted(w) /\ r \in audited
      /\ disk[w] \in Stored /\ disk[w].pending.count = n
  BY <1>1, <1>2, PendingTyped DEF Finalized, Finalizing, PendingTrue
<1>4. tasks[r[1]].owner = w
  BY <1>2, <1>3 DEF Accepted, Submitted
<1>5. Count(w) = n /\ n \in Nat
  BY <1>3 DEF Count, Larger, Stored
<1>6. disk' = [disk EXCEPT ![w] = d]
  BY <1>5 DEF Finish
<1>7. d \in Stored /\ d.pending = NoPending /\ d.completed = n
  BY <1>3, <1>5 DEF Stored
<1> HIDE DEF d
<1>8. /\ disk' \in [Worker -> Stored] /\ disk'[w] = d
      /\ \A v \in Worker : v # w => FileKept(v)
  BY <1>6, <1>7, RecordMoves
<1>9. /\ tasks' = tasks /\ fed' = fed /\ audited' = audited /\ approved' = approved
      /\ sent' = sent /\ resolved' = resolved /\ leases' = leases
  BY <1>1 DEF LedgerIdle, ledger, NoEvidence, evidence
<1>10. /\ mem[w] \in Process /\ Control(w) /\ starts[w] \in Nat
       /\ mem[w].outcome = "none" /\ mem[w].active = NoRequest
       /\ mem[w].fresh = NoLease /\ mem[w].keeper = "none" /\ Landing
       /\ 0 <= LastCandidate[w]
  BY <1>1, BudgetStill, WorkerAssumption
     DEF WorkerInv, WorkerTyped, Controlled, Control, Finalizing, Ended, BudgetIdle, budget
<1>11. /\ Others(w)
       /\ \/ mem'[w].pc = "gate" /\ mem[w].lease = NoLease /\ mem'[w].outcome = "none"
             /\ mem'[w].candidate = mem[w].candidate
          \/ mem'[w].pc = "unwind" /\ mem[w].lease # NoLease /\ mem'[w].outcome = "completed"
             /\ mem'[w].candidate = 0
       /\ mem'[w].lease = mem[w].lease /\ mem'[w].fresh = NoLease /\ mem'[w].keeper = "none"
       /\ mem'[w].active = NoRequest /\ mem'[w].task = mem[w].task
  <2>1. CASE mem[w].lease = NoLease
    <3>1. Goto(w, "gate")
      BY <2>1 DEF Finish, Recovering
    <3>2. "gate" \in Label
      BY DEF Label
    <3>3. Others(w) /\ mem'[w] = [mem[w] EXCEPT !.pc = "gate"]
      BY <1>1, <3>1, <3>2, GotoMoves, ZenonT(30)
    <3> QED BY <1>10, <2>1, <3>3, SMTT(40) DEF Process
  <2>2. CASE mem[w].lease # NoLease
    <3>1. End(w, "completed")
      BY <2>2, SMTT(40) DEF Finish, Recovering
    <3>2. "completed" \in Ending
      BY DEF Ending
    <3>3. Others(w) /\ mem'[w] = [mem[w] EXCEPT !.pc = "unwind", !.outcome = "completed",
                                                !.answer = NoRequest, !.stopped = FALSE,
                                                !.candidate = 0]
      BY <1>1, <3>1, <3>2, EndMoves, ZenonT(30)
    <3> QED BY <1>10, <2>2, <3>3, SMTT(40) DEF Process
  <2> QED BY <2>1, <2>2
<1>12. Mover(w)
  <2>1. LeaseKept(w) /\ Marked(w)' /\ Answering(w)' /\ Finalized(w)'
    BY <1>1, <1>10, <1>11 DEF LeaseKept, Marked, Answering, Finalized, Finalizing
  <2>2. Control(w)'
    BY <1>1, <1>7, <1>8, <1>10, <1>11 DEF Control, Outside, Chain, Handing, Finalizing, Ended
  <2>3. CostKept(w)
    BY <1>1, <1>10, <1>11, LandingCosts DEF CostKept, WorkerInv, CostsTrue
  <2> QED BY <2>1, <2>2, <2>3 DEF Mover, Settled
<1>13. PendingTrue(w)'
  BY <1>7, <1>8 DEF PendingTrue
<1>14. CompletedCounts'
  <2>1. ASSUME NEW v \in Worker
        PROVE  disk'[v].completed =
                   Cardinality({a \in audited : tasks[a[1]].owner = v} \
                       (IF disk'[v].pending # NoPending THEN {disk'[v].pending.result} ELSE {}))
    <3> DEFINE mine == {a \in audited : tasks[a[1]].owner = v}
    <3>1. disk[v].completed =
              Cardinality(mine \
                  (IF disk[v].pending # NoPending THEN {disk[v].pending.result} ELSE {}))
      BY DEF WorkerInv, PromotionsTrue, CompletedCounts
    <3>2. CASE v # w
      BY <1>8, <3>1, <3>2 DEF FileKept
    <3>3. CASE v = w
      <4>1. disk[w].completed = Cardinality(mine \ {r})
        BY <1>1, <1>2, <3>1, <3>3 DEF Submitted
      <4>2. IsFiniteSet(mine \ {r}) /\ r \in mine
        <5>1. IsFiniteSet(audited) /\ mine \ {r} \subseteq audited
          BY DEF WorkerInv, WorkerTyped
        <5>2. IsFiniteSet(mine \ {r})
          BY <5>1, FS_Subset
        <5> QED BY <1>3, <1>4, <3>3, <5>2
      <4> HIDE DEF mine
      <4>3. mine = (mine \ {r}) \cup {r} /\ r \notin mine \ {r}
        BY <4>2
      <4>4. Cardinality(mine) = Cardinality(mine \ {r}) + 1
        BY <4>2, <4>3, FS_AddElement
      <4>5. mine \ {} = mine
        OBVIOUS
      <4>6. disk'[w].completed = Cardinality(mine) /\ disk'[w].pending = NoPending
        BY <1>7, <1>8, <4>1, <4>4
      <4> QED BY <3>3, <4>5, <4>6 DEF mine
    <3> QED BY <3>2, <3>3
  <2> QED BY <1>9, <2>1 DEF CompletedCounts
<1> QED BY <1>1, <1>8, <1>9, <1>11, <1>12, <1>13, <1>14, FilesKeep
        DEF WorkerInv, WorkerTyped, PromotionsTrue, PromotionEvidence

-----------------------------------------------------------------------------
(* The invariant of the specification *)

LEMMA InitKeeps ==
  ASSUME Init
  PROVE  WorkerInv
<1>1. TasksTold
  <2>1. L!AbsentRow \in TaskRow
    BY DEF L!AbsentRow, L!NoExpiry, TaskRow, L!Status
  <2>2. clock = 0 /\ tasks = [t \in Task |-> L!AbsentRow] /\ leases = {}
    BY DEF Init, L!Init
  <2>3. /\ L!AbsentRow.unconfirmed = NoRequest /\ L!AbsentRow.token = 0
        /\ L!AbsentRow.attempts = 0
    BY DEF L!AbsentRow
  <2> HIDE DEF TaskRow
  <2>4. tasks \in [Task -> TaskRow] /\ \A t \in Task : tasks[t] = L!AbsentRow
    BY <2>1, <2>2
  <2> QED BY <2>2, <2>3, <2>4, WorkerAssumption DEF TasksTold
<1>2. CostsTold /\ \A q \in Request : rows[q].status # "pending"
  <2>1. {"status", "worker"} \subseteq DOMAIN B!AbsentRow /\ B!AbsentRow.status # "pending"
    BY DEF B!AbsentRow
  <2>2. rows = [q \in Request |-> B!AbsentRow]
    BY DEF Init, B!Init
  <2> QED BY <2>1, <2>2 DEF CostsTold
<1>3. /\ mem \in [Worker -> Process] /\ \A w \in Worker : mem[w] = Blank
  <2> HIDE DEF Process, Blank
  <2> QED BY BlankTyped DEF Init
<1>4. /\ disk \in [Worker -> Stored]
      /\ \A w \in Worker : disk[w].pending = NoPending /\ disk[w].completed = 0
  <2> DEFINE d == [energy |-> Energy, senses |-> 0, completed |-> 0, pending |-> NoPending]
  <2>1. d \in Stored /\ d.pending = NoPending /\ d.completed = 0
    BY WorkerAssumption DEF Stored
  <2>2. disk = [w \in Worker |-> d]
    BY DEF Init
  <2> HIDE DEF d, Stored
  <2> QED BY <2>1, <2>2
<1>5. /\ starts = [w \in Worker |-> 0] /\ sent = {} /\ resolved = {} /\ approved = {}
      /\ fed = [r \in Result |-> 0] /\ audited = {} /\ leases = {}
  BY DEF Init, L!Init
<1>6. WorkerTyped
  BY <1>1, <1>2, <1>3, <1>4, <1>5, FS_EmptySet DEF WorkerTyped
<1>7. Controlled
  BY <1>3, <1>4, <1>5, WorkerAssumption
     DEF Controlled, Control, Blank, Outside, Chain, Handing, Finalizing, Ended
<1>8. LeasesTrue
  BY <1>3, <1>5 DEF LeasesTrue, Granting, InHand, Blank
<1>9. CostsTrue /\ SendsTrue
  BY <1>2, <1>3, <1>5 DEF CostsTrue, PendingOf, SendsTrue, Marked, Answering, Blank
<1>10. PromotionsTrue
  <2>1. \A w \in Worker : PendingTrue(w) /\ Finalized(w)
    BY <1>3, <1>4 DEF PendingTrue, Finalized, Blank, Finalizing
  <2>2. CompletedCounts
    <3>1. ASSUME NEW w \in Worker
          PROVE  disk[w].completed =
                     Cardinality({r \in audited : tasks[r[1]].owner = w} \
                         (IF disk[w].pending # NoPending THEN {disk[w].pending.result} ELSE {}))
      <4>1. {r \in audited : tasks[r[1]].owner = w} \ {} = {}
        BY <1>5
      <4> QED BY <1>4, <4>1, FS_EmptySet
    <3> QED BY <3>1 DEF CompletedCounts
  <2> QED BY <1>5, <2>1, <2>2 DEF PromotionsTrue, PromotionEvidence
<1> QED BY <1>6, <1>7, <1>8, <1>9, <1>10 DEF WorkerInv

LEMMA StutterKeeps ==
  ASSUME WorkerInv, UNCHANGED vars
  PROVE  WorkerInv'
BY WorldStill, LedgerStill, StillKeeps
   DEF vars, LedgerIdle, BudgetIdle, NoEvidence, evidence

\* One case per step of _run and _process.
LEMMA MainKeeps ==
  ASSUME WorkerInv, NEW w \in Worker, MainStep(w)
  PROVE  WorkerInv'
<1>1. CASE Recover(w) \/ Gate(w) \/ SenseStops(w) \/ Sense(w) \/ Waits(w) \/ ClaimDenied(w)
           \/ Claim(w)
  BY <1>1, RecoverKeeps, GateKeeps, SenseStopsKeeps, SenseKeeps, WaitsKeeps, ClaimDeniedKeeps,
     ClaimKeeps
<1>2. CASE GuardStale(w) \/ BeginFails(w) \/ ExecuteRaises(w) \/ PublishFails(w)
  BY <1>2, ChainFailsKeeps
<1>3. CASE GuardSkip(w) \/ Reserve(w) \/ Begin(w) \/ Send(w) \/ Settle(w) \/ Confirm(w)
           \/ Reject(w)
  BY <1>3, GuardSkipKeeps, ReserveKeeps, BeginKeeps, SendKeeps, SettleKeeps, ConfirmKeeps,
     RejectKeeps
<1>4. CASE Publish(w) \/ PublishRejected(w) \/ Handoff(w) \/ Submit(w) \/ Lock(w) \/ Apply(w)
  BY <1>4, PublishKeeps, PublishRejectedKeeps, HandoffKeeps, SubmitKeeps, LockKeeps, ApplyKeeps
<1>5. CASE Promote(w) \/ PromoteFails(w) \/ MarkFeedback(w) \/ Pair(w)
           \/ CompleteFeedback(w) \/ Audit(w)
           \/ Finish(w) \/ Unwind(w) \/ Release(w)
  BY <1>5, PromoteKeeps, PromoteFailsKeeps, MarkFeedbackKeeps, PairKeeps, CompleteFeedbackKeeps,
       AuditKeeps,
     FinishKeeps, UnwindKeeps, ReleaseKeeps
<1> QED BY <1>1, <1>2, <1>3, <1>4, <1>5 DEF MainStep

LEMMA NextKeeps == WorkerInv /\ [Next]_vars => WorkerInv'
<1> SUFFICES ASSUME WorkerInv, [Next]_vars
             PROVE  WorkerInv'
  OBVIOUS
<1>1. ASSUME NEW w \in Worker, Start(w) \/ MainStep(w) \/ KeeperStep(w) \/ Crash(w)
      PROVE  WorkerInv'
  BY <1>1, StartKeeps, MainKeeps, KeeperRenewKeeps, KeeperAssignKeeps, CrashKeeps DEF KeeperStep
<1>2. ASSUME NEW t \in Task, Seed(t)
      PROVE  WorkerInv'
  BY <1>2, SeedKeeps
<1>3. CASE Tick
  BY <1>3, TickKeeps
<1>4. CASE UNCHANGED vars
  BY <1>4, StutterKeeps
<1> QED BY <1>1, <1>2, <1>3, <1>4 DEF Next

\* In every state of any number of workers, over any crashes, restarts and expiries: a process
\* at each point of _run and _process holds exactly what that point needs, the leases it knows
\* are the ones the ledger granted, what it reserved and sent stands in the ledgers, and its
\* file and its finalization agree.
THEOREM WorkerInvariant == Spec => []WorkerInv
<1>1. Init => WorkerInv
  BY InitKeeps
<1> QED BY <1>1, NextKeeps, PTL DEF Spec

-----------------------------------------------------------------------------
(* What follows from it *)

LEMMA ReturnedHoldsNothing == WorkerInv => ReturnsCleanly
<1> SUFFICES ASSUME WorkerInv, NEW w \in Worker, mem[w].pc = "off"
             PROVE  /\ PendingOf(w) = {}
                    /\ starts[w] <= 1 => \A l \in leases : l.worker = w => ~L!Holds(l)
  BY DEF ReturnsCleanly
<1>1. mem[w].active = NoRequest /\ mem[w].lease = NoLease
  BY DEF WorkerInv, Controlled, Control, Outside
<1>2. PendingOf(w) \subseteq {NoRequest} /\ PendingOf(w) \subseteq Request
  BY <1>1 DEF WorkerInv, CostsTrue, PendingOf
<1> QED BY <1>1, <1>2, WorkerAssumption DEF WorkerInv, LeasesTrue, InHand

\* A run that returned (the nested `finally' clauses of _process, and _resume) left no budget
\* row pending and, unless an earlier run crashed, no lease that is still good.
THEOREM ReturnsAlwaysCleanly == Spec => []ReturnsCleanly
BY WorkerInvariant, ReturnedHoldsNothing, PTL

\* Whatever _finalize did to a result, it did to one the ledger accepted, from the worker that
\* submitted it: no feedback without acceptance, none twice.
THEOREM PromotionsAlwaysEvident == Spec => []PromotionEvidence
<1>1. WorkerInv => PromotionEvidence
  BY DEF WorkerInv, PromotionsTrue
<1> QED BY <1>1, WorkerInvariant, PTL

\* The counter _finalize saves tells how many results of the worker were finished and audited,
\* each once, over every crash between the two and every resumption.
THEOREM CountsAlwaysPromotions == Spec => []CompletedCounts
<1>1. WorkerInv => CompletedCounts
  BY DEF WorkerInv, PromotionsTrue
<1> QED BY <1>1, WorkerInvariant, PTL

\* Requests leave in one step of the process only.
LEMMA OnlySendSends ==
  ASSUME NEW w \in Worker, MainStep(w), ~Send(w)
  PROVE  sent' = sent
<1>1. CASE Recover(w) \/ Gate(w) \/ SenseStops(w) \/ Sense(w) \/ Waits(w) \/ ClaimDenied(w)
           \/ Claim(w)
  BY <1>1 DEF Recover, Gate, SenseStops, Sense, Waits, ClaimDenied, Claim, MemoryOnly, NoEvidence
<1>2. CASE GuardStale(w) \/ BeginFails(w) \/ ExecuteRaises(w) \/ PublishFails(w)
  BY <1>2 DEF GuardStale, BeginFails, ExecuteRaises, PublishFails, Raise, MemoryOnly, NoEvidence
<1>3. CASE GuardSkip(w) \/ Reserve(w) \/ Begin(w) \/ Settle(w) \/ Confirm(w) \/ Reject(w)
  BY <1>3 DEF GuardSkip, Reserve, Begin, Settle, Confirm, Reject, MemoryOnly, NoEvidence
<1>4. CASE Publish(w) \/ PublishRejected(w) \/ Handoff(w) \/ Submit(w) \/ Lock(w) \/ Apply(w)
  BY <1>4 DEF Publish, PublishRejected, Handoff, Submit, Lock, Apply, MemoryOnly, NoEvidence
<1>5. CASE Promote(w) \/ PromoteFails(w) \/ MarkFeedback(w) \/ Pair(w)
           \/ CompleteFeedback(w) \/ Audit(w)
           \/ Finish(w) \/ Unwind(w) \/ Release(w)
  BY <1>5 DEF Promote, PromoteFails, MarkFeedback, Pair, CompleteFeedback, Audit, Finish, Unwind,
       Release,
              NoEvidence
<1> QED BY <1>1, <1>2, <1>3, <1>4, <1>5 DEF MainStep

\* Only Send sends, and the mark of the task it finds is its own.
LEMMA SendsOneEffect ==
  ASSUME WorkerInv, [Next]_vars, NEW q \in sent' \ sent, NEW p \in sent, p[1] = q[1]
  PROVE  p \in resolved
<1>1. PICK w \in Worker : Send(w)
  <2>1. sent' # sent
    OBVIOUS
  <2>2. ASSUME NEW w \in Worker, Start(w) \/ MainStep(w) \/ KeeperStep(w) \/ Crash(w)
        PROVE  Send(w)
    BY <2>1, <2>2, OnlySendSends
       DEF Start, KeeperStep, KeeperRenew, KeeperAssign, Crash, MemoryOnly, NoEvidence
  <2>3. ASSUME NEW t \in Task, Seed(t)
        PROVE  FALSE
    BY <2>1, <2>3 DEF Seed, NoEvidence
  <2>4. ~Tick /\ ~UNCHANGED vars
    BY <2>1 DEF Tick, NoEvidence, vars
  <2> QED BY <2>2, <2>3, <2>4 DEF Next
<1>2. q = RequestOf(w) /\ q[1] = mem[w].task /\ tasks[mem[w].task].unconfirmed = q
  <2>1. mem[w].pc = "send" /\ mem[w].active = RequestOf(w)
    BY <1>1 DEF Send, At, WorkerInv, Controlled, Control
  <2>2. q = mem[w].active
    BY <1>1 DEF Send
  <2>3. tasks[mem[w].task].unconfirmed = RequestOf(w)
    BY <2>1 DEF WorkerInv, SendsTrue, Marked
  <2> QED BY <2>1, <2>2, <2>3 DEF RequestOf
<1>3. p \in resolved \/ tasks[p[1]].unconfirmed = p
  BY DEF WorkerInv, SendsTrue
<1> QED BY <1>2, <1>3

\* While one request of a task may have acted without an answer, no other is sent for it, by any
\* worker (begin_execution before the call, confirm_execution or fail after it, in _process).
THEOREM OneEffectUnknown == Spec => OneUnknownEffect
<1>1. WorkerInv /\ [Next]_vars =>
          [\A q \in sent' \ sent : \A p \in sent : p[1] = q[1] => p \in resolved]_vars
  BY SendsOneEffect
<1> QED BY <1>1, WorkerInvariant, PTL DEF Spec, OneUnknownEffect

\* Whatever another process does, the memory of this one stays as it is.
LEMMA MemoryApart ==
  ASSUME mem \in [Worker -> Process], NEW v \in Worker,
         Start(v) \/ MainStep(v) \/ KeeperStep(v) \/ Crash(v),
         NEW w \in Worker, w # v
  PROVE  mem'[w] = mem[w]
<1> HIDE DEF Process
<1>1. CASE Start(v) \/ KeeperStep(v) \/ Crash(v)
  BY <1>1 DEF Start, KeeperStep, KeeperRenew, KeeperAssign, Crash, Goto
<1>2. CASE Recover(v) \/ Gate(v) \/ SenseStops(v) \/ Sense(v) \/ Waits(v) \/ ClaimDenied(v)
           \/ Claim(v)
  BY <1>2 DEF Recover, Gate, SenseStops, Sense, Waits, ClaimDenied, Claim, Goto, Return, Idle,
              Contended
<1>3. CASE GuardStale(v) \/ BeginFails(v) \/ ExecuteRaises(v) \/ PublishFails(v)
  BY <1>3 DEF GuardStale, BeginFails, ExecuteRaises, PublishFails, Raise, End
<1>4. CASE GuardSkip(v) \/ Reserve(v) \/ Begin(v) \/ Send(v) \/ Reject(v)
  BY <1>4 DEF GuardSkip, Reserve, Begin, Send, Reject, Goto, End
<1>5. CASE Settle(v) \/ Confirm(v)
  <2>1. CASE Settle(v)
    <3>1. PICK a : Use(v, a) \/ Mismatch(v)
      BY <2>1 DEF Settle
    <3> QED BY <3>1 DEF Use, Mismatch
  <2>2. CASE Confirm(v)
    BY <2>2 DEF Confirm, Decided, End, Leave
  <2> QED BY <1>5, <2>1, <2>2
<1>6. CASE Publish(v) \/ PublishRejected(v) \/ Handoff(v) \/ Submit(v) \/ Lock(v) \/ Apply(v)
  BY <1>6 DEF Publish, PublishRejected, Handoff, Submit, Lock, Apply, Goto, End
<1>7. CASE Promote(v) \/ PromoteFails(v) \/ MarkFeedback(v) \/ Pair(v)
           \/ CompleteFeedback(v) \/ Audit(v)
           \/ Finish(v) \/ Unwind(v) \/ Release(v)
  BY <1>7 DEF Promote, PromoteFails, MarkFeedback, Pair, CompleteFeedback, Audit, Finish, Unwind,
       Release,
              Goto, Review, Return, End
<1> QED BY <1>1, <1>2, <1>3, <1>4, <1>5, <1>6, <1>7 DEF MainStep

\* The three calls on the lease are the only steps of the main thread where they are due.
LEMMA CallsDue ==
  ASSUME NEW w \in Worker, MainStep(w), mem[w].pc \in {"confirm", "reject", "submit"}
  PROVE  Confirm(w) \/ Reject(w) \/ Submit(w)
<1>1. /\ ~Recover(w) /\ ~Gate(w) /\ ~SenseStops(w) /\ ~Sense(w) /\ ~Waits(w) /\ ~ClaimDenied(w)
      /\ ~Claim(w)
  BY DEF Recover, Gate, SenseStops, Sense, Waits, ClaimDenied, Claim, At
<1>2. /\ ~GuardStale(w) /\ ~BeginFails(w) /\ ~ExecuteRaises(w) /\ ~PublishFails(w)
      /\ ~GuardSkip(w) /\ ~Reserve(w) /\ ~Begin(w) /\ ~Send(w) /\ ~Settle(w)
  BY DEF GuardStale, BeginFails, ExecuteRaises, PublishFails, GuardSkip, Reserve, Begin, Send,
         Settle, At
<1>3. /\ ~Publish(w) /\ ~PublishRejected(w) /\ ~Handoff(w) /\ ~Lock(w) /\ ~Apply(w)
  BY DEF Publish, PublishRejected, Handoff, Lock, Apply, At
<1>4. /\ ~Promote(w) /\ ~PromoteFails(w) /\ ~MarkFeedback(w) /\ ~Pair(w)
      /\ ~CompleteFeedback(w) /\ ~Audit(w)
      /\ ~Finish(w) /\ ~Unwind(w) /\ ~Release(w)
  BY DEF Promote, PromoteFails, MarkFeedback, Pair, CompleteFeedback, Audit, Finish, Unwind,
       Release, At
<1> QED BY <1>1, <1>2, <1>3, <1>4 DEF MainStep

\* A call fails by an answer of the guard alone: a failed keeper or a lost lease.
LEMMA CallFails ==
  ASSUME WorkerInv, NEW w \in Worker, Confirm(w) \/ Reject(w) \/ Submit(w),
         mem[w].outcome = "none", mem'[w].outcome = "failed"
  PROVE  /\ mem[w].fresh = NoLease
         /\ mem[w].keeper = "failed" \/ ~L!Holds(mem[w].lease)
<1>1. mem \in [Worker -> Process] /\ mem[w] \in Process /\ Control(w)
  BY DEF WorkerInv, WorkerTyped, Controlled
<1>2. ASSUME Decided(w)
      PROVE  mem'[w].outcome # "failed"
  <2>1. CASE End(w, "sleeping")
    BY <1>1, <2>1 DEF End, Process
  <2>2. ASSUME NEW label \in {"publish", "reject"}, Leave(w, label)
        PROVE  mem'[w].outcome # "failed"
    BY <1>1, <2>2 DEF Leave, Process
  <2>3. ASSUME mem' = [mem EXCEPT ![w].pc = "guard", ![w].candidate = @ + 1]
        PROVE  mem'[w].outcome # "failed"
    BY <1>1, <2>3 DEF Process
  <2> QED BY <1>2, <2>1, <2>2, <2>3 DEF Decided
<1>3. CASE Confirm(w)
  BY <1>2, <1>3 DEF Confirm, KeeperLockFree, LeaseGood
<1>4. CASE Reject(w)
  <2>1. CASE L!Holds(mem[w].lease)
    <3>1. mem' = [mem EXCEPT ![w].pc = "unwind", ![w].outcome = "rejected",
                             ![w].keeper = "none"]
      BY <1>4, <2>1 DEF Reject
    <3> QED BY <1>1, <3>1 DEF Process
  <2> QED BY <1>4, <2>1 DEF Reject, KeeperLockFree
<1>5. CASE Submit(w)
  <2>1. CASE L!Holds(mem[w].lease)
    <3>1. Goto(w, "lock")
      BY <1>5, <2>1 DEF Submit
    <3> QED BY <1>1, <3>1 DEF Goto, Process
  <2>2. mem[w].fresh = NoLease
    BY <1>1, <1>5 DEF Submit, At, Control, Handing
  <2> QED BY <2>1, <2>2
<1> QED BY <1>3, <1>4, <1>5

\* The process whose call failed held the newest lease, and the guard refused it.
LEMMA FailsOnLoss ==
  ASSUME WorkerInv, [Next]_vars, NEW w \in Worker,
         mem[w].pc \in {"confirm", "reject", "submit"}, mem'[w].outcome = "failed",
         NEW l \in leases, l.task = mem[w].task, l.token = mem[w].lease.token
  PROVE  ~L!Holds(l) \/ mem[w].keeper = "failed"
<1>1. /\ mem \in [Worker -> Process] /\ mem[w] \in Process
      /\ mem[w].outcome = "none" /\ mem[w].lease # NoLease /\ mem[w].lease.task = mem[w].task
      /\ InHand(w)
  BY LeaseInHand
     DEF WorkerInv, WorkerTyped, Controlled, Control, Chain, Handing, Ended, LeasesTrue
<1>2. Confirm(w) \/ Reject(w) \/ Submit(w)
  <2>1. mem'[w] # mem[w]
    BY <1>1
  <2>2. ASSUME NEW v \in Worker, Start(v) \/ MainStep(v) \/ KeeperStep(v) \/ Crash(v)
        PROVE  Confirm(w) \/ Reject(w) \/ Submit(w)
    <3>1. v = w
      BY <1>1, <2>1, <2>2, MemoryApart
    <3>2. ~Start(w)
      BY DEF Start
    <3>3. ~KeeperStep(w)
      <4>1. ASSUME KeeperRenew(w)
            PROVE  FALSE
        <5>1. PICK k, state : \/ mem' = [mem EXCEPT ![w].fresh = k]
                              \/ mem' = [mem EXCEPT ![w].keeper = state]
          BY <4>1 DEF KeeperRenew
        <5> QED BY <1>1, <5>1 DEF Process
      <4>2. ASSUME KeeperAssign(w)
            PROVE  FALSE
        BY <1>1, <4>2 DEF KeeperAssign, Process
      <4> QED BY <4>1, <4>2 DEF KeeperStep
    <3>4. ~Crash(w)
      <4>1. ASSUME Crash(w)
            PROVE  mem'[w].outcome = "none"
        BY <1>1, <4>1 DEF Crash, Blank
      <4> QED BY <4>1
    <3> QED BY <2>2, <3>1, <3>2, <3>3, <3>4, CallsDue
  <2>3. (\A t \in Task : ~Seed(t)) /\ ~Tick /\ ~UNCHANGED vars
    BY <2>1 DEF Seed, Tick, vars
  <2> QED BY <2>2, <2>3 DEF Next
<1>3. /\ mem[w].fresh = NoLease
      /\ mem[w].keeper = "failed" \/ ~L!Holds(mem[w].lease)
  BY <1>1, <1>2, CallFails
<1>4. L!Holds(l) => l = mem[w].lease
  BY <1>1, <1>3 DEF InHand, Newest, SameClaim
<1> QED BY <1>3, <1>4

\* No worker gives up work over a lease it still holds: a call on the lease fails only when the
\* newest lease of the claim is lost, or its _Renewal has failed.
THEOREM FailuresAlwaysReal == Spec => OnlyRealLossFails
<1>1. WorkerInv /\ [Next]_vars =>
          [\A w \in Worker :
              /\ mem[w].pc \in {"confirm", "reject", "submit"}
              /\ mem'[w].outcome = "failed"
              => \A l \in leases : /\ l.task = mem[w].task
                                   /\ l.token = mem[w].lease.token
                                   => ~L!Holds(l) \/ mem[w].keeper = "failed"]_vars
  BY FailsOnLoss
<1> QED BY <1>1, WorkerInvariant, PTL DEF Spec, OnlyRealLossFails

-----------------------------------------------------------------------------
(* The process keeps to both ledgers: each of its steps is one of theirs *)

LEMMA LedgerRests ==
  ASSUME LedgerIdle
  PROVE  UNCHANGED L!vars
BY DEF LedgerIdle, ledger, L!vars

LEMMA BudgetRests ==
  ASSUME BudgetIdle, clock' = clock
  PROVE  UNCHANGED B!vars
BY DEF BudgetIdle, budget, B!vars

\* Leases in hand are leases the ledger returned.
LEMMA LeaseGranted ==
  ASSUME WorkerInv, NEW w \in Worker, mem[w].lease # NoLease
  PROVE  mem[w].lease \in leases
BY DEF WorkerInv, LeasesTrue, InHand

LEMMA LeaseSteps ==
  ASSUME NEW l \in leases, L!LeaseStep(l)
  PROVE  L!Next
BY DEF L!Next

LEMMA FinishesLedger ==
  ASSUME NEW l \in leases, L!Release(l) \/ L!Fail(l)
  PROVE  L!Next
BY LeaseSteps DEF L!LeaseStep

LEMMA RenewsLedger ==
  ASSUME NEW l \in leases, NEW ttl \in TTL, L!Renew(l, ttl)
  PROVE  L!Next
BY LeaseSteps DEF L!LeaseStep

LEMMA MarksLedger ==
  ASSUME NEW l \in leases, NEW q \in Request,
         L!BeginExecution(l, q) \/ L!ConfirmExecution(l, q)
  PROVE  L!Next
BY LeaseSteps DEF L!LeaseStep

LEMMA IntendsLedger ==
  ASSUME NEW l \in leases, NEW r \in Result, L!SubmitIntent(l, r)
  PROVE  L!Next
BY LeaseSteps DEF L!LeaseStep

LEMMA BeginsLedger ==
  ASSUME NEW l \in leases, L!PublishBegin(l)
  PROVE  L!Next
BY LeaseSteps DEF L!LeaseStep

\* The calls of the main thread on the ledger, with the lease in its memory.
LEMMA MainLedger ==
  ASSUME WorkerInv, NEW w \in Worker, MainStep(w)
  PROVE  L!Next \/ UNCHANGED L!vars
<1>1. CASE Recover(w) \/ Gate(w) \/ SenseStops(w) \/ Sense(w) \/ Waits(w) \/ ClaimDenied(w)
  BY <1>1, LedgerRests DEF Recover, Gate, SenseStops, Sense, Waits, ClaimDenied, MemoryOnly
<1>2. CASE Claim(w)
  <2>1. PICK ttl \in TTL : L!Claim(w, mem[w].task, ttl)
    BY <1>2 DEF Claim
  <2>2. PICK t \in Task : t = mem[w].task
    BY <1>2, SMTT(30) DEF Claim, At, WorkerInv, Controlled, Control
  <2> QED BY <2>1, <2>2 DEF L!Next
<1>3. CASE GuardStale(w) \/ BeginFails(w) \/ ExecuteRaises(w) \/ PublishFails(w) \/ GuardSkip(w)
           \/ Reserve(w) \/ Send(w) \/ Settle(w) \/ Publish(w) \/ PublishRejected(w)
  BY <1>3, LedgerRests
     DEF GuardStale, BeginFails, ExecuteRaises, PublishFails, GuardSkip, Reserve, Send, Settle,
         Publish, PublishRejected, Raise, MemoryOnly
<1>4. CASE Begin(w) \/ Confirm(w)
  <2>1. mem[w].lease \in leases /\ RequestOf(w) \in Request
    BY <1>4, IdentitiesTyped, LeaseInHand DEF Begin, Confirm, At, Chain
  <2>2. PICK l \in leases, q \in Request : l = mem[w].lease /\ q = RequestOf(w)
    BY <2>1
  <2>3. L!BeginExecution(l, q) \/ L!ConfirmExecution(l, q) \/ LedgerIdle
    BY <1>4, <2>2 DEF Begin, Confirm
  <2> QED BY <2>3, MarksLedger, LedgerRests
<1>5. CASE Reject(w) \/ Release(w)
  <2>1. PICK l \in leases : l = mem[w].lease
    BY <1>5, LeaseInHand DEF Reject, Release, At, Chain, Ended
  <2>2. L!Release(l) \/ L!Fail(l) \/ LedgerIdle
    BY <1>5, <2>1 DEF Reject, Release
  <2> QED BY <2>2, FinishesLedger, LedgerRests
<1>6. CASE Handoff(w)
  <2>1. PICK l \in leases : l = mem[w].lease
    BY <1>6, LeaseInHand DEF Handoff, At, Handing
  <2>2. (\E ttl \in TTL : L!Renew(l, ttl)) \/ LedgerIdle
    BY <1>6, <2>1 DEF Handoff
  <2> QED BY <2>2, RenewsLedger, LedgerRests
<1>7. CASE Submit(w) \/ Lock(w)
  <2>1. mem[w].lease \in leases /\ ResultOf(w) \in Result
    BY <1>7, IdentitiesTyped, LeaseInHand DEF Submit, Lock, At, Handing
  <2>2. PICK l \in leases, r \in Result : l = mem[w].lease /\ r = ResultOf(w)
    BY <2>1
  <2>3. L!SubmitIntent(l, r) \/ L!PublishBegin(l) \/ LedgerIdle
    BY <1>7, <2>2 DEF Submit, Lock
  <2> QED BY <2>3, IntendsLedger, BeginsLedger, LedgerRests
<1>8. CASE Apply(w)
  BY <1>8 DEF Apply, L!Next
<1>9. CASE Promote(w) \/ PromoteFails(w) \/ MarkFeedback(w) \/ Pair(w)
           \/ CompleteFeedback(w) \/ Audit(w)
           \/ Finish(w) \/ Unwind(w)
  BY <1>9, LedgerRests DEF Promote, PromoteFails, MarkFeedback, Pair, CompleteFeedback, Audit,
       Finish, Unwind
<1> QED BY <1>1, <1>2, <1>3, <1>4, <1>5, <1>6, <1>7, <1>8, <1>9 DEF MainStep

LEMMA StepsOfLedger ==
  ASSUME WorkerInv, [Next]_vars
  PROVE  L!Next \/ UNCHANGED L!vars
<1>1. ASSUME NEW w \in Worker, Start(w) \/ KeeperStep(w) \/ Crash(w)
      PROVE  L!Next \/ UNCHANGED L!vars
  <2>1. CASE Start(w) \/ KeeperAssign(w)
    BY <2>1, LedgerRests DEF Start, KeeperAssign, MemoryOnly
  <2>2. CASE KeeperRenew(w)
    <3>1. mem[w].lease # NoLease
      BY <2>2 DEF KeeperRenew, WorkerInv, Controlled, Control
    <3>2. PICK l \in leases : l = mem[w].lease
      BY <3>1, LeaseGranted
    <3>3. (\E ttl \in TTL : L!Renew(l, ttl)) \/ LedgerIdle
      BY <2>2, <3>2 DEF KeeperRenew
    <3> QED BY <3>3, RenewsLedger, LedgerRests
  <2>3. CASE Crash(w)
    BY <2>3 DEF Crash, L!Next
  <2> QED BY <1>1, <2>1, <2>2, <2>3 DEF KeeperStep
<1>2. ASSUME NEW t \in Task, Seed(t)
      PROVE  L!Next
  BY <1>2 DEF Seed, L!Next
<1>3. CASE Tick
  BY <1>3 DEF Tick, L!Next
<1>4. CASE UNCHANGED vars
  BY <1>4 DEF vars, ledger, L!vars
<1> QED BY <1>1, <1>2, <1>3, <1>4, MainLedger DEF Next

\* Whatever the workers do, they do to the ledger by its own operations: every behaviour of the
\* worker loops is one of the task ledger, so its theorems are true of the composed system.
THEOREM KeepsToLedger == Spec => L!Spec
<1>1. Init => L!Init
  BY DEF Init
<1>2. WorkerInv /\ [Next]_vars => [L!Next]_(L!vars)
  BY StepsOfLedger
<1> QED BY <1>1, <1>2, WorkerInvariant, PTL DEF Spec, L!Spec

\* Only time moves the clock, and nothing else moves with it.
LEMMA ClockStands ==
  ASSUME WorkerInv, [Next]_vars, ~Tick
  PROVE  clock' = clock
<1>1. CASE UNCHANGED vars
  BY <1>1 DEF vars, ledger
<1>2. ASSUME NEW t \in Task, Seed(t)
      PROVE  clock' = clock
  BY <1>2 DEF Seed, L!Enqueue, L!Write
<1>3. ASSUME NEW w \in Worker, Start(w) \/ MainStep(w) \/ KeeperStep(w) \/ Crash(w)
      PROVE  clock' = clock
  <2>1. CASE Start(w) \/ KeeperStep(w) \/ Crash(w)
    BY <2>1, ZenonT(60)
       DEF Start, KeeperStep, KeeperRenew, KeeperAssign, MemoryOnly, Crash, LedgerIdle,
                ledger, L!Renew, L!Write, L!Crash
  <2>2. CASE Recover(w) \/ Gate(w) \/ SenseStops(w) \/ Sense(w) \/ Waits(w) \/ ClaimDenied(w)
             \/ Claim(w)
    BY <2>2, ZenonT(60)
       DEF Recover, Gate, SenseStops, Sense, Waits, ClaimDenied, Claim, MemoryOnly,
                LedgerIdle, ledger, L!Claim, L!Write
  <2>3. CASE GuardStale(w) \/ BeginFails(w) \/ ExecuteRaises(w) \/ PublishFails(w)
             \/ GuardSkip(w) \/ Reserve(w) \/ Send(w) \/ Settle(w) \/ Publish(w)
             \/ PublishRejected(w)
    BY <2>3, ZenonT(60)
       DEF GuardStale, BeginFails, ExecuteRaises, PublishFails, GuardSkip, Reserve, Send,
                Settle, Publish, PublishRejected, Raise, MemoryOnly, LedgerIdle, ledger
  <2>4. CASE Begin(w) \/ Confirm(w) \/ Reject(w) \/ Handoff(w) \/ Release(w)
    BY <2>4, ZenonT(60)
       DEF Begin, Confirm, Reject, Handoff, Release, LedgerIdle, ledger, L!BeginExecution,
                L!ConfirmExecution, L!Fail, L!Release, L!FinishAttempt, L!Renew, L!Write
  <2>5. CASE Submit(w) \/ Lock(w) \/ Apply(w)
    BY <2>5, ZenonT(60)
       DEF Submit, Lock, Apply, LedgerIdle, ledger, L!SubmitIntent, L!PublishBegin,
                L!PublishApply, L!PublishRefused, L!PublishCommit
  <2>6. CASE Promote(w) \/ PromoteFails(w) \/ MarkFeedback(w) \/ Pair(w)
             \/ CompleteFeedback(w) \/ Audit(w)
             \/ Finish(w) \/ Unwind(w)
    BY <2>6, ZenonT(60)
       DEF Promote, PromoteFails, MarkFeedback, Pair, CompleteFeedback, Audit, Finish, Unwind,
                LedgerIdle, ledger
  <2> QED BY <1>3, <2>1, <2>2, <2>3, <2>4, <2>5, <2>6 DEF MainStep
<1> QED BY <1>1, <1>2, <1>3 DEF Next

LEMMA SettlesBudget ==
  ASSUME clock \in Nat, NEW q \in Request, NEW u \in Usages \cup {NoUsage}, NEW stop \in BOOLEAN,
         B!Settle(q, u, stop, clock)
  PROVE  B!Next
<1>1. clock \in 0 .. clock
  OBVIOUS
<1> QED BY <1>1 DEF B!Next, B!RequestStep

LEMMA RejectsBudget ==
  ASSUME clock \in Nat, NEW q \in Request, B!MarkUnknownRejection(q, clock)
  PROVE  B!Next
<1>1. clock \in 0 .. clock
  OBVIOUS
<1> QED BY <1>1 DEF B!Next, B!RequestStep

LEMMA ReservesBudget ==
  ASSUME clock \in Nat, NEW q \in Request, NEW w \in Worker, NEW t \in Task, NEW b \in Bounds,
         B!Reserve(w, t, q, b, clock)
  PROVE  B!Next
<1>1. clock \in 0 .. clock
  OBVIOUS
<1> QED BY <1>1 DEF B!Next, B!RequestStep

\* The calls of the main thread on the budget, at the time they are made.
LEMMA MainBudget ==
  ASSUME WorkerInv, NEW w \in Worker, MainStep(w)
  PROVE  B!Next \/ BudgetIdle
<1>0. clock \in Nat
  BY DEF WorkerInv, WorkerTyped, TasksTold
<1>1. CASE Recover(w)
  <2>1. BudgetIdle \/ \E q \in Request : B!Settle(q, NoUsage, FALSE, clock)
    BY <1>1 DEF Recover, PendingOf
  <2> QED BY <1>0, <2>1, SettlesBudget
<1>2. CASE Reserve(w)
  <2>1. mem[w].task \in Task /\ RequestOf(w) \in Request
    BY <1>2, IdentitiesTyped, LeaseInHand DEF Reserve, At, Chain
  <2>2. PICK q \in Request, t \in Task : q = RequestOf(w) /\ t = mem[w].task
    BY <2>1
  <2>3. BudgetIdle \/ \E b \in Bounds : B!Reserve(w, t, q, b, clock)
    BY <1>2, <2>2 DEF Reserve
  <2> QED BY <1>0, <2>3, ReservesBudget
<1>3. CASE Settle(w)
  <2>1. RequestOf(w) \in Request /\ mem[w].active = RequestOf(w)
    BY <1>3, IdentitiesTyped DEF Settle, At, Chain, WorkerInv, Controlled, Control
  <2>2. PICK q \in Request : q = mem[w].active
    BY <2>1
  <2>3. \/ \E u \in Usages \cup {NoUsage}, stop \in BOOLEAN : B!Settle(q, u, stop, clock)
        \/ B!MarkUnknownRejection(q, clock)
    BY <1>3, <2>2 DEF Settle
  <2> QED BY <1>0, <2>3, SettlesBudget, RejectsBudget
<1>4. CASE Unwind(w)
  <2>1. mem[w].active \in Request \cup {NoRequest}
    BY DEF WorkerInv, WorkerTyped, Process
  <2>2. BudgetIdle \/ \E q \in Request : B!Settle(q, NoUsage, FALSE, clock)
    BY <1>4, <2>1 DEF Unwind, Abandon
  <2> QED BY <1>0, <2>2, SettlesBudget
<1>5. CASE Gate(w) \/ SenseStops(w) \/ Sense(w) \/ Waits(w) \/ ClaimDenied(w) \/ Claim(w)
           \/ GuardStale(w) \/ BeginFails(w) \/ ExecuteRaises(w) \/ PublishFails(w)
           \/ GuardSkip(w) \/ Begin(w) \/ Send(w) \/ Confirm(w) \/ Reject(w)
  BY <1>5 DEF Gate, SenseStops, Sense, Waits, ClaimDenied, Claim, GuardStale, BeginFails,
              ExecuteRaises, PublishFails, GuardSkip, Begin, Send, Confirm, Reject, Raise,
              MemoryOnly
<1>6. CASE Publish(w) \/ PublishRejected(w) \/ Handoff(w) \/ Submit(w) \/ Lock(w) \/ Apply(w)
           \/ Promote(w) \/ PromoteFails(w) \/ MarkFeedback(w) \/ Pair(w)
           \/ CompleteFeedback(w) \/ Audit(w)
           \/ Finish(w) \/ Release(w)
  BY <1>6 DEF Publish, PublishRejected, Handoff, Submit, Lock, Apply, Promote, PromoteFails,
       MarkFeedback,
              Pair, CompleteFeedback, Audit, Finish, Release, MemoryOnly
<1> QED BY <1>1, <1>2, <1>3, <1>4, <1>5, <1>6 DEF MainStep

LEMMA StepsOfBudget ==
  ASSUME WorkerInv, [Next]_vars
  PROVE  B!Next \/ UNCHANGED B!vars
<1>1. CASE Tick
  <2>1. B!Tick
    BY <1>1 DEF Tick, L!Tick, B!Tick, BudgetIdle, budget
  <2> QED BY <2>1 DEF B!Next
<1>2. CASE ~Tick
  <2>1. clock' = clock
    BY <1>2, ClockStands
  <2>2. B!Next \/ BudgetIdle
    <3>1. CASE UNCHANGED vars
      BY <3>1 DEF vars, BudgetIdle
    <3>2. ASSUME NEW t \in Task, Seed(t)
          PROVE  BudgetIdle
      BY <3>2 DEF Seed
    <3>3. ASSUME NEW w \in Worker, Start(w) \/ MainStep(w) \/ KeeperStep(w) \/ Crash(w)
          PROVE  B!Next \/ BudgetIdle
      BY <3>3, MainBudget DEF Start, KeeperStep, KeeperRenew, KeeperAssign, MemoryOnly, Crash
    <3> QED BY <1>2, <3>1, <3>2, <3>3 DEF Next
  <2> QED BY <2>1, <2>2, BudgetRests
<1> QED BY <1>1, <1>2

\* Likewise, every behaviour of the worker loops is one of the budget ledger they share.
THEOREM KeepsToBudget == Spec => B!Spec
<1>1. Init => B!Init
  BY DEF Init
<1>2. WorkerInv /\ [Next]_vars => [B!Next]_(B!vars)
  BY StepsOfBudget
<1> QED BY <1>1, <1>2, WorkerInvariant, PTL DEF Spec, B!Spec

=============================================================================
