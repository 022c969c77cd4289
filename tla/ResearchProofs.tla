----------------------------- MODULE ResearchProofs -----------------------------
(***************************************************************************)
(* Theorems of the research project: of the service its agents call (first *)
(* part), of the records its members keep, and of the field they learn     *)
(* into; for any callers, tasks, members, contents, facts, branches and    *)
(* results.                                                                *)
(***************************************************************************)
EXTENDS ResearchTasks, ResearchRecords, LearnedField, Induction

-----------------------------------------------------------------------------
(* The research service *)

\* A candidate names the task, the attempt and the author.
Candidate == Task \X Nat \X Worker
Found == [asset : Candidate \cup {NoAsset}, run : Request \cup {NoRequest}]
TaskRow == [status : L!Status, attempts : Nat, token : Nat,
            owner : Worker \cup {NoWorker}, expiry : Nat,
            result : Found \cup {NoResult}, effect : BOOLEAN, conditions : Nat,
            unconfirmed : Request \cup {NoRequest}, executions : Nat]
ServiceCall == [step : Step, task : Task \cup {NoTask}, lease : L!Lease \cup {NoLease},
                run : Request \cup {NoRequest}, outcome : Outcome \cup {NoResult},
                asset : Candidate \cup {NoAsset}, purpose : Purpose, source : Nat]

\* The rows of the ledger; one that was never enqueued has no mark.
TasksTold == /\ clock \in Nat
             /\ tasks \in [Task -> TaskRow]
             /\ \A t \in Task : tasks[t].status = "absent" => tasks[t].unconfirmed = NoRequest

\* The rows of the budget, as far as the service reads them.
CostsTold == /\ rows = [q \in Request |-> rows[q]]
             /\ \A q \in Request : "status" \in DOMAIN rows[q]

ServiceTyped ==
    /\ TasksTold
    /\ CostsTold
    /\ calls \in [Caller -> ServiceCall]
    /\ executions \subseteq Execution
    /\ confirmed \subseteq Request
    /\ published \subseteq Candidate

-----------------------------------------------------------------------------
(* What the operations of the ledger do to the rows of the tasks *)

\* No mark is set or taken away, and nothing is completed but by a publication.
Quiet(t) == /\ tasks'[t].unconfirmed = tasks[t].unconfirmed
            /\ tasks'[t].status = "completed" /\ ~tasks'[t].effect => tasks'[t] = tasks[t]
LedgerQuiet == TasksTold' /\ \A t \in Task : Quiet(t)

LEMMA WriteQuiet ==
  ASSUME TasksTold, NEW t \in Task, NEW row \in TaskRow,
         L!Write(t, row), row.unconfirmed = tasks[t].unconfirmed,
         row.status # "absent",
         row.status = "completed" /\ ~row.effect => row = tasks[t]
  PROVE  LedgerQuiet
<1>1. tasks'[t] = row /\ \A u \in Task : u # t => tasks'[u] = tasks[u]
  BY DEF L!Write, TasksTold
<1>2. tasks' \in [Task -> TaskRow] /\ clock' \in Nat
  <2> HIDE DEF TaskRow
  <2> QED BY DEF L!Write, TasksTold
<1>3. \A u \in Task : Quiet(u)
  BY <1>1 DEF Quiet
<1>4. \A u \in Task : tasks'[u].status = "absent" => tasks'[u].unconfirmed = NoRequest
  BY <1>1 DEF TasksTold
<1> QED BY <1>2, <1>3, <1>4 DEF LedgerQuiet, TasksTold

\* Expiry and clock are times.
LEMMA ExpiresLater ==
  ASSUME clock \in Nat, NEW ttl \in TTL
  PROVE  clock + ttl \in Nat
BY ServiceAssumption

LEMMA EnqueueQuiet ==
  ASSUME TasksTold, NEW t \in Task, L!Enqueue(t)
  PROVE  LedgerQuiet
<1> DEFINE row == [L!AbsentRow EXCEPT !.status = "available"]
<1>1. L!Write(t, row) /\ tasks[t].status = "absent"
  BY DEF L!Enqueue, L!Known
<1>2. row \in TaskRow /\ row.unconfirmed = NoRequest /\ row.status = "available"
  BY DEF L!AbsentRow, L!NoExpiry, TaskRow, L!Status
<1>3. tasks[t].unconfirmed = NoRequest
  BY <1>1 DEF TasksTold
<1> HIDE DEF row
<1> QED BY <1>1, <1>2, <1>3, WriteQuiet

LEMMA ClaimQuiet ==
  ASSUME TasksTold, NEW w \in Worker, NEW t \in Task, NEW ttl \in TTL, L!Claim(w, t, ttl)
  PROVE  LedgerQuiet
<1> DEFINE row == [tasks[t] EXCEPT !.status = "claimed", !.attempts = @ + 1,
                                   !.token = tasks[t].token + 1, !.owner = w,
                                   !.expiry = clock + ttl]
<1>1. L!Write(t, row)
  BY DEF L!Claim
<1>2. tasks[t] \in TaskRow /\ clock + ttl \in Nat /\ "claimed" \in L!Status
  BY ExpiresLater DEF TasksTold, L!Status
<1>3. /\ tasks[t].attempts + 1 \in Nat /\ tasks[t].token + 1 \in Nat
      /\ row = [tasks[t] EXCEPT !.status = "claimed", !.attempts = tasks[t].attempts + 1,
                                !.token = tasks[t].token + 1, !.owner = w,
                                !.expiry = clock + ttl]
  BY <1>2 DEF TaskRow
<1>4. row \in TaskRow /\ row.unconfirmed = tasks[t].unconfirmed /\ row.status = "claimed"
  <2> HIDE DEF row
  <2> QED BY <1>2, <1>3 DEF TaskRow
<1> HIDE DEF row
<1> QED BY <1>1, <1>4, WriteQuiet

LEMMA RenewQuiet ==
  ASSUME TasksTold, NEW l, l.task \in Task, NEW ttl \in TTL, L!Renew(l, ttl)
  PROVE  LedgerQuiet
<1> DEFINE t == l.task
           row == [tasks[t] EXCEPT !.expiry = clock + ttl]
<1>1. L!Write(t, row) /\ tasks[t].status = "claimed"
  BY DEF L!Renew, L!Holds, L!Owned
<1>2. row \in TaskRow /\ row.unconfirmed = tasks[t].unconfirmed /\ row.status = "claimed"
  BY <1>1, ExpiresLater DEF TasksTold, TaskRow
<1> HIDE DEF row
<1> QED BY <1>1, <1>2, WriteQuiet

LEMMA FinishQuiet ==
  ASSUME TasksTold, NEW l, l.task \in Task, NEW outcome, L!FinishAttempt(l, outcome)
  PROVE  LedgerQuiet
<1> DEFINE t == l.task
           next == IF tasks[t].unconfirmed # NoRequest THEN "blocked"
                   ELSE IF tasks[t].attempts >= MaxAttemptsPerTask THEN "failed"
                   ELSE "available"
           row == [tasks[t] EXCEPT !.status = next, !.owner = NoWorker,
                                   !.expiry = L!NoExpiry]
<1>1. L!Write(t, row)
  BY DEF L!FinishAttempt
<1>2. next \in {"blocked", "failed", "available"} /\ next \in L!Status
      /\ tasks[t] \in TaskRow /\ L!NoExpiry \in Nat
  BY DEF L!Status, TasksTold, L!NoExpiry
<1> HIDE DEF next
<1>3. row \in TaskRow /\ row.unconfirmed = tasks[t].unconfirmed /\ row.status = next
  BY <1>2 DEF TaskRow
<1> HIDE DEF row
<1> QED BY <1>1, <1>2, <1>3, WriteQuiet

LEMMA HandoffQuiet ==
  ASSUME TasksTold, NEW l, l.task \in Task, NEW next, L!Handoff(l, next, NoResult)
  PROVE  LedgerQuiet
<1> DEFINE t == l.task
           row == [tasks[t] EXCEPT !.status = "handoff", !.owner = NoWorker,
                                   !.expiry = L!NoExpiry, !.result = tasks[t].result]
<1>1. L!Write(t, row)
  BY DEF L!Handoff
<1>2. tasks[t] \in TaskRow /\ L!NoExpiry \in Nat /\ "handoff" \in L!Status
  BY DEF TasksTold, L!Status, L!NoExpiry
<1>3. row \in TaskRow /\ row.unconfirmed = tasks[t].unconfirmed /\ row.status = "handoff"
  BY <1>2 DEF TaskRow
<1> HIDE DEF row
<1> QED BY <1>1, <1>3, WriteQuiet

LEMMA IntentQuiet ==
  ASSUME TasksTold, NEW l, l.task \in Task, NEW r \in Found, L!SubmitIntent(l, r)
  PROVE  LedgerQuiet
<1> DEFINE t == l.task
           row == [tasks[t] EXCEPT !.status = "submitting", !.result = r]
<1>1. tasks' = [tasks EXCEPT ![t] = row] /\ UNCHANGED clock
  BY DEF L!SubmitIntent
<1>0. tasks[t] \in TaskRow /\ "submitting" \in L!Status
  BY DEF TasksTold, L!Status
<1>2. row \in TaskRow /\ row.unconfirmed = tasks[t].unconfirmed /\ row.status = "submitting"
  BY <1>0 DEF TaskRow
<1> HIDE DEF row
<1>3. tasks'[t] = row /\ \A u \in Task : u # t => tasks'[u] = tasks[u]
  BY <1>1 DEF TasksTold
<1>4. tasks' \in [Task -> TaskRow] /\ clock' \in Nat
  <2> HIDE DEF TaskRow
  <2> QED BY <1>1, <1>2 DEF TasksTold
<1> QED BY <1>2, <1>3, <1>4 DEF LedgerQuiet, TasksTold, Quiet

\* A publication touches the row of a task only when it commits.
LEMMA RowsUntouched ==
  ASSUME TasksTold, UNCHANGED <<clock, tasks>>
  PROVE  LedgerQuiet
BY DEF LedgerQuiet, TasksTold, Quiet

LEMMA CommitQuiet ==
  ASSUME TasksTold, L!PublishCommit
  PROVE  LedgerQuiet
<1>1. CASE L!Owned(writer, {"claimed", "submitting"})
  <2> DEFINE t == writer.task
             row == [tasks[t] EXCEPT !.status = "completed", !.result = tasks[t].result,
                                     !.effect = TRUE]
  <2>1. tasks' = [tasks EXCEPT ![t] = row] /\ UNCHANGED clock
    BY <1>1 DEF L!PublishCommit, L!Completed
  <2>2. ASSUME t \in Task
        PROVE  row \in TaskRow /\ row.unconfirmed = tasks[t].unconfirmed
               /\ row.status = "completed" /\ row.effect
    <3>1. tasks[t] \in TaskRow /\ "completed" \in L!Status
      BY <2>2 DEF TasksTold, L!Status
    <3> QED BY <3>1 DEF TaskRow
  <2> HIDE DEF row
  <2>3. \A u \in Task : tasks'[u] = IF u = t THEN row ELSE tasks[u]
    BY <2>1 DEF TasksTold
  <2>4. tasks' \in [Task -> TaskRow] /\ clock' \in Nat
    <3> HIDE DEF TaskRow
    <3> QED BY <2>1, <2>2 DEF TasksTold
  <2> QED BY <2>2, <2>3, <2>4 DEF LedgerQuiet, TasksTold, Quiet
<1>2. CASE ~L!Owned(writer, {"claimed", "submitting"})
  BY <1>2, RowsUntouched DEF L!PublishCommit
<1> QED BY <1>1, <1>2

LEMMA TickQuiet ==
  ASSUME TasksTold, L!Tick
  PROVE  LedgerQuiet
BY DEF L!Tick, TasksTold, LedgerQuiet, Quiet

-----------------------------------------------------------------------------
(* The invariant of the service *)

\* A run from its reservation to its confirmation, and from the ledger's mark on.
Experimenting == {"begin", "run", "settle", "record", "event", "resolve", "confirm"}
Begun == Experimenting \ {"begin"}

Reserved(q) == rows[q].status # "absent"
Resolved(q) == rows[q].status \notin {"absent", "pending"}

\* What a report says happened in a run that the ledger knows of.
Attested(asset, run, worker, purpose, outcome) ==
    /\ asset \in Candidate
    /\ purpose = "original" => asset[3] = worker
    /\ \E e \in executions : e.run = run /\ e.worker = worker /\ e.outcome = outcome
Vouched(asset) ==
    \E e \in executions : /\ e.worker # asset[3] /\ e.outcome.known
                          /\ e.outcome.verdict = "passed"
                          /\ \E r \in Of(asset) : r.run = e.run

\* What a call may rely on while others come between its steps.
Called(c) == calls[c].step # "idle" =>
    /\ calls[c].task \in Task /\ calls[c].lease \in L!Lease
    /\ calls[c].lease.task = calls[c].task
OwnRun(c) == calls[c].step \in Experimenting =>
    /\ calls[c].run \in Request /\ calls[c].run[1] = calls[c].task
    /\ Reserved(calls[c].run) /\ calls[c].run \notin confirmed
    /\ \A e \in executions : e.run = calls[c].run =>
           calls[c].step \in {"resolve", "confirm"} /\ e.outcome = calls[c].outcome
Marked(c) == calls[c].step \in Begun => tasks[calls[c].task].unconfirmed = calls[c].run
Closed(c) ==
    /\ calls[c].step \in Begun \ {"run"} => calls[c].outcome \in Outcome
    /\ calls[c].step = "settle" => ~generated
    /\ calls[c].step = "resolve" => generated
    /\ calls[c].step \in {"record", "event"} /\ ~generated => Resolved(calls[c].run)
    /\ calls[c].step = "confirm" => Resolved(calls[c].run) /\ calls[c].outcome.known
Grounded(c) ==
    /\ calls[c].step = "observe" =>
           Attested(calls[c].asset, calls[c].run, Host[c], calls[c].purpose, calls[c].outcome)
    /\ calls[c].step = "commit" => Vouched(calls[c].asset)
CallTrue(c) == Called(c) /\ OwnRun(c) /\ Marked(c) /\ Closed(c) /\ Grounded(c)

RunsDistinct == \A c, d \in Caller :
    c # d /\ calls[c].step \in Experimenting /\ calls[d].step \in Experimenting
        => calls[c].run # calls[d].run

RunsBooked ==
    /\ began \subseteq Request
    /\ \A q \in began \cup confirmed : Reserved(q)
    /\ \A e \in executions :
           /\ Reserved(e.run)
           /\ e.run \in confirmed \/ tasks[e.run[1]].unconfirmed = e.run
           /\ e.run \in confirmed => e.outcome.known
    /\ \A r \in reports : Attested(r.asset, r.run, r.worker, r.purpose, r.outcome)

ServiceInv ==
    /\ ServiceTyped
    /\ \A c \in Caller : CallTrue(c)
    /\ RunsDistinct
    /\ RunsBooked
    /\ BooksAgree
    /\ CompletedOnConfirmedRun
    /\ ApprovedIndependently

-----------------------------------------------------------------------------
(* Steps that leave the runs of other callers alone *)

\* A step that concerns no run but q.
Onward(q) ==
    /\ \A p \in Request : /\ Reserved(p) => Reserved(p)'
                          /\ Resolved(p) => Resolved(p)'
    /\ generated' = generated
    /\ executions \subseteq executions' /\ reports \subseteq reports'
    /\ \A e \in executions' \ executions : e.run = q
    /\ confirmed' \subseteq confirmed \cup {q}
    /\ \A t \in Task : \/ tasks'[t].unconfirmed = tasks[t].unconfirmed
                       \/ tasks[t].unconfirmed \in {NoRequest, q}

LEMMA AttestedStays ==
  ASSUME NEW asset, NEW run, NEW worker, NEW purpose, NEW outcome,
         executions \subseteq executions', Attested(asset, run, worker, purpose, outcome)
  PROVE  Attested(asset, run, worker, purpose, outcome)'
BY DEF Attested

LEMMA VouchedStays ==
  ASSUME NEW asset, executions \subseteq executions', reports \subseteq reports',
         Vouched(asset)
  PROVE  Vouched(asset)'
BY DEF Vouched, Of

LEMMA OtherCalls ==
  ASSUME ServiceInv, NEW q, Onward(q), NEW c \in Caller, calls'[c] = calls[c],
         calls[c].step \in Experimenting => calls[c].run # q
  PROVE  CallTrue(c)'
<1> DEFINE asset == calls[c].asset
           run == calls[c].run
           purpose == calls[c].purpose
           outcome == calls[c].outcome
<1>0. CallTrue(c)
  BY DEF ServiceInv
<1>1. Called(c)'
  BY <1>0 DEF CallTrue, Called
<1>2. OwnRun(c)'
  BY <1>0 DEF CallTrue, OwnRun, Onward
<1>3. Marked(c)'
  <2> SUFFICES ASSUME calls[c].step \in Begun
               PROVE  tasks'[calls[c].task].unconfirmed = calls[c].run
    BY DEF Marked
  <2>1. /\ calls[c].task \in Task /\ calls[c].run \in Request /\ calls[c].run # q
        /\ tasks[calls[c].task].unconfirmed = calls[c].run
    BY <1>0 DEF CallTrue, Called, OwnRun, Marked, Begun, Experimenting
  <2> QED BY <2>1, ServiceAssumption DEF Onward
<1>4. Closed(c)'
  BY <1>0 DEF CallTrue, Closed, Onward, OwnRun, Experimenting
<1>5. Grounded(c)'
  <2>1. CASE calls[c].step = "observe"
    <3>1. Attested(asset, run, Host[c], purpose, outcome)'
      BY <1>0, <2>1, AttestedStays DEF CallTrue, Grounded, Onward
    <3> QED BY <2>1, <3>1 DEF Grounded
  <2>2. CASE calls[c].step = "commit"
    <3>1. Vouched(asset)'
      BY <1>0, <2>2, VouchedStays DEF CallTrue, Grounded, Onward
    <3> QED BY <2>2, <3>1 DEF Grounded
  <2> QED BY <2>1, <2>2 DEF Grounded
<1> QED BY <1>1, <1>2, <1>3, <1>4, <1>5 DEF CallTrue

\* The books of runs and reports, when a step leaves them and the marks alone.
BooksLeft == UNCHANGED <<rows, generated, began, executions, confirmed>>
MarksLeft == \A t \in Task : tasks'[t].unconfirmed = tasks[t].unconfirmed
Steady == LedgerQuiet /\ BooksLeft

LEMMA SteadyMarks ==
  ASSUME Steady
  PROVE  MarksLeft /\ BooksLeft
BY DEF Steady, LedgerQuiet, Quiet, MarksLeft

LEMMA MarksOnward ==
  ASSUME ServiceInv, MarksLeft, BooksLeft, reports \subseteq reports'
  PROVE  Onward(NoRequest) /\ CostsTold'
BY DEF MarksLeft, BooksLeft, Onward, Reserved, Resolved, ServiceInv, ServiceTyped, CostsTold

LEMMA BooksStay ==
  ASSUME ServiceInv, MarksLeft, BooksLeft,
         \A r \in reports' : \/ r \in reports
                             \/ Attested(r.asset, r.run, r.worker, r.purpose, r.outcome)
  PROVE  RunsBooked' /\ BooksAgree'
<1>1. /\ began \subseteq Request
      /\ \A q \in began \cup confirmed : Reserved(q)
      /\ \A e \in executions :
             /\ Reserved(e.run)
             /\ e.run \in confirmed \/ tasks[e.run[1]].unconfirmed = e.run
             /\ e.run \in confirmed => e.outcome.known
             /\ e.run \in Request /\ e.run[1] \in Task
      /\ \A r \in reports : Attested(r.asset, r.run, r.worker, r.purpose, r.outcome)
  BY DEF ServiceInv, ServiceTyped, RunsBooked, Execution, Request
<1>2. /\ (began \subseteq Request)'
      /\ (\A q \in began \cup confirmed : Reserved(q))'
  BY <1>1 DEF BooksLeft, Reserved
<1>3. \A e \in executions' :
             /\ Reserved(e.run)'
             /\ e.run \in confirmed' \/ tasks'[e.run[1]].unconfirmed = e.run
             /\ e.run \in confirmed' => e.outcome.known
  BY <1>1 DEF MarksLeft, BooksLeft, Reserved
<1>4. \A r \in reports' : Attested(r.asset, r.run, r.worker, r.purpose, r.outcome)'
  <2> TAKE r \in reports'
  <2>1. Attested(r.asset, r.run, r.worker, r.purpose, r.outcome)
    BY <1>1
  <2> QED BY <2>1, AttestedStays DEF BooksLeft
<1>5. BooksAgree'
  <2>1. \A q \in began : q[1] \in Task /\ (rows[q].status = "pending" => tasks[q[1]].unconfirmed = q)
    BY DEF ServiceInv, RunsBooked, BooksAgree, Request
  <2> QED BY <2>1 DEF BooksAgree, MarksLeft, BooksLeft
<1> QED BY <1>2, <1>3, <1>4, <1>5 DEF RunsBooked

LEMMA SteadyProperties ==
  ASSUME ServiceInv, Steady, reports \subseteq reports',
         \A asset \in approved' : asset \in approved \/ Vouched(asset)
  PROVE  CompletedOnConfirmedRun' /\ ApprovedIndependently'
<1>2. CompletedOnConfirmedRun'
  BY DEF ServiceInv, CompletedOnConfirmedRun, Steady, BooksLeft, LedgerQuiet, Quiet
<1>3. \A asset \in approved' : Vouched(asset)
  BY DEF ServiceInv, ApprovedIndependently, Vouched
<1>4. \A asset \in approved' : Vouched(asset)'
  BY <1>3, VouchedStays DEF Steady, BooksLeft
<1>5. ApprovedIndependently'
  BY <1>4 DEF ApprovedIndependently, Vouched
<1> QED BY <1>2, <1>5

\* One call goes on, or begins, without a run of its own.
LEMMA CallGoesOn ==
  ASSUME ServiceInv, NEW c \in Caller, NEW q, Onward(q), NEW call \in ServiceCall,
         calls' = [calls EXCEPT ![c] = call],
         calls[c].step \in Experimenting => calls[c].run = q,
         q \in Request => calls[c].step \in Experimenting \/ ~Reserved(q),
         call.step \in Experimenting => call.run = q /\ q \in Request,
         CallTrue(c)'
  PROVE  /\ calls' \in [Caller -> ServiceCall]
         /\ \A d \in Caller : CallTrue(d)'
         /\ RunsDistinct'
<1>1. /\ calls'[c] = call /\ \A d \in Caller : d # c => calls'[d] = calls[d]
      /\ calls' \in [Caller -> ServiceCall]
  <2> HIDE DEF ServiceCall
  <2> QED BY DEF ServiceInv, ServiceTyped
<1>2. \A d \in Caller : d # c /\ calls[d].step \in Experimenting => calls[d].run # q
  <2> SUFFICES ASSUME NEW d \in Caller, d # c, calls[d].step \in Experimenting
               PROVE  calls[d].run # q
    OBVIOUS
  <2>1. calls[d].run \in Request /\ Reserved(calls[d].run)
    BY DEF ServiceInv, CallTrue, OwnRun
  <2> QED BY <2>1 DEF ServiceInv, RunsDistinct
<1>3. \A d \in Caller : d # c => CallTrue(d)'
  BY <1>1, <1>2, OtherCalls
<1>4. RunsDistinct'
  BY <1>1, <1>2 DEF RunsDistinct, ServiceInv
<1> QED BY <1>1, <1>3, <1>4

\* A call that ends, or takes a step without a run, in a steady service.
LEMMA CallSteady ==
  ASSUME ServiceInv, Steady, NEW c \in Caller, NEW call \in ServiceCall,
         calls' = [calls EXCEPT ![c] = call],
         call.step \notin Experimenting, CallTrue(c)',
         published' \subseteq Candidate,
         reports \subseteq reports',
         \A r \in reports' : \/ r \in reports
                             \/ Attested(r.asset, r.run, r.worker, r.purpose, r.outcome),
         \A asset \in approved' : asset \in approved \/ Vouched(asset)
  PROVE  ServiceInv'
<1> DEFINE q == IF calls[c].step \in Experimenting THEN calls[c].run ELSE NoRequest
<1>1. Onward(NoRequest) /\ CostsTold'
  BY SteadyMarks, MarksOnward
<1>2. Onward(q)
  BY <1>1 DEF Onward, Steady, BooksLeft, LedgerQuiet, Quiet
<1>3. q \in Request => calls[c].step \in Experimenting
  BY ServiceAssumption
<1> HIDE DEF q
<1>4. /\ calls' \in [Caller -> ServiceCall]
      /\ \A d \in Caller : CallTrue(d)'
      /\ RunsDistinct'
  <2>1. calls[c].step \in Experimenting => calls[c].run = q
    BY DEF q
  <2> QED BY <1>2, <1>3, <2>1, CallGoesOn
<1>5. ServiceTyped'
  BY <1>1, <1>4 DEF ServiceInv, ServiceTyped, Steady, LedgerQuiet, BooksLeft
<1> QED BY <1>4, <1>5, SteadyMarks, BooksStay, SteadyProperties DEF ServiceInv

\* Nobody's call changes, in a steady service.
LEMMA NoCallMoves ==
  ASSUME ServiceInv, Steady, UNCHANGED <<calls, reports, approved>>,
         published' \subseteq Candidate
  PROVE  ServiceInv'
<1>1. Onward(NoRequest) /\ CostsTold'
  BY SteadyMarks, MarksOnward
<1>2. \A c \in Caller : CallTrue(c)'
  <2> TAKE c \in Caller
  <2>1. calls[c].step \in Experimenting => calls[c].run # NoRequest
    BY ServiceAssumption DEF ServiceInv, CallTrue, OwnRun
  <2> QED BY <1>1, <2>1, OtherCalls
<1>3. RunsDistinct'
  BY DEF ServiceInv, RunsDistinct
<1>4. ServiceTyped'
  BY <1>1 DEF ServiceInv, ServiceTyped, Steady, LedgerQuiet, BooksLeft
<1> QED BY <1>2, <1>3, <1>4, SteadyMarks, BooksStay, SteadyProperties DEF ServiceInv

-----------------------------------------------------------------------------
(* The operations *)

\* The lease that a call reads for the worker of its server.
LEMMA LeaseRead ==
  ASSUME ServiceInv, NEW c \in Caller, NEW t \in Task
  PROVE  /\ LeaseOn(c, t) \in L!Lease /\ LeaseOn(c, t).task = t
         /\ Host[c] \in Worker /\ Mine(c, t) \in Candidate
<1>1. tasks[t] \in TaskRow /\ Host[c] \in Worker
  BY ServiceAssumption DEF ServiceInv, ServiceTyped, TasksTold
<1>2. tasks[t].token \in Nat /\ tasks[t].expiry \in Nat
  BY <1>1 DEF TaskRow
<1> QED BY <1>1, <1>2 DEF LeaseOn, L!Lease, Mine, Candidate

LEMMA IdleCall ==
  /\ Idle \in ServiceCall /\ Idle.step = "idle"
  /\ "idle" \notin Experimenting
BY DEF Idle, ServiceCall, Step, Purpose, Experimenting

\* Over means that the call knows nothing any more.
LEMMA CallIsOver ==
  ASSUME ServiceInv, NEW c \in Caller, Done(c)
  PROVE  calls' = [calls EXCEPT ![c] = Idle] /\ CallTrue(c)'
<1>1. calls' = [calls EXCEPT ![c] = Idle] /\ calls'[c] = Idle
  BY DEF Done, ServiceInv, ServiceTyped
<1> QED BY <1>1, IdleCall DEF CallTrue, Called, OwnRun, Marked, Closed, Grounded, Begun, Experimenting

LEMMA EndsSteady ==
  ASSUME ServiceInv, Steady, NEW c \in Caller, Done(c), published' \subseteq Candidate,
         reports \subseteq reports',
         \A r \in reports' : \/ r \in reports
                             \/ Attested(r.asset, r.run, r.worker, r.purpose, r.outcome),
         \A asset \in approved' : asset \in approved \/ Vouched(asset)
  PROVE  ServiceInv'
BY CallIsOver, IdleCall, CallSteady

LEMMA SeedKeeps ==
  ASSUME ServiceInv, NEW t \in Task, Seed(t)
  PROVE  ServiceInv'
<1>1. LedgerQuiet
  BY EnqueueQuiet DEF Seed, ServiceInv, ServiceTyped
<1> QED BY <1>1, NoCallMoves DEF Seed, Steady, BooksLeft, BudgetIdle, budget, RunsIdle,
          experiments, StoreIdle, store, PlansKept, Configured, ServiceInv, ServiceTyped

LEMMA TickKeeps ==
  ASSUME ServiceInv, Tick
  PROVE  ServiceInv'
<1>1. LedgerQuiet
  BY TickQuiet DEF Tick, ServiceInv, ServiceTyped
<1> QED BY <1>1, NoCallMoves DEF Tick, Steady, BooksLeft, BudgetIdle, budget, RunsIdle,
          experiments, StoreIdle, store, PlansKept, Configured, ServiceInv, ServiceTyped

LEMMA LeaseStepsKeep ==
  ASSUME ServiceInv, NEW c \in Caller, NEW t \in Task,
         Claim(c, t) \/ Renew(c, t) \/ Release(c, t) \/ Handoff(c, t)
  PROVE  ServiceInv'
<1>0. TasksTold /\ LeaseOn(c, t).task = t /\ Host[c] \in Worker
  BY LeaseRead DEF ServiceInv, ServiceTyped
<1>1. CASE Claim(c, t)
  <2>1. LedgerQuiet
    BY <1>0, <1>1, ClaimQuiet DEF Claim
  <2> QED BY <1>1, <2>1, NoCallMoves DEF Claim, Steady, BooksLeft, BudgetIdle, budget, RunsIdle,
          experiments, StoreIdle, store, PlansKept, Configured, ServiceInv, ServiceTyped
<1>2. CASE Renew(c, t)
  <2>1. LedgerQuiet
    BY <1>0, <1>2, RenewQuiet DEF Renew
  <2> QED BY <1>2, <2>1, NoCallMoves DEF Renew, Steady, BooksLeft, BudgetIdle, budget, RunsIdle,
          experiments, StoreIdle, store, PlansKept, Configured, ServiceInv, ServiceTyped
<1>3. CASE Release(c, t)
  <2>1. LedgerQuiet
    BY <1>0, <1>3, FinishQuiet DEF Release, L!Release
  <2> QED BY <1>3, <2>1, NoCallMoves DEF Release, Steady, BooksLeft, BudgetIdle, budget, RunsIdle,
          experiments, StoreIdle, store, PlansKept, Configured, ServiceInv, ServiceTyped
<1>4. CASE Handoff(c, t)
  <2>1. LedgerQuiet
    BY <1>0, <1>4, HandoffQuiet DEF Handoff
  <2> QED BY <1>4, <2>1, NoCallMoves DEF Handoff, Steady, BooksLeft, BudgetIdle, budget, RunsIdle,
          experiments, StoreIdle, store, PlansKept, Configured, ServiceInv, ServiceTyped
<1> QED BY <1>1, <1>2, <1>3, <1>4

LEMMA CandidatesKeep ==
  ASSUME ServiceInv, NEW c \in Caller, NEW t \in Task, Publish(c, t) \/ Prepare(c, t)
  PROVE  ServiceInv'
<1>1. published \subseteq Candidate /\ Mine(c, t) \in Candidate
  BY LeaseRead DEF ServiceInv, ServiceTyped
<1>2. published' \subseteq Candidate
  <2>1. CASE Publish(c, t)
    BY <1>1, <2>1 DEF Publish
  <2>2. CASE Prepare(c, t)
    BY <1>1, <2>2 DEF Prepare
  <2> QED BY <2>1, <2>2
<1>3. /\ UNCHANGED <<ledger, budget, experiments, generated, calls, reports, approved>>
  BY DEF Publish, Prepare, LedgerIdle, BudgetIdle, RunsIdle, PlansKept, Configured
<1>4. Steady
  BY <1>3, RowsUntouched DEF ledger, budget, experiments, Steady, BooksLeft, ServiceInv, ServiceTyped
<1> QED BY <1>2, <1>3, <1>4, NoCallMoves

\* A read-only step into a call.
LEMMA EntersKeep ==
  ASSUME ServiceInv, NEW c \in Caller, NEW call \in ServiceCall,
         UNCHANGED <<ledger, budget, experiments, store, generated>>,
         calls' = [calls EXCEPT ![c] = call],
         call.step \notin Experimenting \cup {"idle"},
         call.task \in Task, call.lease \in L!Lease, call.lease.task = call.task,
         call.step = "observe" =>
             Attested(call.asset, call.run, Host[c], call.purpose, call.outcome),
         call.step = "commit" => Vouched(call.asset)
  PROVE  ServiceInv'
<1>1. Steady
  BY RowsUntouched DEF ledger, budget, experiments, Steady, BooksLeft, ServiceInv, ServiceTyped
<1>2. calls'[c] = call /\ UNCHANGED <<reports, executions, approved, published>>
  BY DEF ServiceInv, ServiceTyped, store, experiments
<1>3. call.step = "observe" =>
          Attested(call.asset, call.run, Host[c], call.purpose, call.outcome)'
  BY <1>2 DEF Attested
<1>4. call.step = "commit" => Vouched(call.asset)'
  BY <1>2 DEF Vouched, Of
<1>5. CallTrue(c)'
  BY <1>2, <1>3, <1>4
     DEF CallTrue, Called, OwnRun, Marked, Closed, Grounded, Begun, Experimenting
<1> QED BY <1>1, <1>2, <1>5, CallSteady DEF ServiceInv, ServiceTyped

LEMMA ExecuteCheckKeeps ==
  ASSUME ServiceInv, NEW c \in Caller, NEW t \in Task, ExecuteCheck(c, t)
  PROVE  ServiceInv'
<1> DEFINE call == [Idle EXCEPT !.step = "reserve", !.task = t, !.lease = LeaseOn(c, t)]
<1>1. call \in ServiceCall
  BY LeaseRead, IdleCall DEF ServiceCall, Step
<1>2. /\ call.step = "reserve" /\ call.task = t /\ call.lease = LeaseOn(c, t)
  BY DEF Idle
<1>3. /\ UNCHANGED <<ledger, budget, experiments, store, generated>>
      /\ calls' = [calls EXCEPT ![c] = call]
  BY DEF ExecuteCheck, LedgerIdle, BudgetIdle, RunsIdle, StoreIdle, PlansKept, Configured
<1> HIDE DEF call
<1> QED BY <1>1, <1>2, <1>3, LeaseRead, EntersKeep DEF Experimenting

LEMMA ObserveReadKeeps ==
  ASSUME ServiceInv, NEW c \in Caller, ObserveRead(c)
  PROVE  ServiceInv'
<1>1. PICK e \in executions, asset \in published, purpose \in Purpose :
          /\ Leased(c, e.run[1])
          /\ Observable(c, e, asset, purpose)
          /\ calls' = [calls EXCEPT ![c] =
                 [Idle EXCEPT !.step = "observe", !.task = e.run[1],
                              !.lease = LeaseOn(c, e.run[1]), !.run = e.run,
                              !.outcome = e.outcome, !.asset = asset,
                              !.purpose = purpose, !.source = e.token]]
  BY DEF ObserveRead
<1> DEFINE t == e.run[1]
           call == [Idle EXCEPT !.step = "observe", !.task = t, !.lease = LeaseOn(c, t),
                                !.run = e.run, !.outcome = e.outcome, !.asset = asset,
                                !.purpose = purpose, !.source = e.token]
<1>2. e \in Execution /\ asset \in Candidate
  BY DEF ServiceInv, ServiceTyped
<1>3. t \in Task /\ e.run \in Request /\ e.outcome \in Outcome /\ e.token \in Nat
  BY <1>2 DEF Execution, Request
<1>4. LeaseOn(c, t) \in L!Lease /\ LeaseOn(c, t).task = t
  BY <1>3, LeaseRead
<1>5. call \in ServiceCall
  <2> HIDE DEF t
  <2> QED BY <1>2, <1>3, <1>4, IdleCall DEF ServiceCall, Step
<1>6. /\ call.step = "observe" /\ call.task = t /\ call.lease = LeaseOn(c, t)
      /\ call.run = e.run /\ call.outcome = e.outcome /\ call.asset = asset
      /\ call.purpose = purpose
  BY DEF Idle
<1>7. Attested(asset, e.run, Host[c], purpose, e.outcome)
  <2>1. e.worker = Host[c] /\ (purpose = "original" => asset = <<t, e.token, Host[c]>>)
    BY <1>1 DEF Observable
  <2> QED BY <1>2, <2>1 DEF Attested
<1>8. /\ UNCHANGED <<ledger, budget, experiments, store, generated>>
      /\ calls' = [calls EXCEPT ![c] = call]
  BY <1>1 DEF ObserveRead, LedgerIdle, BudgetIdle, RunsIdle, StoreIdle, PlansKept, Configured
<1> HIDE DEF call
<1> QED BY <1>3, <1>4, <1>5, <1>6, <1>7, <1>8, EntersKeep DEF Experimenting

\* Two independent reports vouch for a candidate: the author made the first, so
\* somebody else made the second.
LEMMA ReproducedVouched ==
  ASSUME ServiceInv, NEW asset, Reproduced(asset)
  PROVE  Vouched(asset)
<1>1. PICK a, b \in Of(asset) : /\ Passed(a, "original") /\ Passed(b, "reproduction")
                                /\ Independent(a, b)
  BY DEF Reproduced
<1>2. /\ a \in reports /\ a.asset = asset /\ a.purpose = "original"
      /\ b \in reports /\ b.asset = asset /\ b.outcome.known /\ b.outcome.verdict = "passed"
      /\ a.worker # b.worker
  BY <1>1 DEF Of, Passed, Independent
<1>3. asset[3] = a.worker
  BY <1>2 DEF ServiceInv, RunsBooked, Attested
<1>4. PICK e \in executions : e.run = b.run /\ e.worker = b.worker /\ e.outcome = b.outcome
  BY <1>2 DEF ServiceInv, RunsBooked, Attested
<1> QED BY <1>1, <1>2, <1>3, <1>4 DEF Vouched

LEMMA ApprovePrepareKeeps ==
  ASSUME ServiceInv, NEW c \in Caller, NEW t \in Task, ApprovePrepare(c, t)
  PROVE  ServiceInv'
<1>1. PICK asset \in published :
          /\ Reproduced(asset)
          /\ calls' = [calls EXCEPT ![c] =
                 [Idle EXCEPT !.step = "commit", !.task = t, !.lease = LeaseOn(c, t),
                              !.asset = asset]]
  BY DEF ApprovePrepare
<1> DEFINE call == [Idle EXCEPT !.step = "commit", !.task = t, !.lease = LeaseOn(c, t),
                                !.asset = asset]
<1>2. asset \in Candidate /\ LeaseOn(c, t) \in L!Lease /\ LeaseOn(c, t).task = t
  BY LeaseRead DEF ServiceInv, ServiceTyped
<1>3. call \in ServiceCall
  BY <1>2, IdleCall DEF ServiceCall, Step
<1>4. /\ call.step = "commit" /\ call.task = t /\ call.lease = LeaseOn(c, t)
      /\ call.asset = asset
  BY DEF Idle
<1>5. /\ UNCHANGED <<ledger, budget, experiments, store, generated>>
      /\ calls' = [calls EXCEPT ![c] = call]
  BY <1>1 DEF ApprovePrepare, LedgerIdle, BudgetIdle, RunsIdle, StoreIdle, PlansKept, Configured
<1>6. Vouched(asset)
  BY <1>1, ReproducedVouched
<1> HIDE DEF call
<1> QED BY <1>2, <1>3, <1>4, <1>5, <1>6, EntersKeep DEF Experimenting

LEMMA ApplyCheckKeeps ==
  ASSUME ServiceInv, NEW c \in Caller, NEW t \in Task, ApplyCheck(c, t)
  PROVE  ServiceInv'
<1>1. PICK asset \in published :
          calls' = [calls EXCEPT ![c] =
                 [Idle EXCEPT !.step = "submit", !.task = t, !.lease = LeaseOn(c, t),
                              !.asset = asset]]
  BY DEF ApplyCheck
<1> DEFINE call == [Idle EXCEPT !.step = "submit", !.task = t, !.lease = LeaseOn(c, t),
                                !.asset = asset]
<1>2. asset \in Candidate /\ LeaseOn(c, t) \in L!Lease /\ LeaseOn(c, t).task = t
  BY LeaseRead DEF ServiceInv, ServiceTyped
<1>3. call \in ServiceCall
  BY <1>2, IdleCall DEF ServiceCall, Step
<1>4. /\ call.step = "submit" /\ call.task = t /\ call.lease = LeaseOn(c, t)
  BY DEF Idle
<1>5. /\ UNCHANGED <<ledger, budget, experiments, store, generated>>
      /\ calls' = [calls EXCEPT ![c] = call]
  BY <1>1 DEF ApplyCheck, LedgerIdle, BudgetIdle, RunsIdle, StoreIdle, PlansKept, Configured
<1> HIDE DEF call
<1> QED BY <1>2, <1>3, <1>4, <1>5, EntersKeep DEF Experimenting

LEMMA CompleteKeeps ==
  ASSUME ServiceInv, NEW c \in Caller, NEW t \in Task, Complete(c, t)
  PROVE  ServiceInv'
<1>1. PICK r \in reports :
          /\ r.run[1] = t /\ r.worker = Host[c]
          /\ L!SubmitFact(LeaseOn(c, t), [asset |-> r.asset, run |-> r.run])
  BY DEF Complete
<1>2. /\ r.asset \in Candidate
      /\ \E e \in executions : e.run = r.run /\ e.worker = Host[c] /\ e.outcome = r.outcome
  BY <1>1 DEF ServiceInv, RunsBooked, Attested
<1>3. PICK e \in executions : e.run = r.run /\ e.worker = Host[c] /\ e.outcome = r.outcome
  BY <1>2
<1>4. /\ tasks[t].unconfirmed = NoRequest /\ tasks[t] \in TaskRow
      /\ e \in Execution /\ TasksTold
  BY DEF Complete, ServiceInv, ServiceTyped, TasksTold
<1>5. e.run \in Request
  BY <1>4 DEF Execution
<1>6. e.run \in confirmed /\ e.outcome.known
  <2>1. e.run \in confirmed \/ tasks[e.run[1]].unconfirmed = e.run
    BY DEF ServiceInv, RunsBooked
  <2>2. e.run \in confirmed => e.outcome.known
    BY DEF ServiceInv, RunsBooked
  <2> QED BY <1>1, <1>3, <1>4, <1>5, <2>1, <2>2, ServiceAssumption
<1> DEFINE found == [asset |-> r.asset, run |-> r.run]
           row == [tasks[t] EXCEPT !.status = "completed", !.result = found, !.effect = FALSE]
<1>7. /\ tasks' = [tasks EXCEPT ![t] = row]
      /\ tasks[t].owner = Host[c] /\ UNCHANGED clock
  BY <1>1 DEF L!SubmitFact, L!Completed, L!Holds, L!Owned, LeaseOn
<1>8. found \in Found /\ found.run = r.run
  BY <1>2, <1>3, <1>5 DEF Found
<1> HIDE DEF found
<1>9. /\ row \in TaskRow /\ row.unconfirmed = NoRequest /\ row.status = "completed"
      /\ row.result = found /\ row.owner = Host[c]
  <2>1. "completed" \in L!Status
    BY DEF L!Status
  <2> QED BY <1>4, <1>7, <1>8, <2>1 DEF TaskRow
<1> HIDE DEF row
<1>10. /\ tasks' \in [Task -> TaskRow] /\ tasks'[t] = row
       /\ \A u \in Task : u # t => tasks'[u] = tasks[u]
  <2> HIDE DEF TaskRow
  <2> QED BY <1>4, <1>7, <1>9 DEF TasksTold
<1>11. TasksTold' /\ MarksLeft
  BY <1>4, <1>7, <1>9, <1>10 DEF TasksTold, MarksLeft
<1>12. UNCHANGED <<rows, generated, experiments, calls, store>> /\ BooksLeft
  BY DEF Complete, BudgetIdle, budget, RunsIdle, experiments, StoreIdle, PlansKept, Configured,
         BooksLeft
<1>13. Onward(NoRequest) /\ CostsTold'
  BY <1>11, <1>12, MarksOnward DEF store
<1>14. \A d \in Caller : CallTrue(d)'
  <2> TAKE d \in Caller
  <2>1. calls[d].step \in Experimenting => calls[d].run # NoRequest
    BY ServiceAssumption DEF ServiceInv, CallTrue, OwnRun
  <2> QED BY <1>12, <1>13, <2>1, OtherCalls
<1>15. RunsDistinct' /\ ServiceTyped'
  BY <1>11, <1>12, <1>13 DEF ServiceInv, ServiceTyped, RunsDistinct, experiments, store
<1>16. RunsBooked' /\ BooksAgree'
  <2>1. \A x \in reports' : x \in reports
    BY <1>12 DEF store
  <2> QED BY <1>11, <1>12, <2>1, BooksStay
<1>17. CompletedOnConfirmedRun'
  BY <1>3, <1>6, <1>8, <1>9, <1>10, <1>12
     DEF ServiceInv, CompletedOnConfirmedRun, experiments
<1>18. ApprovedIndependently'
  BY <1>12 DEF ServiceInv, ApprovedIndependently, Of, experiments, store
<1> QED BY <1>14, <1>15, <1>16, <1>17, <1>18 DEF ServiceInv

LEMMA ObserveRecordKeeps ==
  ASSUME ServiceInv, NEW c \in Caller, ObserveRecord(c)
  PROVE  ServiceInv'
<1> DEFINE r == [asset |-> calls[c].asset, run |-> calls[c].run, worker |-> Host[c],
                 purpose |-> calls[c].purpose, outcome |-> calls[c].outcome,
                 token |-> calls[c].lease.token, source |-> calls[c].source]
<1>1. Attested(calls[c].asset, calls[c].run, Host[c], calls[c].purpose, calls[c].outcome)
  BY DEF ObserveRecord, At, ServiceInv, CallTrue, Grounded
<1>2. Attested(r.asset, r.run, r.worker, r.purpose, r.outcome)
  BY <1>1
<1>3. reports' = reports \cup {r} \/ reports' = reports
  BY DEF ObserveRecord
<1> HIDE DEF r
<1>4. Steady /\ Done(c) /\ UNCHANGED <<published, approved>>
  BY RowsUntouched DEF ObserveRecord, LedgerIdle, ledger, BudgetIdle, budget, RunsIdle, experiments,
     PlansKept, Configured, Steady, BooksLeft, ServiceInv, ServiceTyped
<1> QED BY <1>2, <1>3, <1>4, EndsSteady DEF ServiceInv, ServiceTyped

LEMMA ApproveCommitKeeps ==
  ASSUME ServiceInv, NEW c \in Caller, ApproveCommit(c)
  PROVE  ServiceInv'
<1>1. Vouched(calls[c].asset)
  BY DEF ApproveCommit, At, ServiceInv, CallTrue, Grounded
<1>2. approved' \subseteq approved \cup {calls[c].asset}
  BY DEF ApproveCommit
<1>3. Steady /\ Done(c) /\ UNCHANGED <<published, reports>>
  BY RowsUntouched DEF ApproveCommit, LedgerIdle, ledger, BudgetIdle, budget, RunsIdle, experiments,
     PlansKept, Configured, Steady, BooksLeft, ServiceInv, ServiceTyped
<1> QED BY <1>1, <1>2, <1>3, EndsSteady DEF ServiceInv, ServiceTyped

\* A call goes on, outside a run.
LEMMA MovesSteady ==
  ASSUME ServiceInv, Steady, NEW c \in Caller, UNCHANGED store,
         NEW call \in ServiceCall, calls' = [calls EXCEPT ![c] = call],
         call.step \notin Experimenting \cup {"observe", "commit"},
         call.task \in Task, call.lease \in L!Lease, call.lease.task = call.task
  PROVE  ServiceInv'
<1>1. calls'[c] = call
  BY DEF ServiceInv, ServiceTyped
<1>2. CallTrue(c)'
  BY <1>1 DEF CallTrue, Called, OwnRun, Marked, Closed, Grounded, Begun, Experimenting
<1>3. UNCHANGED <<published, reports, approved>>
  BY DEF store
<1> QED BY <1>2, <1>3, CallSteady DEF ServiceInv, ServiceTyped

\* The next step of a call, which knows what it knew.
LEMMA CallGoes ==
  ASSUME ServiceInv, NEW c \in Caller, NEW step \in Step, Go(c, step)
  PROVE  \E call \in ServiceCall :
            /\ calls' = [calls EXCEPT ![c] = call] /\ calls'[c] = call
            /\ call.step = step /\ call.task = calls[c].task /\ call.lease = calls[c].lease
            /\ call.run = calls[c].run /\ call.outcome = calls[c].outcome
<1> DEFINE call == [calls[c] EXCEPT !.step = step]
<1>1. calls[c] \in ServiceCall /\ calls \in [Caller -> ServiceCall]
  BY DEF ServiceInv, ServiceTyped
<1>2. /\ call \in ServiceCall
      /\ call.step = step /\ call.task = calls[c].task /\ call.lease = calls[c].lease
      /\ call.run = calls[c].run /\ call.outcome = calls[c].outcome
  BY <1>1 DEF ServiceCall
<1>3. calls' = [calls EXCEPT ![c] = call] /\ calls'[c] = call
  <2> HIDE DEF ServiceCall
  <2> QED BY <1>1 DEF Go
<1> HIDE DEF call
<1> QED BY <1>2, <1>3

LEMMA ApplySubmitKeeps ==
  ASSUME ServiceInv, NEW c \in Caller, ApplySubmit(c)
  PROVE  ServiceInv'
<1>1. /\ calls[c].task \in Task /\ calls[c] \in ServiceCall
      /\ calls \in [Caller -> ServiceCall] /\ TasksTold
  BY DEF ApplySubmit, At, ServiceInv, ServiceTyped, CallTrue, Called
<1>2. FreshLease(c) \in L!Lease /\ FreshLease(c).task = calls[c].task
  BY <1>1, LeaseRead DEF FreshLease
<1>3. UNCHANGED store /\ UNCHANGED <<published, reports, approved>> /\ BooksLeft
  BY DEF ApplySubmit, StoreIdle, store, BudgetIdle, budget, RunsIdle, experiments, PlansKept,
         Configured, BooksLeft
<1>4. CASE StillLeased(c)
  <2> DEFINE call == [calls[c] EXCEPT !.step = "lock", !.lease = FreshLease(c)]
             found == [asset |-> calls[c].asset, run |-> NoRequest]
  <2>1. L!SubmitIntent(FreshLease(c), found)
    BY <1>4 DEF ApplySubmit
  <2>2. found \in Found
    BY <1>1 DEF Found, ServiceCall
  <2> HIDE DEF found
  <2>3. LedgerQuiet
    BY <1>1, <1>2, <2>1, <2>2, IntentQuiet
  <2>4. /\ call \in ServiceCall /\ call.step = "lock" /\ call.task = calls[c].task
        /\ call.lease = FreshLease(c)
    BY <1>1, <1>2 DEF ServiceCall, Step
  <2>5. calls' = [calls EXCEPT ![c] = call]
    <3> HIDE DEF ServiceCall
    <3> QED BY <1>1, <1>4 DEF ApplySubmit
  <2> HIDE DEF call
  <2> QED BY <1>1, <1>2, <1>3, <2>3, <2>4, <2>5, MovesSteady DEF Steady, Experimenting
<1>5. CASE ~StillLeased(c)
  <2>1. Done(c) /\ UNCHANGED <<clock, tasks>>
    BY <1>5 DEF ApplySubmit, LedgerIdle, ledger
  <2> QED BY <1>1, <1>3, <2>1, RowsUntouched, EndsSteady DEF Steady, ServiceInv, ServiceTyped
<1> QED BY <1>4, <1>5

LEMMA ApplyLockKeeps ==
  ASSUME ServiceInv, NEW c \in Caller, ApplyLock(c)
  PROVE  ServiceInv'
<1>1. UNCHANGED store /\ UNCHANGED <<published, reports, approved>> /\ BooksLeft
  BY DEF ApplyLock, StoreIdle, store, BudgetIdle, budget, RunsIdle, experiments, PlansKept,
         Configured, BooksLeft
<1>2. Steady
  BY <1>1, RowsUntouched DEF ApplyLock, L!PublishBegin, Steady, ServiceInv, ServiceTyped
<1>3. CASE Go(c, "write")
  <2>1. /\ calls[c].task \in Task /\ calls[c].lease \in L!Lease
        /\ calls[c].lease.task = calls[c].task /\ "write" \in Step
    BY DEF ApplyLock, At, ServiceInv, CallTrue, Called, Step
  <2>2. PICK call \in ServiceCall :
            /\ calls' = [calls EXCEPT ![c] = call]
            /\ call.step = "write" /\ call.task = calls[c].task /\ call.lease = calls[c].lease
    BY <1>3, <2>1, CallGoes
  <2> QED BY <1>1, <1>2, <2>1, <2>2, MovesSteady DEF Experimenting
<1>4. CASE Done(c)
  BY <1>1, <1>2, <1>4, EndsSteady DEF ServiceInv, ServiceTyped
<1> QED BY <1>3, <1>4 DEF ApplyLock

LEMMA ApplyWriteKeeps ==
  ASSUME ServiceInv, NEW c \in Caller, ApplyWrite(c)
  PROVE  ServiceInv'
<1>1. UNCHANGED store /\ UNCHANGED <<published, reports, approved>> /\ BooksLeft
  BY DEF ApplyWrite, StoreIdle, store, BudgetIdle, budget, RunsIdle, experiments, PlansKept,
         Configured, BooksLeft
<1>2. CASE L!PublishApply /\ UNCHANGED calls
  BY <1>1, <1>2, RowsUntouched, NoCallMoves DEF L!PublishApply, Steady, ServiceInv, ServiceTyped
<1>3. CASE L!PublishRefused /\ Done(c)
  BY <1>1, <1>3, RowsUntouched, EndsSteady DEF L!PublishRefused, Steady, ServiceInv, ServiceTyped
<1>4. CASE L!PublishCommit /\ Done(c)
  BY <1>1, <1>4, CommitQuiet, EndsSteady DEF Steady, ServiceInv, ServiceTyped
<1> QED BY <1>2, <1>3, <1>4 DEF ApplyWrite

LEMMA CrashKeeps ==
  ASSUME ServiceInv, NEW c \in Caller, Crash(c)
  PROVE  ServiceInv'
<1>1. UNCHANGED <<published, reports, approved, clock, tasks>> /\ BooksLeft /\ Done(c)
  BY DEF Crash, StoreIdle, store, BudgetIdle, budget, RunsIdle, experiments, PlansKept,
         Configured, BooksLeft, LedgerIdle, ledger, L!Crash
<1> QED BY <1>1, RowsUntouched, EndsSteady DEF Steady, ServiceInv, ServiceTyped

-----------------------------------------------------------------------------
(* What the operations of the budget do to its rows *)

\* A row that moves at all has been resolved.
CostClosed(q) ==
    /\ CostsTold'
    /\ \A p \in Request : p # q => rows'[p] = rows[p]
    /\ rows[q].status # "absent" => rows'[q].status # "absent"
    /\ rows'[q] = rows[q] \/ rows'[q].status \notin {"absent", "pending"}

LEMMA RowSettled ==
  ASSUME NEW row, "status" \in DOMAIN row, NEW u, NEW now
  PROVE  /\ "status" \in DOMAIN B!SettledRow(row, u, now)
         /\ B!SettledRow(row, u, now).status \notin {"absent", "pending"}
<1>1. CASE u = NoUsage
  BY <1>1 DEF B!SettledRow, B!UncertainRow
<1>2. CASE u # NoUsage /\ ~policy.priced
  BY <1>2 DEF B!SettledRow, B!UncostedRow
<1>3. CASE u # NoUsage /\ policy.priced
  BY <1>3 DEF B!SettledRow, B!CostedRow
<1> QED BY <1>1, <1>2, <1>3

LEMMA SettleCloses ==
  ASSUME CostsTold, NEW q \in Request, NEW u, NEW stop, NEW now, B!Settle(q, u, stop, now)
  PROVE  /\ CostClosed(q) /\ rows[q].status = "pending"
         /\ rows'[q].status \notin {"absent", "pending"}
<1> DEFINE row == B!SettledRow(rows[q], u, now)
<1>1. rows' = [rows EXCEPT ![q] = row] /\ rows[q].status = "pending"
  BY DEF B!Settle
<1>2. "status" \in DOMAIN row /\ row.status \notin {"absent", "pending"}
  BY RowSettled DEF CostsTold
<1> HIDE DEF row
<1>3. rows'[q] = row /\ \A p \in Request : p # q => rows'[p] = rows[p]
  BY <1>1 DEF CostsTold
<1>4. rows' = [p \in Request |-> rows'[p]]
  BY <1>1 DEF CostsTold
<1>5. CostsTold'
  BY <1>2, <1>3, <1>4 DEF CostsTold
<1> QED BY <1>1, <1>2, <1>3, <1>5 DEF CostClosed

LEMMA MarkCloses ==
  ASSUME CostsTold, NEW q \in Request, MarkUncertain(q)
  PROVE  CostClosed(q)
<1>1. CASE rows[q].status = "pending"
  BY <1>1, SettleCloses DEF MarkUncertain
<1>2. CASE rows[q].status # "pending"
  BY <1>2 DEF MarkUncertain, BudgetIdle, budget, CostClosed, CostsTold, Reserved
<1> QED BY <1>1, <1>2

LEMMA ReserveOpens ==
  ASSUME CostsTold, NEW q \in Request, NEW w, NEW t, NEW b, NEW now, B!Reserve(w, t, q, b, now)
  PROVE  /\ CostsTold' /\ ~Reserved(q) /\ rows'[q].status = "pending"
         /\ \A p \in Request : p # q => rows'[p] = rows[p]
<1> DEFINE row == [B!AbsentRow EXCEPT !.status = "pending", !.worker = w, !.task = t,
                       !.bound = b, !.reserved = B!ReservationAmount(b), !.created = now]
<1>1. rows' = [rows EXCEPT ![q] = row] /\ rows[q].status = "absent"
  BY DEF B!Reserve, B!Reservable, B!Held
<1>2. "status" \in DOMAIN row /\ row.status = "pending"
  BY DEF B!AbsentRow
<1> HIDE DEF row
<1>3. rows'[q] = row /\ \A p \in Request : p # q => rows'[p] = rows[p]
  BY <1>1 DEF CostsTold
<1>4. rows' = [p \in Request |-> rows'[p]]
  BY <1>1 DEF CostsTold
<1> QED BY <1>1, <1>2, <1>3, <1>4 DEF CostsTold, Reserved

-----------------------------------------------------------------------------
(* One experiment *)

\* The reservation of a run is closed, or the run reaches the backend.
LEMMA ClosingBooks ==
  ASSUME ServiceInv, LedgerQuiet, NEW q \in Request, CostClosed(q),
         UNCHANGED <<generated, executions, confirmed, reports, approved>>,
         began \subseteq began', began' \subseteq began \cup {q},
         q \in began' \ began => Reserved(q) /\ tasks[q[1]].unconfirmed = q
  PROVE  /\ Onward(q) /\ RunsBooked' /\ BooksAgree'
         /\ CompletedOnConfirmedRun' /\ ApprovedIndependently'
<1>1. \A p \in Request : /\ Reserved(p) => Reserved(p)'
                         /\ Resolved(p) => Resolved(p)'
  BY DEF CostClosed, Reserved, Resolved
<1>2. \A t \in Task : tasks'[t].unconfirmed = tasks[t].unconfirmed
  BY DEF LedgerQuiet, Quiet
<1>3. Onward(q)
  BY <1>1, <1>2 DEF Onward
<1>4. RunsBooked'
  <2>1. /\ (began \subseteq Request)'
        /\ (\A p \in began \cup confirmed : Reserved(p))'
    BY <1>1 DEF ServiceInv, ServiceTyped, RunsBooked
  <2>2. \A e \in executions' :
             /\ Reserved(e.run)'
             /\ e.run \in confirmed' \/ tasks'[e.run[1]].unconfirmed = e.run
             /\ e.run \in confirmed' => e.outcome.known
    <3> TAKE e \in executions'
    <3>1. e.run \in Request /\ e.run[1] \in Task
      BY DEF ServiceInv, ServiceTyped, Execution, Request
    <3> QED BY <3>1, <1>1, <1>2 DEF ServiceInv, RunsBooked
  <2>3. \A r \in reports' : Attested(r.asset, r.run, r.worker, r.purpose, r.outcome)'
    <3> TAKE r \in reports'
    <3>1. Attested(r.asset, r.run, r.worker, r.purpose, r.outcome)
      BY DEF ServiceInv, RunsBooked
    <3> QED BY <3>1, AttestedStays
  <2> QED BY <2>1, <2>2, <2>3 DEF RunsBooked
<1>5. BooksAgree'
  <2> SUFFICES ASSUME NEW p \in began', rows'[p].status = "pending"
               PROVE  tasks'[p[1]].unconfirmed = p
    BY DEF BooksAgree
  <2>1. p \in Request /\ p[1] \in Task
    BY DEF ServiceInv, RunsBooked, Request
  <2>2. rows[p].status = "pending"
    BY <2>1 DEF CostClosed, Resolved
  <2>3. tasks[p[1]].unconfirmed = p
    BY <2>2 DEF ServiceInv, BooksAgree
  <2> QED BY <2>1, <2>3, <1>2
<1>6. CompletedOnConfirmedRun'
  BY DEF ServiceInv, CompletedOnConfirmedRun, LedgerQuiet, Quiet
<1>7. ApprovedIndependently'
  BY DEF ServiceInv, ApprovedIndependently, Of
<1> QED BY <1>3, <1>4, <1>5, <1>6, <1>7

LEMMA RunGoesOn ==
  ASSUME ServiceInv, LedgerQuiet, NEW c \in Caller, calls[c].step \in Experimenting,
         CostClosed(calls[c].run),
         UNCHANGED <<generated, executions, confirmed, published, reports, approved>>,
         began \subseteq began', began' \subseteq began \cup {calls[c].run},
         calls[c].run \in began' \ began => calls[c].step \in Begun,
         NEW call \in ServiceCall, calls' = [calls EXCEPT ![c] = call],
         call.step \in Experimenting => call.run = calls[c].run,
         CallTrue(c)'
  PROVE  ServiceInv'
<1> DEFINE q == calls[c].run
<1>1. q \in Request /\ Reserved(q) /\ q[1] = calls[c].task
  BY DEF ServiceInv, CallTrue, OwnRun
<1>2. q \in began' \ began => Reserved(q) /\ tasks[q[1]].unconfirmed = q
  BY <1>1 DEF ServiceInv, CallTrue, Marked
<1> HIDE DEF q
<1>3. /\ CostClosed(q) /\ began' \subseteq began \cup {q} /\ calls[c].run = q
      /\ call.step \in Experimenting => call.run = q
  BY DEF q
<1>4. /\ Onward(q) /\ RunsBooked' /\ BooksAgree'
      /\ CompletedOnConfirmedRun' /\ ApprovedIndependently'
  BY <1>1, <1>2, <1>3, ClosingBooks
<1>5. /\ calls' \in [Caller -> ServiceCall]
      /\ \A d \in Caller : CallTrue(d)'
      /\ RunsDistinct'
  BY <1>1, <1>3, <1>4, CallGoesOn
<1> QED BY <1>4, <1>5 DEF ServiceInv, ServiceTyped, LedgerQuiet, CostClosed

LEMMA ReserveKeeps ==
  ASSUME ServiceInv, NEW c \in Caller, Reserve(c)
  PROVE  ServiceInv'
<1> DEFINE t == calls[c].task
<1>1. /\ t \in Task /\ calls[c].lease \in L!Lease /\ calls[c].lease.task = t
      /\ calls[c].step = "reserve" /\ calls[c] \in ServiceCall
      /\ calls \in [Caller -> ServiceCall] /\ TasksTold /\ CostsTold
  BY DEF Reserve, At, ServiceInv, ServiceTyped, CallTrue, Called
<1>2. PICK q \in FreshRun(t), b \in Bounds :
           IF B!Reservable(Host[c], t, q, b, clock)
           THEN /\ B!Reserve(Host[c], t, q, b, clock)
                /\ calls' = [calls EXCEPT ![c].step = "begin", ![c].run = q]
           ELSE BudgetIdle /\ Done(c)
  BY DEF Reserve
<1>3. q \in Request /\ q[1] = t
  <2>1. PICK n \in 1 .. MaxExecutions : q = <<t, n>>
    BY <1>2 DEF FreshRun
  <2> QED BY <1>1, <2>1 DEF Request
<1>4. UNCHANGED <<ledger, experiments, store, generated>>
  BY DEF Reserve, LedgerIdle, RunsIdle, StoreIdle, PlansKept, Configured
<1>5. UNCHANGED <<clock, tasks, began, executions, confirmed, published, reports, approved>>
  BY <1>4 DEF ledger, experiments, store
<1>6. LedgerQuiet
  BY <1>1, <1>5, RowsUntouched
<1>7. CASE ~B!Reservable(Host[c], t, q, b, clock)
  <2>1. Done(c) /\ UNCHANGED rows
    BY <1>2, <1>7 DEF BudgetIdle, budget
  <2> QED BY <1>4, <1>5, <1>6, <2>1, EndsSteady DEF Steady, BooksLeft, ServiceInv, ServiceTyped
<1>8. CASE B!Reservable(Host[c], t, q, b, clock)
  <2> DEFINE call == [calls[c] EXCEPT !.step = "begin", !.run = q]
  <2>1. /\ CostsTold' /\ ~Reserved(q) /\ rows'[q].status = "pending"
        /\ \A p \in Request : p # q => rows'[p] = rows[p]
    BY <1>1, <1>2, <1>3, <1>8, ReserveOpens
  <2>2. /\ call \in ServiceCall /\ call.step = "begin" /\ call.task = t
        /\ call.lease = calls[c].lease /\ call.run = q
    BY <1>1, <1>3 DEF ServiceCall, Step
  <2>3. calls' = [calls EXCEPT ![c] = call]
    <3> HIDE DEF ServiceCall
    <3> QED BY <1>1, <1>2, <1>8
  <2> HIDE DEF call
  <2>4. Onward(q)
    BY <1>4, <1>5, <2>1 DEF Onward, Reserved, Resolved
  <2>5. q \notin confirmed /\ \A e \in executions : e.run # q
    BY <2>1 DEF ServiceInv, RunsBooked
  <2>6. CallTrue(c)'
    <3>1. calls'[c] = call
      BY <1>1, <2>3
    <3> QED BY <1>1, <1>3, <1>5, <2>1, <2>2, <2>5, <3>1
            DEF CallTrue, Called, OwnRun, Marked, Closed, Grounded, Begun, Experimenting, Reserved
  <2>7. /\ calls' \in [Caller -> ServiceCall]
        /\ \A d \in Caller : CallTrue(d)'
        /\ RunsDistinct'
    BY <1>1, <1>3, <2>1, <2>2, <2>3, <2>4, <2>6, CallGoesOn DEF Experimenting
  <2>8. RunsBooked'
    <3>1. /\ (began \subseteq Request)'
          /\ (\A p \in began \cup confirmed : Reserved(p))'
      BY <1>5, <2>4 DEF ServiceInv, ServiceTyped, RunsBooked, Onward
    <3>2. \A e \in executions' :
               /\ Reserved(e.run)'
               /\ e.run \in confirmed' \/ tasks'[e.run[1]].unconfirmed = e.run
               /\ e.run \in confirmed' => e.outcome.known
      <4> TAKE e \in executions'
      <4>1. e.run \in Request
        BY <1>5 DEF ServiceInv, ServiceTyped, Execution
      <4> QED BY <4>1, <1>5, <2>4 DEF ServiceInv, RunsBooked, Onward
    <3>3. \A r \in reports' : Attested(r.asset, r.run, r.worker, r.purpose, r.outcome)'
      <4> TAKE r \in reports'
      <4>1. Attested(r.asset, r.run, r.worker, r.purpose, r.outcome)
        BY <1>5 DEF ServiceInv, RunsBooked
      <4> QED BY <1>5, <4>1, AttestedStays
    <3> QED BY <3>1, <3>2, <3>3 DEF RunsBooked
  <2>9. BooksAgree'
    <3>1. \A p \in began : p \in Request /\ p # q
      BY <2>1 DEF ServiceInv, RunsBooked
    <3> QED BY <1>5, <2>1, <3>1 DEF ServiceInv, BooksAgree
  <2>10. CompletedOnConfirmedRun' /\ ApprovedIndependently'
    BY <1>5 DEF ServiceInv, CompletedOnConfirmedRun, ApprovedIndependently, Of
  <2> QED BY <1>5, <1>6, <2>1, <2>7, <2>8, <2>9, <2>10 DEF ServiceInv, ServiceTyped, LedgerQuiet
<1> QED BY <1>7, <1>8

LEMMA SettleKeeps ==
  ASSUME ServiceInv, NEW c \in Caller, Settle(c)
  PROVE  ServiceInv'
<1>1. /\ calls[c].step \in {"settle", "resolve"} /\ calls[c].run \in Request
      /\ calls[c].step \in Experimenting /\ calls[c].step \in Begun
      /\ CallTrue(c) /\ TasksTold /\ CostsTold
  BY DEF Settle, At, ServiceInv, ServiceTyped, CallTrue, OwnRun, Experimenting, Begun
<1>2. /\ CostClosed(calls[c].run)
      /\ rows'[calls[c].run].status \notin {"absent", "pending"}
  <2>1. PICK u \in Paid(c) : B!Settle(calls[c].run, u, FALSE, clock)
    BY DEF Settle
  <2> QED BY <1>1, <2>1, SettleCloses
<1>3. UNCHANGED <<ledger, experiments, store, generated>>
  BY DEF Settle, LedgerIdle, RunsIdle, StoreIdle, PlansKept, Configured
<1>4. UNCHANGED <<clock, tasks, began, executions, confirmed, published, reports, approved>>
  BY <1>3 DEF ledger, experiments, store
<1>5. LedgerQuiet
  BY <1>1, <1>4, RowsUntouched
<1>6. CASE Done(c)
  BY <1>1, <1>2, <1>3, <1>4, <1>5, <1>6, CallIsOver, IdleCall, RunGoesOn
<1>7. ASSUME NEW step \in {"record", "confirm"}, Go(c, step),
             step = "record" => ~generated, step = "confirm" => generated /\ EffectKnown(c)
      PROVE  ServiceInv'
  <2>1. PICK call \in ServiceCall :
            /\ calls' = [calls EXCEPT ![c] = call] /\ calls'[c] = call
            /\ call.step = step /\ call.task = calls[c].task /\ call.lease = calls[c].lease
            /\ call.run = calls[c].run /\ call.outcome = calls[c].outcome
    BY <1>7, CallGoes DEF Step
  <2>2. step = "confirm" => calls[c].outcome.known /\ calls[c].step = "resolve"
    BY <1>1, <1>7 DEF EffectKnown, CallTrue, Closed
  <2>3. step = "record" => calls[c].step = "settle"
    BY <1>1, <1>7 DEF CallTrue, Closed
  <2>4. CallTrue(c)'
    <3>1. Called(c)'
      BY <1>1, <2>1 DEF CallTrue, Called
    <3>2. OwnRun(c)'
      BY <1>1, <1>2, <1>4, <2>1, <2>2, <2>3 DEF CallTrue, OwnRun, Experimenting, Reserved
    <3>3. Marked(c)'
      BY <1>1, <1>4, <2>1 DEF CallTrue, Marked
    <3>4. Closed(c)' /\ Grounded(c)'
      <4>1. calls[c].outcome \in Outcome
        BY <1>1 DEF CallTrue, Closed
      <4> QED BY <1>2, <1>3, <2>1, <2>2, <1>7, <4>1 DEF Closed, Grounded, Resolved
    <3> QED BY <3>1, <3>2, <3>3, <3>4 DEF CallTrue
  <2> QED BY <1>1, <1>2, <1>3, <1>4, <1>5, <2>1, <2>4, RunGoesOn
<1> QED BY <1>6, <1>7 DEF Settle

LEMMA RunKeeps ==
  ASSUME ServiceInv, NEW c \in Caller, Run(c)
  PROVE  ServiceInv'
<1>1. /\ calls[c].step = "run" /\ calls[c].run \in Request
      /\ calls[c].step \in Experimenting /\ calls[c].step \in Begun
      /\ CallTrue(c) /\ TasksTold /\ CostsTold /\ calls[c] \in ServiceCall
      /\ calls \in [Caller -> ServiceCall]
  BY DEF Run, At, ServiceInv, ServiceTyped, CallTrue, OwnRun, Experimenting, Begun
<1>2. UNCHANGED <<clock, tasks, executions, confirmed, published, reports, approved, generated>>
  BY DEF Run, LedgerIdle, ledger, StoreIdle, store, PlansKept, Configured
<1>3. LedgerQuiet
  BY <1>1, <1>2, RowsUntouched
<1>4. began' = began \cup {calls[c].run}
  BY DEF Run
<1>5. CASE Done(c) /\ MarkUncertain(calls[c].run)
  <2>1. CostClosed(calls[c].run)
    BY <1>1, <1>5, MarkCloses
  <2> QED BY <1>1, <1>2, <1>3, <1>4, <1>5, <2>1, CallIsOver, IdleCall, RunGoesOn
<1>6. ASSUME NEW o \in Outcomes, BudgetIdle,
             calls' = [calls EXCEPT ![c].step = AfterRun(c), ![c].outcome = o]
      PROVE  ServiceInv'
  <2> DEFINE call == [calls[c] EXCEPT !.step = AfterRun(c), !.outcome = o]
  <2>1. AfterRun(c) \in {"record", "settle"} /\ (AfterRun(c) = "settle" => ~generated)
        /\ (AfterRun(c) = "record" => generated)
    BY DEF AfterRun
  <2>2. /\ call \in ServiceCall /\ call.step = AfterRun(c) /\ call.task = calls[c].task
        /\ call.lease = calls[c].lease /\ call.run = calls[c].run /\ call.outcome = o
        /\ o \in Outcome
    BY <1>1, <2>1, ServiceAssumption DEF ServiceCall, Step
  <2>3. calls' = [calls EXCEPT ![c] = call] /\ calls'[c] = call
    <3> HIDE DEF ServiceCall
    <3> QED BY <1>1, <1>6
  <2> HIDE DEF call
  <2>4. CostClosed(calls[c].run) /\ UNCHANGED rows
    BY <1>1, <1>6 DEF BudgetIdle, budget, CostClosed, CostsTold, Reserved
  <2>5. CallTrue(c)'
    BY <1>1, <1>2, <2>1, <2>2, <2>3, <2>4
       DEF CallTrue, Called, OwnRun, Marked, Closed, Grounded, Begun, Experimenting, Reserved
  <2> QED BY <1>1, <1>2, <1>3, <1>4, <2>2, <2>3, <2>4, <2>5, RunGoesOn
<1> QED BY <1>5, <1>6 DEF Run

\* The mark of a run in the ledger, set before and removed after.
MarkMoves(t, before, after) ==
    /\ TasksTold'
    /\ \A u \in Task : u # t => tasks'[u] = tasks[u]
    /\ tasks[t].unconfirmed = before
    /\ tasks'[t].unconfirmed = after /\ tasks'[t].status = "claimed"

LEMMA WriteMark ==
  ASSUME TasksTold, NEW t \in Task, NEW row \in TaskRow, L!Write(t, row), row.status = "claimed"
  PROVE  MarkMoves(t, tasks[t].unconfirmed, row.unconfirmed)
<1>1. tasks'[t] = row /\ \A u \in Task : u # t => tasks'[u] = tasks[u]
  BY DEF L!Write, TasksTold
<1>2. tasks' \in [Task -> TaskRow] /\ clock' \in Nat
  <2> HIDE DEF TaskRow
  <2> QED BY DEF L!Write, TasksTold
<1>3. \A u \in Task : tasks'[u].status = "absent" => tasks'[u].unconfirmed = NoRequest
  BY <1>1 DEF TasksTold
<1> QED BY <1>1, <1>2, <1>3 DEF MarkMoves, TasksTold

LEMMA BeginMarks ==
  ASSUME TasksTold, NEW l, l.task \in Task, NEW q \in Request, L!BeginExecution(l, q)
  PROVE  MarkMoves(l.task, NoRequest, q)
<1> DEFINE t == l.task
           row == [tasks[t] EXCEPT !.unconfirmed = q, !.executions = @ + 1]
<1>1. L!Write(t, row) /\ tasks[t].status = "claimed" /\ tasks[t].unconfirmed = NoRequest
  BY DEF L!BeginExecution, L!Holds, L!Owned
<1>2. tasks[t] \in TaskRow /\ tasks[t].executions + 1 \in Nat
  BY DEF TasksTold, TaskRow
<1>3. row = [tasks[t] EXCEPT !.unconfirmed = q, !.executions = tasks[t].executions + 1]
  OBVIOUS
<1> HIDE DEF row
<1>4. row \in TaskRow /\ row.unconfirmed = q /\ row.status = "claimed"
  BY <1>1, <1>2, <1>3 DEF TaskRow
<1>5. MarkMoves(t, tasks[t].unconfirmed, row.unconfirmed)
  BY <1>1, <1>4, WriteMark
<1> QED BY <1>1, <1>4, <1>5

LEMMA ConfirmMarks ==
  ASSUME TasksTold, NEW l, l.task \in Task, NEW q \in Request, L!ConfirmExecution(l, q)
  PROVE  MarkMoves(l.task, q, NoRequest)
<1> DEFINE t == l.task
           row == [tasks[t] EXCEPT !.unconfirmed = NoRequest]
<1>1. L!Write(t, row) /\ tasks[t].status = "claimed" /\ tasks[t].unconfirmed = q
  BY DEF L!ConfirmExecution, L!Holds, L!Owned
<1>2. tasks[t] \in TaskRow
  BY DEF TasksTold
<1>3. row \in TaskRow /\ row.unconfirmed = NoRequest /\ row.status = "claimed"
  BY <1>1, <1>2 DEF TaskRow
<1> HIDE DEF row
<1>4. MarkMoves(t, tasks[t].unconfirmed, row.unconfirmed)
  BY <1>1, <1>3, WriteMark
<1> QED BY <1>1, <1>3, <1>4

LEMMA BeginKeeps ==
  ASSUME ServiceInv, NEW c \in Caller, Begin(c)
  PROVE  ServiceInv'
<1> DEFINE q == calls[c].run
           t == calls[c].task
<1>1. /\ calls[c].step = "begin" /\ q \in Request /\ q[1] = t /\ Reserved(q)
      /\ calls[c].lease.task = t /\ t \in Task
      /\ calls[c].step \in Experimenting
      /\ CallTrue(c) /\ TasksTold /\ CostsTold
  BY DEF Begin, At, ServiceInv, ServiceTyped, CallTrue, Called, OwnRun, Experimenting
<1>2. UNCHANGED <<began, executions, confirmed, published, reports, approved, generated>>
  BY DEF Begin, RunsIdle, experiments, StoreIdle, store, PlansKept, Configured
<1>3. CASE LedgerIdle /\ Done(c) /\ MarkUncertain(q)
  <2>1. CostClosed(q)
    BY <1>1, <1>3, MarkCloses
  <2>2. LedgerQuiet
    BY <1>1, <1>3, RowsUntouched DEF LedgerIdle, ledger
  <2> QED BY <1>1, <1>2, <1>3, <2>1, <2>2, CallIsOver, IdleCall, RunGoesOn
<1>4. CASE L!BeginExecution(calls[c].lease, q) /\ Go(c, "run") /\ BudgetIdle
  <2>1. MarkMoves(t, NoRequest, q)
    BY <1>1, <1>4, BeginMarks
  <2>2. PICK call \in ServiceCall :
            /\ calls' = [calls EXCEPT ![c] = call] /\ calls'[c] = call
            /\ call.step = "run" /\ call.task = t /\ call.lease = calls[c].lease
            /\ call.run = q /\ call.outcome = calls[c].outcome
    BY <1>4, CallGoes DEF Step
  <2>3. UNCHANGED rows
    BY <1>4 DEF BudgetIdle, budget
  <2>4. Onward(q)
    BY <1>2, <2>1, <2>3 DEF Onward, MarkMoves, Reserved, Resolved
  <2>5. CallTrue(c)'
    BY <1>1, <1>2, <2>1, <2>2, <2>3
       DEF CallTrue, Called, OwnRun, Marked, Closed, Grounded, Begun, Experimenting, Reserved,
           MarkMoves
  <2>6. /\ calls' \in [Caller -> ServiceCall]
        /\ \A d \in Caller : CallTrue(d)'
        /\ RunsDistinct'
    BY <1>1, <2>2, <2>4, <2>5, CallGoesOn
  <2>7. RunsBooked'
    <3>1. /\ (began \subseteq Request)'
          /\ (\A p \in began \cup confirmed : Reserved(p))'
      BY <1>2, <2>3 DEF ServiceInv, RunsBooked, Reserved
    <3>2. \A e \in executions' :
               /\ Reserved(e.run)'
               /\ e.run \in confirmed' \/ tasks'[e.run[1]].unconfirmed = e.run
               /\ e.run \in confirmed' => e.outcome.known
      <4> TAKE e \in executions'
      <4>1. e.run \in Request /\ e.run[1] \in Task
        BY <1>2 DEF ServiceInv, ServiceTyped, Execution, Request
      <4>2. e.run \in confirmed \/ tasks[e.run[1]].unconfirmed = e.run
        BY <1>2 DEF ServiceInv, RunsBooked
      <4>3. e.run \in confirmed \/ tasks'[e.run[1]].unconfirmed = e.run
        BY <2>1, <4>1, <4>2, ServiceAssumption DEF MarkMoves
      <4> QED BY <1>2, <2>3, <4>3 DEF ServiceInv, RunsBooked, Reserved
    <3>3. \A r \in reports' : Attested(r.asset, r.run, r.worker, r.purpose, r.outcome)'
      <4> TAKE r \in reports'
      <4>1. Attested(r.asset, r.run, r.worker, r.purpose, r.outcome)
        BY <1>2 DEF ServiceInv, RunsBooked
      <4> QED BY <1>2, <4>1, AttestedStays
    <3> QED BY <3>1, <3>2, <3>3 DEF RunsBooked
  <2>8. BooksAgree'
    <3> SUFFICES ASSUME NEW p \in began', rows'[p].status = "pending"
                 PROVE  tasks'[p[1]].unconfirmed = p
      BY DEF BooksAgree
    <3>1. p \in Request /\ p[1] \in Task /\ tasks[p[1]].unconfirmed = p
      BY <1>2, <2>3 DEF ServiceInv, RunsBooked, BooksAgree, Request
    <3> QED BY <2>1, <3>1, ServiceAssumption DEF MarkMoves
  <2>9. CompletedOnConfirmedRun' /\ ApprovedIndependently'
    BY <1>2, <2>1 DEF ServiceInv, CompletedOnConfirmedRun, ApprovedIndependently, Of, MarkMoves
  <2>10. CostsTold'
    BY <1>1, <2>3 DEF CostsTold
  <2> QED BY <1>2, <2>1, <2>6, <2>7, <2>8, <2>9, <2>10 DEF ServiceInv, ServiceTyped, MarkMoves
<1> QED BY <1>3, <1>4 DEF Begin

LEMMA RecordCheckKeeps ==
  ASSUME ServiceInv, NEW c \in Caller, RecordCheck(c)
  PROVE  ServiceInv'
<1>1. /\ calls[c].step = "record" /\ calls[c].run \in Request
      /\ calls[c].step \in Experimenting /\ calls[c].step \in Begun
      /\ CallTrue(c) /\ TasksTold /\ CostsTold
  BY DEF RecordCheck, At, ServiceInv, ServiceTyped, CallTrue, OwnRun, Experimenting, Begun
<1>2. UNCHANGED <<clock, tasks, began, executions, confirmed, published, reports, approved, generated>>
  BY DEF RecordCheck, LedgerIdle, ledger, RunsIdle, experiments, StoreIdle, store, PlansKept,
         Configured
<1>3. LedgerQuiet
  BY <1>1, <1>2, RowsUntouched
<1>4. CASE Done(c)
  <2>1. MarkUncertain(calls[c].run) \/ UNCHANGED rows
    BY <1>4 DEF RecordCheck, BudgetIdle, budget, Go, Done
  <2>2. CostClosed(calls[c].run)
    BY <1>1, <2>1, MarkCloses DEF CostClosed, CostsTold
  <2> QED BY <1>1, <1>2, <1>3, <1>4, <2>2, CallIsOver, IdleCall, RunGoesOn
<1>5. CASE Go(c, "event") /\ BudgetIdle
  <2>1. PICK call \in ServiceCall :
            /\ calls' = [calls EXCEPT ![c] = call] /\ calls'[c] = call
            /\ call.step = "event" /\ call.task = calls[c].task /\ call.lease = calls[c].lease
            /\ call.run = calls[c].run /\ call.outcome = calls[c].outcome
    BY <1>5, CallGoes DEF Step
  <2>2. UNCHANGED rows /\ CostClosed(calls[c].run)
    BY <1>1, <1>5 DEF BudgetIdle, budget, CostClosed, CostsTold
  <2>3. CallTrue(c)'
    BY <1>1, <1>2, <2>1, <2>2
       DEF CallTrue, Called, OwnRun, Marked, Closed, Grounded, Begun, Experimenting, Reserved,
           Resolved
  <2> QED BY <1>1, <1>2, <1>3, <2>1, <2>2, <2>3, RunGoesOn
<1> QED BY <1>4, <1>5 DEF RecordCheck

LEMMA RecordKeeps ==
  ASSUME ServiceInv, NEW c \in Caller, Record(c)
  PROVE  ServiceInv'
<1> DEFINE q == calls[c].run
           t == calls[c].task
           e0 == [run |-> q, worker |-> Host[c], token |-> calls[c].lease.token,
                  outcome |-> calls[c].outcome]
<1>1. /\ calls[c].step = "event" /\ q \in Request /\ q[1] = t /\ Reserved(q)
      /\ calls[c].lease \in L!Lease /\ t \in Task
      /\ calls[c].step \in Experimenting /\ calls[c].step \in Begun
      /\ calls[c].outcome \in Outcome /\ Host[c] \in Worker
      /\ CallTrue(c) /\ TasksTold /\ CostsTold
  BY ServiceAssumption DEF Record, At, ServiceInv, ServiceTyped, CallTrue, Called, OwnRun, Closed,
     Experimenting, Begun
<1>2. UNCHANGED <<clock, tasks, began, confirmed, published, reports, approved, generated>>
  BY DEF Record, LedgerIdle, ledger, StoreIdle, store, PlansKept, Configured
<1>3. LedgerQuiet
  BY <1>1, <1>2, RowsUntouched
<1>4. /\ executions' = executions \cup {e0} /\ UNCHANGED rows
      /\ IF generated THEN Go(c, "resolve")
         ELSE IF EffectKnown(c) THEN Go(c, "confirm") ELSE Done(c)
  BY DEF Record, BudgetIdle, budget
<1>5. e0 \in Execution /\ e0.run = q /\ e0.outcome = calls[c].outcome
  BY <1>1 DEF Execution, L!Lease
<1> HIDE DEF e0
<1>6. \A e \in executions : e.run # q
  BY <1>1 DEF CallTrue, OwnRun
<1>7. Onward(q)
  BY <1>2, <1>4, <1>5 DEF Onward, Reserved, Resolved
<1>8. \E call \in ServiceCall :
          /\ calls' = [calls EXCEPT ![c] = call]
          /\ call.step \in Experimenting => call.run = q
          /\ CallTrue(c)'
  <2>1. CASE Done(c)
    BY <2>1, CallIsOver, IdleCall
  <2>2. ASSUME NEW step \in {"resolve", "confirm"}, Go(c, step),
               step = "resolve" => generated, step = "confirm" => ~generated /\ EffectKnown(c)
        PROVE  \E call \in ServiceCall :
                   /\ calls' = [calls EXCEPT ![c] = call]
                   /\ call.step \in Experimenting => call.run = q
                   /\ CallTrue(c)'
    <3>1. PICK call \in ServiceCall :
              /\ calls' = [calls EXCEPT ![c] = call] /\ calls'[c] = call
              /\ call.step = step /\ call.task = calls[c].task /\ call.lease = calls[c].lease
              /\ call.run = q /\ call.outcome = calls[c].outcome
      BY <2>2, CallGoes DEF Step
    <3>2. Called(c)' /\ Marked(c)' /\ Grounded(c)'
      BY <1>1, <1>2, <2>2, <3>1 DEF CallTrue, Called, Marked, Grounded
    <3>3. OwnRun(c)'
      BY <1>1, <1>2, <1>4, <1>5, <1>6, <2>2, <3>1 DEF CallTrue, OwnRun, Reserved
    <3>4. Closed(c)'
      <4>1. step = "confirm" => calls[c].outcome.known /\ Resolved(q)
        BY <1>1, <2>2 DEF EffectKnown, CallTrue, Closed
      <4> QED BY <1>1, <1>2, <1>4, <2>2, <3>1, <4>1 DEF Closed, Resolved
    <3> QED BY <3>1, <3>2, <3>3, <3>4 DEF CallTrue
  <2> QED BY <1>4, <2>1, <2>2
<1>9. /\ calls' \in [Caller -> ServiceCall]
      /\ \A d \in Caller : CallTrue(d)'
      /\ RunsDistinct'
  <2>1. PICK call \in ServiceCall :
            /\ calls' = [calls EXCEPT ![c] = call]
            /\ call.step \in Experimenting => call.run = q
            /\ CallTrue(c)'
    BY <1>8
  <2> QED BY <1>1, <1>7, <2>1, CallGoesOn
<1>10. RunsBooked'
  <2>1. /\ (began \subseteq Request)'
        /\ (\A p \in began \cup confirmed : Reserved(p))'
    BY <1>2, <1>4 DEF ServiceInv, RunsBooked, Reserved
  <2>2. \A e \in executions' :
             /\ Reserved(e.run)'
             /\ e.run \in confirmed' \/ tasks'[e.run[1]].unconfirmed = e.run
             /\ e.run \in confirmed' => e.outcome.known
    <3> TAKE e \in executions'
    <3>1. CASE e \in executions
      BY <1>2, <1>4, <3>1 DEF ServiceInv, RunsBooked, Reserved
    <3>2. CASE e = e0
      <4>1. tasks[t].unconfirmed = q /\ q \notin confirmed
        BY <1>1 DEF CallTrue, Marked, OwnRun
      <4> QED BY <1>1, <1>2, <1>4, <1>5, <3>2, <4>1 DEF Reserved
    <3> QED BY <1>4, <3>1, <3>2
  <2>3. \A r \in reports' : Attested(r.asset, r.run, r.worker, r.purpose, r.outcome)'
    <3> TAKE r \in reports'
    <3>1. Attested(r.asset, r.run, r.worker, r.purpose, r.outcome)
      BY <1>2 DEF ServiceInv, RunsBooked
    <3> QED BY <1>4, <3>1, AttestedStays
  <2> QED BY <2>1, <2>2, <2>3 DEF RunsBooked
<1>11. BooksAgree' /\ CompletedOnConfirmedRun' /\ ApprovedIndependently'
  BY <1>2, <1>4
     DEF ServiceInv, BooksAgree, CompletedOnConfirmedRun, ApprovedIndependently, Of
<1>12. CostsTold' /\ (executions \subseteq Execution)'
  BY <1>1, <1>4, <1>5 DEF CostsTold, ServiceInv, ServiceTyped
<1> QED BY <1>2, <1>3, <1>9, <1>10, <1>11, <1>12 DEF ServiceInv, ServiceTyped, LedgerQuiet

LEMMA ConfirmKeeps ==
  ASSUME ServiceInv, NEW c \in Caller, Confirm(c)
  PROVE  ServiceInv'
<1> DEFINE q == calls[c].run
           t == calls[c].task
<1>1. /\ calls[c].step = "confirm" /\ q \in Request /\ q[1] = t /\ Reserved(q)
      /\ t \in Task /\ Resolved(q)
      /\ calls[c].step \in Experimenting /\ calls[c].step \in Begun
      /\ CallTrue(c) /\ TasksTold /\ CostsTold
  BY DEF Confirm, At, ServiceInv, ServiceTyped, CallTrue, Called, OwnRun, Closed, Experimenting,
     Begun
<1>2. UNCHANGED <<rows, began, executions, published, reports, approved, generated>>
  BY DEF Confirm, BudgetIdle, budget, StoreIdle, store, PlansKept, Configured
<1>3. Done(c)
  BY DEF Confirm
<1>4. CASE ~StillLeased(c)
  <2>1. UNCHANGED <<clock, tasks, confirmed>>
    BY <1>4 DEF Confirm, LedgerIdle, ledger
  <2>2. LedgerQuiet
    BY <1>1, <2>1, RowsUntouched
  <2> QED BY <1>2, <1>3, <2>1, <2>2, EndsSteady DEF Steady, BooksLeft, ServiceInv, ServiceTyped
<1>5. CASE StillLeased(c)
  <2>1. L!ConfirmExecution(FreshLease(c), q) /\ confirmed' = confirmed \cup {q}
    BY <1>5 DEF Confirm
  <2>2. MarkMoves(t, q, NoRequest)
    <3>1. FreshLease(c).task = t
      BY <1>1, LeaseRead DEF FreshLease
    <3> QED BY <1>1, <2>1, <3>1, ConfirmMarks
  <2>3. Onward(q)
    BY <1>2, <2>1, <2>2 DEF Onward, MarkMoves, Reserved, Resolved
  <2>4. /\ calls' \in [Caller -> ServiceCall]
        /\ \A d \in Caller : CallTrue(d)'
        /\ RunsDistinct'
    BY <1>1, <1>3, <2>3, CallIsOver, IdleCall, CallGoesOn
  <2>5. RunsBooked'
    <3>1. /\ (began \subseteq Request)'
          /\ (\A p \in began \cup confirmed : Reserved(p))'
      BY <1>1, <1>2, <2>1 DEF ServiceInv, RunsBooked, Reserved
    <3>2. \A e \in executions' :
               /\ Reserved(e.run)'
               /\ e.run \in confirmed' \/ tasks'[e.run[1]].unconfirmed = e.run
               /\ e.run \in confirmed' => e.outcome.known
      <4> TAKE e \in executions'
      <4>1. /\ e.run \in Request /\ e.run[1] \in Task /\ Reserved(e.run)
            /\ e.run \in confirmed \/ tasks[e.run[1]].unconfirmed = e.run
            /\ e.run \in confirmed => e.outcome.known
        BY <1>2 DEF ServiceInv, ServiceTyped, RunsBooked, Execution, Request
      <4>2. e.run = q => e.outcome.known
        BY <1>1, <1>2 DEF CallTrue, OwnRun, Closed
      <4>3. e.run \in confirmed' \/ tasks'[e.run[1]].unconfirmed = e.run
        BY <2>1, <2>2, <4>1 DEF MarkMoves
      <4> QED BY <1>2, <2>1, <4>1, <4>2, <4>3 DEF Reserved
    <3>3. \A r \in reports' : Attested(r.asset, r.run, r.worker, r.purpose, r.outcome)'
      <4> TAKE r \in reports'
      <4>1. Attested(r.asset, r.run, r.worker, r.purpose, r.outcome)
        BY <1>2 DEF ServiceInv, RunsBooked
      <4> QED BY <1>2, <4>1, AttestedStays
    <3> QED BY <3>1, <3>2, <3>3 DEF RunsBooked
  <2>6. BooksAgree'
    <3> SUFFICES ASSUME NEW p \in began', rows'[p].status = "pending"
                 PROVE  tasks'[p[1]].unconfirmed = p
      BY DEF BooksAgree
    <3>1. p \in Request /\ p[1] \in Task /\ tasks[p[1]].unconfirmed = p /\ p # q
      BY <1>1, <1>2 DEF ServiceInv, RunsBooked, BooksAgree, Request, Resolved
    <3> QED BY <2>2, <3>1 DEF MarkMoves
  <2>7. CompletedOnConfirmedRun' /\ ApprovedIndependently'
    BY <1>2, <2>1, <2>2
       DEF ServiceInv, CompletedOnConfirmedRun, ApprovedIndependently, Of, MarkMoves
  <2>8. CostsTold' /\ (confirmed \subseteq Request)'
    BY <1>1, <1>2, <2>1 DEF CostsTold, ServiceInv, ServiceTyped
  <2> QED BY <1>2, <2>2, <2>4, <2>5, <2>6, <2>7, <2>8 DEF ServiceInv, ServiceTyped, MarkMoves
<1> QED BY <1>4, <1>5

-----------------------------------------------------------------------------
(* Theorems of the service *)

LEMMA ServiceStarts ==
  ASSUME Init
  PROVE  ServiceInv
<1> USE DEF Init, L!Init, B!Init
<1>1. TasksTold
  <2>1. L!AbsentRow \in TaskRow /\ L!AbsentRow.unconfirmed = NoRequest
    BY DEF L!AbsentRow, TaskRow, L!Status, L!NoExpiry
  <2> HIDE DEF TaskRow
  <2> QED BY <2>1 DEF TasksTold
<1>2. CostsTold
  <2>1. "status" \in DOMAIN B!AbsentRow
    BY DEF B!AbsentRow
  <2> QED BY <2>1 DEF CostsTold
<1>3. calls \in [Caller -> ServiceCall] /\ \A c \in Caller : calls[c] = Idle
  BY IdleCall
<1>4. ServiceTyped
  BY <1>1, <1>2, <1>3 DEF ServiceTyped
<1>5. \A c \in Caller : CallTrue(c)
  BY <1>3, IdleCall DEF CallTrue, Called, OwnRun, Marked, Closed, Grounded, Begun, Experimenting
<1>6. RunsDistinct
  BY <1>3, IdleCall DEF RunsDistinct
<1>7. CompletedOnConfirmedRun
  BY DEF CompletedOnConfirmedRun, L!AbsentRow
<1>8. RunsBooked /\ BooksAgree /\ ApprovedIndependently
  BY DEF RunsBooked, BooksAgree, ApprovedIndependently
<1> QED BY <1>4, <1>5, <1>6, <1>7, <1>8 DEF ServiceInv

LEMMA ServiceKept ==
  ServiceInv /\ [Next]_vars => ServiceInv'
<1> SUFFICES ASSUME ServiceInv, [Next]_vars
             PROVE  ServiceInv'
  OBVIOUS
<1>1. CASE UNCHANGED vars
  <2>1. Steady /\ UNCHANGED <<calls, reports, approved, published>>
    BY <1>1, RowsUntouched DEF vars, ledger, budget, experiments, store, Steady, BooksLeft,
       ServiceInv, ServiceTyped
  <2> QED BY <2>1, NoCallMoves DEF ServiceInv, ServiceTyped
<1>2. ASSUME NEW t \in Task, Seed(t)
      PROVE  ServiceInv'
  BY <1>2, SeedKeeps
<1>3. CASE Tick
  BY <1>3, TickKeeps
<1>4. ASSUME NEW c \in Caller, CallStep(c)
      PROVE  ServiceInv'
  <2>1. CASE \E t \in Task : Claim(c, t) \/ Renew(c, t) \/ Release(c, t) \/ Handoff(c, t)
    BY <2>1, LeaseStepsKeep
  <2>2. CASE \E t \in Task : Publish(c, t) \/ Prepare(c, t)
    BY <2>2, CandidatesKeep
  <2>3. CASE \E t \in Task : ExecuteCheck(c, t)
    BY <2>3, ExecuteCheckKeeps
  <2>4. CASE Reserve(c) \/ Begin(c) \/ Run(c)
    BY <2>4, ReserveKeeps, BeginKeeps, RunKeeps
  <2>5. CASE Settle(c) \/ RecordCheck(c) \/ Record(c) \/ Confirm(c)
    BY <2>5, SettleKeeps, RecordCheckKeeps, RecordKeeps, ConfirmKeeps
  <2>6. CASE ObserveRead(c) \/ ObserveRecord(c)
    BY <2>6, ObserveReadKeeps, ObserveRecordKeeps
  <2>7. CASE \E t \in Task : Complete(c, t) \/ ApprovePrepare(c, t) \/ ApplyCheck(c, t)
    BY <2>7, CompleteKeeps, ApprovePrepareKeeps, ApplyCheckKeeps
  <2>8. CASE ApproveCommit(c) \/ ApplySubmit(c) \/ ApplyLock(c)
    BY <2>8, ApproveCommitKeeps, ApplySubmitKeeps, ApplyLockKeeps
  <2>9. CASE ApplyWrite(c) \/ Crash(c)
    BY <2>9, ApplyWriteKeeps, CrashKeeps
  <2> QED BY <1>4, <2>1, <2>2, <2>3, <2>4, <2>5, <2>6, <2>7, <2>8, <2>9 DEF CallStep
<1> QED BY <1>1, <1>2, <1>3, <1>4 DEF Next

\* At every step of every call, what the call relies on is true, and the tables of ledger,
\* budget and experiments owe each other what ServiceInv says.
THEOREM ServiceInvariant == Spec => []ServiceInv
<1>1. Init => ServiceInv
  BY ServiceStarts
<1> QED BY <1>1, ServiceKept, PTL DEF Spec

\* A run that has reached its backend and is still in flight for the budget is the one its task
\* is blocked on, wherever calls of execute_experiment() or the next attempt are or were cut off.
THEOREM BooksAlwaysAgree == Spec => []BooksAgree
<1>1. ServiceInv => BooksAgree
  BY DEF ServiceInv
<1> QED BY <1>1, ServiceInvariant, PTL

\* complete() accepts a piece of research only on a run of its own worker whose effect is known
\* and confirmed, even when it was claimed again since.
THEOREM CompletedAlwaysOnConfirmedRun == Spec => []CompletedOnConfirmedRun
<1>1. ServiceInv => CompletedOnConfirmedRun
  BY DEF ServiceInv
<1> QED BY <1>1, ServiceInvariant, PTL

\* approve() accepts a candidate only on a report of another worker than its author, also when
\* the report was read before the commit it is approved in.
THEOREM ApprovedOnIndependentEvidence == Spec => []ApprovedIndependently
<1>1. ServiceInv => ApprovedIndependently
  BY DEF ServiceInv
<1> QED BY <1>1, ServiceInvariant, PTL

-----------------------------------------------------------------------------
(* The service keeps to both ledgers: each of its steps is one of theirs *)

\* The lease a claimed row was last given out with.
RowLease(t) == [task |-> t, worker |-> tasks[t].owner, token |-> tasks[t].token,
                expires |-> tasks[t].expiry]
RowGranted(t) ==
    /\ tasks[t].token = tasks[t].attempts /\ tasks[t].token <= MaxAttemptsPerTask
    /\ tasks[t].status = "claimed" => RowLease(t) \in leases /\ tasks[t].token > 0
RowsGranted == leases \subseteq L!Lease /\ \A t \in Task : RowGranted(t)

\* What a call presents to the ledger without reading it again.
Presented(c) ==
    /\ calls[c].step = "lock" => calls[c].lease \in leases
    /\ calls[c].step \in {"observe", "submit"} => calls[c].asset \in Asset
    /\ calls[c].step = "observe" => calls[c].run \in Request
StoreTrue ==
    /\ published \subseteq Asset
    /\ \A r \in reports : r.asset \in Asset /\ r.run \in Request
ServedInv == RowsGranted /\ StoreTrue /\ \A c \in Caller : Presented(c)

\* A row that keeps its attempt, and is not claimed anew.
RowKept(t) ==
    /\ tasks'[t].token = tasks[t].token /\ tasks'[t].attempts = tasks[t].attempts
    /\ tasks'[t].status = "claimed" =>
           /\ tasks[t].status = "claimed"
           /\ tasks'[t].owner = tasks[t].owner /\ tasks'[t].expiry = tasks[t].expiry

LEMMA KeptGranted ==
  ASSUME RowsGranted, leases \subseteq leases', leases' \subseteq L!Lease,
         \A t \in Task : RowKept(t) \/ RowGranted(t)'
  PROVE  RowsGranted'
BY DEF RowsGranted, RowGranted, RowKept, RowLease

\* One row changes, and keeps its attempt.
LEMMA WriteGranted ==
  ASSUME TasksTold, RowsGranted, leases' = leases, NEW t \in Task, NEW row,
         tasks' = [tasks EXCEPT ![t] = row],
         row.token = tasks[t].token, row.attempts = tasks[t].attempts,
         row.status = "claimed" => /\ tasks[t].status = "claimed"
                                   /\ row.owner = tasks[t].owner
                                   /\ row.expiry = tasks[t].expiry
  PROVE  RowsGranted'
<1>1. tasks'[t] = row /\ \A u \in Task : u # t => tasks'[u] = tasks[u]
  BY DEF TasksTold
<1> QED BY <1>1, KeptGranted DEF RowKept, RowsGranted

LEMMA EnqueueGranted ==
  ASSUME TasksTold, RowsGranted, NEW t \in Task, L!Enqueue(t)
  PROVE  RowsGranted'
<1> DEFINE row == [L!AbsentRow EXCEPT !.status = "available"]
<1>1. tasks' = [tasks EXCEPT ![t] = row] /\ leases' = leases
  BY DEF L!Enqueue, L!Write
<1>2. row.token = 0 /\ row.attempts = 0 /\ row.status = "available"
  BY DEF L!AbsentRow
<1> HIDE DEF row
<1>3. tasks'[t] = row /\ \A u \in Task : u # t => tasks'[u] = tasks[u]
  BY <1>1 DEF TasksTold
<1>4. RowGranted(t)'
  BY <1>2, <1>3, ServiceAssumption DEF RowGranted
<1> QED BY <1>1, <1>3, <1>4, KeptGranted DEF RowKept, RowsGranted

LEMMA ClaimGranted ==
  ASSUME TasksTold, RowsGranted, NEW w \in Worker, NEW t \in Task, NEW ttl \in TTL,
         L!Claim(w, t, ttl)
  PROVE  RowsGranted'
<1> DEFINE row == [tasks[t] EXCEPT !.status = "claimed", !.attempts = tasks[t].attempts + 1,
                                   !.token = tasks[t].token + 1, !.owner = w,
                                   !.expiry = clock + ttl]
           l == [task |-> t, worker |-> w, token |-> tasks[t].token + 1,
                 expires |-> clock + ttl]
<1>0. tasks[t] \in TaskRow
  BY DEF TasksTold
<1>1. /\ tasks' = [tasks EXCEPT ![t] = row] /\ leases' = leases \cup {l}
      /\ tasks[t].attempts < MaxAttemptsPerTask
  BY <1>0 DEF L!Claim, L!Write, L!Eligible, TaskRow
<1>2. /\ row.token = tasks[t].token + 1 /\ row.attempts = tasks[t].attempts + 1
      /\ row.owner = w /\ row.expiry = clock + ttl
  BY <1>0 DEF TaskRow
<1>5. tasks[t].token \in Nat /\ tasks[t].attempts \in Nat
  BY <1>0 DEF TaskRow
<1> HIDE DEF row
<1>3. tasks'[t] = row /\ \A u \in Task : u # t => tasks'[u] = tasks[u]
  BY <1>1 DEF TasksTold
<1>4. RowGranted(t)'
  <2>1. tasks[t].token = tasks[t].attempts
    BY DEF RowsGranted, RowGranted
  <2>2. RowLease(t)' = l
    BY <1>2, <1>3 DEF RowLease
  <2> HIDE DEF l
  <2> QED BY <1>1, <1>2, <1>3, <1>5, <2>1, <2>2, ServiceAssumption DEF RowGranted
<1>6. leases' \subseteq L!Lease
  BY <1>1, <1>5, ExpiresLater DEF RowsGranted, TasksTold, L!Lease
<1> QED BY <1>1, <1>3, <1>4, <1>6, KeptGranted DEF RowKept

LEMMA RenewGranted ==
  ASSUME TasksTold, RowsGranted, NEW l \in L!Lease, NEW ttl \in TTL, L!Renew(l, ttl)
  PROVE  RowsGranted'
<1> DEFINE row == [tasks[l.task] EXCEPT !.expiry = clock + ttl]
           k == [l EXCEPT !.expires = clock + ttl]
<1>0. l.task \in Task /\ tasks[l.task] \in TaskRow
  BY DEF TasksTold, L!Lease
<1> PICK t \in Task : t = l.task
  BY <1>0
<1>1. /\ tasks' = [tasks EXCEPT ![t] = row] /\ leases' = leases \cup {k}
      /\ tasks[t].status = "claimed" /\ tasks[t].owner = l.worker /\ tasks[t].token = l.token
  BY DEF L!Renew, L!Write, L!Holds, L!Owned
<1>2. /\ row.token = tasks[t].token /\ row.attempts = tasks[t].attempts
      /\ row.owner = tasks[t].owner /\ row.expiry = clock + ttl
  BY <1>0 DEF TaskRow
<1>3. k = [task |-> t, worker |-> tasks[t].owner, token |-> tasks[t].token,
           expires |-> clock + ttl]
  BY <1>1 DEF L!Lease
<1>6. leases' \subseteq L!Lease
  BY <1>1, ExpiresLater DEF RowsGranted, TasksTold, L!Lease
<1> HIDE DEF row, k
<1>4. tasks'[t] = row /\ \A u \in Task : u # t => tasks'[u] = tasks[u]
  BY <1>1 DEF TasksTold
<1>5. RowGranted(t)'
  <2>1. RowLease(t)' = k
    BY <1>2, <1>3, <1>4 DEF RowLease
  <2>2. RowGranted(t)
    BY DEF RowsGranted
  <2> QED BY <1>1, <1>2, <1>4, <2>1, <2>2 DEF RowGranted
<1> QED BY <1>1, <1>4, <1>5, <1>6, KeptGranted DEF RowKept

\* The calls on a lease, but its renewal.
LEMMA LeaseGranted ==
  ASSUME TasksTold, RowsGranted, NEW l \in L!Lease,
         \/ \E outcome : L!FinishAttempt(l, outcome)
         \/ \E next, body : L!Handoff(l, next, body)
         \/ \E q : L!BeginExecution(l, q) \/ L!ConfirmExecution(l, q)
         \/ \E r : L!SubmitFact(l, r) \/ L!SubmitIntent(l, r)
  PROVE  RowsGranted'
<1> DEFINE t == l.task
<1>0. t \in Task /\ tasks[t] \in TaskRow
  BY DEF TasksTold, L!Lease
<1> HIDE DEF t
<1>1. ASSUME NEW outcome, L!FinishAttempt(l, outcome)
      PROVE  RowsGranted'
  <2>1. PICK next \in {"blocked", "failed", "available"} :
            tasks' = [tasks EXCEPT ![t] = [tasks[t] EXCEPT !.status = next, !.owner = NoWorker,
                                                          !.expiry = L!NoExpiry]]
    BY <1>1 DEF L!FinishAttempt, L!Write, t
  <2>2. leases' = leases
    BY <1>1 DEF L!FinishAttempt
  <2> DEFINE row == [tasks[t] EXCEPT !.status = next, !.owner = NoWorker, !.expiry = L!NoExpiry]
  <2>3. row.token = tasks[t].token /\ row.attempts = tasks[t].attempts /\ row.status = next
    BY <1>0 DEF TaskRow
  <2> HIDE DEF row
  <2> QED BY <1>0, <2>1, <2>2, <2>3, WriteGranted DEF row
<1>2. ASSUME NEW next, NEW body, L!Handoff(l, next, body)
      PROVE  RowsGranted'
  <2> DEFINE status == IF body = NoResult THEN "handoff" ELSE "partial"
             result == IF body = NoResult THEN tasks[t].result ELSE body
             row == [tasks[t] EXCEPT !.status = status, !.owner = NoWorker,
                                     !.expiry = L!NoExpiry, !.result = result]
  <2>1. tasks' = [tasks EXCEPT ![t] = row] /\ leases' = leases
    BY <1>2 DEF L!Handoff, L!Write, t
  <2>2. status # "claimed"
    OBVIOUS
  <2> HIDE DEF status, result
  <2>3. row.token = tasks[t].token /\ row.attempts = tasks[t].attempts /\ row.status = status
    BY <1>0 DEF TaskRow
  <2> HIDE DEF row
  <2> QED BY <1>0, <2>1, <2>2, <2>3, WriteGranted
<1>3. ASSUME NEW q, L!BeginExecution(l, q) \/ L!ConfirmExecution(l, q)
      PROVE  RowsGranted'
  <2>1. PICK mark, count :
            tasks' = [tasks EXCEPT ![t] = [tasks[t] EXCEPT !.unconfirmed = mark,
                                                          !.executions = count]]
    <3>1. CASE L!BeginExecution(l, q)
      BY <3>1 DEF L!BeginExecution, L!Write, t
    <3>2. CASE L!ConfirmExecution(l, q)
      <4>1. tasks' = [tasks EXCEPT ![t] = [tasks[t] EXCEPT !.unconfirmed = NoRequest]]
        BY <3>2 DEF L!ConfirmExecution, L!Write, t
      <4>2. [tasks[t] EXCEPT !.unconfirmed = NoRequest] =
            [tasks[t] EXCEPT !.unconfirmed = NoRequest, !.executions = tasks[t].executions]
        BY <1>0 DEF TaskRow
      <4> QED BY <4>1, <4>2
    <3> QED BY <1>3, <3>1, <3>2
  <2>2. leases' = leases
    BY <1>3 DEF L!BeginExecution, L!ConfirmExecution
  <2> DEFINE row == [tasks[t] EXCEPT !.unconfirmed = mark, !.executions = count]
  <2>3. /\ row.token = tasks[t].token /\ row.attempts = tasks[t].attempts
        /\ row.status = tasks[t].status /\ row.owner = tasks[t].owner
        /\ row.expiry = tasks[t].expiry
    BY <1>0 DEF TaskRow
  <2> HIDE DEF row
  <2> QED BY <1>0, <2>1, <2>2, <2>3, WriteGranted DEF row
<1>4. ASSUME NEW r, L!SubmitFact(l, r)
      PROVE  RowsGranted'
  <2> DEFINE row == [tasks[t] EXCEPT !.status = "completed", !.result = r, !.effect = FALSE]
  <2>1. tasks' = [tasks EXCEPT ![t] = row] /\ leases' = leases
    BY <1>4 DEF L!SubmitFact, L!Completed, t
  <2>2. row.token = tasks[t].token /\ row.attempts = tasks[t].attempts
        /\ row.status = "completed"
    BY <1>0 DEF TaskRow
  <2> HIDE DEF row
  <2> QED BY <1>0, <2>1, <2>2, WriteGranted
<1>5. ASSUME NEW r, L!SubmitIntent(l, r)
      PROVE  RowsGranted'
  <2> DEFINE row == [tasks[t] EXCEPT !.status = "submitting", !.result = r]
  <2>1. tasks' = [tasks EXCEPT ![t] = row] /\ leases' = leases
    BY <1>5 DEF L!SubmitIntent, t
  <2>2. row.token = tasks[t].token /\ row.attempts = tasks[t].attempts
        /\ row.status = "submitting"
    BY <1>0 DEF TaskRow
  <2> HIDE DEF row
  <2> QED BY <1>0, <2>1, <2>2, WriteGranted
<1> QED BY <1>1, <1>2, <1>3, <1>4, <1>5

LEMMA ConditionGranted ==
  ASSUME TasksTold, RowsGranted, NEW t \in Task, L!RecordConditionFailure(t)
  PROVE  RowsGranted'
<1>0. tasks[t] \in TaskRow
  BY DEF TasksTold
<1>1. PICK count, status :
          /\ tasks' = [tasks EXCEPT ![t] = [tasks[t] EXCEPT !.conditions = count,
                                                            !.status = status]]
          /\ status \in {"blocked", tasks[t].status}
  BY DEF L!RecordConditionFailure, L!Write
<1>2. leases' = leases /\ tasks[t].status # "claimed"
  BY DEF L!RecordConditionFailure, L!Unclaimed
<1> DEFINE row == [tasks[t] EXCEPT !.conditions = count, !.status = status]
<1>3. row.token = tasks[t].token /\ row.attempts = tasks[t].attempts /\ row.status = status
  BY <1>0 DEF TaskRow
<1> HIDE DEF row
<1> QED BY <1>1, <1>2, <1>3, WriteGranted DEF row

LEMMA CommitGranted ==
  ASSUME TasksTold, RowsGranted, L!PublishCommit
  PROVE  RowsGranted'
<1>1. leases' = leases
  BY DEF L!PublishCommit
<1>2. CASE L!Owned(writer, {"claimed", "submitting"}) /\ writer.task \in Task
  <2> PICK t \in Task : t = writer.task
    BY <1>2
  <2> DEFINE row == [tasks[t] EXCEPT !.status = "completed", !.result = tasks[t].result,
                                     !.effect = TRUE]
  <2>1. tasks' = [tasks EXCEPT ![t] = row]
    BY <1>2 DEF L!PublishCommit, L!Completed
  <2>2. tasks[t] \in TaskRow
    BY DEF TasksTold
  <2>3. row.token = tasks[t].token /\ row.attempts = tasks[t].attempts
        /\ row.status = "completed"
    BY <2>2 DEF TaskRow
  <2> HIDE DEF row
  <2> QED BY <1>1, <2>1, <2>3, WriteGranted
<1>3. CASE ~L!Owned(writer, {"claimed", "submitting"})
  <2>1. tasks' = tasks
    BY <1>3 DEF L!PublishCommit
  <2> QED BY <1>1, <2>1, KeptGranted DEF RowKept, RowsGranted
<1>4. CASE writer.task \notin Task
  <2>1. \A t \in Task : tasks'[t] = tasks[t]
    BY <1>4 DEF L!PublishCommit, L!Completed, TasksTold
  <2> QED BY <1>1, <2>1, KeptGranted DEF RowKept, RowsGranted
<1> QED BY <1>2, <1>3, <1>4

LEMMA RestGranted ==
  ASSUME RowsGranted, UNCHANGED <<tasks, leases>>
  PROVE  RowsGranted'
BY DEF RowsGranted, RowGranted, RowLease

\* The ledger gives leases out, and takes none back.
LEMMA LedgerGrants ==
  ASSUME TasksTold, RowsGranted, L!Next \/ LedgerIdle
  PROVE  RowsGranted' /\ leases \subseteq leases'
<1>1. CASE \E t \in Task : L!Enqueue(t) \/ L!RecordConditionFailure(t)
  BY <1>1, EnqueueGranted, ConditionGranted
     DEF L!Enqueue, L!RecordConditionFailure
<1>2. CASE \E w \in Worker, t \in Task, ttl \in TTL : L!Claim(w, t, ttl)
  BY <1>2, ClaimGranted DEF L!Claim
<1>3. ASSUME NEW l \in leases, L!LeaseStep(l)
      PROVE  RowsGranted' /\ leases \subseteq leases'
  <2>0. l \in L!Lease
    BY DEF RowsGranted
  <2>1. CASE \E ttl \in TTL : L!Renew(l, ttl)
    BY <2>0, <2>1, RenewGranted DEF L!Renew
  <2>2. CASE L!PublishBegin(l)
    BY <2>2, RestGranted DEF L!PublishBegin
  <2>3. CASE \/ L!Release(l) \/ L!Fail(l)
             \/ \E next \in Worker, body \in Result \cup {NoResult} : L!Handoff(l, next, body)
             \/ \E q \in Request : L!BeginExecution(l, q) \/ L!ConfirmExecution(l, q)
             \/ \E r \in Result : L!SubmitFact(l, r) \/ L!SubmitIntent(l, r)
    <3>1. RowsGranted'
      BY <2>0, <2>3, LeaseGranted, SMTT(30) DEF L!Release, L!Fail
    <3>2. leases' = leases
      BY <2>3 DEF L!Release, L!Fail, L!FinishAttempt, L!Handoff, L!BeginExecution,
                  L!ConfirmExecution, L!SubmitFact, L!SubmitIntent
    <3> QED BY <3>1, <3>2
  <2> QED BY <1>3, <2>1, <2>2, <2>3 DEF L!LeaseStep
<1>4. CASE L!PublishCommit
  BY <1>4, CommitGranted DEF L!PublishCommit
<1>5. CASE \/ L!PublishApply \/ L!PublishRefused \/ L!Tick \/ LedgerIdle
           \/ \E w \in Worker : L!Crash(w)
  BY <1>5, RestGranted DEF L!PublishApply, L!PublishRefused, L!Tick, L!Crash, LedgerIdle, ledger
<1> QED BY <1>1, <1>2, <1>3, <1>4, <1>5 DEF L!Next

-----------------------------------------------------------------------------
(* The calls of the service, as calls on the ledger *)

\* A lease that is good is the last one given out for its task.
LEMMA GoodIsGranted ==
  ASSUME RowsGranted, NEW l \in L!Lease, L!Holds(l)
  PROVE  l \in leases /\ tasks[l.task].token > 0
<1>1. l.task \in Task
  BY DEF L!Lease
<1> PICK t \in Task : t = l.task
  BY <1>1
<1>2. RowLease(t) \in leases /\ tasks[t].token > 0
  BY DEF L!Holds, L!Owned, RowsGranted, RowGranted
<1>3. l = RowLease(t)
  BY DEF L!Holds, L!Owned, RowLease, L!Lease
<1> QED BY <1>2, <1>3

LEMMA HeldIsGranted ==
  ASSUME ServiceInv, RowsGranted, NEW c \in Caller, NEW t \in Task, Leased(c, t)
  PROVE  /\ LeaseOn(c, t) \in leases
         /\ tasks[t].token \in 1 .. MaxAttemptsPerTask
         /\ t \in Authors => Mine(c, t) \in Asset
<1>1. LeaseOn(c, t) \in L!Lease /\ LeaseOn(c, t).task = t /\ Host[c] \in Worker
  BY LeaseRead
<1>2. LeaseOn(c, t) \in leases /\ tasks[t].token > 0
  BY <1>1, GoodIsGranted DEF Leased
<1>3. tasks[t].token \in Nat
  <2>1. tasks[t] \in TaskRow
    BY DEF ServiceInv, ServiceTyped, TasksTold
  <2> QED BY <2>1 DEF TaskRow
<1>4. tasks[t].token \in 1 .. MaxAttemptsPerTask
  BY <1>2, <1>3, ServiceAssumption DEF RowsGranted, RowGranted
<1>5. t \in Authors => Mine(c, t) \in Asset
  BY <1>1, <1>4 DEF Mine, Asset
<1> QED BY <1>2, <1>4, <1>5

LEMMA LedgerLeaseStep ==
  ASSUME NEW l \in leases, L!LeaseStep(l)
  PROVE  L!Next
BY DEF L!Next

LEMMA LeaseCalls ==
  ASSUME ServiceInv, RowsGranted, NEW c \in Caller, NEW t \in Task,
         Claim(c, t) \/ Renew(c, t) \/ Release(c, t) \/ Handoff(c, t)
  PROVE  L!Next
<1>1. CASE Claim(c, t)
  BY <1>1, ServiceAssumption DEF Claim, L!Next
<1>2. CASE Renew(c, t) \/ Release(c, t) \/ Handoff(c, t)
  <2>1. PICK l \in leases : l = LeaseOn(c, t)
    BY <1>2, HeldIsGranted DEF Renew, Release, Handoff
  <2>2. CASE Renew(c, t)
    <3>1. \E ttl \in TTL : L!Renew(l, ttl)
      BY <2>1, <2>2 DEF Renew
    <3> QED BY <3>1, LedgerLeaseStep DEF L!LeaseStep
  <2>3. CASE Release(c, t)
    <3>1. L!Release(l)
      BY <2>1, <2>3 DEF Release
    <3> QED BY <3>1, LedgerLeaseStep DEF L!LeaseStep
  <2>4. CASE Handoff(c, t)
    <3>1. \E next \in Worker : L!Handoff(l, next, NoResult)
      BY <2>1, <2>4 DEF Handoff
    <3>2. \E next \in Worker, body \in Result \cup {NoResult} : L!Handoff(l, next, body)
      BY <3>1
    <3> QED BY <3>2, LedgerLeaseStep DEF L!LeaseStep
  <2> QED BY <1>2, <2>2, <2>3, <2>4
<1> QED BY <1>1, <1>2

LEMMA RunCalls ==
  ASSUME ServiceInv, RowsGranted, NEW c \in Caller, Begin(c) \/ Confirm(c)
  PROVE  L!Next \/ LedgerIdle
<1>0. /\ calls[c].run \in Request /\ calls[c].task \in Task
      /\ calls[c].lease \in L!Lease
  BY DEF Begin, Confirm, At, ServiceInv, CallTrue, Called, OwnRun, Experimenting
<1> PICK q \in Request : q = calls[c].run
  BY <1>0
<1>1. CASE Begin(c)
  <2>1. LedgerIdle \/ (L!Holds(calls[c].lease) /\ L!BeginExecution(calls[c].lease, q))
    BY <1>1 DEF Begin
  <2>2. ASSUME L!Holds(calls[c].lease), L!BeginExecution(calls[c].lease, q)
        PROVE  L!Next
    <3>1. PICK l \in leases : l = calls[c].lease
      BY <1>0, <2>2, GoodIsGranted
    <3>2. L!BeginExecution(l, q)
      BY <2>2, <3>1
    <3> QED BY <3>2, LedgerLeaseStep DEF L!LeaseStep
  <2> QED BY <2>1, <2>2
<1>2. CASE Confirm(c)
  <2>1. LedgerIdle \/ (Leased(c, calls[c].task) /\ L!ConfirmExecution(FreshLease(c), q))
    BY <1>2 DEF Confirm, StillLeased
  <2>2. ASSUME Leased(c, calls[c].task), L!ConfirmExecution(FreshLease(c), q)
        PROVE  L!Next
    <3>1. PICK l \in leases : l = FreshLease(c)
      BY <1>0, <2>2, HeldIsGranted DEF FreshLease
    <3>2. L!ConfirmExecution(l, q)
      BY <2>2, <3>1
    <3> QED BY <3>2, LedgerLeaseStep DEF L!LeaseStep
  <2> QED BY <2>1, <2>2
<1> QED BY <1>1, <1>2

LEMMA SubmitCalls ==
  ASSUME ServiceInv, ServedInv, NEW c \in Caller,
         ApplySubmit(c) \/ ApplyLock(c) \/ ApplyWrite(c) \/ Crash(c)
             \/ \E t \in Task : Complete(c, t)
  PROVE  L!Next \/ LedgerIdle
<1>0. RowsGranted /\ StoreTrue /\ Presented(c)
  BY DEF ServedInv
<1>1. ASSUME NEW t \in Task, Complete(c, t)
      PROVE  L!Next
  <2>1. PICK l \in leases : l = LeaseOn(c, t)
    BY <1>0, <1>1, HeldIsGranted DEF Complete
  <2>2. PICK r \in reports : L!SubmitFact(l, [asset |-> r.asset, run |-> r.run])
    BY <1>1, <2>1 DEF Complete
  <2>3. [asset |-> r.asset, run |-> r.run] \in Result
    BY <1>0 DEF StoreTrue, Result
  <2>4. \E body \in Result : L!SubmitFact(l, body)
    BY <2>2, <2>3
  <2> QED BY <2>4, LedgerLeaseStep DEF L!LeaseStep
<1>2. CASE ApplySubmit(c)
  <2>0. calls[c].task \in Task /\ calls[c].asset \in Asset
    BY <1>0, <1>2 DEF ApplySubmit, At, ServiceInv, CallTrue, Called, Presented
  <2>1. LedgerIdle \/ (Leased(c, calls[c].task) /\ L!SubmitIntent(FreshLease(c),
            [asset |-> calls[c].asset, run |-> NoRequest]))
    BY <1>2 DEF ApplySubmit, StillLeased
  <2>2. ASSUME Leased(c, calls[c].task),
               L!SubmitIntent(FreshLease(c), [asset |-> calls[c].asset, run |-> NoRequest])
        PROVE  L!Next
    <3>1. PICK l \in leases : l = FreshLease(c)
      BY <1>0, <2>0, <2>2, HeldIsGranted DEF FreshLease
    <3>2. [asset |-> calls[c].asset, run |-> NoRequest] \in Result
      BY <2>0 DEF Result
    <3>3. \E body \in Result : L!SubmitIntent(l, body)
      BY <2>2, <3>1, <3>2
    <3> QED BY <3>3, LedgerLeaseStep DEF L!LeaseStep
  <2> QED BY <2>1, <2>2
<1>3. CASE ApplyLock(c)
  <2>1. PICK l \in leases : l = calls[c].lease
    BY <1>0, <1>3 DEF ApplyLock, At, Presented
  <2>2. L!PublishBegin(l)
    BY <1>3, <2>1 DEF ApplyLock
  <2> QED BY <2>2, LedgerLeaseStep DEF L!LeaseStep
<1>4. CASE ApplyWrite(c)
  BY <1>4 DEF ApplyWrite, L!Next
<1>5. CASE Crash(c)
  <2>1. LedgerIdle \/ L!Crash(Host[c])
    BY <1>5 DEF Crash
  <2> QED BY <2>1, ServiceAssumption DEF L!Next
<1> QED BY <1>1, <1>2, <1>3, <1>4, <1>5

\* Every step of the service is one of the task ledger, or none of its.
LEMMA CallsOfLedger ==
  ASSUME ServiceInv, ServedInv, [Next]_vars
  PROVE  L!Next \/ LedgerIdle
<1>0. RowsGranted
  BY DEF ServedInv
<1>1. CASE UNCHANGED vars
  BY <1>1 DEF vars, LedgerIdle
<1>2. CASE Tick \/ \E t \in Task : Seed(t)
  BY <1>2 DEF Tick, Seed, L!Next
<1>3. ASSUME NEW c \in Caller, CallStep(c)
      PROVE  L!Next \/ LedgerIdle
  <2>1. CASE \E t \in Task : Claim(c, t) \/ Renew(c, t) \/ Release(c, t) \/ Handoff(c, t)
    BY <1>0, <2>1, LeaseCalls
  <2>2. CASE \E t \in Task : Publish(c, t) \/ Prepare(c, t) \/ ExecuteCheck(c, t)
                                \/ ApprovePrepare(c, t) \/ ApplyCheck(c, t)
    BY <2>2, ZenonT(60) DEF Publish, Prepare, ExecuteCheck, ApprovePrepare, ApplyCheck
  <2>3. CASE Reserve(c) \/ Run(c) \/ Settle(c) \/ RecordCheck(c) \/ Record(c) \/ ObserveRead(c)
                 \/ ObserveRecord(c) \/ ApproveCommit(c)
    BY <2>3, ZenonT(60) DEF Reserve, Run, Settle, RecordCheck, Record, ObserveRead, ObserveRecord, ApproveCommit
  <2>4. CASE Begin(c) \/ Confirm(c)
    BY <1>0, <2>4, RunCalls
  <2>5. CASE ApplySubmit(c) \/ ApplyLock(c) \/ ApplyWrite(c) \/ Crash(c)
                 \/ \E t \in Task : Complete(c, t)
    BY <2>5, SubmitCalls
  <2> QED BY <1>3, <2>1, <2>2, <2>3, <2>4, <2>5 DEF CallStep
<1> QED BY <1>1, <1>2, <1>3 DEF Next

-----------------------------------------------------------------------------
(* What a call presents goes on being true *)

\* One call moves, and what it presents next is true; leases are only added.
LEMMA PresentsOn ==
  ASSUME ServiceInv, ServedInv, leases \subseteq leases', NEW c \in Caller,
         calls' \in [Caller -> ServiceCall], \A d \in Caller : d # c => calls'[d] = calls[d],
         Presented(c)'
  PROVE  \A d \in Caller : Presented(d)'
BY DEF ServedInv, Presented

LEMMA PresentsStill ==
  ASSUME ServedInv, leases \subseteq leases', UNCHANGED calls
  PROVE  \A d \in Caller : Presented(d)'
BY DEF ServedInv, Presented

\* A call that ends, or goes on to a step where nothing is presented.
LEMMA PresentsNone ==
  ASSUME ServiceInv, ServedInv, leases \subseteq leases', calls' \in [Caller -> ServiceCall],
         NEW c \in Caller, \A d \in Caller : d # c => calls'[d] = calls[d],
         calls'[c].step \notin {"lock", "observe", "submit"}
  PROVE  \A d \in Caller : Presented(d)'
BY PresentsOn DEF Presented

LEMMA CallEnded ==
  ASSUME ServiceInv, NEW c \in Caller, Done(c)
  PROVE  calls'[c].step = "idle" /\ \A d \in Caller : d # c => calls'[d] = calls[d]
BY DEF Done, Idle, ServiceInv, ServiceTyped

LEMMA CallGone ==
  ASSUME ServiceInv, NEW c \in Caller, NEW step, Go(c, step)
  PROVE  calls'[c].step = step /\ \A d \in Caller : d # c => calls'[d] = calls[d]
<1>1. calls[c] \in ServiceCall /\ calls \in [Caller -> ServiceCall]
  BY DEF ServiceInv, ServiceTyped
<1> QED BY <1>1 DEF Go, ServiceCall

\* The steps that neither present nor store anything: they end the call, go on with
\* a run, or work on a lease.
LEMMA RunsPresentNone ==
  ASSUME ServiceInv, ServedInv, leases \subseteq leases', calls' \in [Caller -> ServiceCall],
         NEW c \in Caller,
         Reserve(c) \/ Begin(c) \/ Run(c) \/ Settle(c) \/ RecordCheck(c) \/ Record(c) \/ Confirm(c)
  PROVE  \A d \in Caller : Presented(d)'
<1>0. calls[c] \in ServiceCall /\ calls \in [Caller -> ServiceCall]
  BY DEF ServiceInv, ServiceTyped
<1>1. CASE Reserve(c)
  <2>1. ASSUME NEW q, calls' = [calls EXCEPT ![c].step = "begin", ![c].run = q]
        PROVE  calls'[c].step = "begin" /\ \A d \in Caller : d # c => calls'[d] = calls[d]
    BY <1>0, <2>1 DEF ServiceCall
  <2>2. Done(c) \/ \E q : calls' = [calls EXCEPT ![c].step = "begin", ![c].run = q]
    BY <1>1 DEF Reserve
  <2> QED BY <2>1, <2>2, CallEnded, PresentsNone
<1>2. CASE Begin(c)
  <2>1. Done(c) \/ Go(c, "run")
    BY <1>2 DEF Begin
  <2> QED BY <2>1, CallEnded, CallGone, PresentsNone
<1>3. CASE Run(c)
  <2>1. ASSUME NEW o, NEW step \in {"record", "settle"},
               calls' = [calls EXCEPT ![c].step = step, ![c].outcome = o]
        PROVE  calls'[c].step = step /\ \A d \in Caller : d # c => calls'[d] = calls[d]
    BY <1>0, <2>1 DEF ServiceCall
  <2>2. Done(c) \/ \E o : calls' = [calls EXCEPT ![c].step = AfterRun(c), ![c].outcome = o]
    BY <1>3 DEF Run
  <2>3. AfterRun(c) \in {"record", "settle"}
    BY DEF AfterRun
  <2>4. Done(c) \/ \E o : \E step \in {"record", "settle"} :
                       calls' = [calls EXCEPT ![c].step = step, ![c].outcome = o]
    BY <2>2, <2>3
  <2> QED BY <2>1, <2>4, CallEnded, PresentsNone
<1>4. CASE Settle(c)
  <2>1. Go(c, "record") \/ Go(c, "confirm") \/ Done(c)
    BY <1>4 DEF Settle
  <2> QED BY <2>1, CallEnded, CallGone, PresentsNone
<1>5. CASE Record(c)
  <2>1. Go(c, "resolve") \/ Go(c, "confirm") \/ Done(c)
    BY <1>5 DEF Record
  <2> QED BY <2>1, CallEnded, CallGone, PresentsNone
<1>6. CASE Confirm(c)
  <2>1. Done(c)
    BY <1>6 DEF Confirm
  <2> QED BY <2>1, CallEnded, PresentsNone
<1>7. CASE RecordCheck(c)
  <2>1. Go(c, "event") \/ Done(c)
    BY <1>7 DEF RecordCheck
  <2> QED BY <2>1, CallEnded, CallGone, PresentsNone
<1> QED BY <1>1, <1>2, <1>3, <1>4, <1>5, <1>6, <1>7

LEMMA ReadersPresent ==
  ASSUME ServiceInv, ServedInv, leases \subseteq leases', calls' \in [Caller -> ServiceCall],
         NEW c \in Caller,
         \/ \E t \in Task : ExecuteCheck(c, t) \/ ApprovePrepare(c, t) \/ ApplyCheck(c, t)
         \/ ObserveRead(c)
  PROVE  \A d \in Caller : Presented(d)'
<1>0. calls \in [Caller -> ServiceCall]
  BY DEF ServiceInv, ServiceTyped
<1>1. ASSUME NEW t \in Task, ExecuteCheck(c, t)
      PROVE  \A d \in Caller : Presented(d)'
  <2>1. /\ calls'[c].step = "reserve"
        /\ \A d \in Caller : d # c => calls'[d] = calls[d]
    <3> HIDE DEF ServiceCall
    <3>1. [Idle EXCEPT !.step = "reserve", !.task = t, !.lease = LeaseOn(c, t)].step = "reserve"
      BY DEF Idle
    <3> QED BY <1>0, <1>1, <3>1 DEF ExecuteCheck
  <2> QED BY <2>1, PresentsNone
<1>2. ASSUME NEW t \in Task, ApprovePrepare(c, t)
      PROVE  \A d \in Caller : Presented(d)'
  <2>1. PICK asset : calls' = [calls EXCEPT ![c] =
                 [Idle EXCEPT !.step = "commit", !.task = t, !.lease = LeaseOn(c, t),
                              !.asset = asset]]
    BY <1>2 DEF ApprovePrepare
  <2>2. [Idle EXCEPT !.step = "commit", !.task = t, !.lease = LeaseOn(c, t),
                     !.asset = asset].step = "commit"
    BY DEF Idle
  <2>3. calls'[c].step = "commit" /\ \A d \in Caller : d # c => calls'[d] = calls[d]
    <3> HIDE DEF ServiceCall
    <3> QED BY <1>0, <2>1, <2>2
  <2> QED BY <2>3, PresentsNone
<1>3. ASSUME NEW t \in Task, ApplyCheck(c, t)
      PROVE  \A d \in Caller : Presented(d)'
  <2>1. PICK asset \in published : calls' = [calls EXCEPT ![c] =
                 [Idle EXCEPT !.step = "submit", !.task = t, !.lease = LeaseOn(c, t),
                              !.asset = asset]]
    BY <1>3 DEF ApplyCheck
  <2> DEFINE call == [Idle EXCEPT !.step = "submit", !.task = t, !.lease = LeaseOn(c, t),
                                  !.asset = asset]
  <2>2. call.step = "submit" /\ call.asset = asset /\ asset \in Asset
    BY DEF Idle, ServedInv, StoreTrue
  <2> HIDE DEF call
  <2>3. calls'[c] = call /\ \A d \in Caller : d # c => calls'[d] = calls[d]
    <3> HIDE DEF ServiceCall
    <3> QED BY <1>0, <2>1 DEF call
  <2>4. Presented(c)'
    BY <2>2, <2>3 DEF Presented
  <2> QED BY <2>3, <2>4, PresentsOn
<1>4. CASE ObserveRead(c)
  <2>1. PICK e \in executions, asset \in published, purpose \in Purpose :
            calls' = [calls EXCEPT ![c] =
                 [Idle EXCEPT !.step = "observe", !.task = e.run[1],
                              !.lease = LeaseOn(c, e.run[1]), !.run = e.run,
                              !.outcome = e.outcome, !.asset = asset,
                              !.purpose = purpose, !.source = e.token]]
    BY <1>4 DEF ObserveRead
  <2> DEFINE call == [Idle EXCEPT !.step = "observe", !.task = e.run[1],
                                  !.lease = LeaseOn(c, e.run[1]), !.run = e.run,
                                  !.outcome = e.outcome, !.asset = asset,
                                  !.purpose = purpose, !.source = e.token]
  <2>2. /\ call.step = "observe" /\ call.asset = asset /\ asset \in Asset
        /\ call.run = e.run /\ e.run \in Request
    BY DEF Idle, ServedInv, StoreTrue, ServiceInv, ServiceTyped, Execution
  <2> HIDE DEF call
  <2>3. calls'[c] = call /\ \A d \in Caller : d # c => calls'[d] = calls[d]
    <3> HIDE DEF ServiceCall
    <3> QED BY <1>0, <2>1 DEF call
  <2>4. Presented(c)'
    BY <2>2, <2>3 DEF Presented
  <2> QED BY <2>3, <2>4, PresentsOn
<1> QED BY <1>1, <1>2, <1>3, <1>4

LEMMA ApplicationsPresent ==
  ASSUME ServiceInv, ServedInv, leases \subseteq leases', calls' \in [Caller -> ServiceCall],
         NEW c \in Caller,
         ApplySubmit(c) \/ ApplyLock(c) \/ ApplyWrite(c) \/ ObserveRecord(c)
             \/ ApproveCommit(c) \/ Crash(c)
  PROVE  \A d \in Caller : Presented(d)'
<1>1. CASE ApplySubmit(c)
  <2>1. CASE Done(c)
    BY <2>1, CallEnded, PresentsNone
  <2>2. CASE /\ StillLeased(c)
             /\ calls' = [calls EXCEPT ![c].step = "lock", ![c].lease = FreshLease(c)]
    <3>0. calls[c] \in ServiceCall /\ calls \in [Caller -> ServiceCall]
      BY DEF ServiceInv, ServiceTyped
    <3>1. /\ calls'[c].step = "lock" /\ calls'[c].lease = FreshLease(c)
          /\ \A d \in Caller : d # c => calls'[d] = calls[d]
      BY <2>2, <3>0 DEF ServiceCall
    <3>2. calls[c].task \in Task
      BY <1>1 DEF ApplySubmit, At, ServiceInv, CallTrue, Called
    <3>3. FreshLease(c) \in leases
      BY <2>2, <3>2, HeldIsGranted DEF FreshLease, StillLeased, ServedInv
    <3>4. Presented(c)'
      BY <3>1, <3>3 DEF Presented
    <3> QED BY <3>1, <3>4, PresentsOn
  <2> QED BY <1>1, <2>1, <2>2 DEF ApplySubmit
<1>2. CASE ApplyLock(c)
  <2>1. Go(c, "write") \/ Done(c)
    BY <1>2 DEF ApplyLock
  <2> QED BY <2>1, CallEnded, CallGone, PresentsNone
<1>3. CASE ApplyWrite(c) \/ ObserveRecord(c) \/ ApproveCommit(c) \/ Crash(c)
  <2>1. UNCHANGED calls \/ Done(c)
    BY <1>3 DEF ApplyWrite, ObserveRecord, ApproveCommit, Crash
  <2> QED BY <2>1, CallEnded, PresentsNone, PresentsStill
<1> QED BY <1>1, <1>2, <1>3

LEMMA CallsPresent ==
  ASSUME ServiceInv, ServiceInv', ServedInv, leases \subseteq leases', [Next]_vars
  PROVE  \A d \in Caller : Presented(d)'
<1>0. calls' \in [Caller -> ServiceCall]
  BY DEF ServiceInv, ServiceTyped
<1>1. CASE UNCHANGED vars \/ Tick \/ \E t \in Task : Seed(t)
  BY <1>1, PresentsStill DEF vars, Tick, Seed
<1>2. ASSUME NEW c \in Caller, CallStep(c)
      PROVE  \A d \in Caller : Presented(d)'
  <2>1. CASE \E t \in Task : \/ Claim(c, t) \/ Renew(c, t) \/ Release(c, t) \/ Handoff(c, t)
                             \/ Publish(c, t) \/ Prepare(c, t) \/ Complete(c, t)
    <3>1. UNCHANGED calls
      BY <2>1 DEF Claim, Renew, Release, Handoff, Publish, Prepare, Complete
    <3> QED BY <3>1, PresentsStill
  <2>2. CASE \/ \E t \in Task : ExecuteCheck(c, t) \/ ApprovePrepare(c, t) \/ ApplyCheck(c, t)
             \/ ObserveRead(c)
    BY <1>0, <2>2, ReadersPresent
  <2>3. CASE Reserve(c) \/ Begin(c) \/ Run(c) \/ Settle(c) \/ RecordCheck(c) \/ Record(c) \/ Confirm(c)
    BY <1>0, <2>3, RunsPresentNone
  <2>4. CASE ApplySubmit(c) \/ ApplyLock(c) \/ ApplyWrite(c) \/ ObserveRecord(c)
                 \/ ApproveCommit(c) \/ Crash(c)
    BY <1>0, <2>4, ApplicationsPresent
  <2> QED BY <1>2, <2>1, <2>2, <2>3, <2>4 DEF CallStep
<1> QED BY <1>1, <1>2 DEF Next

\* Candidates carry an attempt the ledger allows.
LEMMA StoreKept ==
  ASSUME ServiceInv, ServedInv, [Next]_vars
  PROVE  StoreTrue'
<1>0. StoreTrue /\ RowsGranted
  BY DEF ServedInv
<1>1. CASE UNCHANGED store
  BY <1>0, <1>1 DEF store, StoreTrue
<1>2. ASSUME NEW c \in Caller, CallStep(c), ~UNCHANGED store
      PROVE  StoreTrue'
  <2>1. CASE \E t \in Task : Publish(c, t)
    <3>1. PICK t \in Task : /\ t \in Authors /\ Leased(c, t)
                            /\ published' = published \cup {Mine(c, t)} /\ reports' = reports
      BY <2>1 DEF Publish
    <3> QED BY <1>0, <3>1, HeldIsGranted DEF StoreTrue
  <2>2. CASE \E t \in Task : Prepare(c, t)
    <3>1. PICK t \in Task :
              \E asset \in published \cup (IF t \in Authors THEN {Mine(c, t)} ELSE {}) :
              Leased(c, t) /\ published' = published \cup {asset} /\ reports' = reports
      BY <2>2 DEF Prepare
    <3> QED BY <1>0, <3>1, HeldIsGranted DEF StoreTrue
  <2>3. CASE ObserveRecord(c)
    <3>1. /\ published' = published
          /\ \A r \in reports' : r \in reports \/ (r.asset = calls[c].asset /\ r.run = calls[c].run)
      BY <2>3 DEF ObserveRecord
    <3>2. calls[c].asset \in Asset /\ calls[c].run \in Request
      BY <2>3 DEF ObserveRecord, At, ServedInv, Presented
    <3> QED BY <1>0, <3>1, <3>2 DEF StoreTrue
  <2>4. CASE ApproveCommit(c)
    BY <1>0, <2>4, SMTT(30) DEF ApproveCommit, StoreTrue
  <2>5. /\ ~Reserve(c) /\ ~Begin(c) /\ ~Run(c) /\ ~Settle(c) /\ ~RecordCheck(c) /\ ~Record(c) /\ ~Confirm(c)
        /\ ~ObserveRead(c) /\ ~ApplySubmit(c) /\ ~ApplyLock(c) /\ ~ApplyWrite(c) /\ ~Crash(c)
    BY <1>2 DEF StoreIdle, Reserve, Begin, Run, Settle, RecordCheck, Record, Confirm, ObserveRead,
                ApplySubmit, ApplyLock, ApplyWrite, Crash
  <2>6. \A t \in Task : /\ ~Claim(c, t) /\ ~Renew(c, t) /\ ~Release(c, t) /\ ~Handoff(c, t)
                        /\ ~ExecuteCheck(c, t) /\ ~Complete(c, t) /\ ~ApprovePrepare(c, t)
                        /\ ~ApplyCheck(c, t)
    BY <1>2 DEF StoreIdle, Claim, Renew, Release, Handoff, ExecuteCheck, Complete,
                ApprovePrepare, ApplyCheck
  <2> QED BY <1>2, <2>1, <2>2, <2>3, <2>4, <2>5, <2>6 DEF CallStep
<1>3. CASE UNCHANGED vars \/ Tick \/ \E t \in Task : Seed(t)
  BY <1>1, <1>3 DEF vars, Tick, Seed, StoreIdle
<1> QED BY <1>1, <1>2, <1>3 DEF Next

LEMMA ServedStarts ==
  ASSUME Init
  PROVE  ServedInv
<1>1. RowsGranted
  BY ServiceAssumption DEF Init, L!Init, L!AbsentRow, RowsGranted, RowGranted
<1>2. StoreTrue
  BY DEF Init, StoreTrue
<1>3. \A c \in Caller : Presented(c)
  BY DEF Init, Presented, Idle
<1> QED BY <1>1, <1>2, <1>3 DEF ServedInv

LEMMA ServedKept ==
  ASSUME ServiceInv, ServedInv, [Next]_vars
  PROVE  ServedInv'
<1>1. ServiceInv'
  BY ServiceKept
<1>2. RowsGranted' /\ leases \subseteq leases'
  <2>1. L!Next \/ LedgerIdle
    BY CallsOfLedger
  <2>2. TasksTold /\ RowsGranted
    BY DEF ServiceInv, ServiceTyped, ServedInv
  <2> QED BY <2>1, <2>2, LedgerGrants
<1>3. StoreTrue'
  BY StoreKept
<1>4. \A d \in Caller : Presented(d)'
  BY <1>1, <1>2, CallsPresent
<1> QED BY <1>2, <1>3, <1>4 DEF ServedInv

\* What the tables of the service owe each other, and with it: a claimed row is covered by the
\* lease it was last claimed or renewed with, and what a call presents without reading it again
\* (a lease, an asset, a run) was given out, published or reported.
THEOREM ServedInvariant == Spec => [](ServiceInv /\ ServedInv)
<1>1. Init => ServiceInv /\ ServedInv
  BY ServiceStarts, ServedStarts
<1>2. (ServiceInv /\ ServedInv) /\ [Next]_vars => (ServiceInv /\ ServedInv)'
  BY ServiceKept, ServedKept
<1> QED BY <1>1, <1>2, PTL DEF Spec

\* Research calls change the ledger by its own operations only, and present it only leases it
\* gave out: every behaviour of the service is one of the task ledger.
THEOREM ServiceKeepsToLedger == Spec => L!Spec
<1>1. Init => L!Init
  BY DEF Init
<1>2. (ServiceInv /\ ServedInv) /\ [Next]_vars => [L!Next]_(L!vars)
  BY CallsOfLedger DEF LedgerIdle, ledger, L!vars
<1> QED BY <1>1, <1>2, ServedInvariant, PTL DEF Spec, L!Spec

-----------------------------------------------------------------------------
(* The calls of the service, as calls on the budget *)

\* Reservations and settlements are made at the time of the ledger's clock.
LEMMA NowIsReached ==
  ASSUME ServiceInv
  PROVE  clock \in 0 .. clock
BY DEF ServiceInv, ServiceTyped, TasksTold

LEMMA SettleCalls ==
  ASSUME ServiceInv, NEW q \in Request, NEW u \in Usages \cup {NoUsage},
         B!Settle(q, u, FALSE, clock)
  PROVE  B!Next
<1>1. B!RequestStep(q)
  BY NowIsReached DEF B!RequestStep
<1> QED BY <1>1 DEF B!Next

LEMMA BudgetCalls ==
  ASSUME ServiceInv, NEW c \in Caller,
         Reserve(c) \/ Begin(c) \/ Run(c) \/ Settle(c) \/ RecordCheck(c) \/ Record(c)
  PROVE  B!Next \/ BudgetIdle
<1>1. CASE Reserve(c)
  <2>1. calls[c].task \in Task /\ Host[c] \in Worker
    BY <1>1, ServiceAssumption DEF Reserve, At, ServiceInv, CallTrue, Called
  <2> PICK t \in Task, w \in Worker : t = calls[c].task /\ w = Host[c]
    BY <2>1
  <2>2. ASSUME NEW q \in FreshRun(t)
        PROVE  q \in Request
    <3>1. PICK k \in 1 .. MaxExecutions : q = <<t, k>>
      BY DEF FreshRun
    <3> QED BY <3>1 DEF Request
  <2>3. PICK q \in FreshRun(calls[c].task), b \in Bounds :
            B!Reserve(Host[c], calls[c].task, q, b, clock) \/ BudgetIdle
    <3>1. PICK q \in FreshRun(calls[c].task), b \in Bounds :
              IF B!Reservable(Host[c], calls[c].task, q, b, clock)
              THEN /\ B!Reserve(Host[c], calls[c].task, q, b, clock)
                   /\ calls' = [calls EXCEPT ![c].step = "begin", ![c].run = q]
              ELSE BudgetIdle /\ Done(c)
      BY <1>1, ZenonT(30) DEF Reserve
    <3>2. B!Reserve(Host[c], calls[c].task, q, b, clock) \/ BudgetIdle
      BY <3>1, ZenonT(30)
    <3> QED BY <3>2
  <2>4. q \in Request /\ (B!Reserve(w, t, q, b, clock) \/ BudgetIdle)
    BY <2>2, <2>3
  <2>5. CASE B!Reserve(w, t, q, b, clock)
    <3>1. B!RequestStep(q)
      BY <2>5, NowIsReached DEF B!RequestStep
    <3> QED BY <2>4, <3>1 DEF B!Next
  <2> QED BY <2>4, <2>5
<1>2. CASE Begin(c) \/ Run(c) \/ Settle(c) \/ RecordCheck(c) \/ Record(c)
  <2>1. calls[c].run \in Request
    BY <1>2 DEF Begin, Run, Settle, RecordCheck, Record, At, ServiceInv, CallTrue, OwnRun, Experimenting
  <2> PICK q \in Request : q = calls[c].run
    BY <2>1
  <2>2. MarkUncertain(q) => BudgetIdle \/ B!Settle(q, NoUsage, FALSE, clock)
    BY DEF MarkUncertain
  <2>3. MarkUncertain(q) => BudgetIdle \/ B!Next
    BY <2>2, SettleCalls
  <2>4. CASE Begin(c)
    BY <2>3, <2>4 DEF Begin
  <2>5. CASE Run(c)
    BY <2>3, <2>5 DEF Run
  <2>6. CASE RecordCheck(c) \/ Record(c)
    BY <2>3, <2>6 DEF RecordCheck, Record
  <2>7. CASE Settle(c)
    <3>1. Paid(c) \subseteq Usages \cup {NoUsage}
      BY DEF Paid
    <3>2. \E u \in Paid(c) : B!Settle(q, u, FALSE, clock)
      BY <2>7 DEF Settle
    <3> QED BY <3>1, <3>2, SettleCalls
  <2> QED BY <1>2, <2>4, <2>5, <2>6, <2>7
<1> QED BY <1>1, <1>2

\* Time passes for both ledgers at once, and only by itself.
LEMMA CallsAreQuick ==
  ASSUME NEW c \in Caller, CallStep(c)
  PROVE  clock' = clock
<1>1. CASE \E t \in Task : Claim(c, t) \/ Renew(c, t) \/ Release(c, t) \/ Handoff(c, t)
                              \/ Complete(c, t)
  BY <1>1, ZenonT(60)
     DEF Claim, Renew, Release, Handoff, Complete, L!Claim, L!Renew, L!Release,
         L!FinishAttempt, L!Handoff, L!SubmitFact, L!Write
<1>2. CASE \E t \in Task : Publish(c, t) \/ Prepare(c, t) \/ ExecuteCheck(c, t)
                              \/ ApprovePrepare(c, t) \/ ApplyCheck(c, t)
  BY <1>2, ZenonT(60)
     DEF Publish, Prepare, ExecuteCheck, ApprovePrepare, ApplyCheck, LedgerIdle, ledger
<1>3. CASE Reserve(c) \/ Run(c) \/ Settle(c) \/ RecordCheck(c) \/ Record(c) \/ ObserveRead(c)
               \/ ObserveRecord(c) \/ ApproveCommit(c)
  BY <1>3, ZenonT(60) DEF Reserve, Run, Settle, RecordCheck, Record, ObserveRead, ObserveRecord, ApproveCommit,
              LedgerIdle, ledger
<1>4. CASE Begin(c) \/ Confirm(c) \/ ApplySubmit(c)
  BY <1>4 DEF Begin, Confirm, ApplySubmit, L!BeginExecution, L!ConfirmExecution,
              L!SubmitIntent, L!Write, LedgerIdle, ledger
<1>5. CASE ApplyLock(c) \/ ApplyWrite(c) \/ Crash(c)
  BY <1>5 DEF ApplyLock, ApplyWrite, Crash, L!PublishBegin, L!PublishApply, L!PublishRefused,
              L!PublishCommit, L!Crash, LedgerIdle, ledger
<1> QED BY <1>1, <1>2, <1>3, <1>4, <1>5 DEF CallStep

LEMMA CallsOfBudget ==
  ASSUME ServiceInv, [Next]_vars
  PROVE  B!Next \/ UNCHANGED B!vars
<1>1. CASE UNCHANGED vars
  BY <1>1 DEF vars, ledger, budget, B!vars
<1>2. CASE Tick
  <2>1. B!Tick
    BY <1>2 DEF Tick, L!Tick, B!Tick, BudgetIdle, budget
  <2> QED BY <2>1 DEF B!Next
<1>3. CASE \E t \in Task : Seed(t)
  BY <1>3 DEF Seed, L!Enqueue, L!Write, BudgetIdle, budget, B!vars
<1>4. ASSUME NEW c \in Caller, CallStep(c)
      PROVE  B!Next \/ UNCHANGED B!vars
  <2>1. CASE Reserve(c) \/ Begin(c) \/ Run(c) \/ Settle(c) \/ RecordCheck(c) \/ Record(c)
    BY <1>4, <2>1, BudgetCalls, CallsAreQuick DEF BudgetIdle, budget, B!vars
  <2>2. CASE \E t \in Task : \/ Claim(c, t) \/ Renew(c, t) \/ Release(c, t) \/ Handoff(c, t)
                             \/ Publish(c, t) \/ Prepare(c, t) \/ ExecuteCheck(c, t)
                             \/ Complete(c, t) \/ ApprovePrepare(c, t) \/ ApplyCheck(c, t)
    <3>1. BudgetIdle
      BY <2>2, ZenonT(60)
         DEF Claim, Renew, Release, Handoff, Publish, Prepare, ExecuteCheck, Complete,
             ApprovePrepare, ApplyCheck
    <3> QED BY <1>4, <3>1, CallsAreQuick, SMTT(30) DEF BudgetIdle, budget, B!vars
  <2>3. CASE \/ Confirm(c) \/ ObserveRead(c) \/ ObserveRecord(c) \/ ApproveCommit(c)
             \/ ApplySubmit(c) \/ ApplyLock(c) \/ ApplyWrite(c) \/ Crash(c)
    <3>1. BudgetIdle
      BY <2>3, ZenonT(60)
         DEF Confirm, ObserveRead, ObserveRecord, ApproveCommit, ApplySubmit, ApplyLock,
             ApplyWrite, Crash
    <3> QED BY <1>4, <3>1, CallsAreQuick DEF BudgetIdle, budget, B!vars
  <2> QED BY <1>4, <2>1, <2>2, <2>3 DEF CallStep
<1> QED BY <1>1, <1>2, <1>3, <1>4 DEF Next

\* Likewise, every behaviour of the service is one of the budget ledger.
THEOREM ServiceKeepsToBudget == Spec => B!Spec
<1>1. Init => B!Init
  BY DEF Init
<1>2. ServiceInv /\ [Next]_vars => [B!Next]_(B!vars)
  BY CallsOfBudget
<1> QED BY <1>1, <1>2, ServiceInvariant, PTL DEF Spec, B!Spec

-----------------------------------------------------------------------------
(* The records of a project *)

Proposal == [id : Member \X Nat, status : {"proposed", "accepted", "blocked"}]
Correction == [kind : Kinds, reason : Grounds, actor : Member]

\* The steps of propose_work(), between which other members come.
Proposing == {"enqueue", "accepted", "blocked"}
ProposalCall == [step : Proposing, content : Content, stored : Proposal, own : Member \X Nat]
AcceptCall == [step : {"accept"}, fact : Fact, review : Fact]
SupersedeCall == [step : {"supersede"}, fact : Fact]
CorrectCall == [step : {"check", "correct"}, branch : Branch, kind : Kinds, reason : Grounds]
Calls == {NoCallYet} \cup ProposalCall \cup AcceptCall \cup SupersedeCall \cup CorrectCall

RecordsTyped ==
    /\ proposals \in [Content -> Proposal \cup {Nothing}]
    /\ proposed \in [Member -> Nat]
    /\ \A t \in admitted : t.content \in Content
    /\ facts \in Seq(Fact)
    /\ \A c \in contributions : c.fact \in Fact /\ c.review \in Fact
    /\ history \in [Branch -> Seq(Correction)]
    /\ doing \in [Member -> Calls]

-----------------------------------------------------------------------------
(* Calls *)

\* The step of a call tells what the call knows.
LEMMA CallKinds ==
  ASSUME NEW m \in Member, doing[m] \in Calls
  PROVE  /\ doing[m].step \in Proposing => doing[m] \in ProposalCall
         /\ doing[m].step = "accept" => doing[m] \in AcceptCall
         /\ doing[m].step = "supersede" => doing[m] \in SupersedeCall
         /\ doing[m].step \in {"check", "correct"} => doing[m] \in CorrectCall
<1>1. NoCallYet.step = "none"
  BY DEF NoCallYet
<1>2. /\ \A c \in ProposalCall : c.step \in Proposing
      /\ \A c \in AcceptCall : c.step = "accept"
      /\ \A c \in SupersedeCall : c.step = "supersede"
      /\ \A c \in CorrectCall : c.step \in {"check", "correct"}
  BY DEF ProposalCall, AcceptCall, SupersedeCall, CorrectCall
<1> QED BY <1>1, <1>2 DEF Calls, Proposing

\* A member enters a call or a step of it; the calls of the others stay.
LEMMA CallMoves ==
  ASSUME doing \in [Member -> Calls], NEW m \in Member, NEW c \in Calls, Call(m, c)
  PROVE  /\ doing' \in [Member -> Calls] /\ doing'[m] = c
         /\ \A n \in Member : n # m => doing'[n] = doing[n]
<1> HIDE DEF Calls
<1> QED BY DEF Call

LEMMA CallEnds ==
  ASSUME doing \in [Member -> Calls], NEW m \in Member, Over(m)
  PROVE  /\ doing' \in [Member -> Calls] /\ doing'[m] = NoCallYet /\ doing'[m].step = "none"
         /\ \A n \in Member : n # m => doing'[n] = doing[n]
<1>1. NoCallYet \in Calls /\ NoCallYet.step = "none"
  BY DEF Calls, NoCallYet
<1> QED BY <1>1, CallMoves DEF Over

-----------------------------------------------------------------------------
(* propose_work(): the ledger and the store of proposals agree at every step *)

HasTask(c) == \E t \in admitted : t.id = proposals[c].id /\ t.content = c

\* What a call of propose_work() relies on after each of its reads.
Informed(m, c) ==
    doing[m].step \in Proposing /\ doing[m].content = c =>
        /\ proposals[c] # Nothing /\ proposals[c].id = doing[m].stored.id
        /\ doing[m].step = "accepted" => HasTask(c)

ProposalsTrue == AdmittedOnce /\ \A m \in Member, c \in Content : Informed(m, c)

\* A step that leaves proposals and tasks alone and enters no call of propose_work().
LEMMA ProposalsLeft ==
  ASSUME ProposalsTrue, UNCHANGED <<proposals, admitted>>,
         \A m \in Member : doing'[m] = doing[m] \/ doing'[m].step \notin Proposing
  PROVE  ProposalsTrue'
  BY DEF ProposalsTrue, AdmittedOnce, Informed, HasTask

LEMMA ProposeStep ==
  ASSUME RecordsTyped, ProposalsTrue, NEW m \in Member, NEW c \in Content, Propose(m, c)
  PROVE  RecordsTyped' /\ ProposalsTrue'
<1> DEFINE stored == Stored(m, c)
           own == <<m, proposed[m] + 1>>
           next == [step |-> "enqueue", content |-> c, stored |-> stored, own |-> own]
<1>1. own \in Member \X Nat
  BY DEF RecordsTyped
<1>2. /\ stored \in Proposal /\ stored # Nothing
      /\ proposals[c] # Nothing => stored = proposals[c]
      /\ proposals[c] = Nothing => stored.status = "proposed"
  <2>1. proposals[c] = Nothing => stored = [id |-> own, status |-> "proposed"]
    BY DEF Stored
  <2>2. proposals[c] # Nothing => stored = proposals[c]
    BY DEF Stored
  <2>3. Nothing \notin Proposal
    BY RecordsAssumption DEF Proposal
  <2> HIDE DEF stored, own
  <2> QED BY <1>1, <2>1, <2>2, <2>3 DEF RecordsTyped, Proposal
<1>3. next \in Calls /\ next.step = "enqueue" /\ next.content = c /\ next.stored = stored
  <2> HIDE DEF stored, own
  <2>1. next \in ProposalCall
    BY <1>1, <1>2 DEF ProposalCall, Proposing
  <2> QED BY <2>1 DEF Calls
<1>4. /\ proposals' = [proposals EXCEPT ![c] = stored]
      /\ doing' = doing \/ Call(m, next)
      /\ proposed' = [proposed EXCEPT ![m] = @ + 1]
      /\ UNCHANGED <<admitted, facts, contributions, superseded, history>>
  BY DEF Propose
<1> HIDE DEF stored, next
<1>5. doing \in [Member -> Calls]
  BY DEF RecordsTyped
<1>6. /\ doing' \in [Member -> Calls] /\ \A n \in Member : n # m => doing'[n] = doing[n]
      /\ doing'[m] = doing[m] \/ doing'[m] = next
  BY <1>3, <1>4, <1>5, CallMoves
<1>7. proposals' \in [Content -> Proposal \cup {Nothing}]
  BY <1>2, <1>4 DEF RecordsTyped
<1>8. RecordsTyped'
  <2>1. proposed' \in [Member -> Nat]
    BY <1>4 DEF RecordsTyped
  <2> HIDE DEF Calls, Proposal, Correction
  <2> QED BY <1>4, <1>6, <1>7, <2>1 DEF RecordsTyped
<1>9. /\ proposals'[c] = stored /\ \A d \in Content : d # c => proposals'[d] = proposals[d]
      /\ \A d \in Content : proposals[d] # Nothing => proposals'[d] = proposals[d]
  BY <1>2, <1>4 DEF RecordsTyped
<1>10. AdmittedOnce'
  <2>1. ASSUME NEW d \in Content, proposals'[d] # Nothing, proposals'[d].status = "accepted"
        PROVE  \E t \in admitted' : t.id = proposals'[d].id /\ t.content = d
    <3>1. proposals'[d] = proposals[d] /\ proposals[d] # Nothing
      BY <1>2, <1>9, <2>1
    <3> QED BY <1>4, <2>1, <3>1 DEF ProposalsTrue, AdmittedOnce
  <2>2. \A t \in admitted' : proposals'[t.content] # Nothing /\ proposals'[t.content].id = t.id
    BY <1>4, <1>9 DEF ProposalsTrue, AdmittedOnce, RecordsTyped
  <2> QED BY <1>4, <2>1, <2>2 DEF ProposalsTrue, AdmittedOnce
<1>11. ASSUME NEW n \in Member, NEW d \in Content
       PROVE  Informed(n, d)'
  <2>1. CASE doing'[n] = doing[n]
    BY <1>4, <1>9, <2>1 DEF ProposalsTrue, Informed, HasTask
  <2>2. CASE doing'[n] = next
    BY <1>2, <1>3, <1>9, <2>2 DEF Informed
  <2> QED BY <1>6, <2>1, <2>2
<1> QED BY <1>8, <1>10, <1>11 DEF ProposalsTrue

LEMMA EnqueueStep ==
  ASSUME RecordsTyped, ProposalsTrue, NEW m \in Member,
         EnqueueKnown(m) \/ EnqueueConflict(m) \/ EnqueueNew(m)
  PROVE  RecordsTyped' /\ ProposalsTrue'
<1> DEFINE c == doing[m].content
<1>1. doing \in [Member -> Calls] /\ doing[m].step = "enqueue"
  BY DEF RecordsTyped, EnqueueKnown, EnqueueConflict, EnqueueNew, Doing
<1>2. doing[m] \in ProposalCall /\ c \in Content
  <2>1. doing[m] \in ProposalCall
    BY <1>1, CallKinds DEF Proposing
  <2> QED BY <2>1 DEF ProposalCall
<1>3. proposals[c] # Nothing /\ TaskOf(m).id = proposals[c].id /\ TaskOf(m).content = c
  BY <1>1, <1>2 DEF ProposalsTrue, Informed, TaskOf, Proposing
<1>4. PICK status \in {"accepted", "blocked"} :
        /\ ToBind(m, status)
        /\ \/ admitted' = admitted
           \/ admitted' = admitted \cup {TaskOf(m)} /\ \A t \in admitted : t.content # c
        /\ status = "accepted" => \E t \in admitted' : t.id = proposals[c].id /\ t.content = c
  <2>1. CASE EnqueueKnown(m)
    <3>1. ToBind(m, "accepted") /\ admitted' = admitted
      BY <2>1 DEF EnqueueKnown
    <3>2. \E t \in admitted : t.content = c /\ t.id = proposals[c].id
      <4>1. CASE TaskOf(m) \in admitted
        BY <1>3, <4>1
      <4>2. CASE Deduplicated(m)
        BY <1>3, <4>2 DEF Deduplicated, SameEvidence, ProposalsTrue, AdmittedOnce
      <4> QED BY <2>1, <4>1, <4>2 DEF EnqueueKnown
    <3> HIDE DEF c
    <3> QED BY <3>1, <3>2
  <2>2. CASE EnqueueConflict(m)
    BY <2>2 DEF EnqueueConflict
  <2>3. CASE EnqueueNew(m)
    <3>1. /\ ToBind(m, "accepted") /\ admitted' = admitted \cup {TaskOf(m)}
          /\ SameEvidence(m) = {}
      BY <2>3 DEF EnqueueNew
    <3>2. \A t \in admitted : t.content # c
      BY <1>3, <3>1 DEF SameEvidence
    <3> QED BY <1>3, <3>1, <3>2
  <2> QED BY <2>1, <2>2, <2>3
<1> DEFINE next == [doing[m] EXCEPT !.step = status]
<1>5. /\ next \in Calls /\ next.step = status /\ next.content = c
      /\ next.stored = doing[m].stored
  <2>1. next \in ProposalCall /\ next.step = status /\ next.content = c
        /\ next.stored = doing[m].stored
    BY <1>2 DEF ProposalCall, Proposing
  <2> QED BY <2>1 DEF Calls
<1>6. /\ Call(m, next)
      /\ UNCHANGED <<proposals, facts, contributions, superseded, history, proposed>>
  BY <1>4 DEF ToBind
<1> HIDE DEF next
<1>7. /\ doing' \in [Member -> Calls] /\ doing'[m] = next
      /\ \A n \in Member : n # m => doing'[n] = doing[n]
  BY <1>1, <1>5, <1>6, CallMoves
<1>8. RecordsTyped'
  <2> HIDE DEF Calls, Proposal, Correction
  <2> QED BY <1>2, <1>3, <1>4, <1>6, <1>7 DEF RecordsTyped
<1>9. AdmittedOnce'
  <2>1. \A t, u \in admitted' : t.content = u.content => t = u
    BY <1>3, <1>4 DEF ProposalsTrue, AdmittedOnce
  <2>2. \A t \in admitted' : proposals'[t.content] # Nothing /\ proposals'[t.content].id = t.id
    BY <1>3, <1>4, <1>6 DEF ProposalsTrue, AdmittedOnce
  <2> QED BY <1>4, <1>6, <2>1, <2>2 DEF ProposalsTrue, AdmittedOnce
<1>10. ASSUME NEW n \in Member, NEW d \in Content
       PROVE  Informed(n, d)'
  <2>1. Informed(n, d) /\ Informed(m, d)
    BY DEF ProposalsTrue
  <2>2. HasTask(d) => HasTask(d)'
    BY <1>4, <1>6 DEF HasTask
  <2>3. CASE n # m
    BY <1>6, <1>7, <2>1, <2>2, <2>3 DEF Informed
  <2>4. CASE n = m
    <3>1. doing[m].step \in Proposing
      BY <1>1 DEF Proposing
    <3>2. doing'[n].step = "accepted" /\ d = c => HasTask(d)'
      BY <1>4, <1>5, <1>6, <1>7, <2>4 DEF HasTask
    <3> QED BY <1>5, <1>6, <1>7, <2>1, <2>4, <3>1, <3>2 DEF Informed
  <2> QED BY <2>3, <2>4
<1> QED BY <1>8, <1>9, <1>10 DEF ProposalsTrue

LEMMA BindStep ==
  ASSUME RecordsTyped, ProposalsTrue, NEW m \in Member, BindProposal(m)
  PROVE  RecordsTyped' /\ ProposalsTrue'
<1> DEFINE c == doing[m].content
           status == doing[m].step
<1>1. /\ doing \in [Member -> Calls] /\ status \in {"accepted", "blocked"}
      /\ Over(m)
      /\ proposals' = [proposals EXCEPT ![c].status = status]
      /\ UNCHANGED <<admitted, facts, contributions, superseded, history, proposed>>
  BY DEF RecordsTyped, BindProposal
<1>2. doing[m].step \in Proposing
  BY <1>1 DEF Proposing
<1>3. c \in Content
  <2>1. doing[m] \in ProposalCall
    BY <1>1, <1>2, CallKinds
  <2> QED BY <2>1 DEF ProposalCall
<1>4. proposals[c] # Nothing /\ (status = "accepted" => HasTask(c))
  BY <1>2, <1>3 DEF ProposalsTrue, Informed
<1> HIDE DEF c, status
<1>5. /\ doing' \in [Member -> Calls] /\ doing'[m].step = "none"
      /\ \A n \in Member : n # m => doing'[n] = doing[n]
  BY <1>1, CallEnds
<1>6. /\ proposals[c] \in Proposal
      /\ proposals'[c] = [proposals[c] EXCEPT !.status = status]
      /\ \A d \in Content : d # c => proposals'[d] = proposals[d]
      /\ DOMAIN proposals' = Content
      /\ proposals' = [d \in Content |-> proposals'[d]]
  BY <1>1, <1>3, <1>4 DEF RecordsTyped
<1>7. /\ proposals'[c] \in Proposal /\ proposals'[c].id = proposals[c].id
      /\ proposals'[c].status = status
  BY <1>1, <1>6 DEF Proposal
<1>8. \A d \in Content :
        proposals[d] # Nothing => proposals'[d] # Nothing /\ proposals'[d].id = proposals[d].id
  <2>1. Nothing \notin Proposal
    BY RecordsAssumption DEF Proposal
  <2> QED BY <1>6, <1>7, <2>1
<1>9. RecordsTyped'
  <2>1. proposals' \in [Content -> Proposal \cup {Nothing}]
    <3>1. \A d \in Content : proposals'[d] \in Proposal \cup {Nothing}
      BY <1>6, <1>7 DEF RecordsTyped
    <3> HIDE DEF Proposal
    <3> QED BY <1>6, <3>1
  <2> HIDE DEF Calls, Proposal, Correction
  <2> QED BY <1>1, <1>5, <2>1 DEF RecordsTyped
<1>10. \A d \in Content : HasTask(d) /\ proposals[d] # Nothing => HasTask(d)'
  BY <1>1, <1>8 DEF HasTask
<1>11. AdmittedOnce'
  <2>1. ASSUME NEW d \in Content, proposals'[d] # Nothing, proposals'[d].status = "accepted"
        PROVE  HasTask(d)'
    <3>1. CASE d = c
      BY <1>4, <1>7, <1>10, <2>1, <3>1
    <3>2. CASE d # c
      BY <1>6, <1>10, <2>1, <3>2 DEF ProposalsTrue, AdmittedOnce, HasTask
    <3> QED BY <3>1, <3>2
  <2>2. \A t \in admitted' : proposals'[t.content] # Nothing /\ proposals'[t.content].id = t.id
    BY <1>1, <1>8 DEF RecordsTyped, ProposalsTrue, AdmittedOnce
  <2> QED BY <1>1, <2>1, <2>2 DEF ProposalsTrue, AdmittedOnce, HasTask
<1>12. ASSUME NEW n \in Member, NEW d \in Content
       PROVE  Informed(n, d)'
  <2>1. Informed(n, d)
    BY DEF ProposalsTrue
  <2>2. n = m => doing'[n].step \notin Proposing
    BY <1>5 DEF Proposing
  <2>3. n # m => doing'[n] = doing[n]
    BY <1>5
  <2> QED BY <1>8, <1>10, <2>1, <2>2, <2>3 DEF Informed
<1> QED BY <1>9, <1>11, <1>12 DEF ProposalsTrue

-----------------------------------------------------------------------------
(* accept_result(): the first review of a fact stays its review *)

LEMMA LeastIs ==
  ASSUME NEW S \in SUBSET Nat, NEW k \in S, \A j \in S : k <= j
  PROVE  Min(S) = k
<1>1. \A x \in S : (\A j \in S : x <= j) => x = k
  <2>1. ASSUME NEW x \in S, \A j \in S : x <= j
        PROVE  x = k
    <3>1. x \in Nat /\ k \in Nat /\ x <= k /\ k <= x
      BY <2>1
    <3> QED BY <3>1
  <2> QED BY <2>1
<1> QED BY <1>1 DEF Min

\* The review of a fact is the first result that repeats it.
LEMMA ReviewRule ==
  ASSUME facts \in Seq(Fact), NEW f, NEW m
  PROVE  IF Reviews(f, m) = {} THEN Review(f, m) = Nothing
         ELSE /\ Min(Reviews(f, m)) \in Reviews(f, m)
              /\ \A k \in Reviews(f, m) : Min(Reviews(f, m)) <= k
              /\ Review(f, m) = facts[Min(Reviews(f, m))]
              /\ Review(f, m) \in Fact /\ Review(f, m) # Nothing
<1>1. Reviews(f, m) \in SUBSET (1 .. Len(facts))
  BY DEF Reviews
<1> SUFFICES ASSUME Reviews(f, m) # {}
             PROVE  /\ Min(Reviews(f, m)) \in Reviews(f, m)
                    /\ \A k \in Reviews(f, m) : Min(Reviews(f, m)) <= k
                    /\ facts[Min(Reviews(f, m))] \in Fact
  BY RecordsAssumption DEF Review
<1>2. PICK k \in Reviews(f, m) : \A j \in Reviews(f, m) : k <= j
  BY <1>1, LeastNumber
<1>3. Min(Reviews(f, m)) = k
  BY <1>1, <1>2, LeastIs
<1> QED BY <1>1, <1>2, <1>3

\* The fact f is trusted and g is the member's own repetition of it.
Reviewed(f, m, g) ==
    /\ f \in Range(facts) \ Replays
    /\ g # Nothing /\ Review(f, m) = g
    /\ Author[g] = m /\ Author[f] # m

LEMMA ReviewStays ==
  ASSUME facts \in Seq(Fact), NEW h \in Fact, facts' = Append(facts, h), NEW f, NEW m, NEW g,
         Reviewed(f, m, g)
  PROVE  Reviewed(f, m, g)'
<1> DEFINE S == Reviews(f, m)
           T == Reviews(f, m)'
           k == Min(S)
<1>1. facts' \in Seq(Fact) /\ Len(facts) \in Nat /\ Len(facts') = Len(facts) + 1
      /\ \A j \in 1 .. Len(facts) : facts'[j] = facts[j]
  OBVIOUS
<1>2. S # {} /\ k \in S /\ (\A j \in S : k <= j) /\ g = facts[k]
  BY ReviewRule DEF Reviewed
<1>3. S \in SUBSET (1 .. Len(facts)) /\ T \in SUBSET (1 .. Len(facts'))
  BY <1>1 DEF Reviews
<1>4. S \subseteq T /\ \A j \in T : j \in 1 .. Len(facts) => j \in S
  BY <1>1 DEF Reviews
<1> HIDE DEF S, T, k
<1>5. \A j \in T : k <= j
  <2>1. ASSUME NEW j \in T PROVE k <= j
    <3>1. j \in 1 .. Len(facts) \/ j = Len(facts) + 1
      BY <1>1, <1>3
    <3> QED BY <1>1, <1>2, <1>3, <1>4, <3>1
  <2> QED BY <2>1
<1>6. Min(T) = k
  <2>1. T \in SUBSET Nat /\ k \in T
    BY <1>2, <1>3, <1>4
  <2> QED BY <1>5, <2>1, LeastIs
<1>7. T # {} /\ facts'[k] = facts[k]
  BY <1>1, <1>2, <1>3, <1>4
<1>8. Review(f, m)' = g
  BY <1>2, <1>6, <1>7 DEF Review, T
<1>9. f \in Range(facts')
  <2>1. PICK j \in 1 .. Len(facts) : facts[j] = f
    BY DEF Reviewed, Range
  <2> QED BY <1>1, <2>1 DEF Range
<1> QED BY <1>8, <1>9 DEF Reviewed

\* What is accepted has, and keeps, the review it was accepted on.
ReviewsTrue ==
    /\ \A c \in contributions : Reviewed(c.fact, c.reviewer, c.review)
    /\ \A m \in Member, f \in Fact, g \in Fact :
           doing[m].step = "accept" /\ doing[m].fact = f /\ doing[m].review = g => Reviewed(f, m, g)
    /\ \A c, d \in contributions : Source[c.fact] = Source[d.fact] => c = d

LEMMA ReviewsLeft ==
  ASSUME ReviewsTrue, UNCHANGED <<facts, contributions>>,
         \A m \in Member : doing'[m] = doing[m] \/ doing'[m].step # "accept"
  PROVE  ReviewsTrue'
<1>1. \A f, m, g : Reviewed(f, m, g) => Reviewed(f, m, g)'
  BY DEF Reviewed, Review, Reviews
<1> QED BY <1>1 DEF ReviewsTrue

LEMMA CompleteStep ==
  ASSUME RecordsTyped, ReviewsTrue, NEW f \in Fact, TaskCompletes(f)
  PROVE  RecordsTyped' /\ ReviewsTrue'
<1>1. /\ facts' = Append(facts, f) /\ facts \in Seq(Fact)
      /\ UNCHANGED <<proposals, admitted, contributions, superseded, history, doing, proposed>>
  BY DEF TaskCompletes, RecordsTyped
<1>2. RecordsTyped'
  <2>1. facts' \in Seq(Fact)
    BY <1>1
  <2> HIDE DEF Calls, Proposal, Correction
  <2> QED BY <1>1, <2>1 DEF RecordsTyped
<1>3. \A g, m, h : Reviewed(g, m, h) => Reviewed(g, m, h)'
  BY <1>1, ReviewStays
<1> QED BY <1>1, <1>2, <1>3 DEF ReviewsTrue

LEMMA AcceptReadStep ==
  ASSUME RecordsTyped, ReviewsTrue, NEW m \in Member, NEW f \in Fact, AcceptRead(m, f)
  PROVE  /\ RecordsTyped' /\ ReviewsTrue' /\ UNCHANGED <<proposals, admitted, history>>
         /\ \A n \in Member : doing'[n] = doing[n] \/ doing'[n].step = "accept"
<1> DEFINE next == [step |-> "accept", fact |-> f, review |-> Review(f, m)]
<1>1. /\ Call(m, next) /\ doing \in [Member -> Calls] /\ facts \in Seq(Fact)
      /\ f \in Range(facts) \ Replays /\ Review(f, m) # Nothing
      /\ UNCHANGED <<proposals, admitted, facts, contributions, superseded, history, proposed>>
  BY DEF AcceptRead, RecordsTyped
<1>2. Review(f, m) \in Fact /\ Reviewed(f, m, Review(f, m))
  <2>1. /\ Review(f, m) = facts[Min(Reviews(f, m))] /\ Min(Reviews(f, m)) \in Reviews(f, m)
        /\ Review(f, m) \in Fact
    BY <1>1, ReviewRule
  <2>2. Author[Review(f, m)] = m /\ Author[f] # m
    BY <2>1 DEF Reviews, Repeats
  <2> QED BY <1>1, <2>1, <2>2 DEF Reviewed
<1> DEFINE g == Review(f, m)
<1> HIDE DEF g
<1>3. next \in Calls /\ next.step = "accept" /\ next.fact = f /\ next.review = g
  <2>1. next \in AcceptCall /\ next.review = g
    BY <1>2 DEF AcceptCall, g
  <2> QED BY <2>1 DEF Calls
<1> HIDE DEF next
<1>4. /\ doing' \in [Member -> Calls] /\ doing'[m] = next
      /\ \A n \in Member : n # m => doing'[n] = doing[n]
  BY <1>1, <1>3, CallMoves
<1>5. RecordsTyped'
  <2> HIDE DEF Calls, Proposal, Correction
  <2> QED BY <1>1, <1>4 DEF RecordsTyped
<1>6. ReviewsTrue'
  <2>1. \A h, n, i : Reviewed(h, n, i) => Reviewed(h, n, i)'
    BY <1>1 DEF Reviewed, Review, Reviews
  <2>2. Reviewed(f, m, g)
    BY <1>2 DEF g
  <2> QED BY <1>1, <1>3, <1>4, <2>1, <2>2 DEF ReviewsTrue
<1> QED BY <1>1, <1>3, <1>4, <1>5, <1>6

\* A second contribution from one source is not stored.
LEMMA AcceptStep ==
  ASSUME RecordsTyped, ReviewsTrue, NEW m \in Member, AcceptCommit(m)
  PROVE  /\ RecordsTyped' /\ ReviewsTrue' /\ UNCHANGED <<proposals, admitted, history>>
         /\ \A n \in Member : doing'[n] = doing[n] \/ doing'[n].step = "none"
<1> DEFINE f == doing[m].fact
           g == doing[m].review
           c == [fact |-> f, reviewer |-> m, review |-> g]
<1>1. /\ Over(m) /\ doing \in [Member -> Calls] /\ doing[m].step = "accept"
      /\ \/ contributions' = contributions
         \/ contributions' = contributions \cup {c} /\ Keys(f) \cap Seen = {}
      /\ UNCHANGED <<proposals, admitted, facts, superseded, history, proposed>>
  BY DEF AcceptCommit, RecordsTyped, Doing
<1>2. f \in Fact /\ g \in Fact
  <2>1. doing[m] \in AcceptCall
    BY <1>1, CallKinds
  <2> QED BY <2>1 DEF AcceptCall
<1>3. Reviewed(f, m, g)
  BY <1>1, <1>2 DEF ReviewsTrue
<1>4. \A h, n, i : Reviewed(h, n, i) => Reviewed(h, n, i)'
  BY <1>1 DEF Reviewed, Review, Reviews
<1>5. c.fact = f /\ c.reviewer = m /\ c.review = g
  OBVIOUS
<1> HIDE DEF f, g, c
<1>6. /\ doing' \in [Member -> Calls] /\ doing'[m].step = "none"
      /\ \A n \in Member : n # m => doing'[n] = doing[n]
  BY <1>1, CallEnds
<1>7. RecordsTyped'
  <2>1. \A d \in contributions' : d.fact \in Fact /\ d.review \in Fact
    BY <1>1, <1>2, <1>5 DEF RecordsTyped
  <2> HIDE DEF Calls, Proposal, Correction
  <2> QED BY <1>1, <1>6, <2>1 DEF RecordsTyped
<1>8. ASSUME NEW d \in contributions, contributions' = contributions \cup {c}, contributions' # contributions
      PROVE  Source[d.fact] # Source[f]
  <2>1. <<"source", Source[d.fact]>> \in Seen /\ <<"source", Source[f]>> \in Keys(f)
    BY DEF Seen, Keys
  <2>2. Keys(f) \cap Seen = {}
    BY <1>1, <1>8
  <2> QED BY <2>1, <2>2
<1>9. \A d, e \in contributions' : Source[d.fact] = Source[e.fact] => d = e
  BY <1>1, <1>5, <1>8 DEF ReviewsTrue
<1>10. \A d \in contributions' : Reviewed(d.fact, d.reviewer, d.review)'
  BY <1>1, <1>3, <1>4, <1>5 DEF ReviewsTrue
<1>11. ASSUME NEW n \in Member, NEW h \in Fact, NEW i \in Fact,
              doing'[n].step = "accept", doing'[n].fact = h, doing'[n].review = i
       PROVE  Reviewed(h, n, i)'
  <2>1. n # m /\ doing'[n] = doing[n]
    BY <1>6, <1>11
  <2> QED BY <1>4, <1>11, <2>1 DEF ReviewsTrue
<1>12. ReviewsTrue'
  BY <1>9, <1>10, <1>11 DEF ReviewsTrue
<1> QED BY <1>1, <1>6, <1>7, <1>12

LEMMA SupersedeStep ==
  ASSUME RecordsTyped, ReviewsTrue, NEW m \in Member,
         (\E f \in Fact : SupersedeRead(m, f)) \/ SupersedeCommit(m)
  PROVE  /\ RecordsTyped' /\ ReviewsTrue' /\ UNCHANGED <<proposals, admitted, history>>
         /\ \A n \in Member : doing'[n] = doing[n] \/ doing'[n].step \in {"none", "supersede"}
<1>0. doing \in [Member -> Calls]
  BY DEF RecordsTyped
<1>1. /\ UNCHANGED <<proposals, admitted, facts, contributions, history, proposed>>
      /\ doing' \in [Member -> Calls]
      /\ \A n \in Member : doing'[n] = doing[n] \/ doing'[n].step \in {"none", "supersede"}
  <2>1. ASSUME NEW f \in Fact, SupersedeRead(m, f)
        PROVE  /\ UNCHANGED <<proposals, admitted, facts, contributions, history, proposed>>
               /\ doing' \in [Member -> Calls]
               /\ \A n \in Member : doing'[n] = doing[n] \/ doing'[n].step = "supersede"
    <3> DEFINE next == [step |-> "supersede", fact |-> f]
    <3>1. next \in Calls /\ next.step = "supersede"
      BY DEF Calls, SupersedeCall
    <3>2. Call(m, next)
      BY <2>1 DEF SupersedeRead
    <3> HIDE DEF next
    <3> QED BY <1>0, <2>1, <3>1, <3>2, CallMoves DEF SupersedeRead
  <2>2. CASE SupersedeCommit(m)
    BY <1>0, <2>2, CallEnds DEF SupersedeCommit
  <2> QED BY <2>1, <2>2
<1>2. RecordsTyped'
  <2> HIDE DEF Calls, Proposal, Correction
  <2> QED BY <1>1 DEF RecordsTyped
<1>3. ReviewsTrue'
  BY <1>1, ReviewsLeft
<1> QED BY <1>1, <1>2, <1>3

-----------------------------------------------------------------------------
(* record_correction(): the corrections of a branch can be replayed *)

Statuses == {"proposed", "dormant", "illegal"}

LEMMA CorrectTyped ==
  ASSUME NEW status, NEW kind
  PROVE  Correct(status, kind) \in Statuses
<1>1. CASE kind \in {"sleep", "downgrade"} /\ status = "proposed"
  BY <1>1 DEF Correct, Statuses
<1>2. CASE kind = "reopen" /\ status = "dormant"
  BY <1>2 DEF Correct, Statuses
<1>3. CASE /\ ~(kind \in {"sleep", "downgrade"} /\ status = "proposed")
           /\ ~(kind = "reopen" /\ status = "dormant")
  BY <1>3 DEF Correct, Statuses
<1> QED BY <1>1, <1>2, <1>3

Replay(h, events) ==
    h = [n \in 0 .. Len(events) |-> IF n = 0 THEN "proposed" ELSE Correct(h[n - 1], events[n].kind)]
After(events) == CHOOSE h : Replay(h, events)

LEMMA StatusIsReplay ==
  ASSUME NEW events
  PROVE  Status(events) = After(events)[Len(events)]
  BY DEF Status, After, Replay

LEMMA ReplayExists ==
  ASSUME NEW events \in Seq(Correction)
  PROVE  Replay(After(events), events)
<1> DEFINE N == Len(events)
           step == [n \in 1 .. N |-> [s \in Statuses |-> Correct(s, events[n].kind)]]
<1>1. N \in Nat
  OBVIOUS
<1>2. step \in [1 .. N -> [Statuses -> Statuses]] /\ "proposed" \in Statuses
  <2>1. "proposed" \in Statuses
    BY DEF Statuses
  <2> HIDE DEF N
  <2> QED BY <2>1, CorrectTyped
<1>3. PICK g \in [0 .. N -> Statuses] : Solves(g, "proposed", step, N)
  <2> HIDE DEF step, N
  <2> QED BY <1>1, <1>2, RecursionExists
<1>4. Replay(g, events)
  <2>1. ASSUME NEW n \in 0 .. N
        PROVE  g[n] = IF n = 0 THEN "proposed" ELSE Correct(g[n - 1], events[n].kind)
    <3>1. g[n] = IF n = 0 THEN "proposed" ELSE step[n][g[n - 1]]
      <4> HIDE DEF step, N
      <4> QED BY <1>3 DEF Solves
    <3>2. n # 0 => n \in 1 .. N /\ g[n - 1] \in Statuses
      <4> HIDE DEF step, Statuses
      <4> QED BY <1>1
    <3> HIDE DEF N
    <3> QED BY <3>1, <3>2
  <2>2. g = [n \in 0 .. N |-> g[n]]
    <3> HIDE DEF N
    <3> QED OBVIOUS
  <2> QED BY <2>1, <2>2 DEF Replay
<1> QED BY <1>4 DEF After

\* One more correction is applied to the status the branch has.
LEMMA StatusAppend ==
  ASSUME NEW events \in Seq(Correction), NEW e \in Correction
  PROVE  Status(Append(events, e)) = Correct(Status(events), e.kind)
<1> DEFINE longer == Append(events, e)
           A == After(events)
           C == After(longer)
           N == Len(events)
           Same == {n \in Nat : n <= N => A[n] = C[n]}
<1>1. /\ longer \in Seq(Correction) /\ Len(longer) = N + 1 /\ N \in Nat /\ longer[N + 1] = e
      /\ \A n \in 1 .. N : longer[n] = events[n]
  OBVIOUS
<1>2. /\ \A n \in 0 .. N : A[n] = IF n = 0 THEN "proposed" ELSE Correct(A[n - 1], events[n].kind)
      /\ \A n \in 0 .. N + 1 : C[n] = IF n = 0 THEN "proposed" ELSE Correct(C[n - 1], longer[n].kind)
  BY <1>1, ReplayExists DEF Replay
<1>3. Status(longer) = C[N + 1] /\ Status(events) = A[N]
  BY <1>1, StatusIsReplay
<1> HIDE DEF longer, A, C, N
<1>4. 0 \in Same
  BY <1>1, <1>2
<1>5. ASSUME NEW n \in Nat, n \in Same
      PROVE  n + 1 \in Same
  <2> SUFFICES ASSUME n + 1 <= N PROVE A[n + 1] = C[n + 1]
    OBVIOUS
  <2>1. n + 1 \in 0 .. N /\ n + 1 \in 0 .. N + 1 /\ n + 1 \in 1 .. N /\ n + 1 # 0 /\ (n + 1) - 1 = n
    BY <1>1
  <2>2. A[n] = C[n] /\ longer[n + 1] = events[n + 1]
    BY <1>1, <1>5, <2>1
  <2>3. A[n + 1] = Correct(A[n], events[n + 1].kind) /\ C[n + 1] = Correct(C[n], longer[n + 1].kind)
    BY <1>2, <2>1
  <2> QED BY <2>2, <2>3
<1>6. A[N] = C[N]
  <2>1. Nat \subseteq Same
    <3> HIDE DEF Same
    <3> QED BY <1>4, <1>5, EveryNumber
  <2> QED BY <1>1, <2>1
<1>7. C[N + 1] = Correct(C[N], e.kind)
  <2>1. N + 1 \in 0 .. N + 1 /\ N + 1 # 0 /\ (N + 1) - 1 = N
    BY <1>1
  <2>2. C[N + 1] = Correct(C[(N + 1) - 1], longer[N + 1].kind)
    BY <1>2, <2>1
  <2> QED BY <1>1, <2>1, <2>2
<1> QED BY <1>3, <1>6, <1>7 DEF longer

LEMMA StatusEmpty == Status(<<>>) = "proposed"
<1>1. <<>> \in Seq(Correction) /\ Len(<<>>) = 0
  OBVIOUS
<1>2. Replay(After(<<>>), <<>>) /\ Status(<<>>) = After(<<>>)[0]
  BY <1>1, StatusIsReplay, ReplayExists
<1> DEFINE A == After(<<>>)
<1>3. A = [n \in 0 .. 0 |-> IF n = 0 THEN "proposed" ELSE Correct(A[n - 1], <<>>[n].kind)]
  BY <1>1, <1>2 DEF Replay
<1> HIDE DEF A
<1>4. A[0] = "proposed"
  BY <1>3
<1> QED BY <1>2, <1>4 DEF A

\* What a check has found stays true for the only keeper of a branch.
Checked(m, b) ==
    doing[m].step \in {"check", "correct"} /\ doing[m].branch = b =>
        /\ m \in Keepers[b]
        /\ doing[m].step = "correct" /\ Keepers[b] = {m} =>
              Legal(Status(history[b]), doing[m].kind)

CorrectionsTrue ==
    /\ \A b \in Branch, m \in Member : Keepers[b] = {m} => Status(history[b]) # "illegal"
    /\ \A m \in Member, b \in Branch : Checked(m, b)

LEMMA CorrectionsLeft ==
  ASSUME CorrectionsTrue, UNCHANGED history,
         \A m \in Member : doing'[m] = doing[m] \/ doing'[m].step \notin {"check", "correct"}
  PROVE  CorrectionsTrue'
<1>1. \A m \in Member, b \in Branch : Checked(m, b) => Checked(m, b)'
  BY DEF Checked
<1> QED BY <1>1 DEF CorrectionsTrue

LEMMA CorrectReadStep ==
  ASSUME RecordsTyped, CorrectionsTrue, NEW m \in Member,
         NEW b \in Branch, NEW kind \in Kinds, NEW reason \in Grounds, CorrectRead(m, b, kind, reason)
  PROVE  /\ RecordsTyped' /\ CorrectionsTrue' /\ UNCHANGED <<proposals, admitted, facts, contributions>>
         /\ \A n \in Member : doing'[n] = doing[n] \/ doing'[n].step = "check"
<1> DEFINE next == [step |-> "check", branch |-> b, kind |-> kind, reason |-> reason]
<1>1. /\ Call(m, next) /\ m \in Keepers[b] /\ doing \in [Member -> Calls]
      /\ UNCHANGED <<proposals, admitted, facts, contributions, superseded, history, proposed>>
  BY DEF CorrectRead, RecordsTyped
<1>2. next \in Calls /\ next.step = "check" /\ next.branch = b
  BY DEF Calls, CorrectCall
<1> HIDE DEF next
<1>3. /\ doing' \in [Member -> Calls] /\ doing'[m] = next
      /\ \A n \in Member : n # m => doing'[n] = doing[n]
  BY <1>1, <1>2, CallMoves
<1>4. RecordsTyped'
  <2> HIDE DEF Calls, Proposal, Correction
  <2> QED BY <1>1, <1>3 DEF RecordsTyped
<1>5. \A n \in Member, d \in Branch : Checked(n, d)'
  BY <1>1, <1>2, <1>3 DEF CorrectionsTrue, Checked
<1> QED BY <1>1, <1>2, <1>3, <1>4, <1>5 DEF CorrectionsTrue

LEMMA CorrectCheckStep ==
  ASSUME RecordsTyped, CorrectionsTrue, NEW m \in Member, CorrectCheck(m)
  PROVE  /\ RecordsTyped' /\ CorrectionsTrue' /\ UNCHANGED <<proposals, admitted, facts, contributions>>
         /\ \A n \in Member : doing'[n] = doing[n] \/ doing'[n].step \in {"none", "correct"}
<1> DEFINE next == [doing[m] EXCEPT !.step = "correct"]
<1>1. /\ doing \in [Member -> Calls] /\ doing[m].step = "check"
      /\ \/ Call(m, next) /\ Legal(Status(history[doing[m].branch]), doing[m].kind)
         \/ Over(m)
      /\ UNCHANGED <<proposals, admitted, facts, contributions, superseded, history, proposed>>
  BY DEF CorrectCheck, RecordsTyped, Doing
<1>2. doing[m] \in CorrectCall
  BY <1>1, CallKinds
<1>3. /\ next \in Calls /\ next.step = "correct" /\ next.branch = doing[m].branch
      /\ next.kind = doing[m].kind
  <2>1. /\ next \in CorrectCall /\ next.step = "correct" /\ next.branch = doing[m].branch
        /\ next.kind = doing[m].kind
    BY <1>2 DEF CorrectCall
  <2> QED BY <2>1 DEF Calls
<1> HIDE DEF next
<1>4. /\ doing' \in [Member -> Calls] /\ \A n \in Member : n # m => doing'[n] = doing[n]
      /\ \/ doing'[m] = next /\ Legal(Status(history[doing[m].branch]), doing[m].kind)
         \/ doing'[m].step = "none"
  BY <1>1, <1>3, CallMoves, CallEnds
<1>5. RecordsTyped'
  <2> HIDE DEF Calls, Proposal, Correction
  <2> QED BY <1>1, <1>4 DEF RecordsTyped
<1>6. ASSUME NEW n \in Member, NEW b \in Branch
      PROVE  Checked(n, b)'
  <2>1. Checked(n, b)
    BY DEF CorrectionsTrue
  <2>2. CASE n # m
    BY <1>1, <1>4, <2>1, <2>2 DEF Checked
  <2>3. CASE n = m
    BY <1>1, <1>3, <1>4, <2>1, <2>3 DEF Checked
  <2> QED BY <2>2, <2>3
<1> QED BY <1>1, <1>3, <1>4, <1>5, <1>6 DEF CorrectionsTrue

\* The only keeper of a branch finds it as it was checked.
LEMMA CorrectCommitStep ==
  ASSUME RecordsTyped, CorrectionsTrue, NEW m \in Member, CorrectCommit(m)
  PROVE  /\ RecordsTyped' /\ CorrectionsTrue' /\ UNCHANGED <<proposals, admitted, facts, contributions>>
         /\ \A n \in Member : doing'[n] = doing[n] \/ doing'[n].step = "none"
<1> DEFINE b == doing[m].branch
           kind == doing[m].kind
           e == [kind |-> kind, reason |-> doing[m].reason, actor |-> m]
<1>1. /\ Over(m) /\ doing \in [Member -> Calls] /\ doing[m].step = "correct"
      /\ history' = [history EXCEPT ![b] = Append(@, e)] /\ history \in [Branch -> Seq(Correction)]
      /\ UNCHANGED <<proposals, admitted, facts, contributions, superseded, proposed>>
  BY DEF CorrectCommit, RecordsTyped, Doing
<1>2. b \in Branch /\ e \in Correction /\ e.kind = kind
  <2>1. doing[m] \in CorrectCall
    BY <1>1, CallKinds
  <2> QED BY <2>1 DEF CorrectCall, Correction
<1>3. m \in Keepers[b] /\ (Keepers[b] = {m} => Legal(Status(history[b]), kind))
  BY <1>1, <1>2 DEF CorrectionsTrue, Checked
<1> HIDE DEF b, kind, e
<1>4. /\ doing' \in [Member -> Calls] /\ doing'[m].step = "none"
      /\ \A n \in Member : n # m => doing'[n] = doing[n]
  BY <1>1, CallEnds
<1>5. /\ history[b] \in Seq(Correction) /\ history'[b] = Append(history[b], e)
      /\ \A d \in Branch : d # b => history'[d] = history[d]
      /\ history' \in [Branch -> Seq(Correction)]
  <2> HIDE DEF Correction
  <2>1. Append(history[b], e) \in Seq(Correction)
    BY <1>1, <1>2
  <2> QED BY <1>1, <1>2, <2>1
<1>6. RecordsTyped'
  <2> HIDE DEF Calls, Proposal, Correction
  <2> QED BY <1>1, <1>4, <1>5 DEF RecordsTyped
<1>7. Status(history'[b]) = Correct(Status(history[b]), kind)
  BY <1>2, <1>5, StatusAppend
<1>8. ASSUME NEW d \in Branch, NEW n \in Member, Keepers[d] = {n}
      PROVE  Status(history'[d]) # "illegal"
  <2>1. CASE d = b
    <3>1. Keepers[b] = {m}
      BY <1>3, <1>8, <2>1
    <3> QED BY <1>3, <1>7, <2>1, <3>1 DEF Legal
  <2>2. CASE d # b
    BY <1>5, <1>8, <2>2 DEF CorrectionsTrue
  <2> QED BY <2>1, <2>2
<1>9. ASSUME NEW n \in Member, NEW d \in Branch
      PROVE  Checked(n, d)'
  <2>1. Checked(n, d)
    BY DEF CorrectionsTrue
  <2>2. CASE n = m
    BY <1>4, <2>2 DEF Checked
  <2>3. CASE n # m
    <3>1. d = b => Keepers[d] # {n}
      BY <1>3, <2>3
    <3> QED BY <1>4, <1>5, <2>1, <2>3, <3>1 DEF Checked
  <2> QED BY <2>2, <2>3
<1> QED BY <1>1, <1>4, <1>6, <1>8, <1>9 DEF CorrectionsTrue

-----------------------------------------------------------------------------
(* The records as a whole *)

RecordsInv == RecordsTyped /\ ProposalsTrue /\ ReviewsTrue /\ CorrectionsTrue

LEMMA RecordsStart == ASSUME RecordsInit PROVE RecordsInv
<1>1. \A m \in Member : doing[m] = NoCallYet /\ doing[m].step = "none"
  BY DEF RecordsInit, NoCallYet
<1>2. RecordsTyped
  <2>1. doing \in [Member -> Calls]
    BY <1>1 DEF RecordsInit, Calls
  <2>2. history \in [Branch -> Seq(Correction)] /\ facts \in Seq(Fact)
    BY DEF RecordsInit
  <2> QED BY <2>1, <2>2 DEF RecordsInit, RecordsTyped
<1>3. ProposalsTrue
  BY <1>1 DEF RecordsInit, ProposalsTrue, AdmittedOnce, Informed, Proposing
<1>4. ReviewsTrue
  BY <1>1 DEF RecordsInit, ReviewsTrue
<1>5. CorrectionsTrue
  BY <1>1, StatusEmpty DEF RecordsInit, CorrectionsTrue, Checked
<1> QED BY <1>2, <1>3, <1>4, <1>5 DEF RecordsInv

LEMMA RecordsStep == ASSUME RecordsInv, [RecordsNext]_recordVars PROVE RecordsInv'
<1> USE DEF RecordsInv
<1>1. CASE UNCHANGED recordVars
  <2>1. RecordsTyped'
    <3> HIDE DEF Calls, Proposal, Correction
    <3> QED BY <1>1 DEF recordVars, RecordsTyped
  <2> QED BY <1>1, <2>1, ProposalsLeft, ReviewsLeft, CorrectionsLeft DEF recordVars
<1>2. ASSUME NEW m \in Member, ProposeNext(m)
      PROVE  RecordsInv'
  <2>1. /\ RecordsTyped' /\ ProposalsTrue' /\ UNCHANGED <<facts, contributions, history>>
        /\ \A n \in Member : doing'[n] = doing[n] \/ doing'[n].step \notin {"accept", "check", "correct"}
    <3>0. doing \in [Member -> Calls]
      BY DEF RecordsTyped
    <3>1. ASSUME NEW c \in Content, Propose(m, c)
          PROVE  \A n \in Member : doing'[n] = doing[n] \/ doing'[n].step = "enqueue"
      BY <3>0, <3>1 DEF Propose, Call
    <3>2. CASE EnqueueKnown(m) \/ EnqueueConflict(m) \/ EnqueueNew(m)
      <4>1. doing[m] \in ProposalCall
        <5>1. doing[m].step \in Proposing
          BY <3>2 DEF EnqueueKnown, EnqueueConflict, EnqueueNew, Doing, Proposing
        <5> QED BY <3>0, <5>1, CallKinds
      <4>2. PICK status \in {"accepted", "blocked"} : ToBind(m, status)
        BY <3>2 DEF EnqueueKnown, EnqueueConflict, EnqueueNew
      <4>3. doing' = [doing EXCEPT ![m] = [doing[m] EXCEPT !.step = status]]
        BY <4>2 DEF ToBind, Call
      <4>4. [doing[m] EXCEPT !.step = status].step = status
        BY <4>1 DEF ProposalCall
      <4>5. \A n \in Member : doing'[n] = doing[n] \/ doing'[n].step = status
        <5> HIDE DEF Calls, ProposalCall
        <5> QED BY <3>0, <4>3, <4>4
      <4>6. UNCHANGED <<facts, contributions, history>>
        BY <4>2 DEF ToBind
      <4> QED BY <3>2, <4>5, <4>6, EnqueueStep
    <3>3. CASE EnqueueRefused(m) \/ BindProposal(m)
      <4>1. Over(m) /\ UNCHANGED <<facts, contributions, history>>
        BY <3>3 DEF EnqueueRefused, BindProposal
      <4>2. /\ doing' \in [Member -> Calls] /\ doing'[m].step = "none"
            /\ \A n \in Member : n # m => doing'[n] = doing[n]
        BY <3>0, <4>1, CallEnds
      <4>3. CASE EnqueueRefused(m)
        <5>1. UNCHANGED <<proposals, admitted, proposed>>
          BY <4>3 DEF EnqueueRefused
        <5>2. RecordsTyped'
          <6> HIDE DEF Calls, Proposal, Correction
          <6> QED BY <4>1, <4>2, <5>1 DEF RecordsTyped
        <5>3. \A n \in Member : doing'[n] = doing[n] \/ doing'[n].step \notin Proposing
          BY <4>2 DEF Proposing
        <5>4. ProposalsTrue'
          BY <5>1, <5>3, ProposalsLeft
        <5> QED BY <4>1, <4>2, <5>2, <5>4
      <4>4. CASE BindProposal(m)
        BY <4>1, <4>2, <4>4, BindStep
      <4> QED BY <3>3, <4>3, <4>4
    <3>4. ASSUME NEW c \in Content, Propose(m, c)
          PROVE  UNCHANGED <<facts, contributions, history>>
      BY <3>4 DEF Propose
    <3> QED BY <1>2, <3>1, <3>2, <3>3, <3>4, ProposeStep DEF ProposeNext
  <2> QED BY <2>1, ReviewsLeft, CorrectionsLeft
<1>3. ASSUME NEW m \in Member, ReviewNext(m)
      PROVE  RecordsInv'
  <2>1. /\ RecordsTyped' /\ ReviewsTrue' /\ UNCHANGED <<proposals, admitted, history>>
        /\ \A n \in Member :
              doing'[n] = doing[n] \/ doing'[n].step \in {"none", "accept", "supersede"}
    <3>1. ASSUME NEW f \in Fact, TaskCompletes(f)
          PROVE  UNCHANGED <<proposals, admitted, history, doing>>
      BY <3>1 DEF TaskCompletes
    <3> QED BY <1>3, <3>1, CompleteStep, AcceptReadStep, AcceptStep, SupersedeStep DEF ReviewNext
  <2>2. \A n \in Member : doing'[n] = doing[n] \/ doing'[n].step \notin Proposing
    BY <2>1 DEF Proposing
  <2> QED BY <2>1, <2>2, ProposalsLeft, CorrectionsLeft
<1>4. ASSUME NEW m \in Member, CorrectNext(m)
      PROVE  RecordsInv'
  <2>1. /\ RecordsTyped' /\ CorrectionsTrue' /\ UNCHANGED <<proposals, admitted, facts, contributions>>
        /\ \A n \in Member :
              doing'[n] = doing[n] \/ doing'[n].step \in {"none", "check", "correct"}
    BY <1>4, CorrectReadStep, CorrectCheckStep, CorrectCommitStep DEF CorrectNext
  <2>2. \A n \in Member : doing'[n] = doing[n] \/ doing'[n].step \notin Proposing
    BY <2>1 DEF Proposing
  <2> QED BY <2>1, <2>2, ProposalsLeft, ReviewsLeft
<1>5. ASSUME NEW m \in Member, CallLost(m)
      PROVE  RecordsInv'
  <2>1. Over(m) /\ UNCHANGED <<proposals, admitted, facts, contributions, superseded, history, proposed>>
    BY <1>5 DEF CallLost
  <2>2. /\ doing' \in [Member -> Calls] /\ doing'[m].step = "none"
        /\ \A n \in Member : n # m => doing'[n] = doing[n]
    BY <2>1, CallEnds DEF RecordsTyped
  <2>3. RecordsTyped'
    <3> HIDE DEF Calls, Proposal, Correction
    <3> QED BY <2>1, <2>2 DEF RecordsTyped
  <2>4. \A n \in Member : doing'[n] = doing[n] \/ doing'[n].step \notin Proposing
    BY <2>2 DEF Proposing
  <2> QED BY <2>1, <2>2, <2>3, <2>4, ProposalsLeft, ReviewsLeft, CorrectionsLeft
<1> QED BY <1>1, <1>2, <1>3, <1>4, <1>5 DEF RecordsNext

LEMMA AlwaysRecorded == RecordsSpec => []RecordsInv
<1>1. RecordsInit => RecordsInv
  BY RecordsStart
<1>2. RecordsInv /\ [RecordsNext]_recordVars => RecordsInv'
  BY RecordsStep
<1> QED BY <1>1, <1>2, PTL DEF RecordsSpec

\* Whoever proposes the same work at the same time, and wherever a call breaks
\* off between the ledger and the store of proposals, an accepted proposal has
\* its one task and the task names the proposal (propose_work, enqueue).
THEOREM ProposalsAdmittedOnce == RecordsSpec => []AdmittedOnce
<1>1. RecordsInv => AdmittedOnce
  BY DEF RecordsInv, ProposalsTrue
<1> QED BY <1>1, AlwaysRecorded, PTL

\* One source makes one contribution, which another member than its author has
\* repeated, for any members accepting at the same time (accept, dedup_keys).
THEOREM OneContributionPerSource == RecordsSpec => []OnePerSource
<1>1. RecordsInv => OnePerSource
  BY DEF RecordsInv, ReviewsTrue, Reviewed, OnePerSource
<1> QED BY <1>1, AlwaysRecorded, PTL

\* An accepted contribution keeps its fact and its review whatever completes
\* later, and the corrections of a branch that one member keeps replay from its
\* first to its last (advisory, _review, _research_branches).
THEOREM AdviceAlwaysStands == RecordsSpec => []AdviceStands
<1>1. RecordsInv => AdviceStands
  BY DEF RecordsInv, ReviewsTrue, Reviewed, CorrectionsTrue, AdviceStands, Advised
<1> QED BY <1>1, AlwaysRecorded, PTL

-----------------------------------------------------------------------------
(* The learned field: a history lists what was learned of its worker, in   *)
(* the order of completion                                                 *)

Lists(s, S) ==
    /\ s \in [1 .. Cardinality(S) -> S]
    /\ \A r \in S : \E k \in DOMAIN s : s[k] = r
    /\ \A j, k \in DOMAIN s : j < k => Earlier(s[j], s[k])

\* Results that are numbers and were completed at a time.
Dated(S) == S \in SUBSET Nat /\ \A r \in S : completed[r].at \in Nat

LEMMA EarlierOrder ==
  ASSUME NEW S, Dated(S), NEW r \in S, NEW s \in S, NEW t \in S
  PROVE  /\ r # s => Earlier(r, s) \/ Earlier(s, r)
         /\ Earlier(r, s) /\ Earlier(s, t) => Earlier(r, t)
<1>1. /\ r \in Nat /\ s \in Nat /\ t \in Nat
      /\ completed[r].at \in Nat /\ completed[s].at \in Nat /\ completed[t].at \in Nat
  BY DEF Dated
<1> QED BY <1>1 DEF Earlier

LEMMA LatestExists ==
  ASSUME NEW S, IsFiniteSet(S), Dated(S), S # {}
  PROVE  \E x \in S : \A y \in S : y # x => Earlier(y, x)
<1> DEFINE Latest(x, A) == \A y \in A : y # x => Earlier(y, x)
           F == {A \in SUBSET S : A # {} => \E x \in A : Latest(x, A)}
<1>1. ASSUME NEW A \in SUBSET S, \A x \in A : A \ {x} \in F
      PROVE  A \in F
  <2> SUFFICES ASSUME A # {} PROVE \E x \in A : Latest(x, A)
    OBVIOUS
  <2>1. PICK x \in A : TRUE
    OBVIOUS
  <2>2. CASE A \ {x} = {}
    BY <2>1, <2>2
  <2>3. CASE A \ {x} # {}
    <3>1. PICK z \in A \ {x} : Latest(z, A \ {x})
      BY <1>1, <2>1, <2>3
    <3>2. CASE Earlier(x, z)
      BY <3>1, <3>2
    <3>3. CASE ~Earlier(x, z)
      <4>1. x \in S /\ z \in S /\ x # z
        BY <3>1
      <4>2. Earlier(z, x)
        BY <3>3, <4>1, EarlierOrder
      <4>3. ASSUME NEW y \in A, y # x
            PROVE  Earlier(y, x)
        <5>1. y = z \/ Earlier(y, z)
          BY <3>1, <4>3
        <5> QED BY <4>1, <4>2, <5>1, EarlierOrder
      <4> QED BY <2>1, <4>3
    <3> QED BY <3>2, <3>3
  <2> QED BY <2>2, <2>3
<1>2. SUBSET S \subseteq F
  <2> HIDE DEF F
  <2> QED BY <1>1, EverySubset
<1>3. S \in F
  <2> HIDE DEF F
  <2> QED BY <1>2
<1> QED BY <1>3

LEMMA ListExists ==
  ASSUME NEW S, IsFiniteSet(S), Dated(S)
  PROVE  Lists(Sorted(S), S)
<1> DEFINE F == {A \in SUBSET S : \E s : Lists(s, A)}
<1>1. ASSUME NEW A \in SUBSET S, \A x \in A : A \ {x} \in F
      PROVE  A \in F
  <2>1. CASE A = {}
    <3> DEFINE s == [k \in 1 .. 0 |-> 0]
    <3>1. Cardinality(A) = 0
      BY <2>1, FS_EmptySet
    <3>2. Lists(s, A)
      BY <2>1, <3>1 DEF Lists
    <3> QED BY <3>2
  <2>2. CASE A # {}
    <3>1. IsFiniteSet(A) /\ Dated(A)
      BY FS_Subset DEF Dated
    <3>2. PICK x \in A : \A y \in A : y # x => Earlier(y, x)
      BY <2>2, <3>1, LatestExists
    <3> DEFINE Rest == A \ {x}
               n == Cardinality(Rest)
    <3>3. PICK s : Lists(s, Rest)
      BY <1>1, <3>2
    <3>4. n \in Nat /\ Cardinality(A) = n + 1
      <4>1. Cardinality(Rest) = Cardinality(A) - 1 /\ Cardinality(A) \in Nat /\ IsFiniteSet(Rest)
        BY <3>1, FS_RemoveElement, FS_CardinalityType
      <4>2. Cardinality(Rest) \in Nat
        BY <4>1, FS_CardinalityType
      <4> QED BY <4>1, <4>2
    <3> DEFINE t == [k \in 1 .. n + 1 |-> IF k = n + 1 THEN x ELSE s[k]]
    <3>5. /\ s \in [1 .. n -> Rest] /\ (\A r \in Rest : \E k \in 1 .. n : s[k] = r)
          /\ \A j, k \in 1 .. n : j < k => Earlier(s[j], s[k])
      BY <3>3 DEF Lists
    <3>6. /\ Rest \subseteq A /\ x \in A /\ (\A y \in Rest : Earlier(y, x))
          /\ \A y \in A : y = x \/ y \in Rest
      BY <3>2
    <3> HIDE DEF Rest, n
    <3>7. /\ DOMAIN t = 1 .. n + 1 /\ t[n + 1] = x
          /\ \A k \in 1 .. n : t[k] = s[k] /\ s[k] \in Rest /\ k \in 1 .. n + 1
          /\ \A k \in 1 .. n + 1 : k = n + 1 \/ k \in 1 .. n
      BY <3>4, <3>5
    <3>8. t \in [1 .. n + 1 -> A]
      BY <3>4, <3>5, <3>6
    <3> HIDE DEF t
    <3>9. ASSUME NEW r \in A
          PROVE  \E k \in DOMAIN t : t[k] = r
      <4>1. CASE r = x
        <5>1. n + 1 \in DOMAIN t
          BY <3>4, <3>7
        <5> QED BY <3>7, <4>1, <5>1
      <4>2. CASE r \in Rest
        <5>1. PICK k \in 1 .. n : s[k] = r
          BY <3>5, <4>2
        <5> QED BY <3>7, <5>1
      <4> QED BY <3>6, <4>1, <4>2
    <3>10. ASSUME NEW j \in DOMAIN t, NEW k \in DOMAIN t, j < k
           PROVE  Earlier(t[j], t[k])
      <4>1. j \in 1 .. n
        BY <3>4, <3>7, <3>10
      <4>2. CASE k = n + 1
        BY <3>6, <3>7, <4>1, <4>2
      <4>3. CASE k \in 1 .. n
        BY <3>5, <3>7, <3>10, <4>1, <4>3
      <4> QED BY <3>7, <4>2, <4>3
    <3>11. Lists(t, A)
      BY <3>4, <3>8, <3>9, <3>10 DEF Lists
    <3> QED BY <3>11
  <2> QED BY <2>1, <2>2
<1>2. SUBSET S \subseteq F
  <2> HIDE DEF F
  <2> QED BY <1>1, EverySubset
<1>3. \E s : Lists(s, S)
  <2>1. S \in F
    <3> HIDE DEF F
    <3> QED BY <1>2
  <2> QED BY <2>1
<1> QED BY <1>3 DEF Lists, Sorted

FieldTyped ==
    /\ hour \in Nat
    /\ IsFiniteSet(Finished) /\ Finished \subseteq Completion
    /\ \A r \in Finished : completed[r].by \in Learner /\ completed[r].at \in Nat
    /\ trusted \subseteq Finished
    /\ DOMAIN learned = Field /\ DOMAIN samples = Field

\* A pair of updates that has begun, and a reading, rest on confirmed results.
PairConfirmed(w) == pairing[w] # NoPair /\ pairing[w].calls # {} => pairing[w].of \in trusted
Confirmed ==
    /\ pairing \in [Learner -> [of : Completion, calls : SUBSET {"signal", "history"}] \cup {NoPair}]
    /\ \A w \in Learner : PairConfirmed(w)
    /\ DOMAIN reading = Operated
    /\ \A h \in Operated : reading[h] # <<>> => reading[h][1] \subseteq trusted

LearnedTrue ==
    /\ raised = learned
    /\ \A f \in Field : learned[f] \subseteq trusted
    /\ \A f \in Field, w \in Learner : Lists(samples[f][w], OfLearner(w) \cap learned[f])

FieldInv == FieldTyped /\ Confirmed /\ LearnedTrue

\* The same, by the completions d.
ListsBy(d, s, S) ==
    /\ s \in [1 .. Cardinality(S) -> S]
    /\ \A r \in S : \E k \in DOMAIN s : s[k] = r
    /\ \A j, k \in DOMAIN s : j < k =>
          \/ d[s[j]].at < d[s[k]].at
          \/ d[s[j]].at = d[s[k]].at /\ s[j] < s[k]

LEMMA ListsIsBy ==
  ASSUME NEW f, NEW w
  PROVE  /\ Lists(samples[f][w], OfLearner(w) \cap learned[f]) <=>
                ListsBy(completed, samples[f][w], OfLearner(w) \cap learned[f])
         /\ Lists(samples[f][w], OfLearner(w) \cap learned[f])' <=>
                ListsBy(completed', samples'[f][w], OfLearner(w)' \cap learned'[f])
  BY DEF Lists, ListsBy, Earlier

\* A result that completes, or is confirmed, changes no history.
LEMMA LearnedStays ==
  ASSUME FieldTyped, LearnedTrue, UNCHANGED index, trusted \subseteq trusted',
         Finished \subseteq Finished', \A r \in Finished : completed'[r] = completed[r]
  PROVE  LearnedTrue'
<1>1. UNCHANGED <<learned, raised, samples>>
  BY DEF index
<1>2. ASSUME NEW f \in Field, NEW w \in Learner
      PROVE  Lists(samples[f][w], OfLearner(w) \cap learned[f])'
  <2> DEFINE S == OfLearner(w) \cap learned[f]
             s == samples[f][w]
  <2>1. ListsBy(completed, s, S)
    BY ListsIsBy DEF LearnedTrue
  <2>2. S \subseteq Finished /\ S = OfLearner(w)' \cap learned'[f] /\ s = samples'[f][w]
    BY <1>1 DEF OfLearner, LearnedTrue, FieldTyped
  <2>3. \A k \in DOMAIN s : completed'[s[k]] = completed[s[k]]
    <3> HIDE DEF s, S
    <3> QED BY <2>1, <2>2 DEF ListsBy
  <2>4. ListsBy(completed', s, S)
    <3> HIDE DEF s, S
    <3> QED BY <2>1, <2>3 DEF ListsBy
  <2> QED BY <2>2, <2>4, ListsIsBy
<1> QED BY <1>1, <1>2 DEF LearnedTrue

\* A synchronization with confirmed results leaves a field that lists them.
LEMMA SynchronizeStep ==
  ASSUME FieldTyped, LearnedTrue, NEW f \in Field, NEW known \in SUBSET trusted,
         Synchronize(f, known), UNCHANGED <<completed, trusted>>
  PROVE  /\ LearnedTrue' /\ DOMAIN learned' = Field /\ DOMAIN samples' = Field
         /\ learned'[f] = known /\ \A g \in Field : g # f => learned'[g] = learned[g]
<1>1. /\ learned' = [learned EXCEPT ![f] = known] /\ raised' = [raised EXCEPT ![f] = known]
      /\ samples' = [samples EXCEPT ![f] = [w \in Learner |-> Project(f, known, w)]]
  BY DEF Synchronize
<1>2. /\ DOMAIN learned' = Field /\ DOMAIN samples' = Field
      /\ learned'[f] = known /\ \A g \in Field : g # f => learned'[g] = learned[g]
      /\ \A w \in Learner : samples'[f][w] = Project(f, known, w)
      /\ \A g \in Field : g # f => samples'[g] = samples[g]
      /\ raised' = learned'
  BY <1>1 DEF FieldTyped, LearnedTrue
<1>3. ASSUME NEW w \in Learner
      PROVE  Lists(samples'[f][w], OfLearner(w) \cap known)
  <2> DEFINE S == OfLearner(w) \cap known
  <2>1. S \subseteq Finished
    BY DEF OfLearner
  <2>2. IsFiniteSet(S) /\ Dated(S)
    BY <2>1, FS_Subset, FieldAssumption DEF FieldTyped, Dated
  <2>3. Lists(Sorted(S), S)
    <3> HIDE DEF S
    <3> QED BY <2>2, ListExists
  <2> QED BY <1>2, <2>3 DEF Project
<1>4. \A w \in Learner : OfLearner(w)' = OfLearner(w)
  BY DEF OfLearner, Finished
<1>5. ASSUME NEW g \in Field, NEW w \in Learner
      PROVE  Lists(samples[g][w], OfLearner(w) \cap learned[g])'
  <2>1. CASE g = f
    <3>1. Lists(samples'[f][w], OfLearner(w) \cap known)
      BY <1>3
    <3>2. ListsBy(completed, samples'[f][w], OfLearner(w) \cap known)
      BY <3>1 DEF Lists, ListsBy, Earlier
    <3> QED BY <1>2, <1>4, <2>1, <3>2, ListsIsBy
  <2>2. CASE g # f
    <3>1. ListsBy(completed, samples[g][w], OfLearner(w) \cap learned[g])
      BY ListsIsBy DEF LearnedTrue
    <3> QED BY <1>2, <1>4, <2>2, <3>1, ListsIsBy
  <2> QED BY <2>1, <2>2
<1>6. \A g \in Field : learned'[g] \subseteq trusted'
  BY <1>2 DEF LearnedTrue
<1> QED BY <1>2, <1>5, <1>6 DEF LearnedTrue

LEMMA FieldStart == ASSUME FieldInit PROVE FieldInv
<1>1. Finished = {} /\ IsFiniteSet({})
  BY FS_EmptySet DEF FieldInit, Finished
<1>2. FieldTyped
  BY <1>1 DEF FieldInit, FieldTyped
<1>3. Confirmed
  BY DEF FieldInit, Confirmed, PairConfirmed
<1>4. ASSUME NEW f \in Field, NEW w \in Learner
      PROVE  samples[f][w] = <<>> /\ OfLearner(w) \cap learned[f] = {}
  BY <1>1, <1>4 DEF FieldInit, OfLearner
<1>5. Lists(<<>>, {})
  BY FS_EmptySet DEF Lists
<1> QED BY <1>2, <1>3, <1>4, <1>5 DEF FieldInit, FieldInv, LearnedTrue

\* Steps of the ledger and the asset store: results are only added.
ResultsGrow ==
    /\ UNCHANGED <<index, pairing, reading>> /\ hour' \in Nat
    /\ trusted \subseteq trusted' /\ trusted' \subseteq Finished'
    /\ Finished \subseteq Finished' /\ \A r \in Finished : completed'[r] = completed[r]
    /\ IsFiniteSet(Finished') /\ Finished' \subseteq Completion
    /\ \A r \in Finished' : completed'[r].by \in Learner /\ completed'[r].at \in Nat

LEMMA LedgerStep ==
  ASSUME FieldInv,
         \/ \E r \in Completion, w \in Learner : CompleteTask(r, w)
         \/ \E r \in Completion : RecordAdoption(r)
         \/ HourPasses
  PROVE  FieldInv' /\ UNCHANGED learned
<1> USE DEF FieldInv
<1>1. ResultsGrow
  <2>1. ASSUME NEW r \in Completion, NEW w \in Learner, CompleteTask(r, w)
        PROVE  ResultsGrow
    <3>1. Finished' = Finished \cup {r} /\ r \notin Finished
      BY <2>1 DEF CompleteTask, Finished
    <3>2. IsFiniteSet(Finished')
      BY <3>1, FS_AddElement DEF FieldTyped
    <3>3. /\ completed'[r] = [by |-> w, at |-> hour]
          /\ \A s \in Finished : completed'[s] = completed[s]
      BY <2>1, <3>1 DEF CompleteTask
    <3>4. trusted' = trusted \/ trusted' = trusted \cup {r}
      BY <2>1 DEF CompleteTask
    <3>5. UNCHANGED <<hour, index, pairing, reading>>
      BY <2>1 DEF CompleteTask
    <3> QED BY <3>1, <3>2, <3>3, <3>4, <3>5 DEF FieldTyped, ResultsGrow
  <2>2. ASSUME NEW r \in Completion, RecordAdoption(r)
        PROVE  ResultsGrow
    BY <2>2 DEF ResultsGrow, RecordAdoption, FieldTyped, Finished
  <2>3. CASE HourPasses
    BY <2>3 DEF ResultsGrow, HourPasses, FieldTyped, Finished
  <2> QED BY <2>1, <2>2, <2>3
<1>2. UNCHANGED <<learned, samples>>
  BY <1>1 DEF ResultsGrow, index
<1>3. FieldTyped'
  BY <1>1, <1>2 DEF ResultsGrow, FieldTyped
<1>4. Confirmed'
  BY <1>1 DEF ResultsGrow, Confirmed, PairConfirmed
<1>5. LearnedTrue'
  BY <1>1, LearnedStays DEF ResultsGrow
<1> QED BY <1>2, <1>3, <1>4, <1>5

\* Steps that only move a pair or a reading along.
LEMMA QuietStep ==
  ASSUME FieldInv, UNCHANGED <<hour, completed, trusted, index>>, Confirmed'
  PROVE  FieldInv' /\ UNCHANGED learned
<1>1. UNCHANGED <<learned, raised, samples, Finished>>
  BY DEF index, Finished
<1>2. LearnedTrue'
  BY <1>1, LearnedStays DEF FieldInv
<1> QED BY <1>1, <1>2 DEF FieldInv, FieldTyped

LEMMA PairMoves ==
  ASSUME Confirmed, NEW w \in Learner, NEW p, Pair(w, p), UNCHANGED <<trusted, reading>>,
         \/ p = NoPair
         \/ /\ p \in [of : Completion, calls : SUBSET {"signal", "history"}]
            /\ p.calls # {} => p.of \in trusted
  PROVE  Confirmed'
<1>1. /\ pairing' = [pairing EXCEPT ![w] = p]
      /\ p \in [of : Completion, calls : SUBSET {"signal", "history"}] \cup {NoPair}
      /\ p # NoPair /\ p.calls # {} => p.of \in trusted
  BY DEF Pair
<1>2. pairing' \in [Learner -> [of : Completion, calls : SUBSET {"signal", "history"}] \cup {NoPair}]
  BY <1>1 DEF Confirmed
<1>3. \A v \in Learner : PairConfirmed(v)'
  BY <1>1 DEF Confirmed, PairConfirmed
<1> QED BY <1>2, <1>3 DEF Confirmed

LEMMA LearnerStays ==
  ASSUME FieldInv, NEW w \in Learner,
         \/ \E r \in Completion : StartFeedback(w, r)
         \/ RewardSignal(w) \/ RewardHistory(w) \/ AbandonPair(w) \/ RejectTask(w)
  PROVE  FieldInv' /\ UNCHANGED learned
<1> DEFINE Records == [of : Completion, calls : SUBSET {"signal", "history"}]
<1>1. UNCHANGED <<hour, completed, trusted, index, reading>>
  BY DEF StartFeedback, RewardSignal, RewardHistory, AbandonPair, RejectTask
<1>2. Confirmed /\ pairing \in [Learner -> Records \cup {NoPair}]
  BY DEF FieldInv, Confirmed
<1>3. Confirmed'
  <2>1. ASSUME NEW r \in Completion, StartFeedback(w, r)
        PROVE  Confirmed'
    <3> DEFINE p == [of |-> r, calls |-> {}]
    <3>1. p \in Records /\ p.calls = {} /\ Pair(w, p)
      BY <2>1 DEF StartFeedback
    <3> HIDE DEF p
    <3> QED BY <1>1, <1>2, <3>1, PairMoves
  <2>2. CASE RewardSignal(w)
    <3> DEFINE p == [pairing[w] EXCEPT !.calls = {"signal"}]
    <3>1. Pair(w, p) /\ pairing[w] \in Records /\ pairing[w].of \in trusted
      BY <1>2, <2>2 DEF RewardSignal
    <3>2. p \in Records /\ p.of \in trusted
      BY <3>1
    <3> HIDE DEF p
    <3> QED BY <1>1, <1>2, <3>1, <3>2, PairMoves
  <2>3. CASE RewardHistory(w)
    <3> DEFINE p == [pairing[w] EXCEPT !.calls = @ \cup {"history"}]
    <3>1. /\ Pair(w, p) /\ pairing[w] \in Records /\ pairing[w] # NoPair
          /\ pairing[w].calls = {"signal"}
      BY <1>2, <2>3 DEF RewardHistory
    <3>2. pairing[w].of \in trusted
      BY <1>2, <3>1 DEF Confirmed, PairConfirmed
    <3>3. p \in Records /\ p.of \in trusted
      BY <3>1, <3>2
    <3> HIDE DEF p
    <3> QED BY <1>1, <1>2, <3>1, <3>3, PairMoves
  <2>4. CASE AbandonPair(w)
    BY <1>1, <1>2, <2>4, PairMoves DEF AbandonPair
  <2>5. CASE RejectTask(w)
    BY <1>1, <1>2, <2>5 DEF RejectTask, Confirmed, PairConfirmed
  <2> QED BY <2>1, <2>2, <2>3, <2>4, <2>5
<1> QED BY <1>1, <1>3, QuietStep

\* What the workers have learned stays; the result of the pair is confirmed.
LEMMA CommitPairStep ==
  ASSUME FieldInv, NEW w \in Learner, CommitPair(w)
  PROVE  FieldInv' /\ \A f \in Field : learned[f] \subseteq learned'[f]
<1> DEFINE known == AfterPair(w)
<1>1. /\ Synchronize("workers", known) /\ Pair(w, NoPair)
      /\ UNCHANGED <<hour, completed, trusted, reading>>
      /\ pairing[w] # NoPair /\ pairing[w].calls = {"signal", "history"}
  BY DEF CommitPair
<1>2. Confirmed'
  BY <1>1, PairMoves DEF FieldInv
<1>3. "workers" \in Field /\ known \in SUBSET trusted /\ learned["workers"] \subseteq known
  BY <1>1 DEF AfterPair, FieldInv, LearnedTrue, Confirmed, PairConfirmed, Field
<1> HIDE DEF known
<1>4. /\ LearnedTrue' /\ DOMAIN learned' = Field /\ DOMAIN samples' = Field
      /\ learned'["workers"] = known /\ \A g \in Field : g # "workers" => learned'[g] = learned[g]
  BY <1>1, <1>3, SynchronizeStep DEF FieldInv
<1>5. FieldTyped'
  BY <1>1, <1>4 DEF FieldInv, FieldTyped, Finished
<1>6. \A f \in Field : learned[f] \subseteq learned'[f]
  BY <1>3, <1>4
<1> QED BY <1>2, <1>4, <1>5, <1>6 DEF FieldInv

Forgiven(f, r) == f = "policy" /\ \E h \in Operated : reading[h] # <<>> /\ r \notin reading[h][1]

LEMMA HostStays ==
  ASSUME FieldInv, NEW h \in Operated, HostStep(h)
  PROVE  FieldInv' /\ \A f \in Field : \A r \in learned[f] \ learned'[f] : Forgiven(f, r)
<1>1. CASE ReadFacts(h) \/ HostDies(h)
  <2>1. /\ reading' = [reading EXCEPT ![h] = <<trusted>>] \/ reading' = [reading EXCEPT ![h] = <<>>]
        /\ UNCHANGED <<hour, completed, trusted, index, pairing>>
    BY <1>1 DEF ReadFacts, HostDies
  <2>2. /\ DOMAIN reading' = Operated
        /\ \A i \in Operated : reading'[i] # <<>> => reading'[i][1] \subseteq trusted
    BY <2>1 DEF FieldInv, Confirmed
  <2>3. Confirmed'
    BY <2>1, <2>2 DEF FieldInv, Confirmed, PairConfirmed
  <2> QED BY <2>1, <2>3, QuietStep
<1>2. CASE RebuildPolicy(h)
  <2> DEFINE known == reading[h][1]
  <2>1. /\ Synchronize("policy", known) /\ reading[h] # <<>>
        /\ reading' = [reading EXCEPT ![h] = <<>>]
        /\ UNCHANGED <<hour, completed, trusted, pairing>>
    BY <1>2 DEF RebuildPolicy
  <2>2. "policy" \in Field /\ known \in SUBSET trusted
    BY <2>1 DEF FieldInv, Confirmed, Field
  <2>3. Confirmed'
    <3>1. /\ DOMAIN reading' = Operated
          /\ \A i \in Operated : reading'[i] # <<>> => reading'[i][1] \subseteq trusted
      BY <2>1 DEF FieldInv, Confirmed
    <3> QED BY <2>1, <3>1 DEF FieldInv, Confirmed, PairConfirmed
  <2> HIDE DEF known
  <2>4. /\ LearnedTrue' /\ DOMAIN learned' = Field /\ DOMAIN samples' = Field
        /\ learned'["policy"] = known /\ \A g \in Field : g # "policy" => learned'[g] = learned[g]
    BY <2>1, <2>2, SynchronizeStep DEF FieldInv
  <2>5. FieldTyped'
    BY <2>1, <2>4 DEF FieldInv, FieldTyped, Finished
  <2>6. ASSUME NEW f \in Field, NEW r \in learned[f] \ learned'[f]
        PROVE  Forgiven(f, r)
    BY <2>1, <2>4, <2>6 DEF Forgiven, known
  <2> QED BY <2>3, <2>4, <2>5, <2>6 DEF FieldInv
<1> QED BY <1>1, <1>2 DEF HostStep

LEMMA FieldStep ==
  ASSUME FieldInv, [FieldNext]_fieldVars
  PROVE  FieldInv' /\ \A f \in Field : \A r \in learned[f] \ learned'[f] : Forgiven(f, r)
<1>1. CASE UNCHANGED fieldVars
  <2>1. UNCHANGED <<hour, completed, trusted, index, pairing, reading>>
    BY <1>1 DEF fieldVars, index
  <2>2. Confirmed'
    BY <2>1 DEF FieldInv, Confirmed, PairConfirmed
  <2> QED BY <2>1, <2>2, QuietStep
<1>2. CASE HourPasses \/ \E r \in Completion : RecordAdoption(r)
  BY <1>2, LedgerStep
<1>3. ASSUME NEW w \in Learner, LearnerStep(w)
      PROVE  FieldInv' /\ \A f \in Field : learned[f] \subseteq learned'[f]
  <2>1. CASE \E r \in Completion : CompleteTask(r, w)
    BY <2>1, LedgerStep
  <2>2. CASE ~\E r \in Completion : CompleteTask(r, w)
    BY <1>3, <2>2, LearnerStays, CommitPairStep DEF LearnerStep
  <2> QED BY <2>1, <2>2
<1> QED BY <1>1, <1>2, <1>3, HostStays DEF FieldNext

LEMMA AlwaysLearned == FieldSpec => []FieldInv
<1>1. FieldInit => FieldInv
  BY FieldStart
<1>2. FieldInv /\ [FieldNext]_fieldVars => FieldInv'
  BY FieldStep
<1> QED BY <1>1, <1>2, PTL DEF FieldSpec

\* The samples of a worker are confirmed results of its own, each once and in the
\* order of their completion, and the signals that rose are those of the same
\* results: for any number of results, workers and hosts, in whatever order they
\* confirm, read and rebuild (project, synchronize, trusted_pair).
THEOREM RewardsAlwaysInOrder == FieldSpec => []RewardsInOrder
<1>1. ASSUME FieldInv PROVE RewardsInOrder
  <2>1. ASSUME NEW f \in Field, NEW w \in Learner, NEW k \in DOMAIN samples[f][w]
        PROVE  LET r == samples[f][w][k] IN
               /\ r \in learned[f] /\ r \in trusted /\ completed[r].by = w
               /\ \A j \in 1 .. k - 1 : Earlier(samples[f][w][j], r)
    <3> DEFINE S == OfLearner(w) \cap learned[f]
               s == samples[f][w]
    <3>1. Lists(s, S)
      BY <1>1 DEF FieldInv, LearnedTrue
    <3>2. s[k] \in OfLearner(w) /\ s[k] \in learned[f]
      BY <2>1, <3>1 DEF Lists
    <3>3. Cardinality(S) \in Nat
      <4>1. IsFiniteSet(S)
        BY <1>1, FS_Subset DEF FieldInv, FieldTyped, OfLearner
      <4> QED BY <4>1, FS_CardinalityType
    <3> HIDE DEF S, s
    <3>4. k \in 1 .. Cardinality(S) /\ DOMAIN s = 1 .. Cardinality(S)
      BY <2>1, <3>1 DEF Lists, s
    <3>5. \A j \in 1 .. k - 1 : j \in DOMAIN s /\ j < k
      BY <3>3, <3>4
    <3>6. \A j \in 1 .. k - 1 : Earlier(s[j], s[k])
      BY <3>1, <3>4, <3>5 DEF Lists
    <3> QED BY <1>1, <3>2, <3>6 DEF FieldInv, LearnedTrue, OfLearner, s
  <2>2. ASSUME NEW f \in Field
        PROVE  raised[f] = UNION {{samples[f][w][k] : k \in DOMAIN samples[f][w]} : w \in Learner}
    <3>1. ASSUME NEW r \in raised[f]
          PROVE  \E w \in Learner : \E k \in DOMAIN samples[f][w] : samples[f][w][k] = r
      <4> DEFINE w == completed[r].by
      <4>1. r \in learned[f] /\ r \in Finished
        BY <1>1 DEF FieldInv, LearnedTrue, FieldTyped
      <4>2. w \in Learner /\ r \in OfLearner(w) \cap learned[f]
        BY <1>1, <4>1 DEF FieldInv, FieldTyped, OfLearner
      <4> HIDE DEF w
      <4> QED BY <1>1, <4>2 DEF FieldInv, LearnedTrue, Lists
    <3>2. \A w \in Learner : \A k \in DOMAIN samples[f][w] : samples[f][w][k] \in raised[f]
      BY <1>1, <2>1 DEF FieldInv, LearnedTrue
    <3> QED BY <3>1, <3>2
  <2> QED BY <2>1, <2>2 DEF RewardsInOrder
<1>2. FieldInv => RewardsInOrder
  BY <1>1
<1> QED BY <1>2, AlwaysLearned, PTL

\* A learned result is forgotten only by a rebuild of the policy field from a
\* reading that does not hold it; the field of the workers forgets nothing, as
\* its synchronization adds to what is there (synchronize, replace=False).
THEOREM OnlyStaleReadingsForget == FieldSpec => OnlyOldReadingsForget
<1>1. FieldInv /\ [FieldNext]_fieldVars =>
        [\A f \in Field : \A r \in learned[f] \ learned'[f] :
            f = "policy" /\ \E h \in Operated : reading[h] # <<>> /\ r \notin reading[h][1]]_fieldVars
  BY FieldStep DEF Forgiven
<1> QED BY <1>1, AlwaysLearned, PTL DEF FieldSpec, OnlyOldReadingsForget
=============================================================================
