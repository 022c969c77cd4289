--------------------------- MODULE TaskLedgerProofs ---------------------------
(***************************************************************************)
(* Theorems of the task ledger, for any set of tasks, workers and limits.  *)
(***************************************************************************)
EXTENDS TaskLedger, SequenceTheorems, TLAPS

\* Leases are granted for generations that exist: their tokens index a row of
\* table task_attempts.
LeaseTokens == \A l \in leases : l.token \in 1 .. tasks[l.task].token

\* A task that was never enqueued has left no trace.
AbsentIsEmpty == \A t \in Task : tasks[t].status = "absent" => tasks[t] = AbsentRow

\* The inductive invariant behind the type invariant: table task_attempts has
\* one row per generation, so closing the row of a lease stays inside it.
HistoryInv == TypeOK /\ LeaseTokens /\ AbsentIsEmpty /\ AttemptHistory

Engaged == {"claimed", "submitting"}

LEMMA AbsentRowType == AbsentRow \in Row
  BY NullAssumption DEF AbsentRow, Row, Status, NoExpiry

\* The initial ledger is empty.
LEMMA HistoryInit == ASSUME Init PROVE HistoryInv
<1>1. TypeOK
  BY AbsentRowType, EmptySeq DEF Init, TypeOK, Target
<1>2. LeaseTokens
  BY DEF Init, LeaseTokens
<1>3. AttemptHistory /\ AbsentIsEmpty
  BY DEF Init, AttemptHistory, AbsentIsEmpty, AbsentRow
<1> QED
  BY <1>1, <1>2, <1>3 DEF HistoryInv

\* A transaction that rewrites one row without touching its generation, and
\* neither opens nor closes a claim, keeps the invariant.
LEMMA HistoryKept ==
  ASSUME HistoryInv, TypeOK', NEW t \in Task, NEW row \in Row,
         tasks' = [tasks EXCEPT ![t] = row],
         row.token = tasks[t].token, row.attempts = tasks[t].attempts,
         row.status # "absent",
         row.status \in Engaged <=> tasks[t].status \in Engaged,
         log' = log,
         \A l \in leases' : l \in leases \/ \E k \in leases : l.task = k.task /\ l.token = k.token
  PROVE  HistoryInv'
<1>1. LeaseTokens'
  BY DEF HistoryInv, TypeOK, LeaseTokens, Lease
<1>2. AbsentIsEmpty'
  BY DEF HistoryInv, TypeOK, AbsentIsEmpty
<1>3. AttemptHistory'
  BY DEF HistoryInv, TypeOK, AttemptHistory, Engaged
<1> QED
  BY <1>1, <1>2, <1>3 DEF HistoryInv

\* Facts about the lease that owns its row.
LEMMA HolderFacts ==
  ASSUME HistoryInv, NEW l \in leases, Owned(l, Engaged)
  PROVE  /\ l.task \in Task /\ l \in Lease
         /\ l.token = tasks[l.task].token
         /\ l.token \in 1 .. Len(log[l.task])
         /\ tasks[l.task] \in Row
         /\ log[l.task] \in Seq(Outcome)
         /\ tasks[l.task].status \in Engaged
  BY DEF HistoryInv, TypeOK, LeaseTokens, AttemptHistory, Lease, Owned

\* A transaction that ends the claim of a lease closes that lease's own
\* attempt row, which keeps the invariant.
LEMMA HistoryClosed ==
  ASSUME HistoryInv, NEW l \in leases, Owned(l, Engaged), NEW row \in Row,
         NEW outcome \in Outcome \ {"open"},
         tasks' = [tasks EXCEPT ![l.task] = row],
         row.token = tasks[l.task].token, row.attempts = tasks[l.task].attempts,
         row.status \notin Engaged, row.status # "absent",
         log' = [log EXCEPT ![l.task][l.token] = outcome],
         clock' = clock, leases' = leases, intents' \subseteq leases,
         writer' \in leases \cup {NoLease}, applied' \in BOOLEAN,
         target' = target
  PROVE  HistoryInv'
<1> DEFINE t == l.task
           s == log[t]
           u == [s EXCEPT ![l.token] = outcome]
<1>1. t \in Task /\ s \in Seq(Outcome) /\ l.token = tasks[t].token /\ l.token \in 1 .. Len(s)
  BY HolderFacts
<1>2. /\ u \in Seq(Outcome)
      /\ Len(u) = Len(s)
      /\ \A j \in 1 .. Len(s) : u[j] = IF j = l.token THEN outcome ELSE s[j]
  <2> HIDE DEF s
  <2> QED BY <1>1, ExceptSeq
<1>3. log' = [log EXCEPT ![t] = u]
  OBVIOUS
<1> HIDE DEF u
<1>4. log' \in [Task -> Seq(Outcome)]
  BY <1>1, <1>2, <1>3 DEF HistoryInv, TypeOK
<1>5. TypeOK'
  BY <1>1, <1>4 DEF HistoryInv, TypeOK
<1>6. LeaseTokens'
  BY <1>1 DEF HistoryInv, TypeOK, LeaseTokens, Lease
<1>7. AbsentIsEmpty'
  BY <1>1 DEF HistoryInv, TypeOK, AbsentIsEmpty
<1>8. AttemptHistory'
  <2> SUFFICES ASSUME NEW c \in Task
      PROVE  /\ Len(log'[c]) = tasks'[c].token
             /\ tasks'[c].attempts = tasks'[c].token
             /\ \A k \in 1 .. Len(log'[c]) :
                   log'[c][k] = "open" <=> /\ k = tasks'[c].token
                                           /\ tasks'[c].status \in {"claimed", "submitting"}
    BY DEF AttemptHistory
  <2>1. CASE c = t
    BY <2>1, <1>1, <1>2, <1>3 DEF HistoryInv, TypeOK, AttemptHistory, Engaged
  <2>2. CASE c # t
    BY <2>2, <1>1, <1>3 DEF HistoryInv, TypeOK, AttemptHistory
  <2> QED BY <2>1, <2>2
<1> QED
  BY <1>5, <1>6, <1>7, <1>8 DEF HistoryInv

\* Completing the task of a lease is one such transaction.
LEMMA HistoryCompleted ==
  ASSUME HistoryInv, NEW l \in leases, Owned(l, Engaged),
         NEW r \in Result \cup {NoResult}, NEW effect \in BOOLEAN,
         Completed(l, r, effect),
         clock' = clock, leases' = leases, intents' \subseteq leases,
         writer' \in leases \cup {NoLease}, applied' \in BOOLEAN,
         target' = target
  PROVE  HistoryInv'
<1> DEFINE row == [tasks[l.task] EXCEPT !.status = "completed", !.result = r,
                                        !.effect = effect]
<1>1. tasks[l.task] \in Row
  BY HolderFacts
<1>2. /\ row \in Row /\ row.token = tasks[l.task].token
      /\ row.attempts = tasks[l.task].attempts /\ row.status = "completed"
  BY <1>1 DEF Row, Status
<1>3. /\ tasks' = [tasks EXCEPT ![l.task] = row]
      /\ log' = [log EXCEPT ![l.task][l.token] = "completed"]
  BY DEF Completed
<1> HIDE DEF row
<1> QED
  BY <1>2, <1>3, HistoryClosed DEF Outcome, Engaged

\* Steps that leave both tables and the leases alone.
LEMMA HistoryUnmoved ==
  ASSUME HistoryInv, TypeOK', UNCHANGED <<tasks, log, leases>>
  PROVE  HistoryInv'
  BY DEF HistoryInv, LeaseTokens, AbsentIsEmpty, AttemptHistory

LEMMA HoldsIsOwned ==
  ASSUME NEW l PROVE /\ Holds(l) => Owned(l, Engaged)
                     /\ Owned(l, {"claimed", "submitting"}) <=> Owned(l, Engaged)
  BY DEF Holds, Owned, Engaged

\* One step per action; a claim is the only one that opens an attempt row.
LEMMA HistoryStep == ASSUME HistoryInv, [Next]_vars PROVE HistoryInv'
<1>1. ASSUME NEW t \in Task, Enqueue(t) PROVE HistoryInv'
  <2> DEFINE row == [AbsentRow EXCEPT !.status = "available"]
  <2>1. /\ row \in Row /\ row.token = 0 /\ row.attempts = 0 /\ row.status = "available"
        /\ AbsentRow.token = 0 /\ AbsentRow.attempts = 0 /\ AbsentRow.status = "absent"
    BY AbsentRowType DEF Row, Status, AbsentRow
  <2>2. tasks[t] = AbsentRow
    BY <1>1 DEF Enqueue, Known, HistoryInv, AbsentIsEmpty
  <2>3. tasks' = [tasks EXCEPT ![t] = row] /\ log' = log /\ leases' = leases
    BY <1>1 DEF Enqueue, Write
  <2> HIDE DEF row
  <2>4. TypeOK'
    BY <1>1, <2>1, <2>3 DEF Enqueue, Write, HistoryInv, TypeOK
  <2> QED
    BY <2>1, <2>2, <2>3, <2>4, HistoryKept DEF Engaged
<1>2. ASSUME NEW t \in Task, RecordConditionFailure(t) PROVE HistoryInv'
  <2> DEFINE count == tasks[t].conditions + 1
             next == IF count >= MaxAttemptsPerTask THEN "blocked" ELSE tasks[t].status
             row == [tasks[t] EXCEPT !.conditions = count, !.status = next]
  <2>1. tasks[t] \in Row /\ tasks[t].status \in Unclaimed
    BY <1>2 DEF RecordConditionFailure, HistoryInv, TypeOK
  <2>2. next \in Unclaimed \cup {"blocked"}
    BY <2>1
  <2>3. tasks' = [tasks EXCEPT ![t] = row] /\ log' = log /\ leases' = leases
    BY <1>2 DEF RecordConditionFailure, Write
  <2>4. count \in Nat /\ next \in Status
    BY <2>1, <2>2 DEF Row, Status, Unclaimed
  <2> HIDE DEF next, count
  <2>5. /\ row \in Row /\ row.token = tasks[t].token /\ row.attempts = tasks[t].attempts
        /\ row.status = next
    BY <2>1, <2>4 DEF Row
  <2> HIDE DEF row
  <2>6. TypeOK'
    BY <1>2, <2>3, <2>5 DEF RecordConditionFailure, Write, HistoryInv, TypeOK
  <2> QED
    BY <2>1, <2>2, <2>3, <2>5, <2>6, HistoryKept DEF Engaged, Unclaimed
<1>3. ASSUME NEW w \in Worker, NEW t \in Task, NEW ttl \in TTL, Claim(w, t, ttl)
      PROVE  HistoryInv'
  <2> DEFINE token == tasks[t].token + 1
             closed == IF tasks[t].status = "claimed"
                       THEN [log[t] EXCEPT ![tasks[t].token] = "expired"]
                       ELSE log[t]
             row == [tasks[t] EXCEPT !.status = "claimed", !.attempts = @ + 1,
                                     !.token = token, !.owner = w,
                                     !.expiry = clock + ttl]
             lease == [task |-> t, worker |-> w, token |-> token, expires |-> clock + ttl]
             rows == Append(closed, "open")
  <2>1. tasks[t] \in Row /\ log[t] \in Seq(Outcome) /\ clock + ttl \in Nat
    BY ShapeAssumption DEF HistoryInv, TypeOK
  <2>2. /\ Len(log[t]) = tasks[t].token
        /\ tasks[t].attempts = tasks[t].token
        /\ \A k \in 1 .. Len(log[t]) :
               log[t][k] = "open" <=> k = tasks[t].token /\ tasks[t].status \in Engaged
    BY DEF HistoryInv, AttemptHistory, Engaged
  <2>3. tasks[t].status \in Unclaimed \cup {"claimed"}
    BY <1>3 DEF Claim, Eligible
  <2>4. /\ closed \in Seq(Outcome) /\ Len(closed) = tasks[t].token
        /\ \A k \in 1 .. Len(closed) : closed[k] # "open"
    <3>1. CASE tasks[t].status = "claimed" /\ tasks[t].token \in 1 .. Len(log[t])
      <4> DEFINE s == log[t]
      <4>1. [s EXCEPT ![tasks[t].token] = "expired"] \in Seq(Outcome)
            /\ Len([s EXCEPT ![tasks[t].token] = "expired"]) = Len(s)
            /\ \A j \in 1 .. Len(s) : [s EXCEPT ![tasks[t].token] = "expired"][j]
                    = IF j = tasks[t].token THEN "expired" ELSE s[j]
        <5>1. s \in Seq(Outcome) /\ "expired" \in Outcome /\ tasks[t].token \in 1 .. Len(s)
          BY <2>1, <3>1 DEF Outcome
        <5> HIDE DEF s
        <5> QED BY <5>1, ExceptSeq
      <4> QED BY <3>1, <4>1, <2>2
    <3>2. CASE tasks[t].status = "claimed" /\ tasks[t].token \notin 1 .. Len(log[t])
      <4>1. tasks[t].token = 0 /\ log[t] = <<>>
        BY <3>2, <2>1, <2>2, EmptySeq DEF Row
      <4>2. [log[t] EXCEPT ![tasks[t].token] = "expired"] = log[t]
        BY <4>1
      <4> QED BY <3>2, <4>1, <4>2, <2>1, <2>2
    <3>3. CASE tasks[t].status # "claimed"
      BY <3>3, <2>1, <2>2, <2>3 DEF Engaged, Unclaimed
    <3> QED BY <3>1, <3>2, <3>3
  <2>5. /\ tasks' = [tasks EXCEPT ![t] = row]
        /\ log' = [log EXCEPT ![t] = rows]
        /\ leases' = leases \cup {lease}
    BY <1>3 DEF Claim, Write
  <2> HIDE DEF closed
  <2>6. /\ rows \in Seq(Outcome) /\ Len(rows) = token
        /\ rows[token] = "open"
        /\ \A k \in 1 .. tasks[t].token : rows[k] # "open"
    BY <2>1, <2>4, AppendProperties DEF Outcome, Row
  <2>7. /\ row \in Row /\ row.token = token /\ row.attempts = token
        /\ row.status = "claimed"
    <3>1. "claimed" \in Status /\ token \in Nat /\ tasks[t].attempts + 1 \in Nat
      BY <2>1 DEF Row, Status
    <3> QED BY <3>1, <2>1, <2>2 DEF Row
  <2>8. lease \in Lease /\ lease.task = t /\ lease.token = token
    BY <2>1 DEF Lease, Row
  <2>9. token \in Nat /\ token = tasks[t].token + 1 /\ tasks[t].token \in Nat
    BY <2>1 DEF Row
  <2> HIDE DEF rows, row, lease, token
  <2>10. TypeOK'
    <3>1. tasks' \in [Task -> Row] /\ log' \in [Task -> Seq(Outcome)]
      BY <2>5, <2>6, <2>7 DEF HistoryInv, TypeOK
    <3>2. leases' \subseteq Lease /\ leases \subseteq leases'
      BY <2>5, <2>8 DEF HistoryInv, TypeOK
    <3> QED
      BY <1>3, <3>1, <3>2 DEF Claim, Write, HistoryInv, TypeOK
  <2>11. LeaseTokens'
    BY <2>5, <2>7, <2>8, <2>9 DEF HistoryInv, TypeOK, LeaseTokens, Lease
  <2>12. AbsentIsEmpty'
    BY <2>5, <2>7 DEF HistoryInv, TypeOK, AbsentIsEmpty
  <2>13. AttemptHistory'
    BY <2>5, <2>6, <2>7, <2>9 DEF HistoryInv, TypeOK, AttemptHistory
  <2> QED
    BY <2>10, <2>11, <2>12, <2>13 DEF HistoryInv
<1>4. ASSUME NEW l \in leases, NEW ttl \in TTL, Renew(l, ttl) PROVE HistoryInv'
  <2> DEFINE t == l.task
             row == [tasks[t] EXCEPT !.expiry = clock + ttl]
             fresh == [l EXCEPT !.expires = clock + ttl]
  <2>1. t \in Task /\ l \in Lease /\ tasks[t] \in Row
    BY <1>4, HolderFacts, HoldsIsOwned DEF Renew
  <2>2. clock + ttl \in Nat
    BY ShapeAssumption DEF HistoryInv, TypeOK
  <2>3. /\ row \in Row /\ row.token = tasks[t].token /\ row.attempts = tasks[t].attempts
        /\ row.status = tasks[t].status
    BY <2>1, <2>2 DEF Row
  <2>4. fresh \in Lease /\ fresh.task = l.task /\ fresh.token = l.token
    BY <2>1, <2>2 DEF Lease
  <2>5. /\ tasks' = [tasks EXCEPT ![t] = row] /\ log' = log
        /\ leases' = leases \cup {fresh}
        /\ tasks[t].status # "absent"
    BY <1>4 DEF Renew, Write, Holds, Owned
  <2> HIDE DEF row, fresh
  <2>6. TypeOK'
    BY <1>4, <2>1, <2>3, <2>4, <2>5 DEF Renew, Write, HistoryInv, TypeOK
  <2> QED
    BY <2>1, <2>3, <2>4, <2>5, <2>6, HistoryKept
<1>5. ASSUME NEW l \in leases, NEW outcome \in {"released", "failed"},
             FinishAttempt(l, outcome)
      PROVE  HistoryInv'
  <2> DEFINE next == IF tasks[l.task].unconfirmed # NoRequest THEN "blocked"
                     ELSE IF tasks[l.task].attempts >= MaxAttemptsPerTask THEN "failed"
                     ELSE "available"
             row == [tasks[l.task] EXCEPT !.status = next, !.owner = NoWorker,
                                          !.expiry = NoExpiry]
  <2>1. Owned(l, Engaged) /\ tasks[l.task] \in Row
    BY <1>5, HolderFacts, HoldsIsOwned DEF FinishAttempt
  <2>2. next \in Status \ (Engaged \cup {"absent"})
    BY DEF Status, Engaged
  <2> HIDE DEF next
  <2>3. /\ row \in Row /\ row.token = tasks[l.task].token
        /\ row.attempts = tasks[l.task].attempts /\ row.status = next
    BY <2>1, <2>2 DEF Row, NoExpiry
  <2>4. /\ tasks' = [tasks EXCEPT ![l.task] = row]
        /\ log' = [log EXCEPT ![l.task][l.token] = outcome]
    BY <1>5 DEF FinishAttempt, Write, next
  <2> HIDE DEF row
  <2> QED
    BY <1>5, <2>1, <2>2, <2>3, <2>4, HistoryClosed
       DEF FinishAttempt, Write, HistoryInv, TypeOK, Outcome
<1>6. ASSUME NEW l \in leases, NEW next \in Worker, NEW body \in Result \cup {NoResult},
             Handoff(l, next, body)
      PROVE  HistoryInv'
  <2> DEFINE status == IF body = NoResult THEN "handoff" ELSE "partial"
             result == IF body = NoResult THEN tasks[l.task].result ELSE body
             row == [tasks[l.task] EXCEPT !.status = status, !.owner = NoWorker,
                                          !.expiry = NoExpiry, !.result = result]
  <2>1. Owned(l, Engaged) /\ tasks[l.task] \in Row
    BY <1>6, HolderFacts, HoldsIsOwned DEF Handoff
  <2>2. /\ status \in {"handoff", "partial"}
        /\ result \in Result \cup {NoResult}
    BY <2>1 DEF Row
  <2>3. /\ tasks' = [tasks EXCEPT ![l.task] = row]
        /\ log' = [log EXCEPT ![l.task][l.token] = status]
    BY <1>6 DEF Handoff, Write
  <2> HIDE DEF status, result
  <2>4. /\ row \in Row /\ row.token = tasks[l.task].token
        /\ row.attempts = tasks[l.task].attempts /\ row.status = status
    <3>1. status \in Status
      BY <2>2 DEF Status
    <3> QED BY <2>1, <2>2, <3>1 DEF Row, NoExpiry
  <2> HIDE DEF row
  <2>5. status \in Outcome \ {"open"} /\ status \notin Engaged /\ status # "absent"
    BY <2>2 DEF Outcome, Engaged
  <2>6. /\ UNCHANGED <<clock, leases, intents, writer, applied, target>>
        /\ intents' \subseteq leases /\ writer' \in leases \cup {NoLease} /\ applied' \in BOOLEAN
    BY <1>6 DEF Handoff, Write, HistoryInv, TypeOK
  <2> QED
    BY <2>1, <2>3, <2>4, <2>5, <2>6, HistoryClosed
<1>7. ASSUME NEW l \in leases, NEW q \in Request,
             BeginExecution(l, q) \/ ConfirmExecution(l, q)
      PROVE  HistoryInv'
  <2>1. /\ Owned(l, Engaged) /\ l.task \in Task /\ tasks[l.task] \in Row
        /\ tasks[l.task].status = "claimed"
    BY <1>7, HolderFacts, HoldsIsOwned DEF BeginExecution, ConfirmExecution, Holds, Owned
  <2>2. PICK row \in Row :
            /\ tasks' = [tasks EXCEPT ![l.task] = row]
            /\ row.token = tasks[l.task].token /\ row.attempts = tasks[l.task].attempts
            /\ row.status = "claimed"
    <3>1. CASE BeginExecution(l, q)
      <4> DEFINE row == [tasks[l.task] EXCEPT !.unconfirmed = q, !.executions = @ + 1]
      <4>0. tasks[l.task].executions + 1 \in Nat
        BY <2>1 DEF Row
      <4>1. /\ row \in Row /\ row.token = tasks[l.task].token
            /\ row.attempts = tasks[l.task].attempts /\ row.status = "claimed"
        BY <2>1, <4>0 DEF Row
      <4>2. tasks' = [tasks EXCEPT ![l.task] = row]
        BY <3>1 DEF BeginExecution, Write
      <4> QED BY <4>1, <4>2
    <3>2. CASE ConfirmExecution(l, q)
      <4> DEFINE row == [tasks[l.task] EXCEPT !.unconfirmed = NoRequest]
      <4>1. /\ row \in Row /\ row.token = tasks[l.task].token
            /\ row.attempts = tasks[l.task].attempts /\ row.status = "claimed"
        BY <2>1 DEF Row
      <4>2. tasks' = [tasks EXCEPT ![l.task] = row]
        BY <3>2 DEF ConfirmExecution, Write
      <4> QED BY <4>1, <4>2
    <3> QED BY <1>7, <3>1, <3>2
  <2>3. UNCHANGED <<clock, log, leases, intents, writer, applied, target>>
    BY <1>7 DEF BeginExecution, ConfirmExecution, Write
  <2>4. TypeOK'
    BY <2>2, <2>3 DEF HistoryInv, TypeOK
  <2> QED
    BY <2>1, <2>2, <2>3, <2>4, HistoryKept DEF Engaged
<1>8. ASSUME NEW l \in leases, NEW r \in Result, SubmitFact(l, r) PROVE HistoryInv'
  <2>1. Owned(l, Engaged) /\ r \in Result \cup {NoResult}
    BY <1>8, HoldsIsOwned DEF SubmitFact
  <2> QED
    BY <1>8, <2>1, HistoryCompleted DEF SubmitFact, HistoryInv, TypeOK
<1>9. ASSUME NEW l \in leases, NEW r \in Result, SubmitIntent(l, r) PROVE HistoryInv'
  <2> DEFINE row == [tasks[l.task] EXCEPT !.status = "submitting", !.result = r]
  <2>1. /\ l.task \in Task /\ tasks[l.task] \in Row /\ tasks[l.task].status = "claimed"
    BY <1>9, HolderFacts, HoldsIsOwned DEF SubmitIntent, Holds, Owned
  <2>2. /\ row \in Row /\ row.token = tasks[l.task].token
        /\ row.attempts = tasks[l.task].attempts /\ row.status = "submitting"
    BY <2>1 DEF Row, Status
  <2>3. tasks' = [tasks EXCEPT ![l.task] = row]
    BY <1>9, <2>1 DEF SubmitIntent, HistoryInv, TypeOK
  <2> HIDE DEF row
  <2>4. TypeOK' /\ log' = log /\ leases' = leases
    BY <1>9, <2>2, <2>3 DEF SubmitIntent, HistoryInv, TypeOK
  <2> QED
    BY <2>1, <2>2, <2>3, <2>4, HistoryKept DEF Engaged
<1>10. CASE PublishCommit
  <2>1. CASE Owned(writer, {"claimed", "submitting"})
    <3>1. writer \in leases /\ Owned(writer, Engaged)
      BY <1>10, <2>1, HoldsIsOwned DEF PublishCommit, HistoryInv, TypeOK
    <3>2. tasks[writer.task].result \in Result \cup {NoResult}
      BY <3>1, HolderFacts DEF Row
    <3>3. Completed(writer, tasks[writer.task].result, TRUE)
      BY <1>10, <2>1 DEF PublishCommit
    <3> QED
      BY <1>10, <3>1, <3>2, <3>3, HistoryCompleted DEF PublishCommit, HistoryInv, TypeOK
  <2>2. CASE ~Owned(writer, {"claimed", "submitting"})
    BY <1>10, <2>2, HistoryUnmoved DEF PublishCommit, HistoryInv, TypeOK
  <2> QED BY <2>1, <2>2
<1>11. ASSUME NEW l \in leases, PublishBegin(l) PROVE HistoryInv'
  <2>1. TypeOK'
    BY <1>11 DEF PublishBegin, HistoryInv, TypeOK
  <2> QED
    BY <1>11, <2>1, HistoryUnmoved DEF PublishBegin
<1>12. CASE PublishApply
  <2>1. TypeOK'
    BY <1>12 DEF PublishApply, HistoryInv, TypeOK, Target
  <2> QED
    BY <1>12, <2>1, HistoryUnmoved DEF PublishApply
<1>13. CASE PublishRefused
  <2>1. target' \in [Task -> Target]
    BY <1>13 DEF PublishRefused, HistoryInv, TypeOK
  <2>2. TypeOK'
    BY <1>13, <2>1 DEF PublishRefused, HistoryInv, TypeOK
  <2> QED
    BY <1>13, <2>2, HistoryUnmoved DEF PublishRefused
<1>14. ASSUME NEW w \in Worker, Crash(w) PROVE HistoryInv'
  <2>1. target' \in [Task -> Target]
    BY <1>14 DEF Crash, HistoryInv, TypeOK
  <2>2. TypeOK'
    BY <1>14, <2>1 DEF Crash, HistoryInv, TypeOK
  <2> QED
    BY <1>14, <2>2, HistoryUnmoved DEF Crash
<1>15. CASE Tick
  <2>1. TypeOK'
    BY <1>15 DEF Tick, HistoryInv, TypeOK
  <2> QED
    BY <1>15, <2>1, HistoryUnmoved DEF Tick
<1>16. CASE UNCHANGED vars
  <2>1. TypeOK'
    BY <1>16 DEF vars, HistoryInv, TypeOK
  <2> QED
    BY <1>16, <2>1, HistoryUnmoved DEF vars
<1> QED
  BY <1>1, <1>2, <1>3, <1>4, <1>5, <1>6, <1>7, <1>8, <1>9, <1>10, <1>11, <1>12, <1>13,
     <1>14, <1>15, <1>16
     DEF Next, LeaseStep, Release, Fail

\* The attempt rows always tell the history of the generations, and every row,
\* lease and publication has its type.
THEOREM HistoryCorrect == Spec => [](TypeOK /\ AttemptHistory)
<1>1. HistoryInv => TypeOK /\ AttemptHistory
  BY DEF HistoryInv
<1> QED
  BY <1>1, HistoryInit, HistoryStep, PTL DEF Spec

LEMMA AlwaysHistory == Spec => []HistoryInv
  BY HistoryInit, HistoryStep, PTL DEF Spec

-----------------------------------------------------------------------------
(* What one step can do to one row: the case distinction every property of   *)
(* the ledger is proved from.                                                *)

OthersKept(t) == \A u \in Task \ {t} : tasks'[u] = tasks[u]

\* A row nobody holds is created, counted down or blocked.
UnheldMove(t) ==
    /\ tasks[t].status \in Unclaimed \cup {"absent"}
    /\ tasks'[t].status \in Unclaimed \cup {"blocked"}
    /\ tasks'[t].token = tasks[t].token
    /\ tasks'[t].unconfirmed = tasks[t].unconfirmed
    /\ tasks'[t].executions = tasks[t].executions
    /\ tasks'[t].effect = tasks[t].effect
    /\ leases' = leases

\* A row is granted to a new generation.
GrantMove(t) ==
    /\ Eligible(t)
    /\ tasks'[t].status = "claimed"
    /\ tasks'[t].token = tasks[t].token + 1
    /\ tasks'[t].expiry > clock
    /\ tasks'[t].unconfirmed = tasks[t].unconfirmed
    /\ tasks'[t].executions = tasks[t].executions
    /\ tasks'[t].effect = tasks[t].effect
    /\ \A l \in leases' \ leases : l.task = t /\ l.token = tasks'[t].token

\* The owner of a row renews, gives up, executes or publishes.
OwnerMove(t) ==
    /\ \E l \in leases : l.task = t /\ Owned(l, Engaged)
    /\ tasks'[t].status # "absent"
    /\ tasks'[t].token = tasks[t].token
    /\ \A l \in leases' \ leases : l.task = t /\ l.token = tasks[t].token
    /\ tasks[t].unconfirmed # NoRequest =>
           /\ tasks'[t].executions = tasks[t].executions
           /\ tasks'[t].unconfirmed \in {tasks[t].unconfirmed, NoRequest}
    /\ tasks'[t].unconfirmed # tasks[t].unconfirmed => tasks[t].status = "claimed"
    /\ tasks[t].status = "submitting" =>
           applied /\ tasks'[t].status = "completed" /\ tasks'[t].result = tasks[t].result
    /\ applied \/ tasks'[t].effect \in {tasks[t].effect, FALSE}

RowMove == \/ tasks' = tasks /\ leases' \subseteq leases
           \/ /\ clock' = clock
              /\ \E t \in Task :
                    OthersKept(t) /\ (UnheldMove(t) \/ GrantMove(t) \/ OwnerMove(t))

\* Rewriting one row leaves the others alone and puts that row in place.
LEMMA RowRewritten ==
  ASSUME TypeOK, NEW t \in Task, NEW row, tasks' = [tasks EXCEPT ![t] = row]
  PROVE  OthersKept(t) /\ tasks'[t] = row
  BY DEF TypeOK, OthersKept

\* The transactions of an owner, up to what they write.
LEMMA OwnerRewrites ==
  ASSUME HistoryInv, NEW l \in leases, Owned(l, Engaged), NEW row,
         tasks' = [tasks EXCEPT ![l.task] = row], clock' = clock,
         row.status # "absent", row.token = tasks[l.task].token,
         \A k \in leases' \ leases : k.task = l.task /\ k.token = l.token,
         \/ row.unconfirmed = tasks[l.task].unconfirmed
            /\ row.executions = tasks[l.task].executions
         \/ tasks[l.task].status = "claimed"
            /\ (tasks[l.task].unconfirmed # NoRequest =>
                    row.unconfirmed = NoRequest /\ row.executions = tasks[l.task].executions),
         tasks[l.task].status = "submitting" =>
            applied /\ row.status = "completed" /\ row.result = tasks[l.task].result,
         applied \/ row.effect \in {tasks[l.task].effect, FALSE}
  PROVE  RowMove
<1>1. l.task \in Task /\ l.token = tasks[l.task].token
  BY HolderFacts
<1>2. OthersKept(l.task) /\ tasks'[l.task] = row
  BY <1>1, RowRewritten DEF HistoryInv
<1>3. OwnerMove(l.task)
  BY <1>1, <1>2 DEF OwnerMove
<1> QED
  BY <1>1, <1>2, <1>3 DEF RowMove

\* Every step of the ledger is one of these moves.
LEMMA StepMoves == ASSUME HistoryInv, [Next]_vars PROVE RowMove
<1>0. TypeOK
  BY DEF HistoryInv
<1>1. ASSUME NEW t \in Task, Enqueue(t) PROVE RowMove
  <2> DEFINE row == [AbsentRow EXCEPT !.status = "available"]
  <2>1. tasks[t] = AbsentRow
    BY <1>1 DEF Enqueue, Known, HistoryInv, AbsentIsEmpty
  <2>2. tasks' = [tasks EXCEPT ![t] = row] /\ leases' = leases /\ clock' = clock
    BY <1>1 DEF Enqueue, Write
  <2>3. OthersKept(t) /\ tasks'[t] = row
    BY <1>0, <2>2, RowRewritten
  <2>4. /\ row.status = "available" /\ AbsentRow.status = "absent"
        /\ row.token = AbsentRow.token /\ row.unconfirmed = AbsentRow.unconfirmed
        /\ row.executions = AbsentRow.executions /\ row.effect = AbsentRow.effect
    BY DEF AbsentRow
  <2> HIDE DEF row
  <2>5. UnheldMove(t)
    BY <2>1, <2>2, <2>3, <2>4 DEF UnheldMove, Unclaimed
  <2> QED BY <2>2, <2>3, <2>5 DEF RowMove
<1>2. ASSUME NEW t \in Task, RecordConditionFailure(t) PROVE RowMove
  <2> DEFINE next == IF tasks[t].conditions + 1 >= MaxAttemptsPerTask
                     THEN "blocked" ELSE tasks[t].status
             row == [tasks[t] EXCEPT !.conditions = tasks[t].conditions + 1,
                                     !.status = next]
  <2>1. tasks[t].status \in Unclaimed /\ tasks[t] \in Row
    BY <1>2, <1>0 DEF RecordConditionFailure, TypeOK
  <2>2. tasks' = [tasks EXCEPT ![t] = row] /\ leases' = leases /\ clock' = clock
    BY <1>2 DEF RecordConditionFailure, Write
  <2>3. next \in Unclaimed \cup {"blocked"}
    BY <2>1
  <2> HIDE DEF next
  <2>4. OthersKept(t) /\ tasks'[t] = row
    BY <1>0, <2>2, RowRewritten
  <2>5. /\ row.status = next /\ row.token = tasks[t].token
        /\ row.unconfirmed = tasks[t].unconfirmed
        /\ row.executions = tasks[t].executions /\ row.effect = tasks[t].effect
    BY <2>1 DEF Row
  <2> HIDE DEF row
  <2>6. UnheldMove(t)
    BY <2>1, <2>2, <2>3, <2>4, <2>5 DEF UnheldMove
  <2> QED BY <2>2, <2>4, <2>6 DEF RowMove
<1>3. ASSUME NEW w \in Worker, NEW t \in Task, NEW ttl \in TTL, Claim(w, t, ttl)
      PROVE  RowMove
  <2> DEFINE token == tasks[t].token + 1
             row == [tasks[t] EXCEPT !.status = "claimed", !.attempts = @ + 1,
                                     !.token = token, !.owner = w,
                                     !.expiry = clock + ttl]
             lease == [task |-> t, worker |-> w, token |-> token, expires |-> clock + ttl]
  <2>1. /\ tasks' = [tasks EXCEPT ![t] = row] /\ leases' = leases \cup {lease}
        /\ clock' = clock /\ Eligible(t) /\ tasks[t] \in Row
    BY <1>3, <1>0 DEF Claim, Write, TypeOK
  <2>2. OthersKept(t) /\ tasks'[t] = row
    BY <1>0, <2>1, RowRewritten
  <2>3. lease.task = t /\ lease.token = token
    OBVIOUS
  <2>4. /\ row.status = "claimed" /\ row.token = token /\ row.expiry > clock
        /\ row.unconfirmed = tasks[t].unconfirmed
        /\ row.executions = tasks[t].executions /\ row.effect = tasks[t].effect
    BY <2>1, <1>0, ShapeAssumption DEF Row, TypeOK
  <2> HIDE DEF row, lease
  <2>5. GrantMove(t)
    BY <2>1, <2>2, <2>3, <2>4 DEF GrantMove
  <2> QED BY <2>1, <2>2, <2>5 DEF RowMove
<1>4. ASSUME NEW l \in leases, NEW ttl \in TTL, Renew(l, ttl) PROVE RowMove
  <2> DEFINE row == [tasks[l.task] EXCEPT !.expiry = clock + ttl]
             fresh == [l EXCEPT !.expires = clock + ttl]
  <2>1. Owned(l, Engaged) /\ tasks[l.task].status = "claimed"
    BY <1>4, HoldsIsOwned DEF Renew, Holds, Owned
  <2>2. tasks[l.task] \in Row /\ l \in Lease
    BY <2>1, HolderFacts
  <2>3. /\ row.status = "claimed" /\ row.token = tasks[l.task].token
        /\ row.unconfirmed = tasks[l.task].unconfirmed
        /\ row.executions = tasks[l.task].executions
        /\ row.effect = tasks[l.task].effect
        /\ fresh.task = l.task /\ fresh.token = l.token
    BY <2>1, <2>2 DEF Row, Lease
  <2>4. tasks' = [tasks EXCEPT ![l.task] = row] /\ leases' = leases \cup {fresh}
        /\ clock' = clock
    BY <1>4 DEF Renew, Write
  <2> HIDE DEF row, fresh
  <2> QED BY <2>1, <2>3, <2>4, OwnerRewrites
<1>5. ASSUME NEW l \in leases, NEW outcome \in {"released", "failed"},
             FinishAttempt(l, outcome)
      PROVE  RowMove
  <2> DEFINE next == IF tasks[l.task].unconfirmed # NoRequest THEN "blocked"
                     ELSE IF tasks[l.task].attempts >= MaxAttemptsPerTask THEN "failed"
                     ELSE "available"
             row == [tasks[l.task] EXCEPT !.status = next, !.owner = NoWorker,
                                          !.expiry = NoExpiry]
  <2>1. Owned(l, Engaged) /\ tasks[l.task].status = "claimed"
    BY <1>5, HoldsIsOwned DEF FinishAttempt, Holds, Owned
  <2>2. tasks[l.task] \in Row
    BY <2>1, HolderFacts
  <2>3. tasks' = [tasks EXCEPT ![l.task] = row] /\ leases' = leases /\ clock' = clock
    BY <1>5 DEF FinishAttempt, Write
  <2>4. next # "absent"
    OBVIOUS
  <2> HIDE DEF next
  <2>5. /\ row.status = next /\ row.token = tasks[l.task].token
        /\ row.unconfirmed = tasks[l.task].unconfirmed
        /\ row.executions = tasks[l.task].executions
        /\ row.effect = tasks[l.task].effect
    BY <2>2 DEF Row
  <2> HIDE DEF row
  <2> QED BY <2>1, <2>3, <2>4, <2>5, OwnerRewrites
<1>6. ASSUME NEW l \in leases, NEW next \in Worker, NEW body \in Result \cup {NoResult},
             Handoff(l, next, body)
      PROVE  RowMove
  <2> DEFINE status == IF body = NoResult THEN "handoff" ELSE "partial"
             row == [tasks[l.task] EXCEPT
                        !.status = status, !.owner = NoWorker, !.expiry = NoExpiry,
                        !.result = IF body = NoResult THEN @ ELSE body]
  <2>1. Owned(l, Engaged) /\ tasks[l.task].status = "claimed"
    BY <1>6, HoldsIsOwned DEF Handoff, Holds, Owned
  <2>2. tasks[l.task] \in Row
    BY <2>1, HolderFacts
  <2>3. tasks' = [tasks EXCEPT ![l.task] = row] /\ leases' = leases /\ clock' = clock
    BY <1>6 DEF Handoff, Write
  <2>4. status # "absent"
    OBVIOUS
  <2> HIDE DEF status
  <2>5. /\ row.status = status /\ row.token = tasks[l.task].token
        /\ row.unconfirmed = tasks[l.task].unconfirmed
        /\ row.executions = tasks[l.task].executions
        /\ row.effect = tasks[l.task].effect
    BY <2>2 DEF Row
  <2> HIDE DEF row
  <2> QED BY <2>1, <2>3, <2>4, <2>5, OwnerRewrites
<1>7. ASSUME NEW l \in leases, NEW q \in Request, BeginExecution(l, q) PROVE RowMove
  <2> DEFINE row == [tasks[l.task] EXCEPT !.unconfirmed = q, !.executions = @ + 1]
  <2>1. Owned(l, Engaged) /\ tasks[l.task].status = "claimed"
    BY <1>7, HoldsIsOwned DEF BeginExecution, Holds, Owned
  <2>2. tasks[l.task] \in Row
    BY <2>1, HolderFacts
  <2>3. /\ tasks' = [tasks EXCEPT ![l.task] = row] /\ leases' = leases /\ clock' = clock
        /\ tasks[l.task].unconfirmed = NoRequest
    BY <1>7 DEF BeginExecution, Write
  <2>4. /\ row.status = "claimed" /\ row.token = tasks[l.task].token
        /\ row.effect = tasks[l.task].effect
    BY <2>1, <2>2 DEF Row
  <2> HIDE DEF row
  <2> QED BY <2>1, <2>3, <2>4, OwnerRewrites
<1>8. ASSUME NEW l \in leases, NEW q \in Request, ConfirmExecution(l, q) PROVE RowMove
  <2> DEFINE row == [tasks[l.task] EXCEPT !.unconfirmed = NoRequest]
  <2>1. Owned(l, Engaged) /\ tasks[l.task].status = "claimed"
    BY <1>8, HoldsIsOwned DEF ConfirmExecution, Holds, Owned
  <2>2. tasks[l.task] \in Row
    BY <2>1, HolderFacts
  <2>3. tasks' = [tasks EXCEPT ![l.task] = row] /\ leases' = leases /\ clock' = clock
    BY <1>8 DEF ConfirmExecution, Write
  <2>4. /\ row.status = "claimed" /\ row.token = tasks[l.task].token
        /\ row.unconfirmed = NoRequest /\ row.executions = tasks[l.task].executions
        /\ row.effect = tasks[l.task].effect
    BY <2>1, <2>2 DEF Row
  <2> HIDE DEF row
  <2> QED BY <2>1, <2>3, <2>4, OwnerRewrites
<1>9. ASSUME NEW l \in leases, NEW r, NEW effect, Owned(l, Engaged),
             Completed(l, r, effect), leases' = leases, clock' = clock,
             tasks[l.task].status = "submitting" => applied /\ r = tasks[l.task].result,
             applied \/ effect = FALSE
      PROVE  RowMove
  <2> DEFINE row == [tasks[l.task] EXCEPT !.status = "completed", !.result = r,
                                          !.effect = effect]
  <2>1. tasks[l.task] \in Row /\ l.task \in Task
    BY <1>9, HolderFacts
  <2>2. tasks' = [tasks EXCEPT ![l.task] = row]
    BY <1>9 DEF Completed
  <2>3. /\ row.status = "completed" /\ row.token = tasks[l.task].token
        /\ row.unconfirmed = tasks[l.task].unconfirmed
        /\ row.executions = tasks[l.task].executions /\ row.result = r
        /\ row.effect = effect
    BY <2>1 DEF Row
  <2> HIDE DEF row
  <2> QED BY <1>9, <2>2, <2>3, OwnerRewrites
<1>10. ASSUME NEW l \in leases, NEW r \in Result, SubmitFact(l, r) PROVE RowMove
  <2>1. Owned(l, Engaged) /\ tasks[l.task].status = "claimed"
    BY <1>10, HoldsIsOwned DEF SubmitFact, Holds, Owned
  <2> QED BY <1>9, <1>10, <2>1 DEF SubmitFact
<1>11. ASSUME NEW l \in leases, NEW r \in Result, SubmitIntent(l, r) PROVE RowMove
  <2> DEFINE row == [tasks[l.task] EXCEPT !.status = "submitting", !.result = r]
  <2>1. Owned(l, Engaged) /\ tasks[l.task].status = "claimed"
    BY <1>11, HoldsIsOwned DEF SubmitIntent, Holds, Owned
  <2>2. tasks[l.task] \in Row /\ l.task \in Task
    BY <2>1, HolderFacts
  <2>3. tasks' = [tasks EXCEPT ![l.task] = row] /\ leases' = leases /\ clock' = clock
    BY <1>11, <1>0, <2>2 DEF SubmitIntent, TypeOK
  <2>4. /\ row.status = "submitting" /\ row.token = tasks[l.task].token
        /\ row.unconfirmed = tasks[l.task].unconfirmed
        /\ row.executions = tasks[l.task].executions
        /\ row.effect = tasks[l.task].effect
    BY <2>2 DEF Row
  <2> HIDE DEF row
  <2> QED BY <2>1, <2>3, <2>4, OwnerRewrites
<1>12. CASE PublishCommit
  <2>1. CASE Owned(writer, {"claimed", "submitting"})
    <3>1. writer \in leases /\ Owned(writer, Engaged)
      BY <1>0, <1>12, <2>1, HoldsIsOwned DEF PublishCommit, TypeOK
    <3> QED BY <1>9, <1>12, <2>1, <3>1 DEF PublishCommit
  <2>2. CASE ~Owned(writer, {"claimed", "submitting"})
    BY <1>12, <2>2 DEF PublishCommit, RowMove
  <2> QED BY <2>1, <2>2
<1>13. ASSUME tasks' = tasks, leases' = leases PROVE RowMove
  BY <1>13 DEF RowMove
<1> QED
  BY <1>1, <1>2, <1>3, <1>4, <1>5, <1>6, <1>7, <1>8, <1>10, <1>11, <1>12, <1>13
     DEF Next, LeaseStep, Release, Fail, PublishBegin, PublishApply, PublishRefused,
         Crash, Tick, vars

-----------------------------------------------------------------------------
(* The properties *)

\* Time never runs backwards, whatever the step.
LEMMA ClockMonotone ==
  ASSUME HistoryInv, [Next]_vars PROVE clock \in Nat /\ clock' \in Nat /\ clock <= clock'
<1>1. clock \in Nat
  BY DEF HistoryInv, TypeOK
<1>2. clock' = clock \/ clock' = clock + 1
  BY DEF Next, LeaseStep, Release, Fail, Enqueue, RecordConditionFailure, Claim, Renew,
     FinishAttempt, Handoff, BeginExecution, ConfirmExecution, SubmitFact, SubmitIntent,
     PublishBegin, PublishApply, PublishRefused, PublishCommit, Crash, Tick, Write, vars
<1> QED
  BY <1>1, <1>2

\* No move touches a finished row.
LEMMA RowStaysFinal ==
  ASSUME HistoryInv, [Next]_vars, NEW t \in Task, tasks[t].status \in Terminal
  PROVE  tasks'[t] = tasks[t]
<1>1. ASSUME UnheldMove(t) \/ GrantMove(t) \/ OwnerMove(t) PROVE FALSE
  BY <1>1 DEF UnheldMove, GrantMove, OwnerMove, Eligible, Owned, Terminal, Unclaimed,
     Engaged
<1> QED
  BY <1>1, StepMoves DEF RowMove, OthersKept

\* Finished rows are final, for every ledger.
THEOREM TerminalRowsFinal == Spec => TerminalIsFinal
<1>1. HistoryInv /\ [Next]_vars
      => \A t \in Task : tasks[t].status \in Terminal => tasks'[t] = tasks[t]
  BY RowStaysFinal
<1> QED
  BY <1>1, AlwaysHistory, PTL DEF Spec, TerminalIsFinal

\* A publication intent is only ever completed, by its own generation.
THEOREM IntentsFailClosed == Spec => IntentFailsClosed
<1>1. ASSUME HistoryInv, [Next]_vars
      PROVE  \A t \in Task : tasks[t].status = "submitting" =>
                /\ tasks'[t].status \in {"submitting", "completed"}
                /\ tasks'[t].token = tasks[t].token
                /\ tasks'[t].result = tasks[t].result
  <2> SUFFICES ASSUME NEW t \in Task, tasks[t].status = "submitting"
               PROVE  /\ tasks'[t].status \in {"submitting", "completed"}
                      /\ tasks'[t].token = tasks[t].token
                      /\ tasks'[t].result = tasks[t].result
    OBVIOUS
  <2>1. ~UnheldMove(t) /\ ~GrantMove(t)
    BY DEF UnheldMove, GrantMove, Eligible, Unclaimed
  <2> QED
    BY <1>1, <2>1, StepMoves DEF RowMove, OthersKept, OwnerMove
<1> QED
  BY <1>1, AlwaysHistory, PTL DEF Spec, IntentFailsClosed

\* An unconfirmed external request pins its task to its own generation.
THEOREM UnconfirmedNeverResent == Spec => NoBlindResend
<1> DEFINE Pinned(t) ==
      /\ tasks'[t].token = tasks[t].token
      /\ tasks'[t].executions = tasks[t].executions
      /\ tasks'[t].unconfirmed # tasks[t].unconfirmed =>
             /\ tasks'[t].unconfirmed = NoRequest
             /\ LiveGeneration(t, tasks[t].token)
<1>1. ASSUME HistoryInv, [Next]_vars
      PROVE  \A t \in Task : tasks[t].unconfirmed # NoRequest => Pinned(t)
  <2> SUFFICES ASSUME NEW t \in Task, tasks[t].unconfirmed # NoRequest
               PROVE  Pinned(t)
    OBVIOUS
  <2>1. ASSUME OwnerMove(t) PROVE Pinned(t)
    <3>1. PICK l \in leases : l.task = t /\ Owned(l, Engaged)
      BY <2>1 DEF OwnerMove
    <3>2. tasks[t].status = "claimed" => LiveGeneration(t, tasks[t].token)
      BY <3>1 DEF Owned, Holds, LiveGeneration
    <3> QED BY <2>1, <3>2 DEF OwnerMove
  <2>2. ~GrantMove(t)
    BY DEF GrantMove, Eligible
  <2>3. ASSUME UnheldMove(t) \/ tasks'[t] = tasks[t] PROVE Pinned(t)
    BY <2>3 DEF UnheldMove
  <2> HIDE DEF Pinned
  <2> QED
    BY <1>1, <2>1, <2>2, <2>3, StepMoves DEF RowMove, OthersKept
<1> QED
  BY <1>1, AlwaysHistory, PTL DEF Spec, NoBlindResend

\* A generation that has lost its task never holds it again.
THEOREM GenerationsFenced == Spec => GenerationFenced
<1>1. ASSUME HistoryInv, [Next]_vars, NEW t \in Task, NEW k \in 1 .. tasks[t].token,
             LiveGeneration(t, k)'
      PROVE  LiveGeneration(t, k)
  <2>1. PICK l \in leases' : l.task = t /\ l.token = k /\ Holds(l)'
    BY <1>1 DEF LiveGeneration
  <2>2. /\ tasks'[t].owner = l.worker /\ tasks'[t].token = k
        /\ tasks'[t].expiry = l.expires /\ tasks'[t].status = "claimed"
        /\ l.expires > clock'
    BY <2>1 DEF Holds, Owned
  <2>3. TypeOK /\ TypeOK' /\ clock \in Nat /\ clock' \in Nat /\ clock <= clock'
    BY <1>1, HistoryStep, ClockMonotone DEF HistoryInv
  <2>4. l.expires \in Nat /\ tasks[t].token \in Nat
    BY <2>1, <2>3 DEF TypeOK, Lease, Row
  <2>5. ASSUME tasks'[t] = tasks[t], l \in leases PROVE LiveGeneration(t, k)
    BY <2>1, <2>2, <2>3, <2>4, <2>5 DEF LiveGeneration, Holds, Owned
  <2>6. ASSUME OwnerMove(t) PROVE LiveGeneration(t, k)
    <3>1. PICK o \in leases : o.task = t /\ Owned(o, Engaged)
      BY <2>6 DEF OwnerMove
    <3>2. tasks[t].token = k /\ tasks[t].status # "submitting"
      BY <2>2, <2>6 DEF OwnerMove
    <3> QED BY <3>1, <3>2 DEF Owned, Engaged, LiveGeneration, Holds
  <2>7. ~UnheldMove(t)
    BY <2>2 DEF UnheldMove, Unclaimed
  <2>8. ~GrantMove(t)
    BY <1>1, <2>2, <2>4 DEF GrantMove
  <2>9. ASSUME NEW u \in Task \ {t}, OthersKept(u), UnheldMove(u) \/ GrantMove(u) \/ OwnerMove(u)
        PROVE  LiveGeneration(t, k)
    <3>1. l \in leases
      BY <2>1, <2>9 DEF UnheldMove, GrantMove, OwnerMove
    <3> QED BY <2>5, <2>9, <3>1 DEF OthersKept
  <2> QED
    BY <1>1, <2>1, <2>5, <2>6, <2>7, <2>8, <2>9, StepMoves DEF RowMove
<1>2. ASSUME HistoryInv, [Next]_vars
      PROVE  \A t \in Task : \A k \in 1 .. tasks[t].token :
                ~LiveGeneration(t, k) => ~LiveGeneration(t, k)'
  BY <1>1, <1>2
<1> QED
  BY <1>2, AlwaysHistory, PTL DEF Spec, GenerationFenced

-----------------------------------------------------------------------------
(* Scopes and locks *)

\* No task is scoped at the root of the file system, where the separator the
\* SQL appends to the outer path matches nothing.
NoRootScope == \A t \in Task : Scope[t] \in Seq(STRING) /\ Scope[t] # <<>>

\* Away from the root, the SQL test is scopes_collide.
LEMMA SqlMeansCollide ==
  ASSUME NoRootScope, NEW t \in Task, NEW u \in Task, ScopesCollide(t, u)
  PROVE  SqlCollide(t, u)
  BY DEF NoRootScope, ScopesCollide, SqlCollide, Beneath, IsStrictPrefix

\* A task becomes busy only by a grant, and only next to idle neighbours; a
\* busy task keeps its generation.
LEMMA BusyStep ==
  ASSUME HistoryInv, [Next]_vars, NEW t \in Task, Busy(t)'
  PROVE  \/ Busy(t) /\ tasks'[t].token = tasks[t].token
         \/ ~Busy(t) /\ GrantMove(t) /\ OthersKept(t) /\ clock' = clock
<1>1. clock \in Nat /\ clock' \in Nat /\ clock <= clock' /\ TypeOK /\ TypeOK'
  BY ClockMonotone, HistoryStep DEF HistoryInv
<1>2. ASSUME tasks'[t] = tasks[t] PROVE Busy(t) /\ tasks'[t].token = tasks[t].token
  <2>1. tasks[t].expiry \in Nat
    BY <1>1 DEF TypeOK, Row
  <2> QED BY <1>1, <1>2, <2>1 DEF Busy
<1>3. ASSUME OwnerMove(t) PROVE Busy(t) /\ tasks'[t].token = tasks[t].token
  BY <1>3 DEF OwnerMove, Owned, Busy, Engaged
<1>4. ~UnheldMove(t)
  BY DEF UnheldMove, Busy, Unclaimed
<1>5. ASSUME GrantMove(t) PROVE ~Busy(t)
  <2>1. tasks[t].expiry \in Nat
    BY <1>1 DEF TypeOK, Row
  <2> QED BY <1>1, <1>5, <2>1 DEF GrantMove, Eligible, Busy, Unclaimed
<1> QED
  BY <1>2, <1>3, <1>4, <1>5, StepMoves DEF RowMove, OthersKept

\* Overlapping scopes are never busy together, for any set of tasks and any
\* number of workers.
THEOREM ScopesExclusive == NoRootScope => (Spec => []ScopeExclusion)
<1> SUFFICES ASSUME NoRootScope PROVE Spec => []ScopeExclusion
  OBVIOUS
<1>1. Init => ScopeExclusion
  BY DEF Init, ScopeExclusion, Busy, AbsentRow
<1>2. ASSUME HistoryInv, [Next]_vars, ScopeExclusion PROVE ScopeExclusion'
  <2> SUFFICES ASSUME NEW t \in Task, NEW u \in Task, t # u, ScopesCollide(t, u),
                      Busy(t)', Busy(u)'
               PROVE  FALSE
    BY DEF ScopeExclusion, ScopesCollide
  <2>1. ScopesCollide(u, t) /\ SqlCollide(t, u) /\ SqlCollide(u, t)
    BY SqlMeansCollide DEF ScopesCollide
  <2>2. ASSUME NEW a \in Task, NEW b \in Task, a # b, SqlCollide(b, a),
               ~Busy(a), GrantMove(a), OthersKept(a), Busy(b)'
        PROVE  FALSE
    <3>1. ~Busy(b)
      BY <2>2 DEF GrantMove, Eligible
    <3>2. GrantMove(b) /\ tasks'[b] = tasks[b]
      BY <1>2, <2>2, <3>1, BusyStep DEF OthersKept
    <3>3. tasks[b].token \in Nat
      BY <1>2 DEF HistoryInv, TypeOK, Row
    <3> QED
      BY <3>2, <3>3 DEF GrantMove
  <2>3. Busy(t) /\ Busy(u)
    BY <1>2, <2>1, <2>2, BusyStep
  <2> QED
    BY <1>2, <2>3 DEF ScopeExclusion
<1> QED
  BY <1>1, <1>2, AlwaysHistory, PTL DEF Spec

\* The ledger implements the fenced locks.
THEOREM LedgerImplementsLocks == NoRootScope => (Spec => ImplementsFencedLocks)
<1> SUFFICES ASSUME NoRootScope PROVE Spec => Locks!LocksSpec
  BY DEF ImplementsFencedLocks
<1> DEFINE issued == [t \in Task |-> tasks[t].token]
           held == [t \in Task |-> IF Busy(t) THEN tasks[t].token ELSE 0]
<1>1. Init => Locks!LocksInit
  BY DEF Init, Locks!LocksInit, Busy, AbsentRow
<1>2. ASSUME HistoryInv, [Next]_vars PROVE [Locks!LocksNext]_<<issued, held>>
  <2>1. \A t \in Task : tasks[t].token \in Nat
    BY <1>2 DEF HistoryInv, TypeOK, Row
  <2>2. ASSUME NEW t \in Task, ~Busy(t), Busy(t)', GrantMove(t), OthersKept(t), clock' = clock
        PROVE  Locks!Acquire(t)
    <3>1. held[t] = 0
      BY <2>2
    <3>2. \A c \in Task \ {t} : ScopesCollide(c, t) => held[c] = 0
      BY <2>2, SqlMeansCollide DEF GrantMove, Eligible
    <3>3. issued' = [issued EXCEPT ![t] = @ + 1]
      BY <2>2 DEF GrantMove, OthersKept
    <3>4. held' = [held EXCEPT ![t] = issued[t] + 1]
      BY <2>2 DEF GrantMove, OthersKept, Busy
    <3> QED BY <3>1, <3>2, <3>3, <3>4 DEF Locks!Acquire
  <2>3. ASSUME \A t \in Task : Busy(t)' => Busy(t),
               \A t \in Task : tasks'[t].token = tasks[t].token
        PROVE  \E S \in SUBSET Task : Locks!Vacate(S)
    <3> DEFINE S == {t \in Task : ~Busy(t)'}
    <3>1. held' = [t \in Task |-> IF t \in S THEN 0 ELSE held[t]]
      BY <2>3
    <3>2. issued' = issued
      BY <2>3
    <3> QED BY <3>1, <3>2 DEF Locks!Vacate
  <2>4. ASSUME NEW t \in Task, GrantMove(t), OthersKept(t), clock' = clock
        PROVE  Locks!Acquire(t)
    <3>1. Busy(t)' /\ tasks'[t].token # tasks[t].token
      BY <2>1, <2>4 DEF GrantMove, Busy
    <3>2. ~Busy(t)
      BY <1>2, <3>1, BusyStep
    <3> QED BY <2>2, <2>4, <3>1, <3>2
  <2>5. ASSUME \A t \in Task : tasks'[t].token = tasks[t].token
        PROVE  \E S \in SUBSET Task : Locks!Vacate(S)
    <3>1. \A t \in Task : ~GrantMove(t)
      BY <2>1, <2>5 DEF GrantMove
    <3>2. \A t \in Task : Busy(t)' => Busy(t)
      BY <1>2, <3>1, BusyStep
    <3> QED BY <2>3, <2>5, <3>2
  <2>6. ASSUME NEW t \in Task, OthersKept(t), UnheldMove(t) \/ OwnerMove(t)
        PROVE  \A u \in Task : tasks'[u].token = tasks[u].token
    BY <2>6 DEF OthersKept, UnheldMove, OwnerMove
  <2>7. RowMove
    BY <1>2, StepMoves
  <2> HIDE DEF issued, held
  <2>8. Locks!LocksNext
    BY <2>4, <2>5, <2>6, <2>7 DEF RowMove, Locks!LocksNext
  <2> QED BY <2>8
<1>3. HistoryInv /\ [Next]_vars => [Locks!LocksNext]_(Locks!lockVars)
  BY <1>2 DEF Locks!lockVars
<1> QED
  BY <1>1, <1>3, AlwaysHistory, PTL DEF Spec, Locks!LocksSpec

-----------------------------------------------------------------------------
(* Dependencies *)

\* A task is granted only on top of finished work, and finished work is final.
THEOREM DependenciesAlwaysFirst == Spec => []DependenciesFirst
<1>1. Init => DependenciesFirst
  BY DEF Init, DependenciesFirst, AbsentRow
<1>2. ASSUME HistoryInv, [Next]_vars, DependenciesFirst PROVE DependenciesFirst'
  <2>1. \A t \in Task : /\ tasks[t].attempts = tasks[t].token
                        /\ tasks'[t].attempts = tasks'[t].token
    BY <1>2, HistoryStep DEF HistoryInv, AttemptHistory
  <2>2. \A t \in Task : tasks[t].status = "completed" => tasks'[t].status = "completed"
    BY <1>2, RowStaysFinal DEF Terminal
  <2>3. SUFFICES ASSUME NEW t \in Task, tasks'[t].token > 0, NEW d \in Deps[t]
                 PROVE  d \in Task /\ tasks[d].status = "completed"
    BY <2>1, <2>2 DEF DependenciesFirst
  <2>4. d \in Task
    BY <2>3, ShapeAssumption
  <2>5. CASE tasks'[t].token = tasks[t].token
    BY <1>2, <2>1, <2>3, <2>4, <2>5 DEF DependenciesFirst
  <2>6. CASE tasks'[t].token # tasks[t].token
    <3>1. GrantMove(t)
      BY <1>2, <2>6, StepMoves DEF RowMove, OthersKept, UnheldMove, OwnerMove
    <3> QED BY <2>3, <2>4, <3>1 DEF GrantMove, Eligible
  <2> QED BY <2>5, <2>6
<1> QED
  BY <1>1, <1>2, AlwaysHistory, PTL DEF Spec

-----------------------------------------------------------------------------
(* Publication *)

\* The calls between submit()'s transactions, and the one inside the second.
InFlight == intents \cup ({writer} \ {NoLease})

\* Every call in flight has left its task submitting and is the only one for
\* that task; so bytes it leaves behind, by returning or by dying, belong to a
\* submitting row, and effect_applied is set by the one call that wrote them.
PublicationInv ==
    /\ EffectAuthority
    /\ \A t \in Task : tasks[t].effect => tasks[t].status = "completed"
    /\ \A l \in InFlight : tasks[l.task].status = "submitting"
    /\ \A k, l \in intents : k.task = l.task => k = l
    /\ writer # NoLease => \A l \in intents : l.task # writer.task
    /\ applied => writer # NoLease /\ target[writer.task] = "written"

\* A transaction other than the publication's own moves no submitting row and
\* sets no effect_applied.
LEMMA QuietRows ==
  ASSUME HistoryInv, [Next]_vars, ~applied, NEW t \in Task
  PROVE  /\ tasks[t].status \in Terminal \cup {"submitting"} => tasks'[t] = tasks[t]
         /\ tasks'[t].effect \in {tasks[t].effect, FALSE}
<1>1. tasks'[t] = tasks[t] \/ UnheldMove(t) \/ GrantMove(t) \/ OwnerMove(t)
  BY StepMoves DEF RowMove, OthersKept
<1>2. tasks[t].status = "submitting" => tasks'[t] = tasks[t]
  BY <1>1 DEF UnheldMove, GrantMove, OwnerMove, Eligible, Unclaimed
<1>3. tasks'[t].effect \in {tasks[t].effect, FALSE}
  BY <1>1 DEF UnheldMove, GrantMove, OwnerMove
<1> QED
  BY <1>2, <1>3, RowStaysFinal

LEMMA PublicationStep ==
  ASSUME HistoryInv, [Next]_vars, PublicationInv PROVE PublicationInv'
<1>0. TypeOK /\ \A l \in InFlight : l \in Lease /\ l.task \in Task
  BY DEF HistoryInv, TypeOK, InFlight, Lease
<1>1. ASSUME UNCHANGED <<intents, writer, applied, target>>, ~applied PROVE PublicationInv'
  <2>1. EffectAuthority'
    BY <1>1, QuietRows DEF PublicationInv, EffectAuthority, Terminal
  <2>2. \A t \in Task : tasks'[t].effect => tasks'[t].status = "completed"
    BY <1>1, QuietRows DEF PublicationInv, Terminal
  <2>3. \A l \in InFlight : tasks'[l.task].status = "submitting"
    BY <1>0, <1>1, QuietRows DEF PublicationInv
  <2> QED BY <1>1, <2>1, <2>2, <2>3 DEF PublicationInv, InFlight
<1>2. ASSUME NEW l \in leases, NEW r \in Result, SubmitIntent(l, r) PROVE PublicationInv'
  <2>1. /\ l.task \in Task /\ tasks[l.task].status = "claimed" /\ writer = NoLease
        /\ l.task \in Task /\ ~applied /\ l \in Lease /\ l # NoLease
    BY <1>2, HolderFacts, HoldsIsOwned, NoLeaseAssumption
       DEF SubmitIntent, Holds, Owned, Unlocked, PublicationInv
  <2>2. /\ OthersKept(l.task) /\ tasks'[l.task].status = "submitting"
        /\ tasks'[l.task].effect = tasks[l.task].effect
    BY <1>0, <1>2, <2>1 DEF SubmitIntent, TypeOK, OthersKept, Row
  <2>3. ~tasks[l.task].effect
    BY <2>1 DEF PublicationInv
  <2>4. UNCHANGED <<writer, applied, target>> /\ intents' = intents \cup {l}
    BY <1>2 DEF SubmitIntent
  <2>5. EffectAuthority'
    BY <2>1, <2>2, <2>3, <2>4 DEF OthersKept, PublicationInv, EffectAuthority
  <2>6. \A t \in Task : tasks'[t].effect => tasks'[t].status = "completed"
    BY <2>1, <2>2, <2>3 DEF OthersKept, PublicationInv
  <2>7. \A k \in intents : k.task # l.task
    BY <2>1 DEF PublicationInv, InFlight
  <2>8. \A k \in intents' : tasks'[k.task].status = "submitting"
    BY <1>0, <2>1, <2>2, <2>4, <2>7 DEF OthersKept, PublicationInv, InFlight
  <2> QED
    BY <2>1, <2>4, <2>5, <2>6, <2>7, <2>8 DEF PublicationInv, InFlight
<1>3. ASSUME NEW l \in leases, PublishBegin(l) PROVE PublicationInv'
  <2>1. /\ l \in intents /\ intents' = intents \ {l} /\ writer = NoLease
        /\ writer' \in {l, NoLease} /\ UNCHANGED <<tasks, applied, target>> /\ ~applied
    BY <1>3 DEF PublishBegin, Unlocked, PublicationInv
  <2> QED
    BY <2>1 DEF PublicationInv, InFlight, EffectAuthority
<1>4. CASE PublishApply
  <2>1. /\ writer \in InFlight /\ writer.task \in Task
        /\ tasks[writer.task].status = "submitting"
    BY <1>0, <1>4 DEF PublishApply, InFlight, PublicationInv
  <2>2. /\ target'[writer.task] = "written"
        /\ \A t \in Task \ {writer.task} : target'[t] = target[t]
    BY <1>0, <1>4, <2>1 DEF PublishApply, TypeOK
  <2>3. EffectAuthority'
    BY <1>4, <2>1, <2>2 DEF PublishApply, PublicationInv, EffectAuthority
  <2> QED
    BY <1>4, <2>2, <2>3 DEF PublishApply, PublicationInv, InFlight
<1>5. CASE PublishRefused
  <2>1. /\ writer \in InFlight /\ writer.task \in Task /\ writer' = NoLease /\ ~applied'
        /\ tasks[writer.task].status = "submitting" /\ tasks' = tasks /\ intents' = intents
        /\ \A t \in Task \ {writer.task} : target'[t] = target[t]
    BY <1>0, <1>5 DEF PublishRefused, InFlight, PublicationInv, TypeOK
  <2>2. EffectAuthority'
    BY <2>1 DEF PublicationInv, EffectAuthority
  <2> QED
    BY <2>1, <2>2 DEF PublicationInv, InFlight
<1>6. CASE PublishCommit
  <2>1. /\ writer \in InFlight /\ writer.task \in Task /\ writer \in leases
        /\ tasks[writer.task].status = "submitting" /\ target[writer.task] = "written"
        /\ writer' = NoLease /\ applied' = FALSE /\ UNCHANGED <<intents, target>>
    BY <1>0, <1>6 DEF PublishCommit, InFlight, PublicationInv, TypeOK
  <2>2. CASE ~Owned(writer, {"claimed", "submitting"})
    BY <1>6, <2>1, <2>2 DEF PublishCommit, PublicationInv, InFlight, EffectAuthority
  <2>3. CASE Owned(writer, {"claimed", "submitting"})
    <3>1. /\ OthersKept(writer.task) /\ tasks'[writer.task].status = "completed"
          /\ tasks'[writer.task].effect = TRUE
      <4> DEFINE row == [tasks[writer.task] EXCEPT !.status = "completed",
                            !.result = tasks[writer.task].result, !.effect = TRUE]
      <4>1. tasks' = [tasks EXCEPT ![writer.task] = row]
        BY <1>6, <2>3 DEF PublishCommit, Completed
      <4>2. tasks[writer.task] \in Row
        BY <1>0, <2>1 DEF TypeOK
      <4>3. row.status = "completed" /\ row.effect = TRUE
        BY <4>2 DEF Row
      <4> HIDE DEF row
      <4> QED BY <1>0, <2>1, <4>1, <4>3, RowRewritten
    <3>2. EffectAuthority'
      BY <2>1, <3>1 DEF OthersKept, PublicationInv, EffectAuthority
    <3>3. \A l \in intents : tasks'[l.task].status = "submitting"
      BY <1>0, <1>6, <2>1, <3>1 DEF OthersKept, PublicationInv, InFlight, PublishCommit
    <3>4. \A t \in Task : tasks'[t].effect => tasks'[t].status = "completed"
      BY <2>1, <3>1 DEF OthersKept, PublicationInv
    <3> QED
      BY <2>1, <3>2, <3>3, <3>4 DEF PublicationInv, InFlight
  <2> QED BY <2>2, <2>3
<1>7. ASSUME NEW w \in Worker, Crash(w) PROVE PublicationInv'
  <2>1. intents' \subseteq intents /\ tasks' = tasks
    BY <1>7 DEF Crash
  <2>2. CASE writer # NoLease /\ writer.worker = w
    <3>1. /\ writer \in InFlight /\ writer.task \in Task /\ writer' = NoLease /\ ~applied'
          /\ tasks[writer.task].status = "submitting"
          /\ \A t \in Task \ {writer.task} : target'[t] = target[t]
      BY <1>0, <1>7, <2>2 DEF Crash, InFlight, PublicationInv, TypeOK
    <3>2. EffectAuthority'
      BY <2>1, <3>1 DEF PublicationInv, EffectAuthority
    <3> QED
      BY <2>1, <3>1, <3>2 DEF PublicationInv, InFlight
  <2>3. CASE ~(writer # NoLease /\ writer.worker = w)
    <3>1. UNCHANGED <<writer, applied, target>>
      BY <1>7, <2>3 DEF Crash
    <3> QED
      BY <2>1, <3>1 DEF PublicationInv, InFlight, EffectAuthority
  <2> QED BY <2>2, <2>3
<1>8. ASSUME UNCHANGED <<tasks, intents, writer, applied, target>> PROVE PublicationInv'
  BY <1>8 DEF PublicationInv, InFlight, EffectAuthority
<1>9. ASSUME writer = NoLease PROVE ~applied
  BY <1>9 DEF PublicationInv
<1> QED
  BY <1>1, <1>2, <1>3, <1>4, <1>5, <1>6, <1>7, <1>8, <1>9
     DEF Next, LeaseStep, Release, Fail, Enqueue, RecordConditionFailure, Claim, Renew,
         FinishAttempt, Handoff, BeginExecution, ConfirmExecution, SubmitFact, Unlocked,
         Write, Tick, vars

\* The file system and the ledger agree, for every interleaving of claims,
\* publications, crashes and the clock.
THEOREM EffectsAuthoritative == Spec => []EffectAuthority
<1>1. Init => PublicationInv
  BY DEF Init, PublicationInv, InFlight, EffectAuthority, AbsentRow
<1>2. PublicationInv => EffectAuthority
  BY DEF PublicationInv
<1> QED
  BY <1>1, <1>2, PublicationStep, AlwaysHistory, PTL DEF Spec
=============================================================================
