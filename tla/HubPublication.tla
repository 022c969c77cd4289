---------------------------- MODULE HubPublication ----------------------------
(***************************************************************************)
(* The Hub adapter (hub_client/client.py) and the optional mirror          *)
(* (swarm/hub_mirror.py): operators and the mirror's daemon thread publish *)
(* artifacts, each with a record file and a lock file on disk, and report  *)
(* the use of fetched ones. A process may die between any two writes, and  *)
(* leaves its lock; the network may lose a request, or lose the answer to  *)
(* one that arrived; the queue of the mirror is bounded and in memory.     *)
(* External: the Hub, what an approval approves, and the operator who      *)
(* removes the lock of a dead process by hand.                             *)
(***************************************************************************)
EXTENDS Naturals, Sequences

CONSTANTS
    Asset,        \* the artifacts
    Operator,     \* processes that call the adapter
    Mirror,       \* the thread of the mirror
    Nobody, Gone, \* a lock nobody holds, and one whose holder died
    NoAsset,
    MaxPending    \* the capacity of the queue

ASSUME ConstantsAssumption ==
    /\ Mirror \notin Operator
    /\ Nobody \notin Operator \cup {Mirror, Gone}
    /\ Gone \notin Operator \cup {Mirror}
    /\ NoAsset \notin Asset
    /\ MaxPending \in Nat \ {0}

VARIABLES
    record,    \* the record file of every artifact
    lock,      \* its lock file
    delivered, \* how often its publication reached the Hub
    reuse,     \* its report file
    reported,  \* how often its report reached the Hub
    proc,      \* what every process is doing
    queue, stopped, offer  \* the mirror: its queue, close(), an enqueue() under way

files == <<record, lock, reuse>>
hub == <<delivered, reported>>
mirror == <<queue, stopped, offer>>
vars == <<files, hub, proc, mirror>>

Publisher == Operator \cup {Mirror}

\* "torn": opened and not yet written. "marker": the pending record of the
\* mirror, with an empty payload. "received": candidate and promoted too.
Saved == {"pending", "unknown", "received", "rejected"}
RecordState == Saved \cup {"absent", "torn", "marker"}
ReuseState == {"absent", "torn", "unknown", "recorded"}
Preparing == {"prepare", "open", "mark", "assess", "compare", "settle"}
Publishing == {"lock", "read", "unknown", "send", "outcome", "unlock"}
Reporting == {"claim", "start", "post", "receipt"}
Salvaging == {"salvage", "overwrite"}
Step == {"idle"} \cup Preparing \cup Publishing \cup Reporting \cup Salvaging

Idle == [at |-> "idle", asset |-> NoAsset, plan |-> "pending", raised |-> FALSE]

Init ==
    /\ record = [a \in Asset |-> "absent"]
    /\ lock = [a \in Asset |-> Nobody]
    /\ delivered = [a \in Asset |-> 0]
    /\ reuse = [a \in Asset |-> "absent"]
    /\ reported = [a \in Asset |-> 0]
    /\ proc = [p \in Publisher |-> Idle]
    /\ queue = <<>>
    /\ stopped = FALSE
    /\ offer = NoAsset

-----------------------------------------------------------------------------
(* Steps of a process *)

At(p, step) == proc[p].at = step
On(p) == proc[p].asset
Pending(state) == state \in {"pending", "marker"}

Begin(p, a, step) == proc' = [proc EXCEPT ![p] = [Idle EXCEPT !.at = step, !.asset = a]]
Go(p, step) == proc' = [proc EXCEPT ![p].at = step]
Plan(p, step, state) == proc' = [proc EXCEPT ![p].at = step, ![p].plan = state]
Done(p) == proc' = [proc EXCEPT ![p] = Idle]

\* An exception in publish(): the mirror looks at the record again. One that
\* reaches the loop of the thread is swallowed there.
RaiseOld(p) == IF p = Mirror THEN Go(p, "dead") ELSE Done(p)
Raise(p) == Done(p)
PublishRaises(p) == IF p = Mirror THEN Go(p, "salvage") ELSE Raise(p)

\* The write of a process: a file is replaced as a whole.
Write(a, state) == record' = [record EXCEPT ![a] = state]

-----------------------------------------------------------------------------
(* HubClient.prepare(), and the preparation of the mirror *)

Prepare(o, a) ==
    /\ At(o, "idle")
    /\ IF record[a] = "absent"
       THEN Write(a, "torn") /\ Begin(o, a, "prepare")
       ELSE UNCHANGED <<record, proc>>
    /\ UNCHANGED <<lock, reuse, hub, mirror>>

WriteRecord(o) ==
    /\ At(o, "prepare")
    /\ Write(On(o), "pending")
    /\ Done(o)
    /\ UNCHANGED <<lock, reuse, hub, mirror>>

\* _run() and _publish(): a record that exists, in whatever state, ends the
\* matter; so does a restart.
Take ==
    /\ At(Mirror, "idle") /\ ~stopped /\ queue # <<>>
    /\ queue' = Tail(queue)
    /\ Begin(Mirror, Head(queue), "open")
    /\ UNCHANGED <<files, hub, stopped, offer>>

OpenMarker ==
    /\ At(Mirror, "open")
    /\ \/ record[On(Mirror)] # "absent" /\ Done(Mirror) /\ UNCHANGED record
       \/ /\ record[On(Mirror)] = "absent"
          /\ Write(On(Mirror), "torn")
          /\ Go(Mirror, "mark")
    /\ UNCHANGED <<lock, reuse, hub, mirror>>

WriteMarker ==
    /\ At(Mirror, "mark")
    /\ Write(On(Mirror), "marker")
    /\ Go(Mirror, "assess")
    /\ UNCHANGED <<lock, reuse, hub, mirror>>

\* _prepare(): a bundle, a reason to refuse, or an exception.
Assess ==
    /\ At(Mirror, "assess")
    /\ \E state \in {"pending", "rejected", "unknown"} : Plan(Mirror, "compare", state)
    /\ UNCHANGED <<files, hub, mirror>>

\* _save_preparation(): reads, and only then writes.
Compare ==
    /\ At(Mirror, "compare")
    /\ IF record[On(Mirror)] = "marker" THEN Go(Mirror, "settle") ELSE Done(Mirror)
    /\ UNCHANGED <<files, hub, mirror>>

Settle ==
    /\ At(Mirror, "settle")
    /\ Write(On(Mirror), proc[Mirror].plan)
    /\ IF proc[Mirror].plan = "pending" THEN Go(Mirror, "lock") ELSE Done(Mirror)
    /\ UNCHANGED <<lock, reuse, hub, mirror>>

-----------------------------------------------------------------------------
(* HubClient.publish() *)

Publish(o, a) ==
    /\ At(o, "idle")
    /\ Begin(o, a, "lock")
    /\ UNCHANGED <<files, hub, mirror>>

Lock(p) ==
    /\ At(p, "lock")
    /\ \/ lock[On(p)] # Nobody /\ PublishRaises(p) /\ UNCHANGED lock
       \/ /\ lock[On(p)] = Nobody
          /\ lock' = [lock EXCEPT ![On(p)] = p]
          /\ Go(p, "read")
    /\ UNCHANGED <<record, reuse, hub, mirror>>

\* A record that is not pending is returned as it is; so is a pending one that
\* nobody approved, or for which there is no Hub or credential. A file that
\* cannot be read, and an approval of another payload, are exceptions.
SendableOld(state) == state \in {"pending", "unknown"}
Sendable(state) == state = "pending"

Unlock(p, raised) == proc' = [proc EXCEPT ![p].at = "unlock", ![p].raised = raised]

Read(p) ==
    /\ At(p, "read")
    /\ \/ Sendable(record[On(p)]) /\ Go(p, "unknown")
       \/ record[On(p)] \in Saved \cup {"marker"} /\ Unlock(p, FALSE)
       \/ record[On(p)] \in {"absent", "torn", "marker", "pending"} /\ Unlock(p, TRUE)
    /\ UNCHANGED <<files, hub, mirror>>

\* Unknown is on disk before the request is sent.
SaveUnknown(p) ==
    /\ At(p, "unknown")
    /\ Write(On(p), "unknown")
    /\ Go(p, "send")
    /\ UNCHANGED <<lock, reuse, hub, mirror>>

\* What the caller learns, and whether the Hub has the publication: only a
\* failed connection and a refusal say that it has not.
Answers ==
    {[state |-> "pending", arrived |-> FALSE], [state |-> "rejected", arrived |-> FALSE],
     [state |-> "unknown", arrived |-> FALSE], [state |-> "unknown", arrived |-> TRUE],
     [state |-> "received", arrived |-> TRUE]}

\* The state saved for an answer.
OutcomeOld(answer) == IF answer.state = "unknown" THEN "pending" ELSE answer.state
Outcome(answer) == answer.state

Send(p) ==
    /\ At(p, "send")
    /\ \E answer \in Answers :
          /\ delivered' = [delivered EXCEPT ![On(p)] = @ + IF answer.arrived THEN 1 ELSE 0]
          /\ Plan(p, "outcome", Outcome(answer))
    /\ UNCHANGED <<files, reported, mirror>>

SaveOutcome(p) ==
    /\ At(p, "outcome")
    /\ Write(On(p), proc[p].plan)
    /\ Unlock(p, FALSE)
    /\ UNCHANGED <<lock, reuse, hub, mirror>>

\* The `finally' clause; an exception then leaves publish().
ReleaseLock(p) ==
    /\ At(p, "unlock")
    /\ lock' = [lock EXCEPT ![On(p)] = Nobody]
    /\ IF proc[p].raised THEN PublishRaises(p) ELSE Done(p)
    /\ UNCHANGED <<record, reuse, hub, mirror>>

\* The mirror, after an exception: it reads without the lock, and writes.
Salvage ==
    /\ At(Mirror, "salvage")
    /\ IF Pending(record[On(Mirror)]) THEN Go(Mirror, "overwrite") ELSE Raise(Mirror)
    /\ UNCHANGED <<files, hub, mirror>>

Overwrite ==
    /\ At(Mirror, "overwrite")
    /\ Write(On(Mirror), "unknown")
    /\ Done(Mirror)
    /\ UNCHANGED <<lock, reuse, hub, mirror>>

-----------------------------------------------------------------------------
(* HubClient.report_use(), for an asset fetched and adopted by the caller *)

Report(o, a) ==
    /\ At(o, "idle")
    /\ reuse[a] = "absent"
    /\ Begin(o, a, "claim")
    /\ UNCHANGED <<files, hub, mirror>>

ClaimReport(o) ==
    /\ At(o, "claim")
    /\ \/ reuse[On(o)] # "absent" /\ Raise(o) /\ UNCHANGED reuse
       \/ /\ reuse[On(o)] = "absent"
          /\ reuse' = [reuse EXCEPT ![On(o)] = "torn"]
          /\ Go(o, "start")
    /\ UNCHANGED <<record, lock, hub, mirror>>

StartReport(o) ==
    /\ At(o, "start")
    /\ reuse' = [reuse EXCEPT ![On(o)] = "unknown"]
    /\ Go(o, "post")
    /\ UNCHANGED <<record, lock, hub, mirror>>

\* Any failure leaves the record unknown, a failed connection too.
PostReport(o) ==
    /\ At(o, "post")
    /\ \E answer \in Answers :
          /\ reported' = [reported EXCEPT ![On(o)] = @ + IF answer.arrived THEN 1 ELSE 0]
          /\ Plan(o, "receipt", IF answer.state = "received" THEN "received" ELSE "unknown")
    /\ UNCHANGED <<files, delivered, mirror>>

SaveReport(o) ==
    /\ At(o, "receipt")
    /\ reuse' = [reuse EXCEPT ![On(o)] =
                     IF proc[o].plan = "received" THEN "recorded" ELSE "unknown"]
    /\ Done(o)
    /\ UNCHANGED <<record, lock, hub, mirror>>

-----------------------------------------------------------------------------
(* HubMirror.enqueue() and close() *)

Offer(a) ==
    /\ offer = NoAsset /\ ~stopped
    /\ offer' = a
    /\ UNCHANGED <<files, hub, proc, queue, stopped>>

\* put_nowait(): the queue may have been closed, or filled, since.
HasRoom == Len(queue) < MaxPending

Enqueue ==
    /\ offer # NoAsset
    /\ queue' = IF HasRoom THEN Append(queue, offer) ELSE queue
    /\ offer' = NoAsset
    /\ UNCHANGED <<files, hub, proc, stopped>>

Close ==
    /\ ~stopped
    /\ stopped' = TRUE
    /\ UNCHANGED <<files, hub, proc, queue, offer>>

-----------------------------------------------------------------------------
(* Failures *)

Orphaned(p) == [a \in Asset |-> IF lock[a] = p THEN Gone ELSE lock[a]]

\* An operator's process dies. Its next call is made by another process.
Crash(o) ==
    /\ ~At(o, "idle")
    /\ Done(o)
    /\ lock' = Orphaned(o)
    /\ UNCHANGED <<record, reuse, hub, mirror>>

\* The process of the mirror dies or exits, with its queue, and is started
\* again.
Restart ==
    /\ proc' = [proc EXCEPT ![Mirror] = Idle]
    /\ lock' = Orphaned(Mirror)
    /\ queue' = <<>> /\ stopped' = FALSE /\ offer' = NoAsset
    /\ UNCHANGED <<record, reuse, hub>>

\* A record cannot be written: the exception leaves the call, through the
\* `finally' clause when the lock is held.
WriteFails(p) ==
    /\ \/ At(p, "unknown") /\ Unlock(p, TRUE)
       \/ At(p, "outcome") /\ Unlock(p, TRUE)
       \/ proc[p].at \in {"prepare", "mark", "settle", "overwrite", "start", "receipt"} /\ Raise(p)
    /\ UNCHANGED <<files, hub, mirror>>

ReviewLock(a) ==
    /\ lock[a] = Gone
    /\ lock' = [lock EXCEPT ![a] = Nobody]
    /\ UNCHANGED <<record, reuse, hub, proc, mirror>>

-----------------------------------------------------------------------------

PublishStep(p) ==
    Lock(p) \/ Read(p) \/ SaveUnknown(p) \/ Send(p) \/ SaveOutcome(p) \/ ReleaseLock(p)
    \/ WriteFails(p)

MirrorStep ==
    \/ Take \/ OpenMarker \/ WriteMarker \/ Assess \/ Compare \/ Settle
    \/ PublishStep(Mirror) \/ Salvage \/ Overwrite

OperatorStep(o) ==
    \/ \E a \in Asset : Prepare(o, a) \/ Publish(o, a) \/ Report(o, a)
    \/ WriteRecord(o) \/ PublishStep(o)
    \/ ClaimReport(o) \/ StartReport(o) \/ PostReport(o) \/ SaveReport(o)
    \/ Crash(o)

Next ==
    \/ \E o \in Operator : OperatorStep(o)
    \/ MirrorStep
    \/ \E a \in Asset : Offer(a) \/ ReviewLock(a)
    \/ Enqueue \/ Close \/ Restart

Spec == Init /\ [][Next]_vars /\ WF_vars(MirrorStep)

-----------------------------------------------------------------------------
(* Properties *)

\* Every variable has its type; the queue of the mirror keeps its capacity.
TypeOK ==
    /\ record \in [Asset -> RecordState]
    /\ lock \in [Asset -> Publisher \cup {Nobody, Gone}]
    /\ delivered \in [Asset -> Nat]
    /\ reuse \in [Asset -> ReuseState]
    /\ reported \in [Asset -> Nat]
    /\ proc \in [Publisher -> [at : Step, asset : Asset \cup {NoAsset},
                               plan : Saved, raised : BOOLEAN]]
    /\ queue \in Seq(Asset) /\ Len(queue) <= MaxPending
    /\ stopped \in BOOLEAN
    /\ offer \in Asset \cup {NoAsset}

\* The Hub gets a publication, and a report, at most once, whoever calls again
\* after a crash, an unknown outcome or a lock removed by hand (client.py
\* `_publish_locked', `report_use'; hub_mirror.py `_publish').
DeliveredOnce == \A a \in Asset : delivered[a] <= 1 /\ reported[a] <= 1

\* What a record says of the Hub is true: a pending or rejected publication is
\* not there, so that sending it is safe; a received one is; likewise a
\* recorded report. Only `unknown' says nothing.
RecordsAreTrue ==
    \A a \in Asset :
        /\ record[a] \in {"absent", "torn", "marker", "pending", "rejected"} => delivered[a] = 0
        /\ record[a] = "received" => delivered[a] = 1
        /\ reuse[a] \in {"absent", "torn"} => reported[a] = 0
        /\ reuse[a] = "recorded" => reported[a] = 1

\* The thread of the mirror survives every failure of a publication
\* (hub_mirror.py `_run'): while something is queued it takes another item, and
\* so, the queue being first in first out, every item in turn, until it is
\* closed or restarted.
QueueDrains == queue # <<>> ~> At(Mirror, "open") \/ queue = <<>> \/ stopped
=============================================================================
