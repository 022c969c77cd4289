----------------------------- MODULE RemoteProofs -----------------------------
(***************************************************************************)
(* Theorems about the three things outside the program that it acts on:    *)
(* the Hub, a native agent and an experiment in a remote sandbox.          *)
(*                                                                         *)
(* The Hub adapter, for any artifacts, operators and queue capacity: a     *)
(* process relies, at each of its steps, on what it or the lock left in    *)
(* the files of its asset (Knows), and no two processes make the record or *)
(* the report of the same asset (Apart).  Each action is a move of one     *)
(* process together with at most one write, and the lemmas about moves     *)
(* show that a write disturbs nobody else.                                 *)
(*                                                                         *)
(* The agent, for every limit on its tools and whatever it and its         *)
(* descendants do (NativeInv); the experiment, for any number of processes *)
(* given it (SandboxInv).                                                  *)
(***************************************************************************)
EXTENDS HubPublication, NativeRun, SandboxRun, TLAPS

Holding == {"read", "unknown", "send", "outcome", "unlock"}
Making == {"prepare", "mark", "assess", "compare", "settle"}
Accounting == {"start", "post", "receipt"}
Process == [at : Step, asset : Asset \cup {NoAsset}, plan : Saved, raised : BOOLEAN]

\* What a process may rely on at its step, about the files of its asset.
Knows(p) ==
    /\ ~At(p, "idle") => On(p) \in Asset
    /\ proc[p].at \in Holding => lock[On(p)] = p
    /\ proc[p].at \in {"prepare", "mark"} => record[On(p)] = "torn"
    /\ proc[p].at \in {"assess", "compare", "settle"} => record[On(p)] = "marker"
    /\ proc[p].at \in {"compare", "settle"} => proc[p].plan # "received"
    /\ p = Mirror /\ proc[p].at \in Holding \cup Salvaging \cup {"lock"} => record[On(p)] \in Saved
    /\ At(p, "unknown") => delivered[On(p)] = 0 /\ record[On(p)] \in {"pending", "unknown"}
    /\ At(p, "send") => delivered[On(p)] = 0 /\ record[On(p)] = "unknown"
    /\ At(p, "outcome") =>
          /\ record[On(p)] = "unknown"
          /\ proc[p].plan \in {"pending", "rejected"} => delivered[On(p)] = 0
          /\ proc[p].plan = "received" => delivered[On(p)] = 1
    /\ At(p, "start") => reuse[On(p)] = "torn" /\ reported[On(p)] = 0
    /\ At(p, "post") => reuse[On(p)] = "unknown" /\ reported[On(p)] = 0
    /\ At(p, "receipt") =>
          /\ reuse[On(p)] = "unknown"
          /\ proc[p].plan = "received" => reported[On(p)] = 1

\* One process makes the record of an artifact, and one its report.
Apart(p, q) ==
    p # q /\ On(p) = On(q) =>
        /\ ~(proc[p].at \in Making /\ proc[q].at \in Making)
        /\ ~(proc[p].at \in Accounting /\ proc[q].at \in Accounting)

Kept ==
    /\ \A p \in Publisher : Knows(p)
    /\ \A p, q \in Publisher : Apart(p, q)
    /\ DeliveredOnce
    /\ RecordsAreTrue

HubInv == TypeOK /\ Kept

-----------------------------------------------------------------------------
(* A step of one process leaves the others where they are *)

Moves(p, s, asset, plan) ==
    /\ proc' \in [Publisher -> Process]
    /\ proc'[p].at = s /\ proc'[p].asset = asset /\ proc'[p].plan = plan
    /\ \A q \in Publisher : q # p => proc'[q] = proc[q]

LEMMA Steps == {"idle", "mark", "assess", "compare", "settle", "lock", "read", "unknown",
                "send", "outcome", "unlock", "salvage", "overwrite", "prepare", "open",
                "claim", "start", "post", "receipt"} \subseteq Step
  BY DEF Step, Preparing, Publishing, Reporting, Salvaging

LEMMA ProcType == TypeOK => proc \in [Publisher -> Process]
  BY DEF TypeOK, Process

LEMMA GoMoves ==
  ASSUME proc \in [Publisher -> Process], NEW p \in Publisher, NEW s \in Step, Go(p, s)
  PROVE  Moves(p, s, On(p), proc[p].plan)
  BY DEF Go, Moves, On, Process

LEMMA PlanMoves ==
  ASSUME proc \in [Publisher -> Process], NEW p \in Publisher, NEW s \in Step, NEW plan \in Saved, Plan(p, s, plan)
  PROVE  Moves(p, s, On(p), plan)
  BY DEF Plan, Moves, On, Process

LEMMA BeginMoves ==
  ASSUME proc \in [Publisher -> Process], NEW p \in Publisher, NEW s \in Step, NEW a \in Asset, Begin(p, a, s)
  PROVE  Moves(p, s, a, "pending")
  BY DEF Begin, Idle, Moves, Process, Saved

LEMMA DoneMoves ==
  ASSUME proc \in [Publisher -> Process], NEW p \in Publisher, Done(p)
  PROVE  Moves(p, "idle", NoAsset, "pending")
  BY Steps DEF Done, Idle, Moves, Process, Saved

LEMMA UnlockMoves ==
  ASSUME proc \in [Publisher -> Process], NEW p \in Publisher, NEW r \in BOOLEAN, Unlock(p, r)
  PROVE  Moves(p, "unlock", On(p), proc[p].plan)
  BY Steps DEF Unlock, Moves, On, Process

\* The invariant after a step, from what the step does to each process.
LEMMA AfterMove ==
  ASSUME HubInv, NEW p \in Publisher, NEW s, NEW a, NEW plan, Moves(p, s, a, plan),
         Knows(p)', \A q \in Publisher : q # p => Knows(q)',
         s \in Making => \A q \in Publisher : q # p /\ On(q) = a => proc[q].at \notin Making,
         s \in Accounting => \A q \in Publisher : q # p /\ On(q) = a => proc[q].at \notin Accounting
  PROVE  (\A q \in Publisher : Knows(q))' /\ (\A q, r \in Publisher : Apart(q, r))'
<1>1. (\A q \in Publisher : Knows(q))'
  OBVIOUS
<1>2. ASSUME NEW q \in Publisher, NEW r \in Publisher PROVE Apart(q, r)'
  <2>1. Apart(q, r)
    BY DEF HubInv, Kept
  <2>2. CASE q = p
    BY <2>1, <2>2 DEF Moves, Apart, On
  <2>3. CASE r = p
    BY <2>1, <2>3 DEF Moves, Apart, On
  <2>4. CASE q # p /\ r # p
    BY <2>1, <2>4 DEF Moves, Apart, On
  <2> QED BY <2>2, <2>3, <2>4
<1> QED BY <1>1, <1>2

\* A step that writes no file and sends nothing.
LEMMA QuietMove ==
  ASSUME HubInv, NEW p \in Publisher, NEW s, NEW a, NEW plan, Moves(p, s, a, plan),
         UNCHANGED <<files, hub>>, Knows(p)',
         s \in Making => proc[p].at \in Making /\ On(p) = a,
         s \in Accounting => proc[p].at \in Accounting /\ On(p) = a
  PROVE  Kept'
<1>1. ASSUME NEW q \in Publisher, q # p PROVE Knows(q)'
  <2>1. Knows(q) /\ proc'[q] = proc[q]
    BY <1>1 DEF HubInv, Kept, Moves
  <2> QED BY <2>1 DEF Knows, On, At, files, hub
<1>2. \A q \in Publisher : Apart(p, q)
  BY DEF HubInv, Kept
<1>3. DeliveredOnce' /\ RecordsAreTrue'
  BY DEF HubInv, Kept, DeliveredOnce, RecordsAreTrue, files, hub
<1> QED BY <1>1, <1>2, <1>3, AfterMove DEF Apart, Kept

\* A write of the record of a, as another process sees it.
Bears(q, a, state) ==
    On(q) = a =>
        /\ proc[q].at \notin Making
        /\ q = Mirror /\ proc[q].at \in Holding \cup Salvaging \cup {"lock"} => state \in Saved
        /\ At(q, "unknown") => state \in {"pending", "unknown"}
        /\ proc[q].at \in {"send", "outcome"} => state = "unknown"

LEMMA WriteMove ==
  ASSUME HubInv, NEW p \in Publisher, NEW s, NEW b, NEW plan, Moves(p, s, b, plan),
         NEW a \in Asset, NEW state \in RecordState, Write(a, state), UNCHANGED <<lock, reuse, hub>>,
         \A q \in Publisher : q # p => Bears(q, a, state),
         Knows(p)', s \in Making => b = a, s \notin Accounting,
         state \in {"torn", "marker", "pending", "rejected"} => delivered[a] = 0,
         state = "received" => delivered[a] = 1, state # "absent"
  PROVE  Kept'
<1>1. record' = [record EXCEPT ![a] = state] /\ record \in [Asset -> RecordState]
  BY DEF Write, HubInv, TypeOK
<1>2. ASSUME NEW q \in Publisher, q # p PROVE Knows(q)'
  <2>1. Knows(q) /\ proc'[q] = proc[q] /\ Bears(q, a, state)
    BY <1>2 DEF HubInv, Kept, Moves
  <2>2. CASE On(q) = a
    BY <1>1, <2>1, <2>2 DEF Knows, Bears, On, At, hub, Making
  <2>3. CASE On(q) # a
    BY <1>1, <2>1, <2>3 DEF Knows, On, At, hub, Holding, Salvaging
  <2> QED BY <2>2, <2>3
<1>3. \A q \in Publisher : q # p /\ On(q) = a => proc[q].at \notin Making
  BY DEF Bears
<1>4. DeliveredOnce'
  BY DEF HubInv, Kept, DeliveredOnce, hub
<1>5. RecordsAreTrue'
  BY <1>1 DEF HubInv, Kept, RecordsAreTrue, hub
<1> QED BY <1>2, <1>3, <1>4, <1>5, AfterMove DEF Kept

\* Nobody else is concerned when a record is first made, ...
LEMMA BearsFirst ==
  ASSUME HubInv, NEW q \in Publisher, NEW a \in Asset, record[a] = "absent", NEW state
  PROVE  Bears(q, a, state)
<1>1. Knows(q)
  BY DEF HubInv, Kept
<1> QED BY <1>1 DEF Bears, Knows, On, At, Making, Saved

\* ... when its maker goes on, ...
LEMMA BearsMaker ==
  ASSUME HubInv, NEW p \in Publisher, proc[p].at \in Making, NEW q \in Publisher, q # p, NEW state
  PROVE  Bears(q, On(p), state)
<1>1. Knows(p) /\ Knows(q) /\ Apart(q, p)
  BY DEF HubInv, Kept
<1>2. record[On(p)] \in {"torn", "marker"}
  BY <1>1 DEF Knows, Making
<1> QED BY <1>1, <1>2 DEF Bears, Knows, Apart, On, At, Saved

\* ... when the holder of the lock writes, ...
LEMMA BearsHolder ==
  ASSUME HubInv, NEW p \in Publisher, proc[p].at \in Holding, record[On(p)] \in Saved,
         NEW q \in Publisher, q # p, NEW state \in Saved
  PROVE  Bears(q, On(p), state)
<1>1. Knows(p) /\ Knows(q)
  BY DEF HubInv, Kept
<1> QED BY <1>1 DEF Bears, Knows, Holding, Making, Saved, At

\* ... or when the state becomes unknown.
LEMMA BearsUnknown ==
  ASSUME HubInv, NEW q \in Publisher, NEW a \in Asset, record[a] \in Saved
  PROVE  Bears(q, a, "unknown")
<1>1. Knows(q)
  BY DEF HubInv, Kept
<1> QED BY <1>1 DEF Bears, Knows, Making, Saved, At

-----------------------------------------------------------------------------
(* One lemma for each action of a process *)

LEMMA PrepareKeeps ==
  ASSUME HubInv, NEW o \in Operator, NEW a \in Asset, Prepare(o, a)
  PROVE  Kept'
<1>1. o \in Publisher /\ proc \in [Publisher -> Process] /\ "torn" \in RecordState
  BY ProcType DEF HubInv, Publisher, RecordState
<1>2. CASE record[a] = "absent"
  <2>1. Moves(o, "prepare", a, "pending") /\ Write(a, "torn") /\ UNCHANGED <<lock, reuse, hub>>
    BY <1>1, <1>2, Steps, BeginMoves DEF Prepare
  <2>2. Knows(o)'
    BY <1>1, <2>1, ConstantsAssumption DEF HubInv, TypeOK, Knows, Moves, Write, On, At, Holding, Salvaging
  <2>3. delivered[a] = 0
    BY <1>2 DEF HubInv, Kept, RecordsAreTrue
  <2> QED BY <1>1, <1>2, <2>1, <2>2, <2>3, BearsFirst, WriteMove DEF Accounting
<1>3. CASE record[a] # "absent"
  BY <1>3 DEF Prepare, HubInv, Kept, Knows, Apart, DeliveredOnce, RecordsAreTrue, On, At, hub
<1> QED BY <1>2, <1>3

LEMMA WriteRecordKeeps ==
  ASSUME HubInv, NEW o \in Operator, WriteRecord(o)
  PROVE  Kept'
<1>1. o \in Publisher /\ proc \in [Publisher -> Process] /\ "pending" \in RecordState
  BY ProcType DEF HubInv, Publisher, RecordState, Saved
<1>2. Moves(o, "idle", NoAsset, "pending") /\ Write(On(o), "pending") /\ UNCHANGED <<lock, reuse, hub>>
  BY <1>1, DoneMoves DEF WriteRecord
<1>3. On(o) \in Asset /\ record[On(o)] = "torn" /\ proc[o].at \in Making
  BY <1>1 DEF WriteRecord, HubInv, Kept, Knows, At, Making
<1>4. Knows(o)'
  BY <1>2 DEF Knows, Moves, At, Holding, Salvaging
<1>5. delivered[On(o)] = 0
  BY <1>3 DEF HubInv, Kept, RecordsAreTrue
<1> QED BY <1>1, <1>2, <1>3, <1>4, <1>5, BearsMaker, WriteMove DEF Making, Accounting

LEMMA TakeKeeps ==
  ASSUME HubInv, Take
  PROVE  Kept'
<1>1. Mirror \in Publisher /\ proc \in [Publisher -> Process]
  BY ProcType DEF HubInv, Publisher
<1>2. PICK a \in Asset : Moves(Mirror, "open", a, "pending")
  BY <1>1, Steps, BeginMoves DEF Take, HubInv, TypeOK
<1>3. Knows(Mirror)'
  BY <1>2 DEF Knows, Moves, At, On, Holding, Salvaging
<1> QED BY <1>1, <1>2, <1>3, QuietMove DEF Take, Making, Accounting

LEMMA OpenMarkerKeeps ==
  ASSUME HubInv, OpenMarker
  PROVE  Kept'
<1>1. Mirror \in Publisher /\ proc \in [Publisher -> Process] /\ "torn" \in RecordState
  BY ProcType DEF HubInv, Publisher, RecordState
<1>2. On(Mirror) \in Asset
  BY <1>1 DEF OpenMarker, HubInv, Kept, Knows, At
<1>3. CASE Done(Mirror) /\ UNCHANGED record
  <2>1. Moves(Mirror, "idle", NoAsset, "pending")
    BY <1>1, <1>3, DoneMoves
  <2>2. Knows(Mirror)'
    BY <2>1 DEF Knows, Moves, At, Holding, Salvaging
  <2> QED BY <1>1, <1>3, <2>1, <2>2, QuietMove DEF OpenMarker, files, Making, Accounting
<1>4. CASE record[On(Mirror)] = "absent" /\ Write(On(Mirror), "torn") /\ Go(Mirror, "mark")
  <2>1. Moves(Mirror, "mark", On(Mirror), proc[Mirror].plan) /\ UNCHANGED <<lock, reuse, hub>>
    BY <1>1, <1>4, Steps, GoMoves DEF OpenMarker
  <2>2. Knows(Mirror)'
    BY <1>2, <1>4, <2>1 DEF HubInv, TypeOK, Knows, Moves, Write, On, At, Holding, Salvaging
  <2>3. delivered[On(Mirror)] = 0
    BY <1>2, <1>4 DEF HubInv, Kept, RecordsAreTrue
  <2> QED BY <1>1, <1>2, <1>4, <2>1, <2>2, <2>3, BearsFirst, WriteMove DEF Accounting
<1> QED BY <1>3, <1>4 DEF OpenMarker

LEMMA WriteMarkerKeeps ==
  ASSUME HubInv, WriteMarker
  PROVE  Kept'
<1>1. Mirror \in Publisher /\ proc \in [Publisher -> Process] /\ "marker" \in RecordState
  BY ProcType DEF HubInv, Publisher, RecordState
<1>2. Moves(Mirror, "assess", On(Mirror), proc[Mirror].plan) /\ Write(On(Mirror), "marker")
      /\ UNCHANGED <<lock, reuse, hub>>
  BY <1>1, Steps, GoMoves DEF WriteMarker
<1>3. On(Mirror) \in Asset /\ record[On(Mirror)] = "torn" /\ proc[Mirror].at \in Making
  BY <1>1 DEF WriteMarker, HubInv, Kept, Knows, At, Making
<1>4. Knows(Mirror)'
  BY <1>2, <1>3 DEF HubInv, TypeOK, Knows, Moves, Write, On, At, Holding, Salvaging
<1>5. delivered[On(Mirror)] = 0
  BY <1>3 DEF HubInv, Kept, RecordsAreTrue
<1> QED BY <1>1, <1>2, <1>3, <1>4, <1>5, BearsMaker, WriteMove DEF Accounting

LEMMA AssessKeeps ==
  ASSUME HubInv, Assess
  PROVE  Kept'
<1>1. Mirror \in Publisher /\ proc \in [Publisher -> Process]
  BY ProcType DEF HubInv, Publisher
<1>2. PICK state \in Saved \ {"received"} : Moves(Mirror, "compare", On(Mirror), state)
  BY <1>1, Steps, PlanMoves DEF Assess, Saved
<1>3. proc[Mirror].at \in Making /\ Knows(Mirror)
  BY <1>1 DEF Assess, At, Making, HubInv, Kept
<1>4. Knows(Mirror)'
  BY <1>2, <1>3 DEF Assess, Knows, Moves, At, On, files, Holding, Salvaging
<1> QED BY <1>1, <1>2, <1>3, <1>4, QuietMove DEF Assess, Accounting

LEMMA CompareKeeps ==
  ASSUME HubInv, Compare
  PROVE  Kept'
<1>1. Mirror \in Publisher /\ proc \in [Publisher -> Process]
  BY ProcType DEF HubInv, Publisher
<1>2. proc[Mirror].at \in Making /\ Knows(Mirror) /\ UNCHANGED <<files, hub>>
  BY <1>1 DEF Compare, At, Making, HubInv, Kept
<1>3. CASE Go(Mirror, "settle")
  <2>1. Moves(Mirror, "settle", On(Mirror), proc[Mirror].plan)
    BY <1>1, <1>3, Steps, GoMoves
  <2>2. Knows(Mirror)'
    BY <1>2, <2>1 DEF Compare, Knows, Moves, At, On, files, Holding, Salvaging
  <2> QED BY <1>1, <1>2, <2>1, <2>2, QuietMove DEF Accounting
<1>4. CASE Done(Mirror)
  <2>1. Moves(Mirror, "idle", NoAsset, "pending")
    BY <1>1, <1>4, DoneMoves
  <2>2. Knows(Mirror)'
    BY <2>1 DEF Knows, Moves, At, Holding, Salvaging
  <2> QED BY <1>1, <1>2, <2>1, <2>2, QuietMove DEF Accounting, Making
<1> QED BY <1>3, <1>4 DEF Compare

LEMMA SettleKeeps ==
  ASSUME HubInv, Settle
  PROVE  Kept'
<1>1. /\ Mirror \in Publisher /\ proc \in [Publisher -> Process]
      /\ On(Mirror) \in Asset /\ record[On(Mirror)] = "marker" /\ proc[Mirror].at \in Making
      /\ proc[Mirror].plan \in Saved \ {"received"} /\ Write(On(Mirror), proc[Mirror].plan)
      /\ UNCHANGED <<lock, reuse, hub>>
  BY ProcType DEF Settle, HubInv, Kept, Knows, At, Making, Publisher, Process
<1>2. delivered[On(Mirror)] = 0 /\ proc[Mirror].plan \in RecordState
  BY <1>1 DEF HubInv, Kept, RecordsAreTrue, RecordState
<1>3. CASE Go(Mirror, "lock")
  <2>1. Moves(Mirror, "lock", On(Mirror), proc[Mirror].plan)
    BY <1>1, <1>3, Steps, GoMoves
  <2>2. Knows(Mirror)'
    BY <1>1, <1>2, <2>1 DEF HubInv, TypeOK, Knows, Moves, Write, On, At, Holding
  <2> QED BY <1>1, <1>2, <2>1, <2>2, BearsMaker, WriteMove DEF Accounting, Making, Saved
<1>4. CASE Done(Mirror)
  <2>1. Moves(Mirror, "idle", NoAsset, "pending")
    BY <1>1, <1>4, DoneMoves
  <2>2. Knows(Mirror)'
    BY <2>1 DEF Knows, Moves, At, Holding, Salvaging
  <2> QED BY <1>1, <1>2, <2>1, <2>2, BearsMaker, WriteMove DEF Accounting, Making, Saved
<1> QED BY <1>3, <1>4 DEF Settle

LEMMA PublishKeeps ==
  ASSUME HubInv, NEW o \in Operator, NEW a \in Asset, Publish(o, a)
  PROVE  Kept'
<1>1. o \in Publisher /\ o # Mirror /\ proc \in [Publisher -> Process]
  BY ProcType, ConstantsAssumption DEF HubInv, Publisher
<1>2. Moves(o, "lock", a, "pending")
  BY <1>1, Steps, BeginMoves DEF Publish
<1>3. Knows(o)'
  BY <1>1, <1>2 DEF Knows, Moves, At, On, Holding
<1> QED BY <1>1, <1>2, <1>3, QuietMove DEF Publish, Making, Accounting

\* An exception in publish(), for either caller.
LEMMA RaiseKeeps ==
  ASSUME HubInv, NEW p \in Publisher, PublishRaises(p), proc[p].at \in Holding \cup {"lock"},
         UNCHANGED <<record, reuse, hub>>, lock' = lock
  PROVE  Kept'
<1>1. proc \in [Publisher -> Process] /\ Knows(p)
  BY ProcType DEF HubInv, Kept
<1>2. CASE p = Mirror
  <2>1. Moves(p, "salvage", On(p), proc[p].plan)
    BY <1>1, <1>2, Steps, GoMoves DEF PublishRaises
  <2>2. Knows(p)'
    BY <1>1, <1>2, <2>1 DEF Knows, Moves, At, On, Holding
  <2> QED BY <2>1, <2>2, QuietMove DEF files, Making, Accounting
<1>3. CASE p # Mirror
  <2>1. Moves(p, "idle", NoAsset, "pending")
    BY <1>1, <1>3, DoneMoves DEF PublishRaises, Raise
  <2>2. Knows(p)'
    BY <2>1 DEF Knows, Moves, At, Holding, Salvaging
  <2> QED BY <2>1, <2>2, QuietMove DEF files, Making, Accounting
<1> QED BY <1>2, <1>3

\* A step that writes no file but a lock: the locks others hold stay.
LEMMA LockMove ==
  ASSUME HubInv, NEW p \in Publisher, NEW s, NEW a, NEW plan, Moves(p, s, a, plan),
         UNCHANGED <<record, reuse, hub>>, Knows(p)', s \notin Making, s \notin Accounting,
         \A q \in Publisher : q # p /\ proc[q].at \in Holding => lock'[On(q)] = q
  PROVE  Kept'
<1>1. ASSUME NEW q \in Publisher, q # p PROVE Knows(q)'
  <2>1. Knows(q) /\ proc'[q] = proc[q]
    BY <1>1 DEF HubInv, Kept, Moves
  <2> QED BY <1>1, <2>1 DEF Knows, On, At, hub
<1>2. DeliveredOnce' /\ RecordsAreTrue'
  BY DEF HubInv, Kept, DeliveredOnce, RecordsAreTrue, hub
<1> QED BY <1>1, <1>2, AfterMove DEF Kept

LEMMA LockKeeps ==
  ASSUME HubInv, NEW p \in Publisher, Lock(p)
  PROVE  Kept'
<1>1. proc \in [Publisher -> Process] /\ Knows(p) /\ On(p) \in Asset
  BY ProcType DEF Lock, HubInv, Kept, Knows, At
<1>2. CASE PublishRaises(p) /\ UNCHANGED lock
  BY <1>2, RaiseKeeps DEF Lock, At
<1>3. CASE lock[On(p)] = Nobody /\ lock' = [lock EXCEPT ![On(p)] = p] /\ Go(p, "read")
  <2>1. Moves(p, "read", On(p), proc[p].plan)
    BY <1>1, <1>3, Steps, GoMoves
  <2>2. lock'[On(p)] = p /\ \A a \in Asset : a # On(p) => lock'[a] = lock[a]
    BY <1>1, <1>3 DEF HubInv, TypeOK
  <2>3. ASSUME NEW q \in Publisher, q # p, proc[q].at \in Holding PROVE lock'[On(q)] = q
    <3>1. On(q) \in Asset /\ lock[On(q)] = q
      BY <2>3 DEF HubInv, Kept, Knows, At, Holding
    <3>2. q # Nobody
      BY ConstantsAssumption DEF Publisher
    <3> QED BY <1>3, <2>2, <3>1, <3>2
  <2>4. Knows(p)'
    BY <1>1, <2>1, <2>2 DEF Lock, Knows, Moves, At, On, Holding, Salvaging
  <2> QED BY <2>1, <2>3, <2>4, LockMove DEF Lock, Making, Accounting
<1> QED BY <1>2, <1>3 DEF Lock

LEMMA UnlockKeeps ==
  ASSUME HubInv, NEW p \in Publisher, NEW r \in BOOLEAN, Unlock(p, r),
         proc[p].at \in Holding, UNCHANGED <<files, hub>>
  PROVE  Kept'
<1>1. proc \in [Publisher -> Process] /\ Knows(p)
  BY ProcType DEF HubInv, Kept
<1>2. Moves(p, "unlock", On(p), proc[p].plan)
  BY <1>1, UnlockMoves
<1>3. Knows(p)'
  BY <1>1, <1>2 DEF Knows, Moves, At, On, Holding, files
<1> QED BY <1>2, <1>3, QuietMove DEF Making, Accounting

LEMMA ReadKeeps ==
  ASSUME HubInv, NEW p \in Publisher, Read(p)
  PROVE  Kept'
<1>1. proc \in [Publisher -> Process] /\ Knows(p) /\ proc[p].at \in Holding /\ On(p) \in Asset
  BY ProcType DEF Read, HubInv, Kept, Knows, At, Holding
<1>2. CASE Sendable(record[On(p)]) /\ Go(p, "unknown")
  <2>1. Moves(p, "unknown", On(p), proc[p].plan)
    BY <1>1, <1>2, Steps, GoMoves
  <2>2. delivered[On(p)] = 0
    BY <1>1, <1>2 DEF HubInv, Kept, RecordsAreTrue, Sendable
  <2>3. Knows(p)'
    BY <1>1, <1>2, <2>1, <2>2 DEF Read, Knows, Moves, At, On, Holding, Sendable, files, hub
  <2> QED BY <2>1, <2>3, QuietMove DEF Read, Making, Accounting
<1>3. CASE \E r \in BOOLEAN : Unlock(p, r)
  BY <1>1, <1>3, UnlockKeeps DEF Read
<1> QED BY <1>2, <1>3 DEF Read

LEMMA SaveUnknownKeeps ==
  ASSUME HubInv, NEW p \in Publisher, SaveUnknown(p)
  PROVE  Kept'
<1>1. /\ proc \in [Publisher -> Process] /\ Knows(p) /\ proc[p].at \in Holding /\ On(p) \in Asset
      /\ delivered[On(p)] = 0 /\ record[On(p)] \in Saved /\ "unknown" \in RecordState \cap Saved
  BY ProcType DEF SaveUnknown, HubInv, Kept, Knows, At, Holding, Saved, RecordState
<1>2. Moves(p, "send", On(p), proc[p].plan) /\ Write(On(p), "unknown") /\ UNCHANGED <<lock, reuse, hub>>
  BY <1>1, Steps, GoMoves DEF SaveUnknown
<1>3. Knows(p)'
  BY <1>1, <1>2 DEF HubInv, TypeOK, Knows, Moves, Write, At, On, Holding, hub
<1> QED BY <1>1, <1>2, <1>3, BearsHolder, WriteMove DEF Making, Accounting

LEMMA SendKeeps ==
  ASSUME HubInv, NEW p \in Publisher, Send(p)
  PROVE  Kept'
<1>1. /\ proc \in [Publisher -> Process] /\ Knows(p) /\ proc[p].at \in Holding /\ On(p) \in Asset
      /\ delivered[On(p)] = 0 /\ record[On(p)] = "unknown" /\ lock[On(p)] = p
  BY ProcType DEF Send, HubInv, Kept, Knows, At, Holding
<1>2. PICK answer \in Answers :
        /\ delivered' = [delivered EXCEPT ![On(p)] = @ + IF answer.arrived THEN 1 ELSE 0]
        /\ Plan(p, "outcome", answer.state)
  BY DEF Send, Outcome
<1>3. Moves(p, "outcome", On(p), answer.state) /\ UNCHANGED <<files, reported>>
  BY <1>1, <1>2, Steps, PlanMoves DEF Send, Answers, Saved
<1>4. /\ delivered'[On(p)] = IF answer.arrived THEN 1 ELSE 0
      /\ \A a \in Asset : a # On(p) => delivered'[a] = delivered[a]
  BY <1>1, <1>2 DEF HubInv, TypeOK
<1>5. /\ answer.state \in {"pending", "rejected"} => ~answer.arrived
      /\ answer.state = "received" => answer.arrived
  BY DEF Answers
<1>6. Knows(p)'
  BY <1>1, <1>3, <1>4, <1>5 DEF Knows, Moves, At, On, Holding, Salvaging, files
<1>7. ASSUME NEW q \in Publisher, q # p PROVE Knows(q)'
  <2>1. Knows(q) /\ proc'[q] = proc[q]
    BY <1>3, <1>7 DEF HubInv, Kept, Moves
  <2>2. proc[q].at \in Holding => On(q) # On(p)
    BY <1>1, <1>7, <2>1 DEF Knows
  <2> QED BY <1>3, <1>4, <2>1, <2>2 DEF Knows, On, At, files, Holding
<1>8. DeliveredOnce' /\ RecordsAreTrue'
  BY <1>1, <1>3, <1>4 DEF HubInv, Kept, DeliveredOnce, RecordsAreTrue, files
<1> QED BY <1>3, <1>6, <1>7, <1>8, AfterMove DEF Kept, Making, Accounting

LEMMA SaveOutcomeKeeps ==
  ASSUME HubInv, NEW p \in Publisher, SaveOutcome(p)
  PROVE  Kept'
<1>1. /\ proc \in [Publisher -> Process] /\ Knows(p) /\ proc[p].at \in Holding /\ On(p) \in Asset
      /\ record[On(p)] = "unknown" /\ record[On(p)] \in Saved
      /\ proc[p].plan \in RecordState \cap Saved /\ "absent" \notin Saved
  BY ProcType DEF SaveOutcome, HubInv, Kept, Knows, At, Holding, Saved, RecordState, Process
<1>2. Moves(p, "unlock", On(p), proc[p].plan) /\ Write(On(p), proc[p].plan)
      /\ UNCHANGED <<lock, reuse, hub>>
  BY <1>1, UnlockMoves DEF SaveOutcome
<1>3. Knows(p)'
  BY <1>1, <1>2 DEF HubInv, TypeOK, Knows, Moves, Write, At, On, Holding, hub
<1>4. /\ proc[p].plan \in {"pending", "rejected"} => delivered[On(p)] = 0
      /\ proc[p].plan = "received" => delivered[On(p)] = 1
      /\ proc[p].plan \notin {"torn", "marker", "absent"}
  BY <1>1 DEF SaveOutcome, Knows, At, Saved
<1> QED BY <1>1, <1>2, <1>3, <1>4, BearsHolder, WriteMove DEF Making, Accounting

LEMMA ReleaseLockKeeps ==
  ASSUME HubInv, NEW p \in Publisher, ReleaseLock(p)
  PROVE  Kept'
<1>1. /\ proc \in [Publisher -> Process] /\ Knows(p) /\ proc[p].at \in Holding /\ On(p) \in Asset
      /\ lock[On(p)] = p /\ UNCHANGED <<record, reuse, hub>>
  BY ProcType DEF ReleaseLock, HubInv, Kept, Knows, At, Holding
<1>2. \A a \in Asset : a # On(p) => lock'[a] = lock[a]
  BY <1>1 DEF ReleaseLock, HubInv, TypeOK
<1>3. ASSUME NEW q \in Publisher, q # p, proc[q].at \in Holding PROVE lock'[On(q)] = q
  <2>1. On(q) \in Asset /\ lock[On(q)] = q
    BY <1>3 DEF HubInv, Kept, Knows, At, Holding
  <2> QED BY <1>1, <1>2, <1>3, <2>1
<1>4. CASE p = Mirror /\ Go(p, "salvage")
  <2>1. Moves(p, "salvage", On(p), proc[p].plan)
    BY <1>1, <1>4, Steps, GoMoves
  <2>2. Knows(p)'
    BY <1>1, <1>4, <2>1 DEF Knows, Moves, At, On, Holding
  <2> QED BY <1>1, <1>3, <2>1, <2>2, LockMove DEF Making, Accounting
<1>5. CASE Done(p)
  <2>1. Moves(p, "idle", NoAsset, "pending")
    BY <1>1, <1>5, DoneMoves
  <2>2. Knows(p)'
    BY <2>1 DEF Knows, Moves, At, Holding, Salvaging
  <2> QED BY <1>1, <1>3, <2>1, <2>2, LockMove DEF Making, Accounting
<1> QED BY <1>4, <1>5 DEF ReleaseLock, PublishRaises, Raise

LEMMA WriteFailsKeeps ==
  ASSUME HubInv, NEW p \in Publisher, WriteFails(p)
  PROVE  Kept'
<1>1. proc \in [Publisher -> Process] /\ UNCHANGED <<files, hub>>
  BY ProcType DEF WriteFails, HubInv
<1>2. CASE proc[p].at \in {"unknown", "outcome"} /\ Unlock(p, TRUE)
  BY <1>1, <1>2, UnlockKeeps DEF Holding
<1>3. CASE Done(p)
  <2>1. Moves(p, "idle", NoAsset, "pending")
    BY <1>1, <1>3, DoneMoves
  <2>2. Knows(p)'
    BY <2>1 DEF Knows, Moves, At, Holding, Salvaging
  <2> QED BY <1>1, <2>1, <2>2, QuietMove DEF Making, Accounting
<1> QED BY <1>2, <1>3 DEF WriteFails, Raise, At

LEMMA SalvageKeeps ==
  ASSUME HubInv, Salvage
  PROVE  Kept'
<1>1. Mirror \in Publisher /\ proc \in [Publisher -> Process] /\ UNCHANGED <<files, hub>>
  BY ProcType DEF Salvage, HubInv, Publisher
<1>2. Knows(Mirror)
  BY <1>1 DEF HubInv, Kept
<1>3. CASE Go(Mirror, "overwrite")
  <2>1. Moves(Mirror, "overwrite", On(Mirror), proc[Mirror].plan)
    BY <1>1, <1>3, Steps, GoMoves
  <2>2. Knows(Mirror)'
    BY <1>1, <1>2, <2>1 DEF Salvage, Knows, Moves, At, On, Holding, Salvaging, files
  <2> QED BY <1>1, <2>1, <2>2, QuietMove DEF Making, Accounting
<1>4. CASE Done(Mirror)
  <2>1. Moves(Mirror, "idle", NoAsset, "pending")
    BY <1>1, <1>4, DoneMoves
  <2>2. Knows(Mirror)'
    BY <2>1 DEF Knows, Moves, At, Holding, Salvaging
  <2> QED BY <1>1, <2>1, <2>2, QuietMove DEF Making, Accounting
<1> QED BY <1>3, <1>4 DEF Salvage, Raise

LEMMA OverwriteKeeps ==
  ASSUME HubInv, Overwrite
  PROVE  Kept'
<1>1. /\ Mirror \in Publisher /\ proc \in [Publisher -> Process]
      /\ On(Mirror) \in Asset /\ record[On(Mirror)] \in Saved /\ "unknown" \in RecordState
  BY ProcType DEF Overwrite, HubInv, Kept, Knows, At, Publisher, Salvaging, RecordState, Saved
<1>2. Moves(Mirror, "idle", NoAsset, "pending") /\ Write(On(Mirror), "unknown")
      /\ UNCHANGED <<lock, reuse, hub>>
  BY <1>1, DoneMoves DEF Overwrite
<1>3. Knows(Mirror)'
  BY <1>2 DEF Knows, Moves, At, Holding, Salvaging
<1> QED BY <1>1, <1>2, <1>3, BearsUnknown, WriteMove DEF Making, Accounting

LEMMA ReportKeeps ==
  ASSUME HubInv, NEW o \in Operator, NEW a \in Asset, Report(o, a)
  PROVE  Kept'
<1>1. o \in Publisher /\ proc \in [Publisher -> Process]
  BY ProcType DEF HubInv, Publisher
<1>2. Moves(o, "claim", a, "pending")
  BY <1>1, Steps, BeginMoves DEF Report
<1>3. Knows(o)'
  BY <1>2 DEF Knows, Moves, At, On, Holding, Salvaging
<1> QED BY <1>1, <1>2, <1>3, QuietMove DEF Report, Making, Accounting

\* A write of the report of a, by the process that makes it.
WriteReuse(a, state) == reuse' = [reuse EXCEPT ![a] = state]

LEMMA ReuseMove ==
  ASSUME HubInv, NEW p \in Publisher, NEW s, NEW b, NEW plan, Moves(p, s, b, plan),
         NEW a \in Asset, NEW state \in ReuseState, WriteReuse(a, state),
         UNCHANGED <<record, lock, hub>>, Knows(p)', s \notin Making, s \in Accounting => b = a,
         \A q \in Publisher : q # p /\ On(q) = a => proc[q].at \notin Accounting,
         state = "torn" => reported[a] = 0, state = "recorded" => reported[a] = 1,
         state # "absent"
  PROVE  Kept'
<1>1. reuse \in [Asset -> ReuseState]
  BY DEF HubInv, TypeOK
<1>2. ASSUME NEW q \in Publisher, q # p PROVE Knows(q)'
  <2>1. Knows(q) /\ proc'[q] = proc[q]
    BY <1>2 DEF HubInv, Kept, Moves
  <2>2. proc[q].at \in Accounting => On(q) # a /\ On(q) \in Asset
    BY <1>2, <2>1 DEF Knows, At, Accounting
  <2> QED BY <1>1, <2>1, <2>2 DEF Knows, On, At, hub, Accounting, WriteReuse
<1>3. DeliveredOnce' /\ RecordsAreTrue'
  BY <1>1 DEF WriteReuse, HubInv, Kept, DeliveredOnce, RecordsAreTrue, hub
<1> QED BY <1>2, <1>3, AfterMove DEF Kept

LEMMA ClaimReportKeeps ==
  ASSUME HubInv, NEW o \in Operator, ClaimReport(o)
  PROVE  Kept'
<1>1. o \in Publisher /\ proc \in [Publisher -> Process] /\ On(o) \in Asset
      /\ "torn" \in ReuseState
  BY ProcType DEF ClaimReport, HubInv, Kept, Knows, At, Publisher, ReuseState
<1>2. CASE Done(o) /\ UNCHANGED reuse
  <2>1. Moves(o, "idle", NoAsset, "pending")
    BY <1>1, <1>2, DoneMoves
  <2>2. Knows(o)'
    BY <2>1 DEF Knows, Moves, At, Holding, Salvaging
  <2> QED BY <1>1, <1>2, <2>1, <2>2, QuietMove DEF ClaimReport, files, Making, Accounting
<1>3. CASE reuse[On(o)] = "absent" /\ WriteReuse(On(o), "torn") /\ Go(o, "start")
  <2>1. Moves(o, "start", On(o), proc[o].plan) /\ UNCHANGED <<record, lock, hub>>
    BY <1>1, <1>3, Steps, GoMoves DEF ClaimReport
  <2>2. reported[On(o)] = 0
    BY <1>1, <1>3 DEF HubInv, Kept, RecordsAreTrue
  <2>3. Knows(o)'
    BY <1>1, <1>3, <2>1, <2>2 DEF HubInv, TypeOK, Knows, Moves, At, On, Holding, Salvaging, hub, WriteReuse
  <2>4. ASSUME NEW q \in Publisher, q # o, On(q) = On(o) PROVE proc[q].at \notin Accounting
    BY <1>3, <2>4 DEF HubInv, Kept, Knows, At, Accounting
  <2> QED BY <1>1, <1>3, <2>1, <2>2, <2>3, <2>4, ReuseMove DEF Making
<1> QED BY <1>2, <1>3 DEF ClaimReport, Raise, WriteReuse

LEMMA StartReportKeeps ==
  ASSUME HubInv, NEW o \in Operator, StartReport(o)
  PROVE  Kept'
<1>1. /\ o \in Publisher /\ proc \in [Publisher -> Process] /\ On(o) \in Asset
      /\ proc[o].at \in Accounting /\ reported[On(o)] = 0 /\ "unknown" \in ReuseState
  BY ProcType DEF StartReport, HubInv, Kept, Knows, At, Publisher, ReuseState, Accounting
<1>2. Moves(o, "post", On(o), proc[o].plan) /\ UNCHANGED <<record, lock, hub>>
      /\ WriteReuse(On(o), "unknown")
  BY <1>1, Steps, GoMoves DEF StartReport, WriteReuse
<1>3. Knows(o)'
  BY <1>1, <1>2 DEF WriteReuse, HubInv, TypeOK, Knows, Moves, At, On, Holding, Salvaging, hub
<1>4. \A q \in Publisher : q # o /\ On(q) = On(o) => proc[q].at \notin Accounting
  BY <1>1 DEF HubInv, Kept, Apart
<1> QED BY <1>1, <1>2, <1>3, <1>4, ReuseMove DEF Making

LEMMA PostReportKeeps ==
  ASSUME HubInv, NEW o \in Operator, PostReport(o)
  PROVE  Kept'
<1>1. /\ o \in Publisher /\ proc \in [Publisher -> Process] /\ On(o) \in Asset
      /\ proc[o].at \in Accounting /\ reported[On(o)] = 0 /\ reuse[On(o)] = "unknown"
  BY ProcType DEF PostReport, HubInv, Kept, Knows, At, Publisher, Accounting
<1>2. PICK answer \in Answers :
        /\ reported' = [reported EXCEPT ![On(o)] = @ + IF answer.arrived THEN 1 ELSE 0]
        /\ Plan(o, "receipt", IF answer.state = "received" THEN "received" ELSE "unknown")
  BY DEF PostReport
<1>3. /\ Moves(o, "receipt", On(o), IF answer.state = "received" THEN "received" ELSE "unknown")
      /\ UNCHANGED <<files, delivered>>
  BY <1>1, <1>2, Steps, PlanMoves DEF PostReport, Saved
<1>4. /\ reported'[On(o)] = IF answer.arrived THEN 1 ELSE 0
      /\ \A a \in Asset : a # On(o) => reported'[a] = reported[a]
      /\ answer.state = "received" => answer.arrived
  BY <1>1, <1>2 DEF HubInv, TypeOK, Answers
<1>5. Knows(o)'
  BY <1>1, <1>3, <1>4 DEF Knows, Moves, At, On, Holding, Salvaging, files
<1>6. \A q \in Publisher : q # o /\ On(q) = On(o) => proc[q].at \notin Accounting
  BY <1>1 DEF HubInv, Kept, Apart
<1>7. ASSUME NEW q \in Publisher, q # o PROVE Knows(q)'
  <2>1. Knows(q) /\ proc'[q] = proc[q]
    BY <1>3, <1>7 DEF HubInv, Kept, Moves
  <2>2. proc[q].at \in Accounting => On(q) # On(o) /\ On(q) \in Asset
    BY <1>6, <1>7, <2>1 DEF Knows, At, Accounting
  <2> QED BY <1>3, <1>4, <2>1, <2>2 DEF Knows, On, At, files, Accounting
<1>8. DeliveredOnce' /\ RecordsAreTrue'
  BY <1>1, <1>3, <1>4 DEF HubInv, Kept, DeliveredOnce, RecordsAreTrue, files
<1> QED BY <1>1, <1>3, <1>5, <1>6, <1>7, <1>8, AfterMove DEF Kept, Making

LEMMA SaveReportKeeps ==
  ASSUME HubInv, NEW o \in Operator, SaveReport(o)
  PROVE  Kept'
<1> DEFINE state == IF proc[o].plan = "received" THEN "recorded" ELSE "unknown"
<1>1. /\ o \in Publisher /\ proc \in [Publisher -> Process] /\ On(o) \in Asset
      /\ proc[o].at \in Accounting
      /\ proc[o].plan = "received" => reported[On(o)] = 1
      /\ state \in ReuseState
  BY ProcType DEF SaveReport, HubInv, Kept, Knows, At, Publisher, Accounting, ReuseState
<1>2. Moves(o, "idle", NoAsset, "pending") /\ UNCHANGED <<record, lock, hub>>
      /\ WriteReuse(On(o), state)
  BY <1>1, DoneMoves DEF SaveReport, WriteReuse
<1>3. Knows(o)'
  BY <1>2 DEF Knows, Moves, At, Holding, Salvaging
<1>4. \A q \in Publisher : q # o /\ On(q) = On(o) => proc[q].at \notin Accounting
  BY <1>1 DEF HubInv, Kept, Apart
<1>5. /\ state # "torn" /\ state # "absent"
      /\ state = "recorded" => reported[On(o)] = 1
  BY <1>1
<1> HIDE DEF state
<1> QED BY <1>1, <1>2, <1>3, <1>4, <1>5, ReuseMove DEF Making, Accounting

\* A process that dies leaves the locks of the others alone.
LEMMA DeathKeeps ==
  ASSUME HubInv, NEW p \in Publisher, Done(p), lock' = Orphaned(p),
         UNCHANGED <<record, reuse, hub>>
  PROVE  Kept'
<1>1. Moves(p, "idle", NoAsset, "pending")
  BY ProcType, DoneMoves DEF HubInv
<1>2. Knows(p)'
  BY <1>1 DEF Knows, Moves, At, Holding, Salvaging
<1>3. ASSUME NEW q \in Publisher, q # p, proc[q].at \in Holding PROVE lock'[On(q)] = q
  BY <1>3 DEF HubInv, Kept, Knows, At, Holding, Orphaned
<1> QED BY <1>1, <1>2, <1>3, LockMove DEF Making, Accounting

LEMMA ReviewLockKeeps ==
  ASSUME HubInv, NEW a \in Asset, ReviewLock(a)
  PROVE  Kept'
<1>1. ASSUME NEW q \in Publisher, proc[q].at \in Holding PROVE lock'[On(q)] = q
  <2>1. On(q) \in Asset /\ lock[On(q)] = q /\ q # Gone
    BY <1>1, ConstantsAssumption DEF HubInv, Kept, Knows, At, Holding, Publisher
  <2> QED BY <2>1 DEF ReviewLock, HubInv, TypeOK
<1>2. ASSUME NEW q \in Publisher PROVE Knows(q)'
  <2>1. Knows(q)
    BY DEF HubInv, Kept
  <2> QED BY <1>1, <2>1 DEF ReviewLock, Knows, At, On, hub
<1>3. \A p, q \in Publisher : Apart(p, q)'
  BY DEF HubInv, Kept, Apart, On, ReviewLock
<1>4. DeliveredOnce' /\ RecordsAreTrue'
  BY DEF HubInv, Kept, DeliveredOnce, RecordsAreTrue, ReviewLock, hub
<1> QED BY <1>2, <1>3, <1>4 DEF Kept

\* The queue of the mirror is no file.
LEMMA QueueKeeps ==
  ASSUME HubInv, UNCHANGED <<files, hub, proc>>
  PROVE  Kept'
  BY DEF HubInv, Kept, Knows, Apart, DeliveredOnce, RecordsAreTrue, At, On, files, hub

-----------------------------------------------------------------------------
(* Types *)

LEMMA QueueTyped ==
  ASSUME TypeOK
  PROVE  /\ queue # <<>> => /\ Head(queue) \in Asset /\ Tail(queue) \in Seq(Asset)
                            /\ Len(Tail(queue)) <= MaxPending
         /\ offer \in Asset /\ HasRoom =>
              Append(queue, offer) \in Seq(Asset) /\ Len(Append(queue, offer)) <= MaxPending
  BY ConstantsAssumption DEF TypeOK, HasRoom

\* A process keeps its type: each of its steps is a move.
ProcTyped == proc \in [Publisher -> Process]

LEMMA GoTyped ==
  ASSUME HubInv, NEW p \in Publisher, NEW s \in Step,
         Go(p, s) \/ Done(p) \/ (\E a \in Asset : Begin(p, a, s))
         \/ (\E plan \in Saved : Plan(p, s, plan)) \/ (\E r \in BOOLEAN : Unlock(p, r))
  PROVE  ProcTyped'
<1>1. proc \in [Publisher -> Process]
  BY ProcType DEF HubInv
<1> QED BY <1>1, GoMoves, DoneMoves, BeginMoves, PlanMoves, UnlockMoves DEF Moves, ProcTyped

LEMMA PublishTyped ==
  ASSUME HubInv, NEW p \in Publisher, PublishStep(p)
  PROVE  ProcTyped'
<1> DEFINE Goes == \E s \in Step : Go(p, s)
           Unlocks == \E r \in BOOLEAN : Unlock(p, r)
<1>1. PublishRaises(p) => Goes \/ Done(p)
  BY Steps DEF PublishRaises, Raise
<1>2. Lock(p) \/ ReleaseLock(p) => Goes \/ Done(p)
  BY <1>1, Steps DEF Lock, ReleaseLock
<1>3. Read(p) \/ SaveUnknown(p) \/ SaveOutcome(p) => Goes \/ Unlocks
  BY Steps DEF Read, SaveUnknown, SaveOutcome
<1>4. WriteFails(p) => Unlocks \/ Done(p)
  BY DEF WriteFails, Raise
<1>5. Send(p) => \E plan \in Saved : Plan(p, "outcome", plan)
  <2> SUFFICES ASSUME Send(p) PROVE \E plan \in Saved : Plan(p, "outcome", plan)
    OBVIOUS
  <2>1. PICK answer \in Answers : Plan(p, "outcome", Outcome(answer))
    BY DEF Send
  <2>2. Outcome(answer) \in Saved
    BY DEF Answers, Outcome, Saved
  <2> QED BY <2>1, <2>2
<1>6. CASE Goes
  BY <1>6, GoTyped
<1>7. CASE Unlocks
  BY <1>7, Steps, GoTyped
<1>8. CASE Done(p)
  BY <1>8, Steps, GoTyped
<1>9. CASE Send(p)
  BY <1>5, <1>9, Steps, GoTyped
<1> QED BY <1>2, <1>3, <1>4, <1>6, <1>7, <1>8, <1>9 DEF PublishStep

LEMMA MirrorTyped ==
  ASSUME HubInv, MirrorStep
  PROVE  ProcTyped'
<1>1. Mirror \in Publisher
  BY DEF Publisher
<1>2. CASE PublishStep(Mirror)
  BY <1>1, <1>2, PublishTyped
<1>3. CASE Take
  <2>1. Head(queue) \in Asset /\ Begin(Mirror, Head(queue), "open")
    BY <1>3, QueueTyped DEF Take, HubInv
  <2> QED BY <1>1, <2>1, Steps, GoTyped
<1>4. CASE Assess
  <2>1. \E plan \in Saved : Plan(Mirror, "compare", plan)
    BY <1>4 DEF Assess, Saved
  <2> QED BY <1>1, <2>1, Steps, GoTyped
<1>5. CASE OpenMarker \/ WriteMarker \/ Compare \/ Settle \/ Salvage \/ Overwrite
  <2>1. (\E s \in Step : Go(Mirror, s)) \/ Done(Mirror)
    BY <1>5, Steps DEF OpenMarker, WriteMarker, Compare, Settle, Salvage, Overwrite, Raise
  <2> QED BY <1>1, <2>1, Steps, GoTyped
<1> QED BY <1>2, <1>3, <1>4, <1>5 DEF MirrorStep

LEMMA OperatorTyped ==
  ASSUME HubInv, NEW o \in Operator, OperatorStep(o)
  PROVE  ProcTyped'
<1>1. o \in Publisher /\ ProcTyped
  BY ProcType DEF Publisher, HubInv, ProcTyped
<1>2. CASE PublishStep(o)
  BY <1>1, <1>2, PublishTyped
<1>3. CASE \E a \in Asset : Prepare(o, a) \/ Publish(o, a) \/ Report(o, a)
  <2>1. PICK a \in Asset : Begin(o, a, "prepare") \/ Begin(o, a, "lock") \/ Begin(o, a, "claim")
                           \/ UNCHANGED proc
    BY <1>3 DEF Prepare, Publish, Report
  <2>2. CASE UNCHANGED proc
    BY <1>1, <2>2 DEF ProcTyped
  <2> QED BY <1>1, <2>1, <2>2, Steps, GoTyped
<1>4. CASE PostReport(o)
  <2>1. \E plan \in Saved : Plan(o, "receipt", plan)
    BY <1>4 DEF PostReport, Saved
  <2> QED BY <1>1, <2>1, Steps, GoTyped
<1>5. CASE WriteRecord(o) \/ ClaimReport(o) \/ StartReport(o) \/ SaveReport(o) \/ Crash(o)
  <2>1. (\E s \in Step : Go(o, s)) \/ Done(o)
    BY <1>5, Steps DEF WriteRecord, ClaimReport, StartReport, SaveReport, Crash, Raise
  <2> QED BY <1>1, <2>1, Steps, GoTyped
<1> QED BY <1>2, <1>3, <1>4, <1>5 DEF OperatorStep

\* So do the files and the Hub ...
FilesTyped ==
    /\ record \in [Asset -> RecordState]
    /\ lock \in [Asset -> Publisher \cup {Nobody, Gone}]
    /\ reuse \in [Asset -> ReuseState]

LEMMA FilesStepTyped ==
  ASSUME HubInv, Next
  PROVE  FilesTyped'
<1>1. TypeOK /\ Mirror \in Publisher /\ Operator \subseteq Publisher
  BY DEF HubInv, Publisher
<1>2. ASSUME NEW p \in Publisher, PublishStep(p) PROVE FilesTyped'
  BY <1>1, <1>2 DEF PublishStep, Lock, Read, SaveUnknown, Send, SaveOutcome, ReleaseLock, WriteFails,
     TypeOK, FilesTyped, Write, RecordState, Saved, files
<1>3. CASE MirrorStep
  BY <1>1, <1>2, <1>3 DEF MirrorStep, Take, OpenMarker, WriteMarker, Assess, Compare, Settle,
     Salvage, Overwrite, TypeOK, FilesTyped, Write, RecordState, Saved, files
<1>4. ASSUME NEW o \in Operator, OperatorStep(o) PROVE FilesTyped'
  BY <1>1, <1>2, <1>4 DEF OperatorStep, Prepare, Publish, Report, WriteRecord, ClaimReport, StartReport,
     PostReport, SaveReport, Crash, Orphaned, TypeOK, FilesTyped, Write, RecordState, ReuseState, Saved, files
<1>5. CASE Restart \/ Enqueue \/ Close \/ \E a \in Asset : Offer(a) \/ ReviewLock(a)
  BY <1>1, <1>5 DEF Restart, Orphaned, Enqueue, Close, Offer, ReviewLock, TypeOK, FilesTyped, files
<1> QED BY <1>3, <1>4, <1>5 DEF Next

HubTyped == delivered \in [Asset -> Nat] /\ reported \in [Asset -> Nat]

LEMMA HubStepTyped ==
  ASSUME HubInv, Next
  PROVE  HubTyped'
<1>1. HubTyped
  BY DEF HubInv, TypeOK, HubTyped
<1>2. ASSUME NEW p \in Publisher, PublishStep(p) PROVE HubTyped'
  <2>1. CASE Send(p)
    <3>1. PICK n \in {0, 1} : delivered' = [delivered EXCEPT ![On(p)] = @ + n]
      BY <2>1 DEF Send
    <3>2. reported' = reported
      BY <2>1 DEF Send
    <3>3. delivered' = [a \in Asset |-> IF a = On(p) THEN delivered[a] + n ELSE delivered[a]]
      BY <1>1, <3>1 DEF HubTyped
    <3>4. \A a \in Asset : delivered[a] + n \in Nat
      BY <1>1, <3>1 DEF HubTyped
    <3> QED BY <1>1, <3>2, <3>3, <3>4 DEF HubTyped
  <2>2. CASE ~Send(p)
    <3>1. UNCHANGED hub
      BY <1>2, <2>2 DEF PublishStep, Lock, Read, SaveUnknown, SaveOutcome, ReleaseLock, WriteFails
    <3> QED BY <1>1, <3>1 DEF HubTyped, hub
  <2> QED BY <2>1, <2>2
<1>3. CASE MirrorStep
  BY <1>1, <1>2, <1>3 DEF MirrorStep, Take, OpenMarker, WriteMarker, Assess, Compare, Settle,
     Salvage, Overwrite, HubTyped, hub, Publisher
<1>4. ASSUME NEW o \in Operator, OperatorStep(o) PROVE HubTyped'
  BY <1>1, <1>2, <1>4 DEF OperatorStep, Prepare, Publish, Report, WriteRecord, ClaimReport, StartReport,
     PostReport, SaveReport, Crash, HubTyped, hub, Answers, Publisher
<1>5. CASE Restart \/ Enqueue \/ Close \/ \E a \in Asset : Offer(a) \/ ReviewLock(a)
  BY <1>1, <1>5 DEF Restart, Enqueue, Close, Offer, ReviewLock, HubTyped, hub
<1> QED BY <1>3, <1>4, <1>5 DEF Next

\* ... and the queue of the mirror.
QueueOK ==
    /\ queue \in Seq(Asset) /\ Len(queue) <= MaxPending
    /\ stopped \in BOOLEAN
    /\ offer \in Asset \cup {NoAsset}

LEMMA QueueStepTyped ==
  ASSUME HubInv, Next
  PROVE  QueueOK'
<1>1. QueueOK /\ TypeOK
  BY DEF HubInv, TypeOK, QueueOK
<1>2. ASSUME UNCHANGED mirror PROVE QueueOK'
  BY <1>1, <1>2 DEF QueueOK, mirror
<1>3. CASE Take
  BY <1>1, <1>3, QueueTyped DEF Take, QueueOK
<1>4. CASE Enqueue
  BY <1>1, <1>4, QueueTyped DEF Enqueue, QueueOK
<1>5. CASE Restart
  <2>1. <<>> \in Seq(Asset) /\ Len(<<>>) <= MaxPending
    BY ConstantsAssumption
  <2> QED BY <1>5, <2>1 DEF Restart, QueueOK
<1>6. CASE Close \/ \E a \in Asset : Offer(a)
  BY <1>1, <1>6 DEF Close, Offer, QueueOK
<1>7. ASSUME NEW p \in Publisher, PublishStep(p) PROVE UNCHANGED mirror
  BY <1>7 DEF PublishStep, Lock, Read, SaveUnknown, Send, SaveOutcome, ReleaseLock, WriteFails
<1>8. CASE MirrorStep /\ ~Take
  BY <1>2, <1>7, <1>8 DEF MirrorStep, OpenMarker, WriteMarker, Assess, Compare, Settle, Salvage,
     Overwrite, Publisher
<1>9. ASSUME NEW o \in Operator, OperatorStep(o) PROVE QueueOK'
  BY <1>2, <1>7, <1>9 DEF OperatorStep, Prepare, Publish, Report, WriteRecord, ClaimReport, StartReport,
     PostReport, SaveReport, Crash, Publisher
<1>10. CASE \E a \in Asset : ReviewLock(a)
  BY <1>2, <1>10 DEF ReviewLock
<1> QED BY <1>3, <1>4, <1>5, <1>6, <1>8, <1>9, <1>10 DEF Next

LEMMA TypeStep ==
  ASSUME HubInv, Next
  PROVE  TypeOK'
<1>1. ProcTyped'
  <2>1. CASE Restart
    <3>1. Done(Mirror) /\ Mirror \in Publisher
      BY <2>1 DEF Restart, Done, Publisher
    <3> QED BY <3>1, Steps, GoTyped
  <2>2. CASE Enqueue \/ Close \/ \E a \in Asset : Offer(a) \/ ReviewLock(a)
    BY <2>2, ProcType DEF Enqueue, Close, Offer, ReviewLock, HubInv, ProcTyped
  <2> QED BY <2>1, <2>2, MirrorTyped, OperatorTyped DEF Next
<1>2. FilesTyped' /\ HubTyped' /\ QueueOK'
  BY FilesStepTyped, HubStepTyped, QueueStepTyped
<1> QED BY <1>1, <1>2 DEF TypeOK, ProcTyped, Process, FilesTyped, HubTyped, QueueOK

-----------------------------------------------------------------------------
(* The theorems *)

LEMMA HubInit == Init => HubInv
<1> SUFFICES ASSUME Init PROVE HubInv
  OBVIOUS
<1>1. Idle \in Process
  BY DEF Idle, Process, Step, Saved
<1>2. <<>> \in Seq(Asset) /\ Len(<<>>) <= MaxPending
  BY ConstantsAssumption
<1>3. TypeOK
  BY <1>1, <1>2 DEF Init, TypeOK, RecordState, ReuseState, Publisher, Process
<1>4. Kept
  BY DEF Init, Kept, Knows, Apart, DeliveredOnce, RecordsAreTrue, At, On, Idle, Holding, Making,
         Accounting, Salvaging
<1> QED BY <1>3, <1>4 DEF HubInv

LEMMA PublishStepKeeps ==
  ASSUME HubInv, NEW p \in Publisher, PublishStep(p)
  PROVE  Kept'
  BY LockKeeps, ReadKeeps, SaveUnknownKeeps, SendKeeps, SaveOutcomeKeeps, ReleaseLockKeeps,
     WriteFailsKeeps DEF PublishStep

LEMMA KeptStep ==
  ASSUME HubInv, Next
  PROVE  Kept'
<1>0. Mirror \in Publisher /\ Operator \subseteq Publisher
  BY DEF Publisher
<1>1. CASE MirrorStep
  <2>1. CASE PublishStep(Mirror)
    BY <1>0, <2>1, PublishStepKeeps
  <2>2. CASE Take \/ OpenMarker \/ WriteMarker
    BY <2>2, TakeKeeps, OpenMarkerKeeps, WriteMarkerKeeps
  <2>3. CASE Assess \/ Compare \/ Settle
    BY <2>3, AssessKeeps, CompareKeeps, SettleKeeps
  <2>4. CASE Salvage \/ Overwrite
    BY <2>4, SalvageKeeps, OverwriteKeeps
  <2> QED BY <1>1, <2>1, <2>2, <2>3, <2>4 DEF MirrorStep
<1>2. ASSUME NEW o \in Operator, OperatorStep(o) PROVE Kept'
  <2>1. CASE Crash(o)
    BY <1>0, <2>1, DeathKeeps DEF Crash
  <2>2. CASE PublishStep(o)
    BY <1>0, <2>2, PublishStepKeeps
  <2>3. CASE \E a \in Asset : Prepare(o, a) \/ Publish(o, a) \/ Report(o, a)
    BY <2>3, PrepareKeeps, PublishKeeps, ReportKeeps
  <2>4. CASE WriteRecord(o) \/ ClaimReport(o) \/ StartReport(o)
    BY <2>4, WriteRecordKeeps, ClaimReportKeeps, StartReportKeeps
  <2>5. CASE PostReport(o) \/ SaveReport(o)
    BY <2>5, PostReportKeeps, SaveReportKeeps
  <2> QED BY <1>2, <2>1, <2>2, <2>3, <2>4, <2>5 DEF OperatorStep
<1>3. CASE Restart
  <2>1. Done(Mirror) /\ lock' = Orphaned(Mirror) /\ UNCHANGED <<record, reuse, hub>>
    BY <1>3 DEF Restart, Done
  <2> QED BY <1>0, <2>1, DeathKeeps
<1>4. CASE Enqueue \/ Close \/ \E a \in Asset : Offer(a)
  <2>1. UNCHANGED <<files, hub, proc>>
    BY <1>4 DEF Enqueue, Close, Offer
  <2> QED BY <2>1, QueueKeeps
<1>5. ASSUME NEW a \in Asset, ReviewLock(a) PROVE Kept'
  BY <1>5, ReviewLockKeeps
<1> QED BY <1>1, <1>2, <1>3, <1>4, <1>5 DEF Next

LEMMA HubStep == HubInv /\ [Next]_vars => HubInv'
<1> SUFFICES ASSUME HubInv, [Next]_vars PROVE HubInv'
  OBVIOUS
<1>1. CASE UNCHANGED vars
  BY <1>1, QueueKeeps DEF HubInv, TypeOK, vars, files, hub, mirror
<1>2. CASE Next
  BY <1>2, KeptStep, TypeStep DEF HubInv
<1> QED BY <1>1, <1>2

LEMMA HubInvariant == Spec => []HubInv
<1> QED BY HubInit, HubStep, PTL DEF Spec

\* Every variable has its type and the queue its bound, for any number of
\* artifacts, operators and any capacity.
THEOREM TypesHold == Spec => []TypeOK
<1> QED BY HubInvariant, PTL DEF HubInv

\* No publication and no report reaches the Hub twice.
THEOREM NeverDeliveredTwice == Spec => []DeliveredOnce
<1> QED BY HubInvariant, PTL DEF HubInv, Kept

\* What a record says of the Hub is true.
THEOREM RecordsStayTrue == Spec => []RecordsAreTrue
<1> QED BY HubInvariant, PTL DEF HubInv, Kept

-----------------------------------------------------------------------------
(* One headless agent *)

Typed ==
    /\ agent \in {"none", "running", "exited", "reaped"} /\ status \in Exit
    /\ children \in Nat
    /\ output \in Seq(Kind) /\ sealed \in BOOLEAN /\ said \in Nat
    /\ reused \in BOOLEAN /\ disturbed \in BOOLEAN
    /\ at \in {"launch", "cleanup"} \cup Looping \cup Ended
    /\ cancel \in {"no", "begin", "term", "wait"}
    /\ owned \in BOOLEAN /\ consumed \in Int /\ reason \in BOOLEAN
    /\ code \in {"none"} \cup Exit /\ raising \in BOOLEAN

\* What goes with the step of the observer.
AtSteps ==
    /\ at = "launch" => agent = "none" /\ ~owned /\ ~disturbed /\ ~raising
    /\ at \in Looping \cup {"cleanup"} => agent # "none"
    /\ cancel # "no" <=> at \in {"stop", "cleanup"}
    /\ cancel \in {"term", "wait"} => owned
    /\ at = "stop" => reason
    /\ at \in Looping => ~raising
    /\ at \in Ended => ~owned
    /\ at = "returned" => ~raising

\* Ownership is given up only when nothing is left.
Emptied ==
    /\ ~owned => agent \in {"none", "reaped"} /\ children = 0
    /\ agent = "none" => ~owned

\* The exit code is that of the agent, which has been reaped.
CodeIsStatus ==
    /\ code # "none" => agent = "reaped" /\ code = status
    /\ at = "final" /\ ~reason => code # "none"

\* What the agent wrote has been read before the cleanup, or the outcome says why not.
AllHeard ==
    /\ said <= Len(output)
    /\ at \in {"cleanup", "returned"} => reason \/ raising \/ (code # "none" /\ said <= consumed)

\* A signal that reached the group leads to a reason.
DisturbedHasReason ==
    disturbed => \/ reason
                 \/ at = "cleanup" /\ cancel = "wait"
                 \/ at \in Ended /\ (raising \/ code = "none")

NativeInv == Typed /\ AtSteps /\ Emptied /\ CodeIsStatus /\ AllHeard /\ DisturbedHasReason

LEMMA InvStarts == NativeInit => NativeInv
<1> SUFFICES ASSUME NativeInit PROVE NativeInv  OBVIOUS
<1> USE DEF NativeInit, Exit, Looping, Ended
<1>1. Typed
    <2>1. output \in Seq(Kind) /\ children \in Nat /\ said \in Nat /\ consumed \in Int  OBVIOUS
    <2> QED BY <2>1, Zenon DEF Typed
<1>2. AtSteps /\ Emptied                           BY DEF AtSteps, Emptied
<1>3. CodeIsStatus /\ AllHeard /\ DisturbedHasReason
    BY DEF CodeIsStatus, AllHeard, DisturbedHasReason
<1> QED BY <1>1, <1>2, <1>3 DEF NativeInv

-----------------------------------------------------------------------------
(* The environment *)

\* Lines, forks and exits of the agent and its group keep the invariant: a group
\* that is not owned any more is dead, and a reaped agent does not end again.
LEMMA GroupKeeps ==
    ASSUME NativeInv,
           \/ \E line \in Kind, newline \in BOOLEAN : AgentWrites(line, newline)
           \/ \E c \in Exit : AgentExits(c)
           \/ AgentSeals \/ Forks \/ ChildExits \/ IdReused \/ StopRequested \/ TimeUp
    PROVE  NativeInv'
<1> USE DEF NativeInv, Typed, AtSteps, Emptied, CodeIsStatus, AllHeard, DisturbedHasReason,
            group, observer, limits, Alive, Exit, Kind, Looping, Ended
<1>1. CASE \E line \in Kind, newline \in BOOLEAN : AgentWrites(line, newline)
    BY <1>1 DEF AgentWrites
<1>2. CASE \E c \in Exit : AgentExits(c)  BY <1>2 DEF AgentExits
<1>3. CASE AgentSeals                     BY <1>3 DEF AgentSeals
<1>4. CASE Forks                          BY <1>4 DEF Forks
<1>5. CASE ChildExits                     BY <1>5 DEF ChildExits
<1>6. CASE IdReused                       BY <1>6 DEF IdReused
<1>7. CASE StopRequested                  BY <1>7 DEF StopRequested
<1>8. CASE TimeUp                         BY <1>8 DEF TimeUp
<1> QED BY <1>1, <1>2, <1>3, <1>4, <1>5, <1>6, <1>7, <1>8

-----------------------------------------------------------------------------
(* The observer *)

LEMMA LoopKeeps ==
    ASSUME NativeInv,
           Launch \/ LaunchFails \/ ReadOutput \/ PollExit \/ CheckLimits \/ FinalRead
           \/ Interrupted \/ CallbackRaises
    PROVE  NativeInv'
<1> USE DEF NativeInv, Typed, AtSteps, Emptied, CodeIsStatus, AllHeard, DisturbedHasReason,
            group, observer, limits, Exit, Kind, Looping, Ended
<1>1. CASE Launch          BY <1>1 DEF Launch
<1>2. CASE LaunchFails     BY <1>2 DEF LaunchFails
<1>3. CASE ReadOutput      BY <1>3 DEF ReadOutput, Consume, WholeLines, Foreign
<1>4. CASE PollExit        BY <1>4 DEF PollExit, Reap
<1>5. CASE CheckLimits     BY <1>5 DEF CheckLimits, Over
<1>6. CASE FinalRead       BY <1>6 DEF FinalRead, Consume, LastLine, Cleanup, Foreign
<1>7. CASE Interrupted     BY <1>7 DEF Interrupted, Cleanup
<1>8. CASE CallbackRaises  BY <1>8 DEF CallbackRaises, Cleanup
<1> QED BY <1>1, <1>2, <1>3, <1>4, <1>5, <1>6, <1>7, <1>8

\* A cancellation ends with the group empty, and one that found it alive and
\* ends the call leaves a reason.
LEMMA CancelKeeps ==
    ASSUME NativeInv, CancelBegin \/ Terminate \/ GroupEmpty \/ Kill
    PROVE  NativeInv'
<1> USE DEF NativeInv, Typed, AtSteps, Emptied, CodeIsStatus, AllHeard, DisturbedHasReason,
            group, observer, limits, After, Exit, Kind, Looping, Ended
<1>1. CASE CancelBegin  BY <1>1 DEF CancelBegin, Reap
<1>2. CASE Terminate
    <2> USE <1>2 DEF Terminate, Found, Alive
    <2>1. Typed'               OBVIOUS
    <2>2. AtSteps'               OBVIOUS
    <2>3. Emptied'
        <3>1. CASE Found  BY <3>1
        <3>2. CASE ~Found
            <4>1. agent \in {"none", "reaped"} /\ children = 0  BY <3>2
            <4>2. agent' = agent /\ children' = children /\ owned' = FALSE  BY <3>2
            <4> QED BY <4>1, <4>2
        <3> QED BY <3>1, <3>2
    <2>4. CodeIsStatus'        OBVIOUS
    <2>5. AllHeard'            OBVIOUS
    <2>6. DisturbedHasReason'  OBVIOUS
    <2> QED BY <2>1, <2>2, <2>3, <2>4, <2>5, <2>6
<1>3. CASE GroupEmpty   BY <1>3 DEF GroupEmpty, Reap
<1>4. CASE Kill
    <2> USE <1>4 DEF Kill, Alive
    <2>1. Typed'
        <3>1. said' \in Nat /\ children' \in Nat /\ status' \in Exit  OBVIOUS
        <3>2. disturbed' \in BOOLEAN /\ reason' \in BOOLEAN  OBVIOUS
        <3>3. at' \in {"final"} \cup Ended /\ code' \in {"none"} \cup Exit  OBVIOUS
        <3> QED BY <3>1, <3>2, <3>3
    <2>2. AtSteps'               OBVIOUS
    <2>3. Emptied'             OBVIOUS
    <2>4. CodeIsStatus'        OBVIOUS
    <2>5. AllHeard'            OBVIOUS
    <2>6. DisturbedHasReason'  OBVIOUS
    <2> QED BY <2>1, <2>2, <2>3, <2>4, <2>5, <2>6
<1> QED BY <1>1, <1>2, <1>3, <1>4

LEMMA StutterKeeps == NativeInv /\ UNCHANGED nativeVars => NativeInv'
BY DEF NativeInv, Typed, AtSteps, Emptied, CodeIsStatus, AllHeard, DisturbedHasReason,
       nativeVars, group, observer, limits

\* The invariant holds throughout an invocation.
THEOREM NativeInvHolds == NativeSpec => []NativeInv
<1>1. ASSUME NativeInv, [NativeNext]_nativeVars PROVE NativeInv'
    BY <1>1, GroupKeeps, LoopKeeps, CancelKeeps, StutterKeeps
       DEF NativeNext, ObserverStep, Environment
<1> QED BY InvStarts, <1>1, PTL DEF NativeSpec

\* A verdict other than unknown is one on an undisturbed run, heard to its end.
THEOREM VerdictsEarned == NativeSpec => []VerdictEarned
<1>1. NativeInv => VerdictEarned
    BY DEF NativeInv, Typed, AtSteps, CodeIsStatus, AllHeard, DisturbedHasReason,
           VerdictEarned, State, Ended
<1> QED BY <1>1, NativeInvHolds, PTL

\* No process of the group outlives the call.
THEOREM NothingLeftBehind == NativeSpec => []NothingOutlives
<1>1. NativeInv => NothingOutlives
    BY DEF NativeInv, AtSteps, Emptied, NothingOutlives
<1> QED BY <1>1, NativeInvHolds, PTL

-----------------------------------------------------------------------------
(* One experiment in a sandbox.  What is known of a process at each step   *)
(* (Local), that one process only gets past the directory of the run       *)
(* (Solo), and what the archive owes to that process (Archive) are         *)
(* inductive together.                                                     *)

Started(p) == step[p] \notin {"start", "refused"}
Before == {"start", "refused", "begun", "admit", "arm"}
InSession == {"prepare", "download", "pause", "read", "resume", "got", "command", "wait", "assess"}
Last == {"write", "returned", "raised", "dead"}
CommandEnded(p) == box[p].command \in {"zero", "nonzero", "killed"}

\* Steps before the command: nothing is known yet.
Early(p) == \/ step[p] \in {"create", "prepare", "command", "wait"}
            \/ step[p] \in {"download", "pause", "read", "resume", "got"} /\ wanted[p] = "runtime"

Local(p) ==
    /\ step[p] \in Before => box[p] = NoSandbox /\ res[p] = Fresh /\ ~session[p] /\ ~doubt[p]
    /\ step[p] = "create" => /\ box[p] = NoSandbox /\ ~session[p] /\ ~doubt[p]
                             /\ res[p].cleanup = "unknown" /\ res[p].effect = "unknown"
    /\ Early(p) => res[p].effect = "unknown" /\ res[p].state = "unknown"
    /\ step[p] \in Before \cup {"create", "prepare"} => wanted[p] = "runtime"
    /\ step[p] \in {"pause", "read", "resume"} => kind = "generated"
    /\ step[p] \in InSession => session[p]
    /\ session[p] => box[p].life # "none"
    /\ box[p].life # "none" => res[p].cleanup # "not_created"
    /\ box[p].life = "alive" => res[p].cleanup = "unknown"
    /\ res[p].cleanup = "destroyed" => box[p].life = "gone" /\ step[p] \in Last
    /\ res[p].effect = "known" => CommandEnded(p) /\ box[p].life # "none"
    /\ res[p].state = "succeeded" => box[p].command = "zero"
    /\ doubt[p] => /\ kind = "generated"
                   /\ \/ step[p] \in {"resume", "got"} /\ got[p] = "unknown"
                      \/ step[p] \in Last \cup {"finalize"}
                   /\ step[p] \in {"finalize", "write", "returned"} => res[p].effect = "unknown"

Solo ==
    /\ \A p \in Runner : Started(p) => made
    /\ \A p, q \in Runner : Started(p) /\ Started(q) => p = q

Archive ==
    /\ (\A p \in Runner : ~Started(p)) => disk = NoArchive
    /\ \A p \in Runner : Started(p) =>
           /\ step[p] = "begun" => disk = NoArchive
           /\ step[p] \in {"admit", "arm"} => disk = Fresh
           /\ step[p] = "create" => disk.cleanup = "unknown"
           /\ box[p].life # "none" => disk.cleanup \notin {"not_created", "no_archive"}
           /\ box[p].life = "alive" => disk.cleanup = "unknown"
           /\ disk.cleanup = "destroyed" => step[p] = "returned" /\ disk = res[p]

SandboxInv == SandboxTypeOK /\ (\A p \in Runner : Local(p)) /\ Solo /\ Archive

-----------------------------------------------------------------------------
\* The two properties follow.
LEMMA InvGives == SandboxInv => LeakRecorded /\ TrustEarned
<1> SUFFICES ASSUME SandboxInv PROVE LeakRecorded /\ TrustEarned
  OBVIOUS
<1>1. LeakRecorded
  <2> SUFFICES ASSUME NEW p \in Runner
               PROVE  /\ box[p].life = "alive" => disk.cleanup = "unknown"
                      /\ disk.cleanup \in {"not_created", "no_archive"} => box[p].life = "none"
    BY DEF LeakRecorded
  <2>1. CASE Started(p)
    BY <2>1 DEF SandboxInv, Archive
  <2>2. CASE ~Started(p)
    BY <2>2 DEF SandboxInv, Local, Started, Before, NoSandbox
  <2> QED
    BY <2>1, <2>2
<1>2. TrustEarned
  <2> SUFFICES ASSUME disk.effect = "known", disk.cleanup = "destroyed"
               PROVE  \E p \in Runner :
                        /\ box[p].life = "gone"
                        /\ box[p].command \in {"zero", "nonzero", "killed"}
                        /\ disk.state = "succeeded" => box[p].command = "zero"
                        /\ ~doubt[p]
                        /\ \A q \in Runner \ {p} : box[q].life = "none"
    BY DEF TrustEarned
  <2>1. PICK p \in Runner : Started(p)
    BY DEF SandboxInv, Archive, NoArchive
  <2>2. step[p] = "returned" /\ disk = res[p]
    BY <2>1 DEF SandboxInv, Archive
  <2>3. /\ box[p].life = "gone" /\ box[p].command \in {"zero", "nonzero", "killed"}
        /\ disk.state = "succeeded" => box[p].command = "zero"
        /\ ~doubt[p]
    BY <2>2 DEF SandboxInv, Local, CommandEnded, SandboxTypeOK
  <2>4. ASSUME NEW q \in Runner \ {p} PROVE box[q].life = "none"
    BY <2>1, <2>4 DEF SandboxInv, Solo, Local, Started, Before, NoSandbox
  <2> QED
    BY <2>3, <2>4
<1> QED
  BY <1>1, <1>2

\* It holds at the start.
LEMMA InitInv == SandboxInit => SandboxInv
<1> SUFFICES ASSUME SandboxInit PROVE SandboxInv
  OBVIOUS
<1>1. SandboxTypeOK
  BY DEF SandboxInit, SandboxTypeOK, NoSandbox, Fresh, SandboxStep, RunResult, ExecutionState, Sandbox
<1>2. \A p \in Runner : Local(p)
  BY DEF SandboxInit, Local, Early, Before, InSession, Last, NoSandbox, Fresh
<1>3. Solo /\ Archive
  BY DEF SandboxInit, Solo, Archive, Started, NoArchive
<1> QED
  BY <1>1, <1>2, <1>3 DEF SandboxInv

-----------------------------------------------------------------------------
(* Data: what the operators on results and sandboxes return *)

LEMMA HandledIs ==
  ASSUME NEW r \in RunResult, NEW how \in Exception, NEW o \in BOOLEAN
  PROVE  /\ Handled(r, how, o) \in RunResult
         /\ Handled(r, how, o).cleanup = r.cleanup
         /\ Handled(r, how, o).effect \in {r.effect, "unknown"}
         /\ how = "timeout" => Handled(r, how, o).effect = "unknown"
         /\ Handled(r, how, o).state \in {"unsupported", "unknown", "failed"}
BY DEF Handled, RunResult, Exception, ExecutionState

LEMMA RemovedIs ==
  ASSUME NEW b \in Sandbox
  PROVE  /\ Removed(b) \in Sandbox /\ Removed(b).life = "gone"
         /\ b.command # "running" => Removed(b).command = b.command
         /\ Removed(b).command = "zero" <=> b.command = "zero"
BY DEF Removed, Sandbox

LEMMA NewSandboxIs ==
  /\ NewSandbox \in Sandbox /\ NewSandbox.life = "alive" /\ NewSandbox.command = "none"
  /\ NoSandbox \in Sandbox /\ NoSandbox.life = "none" /\ NoSandbox.command = "none"
BY DEF NewSandbox, NoSandbox, Sandbox

LEMMA FreshIs ==
  /\ Fresh \in RunResult /\ NoArchive \notin RunResult
  /\ Fresh.cleanup = "not_created" /\ Fresh.effect = "unknown" /\ Fresh.state = "unknown"
  /\ NoArchive.cleanup = "no_archive"
BY DEF Fresh, NoArchive, RunResult, ExecutionState

-----------------------------------------------------------------------------
(* A step of one process *)

\* Nothing of another process changes.
Frame(p) ==
    /\ kind' = kind
    /\ \A q \in Runner \ {p} :
           /\ step'[q] = step[q] /\ res'[q] = res[q] /\ session'[q] = session[q]
           /\ wanted'[q] = wanted[q] /\ got'[q] = got[q] /\ doubt'[q] = doubt[q]
           /\ box'[q] = box[q]

\* What the archive owes to process p, taken from Archive.
Owed(p) ==
    /\ step[p] = "begun" => disk = NoArchive
    /\ step[p] \in {"admit", "arm"} => disk = Fresh
    /\ step[p] = "create" => disk.cleanup = "unknown"
    /\ box[p].life # "none" => disk.cleanup \notin {"not_created", "no_archive"}
    /\ box[p].life = "alive" => disk.cleanup = "unknown"
    /\ disk.cleanup = "destroyed" => step[p] = "returned" /\ disk = res[p]

\* After the directory is made, a step keeps the invariant when it keeps the
\* facts of its own process.
LEMMA StepOfOne ==
  ASSUME SandboxInv, NEW p \in Runner, Started(p), Frame(p), SandboxTypeOK', Local(p)',
         made' = made, Started(p)', Owed(p)'
  PROVE  SandboxInv'
<1>1. ASSUME NEW q \in Runner PROVE Local(q)'
  BY <1>1 DEF SandboxInv, Local, Early, CommandEnded, Frame
<1>2. \A q \in Runner : Started(q)' => q = p
  BY DEF SandboxInv, Solo, Started, Frame
<1>3. Solo'
  BY <1>2 DEF SandboxInv, Solo, Started, Frame
<1>4. Archive'
  BY <1>2 DEF Archive, Owed, Started
<1> QED
  BY <1>1, <1>3, <1>4 DEF SandboxInv

\* What is known of a process that has made the directory.
LEMMA Known ==
  ASSUME SandboxInv, NEW p \in Runner
  PROVE  /\ Local(p) /\ SandboxTypeOK
         /\ Started(p) => made /\ Owed(p)
         /\ res[p] \in RunResult /\ box[p] \in Sandbox /\ step[p] \in SandboxStep
BY DEF SandboxInv, Archive, Owed, Solo, SandboxTypeOK

\* An exception leads to the cleanup with a result that is not a success.
LEMMA ThrowIs ==
  ASSUME SandboxTypeOK, NEW p \in Runner, NEW r \in RunResult, NEW how \in Exception, Throw(p, r, how)
  PROVE  /\ step' \in [Runner -> SandboxStep] /\ res' \in [Runner -> RunResult]
         /\ step'[p] = "finalize"
         /\ \A q \in Runner \ {p} : step'[q] = step[q] /\ res'[q] = res[q]
         /\ res'[p].cleanup = r.cleanup /\ res'[p].effect \in {r.effect, "unknown"}
         /\ how = "timeout" => res'[p].effect = "unknown"
         /\ res'[p].state \in {"unsupported", "unknown", "failed"}
<1>1. session[p] \in BOOLEAN
  BY DEF SandboxTypeOK
<1> DEFINE h == Handled(r, how, session[p])
<1>2. /\ h \in RunResult /\ h.cleanup = r.cleanup /\ h.effect \in {r.effect, "unknown"}
      /\ how = "timeout" => h.effect = "unknown"
      /\ h.state \in {"unsupported", "unknown", "failed"}
  BY <1>1, HandledIs
<1>3. res' = [res EXCEPT ![p] = h] /\ step' = [step EXCEPT ![p] = "finalize"]
  BY DEF Throw, Goto
<1> HIDE DEF h
<1> QED
  BY <1>2, <1>3 DEF SandboxTypeOK, SandboxStep

LEMMA ThrowLocal ==
  ASSUME SandboxInv, NEW p \in Runner, NEW r \in RunResult, NEW how \in Exception, Throw(p, r, how),
         kind' = kind, session'[p] = session[p], doubt'[p] = doubt[p],
         box'[p] \in Sandbox,
         session[p] => box'[p].life # "none",
         box'[p].life # "none" => r.cleanup # "not_created",
         box'[p].life = "alive" => r.cleanup = "unknown",
         r.cleanup # "destroyed",
         r.effect = "known" => CommandEnded(p)' /\ box'[p].life # "none",
         doubt[p] => how = "timeout" /\ kind = "generated"
  PROVE  Local(p)'
<1>1. SandboxTypeOK
  BY DEF SandboxInv
<1> QED
  BY <1>1, ThrowIs DEF Local, Early, Before, InSession, Last

\* An exception in a process that has made the directory keeps the invariant.
LEMMA ThrowKeeps ==
  ASSUME SandboxInv, NEW p \in Runner, Started(p), step[p] # "returned",
         NEW r \in RunResult, NEW how \in Exception, Throw(p, r, how),
         UNCHANGED <<kind, made, disk, session, got, doubt>>,
         wanted' \in [Runner -> {"runtime", "outputs"}], box' \in [Runner -> Sandbox],
         \A q \in Runner \ {p} : wanted'[q] = wanted[q] /\ box'[q] = box[q],
         session[p] => box'[p].life # "none",
         box'[p].life # "none" => r.cleanup # "not_created" /\ disk.cleanup \notin {"not_created", "no_archive"},
         box'[p].life = "alive" => r.cleanup = "unknown" /\ disk.cleanup = "unknown",
         r.cleanup # "destroyed",
         r.effect = "known" => CommandEnded(p)' /\ box'[p].life # "none",
         doubt[p] => how = "timeout" /\ kind = "generated"
  PROVE  SandboxInv'
<1>1. SandboxTypeOK /\ Owed(p)
  BY Known
<1>2. box'[p] \in Sandbox
  OBVIOUS
<1>3. SandboxTypeOK'
  BY <1>1, ThrowIs DEF SandboxTypeOK
<1>4. Frame(p) /\ made' = made /\ Started(p)'
  BY <1>1, ThrowIs DEF Frame, Started
<1>5. Local(p)'
  BY <1>2, ThrowLocal
<1>6. Owed(p)'
  BY <1>1, ThrowIs DEF Owed
<1> QED
  BY <1>3, <1>4, <1>5, <1>6, StepOfOne

-----------------------------------------------------------------------------
(* Every action *)

LEMMA MakeArchiveKeeps ==
  ASSUME SandboxInv, NEW p \in Runner, MakeArchive(p) PROVE SandboxInv'
<1>1. SandboxTypeOK'
  BY DEF SandboxInv, SandboxTypeOK, MakeArchive, Goto, SandboxStep
<1>2. ASSUME NEW q \in Runner PROVE Local(q)'
  BY <1>2 DEF SandboxInv, SandboxTypeOK, MakeArchive, Goto, Local, Early, Before, InSession, Last,
              CommandEnded
<1>3. Solo'
  BY DEF SandboxInv, SandboxTypeOK, MakeArchive, Goto, Solo, Started
<1>4. Archive'
  BY DEF SandboxInv, SandboxTypeOK, MakeArchive, Goto, Solo, Started, Archive, Local, Before,
         NoSandbox, NoArchive
<1> QED
  BY <1>1, <1>2, <1>3, <1>4 DEF SandboxInv

LEMMA WritePlanKeeps ==
  ASSUME SandboxInv, NEW p \in Runner, WritePlan(p) PROVE SandboxInv'
<1>1. Local(p) /\ SandboxTypeOK /\ Started(p) /\ Owed(p) /\ res[p] = Fresh
  BY Known DEF WritePlan, Started, Local, Before
<1>2. SandboxTypeOK'
  BY <1>1 DEF WritePlan, Goto, SandboxTypeOK, SandboxStep
<1>3. Frame(p) /\ made' = made /\ Started(p)'
  BY <1>1 DEF WritePlan, Goto, Frame, SandboxTypeOK, Started
<1>4. Local(p)'
  BY <1>1 DEF WritePlan, Goto, SandboxTypeOK, Local, Early, Before, InSession, Last, CommandEnded,
              NoSandbox, Fresh
<1>5. Owed(p)'
  BY <1>1 DEF WritePlan, Goto, SandboxTypeOK, Owed, Local, Before, NoSandbox, Fresh, NoArchive
<1> QED
  BY <1>1, <1>2, <1>3, <1>4, <1>5, StepOfOne

LEMMA AdmitKeeps ==
  ASSUME SandboxInv, NEW p \in Runner, Admit(p) PROVE SandboxInv'
<1>1. /\ Local(p) /\ SandboxTypeOK /\ Started(p) /\ Owed(p)
      /\ res[p] = Fresh /\ box[p] = NoSandbox /\ ~session[p] /\ ~doubt[p] /\ disk = Fresh
  BY Known DEF Admit, Started, Local, Before, Owed
<1>2. CASE Goto(p, "arm") /\ UNCHANGED res
  <2>1. SandboxTypeOK'
    BY <1>1, <1>2 DEF Admit, Goto, SandboxTypeOK, SandboxStep
  <2>2. Frame(p) /\ made' = made /\ Started(p)'
    BY <1>1, <1>2 DEF Admit, Goto, Frame, SandboxTypeOK, Started
  <2>3. Local(p)'
    BY <1>1, <1>2 DEF Admit, Goto, SandboxTypeOK, Local, Early, Before, InSession, Last, CommandEnded,
                      NoSandbox, Fresh
  <2>4. Owed(p)'
    BY <1>1, <1>2 DEF Admit, Goto, SandboxTypeOK, Owed, NoSandbox, Fresh, NoArchive
  <2> QED
    BY <1>1, <2>1, <2>2, <2>3, <2>4, StepOfOne
<1>3. ASSUME NEW how \in {"unsupported", "other"}, Throw(p, res[p], how) PROVE SandboxInv'
  <2>1. how \in Exception /\ res[p] \in RunResult
    BY <1>1, FreshIs DEF Exception
  <2>2. UNCHANGED <<kind, made, disk, session, wanted, got, doubt, box>>
    BY DEF Admit
  <2> QED
    BY <1>1, <1>3, <2>1, <2>2, ThrowKeeps, FreshIs, NewSandboxIs DEF Admit, SandboxTypeOK
<1> QED
  BY <1>2, <1>3 DEF Admit

LEMMA ArmKeeps ==
  ASSUME SandboxInv, NEW p \in Runner, Arm(p) PROVE SandboxInv'
<1>1. /\ Local(p) /\ SandboxTypeOK /\ Started(p) /\ Owed(p)
      /\ res[p] = Fresh /\ box[p] = NoSandbox /\ ~session[p] /\ ~doubt[p] /\ disk = Fresh
      /\ wanted[p] = "runtime" /\ step[p] = "arm"
  BY Known DEF Arm, Started, Local, Before, Owed
<1>2. /\ Armed(p) \in RunResult /\ Armed(p).cleanup = "unknown"
      /\ Armed(p).effect = "unknown" /\ Armed(p).state = "unknown"
  BY <1>1, FreshIs DEF Armed, RunResult, Fresh
<1>3. CASE Persist(p, Armed(p)) /\ Goto(p, "create")
  <2>1. SandboxTypeOK'
    BY <1>1, <1>2, <1>3 DEF Arm, Persist, Goto, SandboxTypeOK, SandboxStep
  <2>2. Frame(p) /\ made' = made /\ Started(p)'
    BY <1>1, <1>3 DEF Arm, Persist, Goto, Frame, SandboxTypeOK, Started
  <2>3. res'[p] = Armed(p) /\ disk' = Armed(p) /\ step'[p] = "create"
    BY <1>1, <1>3 DEF Persist, Goto, SandboxTypeOK
  <2>4. UNCHANGED <<kind, made, session, wanted, got, doubt, box>>
    BY DEF Arm
  <2>5. Local(p)'
    BY <1>1, <1>2, <2>3, <2>4, NewSandboxIs DEF Local, Early, Before, InSession, Last
  <2>6. Owed(p)'
    BY <1>1, <1>2, <2>3, <2>4, NewSandboxIs DEF Owed
  <2> QED
    BY <1>1, <2>1, <2>2, <2>5, <2>6, StepOfOne
<1>4. CASE Throw(p, Armed(p), "other") /\ UNCHANGED disk
  BY <1>1, <1>2, <1>4, ThrowKeeps, NewSandboxIs DEF Arm, SandboxTypeOK, Exception
<1> QED
  BY <1>3, <1>4 DEF Arm

LEMMA CreateKeeps ==
  ASSUME SandboxInv, NEW p \in Runner, Create(p) PROVE SandboxInv'
<1>1. /\ Local(p) /\ SandboxTypeOK /\ Started(p) /\ Owed(p) /\ step[p] = "create"
      /\ box[p] = NoSandbox /\ ~session[p] /\ ~doubt[p] /\ disk.cleanup = "unknown"
      /\ res[p] \in RunResult /\ res[p].cleanup = "unknown" /\ res[p].effect = "unknown"
      /\ res[p].state = "unknown" /\ wanted[p] = "runtime"
  BY Known DEF Create, Started, Local, Before, Early, Owed
<1>2. CASE /\ box' = [box EXCEPT ![p] = NewSandbox]
           /\ session' = [session EXCEPT ![p] = TRUE]
           /\ Goto(p, "prepare") /\ UNCHANGED res
  <2>1. SandboxTypeOK'
    BY <1>1, <1>2, NewSandboxIs DEF Create, Goto, SandboxTypeOK, SandboxStep
  <2>2. Frame(p) /\ made' = made /\ Started(p)'
    BY <1>1, <1>2 DEF Create, Goto, Frame, SandboxTypeOK, Started
  <2>3. box'[p] = NewSandbox /\ session'[p] /\ step'[p] = "prepare"
    BY <1>1, <1>2 DEF Goto, SandboxTypeOK
  <2>4. UNCHANGED <<kind, made, disk, res, wanted, got, doubt>>
    BY <1>2 DEF Create
  <2>5. Local(p)'
    BY <1>1, <2>3, <2>4, NewSandboxIs DEF Local, Early, Before, InSession, Last
  <2>6. Owed(p)'
    BY <1>1, <2>3, <2>4 DEF Owed
  <2> QED
    BY <1>1, <2>1, <2>2, <2>5, <2>6, StepOfOne
<1>3. ASSUME NEW made_anyway \in BOOLEAN, NEW how \in {"timeout", "other"},
             box' = IF made_anyway THEN [box EXCEPT ![p] = NewSandbox] ELSE box,
             Throw(p, res[p], how), UNCHANGED session
      PROVE  SandboxInv'
  <2>1. box' \in [Runner -> Sandbox] /\ \A q \in Runner \ {p} : box'[q] = box[q]
    BY <1>1, <1>3, NewSandboxIs DEF SandboxTypeOK
  <2> QED
    BY <1>1, <1>3, <2>1, ThrowKeeps DEF Create, SandboxTypeOK, Exception
<1>4. CASE Throw(p, res[p], "unsupported") /\ UNCHANGED <<session, box>>
  BY <1>1, <1>4, ThrowKeeps DEF Create, SandboxTypeOK, Exception
<1> QED
  BY <1>2, <1>3, <1>4 DEF Create

\* What is known while the session is open.
LEMMA Open ==
  ASSUME SandboxInv, NEW p \in Runner, step[p] \in InSession
  PROVE  /\ Local(p) /\ SandboxTypeOK /\ Started(p) /\ Owed(p) /\ session[p]
         /\ box[p] \in Sandbox /\ box[p].life # "none"
         /\ res[p] \in RunResult /\ res[p].cleanup \notin {"not_created", "destroyed"}
         /\ disk.cleanup \notin {"not_created", "no_archive", "destroyed"}
         /\ box[p].life = "alive" => res[p].cleanup = "unknown" /\ disk.cleanup = "unknown"
         /\ doubt[p] => /\ kind = "generated" /\ step[p] \in {"resume", "got"} /\ got[p] = "unknown"
BY Known DEF Started, Local, InSession, Owed, Last

LEMMA UploadAndProbeKeeps ==
  ASSUME SandboxInv, NEW p \in Runner, UploadAndProbe(p) PROVE SandboxInv'
<1>1. step[p] = "prepare" /\ step[p] \in InSession
  BY DEF UploadAndProbe, InSession
<1>2. /\ Local(p) /\ SandboxTypeOK /\ Started(p) /\ Owed(p) /\ ~doubt[p]
      /\ res[p].effect = "unknown" /\ res[p].state = "unknown" /\ res[p] \in RunResult
  BY <1>1, Open DEF Local, Early
<1>3. UNCHANGED <<kind, made, disk, session, wanted, got, doubt, box>>
  BY DEF UploadAndProbe
<1>4. CASE Goto(p, "download") /\ UNCHANGED res
  <2>1. SandboxTypeOK' /\ Frame(p) /\ Started(p)' /\ step'[p] = "download"
    BY <1>1, <1>2, <1>3, <1>4 DEF Goto, SandboxTypeOK, SandboxStep, Frame, Started
  <2>2. Local(p)'
    BY <1>1, <1>2, <1>3, <1>4, <2>1 DEF Local, Early, Before, InSession, Last, CommandEnded
  <2>3. Owed(p)'
    BY <1>1, <1>2, <1>3, <1>4, <2>1 DEF Owed
  <2> QED
    BY <1>2, <1>3, <2>1, <2>2, <2>3, StepOfOne
<1>5. ASSUME NEW state \in {"failed", "timeout", "unknown"},
             res' = [res EXCEPT ![p].state = state], Goto(p, "finalize")
      PROVE  SandboxInv'
  <2>1. /\ res' \in [Runner -> RunResult] /\ res'[p].state = state
        /\ res'[p].effect = res[p].effect /\ res'[p].cleanup = res[p].cleanup
        /\ \A q \in Runner \ {p} : res'[q] = res[q]
    BY <1>2, <1>5 DEF SandboxTypeOK, RunResult, ExecutionState
  <2>2. SandboxTypeOK' /\ Frame(p) /\ Started(p)' /\ step'[p] = "finalize"
    BY <1>1, <1>2, <1>3, <1>5, <2>1 DEF Goto, SandboxTypeOK, SandboxStep, Frame, Started
  <2>3. Local(p)'
    BY <1>1, <1>2, <1>3, <1>5, <2>1, <2>2 DEF Local, Early, Before, InSession, Last, CommandEnded
  <2>4. Owed(p)'
    BY <1>1, <1>2, <1>3, <2>1, <2>2 DEF Owed
  <2> QED
    BY <1>2, <1>3, <2>2, <2>3, <2>4, StepOfOne
<1>6. ASSUME NEW how \in Exception, Throw(p, res[p], how) PROVE SandboxInv'
  BY <1>1, <1>2, <1>3, <1>6, Open, ThrowKeeps DEF SandboxTypeOK
<1> QED
  BY <1>4, <1>5, <1>6 DEF UploadAndProbe

\* A step of a download, from and to a point inside it.
LEMMA DownloadStepKeeps ==
  ASSUME SandboxInv, NEW p \in Runner, step[p] \in {"download", "pause", "read", "resume"},
         step'[p] \in {"pause", "read", "resume", "got"},
         Frame(p), SandboxTypeOK', UNCHANGED <<kind, made, disk, res, session, wanted>>,
         box'[p].life = box[p].life, box'[p].command = box[p].command,
         step'[p] \in {"pause", "read", "resume"} => kind = "generated",
         doubt'[p] => kind = "generated" /\ step'[p] \in {"resume", "got"} /\ got'[p] = "unknown"
  PROVE  SandboxInv'
<1>1. step[p] \in InSession
  BY DEF InSession
<1>2. Local(p) /\ SandboxTypeOK /\ Started(p) /\ Owed(p) /\ session[p]
  BY <1>1, Open
<1>3. Started(p)' /\ Owed(p)'
  BY <1>2 DEF Started, Owed
<1>4. Local(p)'
  BY <1>2 DEF Local, Early, Before, InSession, Last, CommandEnded
<1> QED
  BY <1>2, <1>3, <1>4, StepOfOne

\* Freezing and waking a sandbox changes nothing else of it.
LEMMA PausedIs ==
  ASSUME SandboxTypeOK, NEW p \in Runner, NEW b \in BOOLEAN,
         box' = [box EXCEPT ![p].paused = b]
  PROVE  /\ box' \in [Runner -> Sandbox]
         /\ box'[p].life = box[p].life /\ box'[p].command = box[p].command
         /\ \A q \in Runner \ {p} : box'[q] = box[q]
BY DEF SandboxTypeOK, Sandbox

LEMMA DownloadKeeps ==
  ASSUME SandboxInv, NEW p \in Runner, Download(p) PROVE SandboxInv'
<1>1. SandboxTypeOK /\ step[p] = "download"
  BY Known DEF Download
<1>2. ~doubt[p]
  BY <1>1, Known DEF Local, Last
<1>3. SandboxTypeOK'
  BY <1>1 DEF Download, Goto, Ending, SandboxTypeOK, SandboxStep
<1>4. Frame(p)
  BY <1>1 DEF Download, Goto, Ending, SandboxTypeOK, Frame
<1>5. /\ step'[p] \in {"pause", "got"} /\ (step'[p] = "pause" => kind = "generated")
      /\ UNCHANGED <<kind, made, disk, res, session, wanted, doubt, box>>
  BY <1>1 DEF Download, Goto, SandboxTypeOK
<1> QED
  BY <1>1, <1>2, <1>3, <1>4, <1>5, DownloadStepKeeps

LEMMA PauseKeeps ==
  ASSUME SandboxInv, NEW p \in Runner, Pause(p) PROVE SandboxInv'
<1>1. SandboxTypeOK /\ step[p] = "pause" /\ kind = "generated" /\ ~doubt[p]
  BY Known DEF Pause, Local, Last
<1>2. UNCHANGED <<kind, made, disk, res, session, wanted>>
  BY DEF Pause
<1>3. /\ box' \in [Runner -> Sandbox]
      /\ box'[p].life = box[p].life /\ box'[p].command = box[p].command
      /\ \A q \in Runner \ {p} : box'[q] = box[q]
  BY <1>1, PausedIs DEF Pause, SandboxTypeOK
<1>4. CASE Goto(p, "read") /\ UNCHANGED <<got, doubt>>
  <2>1. SandboxTypeOK' /\ Frame(p) /\ step'[p] = "read"
    BY <1>1, <1>2, <1>3, <1>4 DEF Goto, SandboxTypeOK, SandboxStep, Frame
  <2> QED
    BY <1>1, <1>2, <1>3, <1>4, <2>1, DownloadStepKeeps
<1>5. CASE Doubtful(p) /\ Goto(p, "resume")
  <2>1. SandboxTypeOK' /\ Frame(p) /\ step'[p] = "resume" /\ got'[p] = "unknown"
    BY <1>1, <1>2, <1>3, <1>5 DEF Goto, Doubtful, Ending, SandboxTypeOK, SandboxStep, Frame
  <2> QED
    BY <1>1, <1>2, <1>3, <2>1, DownloadStepKeeps
<1> QED
  BY <1>4, <1>5 DEF Pause

LEMMA ReadFrozenKeeps ==
  ASSUME SandboxInv, NEW p \in Runner, ReadFrozen(p) PROVE SandboxInv'
<1>1. SandboxTypeOK /\ step[p] = "read" /\ kind = "generated" /\ ~doubt[p]
  BY Known DEF ReadFrozen, Local, Last
<1>2. UNCHANGED <<kind, made, disk, res, session, wanted, box>>
  BY DEF ReadFrozen
<1>3. SandboxTypeOK'
  BY <1>1, <1>2 DEF ReadFrozen, Goto, Doubtful, Ending, SandboxTypeOK, SandboxStep
<1>4. Frame(p) /\ step'[p] = "resume" /\ (doubt'[p] => got'[p] = "unknown")
  BY <1>1, <1>2 DEF ReadFrozen, Goto, Doubtful, Ending, SandboxTypeOK, Frame
<1> QED
  BY <1>1, <1>2, <1>3, <1>4, DownloadStepKeeps

LEMMA ResumeKeeps ==
  ASSUME SandboxInv, NEW p \in Runner, Resume(p) PROVE SandboxInv'
<1>1. /\ SandboxTypeOK /\ step[p] = "resume" /\ kind = "generated"
      /\ doubt[p] => got[p] = "unknown"
  BY Known DEF Resume, Local, Last
<1>2. UNCHANGED <<kind, made, disk, res, session, wanted>>
  BY DEF Resume
<1>3. /\ box' \in [Runner -> Sandbox]
      /\ box'[p].life = box[p].life /\ box'[p].command = box[p].command
      /\ \A q \in Runner \ {p} : box'[q] = box[q]
  BY <1>1, PausedIs DEF Resume, SandboxTypeOK
<1>4. SandboxTypeOK'
  BY <1>1, <1>2, <1>3 DEF Resume, Goto, Doubtful, Ending, SandboxTypeOK, SandboxStep
<1>5. Frame(p) /\ step'[p] = "got" /\ (doubt'[p] => got'[p] = "unknown")
  BY <1>1, <1>2, <1>3 DEF Resume, Goto, Doubtful, Ending, SandboxTypeOK, Frame
<1> QED
  BY <1>1, <1>2, <1>3, <1>4, <1>5, DownloadStepKeeps

LEMMA RuntimeReadKeeps ==
  ASSUME SandboxInv, NEW p \in Runner, RuntimeRead(p) PROVE SandboxInv'
<1>1. step[p] = "got" /\ step[p] \in InSession /\ wanted[p] = "runtime"
  BY DEF RuntimeRead, InSession
<1>2. /\ Local(p) /\ SandboxTypeOK /\ Started(p) /\ Owed(p)
      /\ res[p].effect = "unknown" /\ res[p].state = "unknown" /\ res[p] \in RunResult
      /\ doubt[p] => kind = "generated" /\ got[p] = "unknown"
  BY <1>1, Open DEF Local, Early
<1>3. UNCHANGED <<kind, made, disk, session, wanted, got, doubt, box>>
  BY DEF RuntimeRead
<1>4. CASE got[p] = "ok" /\ Goto(p, "command") /\ UNCHANGED res
  <2>1. SandboxTypeOK' /\ Frame(p) /\ Started(p)' /\ step'[p] = "command"
    BY <1>1, <1>2, <1>3, <1>4 DEF Goto, SandboxTypeOK, SandboxStep, Frame, Started
  <2>2. Local(p)'
    BY <1>1, <1>2, <1>3, <1>4, <2>1 DEF Local, Early, Before, InSession, Last, CommandEnded
  <2>3. Owed(p)'
    BY <1>1, <1>2, <1>3, <1>4, <2>1 DEF Owed
  <2> QED
    BY <1>2, <1>3, <2>1, <2>2, <2>3, StepOfOne
<1>5. ASSUME NEW how \in Exception, Throw(p, res[p], how), how # "timeout" => got[p] # "unknown"
      PROVE  SandboxInv'
  BY <1>1, <1>2, <1>3, <1>5, Open, ThrowKeeps DEF SandboxTypeOK
<1> QED
  BY <1>4, <1>5 DEF RuntimeRead, Exception

LEMMA StartCommandKeeps ==
  ASSUME SandboxInv, NEW p \in Runner, StartCommand(p) PROVE SandboxInv'
<1>1. step[p] = "command" /\ step[p] \in InSession
  BY DEF StartCommand, InSession
<1>2. /\ Local(p) /\ SandboxTypeOK /\ Started(p) /\ Owed(p) /\ ~doubt[p]
      /\ res[p].effect = "unknown" /\ res[p].state = "unknown" /\ res[p] \in RunResult
  BY <1>1, Open DEF Local, Early
<1>3. UNCHANGED <<kind, made, disk, session, wanted, got, doubt>>
  BY DEF StartCommand
<1>4. ASSUME box' = Launched(p) \/ box' = box
      PROVE  /\ box' \in [Runner -> Sandbox] /\ box'[p].life = box[p].life
             /\ \A q \in Runner \ {p} : box'[q] = box[q]
  <2>1. CASE box' = Launched(p)
    BY <1>2, <2>1 DEF Launched, SandboxTypeOK, Sandbox
  <2>2. CASE box' = box
    BY <1>2, <2>2 DEF SandboxTypeOK
  <2> QED
    BY <1>4, <2>1, <2>2
<1>5. CASE box' = Launched(p) /\ Goto(p, "wait") /\ UNCHANGED res
  <2>1. SandboxTypeOK' /\ Frame(p) /\ Started(p)' /\ step'[p] = "wait"
    BY <1>1, <1>2, <1>3, <1>4, <1>5 DEF Goto, SandboxTypeOK, SandboxStep, Frame, Started
  <2>2. Local(p)'
    BY <1>1, <1>2, <1>3, <1>4, <1>5, <2>1 DEF Local, Early, Before, InSession, Last, CommandEnded
  <2>3. Owed(p)'
    BY <1>1, <1>2, <1>3, <1>4, <1>5, <2>1 DEF Owed
  <2> QED
    BY <1>2, <1>3, <2>1, <2>2, <2>3, StepOfOne
<1>6. ASSUME NEW how \in {"timeout", "other"}, box' = Launched(p) \/ box' = box,
             Throw(p, res[p], how)
      PROVE  SandboxInv'
  <2>1. how \in Exception
    BY DEF Exception
  <2> QED
    BY <1>1, <1>2, <1>3, <1>4, <1>6, <2>1, Open, ThrowKeeps DEF SandboxTypeOK
<1> QED
  BY <1>5, <1>6 DEF StartCommand

\* What a record says of the command holds of the sandbox.
LEMMA RecordedIs ==
  ASSUME SandboxTypeOK, NEW p \in Runner, NEW state \in Verdict(p)
  PROVE  /\ Recorded(p, state) \in RunResult
         /\ Recorded(p, state).state = state
         /\ Recorded(p, state).cleanup = res[p].cleanup
         /\ Recorded(p, state).effect = "known" => CommandEnded(p)
         /\ state = "succeeded" => box[p].command = "zero"
<1>1. res[p] \in RunResult /\ state \in {"unknown", "succeeded", "failed", "timeout"}
  BY DEF SandboxTypeOK, Verdict
<1>2. /\ Recorded(p, state) \in RunResult
      /\ Recorded(p, state).state = state /\ Recorded(p, state).cleanup = res[p].cleanup
      /\ Recorded(p, state).effect = "known" => state \in {"succeeded", "failed", "timeout"}
  BY <1>1 DEF Recorded, RunResult, ExecutionState
<1>3. state \in {"succeeded", "failed", "timeout"} => CommandEnded(p)
  BY DEF Verdict, CommandEnded
<1>4. state = "succeeded" => box[p].command = "zero"
  BY DEF Verdict
<1> QED
  BY <1>2, <1>3, <1>4

LEMMA RecordKeeps ==
  ASSUME SandboxInv, NEW p \in Runner, Record(p) PROVE SandboxInv'
<1>1. step[p] = "wait" /\ step[p] \in InSession
  BY DEF Record, InSession
<1>2. /\ Local(p) /\ SandboxTypeOK /\ Started(p) /\ Owed(p) /\ ~doubt[p]
      /\ res[p].effect = "unknown" /\ res[p].state = "unknown" /\ res[p] \in RunResult
      /\ res[p].cleanup = "unknown" /\ box[p].life # "none"
  BY <1>1, Open DEF Local, Early, RunResult
<1>3. UNCHANGED <<kind, made, session, got, doubt, box>>
  BY DEF Record
<1>4. /\ wanted' \in [Runner -> {"runtime", "outputs"}] /\ wanted'[p] = "outputs"
      /\ \A q \in Runner \ {p} : wanted'[q] = wanted[q]
  BY <1>2 DEF Record, SandboxTypeOK
<1>5. ASSUME NEW state \in Verdict(p), Persist(p, Recorded(p, state)), Goto(p, "download")
      PROVE  SandboxInv'
  <2> DEFINE r == Recorded(p, state)
  <2>1. /\ r \in RunResult /\ r.cleanup = "unknown"
        /\ r.effect = "known" => CommandEnded(p)
        /\ r.state = "succeeded" => box[p].command = "zero"
    BY <1>2, RecordedIs
  <2>2. /\ res' = [res EXCEPT ![p] = r] /\ disk' = r
        /\ step' = [step EXCEPT ![p] = "download"]
    BY <1>5 DEF Persist, Goto
  <2> HIDE DEF r
  <2>3. SandboxTypeOK' /\ Frame(p) /\ Started(p)' /\ step'[p] = "download" /\ res'[p] = r
    BY <1>2, <1>3, <1>4, <2>1, <2>2 DEF SandboxTypeOK, SandboxStep, Frame, Started
  <2>4. Local(p)'
    BY <1>1, <1>2, <1>3, <1>4, <2>1, <2>3 DEF Local, Early, Before, InSession, Last, CommandEnded
  <2>5. Owed(p)'
    BY <1>2, <1>3, <2>1, <2>2, <2>3 DEF Owed
  <2> QED
    BY <1>2, <1>3, <2>3, <2>4, <2>5, StepOfOne
<1>6. ASSUME NEW state \in Verdict(p), NEW r \in {res[p], Recorded(p, state)},
             Throw(p, r, "other"), UNCHANGED disk
      PROVE  SandboxInv'
  <2>1. r \in RunResult /\ r.cleanup = "unknown" /\ (r.effect = "known" => CommandEnded(p)')
    BY <1>2, <1>3, RecordedIs DEF CommandEnded
  <2> QED
    BY <1>1, <1>2, <1>3, <1>4, <1>6, <2>1, Open, ThrowKeeps DEF SandboxTypeOK, Exception
<1>7. ASSUME NEW how \in {"timeout", "other"}, Throw(p, res[p], how), UNCHANGED disk
      PROVE  SandboxInv'
  <2>1. how \in Exception
    BY DEF Exception
  <2> QED
    BY <1>1, <1>2, <1>3, <1>4, <1>7, <2>1, Open, ThrowKeeps DEF SandboxTypeOK
<1> QED
  BY <1>5, <1>6, <1>7 DEF Record

LEMMA OutputsReadKeeps ==
  ASSUME SandboxInv, NEW p \in Runner, OutputsRead(p) PROVE SandboxInv'
<1>1. step[p] = "got" /\ step[p] \in InSession /\ wanted[p] = "outputs"
  BY DEF OutputsRead, InSession
<1>2. /\ Local(p) /\ SandboxTypeOK /\ Started(p) /\ Owed(p) /\ res[p] \in RunResult
      /\ doubt[p] => kind = "generated" /\ got[p] = "unknown"
  BY <1>1, Open
<1>3. UNCHANGED <<kind, made, disk, session, wanted, got, doubt, box>>
  BY DEF OutputsRead
<1>4. CASE kind = "generated" /\ got[p] = "unknown"
  <2>1. Throw(p, res[p], "timeout")
    BY <1>4 DEF OutputsRead
  <2>2. res[p].effect = "known" => CommandEnded(p)' /\ box'[p].life # "none"
    BY <1>2, <1>3 DEF Local, CommandEnded
  <2> QED
    BY <1>1, <1>2, <1>3, <1>4, <2>1, <2>2, Open, ThrowKeeps DEF SandboxTypeOK, Exception
<1>5. CASE ~(kind = "generated" /\ got[p] = "unknown")
  <2> DEFINE r == IF got[p] = "ok" THEN res[p] ELSE WithoutArtifact(p)
  <2>1. res' = [res EXCEPT ![p] = r] /\ step' = [step EXCEPT ![p] = "assess"]
    BY <1>5 DEF OutputsRead, Goto
  <2>2. /\ r \in RunResult /\ r.effect = res[p].effect /\ r.cleanup = res[p].cleanup
        /\ r.state = "succeeded" => res[p].state = "succeeded"
    BY <1>2 DEF WithoutArtifact, RunResult, ExecutionState
  <2> HIDE DEF r
  <2>3. SandboxTypeOK' /\ Frame(p) /\ Started(p)' /\ step'[p] = "assess" /\ res'[p] = r
    BY <1>2, <1>3, <2>1, <2>2 DEF SandboxTypeOK, SandboxStep, Frame, Started
  <2>4. Local(p)'
    BY <1>1, <1>2, <1>3, <1>5, <2>2, <2>3 DEF Local, Early, Before, InSession, Last, CommandEnded
  <2>5. Owed(p)'
    BY <1>1, <1>2, <1>3, <2>3 DEF Owed
  <2> QED
    BY <1>2, <1>3, <2>3, <2>4, <2>5, StepOfOne
<1> QED
  BY <1>4, <1>5

LEMMA AssessOutputsKeeps ==
  ASSUME SandboxInv, NEW p \in Runner, AssessOutputs(p) PROVE SandboxInv'
<1>1. step[p] = "assess" /\ step[p] \in InSession
  BY DEF AssessOutputs, InSession
<1>2. Local(p) /\ SandboxTypeOK /\ Started(p) /\ Owed(p) /\ ~doubt[p] /\ res[p] \in RunResult
  BY <1>1, Open
<1>3. UNCHANGED <<kind, made, disk, session, wanted, got, doubt, box>>
  BY DEF AssessOutputs
<1>4. CASE Goto(p, "finalize") /\ UNCHANGED res
  <2>1. SandboxTypeOK' /\ Frame(p) /\ Started(p)' /\ step'[p] = "finalize"
    BY <1>1, <1>2, <1>3, <1>4 DEF Goto, SandboxTypeOK, SandboxStep, Frame, Started
  <2>2. Local(p)'
    BY <1>1, <1>2, <1>3, <1>4, <2>1 DEF Local, Early, Before, InSession, Last, CommandEnded
  <2>3. Owed(p)'
    BY <1>1, <1>2, <1>3, <1>4, <2>1 DEF Owed
  <2> QED
    BY <1>2, <1>3, <2>1, <2>2, <2>3, StepOfOne
<1>5. CASE Throw(p, res[p], "other")
  <2>1. res[p].effect = "known" => CommandEnded(p)' /\ box'[p].life # "none"
    BY <1>2, <1>3 DEF Local, CommandEnded
  <2> QED
    BY <1>1, <1>2, <1>3, <1>5, <2>1, Open, ThrowKeeps DEF SandboxTypeOK, Exception
<1> QED
  BY <1>4, <1>5 DEF AssessOutputs

LEMMA DestroyKeeps ==
  ASSUME SandboxInv, NEW p \in Runner, Destroy(p) PROVE SandboxInv'
<1>1. /\ Local(p) /\ SandboxTypeOK /\ Started(p) /\ Owed(p) /\ step[p] = "finalize"
      /\ res[p] \in RunResult /\ box[p] \in Sandbox
  BY Known DEF Destroy, Started
<1>2. UNCHANGED <<kind, made, disk, session, wanted, got, doubt>> /\ step' = [step EXCEPT ![p] = "write"]
  BY DEF Destroy, Goto
<1> DEFINE g == Removed(box[p])
<1>3. /\ g \in Sandbox /\ g.life = "gone" /\ (g.command = "zero" <=> box[p].command = "zero")
      /\ box[p].command # "running" => g.command = box[p].command
  BY <1>1, RemovedIs
<1>4. \/ session[p] /\ box' = [box EXCEPT ![p] = g] /\ res' = [res EXCEPT ![p].cleanup = "destroyed"]
      \/ /\ session[p] /\ (box' = [box EXCEPT ![p] = g] \/ box' = box)
         /\ res' = [res EXCEPT ![p].cleanup = "unknown", ![p].effect = "unknown"]
      \/ ~session[p] /\ res' = res /\ box' = box
  BY DEF Destroy
<1> HIDE DEF g
<1>5. \A q \in Runner \ {p} : box'[q] = box[q] /\ res'[q] = res[q] /\ step'[q] = step[q]
  BY <1>1, <1>2, <1>4 DEF SandboxTypeOK
<1>6. /\ step'[p] = "write"
      /\ \/ session[p] /\ box'[p] = g /\ res'[p] = [res[p] EXCEPT !.cleanup = "destroyed"]
         \/ /\ session[p] /\ (box'[p] = g \/ box'[p] = box[p])
            /\ res'[p] = [res[p] EXCEPT !.cleanup = "unknown", !.effect = "unknown"]
         \/ ~session[p] /\ res'[p] = res[p] /\ box'[p] = box[p]
  BY <1>1, <1>2, <1>4 DEF SandboxTypeOK
<1>7. /\ res' \in [Runner -> RunResult] /\ box' \in [Runner -> Sandbox]
  <2>1. res'[p] \in RunResult /\ box'[p] \in Sandbox
    BY <1>1, <1>3, <1>6 DEF RunResult
  <2>2. DOMAIN res' = Runner /\ DOMAIN box' = Runner /\ res' = [q \in Runner |-> res'[q]]
        /\ box' = [q \in Runner |-> box'[q]]
    BY <1>1, <1>4 DEF SandboxTypeOK
  <2> QED
    BY <1>1, <1>5, <2>1, <2>2 DEF SandboxTypeOK
<1>8. SandboxTypeOK'
  BY <1>1, <1>2, <1>7 DEF SandboxTypeOK, SandboxStep
<1>9. Frame(p) /\ Started(p)'
  BY <1>2, <1>5, <1>6 DEF Frame, Started
<1>10. /\ res'[p].cleanup = "not_created" => res[p].cleanup = "not_created"
       /\ res'[p].cleanup = "destroyed" => (session[p] /\ box'[p].life = "gone") \/ res[p].cleanup = "destroyed"
       /\ res'[p].effect \in {res[p].effect, "unknown"}
       /\ res'[p].state = res[p].state
  BY <1>1, <1>3, <1>6 DEF RunResult
<1>11. /\ box[p].life = "none" => box'[p].life = "none" \/ session[p]
       /\ box'[p].life = "none" => box[p].life = "none"
       /\ box'[p].life = "alive" => box[p].life = "alive" /\ res'[p].cleanup \in {"unknown", res[p].cleanup}
       /\ res[p].effect = "known" => (CommandEnded(p) => CommandEnded(p)')
       /\ box[p].command = "zero" => box'[p].command = "zero"
  BY <1>1, <1>3, <1>6 DEF CommandEnded, RunResult
<1>12. Local(p)'
  BY <1>1, <1>2, <1>6, <1>10, <1>11 DEF Local, Early, Before, InSession, Last
<1>13. Owed(p)'
  BY <1>1, <1>2, <1>6, <1>11 DEF Owed, Local
<1> QED
  BY <1>1, <1>2, <1>8, <1>9, <1>12, <1>13, StepOfOne

LEMMA WriteResultKeeps ==
  ASSUME SandboxInv, NEW p \in Runner, WriteResult(p) PROVE SandboxInv'
<1>1. /\ Local(p) /\ SandboxTypeOK /\ Started(p) /\ Owed(p) /\ step[p] = "write" /\ res[p] \in RunResult
  BY Known DEF WriteResult, Started
<1>2. UNCHANGED <<kind, made, res, session, wanted, got, doubt, box>>
  BY DEF WriteResult
<1>3. /\ step'[p] \in {"returned", "raised"} /\ (step'[p] = "returned" => disk' = res[p])
      /\ step'[p] = "raised" => disk' = disk
  BY <1>1 DEF WriteResult, Goto, SandboxTypeOK
<1>4. SandboxTypeOK' /\ Frame(p) /\ Started(p)'
  BY <1>1, <1>2 DEF WriteResult, Goto, SandboxTypeOK, SandboxStep, Frame, Started
<1>5. Local(p)'
  BY <1>1, <1>2, <1>3 DEF Local, Early, Before, InSession, Last, CommandEnded
<1>6. Owed(p)'
  BY <1>1, <1>2, <1>3 DEF Owed, Local, RunResult
<1> QED
  BY <1>1, <1>2, <1>4, <1>5, <1>6, StepOfOne

LEMMA DieRunningKeeps ==
  ASSUME SandboxInv, NEW p \in Runner, DieRunning(p) PROVE SandboxInv'
<1>1. Local(p) /\ SandboxTypeOK /\ Started(p) /\ Owed(p) /\ step[p] \notin AtRest
  BY Known DEF DieRunning, Started, AtRest
<1>2. UNCHANGED <<kind, made, disk, res, session, wanted, got, doubt, box>>
  BY DEF DieRunning
<1>3. SandboxTypeOK' /\ Frame(p) /\ Started(p)' /\ step'[p] = "dead"
  BY <1>1, <1>2 DEF DieRunning, Goto, SandboxTypeOK, SandboxStep, Frame, Started
<1>4. Local(p)'
  BY <1>1, <1>2, <1>3 DEF Local, Early, Before, InSession, Last, CommandEnded
<1>5. Owed(p)'
  BY <1>1, <1>2, <1>3 DEF Owed, AtRest
<1> QED
  BY <1>1, <1>2, <1>3, <1>4, <1>5, StepOfOne

LEMMA CommandEndsKeeps ==
  ASSUME SandboxInv, NEW p \in Runner, CommandEnds(p) PROVE SandboxInv'
<1>1. Local(p) /\ SandboxTypeOK /\ box[p] \in Sandbox /\ box[p].command = "running"
  BY Known DEF CommandEnds
<1>2. Started(p) /\ step[p] \notin Before \cup {"create"} /\ Owed(p)
  BY <1>1, Known, NewSandboxIs DEF Local, Started, Before
<1>3. UNCHANGED <<kind, made, disk, step, res, session, wanted, got, doubt>>
  BY DEF CommandEnds
<1>4. /\ box' \in [Runner -> Sandbox] /\ box'[p].life = box[p].life
      /\ \A q \in Runner \ {p} : box'[q] = box[q]
  BY <1>1 DEF CommandEnds, SandboxTypeOK, Sandbox
<1>5. SandboxTypeOK' /\ Frame(p) /\ Started(p)'
  BY <1>1, <1>2, <1>3, <1>4 DEF SandboxTypeOK, Frame, Started
<1>6. Local(p)'
  BY <1>1, <1>2, <1>3, <1>4 DEF Local, Early, CommandEnded
<1>7. Owed(p)'
  BY <1>2, <1>3, <1>4 DEF Owed
<1> QED
  BY <1>2, <1>3, <1>5, <1>6, <1>7, StepOfOne

LEMMA ExpireKeeps ==
  ASSUME SandboxInv, NEW p \in Runner, Expire(p) PROVE SandboxInv'
<1>1. Local(p) /\ SandboxTypeOK /\ box[p] \in Sandbox /\ box[p].life = "alive"
  BY Known DEF Expire
<1>2. Started(p) /\ step[p] \notin Before \cup {"create"} /\ Owed(p)
  BY <1>1, Known, NewSandboxIs DEF Local, Started, Before
<1>3. UNCHANGED <<kind, made, disk, step, res, session, wanted, got, doubt>>
  BY DEF Expire
<1> DEFINE g == Removed(box[p])
<1>4. /\ g \in Sandbox /\ g.life = "gone" /\ (g.command = "zero" <=> box[p].command = "zero")
      /\ box[p].command # "running" => g.command = box[p].command
  BY <1>1, RemovedIs
<1>5. box' = [box EXCEPT ![p] = g]
  BY DEF Expire
<1> HIDE DEF g
<1>6. SandboxTypeOK' /\ Frame(p) /\ Started(p)' /\ box'[p] = g
  BY <1>1, <1>2, <1>3, <1>4, <1>5 DEF SandboxTypeOK, Frame, Started
<1>7. Local(p)'
  BY <1>1, <1>2, <1>3, <1>4, <1>6 DEF Local, Early, CommandEnded
<1>8. Owed(p)'
  BY <1>1, <1>2, <1>3, <1>4, <1>6 DEF Owed
<1> QED
  BY <1>2, <1>3, <1>6, <1>7, <1>8, StepOfOne

-----------------------------------------------------------------------------
(* The theorems *)

\* Every step keeps the invariant.
LEMMA NextKeeps == SandboxInv /\ [SandboxNext]_sandboxVars => SandboxInv'
<1> SUFFICES ASSUME SandboxInv, [SandboxNext]_sandboxVars PROVE SandboxInv'
  OBVIOUS
<1>1. ASSUME NEW p \in Runner, SandboxRunStep(p) PROVE SandboxInv'
  BY <1>1, MakeArchiveKeeps, WritePlanKeeps, AdmitKeeps, ArmKeeps, CreateKeeps, UploadAndProbeKeeps,
     DownloadKeeps, PauseKeeps, ReadFrozenKeeps, ResumeKeeps, RuntimeReadKeeps, StartCommandKeeps,
     RecordKeeps, OutputsReadKeeps, AssessOutputsKeeps, DestroyKeeps, WriteResultKeeps
     DEF SandboxRunStep
<1>2. CASE UNCHANGED sandboxVars
  BY <1>2 DEF sandboxVars, SandboxInv, SandboxTypeOK, Local, Early, CommandEnded, Solo, Started, Archive
<1> QED
  BY <1>1, <1>2, DieRunningKeeps, CommandEndsKeeps, ExpireKeeps DEF SandboxNext

\* The inductive invariant holds in every state of execute().
THEOREM SandboxInvariant == SandboxSpec => []SandboxInv
  BY InitInv, NextKeeps, PTL DEF SandboxSpec

\* Every variable of a run keeps its type.
THEOREM SandboxTypes == SandboxSpec => []SandboxTypeOK
<1>1. SandboxInv => SandboxTypeOK
  BY DEF SandboxInv
<1> QED
  BY SandboxInvariant, <1>1, PTL

\* A sandbox that lives is never missing in the archive: persist() precedes
\* create(), and finalize_session() writes "destroyed" after a confirmed destroy.
THEOREM LeaksRecorded == SandboxSpec => []LeakRecorded
  BY SandboxInvariant, InvGives, PTL

\* What the readers of an archive trust was earned by the one sandbox of the run.
THEOREM TrustsEarned == SandboxSpec => []TrustEarned
  BY SandboxInvariant, InvGives, PTL
=============================================================================
