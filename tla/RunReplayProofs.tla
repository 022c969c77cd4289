--------------------------- MODULE RunReplayProofs ---------------------------
(***************************************************************************)
(* One orchestration run, for any processes, Genes, budget and number of   *)
(* reviews.  Recorded stages never change (Grows), so what a process read  *)
(* of them stays true however the others interleave: Knows says what that  *)
(* is at each step, and StateOK what the stored state of the graph owes to *)
(* the stages recorded before it.                                          *)
(***************************************************************************)
EXTENDS RunReplay, TLAPS

Event(s) == events[s][1]

\* What the graph knows before node n, of the recorded stages.
StateOK(n, state) ==
    /\ n = "execute" => Recorded("selected") /\ state.genes = Event("selected").genes
    /\ n = "review" =>
          /\ state.result.status \notin Judged
          /\ state.result.status = "pending_review" =>
                Recorded("executed") /\ state.adopted = Event("executed").adopted
    /\ n \in {"feedback", "end"} /\ state.result.status \in Judged =>
          /\ Recorded("reviewed") /\ state.result = Event("reviewed").result
          /\ Recorded("executed") /\ state.adopted = Event("executed").adopted

\* What a process knows at its step.
Knows(p) ==
    /\ at[p] \in {"idle", "starting"} => node[p] = "select"
    /\ at[p] = "resumed" => checkpoint.next # "none"
    /\ at[p] \in Node => node[p] = at[p] /\ StateOK(at[p], mem[p])
    /\ at[p] = "resolve" => node[p] = "select"
    /\ at[p] \in {"intent", "request", "apply"} =>
          node[p] = "execute" /\ StateOK("execute", mem[p])
    /\ at[p] = "save" => node[p] \in {"execute", "review"}
    /\ at[p] = "mark" =>
          /\ node[p] = "feedback" /\ StateOK("feedback", mem[p])
          /\ left[p] \subseteq Adopted(p) /\ Adopted(p) \ left[p] \subseteq adoptions
    /\ at[p] \in {"save", "look", "append"} =>
          /\ node[p] = "execute" => StateOK("execute", mem[p])
          /\ node[p] = "review" =>
                Recorded("executed") /\ mem[p].adopted = Event("executed").adopted
          /\ node[p] = "feedback" => StateOK("feedback", mem[p]) /\ Adopted(p) \subseteq adoptions
    /\ at[p] \in {"save", "look", "append"} /\ node[p] = "execute" =>
          mem[p].result.status \notin Judged /\ mem[p].adopted \subseteq mem[p].genes
    /\ at[p] = "checkpoint" => StateOK(NextOf(node[p]), mem[p])

\* An engine holds the recorded verdict or none.
Taught(p) == engine[p] # <<>> =>
    /\ Recorded("reviewed")
    /\ Event("reviewed").result.status \in Judged
    /\ engine[p] = <<Event("reviewed").result.status = "succeeded">>

\* The winner of the intent is alone, and has not sent its request.
Paid ==
    /\ ~Recorded("intent") => invoked = 0
    /\ \A p \in Process : at[p] = "request" => Recorded("intent") /\ invoked = 0
    /\ \A p, q \in Process : at[p] = "request" /\ at[q] = "request" => p = q
    /\ OneInvocation

\* The recorded stages agree with each other and with the adoptions.
Reported ==
    /\ Recorded("executed") =>
          Recorded("selected") /\ Event("executed").adopted \subseteq Event("selected").genes
    /\ adoptions # {} =>
          /\ Recorded("executed") /\ Recorded("reviewed")
          /\ Event("reviewed").result.status = "succeeded"
    /\ Recorded("executed") => adoptions \subseteq Event("executed").adopted
    /\ Recorded("feedback") /\ Event("feedback").result.status = "succeeded" =>
          /\ Recorded("executed")
          /\ Event("feedback").adopted = Event("executed").adopted
          /\ adoptions = Event("executed").adopted
    /\ \A g \in Gene : uses[g] = IF g \in adoptions THEN 1 ELSE 0

Stored == StateOK(checkpoint.next, checkpoint.state)

Kept ==
    /\ Stored
    /\ \A p \in Process : Knows(p) /\ Taught(p)
    /\ Paid /\ Reported

\* The types of what the processes share, and of what each holds.
SharedTyped ==
    /\ checkpoint \in [next : Node \cup {"none", "end"}, state : State]
    /\ events \in [Stage -> Seq(Payload)]
    /\ stored \in Result
    /\ batch \in Seq(SUBSET Gene)
    /\ stale \subseteq Gene /\ archived \subseteq Gene
    /\ uses \in [Gene -> Nat]
    /\ adoptions \subseteq Gene
    /\ stop \in BOOLEAN
    /\ repaired \in BOOLEAN
    /\ invoked \in Nat
    /\ reports \in 0 .. MaxReviews

Engines == {<<>>, <<TRUE>>, <<FALSE>>}
LocalTyped ==
    /\ at \in [Process -> Step]
    /\ node \in [Process -> Node]
    /\ mem \in [Process -> State]
    /\ left \in [Process -> SUBSET Gene]
    /\ engine \in [Process -> Engines]

RunInv == SharedTyped /\ LocalTyped /\ Kept

-----------------------------------------------------------------------------
(* A step of one process *)

Acts(p, step, n, state, unused, taught) ==
    /\ LocalTyped'
    /\ at'[p] = step /\ node'[p] = n /\ mem'[p] = state
    /\ left'[p] = unused /\ engine'[p] = taught
    /\ \A q \in Process : q # p =>
          /\ at'[q] = at[q] /\ node'[q] = node[q] /\ mem'[q] = mem[q]
          /\ left'[q] = left[q] /\ engine'[q] = engine[q]

LEMMA Steps == Node \cup {"idle", "starting", "resumed", "resolve", "intent", "request", "apply",
                          "save", "mark", "look", "append", "checkpoint"} = Step
  BY DEF Step

LEMMA Empty ==
  /\ NoResult \in Result /\ NoState \in State
  /\ \A s \in Status : [status |-> s, report |-> 0] \in Result
<1>1. 0 \in 0 .. MaxReviews
  BY ConstantsAssumption
<1> QED BY <1>1 DEF NoResult, Result, NoState, State, Status

LEMMA ContinueActs ==
  ASSUME LocalTyped, NEW p \in Process, NEW s \in Step, NEW state \in State, Continue(p, s, state)
  PROVE  Acts(p, s, node[p], state, left[p], engine[p])
  BY DEF Continue, Go, Acts, LocalTyped

LEMMA ProceedActs ==
  ASSUME LocalTyped, NEW p \in Process, NEW s \in Step, Proceed(p, s)
  PROVE  Acts(p, s, node[p], mem[p], left[p], engine[p])
<1>1. mem[p] \in State
  BY DEF LocalTyped
<1> QED BY <1>1, ContinueActs DEF Proceed

LEMMA RaiseActs ==
  ASSUME LocalTyped, NEW p \in Process, Raise(p)
  PROVE  Acts(p, "idle", "select", NoState, {}, engine[p])
<1>1. "idle" \in Step /\ "select" \in Node /\ NoState \in State
  BY Empty DEF Step, Node
<1> QED BY <1>1 DEF Raise, Return, Acts, LocalTyped

\* Events are never taken back, and so what was known of them stays known.
Grows ==
    /\ \A s \in Stage : Recorded(s) => events'[s] = events[s]
    /\ adoptions \subseteq adoptions'
    /\ checkpoint.next # "none" => checkpoint'.next # "none"

LEMMA StateStays ==
  ASSUME Grows, NEW n, NEW state, StateOK(n, state)
  PROVE  StateOK(n, state)'
<1>1. \A s \in {"selected", "executed", "reviewed"} : Recorded(s) => Recorded(s)' /\ Event(s)' = Event(s)
  BY DEF Grows, Recorded, Event, Stage
<1> QED BY <1>1 DEF StateOK

LEMMA OthersKnow ==
  ASSUME RunInv, NEW p \in Process, NEW step, NEW n, NEW state, NEW unused, NEW taught,
         Acts(p, step, n, state, unused, taught), Grows, NEW q \in Process, q # p
  PROVE  Knows(q)' /\ Taught(q)'
<1>1. Knows(q) /\ Taught(q)
  BY DEF RunInv, Kept
<1>2. /\ at'[q] = at[q] /\ node'[q] = node[q] /\ mem'[q] = mem[q]
      /\ left'[q] = left[q] /\ engine'[q] = engine[q]
  BY DEF Acts
<1>3. \A s \in {"selected", "executed", "reviewed"} : Recorded(s) => Recorded(s)' /\ Event(s)' = Event(s)
  BY DEF Grows, Recorded, Event, Stage
<1>5. Taught(q)'
  BY <1>1, <1>2, <1>3 DEF Taught
<1>6. Adopted(q)' = Adopted(q)
  BY <1>2 DEF Adopted
<1>7. NextOf(node'[q]) = NextOf(node[q])
  BY <1>2
<1>8. Knows(q)'
  <2>1. CASE at[q] \in Node
    BY <1>1, <1>2, <1>3, <2>1 DEF Knows, StateOK, Node
  <2>2. CASE at[q] = "mark"
    BY <1>1, <1>2, <1>3, <1>6, <2>2 DEF Knows, StateOK, Node, Grows
  <2>3. CASE at[q] \in {"save", "look", "append"}
    BY <1>1, <1>2, <1>3, <1>6, <2>3 DEF Knows, StateOK, Node, Grows
  <2>4. CASE at[q] = "checkpoint"
    BY <1>1, <1>2, <1>3, <1>7, <2>4 DEF Knows, StateOK, Node
  <2>5. CASE at[q] \notin Node \cup {"mark", "save", "look", "append", "checkpoint"}
    BY <1>1, <1>2, <1>3, <2>5 DEF Knows, StateOK, Grows
  <2> QED BY <2>1, <2>2, <2>3, <2>4, <2>5
<1> QED BY <1>5, <1>8

\* The invariant after a step of p that does not win the intent.
LEMMA AfterStep ==
  ASSUME RunInv, NEW p \in Process, NEW step, NEW n, NEW state, NEW unused, NEW taught,
         Acts(p, step, n, state, unused, taught), Grows, step # "request", invoked' = invoked,
         SharedTyped', Stored', Knows(p)', Taught(p)', Reported'
  PROVE  RunInv'
<1>1. \A q \in Process : Knows(q)' /\ Taught(q)'
  BY OthersKnow
<1>2. Recorded("intent") => Recorded("intent")'
  BY DEF Grows, Recorded, Stage
<1>3. Paid'
  BY <1>2 DEF RunInv, Kept, Paid, OneInvocation, Acts
<1> QED BY <1>1, <1>3 DEF RunInv, Kept, Acts

\* Most steps record nothing.
LEMMA QuietStep ==
  ASSUME RunInv, NEW p \in Process, NEW step, NEW n, NEW state, NEW unused, NEW taught,
         Acts(p, step, n, state, unused, taught), step # "request",
         UNCHANGED <<checkpoint, events, uses, adoptions, invoked>>,
         SharedTyped', Knows(p)', taught = engine[p]
  PROVE  RunInv'
<1>1. Grows
  BY DEF Grows
<1>2. Stored' /\ Reported'
  BY DEF RunInv, Kept, Stored, StateOK, Reported, Recorded, Event
<1>3. Taught(p)'
  BY DEF RunInv, Kept, Taught, Acts, Recorded, Event
<1> QED BY <1>1, <1>2, <1>3, AfterStep

LEMMA RaiseKeeps ==
  ASSUME RunInv, NEW p \in Process, Raise(p), SharedTyped',
         UNCHANGED <<checkpoint, events, uses, adoptions, invoked>>
  PROVE  RunInv'
<1>1. Acts(p, "idle", "select", NoState, {}, engine[p])
  BY RaiseActs DEF RunInv
<1>2. Knows(p)'
  BY <1>1 DEF Acts, Knows, Node
<1> QED BY <1>1, <1>2, QuietStep

-----------------------------------------------------------------------------
(* One lemma for each action *)

LEMMA StartKeeps ==
  ASSUME RunInv, NEW p \in Process, Start(p)
  PROVE  RunInv'
<1>1. Acts(p, "starting", node[p], mem[p], left[p], engine[p])
  BY Steps, ProceedActs DEF Start, RunInv
<1>2. SharedTyped' /\ UNCHANGED <<checkpoint, events, uses, adoptions, invoked>>
  BY DEF Start, RunInv, SharedTyped, durable, genes, executor
<1>3. Knows(p)'
  BY <1>1 DEF Start, At, RunInv, Kept, Acts, Knows, Node
<1> QED BY <1>1, <1>2, <1>3, QuietStep

LEMMA InvokeKeeps ==
  ASSUME RunInv, NEW p \in Process, Invoke(p)
  PROVE  RunInv'
<1>1. checkpoint.state \in State
  BY DEF RunInv, SharedTyped
<1>2. Acts(p, "select", node[p], checkpoint.state, left[p], engine[p])
  BY <1>1, Steps, ContinueActs DEF Invoke, RunInv, Node
<1>3. SharedTyped'
  BY DEF Invoke, RunInv, SharedTyped, genes, executor, Node
<1>4. Stored' /\ Reported' /\ Grows
  BY <1>1 DEF Invoke, RunInv, Kept, SharedTyped, Stored, StateOK, Reported, Recorded, Event, Grows, genes
<1>5. Taught(p)'
  BY <1>2 DEF Invoke, RunInv, Kept, Taught, Acts, Recorded, Event
<1>6. Knows(p)'
  BY <1>2 DEF Invoke, At, RunInv, Kept, Acts, Knows, Node, StateOK
<1>7. invoked' = invoked
  BY DEF Invoke, executor
<1> QED BY <1>2, <1>3, <1>4, <1>5, <1>6, <1>7, AfterStep

LEMMA ResumeKeeps ==
  ASSUME RunInv, NEW p \in Process, Resume(p)
  PROVE  RunInv'
<1> DEFINE taught == IF Recorded("reviewed")
                     THEN WithVerdict(engine[p], events["reviewed"][1].result.status) ELSE engine[p]
<1>1. taught \in Engines
  BY DEF WithVerdict, RunInv, LocalTyped, Engines
<1>2. Acts(p, "resumed", node[p], mem[p], left[p], taught)
  BY <1>1, Steps DEF Resume, Go, Acts, RunInv, LocalTyped
<1>3. SharedTyped' /\ UNCHANGED <<checkpoint, events, uses, adoptions, invoked>>
  BY DEF Resume, RunInv, SharedTyped, durable, genes, executor
<1>4. Taught(p)
  BY DEF RunInv, Kept
<1>5. Taught(p)'
  BY <1>2, <1>3, <1>4 DEF Taught, Acts, Recorded, Event, WithVerdict
<1>6. Knows(p)'
  BY <1>2, <1>3 DEF Resume, Acts, Knows, Node
<1>7. Grows /\ Stored' /\ Reported'
  BY <1>3 DEF Grows, RunInv, Kept, Stored, StateOK, Reported, Recorded, Event
<1> HIDE DEF taught
<1> QED BY <1>2, <1>3, <1>5, <1>6, <1>7, AfterStep

LEMMA LoadKeeps ==
  ASSUME RunInv, NEW p \in Process, Load(p)
  PROVE  RunInv'
<1>1. SharedTyped' /\ UNCHANGED <<checkpoint, events, uses, adoptions, invoked>>
  BY DEF Load, RunInv, SharedTyped, durable, genes, executor
<1>2. CASE Raise(p)
  BY <1>1, <1>2, RaiseKeeps
<1>3. CASE ~Raise(p)
  <2>1. checkpoint.next \in Node \/ checkpoint.next = "none"
    BY <1>3 DEF Load, RunInv, SharedTyped
  <2>2. checkpoint.next \in Node
    BY <1>3, <2>1 DEF Load, At, RunInv, Kept, Knows
  <2>3. Acts(p, checkpoint.next, checkpoint.next, checkpoint.state, left[p], engine[p])
    BY <1>3, <2>2, Steps DEF Load, Acts, RunInv, LocalTyped, SharedTyped
  <2>4. Knows(p)'
    BY <1>1, <2>2, <2>3 DEF Knows, Acts, RunInv, Kept, Stored, StateOK, Recorded, Event, Node
  <2> QED BY <1>1, <2>2, <2>3, <2>4, QuietStep DEF Node
<1> QED BY <1>2, <1>3

LEMMA InjectKeeps ==
  ASSUME RunInv, NEW p \in Process, Inject(p)
  PROVE  RunInv'
<1>1. node[p] = "select"
  BY DEF Inject, At, RunInv, Kept, Knows, Node
<1>2. PICK chosen \in SUBSET Gene :
        /\ Continue(p, "resolve", [mem[p] EXCEPT !.genes = chosen])
        /\ batch' \in Seq(SUBSET Gene)
  <2>1. CASE batch = <<>>
    <3>1. PICK chosen \in Injections :
            batch' = <<chosen>> /\ Continue(p, "resolve", [mem[p] EXCEPT !.genes = chosen])
      BY <2>1 DEF Inject
    <3>2. chosen \in SUBSET Gene
      BY DEF Injections, Active
    <3>3. <<chosen>> \in Seq(SUBSET Gene)
      BY <3>2
    <3> QED BY <3>1, <3>2, <3>3
  <2>2. CASE batch # <<>>
    <3>1. batch[1] \ archived \in SUBSET Gene /\ batch' = batch
      BY <2>2 DEF Inject, RunInv, SharedTyped
    <3>2. Continue(p, "resolve", [mem[p] EXCEPT !.genes = batch[1] \ archived])
      BY <2>2 DEF Inject
    <3> QED BY <3>1, <3>2 DEF RunInv, SharedTyped
  <2> QED BY <2>1, <2>2
<1>3. [mem[p] EXCEPT !.genes = chosen] \in State
  BY DEF RunInv, LocalTyped, State
<1>4. Acts(p, "resolve", node[p], [mem[p] EXCEPT !.genes = chosen], left[p], engine[p])
  BY <1>2, <1>3, Steps, ContinueActs DEF RunInv
<1>5. SharedTyped' /\ UNCHANGED <<checkpoint, events, uses, adoptions, invoked>>
  BY <1>2 DEF Inject, RunInv, SharedTyped, durable, executor
<1>6. Knows(p)'
  BY <1>1, <1>4 DEF Knows, Acts, Node
<1> QED BY <1>4, <1>5, <1>6, QuietStep

LEMMA ResolveKeeps ==
  ASSUME RunInv, NEW p \in Process, Resolve(p)
  PROVE  RunInv'
<1>1. SharedTyped' /\ UNCHANGED <<checkpoint, events, uses, adoptions, invoked>>
  BY DEF Resolve, RunInv, SharedTyped, durable, genes, executor
<1>2. CASE Raise(p)
  BY <1>1, <1>2, RaiseKeeps
<1>3. CASE Proceed(p, "look")
  <2>1. Acts(p, "look", node[p], mem[p], left[p], engine[p])
    BY <1>3, Steps, ProceedActs DEF RunInv
  <2>2. node[p] = "select"
    BY DEF Resolve, At, RunInv, Kept, Knows
  <2>3. Knows(p)'
    BY <2>1, <2>2 DEF Knows, Acts, Node
  <2> QED BY <1>1, <2>1, <2>3, QuietStep
<1> QED BY <1>2, <1>3 DEF Resolve

LEMMA InterruptedKeeps ==
  ASSUME RunInv, NEW p \in Process, Interrupted(p)
  PROVE  RunInv'
<1> DEFINE state == [mem[p] EXCEPT !.result = [status |-> "interrupted", report |-> 0]]
<1>1. state \in State /\ state.result.status = "interrupted"
  BY Empty DEF RunInv, LocalTyped, State, Status
<1>2. Acts(p, "checkpoint", node[p], state, left[p], engine[p])
  BY <1>1, Steps, ContinueActs DEF Interrupted, RunInv
<1>3. SharedTyped' /\ UNCHANGED <<checkpoint, events, uses, adoptions, invoked>>
  BY DEF Interrupted, RunInv, SharedTyped, durable, genes, executor
<1>4. node[p] = "execute"
  BY DEF Interrupted, At, RunInv, Kept, Knows, Node
<1> HIDE DEF state
<1>5. Knows(p)'
  BY <1>1, <1>2, <1>4 DEF Knows, Acts, Node, NextOf, StateOK, Judged
<1> QED BY <1>2, <1>3, <1>5, QuietStep

LEMMA FindIntentKeeps ==
  ASSUME RunInv, NEW p \in Process, FindIntent(p)
  PROVE  RunInv'
<1>1. SharedTyped' /\ UNCHANGED <<checkpoint, events, uses, adoptions, invoked>>
  BY DEF FindIntent, RunInv, SharedTyped, durable, genes, executor
<1>2. CASE Raise(p)
  BY <1>1, <1>2, RaiseKeeps
<1>3. CASE Proceed(p, "intent")
  <2>1. Acts(p, "intent", node[p], mem[p], left[p], engine[p])
    BY <1>3, Steps, ProceedActs DEF RunInv
  <2>2. node[p] = "execute" /\ StateOK("execute", mem[p])
    BY DEF FindIntent, At, RunInv, Kept, Knows, Node
  <2>3. Knows(p)'
    BY <1>1, <2>1, <2>2 DEF Knows, Acts, Node, StateOK, Recorded, Event
  <2> QED BY <1>1, <2>1, <2>3, QuietStep
<1> QED BY <1>2, <1>3 DEF FindIntent

LEMMA PayloadTyped ==
  ASSUME RunInv, NEW p \in Process
  PROVE  PayloadOf(p) \in Payload
<1>1. mem[p] \in State /\ engine[p] \in Engines /\ node[p] \in Node
  BY DEF RunInv, LocalTyped
<1>2. Says(p) \in State
  BY <1>1, Empty DEF Says, State, Result, NoState, Adopted, Node
<1>3. Snapshot(p) \in Engines
  BY <1>1 DEF Snapshot, Engines
<1> QED BY <1>2, <1>3 DEF PayloadOf, Payload, State, Engines

LEMMA AppendIntentKeeps ==
  ASSUME RunInv, NEW p \in Process, AppendIntent(p)
  PROVE  RunInv'
<1> DEFINE intent == [genes |-> {}, result |-> NoResult, adopted |-> {}, topology |-> <<>>]
<1>1. CASE Raise(p) /\ UNCHANGED events
  <2>1. SharedTyped' /\ UNCHANGED <<checkpoint, events, uses, adoptions, invoked>>
    BY <1>1 DEF AppendIntent, RunInv, SharedTyped, genes, executor
  <2> QED BY <1>1, <2>1, RaiseKeeps
<1>2. CASE /\ ~Recorded("intent") /\ events' = [events EXCEPT !["intent"] = <<intent>>]
           /\ Proceed(p, "request")
  <2>1. intent \in Payload
    BY Empty DEF Payload
  <2> HIDE DEF intent
  <2>2. SharedTyped' /\ UNCHANGED <<checkpoint, uses, adoptions, invoked>>
    <3>1. <<intent>> \in Seq(Payload)
      BY <2>1
    <3>2. events' \in [Stage -> Seq(Payload)]
      BY <1>2, <3>1 DEF RunInv, SharedTyped
    <3> QED BY <3>2 DEF AppendIntent, RunInv, SharedTyped, genes, executor
  <2>3. Acts(p, "request", node[p], mem[p], left[p], engine[p])
    BY <1>2, Steps, ProceedActs DEF RunInv
  <2>4. events'["intent"] # <<>> /\ \A s \in Stage : s # "intent" => events'[s] = events[s]
    BY <1>2 DEF RunInv, SharedTyped, Stage
  <2>5. Grows
    BY <1>2, <2>2, <2>4 DEF Grows, Recorded
  <2>6. \A s \in {"selected", "executed", "reviewed", "feedback"} : events'[s] = events[s]
    BY <2>4 DEF Stage
  <2>7. Stored' /\ Reported' /\ Taught(p)'
    BY <2>2, <2>3, <2>6 DEF RunInv, Kept, Stored, StateOK, Reported, Taught, Acts, Recorded, Event
  <2>8. Knows(p)'
    BY <2>3, <2>6 DEF AppendIntent, At, Knows, Acts, Node, StateOK, Recorded, Event, RunInv, Kept
  <2>9. Paid'
    BY <1>2, <2>2, <2>3, <2>4 DEF RunInv, Kept, Paid, OneInvocation, Acts, Recorded
  <2>10. \A q \in Process : Knows(q)' /\ Taught(q)'
    BY <2>3, <2>5, <2>7, <2>8, OthersKnow
  <2> QED BY <2>2, <2>3, <2>7, <2>9, <2>10 DEF RunInv, Kept, Acts
<1> QED BY <1>1, <1>2 DEF AppendIntent, IntentWon

LEMMA ConcludedActs ==
  ASSUME RunInv, NEW p \in Process, NEW status \in Status \ Judged, Concluded(p, status),
         at[p] \in {"request", "apply"}, UNCHANGED <<checkpoint, events, adoptions>>
  PROVE  \E state : Acts(p, "save", node[p], state, left[p], engine[p]) /\ Knows(p)'
<1> DEFINE state == [mem[p] EXCEPT !.result = [status |-> status, report |-> 0], !.adopted = {}]
<1>1. state \in State /\ state.result.status = status /\ state.adopted = {} /\ state.genes = mem[p].genes
  BY Empty DEF RunInv, LocalTyped, State
<1>2. Acts(p, "save", node[p], state, left[p], engine[p])
  BY <1>1, Steps, ContinueActs DEF Concluded, RunInv
<1>3. node[p] = "execute" /\ StateOK("execute", mem[p])
  BY DEF RunInv, Kept, Knows
<1> HIDE DEF state
<1>4. Knows(p)'
  BY <1>1, <1>2, <1>3 DEF Acts, Knows, Node, StateOK, Recorded, Event
<1> QED BY <1>2, <1>4

LEMMA RequestKeeps ==
  ASSUME RunInv, NEW p \in Process, Request(p)
  PROVE  RunInv'
<1>1. SharedTyped' /\ UNCHANGED <<checkpoint, events, uses, adoptions>>
  BY DEF Request, RunInv, SharedTyped, durable, genes
<1>2. CASE Concluded(p, "insufficient_evidence") /\ UNCHANGED invoked
  <2>1. PICK state : Acts(p, "save", node[p], state, left[p], engine[p]) /\ Knows(p)'
    BY <1>1, <1>2, ConcludedActs DEF Request, At, Status, Judged
  <2> QED BY <1>1, <1>2, <2>1, QuietStep
<1>3. CASE invoked' = invoked + 1 /\ Proceed(p, "apply")
  <2>1. Acts(p, "apply", node[p], mem[p], left[p], engine[p])
    BY <1>3, Steps, ProceedActs DEF RunInv
  <2>2. Knows(p)'
    BY <1>1, <2>1 DEF Request, At, RunInv, Kept, Acts, Knows, Node, StateOK, Recorded, Event
  <2>3. Grows
    BY <1>1 DEF Grows
  <2>4. Stored' /\ Reported' /\ Taught(p)'
    BY <1>1, <2>1 DEF RunInv, Kept, Stored, StateOK, Reported, Taught, Acts, Recorded, Event
  <2>5. \A q \in Process : Knows(q)' /\ Taught(q)'
    BY <2>1, <2>2, <2>3, <2>4, OthersKnow
  <2>6. Paid'
    BY <1>1, <1>3, <2>1 DEF Request, At, RunInv, Kept, Paid, OneInvocation, Acts, Recorded
  <2> QED BY <1>1, <2>1, <2>4, <2>5, <2>6 DEF RunInv, Kept, Acts
<1> QED BY <1>2, <1>3 DEF Request

LEMMA ApplyKeeps ==
  ASSUME RunInv, NEW p \in Process, Apply(p)
  PROVE  RunInv'
<1>1. SharedTyped' /\ UNCHANGED <<checkpoint, events, uses, adoptions, invoked>>
  BY DEF Apply, RunInv, SharedTyped, durable, genes
<1>2. CASE Concluded(p, "insufficient_evidence")
  <2>1. PICK state : Acts(p, "save", node[p], state, left[p], engine[p]) /\ Knows(p)'
    BY <1>1, <1>2, ConcludedActs DEF Apply, At, Status, Judged
  <2> QED BY <1>1, <2>1, QuietStep
<1>3. ASSUME NEW used \in SUBSET mem[p].genes,
             Continue(p, "save", [mem[p] EXCEPT !.result = [status |-> "pending_review", report |-> 0],
                                                !.adopted = used])
      PROVE  RunInv'
  <2> DEFINE state == [mem[p] EXCEPT !.result = [status |-> "pending_review", report |-> 0],
                                     !.adopted = used]
  <2>1. /\ state \in State /\ state.result.status = "pending_review"
        /\ state.adopted = used /\ state.genes = mem[p].genes
    BY Empty DEF RunInv, LocalTyped, State, Status
  <2>2. Acts(p, "save", node[p], state, left[p], engine[p])
    BY <1>3, <2>1, Steps, ContinueActs DEF RunInv
  <2>3. node[p] = "execute" /\ StateOK("execute", mem[p])
    BY DEF Apply, At, RunInv, Kept, Knows
  <2> HIDE DEF state
  <2>4. Knows(p)'
    BY <1>1, <2>1, <2>2, <2>3 DEF Acts, Knows, Node, StateOK, Recorded, Event, Judged
  <2> QED BY <1>1, <2>2, <2>4, QuietStep
<1> QED BY <1>2, <1>3 DEF Apply

LEMMA SaveKeeps ==
  ASSUME RunInv, NEW p \in Process, Save(p)
  PROVE  RunInv'
<1>1. SharedTyped' /\ UNCHANGED <<checkpoint, events, uses, adoptions, invoked>>
  BY DEF Save, RunInv, SharedTyped, LocalTyped, State, genes, executor
<1>2. Acts(p, "look", node[p], mem[p], left[p], engine[p])
  BY Steps, ProceedActs DEF Save, RunInv
<1>3. Knows(p)'
  BY <1>1, <1>2 DEF Save, At, RunInv, Kept, Acts, Knows, Node, StateOK, Recorded, Event
<1> QED BY <1>1, <1>2, <1>3, QuietStep

LEMMA ReviewKeeps ==
  ASSUME RunInv, NEW p \in Process, Review(p)
  PROVE  RunInv'
<1>1. UNCHANGED <<checkpoint, events, uses, adoptions, invoked>>
  BY DEF Review, durable, genes, executor
<1>2. node[p] = "review" /\ StateOK("review", mem[p])
  BY DEF Review, At, RunInv, Kept, Knows, Node
<1>3. CASE Proceed(p, "checkpoint") /\ UNCHANGED reports /\ mem[p].result.status # "pending_review"
  <2>1. Acts(p, "checkpoint", node[p], mem[p], left[p], engine[p])
    BY <1>3, Steps, ProceedActs DEF RunInv
  <2>2. Knows(p)'
    BY <1>2, <2>1 DEF Acts, Knows, Node, StateOK, NextOf
  <2>3. SharedTyped'
    BY <1>1, <1>3 DEF Review, RunInv, SharedTyped, durable, genes, executor
  <2> QED BY <1>1, <2>1, <2>2, <2>3, QuietStep
<1>4. ASSUME mem[p].result.status = "pending_review", reports < MaxReviews, reports' = reports + 1,
             NEW status \in Verdicts,
             Continue(p, "save", [mem[p] EXCEPT !.result = [status |-> status, report |-> reports + 1]])
      PROVE  RunInv'
  <2> DEFINE state == [mem[p] EXCEPT !.result = [status |-> status, report |-> reports + 1]]
  <2>1. reports + 1 \in 0 .. MaxReviews /\ status \in Status
    BY <1>4, ConstantsAssumption DEF RunInv, SharedTyped, Verdicts, Status, Judged
  <2>2. [status |-> status, report |-> reports + 1] \in Result
    BY <2>1 DEF Result
  <2>3. state \in State /\ state.adopted = mem[p].adopted
    BY <2>2 DEF RunInv, LocalTyped, State
  <2>4. Acts(p, "save", node[p], state, left[p], engine[p])
    BY <1>4, <2>3, Steps, ContinueActs DEF RunInv
  <2>5. SharedTyped'
    BY <1>1, <1>4, <2>1 DEF Review, RunInv, SharedTyped, durable, genes, executor
  <2> HIDE DEF state
  <2>6. Knows(p)'
    BY <1>1, <1>2, <1>4, <2>3, <2>4 DEF Acts, Knows, Node, StateOK, Recorded, Event
  <2> QED BY <1>1, <2>4, <2>5, <2>6, QuietStep
<1> QED BY <1>3, <1>4 DEF Review

LEMMA FeedbackKeeps ==
  ASSUME RunInv, NEW p \in Process, Feedback(p)
  PROVE  RunInv'
<1> DEFINE taught == WithVerdict(engine[p], mem[p].result.status)
<1>1. taught \in Engines /\ Adopted(p) \in SUBSET Gene
  BY DEF WithVerdict, RunInv, LocalTyped, Engines, Adopted, State
<1>2. Acts(p, "mark", node[p], mem[p], Adopted(p), taught)
  BY <1>1, Steps DEF Feedback, Go, Acts, RunInv, LocalTyped
<1>3. SharedTyped' /\ UNCHANGED <<checkpoint, events, uses, adoptions, invoked>>
  BY DEF Feedback, RunInv, SharedTyped, durable, genes, executor
<1>4. node[p] = "feedback" /\ StateOK("feedback", mem[p]) /\ Taught(p)
  BY DEF Feedback, At, RunInv, Kept, Knows, Node
<1>5. Taught(p)'
  BY <1>2, <1>3, <1>4 DEF Taught, Acts, Recorded, Event, WithVerdict, StateOK
<1>6. Adopted(p)' = Adopted(p)
  BY <1>2 DEF Acts, Adopted
<1>7. Knows(p)'
  BY <1>2, <1>3, <1>4, <1>6 DEF Acts, Knows, Node, StateOK, Recorded, Event
<1>8. Grows /\ Stored' /\ Reported'
  BY <1>3 DEF Grows, RunInv, Kept, Stored, StateOK, Reported, Recorded, Event
<1> HIDE DEF taught
<1> QED BY <1>2, <1>3, <1>5, <1>7, <1>8, AfterStep

LEMMA MarkUsedKeeps ==
  ASSUME RunInv, NEW p \in Process, NEW g \in Gene, MarkUsed(p, g)
  PROVE  RunInv'
<1>1. /\ node[p] = "feedback" /\ StateOK("feedback", mem[p])
      /\ g \in left[p] /\ left[p] \subseteq Adopted(p) /\ Adopted(p) \ left[p] \subseteq adoptions
  BY DEF MarkUsed, At, RunInv, Kept, Knows
<1>2. UNCHANGED <<checkpoint, events, stored, batch, archived, stop, reports, repaired, invoked>>
  BY DEF MarkUsed, durable, executor
<1>3. CASE Raise(p) /\ UNCHANGED <<uses, adoptions, stale>>
  <2>1. SharedTyped'
    BY <1>2, <1>3 DEF RunInv, SharedTyped
  <2> QED BY <1>2, <1>3, <2>1, RaiseKeeps
<1>4. CASE /\ left' = [left EXCEPT ![p] = @ \ {g}]
           /\ IF AlreadyUsed(g) THEN UNCHANGED <<uses, adoptions, stale>>
              ELSE /\ uses' = [uses EXCEPT ![g] = @ + 1]
                   /\ adoptions' = adoptions \cup {g}
                   /\ stale' = stale \ {g}
           /\ UNCHANGED <<at, node, mem, engine>>
  <2>1. Acts(p, "mark", node[p], mem[p], left[p] \ {g}, engine[p])
    BY <1>4 DEF MarkUsed, At, Acts, RunInv, LocalTyped
  <2>2. adoptions' = adoptions \cup {g} /\ stale' \subseteq Gene
    BY <1>4 DEF AlreadyUsed, RunInv, SharedTyped
  <2>3. uses' \in [Gene -> Nat] /\ \A h \in Gene : uses'[h] = IF h \in adoptions' THEN 1 ELSE 0
    BY <1>4, <2>2 DEF AlreadyUsed, RunInv, SharedTyped, Kept, Reported
  <2>4. SharedTyped'
    BY <1>2, <2>2, <2>3 DEF RunInv, SharedTyped
  <2>5. Adopted(p)' = Adopted(p)
    BY <2>1 DEF Acts, Adopted
  <2>6. Knows(p)'
    BY <1>1, <1>2, <2>1, <2>2, <2>5 DEF Acts, Knows, Node, StateOK, Recorded, Event
  <2>7. /\ mem[p].result.status = "succeeded" /\ g \in mem[p].adopted
        /\ Recorded("reviewed") /\ Event("reviewed").result.status = "succeeded"
        /\ Recorded("executed") /\ g \in Event("executed").adopted
    BY <1>1 DEF Adopted, StateOK, Judged
  <2>8. Reported'
    BY <1>2, <2>2, <2>3, <2>7 DEF RunInv, Kept, Reported, Recorded, Event
  <2>9. Grows /\ Stored' /\ Taught(p)'
    BY <1>2, <2>1, <2>2 DEF Grows, RunInv, Kept, Stored, StateOK, Taught, Acts, Recorded, Event
  <2> QED BY <1>2, <2>1, <2>4, <2>6, <2>8, <2>9, AfterStep
<1> QED BY <1>3, <1>4 DEF MarkUsed

\* What a recorded stage says once it agrees with the process.
LEMMA Agreement ==
  ASSUME RunInv, NEW p \in Process, at[p] \in {"look", "append"} \/ (at[p] = "mark" /\ left[p] = {}),
         Recorded(StageOf(node[p])), Agrees(p)
  PROVE  StateOK(NextOf(node[p]), mem[p])
<1>1. Knows(p) /\ node[p] \in Node
  BY DEF RunInv, Kept, LocalTyped
<1>2. Event(StageOf(node[p])).genes = Says(p).genes /\ Event(StageOf(node[p])).result = Says(p).result
      /\ Event(StageOf(node[p])).adopted = Says(p).adopted
  BY DEF Agrees, PayloadOf, Event
<1>3. CASE node[p] = "select"
  BY <1>2, <1>3, Empty DEF StageOf, Says, StateOK, NextOf, State, NoState
<1>4. CASE node[p] = "execute"
  <2>1. Says(p).adopted = mem[p].adopted /\ mem[p].result.status \notin Judged
    BY <1>1, <1>4 DEF Says, Knows, RunInv, LocalTyped, State
  <2> QED BY <1>2, <1>4, <2>1 DEF StageOf, StateOK, NextOf
<1>5. CASE node[p] = "review"
  <2>1. Says(p).result = mem[p].result
    BY <1>5 DEF Says, NoState
  <2> QED BY <1>1, <1>2, <1>5, <2>1 DEF StageOf, StateOK, NextOf, Knows
<1>6. CASE node[p] = "feedback"
  BY <1>1, <1>6 DEF StateOK, NextOf, Knows
<1> QED BY <1>1, <1>3, <1>4, <1>5, <1>6 DEF Node

LEMMA LookKeeps ==
  ASSUME RunInv, NEW p \in Process, Look(p)
  PROVE  RunInv'
<1>1. SharedTyped' /\ UNCHANGED <<checkpoint, events, uses, adoptions, invoked>>
  BY DEF Look, RunInv, SharedTyped, durable, genes, executor
<1>2. CASE Raise(p)
  BY <1>1, <1>2, RaiseKeeps
<1>3. CASE Proceed(p, "append")
  <2>1. Acts(p, "append", node[p], mem[p], left[p], engine[p])
    BY <1>3, Steps, ProceedActs DEF RunInv
  <2>2. Adopted(p)' = Adopted(p)
    BY <2>1 DEF Acts, Adopted
  <2>3. Knows(p)'
    <3>1. CASE at[p] = "look"
      BY <1>1, <2>1, <2>2, <3>1 DEF RunInv, Kept, Acts, Knows, Node, StateOK, Recorded, Event
    <3>2. CASE at[p] = "mark" /\ left[p] = {}
      BY <1>1, <2>1, <2>2, <3>2 DEF RunInv, Kept, Acts, Knows, Node, StateOK, Recorded, Event
    <3> QED BY <3>1, <3>2 DEF Look, At
  <2> QED BY <1>1, <2>1, <2>3, QuietStep
<1>4. CASE Recorded(StageOf(node[p])) /\ Agrees(p) /\ Proceed(p, "checkpoint")
  <2>1. Acts(p, "checkpoint", node[p], mem[p], left[p], engine[p])
    BY <1>4, Steps, ProceedActs DEF RunInv
  <2>2. StateOK(NextOf(node[p]), mem[p])
    BY <1>4, Agreement DEF Look, At
  <2>3. Knows(p)'
    BY <1>1, <2>1, <2>2 DEF Acts, Knows, Node, StateOK, Recorded, Event
  <2> QED BY <1>1, <2>1, <2>3, QuietStep
<1> QED BY <1>2, <1>3, <1>4 DEF Look

LEMMA AppendEventKeeps ==
  ASSUME RunInv, NEW p \in Process, AppendEvent(p)
  PROVE  RunInv'
<1>1. UNCHANGED <<checkpoint, stored, genes, executor, stop, reports>>
  BY DEF AppendEvent
<1>2. CASE UNCHANGED events
  <2>1. SharedTyped' /\ UNCHANGED <<checkpoint, events, uses, adoptions, invoked>>
    BY <1>1, <1>2 DEF RunInv, SharedTyped, genes, executor
  <2>2. CASE Raise(p)
    BY <2>1, <2>2, RaiseKeeps
  <2>3. CASE Recorded(StageOf(node[p])) /\ Agrees(p) /\ Proceed(p, "checkpoint")
    <3>1. Acts(p, "checkpoint", node[p], mem[p], left[p], engine[p])
      BY <2>3, Steps, ProceedActs DEF RunInv
    <3>2. StateOK(NextOf(node[p]), mem[p])
      BY <2>3, Agreement DEF AppendEvent, At
    <3>3. Knows(p)'
      BY <1>2, <3>1, <3>2 DEF Acts, Knows, Node, StateOK, Recorded, Event
    <3> QED BY <2>1, <3>1, <3>3, QuietStep
  <2>4. CASE ~Recorded(StageOf(node[p])) /\ events' = [events EXCEPT ![StageOf(node[p])] = <<PayloadOf(p)>>]
    <3>1. StageOf(node[p]) \in Stage
      BY DEF StageOf, Stage, RunInv, LocalTyped, Node
    <3>2. events'[StageOf(node[p])] = <<PayloadOf(p)>>
      BY <2>4, <3>1 DEF RunInv, SharedTyped
    <3>3. events[StageOf(node[p])] = <<PayloadOf(p)>>
      BY <1>2, <3>2
    <3> QED BY <2>4, <3>3 DEF Recorded
  <2> QED BY <2>2, <2>3, <2>4 DEF AppendEvent
<1>3. ASSUME ~Recorded(StageOf(node[p])),
             events' = [events EXCEPT ![StageOf(node[p])] = <<PayloadOf(p)>>],
             Proceed(p, "checkpoint") \/ Raise(p)
      PROVE  RunInv'
  <2>1. PICK s \in Stage : s = StageOf(node[p]) /\ s # "intent"
    BY DEF StageOf, Stage, RunInv, LocalTyped, Node
  <2>2. node[p] \in Node /\ at[p] = "append" /\ Knows(p) /\ Taught(p) /\ Reported
    BY DEF AppendEvent, At, RunInv, Kept, LocalTyped
  <2>3. SharedTyped'
    <3>1. <<PayloadOf(p)>> \in Seq(Payload)
      BY PayloadTyped
    <3>2. events' \in [Stage -> Seq(Payload)]
      BY <1>3, <3>1 DEF RunInv, SharedTyped
    <3> QED BY <1>1, <3>2 DEF RunInv, SharedTyped, genes, executor
  <2>4. /\ events'[s] = <<PayloadOf(p)>>
        /\ \A r \in Stage : r # s => events'[r] = events[r]
    BY <1>3, <2>1 DEF RunInv, SharedTyped
  <2>5. /\ Recorded(s)' /\ ~Recorded(s) /\ Event(s)' = PayloadOf(p)
        /\ \A r \in Stage : r # s => (Recorded(r)' <=> Recorded(r)) /\ Event(r)' = Event(r)
    <3>1. events'[s] # <<>> /\ events'[s][1] = PayloadOf(p)
      BY <2>4
    <3> QED BY <1>3, <2>1, <2>4, <3>1 DEF Recorded, Event
  <2>6. /\ Event(s)'.genes = Says(p).genes /\ Event(s)'.result = Says(p).result
        /\ Event(s)'.adopted = Says(p).adopted
    BY <2>5 DEF PayloadOf
  <2>7. Grows /\ UNCHANGED <<checkpoint, uses, adoptions, invoked>>
    BY <1>1, <2>4, <2>5 DEF Grows, Recorded, genes, executor
  <2>8. Stored'
    BY <2>5, <2>7 DEF RunInv, Kept, Stored, StateOK, Stage
  <2>9. PICK n, state : n = NextOf(node[p]) /\ state = mem[p]
    OBVIOUS
  <2>10. Reported' /\ StateOK(n, state)'
    <3>1. CASE node[p] = "select"
      <4>1. s = "selected" /\ Says(p).genes = mem[p].genes
        BY <2>1, <3>1, Empty DEF StageOf, Says, NoState, State
      <4>2. Reported'
        BY <2>2, <2>5, <2>7, <4>1 DEF Reported, Stage
      <4>3. StateOK(n, state)'
        BY <2>5, <2>6, <2>9, <3>1, <4>1 DEF NextOf, StateOK
      <4> QED BY <4>2, <4>3
    <3>2. CASE node[p] = "execute"
      <4>1. /\ s = "executed" /\ Says(p).adopted = mem[p].adopted
            /\ StateOK("execute", mem[p]) /\ mem[p].result.status \notin Judged
            /\ mem[p].adopted \subseteq mem[p].genes
        BY <2>1, <2>2, <3>2 DEF StageOf, Says, RunInv, LocalTyped, State, Knows
      <4>2. Reported'
        BY <2>2, <2>5, <2>6, <2>7, <4>1 DEF Reported, Stage, StateOK
      <4>3. StateOK(n, state)'
        BY <2>5, <2>6, <2>9, <3>2, <4>1 DEF NextOf, StateOK
      <4> QED BY <4>2, <4>3
    <3>3. CASE node[p] = "review"
      <4>1. /\ s = "reviewed" /\ Says(p).result = mem[p].result
            /\ Recorded("executed") /\ mem[p].adopted = Event("executed").adopted
        BY <2>1, <2>2, <3>3 DEF StageOf, Says, NoState, Knows
      <4>2. Reported'
        BY <2>2, <2>5, <2>7, <4>1 DEF Reported, Stage
      <4>3. StateOK(n, state)'
        BY <2>5, <2>6, <2>9, <3>3, <4>1 DEF NextOf, StateOK, Stage
      <4> QED BY <4>2, <4>3
    <3>4. CASE node[p] = "feedback"
      <4>1. /\ s = "feedback" /\ Says(p).result.status = mem[p].result.status
            /\ Says(p).adopted = Adopted(p) /\ Adopted(p) \subseteq adoptions
            /\ StateOK("feedback", mem[p])
        BY <2>1, <2>2, <3>4 DEF StageOf, Says, NoState, Knows, RunInv, LocalTyped, State, Result
      <4>2. Reported'
        BY <2>2, <2>5, <2>6, <2>7, <4>1 DEF Reported, Stage, StateOK, Adopted, Judged
      <4>3. StateOK(n, state)'
        BY <2>5, <2>9, <3>4, <4>1 DEF NextOf, StateOK, Stage
      <4> QED BY <4>2, <4>3
    <3> QED BY <2>2, <3>1, <3>2, <3>3, <3>4 DEF Node
  <2>11. CASE Proceed(p, "checkpoint")
    <3>1. Acts(p, "checkpoint", node[p], mem[p], left[p], engine[p])
      BY <2>11, Steps, ProceedActs DEF RunInv
    <3>2. Taught(p)'
      BY <2>2, <2>5, <3>1 DEF Taught, Acts, Stage
    <3>3. Knows(p)'
      BY <2>2, <2>9, <2>10, <3>1 DEF Acts, Knows, Node
    <3> QED BY <2>3, <2>7, <2>8, <2>10, <3>1, <3>2, <3>3, AfterStep
  <2>12. CASE Raise(p)
    <3>1. Acts(p, "idle", "select", NoState, {}, engine[p])
      BY <2>12, RaiseActs DEF RunInv
    <3>2. Taught(p)'
      BY <2>2, <2>5, <3>1 DEF Taught, Acts, Stage
    <3>3. Knows(p)'
      BY <3>1 DEF Acts, Knows, Node
    <3> QED BY <2>3, <2>7, <2>8, <2>10, <3>1, <3>2, <3>3, AfterStep
  <2> QED BY <1>3, <2>11, <2>12
<1> QED BY <1>2, <1>3 DEF AppendEvent

LEMMA CheckpointKeeps ==
  ASSUME RunInv, NEW p \in Process, Checkpoint(p)
  PROVE  RunInv'
<1>1. checkpoint' = [next |-> NextOf(node[p]), state |-> mem[p]]
      /\ UNCHANGED <<events, stored, genes, executor, stop, reports>>
  BY DEF Checkpoint
<1>2. NextOf(node[p]) \in Node \cup {"end"} /\ mem[p] \in State /\ StateOK(NextOf(node[p]), mem[p])
  BY DEF Checkpoint, At, RunInv, Kept, Knows, LocalTyped, NextOf, Node
<1>3. SharedTyped'
  BY <1>1, <1>2 DEF RunInv, SharedTyped, genes, executor
<1>4. Grows /\ Stored' /\ Reported' /\ invoked' = invoked
  BY <1>1, <1>2 DEF RunInv, Kept, Grows, Stored, StateOK, Reported, Recorded, Event, genes, executor, Node
<1>5. CASE Raise(p)
  <2>1. Acts(p, "idle", "select", NoState, {}, engine[p])
    BY <1>5, RaiseActs DEF RunInv
  <2>2. Knows(p)' /\ Taught(p)'
    BY <1>1, <2>1 DEF Acts, Knows, Node, RunInv, Kept, Taught, Recorded, Event
  <2> QED BY <1>3, <1>4, <2>1, <2>2, AfterStep
<1>6. CASE ~Raise(p)
  <2>1. NextOf(node[p]) \in Node
    BY <1>6 DEF Checkpoint, NextOf, Node, RunInv, LocalTyped
  <2>2. Acts(p, NextOf(node[p]), NextOf(node[p]), mem[p], left[p], engine[p])
    BY <1>6, <2>1, Steps DEF Checkpoint, Acts, RunInv, LocalTyped
  <2>3. Knows(p)' /\ Taught(p)'
    BY <1>1, <1>2, <2>1, <2>2 DEF Acts, Knows, StateOK, Node, RunInv, Kept, Taught, Recorded, Event
  <2> QED BY <1>3, <1>4, <2>1, <2>2, <2>3, AfterStep DEF Node
<1> QED BY <1>5, <1>6

LEMMA FailKeeps ==
  ASSUME RunInv, NEW p \in Process, Fail(p)
  PROVE  RunInv'
<1>1. SharedTyped' /\ UNCHANGED <<checkpoint, events, uses, adoptions, invoked>>
  BY DEF Fail, RunInv, SharedTyped, durable, genes, executor
<1> QED BY <1>1, RaiseKeeps DEF Fail

LEMMA CrashKeeps ==
  ASSUME RunInv, NEW p \in Process, Crash(p)
  PROVE  RunInv'
<1>1. SharedTyped' /\ UNCHANGED <<checkpoint, events, uses, adoptions, invoked>>
  BY DEF Crash, RunInv, SharedTyped, durable, genes, executor
<1>2. Acts(p, "idle", "select", NoState, {}, <<>>)
  <2>1. "idle" \in Step /\ "select" \in Node /\ NoState \in State /\ <<>> \in Engines
    BY Empty DEF Step, Node, Engines
  <2> QED BY <2>1 DEF Crash, Return, Acts, RunInv, LocalTyped
<1>3. Knows(p)' /\ Taught(p)'
  BY <1>2 DEF Acts, Knows, Node, Taught
<1>4. Grows /\ Stored' /\ Reported'
  BY <1>1 DEF Grows, RunInv, Kept, Stored, StateOK, Reported, Recorded, Event
<1> QED BY <1>1, <1>2, <1>3, <1>4, AfterStep

\* The host and the store of Genes change nothing the runs rely on.
LEMMA HostKeeps ==
  ASSUME RunInv, UNCHANGED <<checkpoint, events, uses, adoptions, invoked>>, UNCHANGED local, SharedTyped'
  PROVE  RunInv'
<1>1. LocalTyped'
  BY DEF RunInv, LocalTyped, local
<1>2. ASSUME NEW p \in Process PROVE Knows(p)' /\ Taught(p)'
  BY DEF RunInv, Kept, Knows, Taught, StateOK, Adopted, Recorded, Event, local, NextOf
<1>3. Stored' /\ Reported' /\ Paid'
  BY DEF RunInv, Kept, Stored, StateOK, Reported, Paid, OneInvocation, Recorded, Event, local
<1> QED BY <1>1, <1>2, <1>3 DEF RunInv, Kept

-----------------------------------------------------------------------------
(* The theorems *)

LEMMA RunInit == Init => RunInv
<1> SUFFICES ASSUME Init PROVE RunInv
  OBVIOUS
<1>1. NoState \in State /\ NoResult \in Result /\ <<>> \in Seq(Payload) /\ <<>> \in Seq(SUBSET Gene)
      /\ 0 \in 0 .. MaxReviews
  BY Empty, ConstantsAssumption
<1>2. SharedTyped
  BY <1>1 DEF Init, SharedTyped
<1>3. LocalTyped
  BY <1>1 DEF Init, LocalTyped, Step, Node, Engines
<1>4. \A s \in Stage : ~Recorded(s)
  BY DEF Init, Recorded
<1>5. Kept
  BY <1>4 DEF Init, Kept, Stored, StateOK, Knows, Taught, Paid, Reported, OneInvocation, Node, Stage
<1> QED BY <1>2, <1>3, <1>5 DEF RunInv

LEMMA ProcessKeeps ==
  ASSUME RunInv, NEW p \in Process, ProcessStep(p)
  PROVE  RunInv'
<1>1. CASE Start(p) \/ Invoke(p) \/ Resume(p) \/ Load(p) \/ Inject(p) \/ Resolve(p)
  BY <1>1, StartKeeps, InvokeKeeps, ResumeKeeps, LoadKeeps, InjectKeeps, ResolveKeeps
<1>2. CASE Interrupted(p) \/ FindIntent(p) \/ AppendIntent(p) \/ Request(p) \/ Apply(p) \/ Save(p)
  BY <1>2, InterruptedKeeps, FindIntentKeeps, AppendIntentKeeps, RequestKeeps, ApplyKeeps, SaveKeeps
<1>3. CASE Review(p) \/ Feedback(p) \/ \E g \in Gene : MarkUsed(p, g)
  BY <1>3, ReviewKeeps, FeedbackKeeps, MarkUsedKeeps
<1>4. CASE Look(p) \/ AppendEvent(p) \/ Checkpoint(p) \/ Fail(p) \/ Crash(p)
  BY <1>4, LookKeeps, AppendEventKeeps, CheckpointKeeps, FailKeeps, CrashKeeps
<1> QED BY <1>1, <1>2, <1>3, <1>4 DEF ProcessStep

LEMMA RunStep == RunInv /\ [Next]_vars => RunInv'
<1> SUFFICES ASSUME RunInv, [Next]_vars PROVE RunInv'
  OBVIOUS
<1>1. ASSUME NEW p \in Process, ProcessStep(p) PROVE RunInv'
  BY <1>1, ProcessKeeps
<1>2. CASE SetStop \/ Archive \/ (\E g \in Gene : Age(g)) \/ UNCHANGED vars
  <2>1. UNCHANGED <<checkpoint, events, uses, adoptions, invoked>> /\ UNCHANGED local
    BY <1>2 DEF SetStop, Archive, Age, vars, durable, genes, executor
  <2>2. SharedTyped'
    BY <1>2 DEF SetStop, Archive, Age, Active, vars, durable, genes, executor, RunInv, SharedTyped
  <2> QED BY <2>1, <2>2, HostKeeps
<1> QED BY <1>1, <1>2 DEF Next

LEMMA RunInvariant == Spec => []RunInv
<1> QED BY RunInit, RunStep, PTL DEF Spec

\* Every variable has its type, for any processes, Genes and budget.
THEOREM TypesHold == Spec => []TypeOK
<1>1. RunInv => TypeOK
  BY DEF RunInv, SharedTyped, LocalTyped, TypeOK, Engines
<1> QED BY <1>1, RunInvariant, PTL

\* A run sends at most one paid request, however many processes hold it.
THEOREM NeverInvokedTwice == Spec => []OneInvocation
<1>1. RunInv => OneInvocation
  BY DEF RunInv, Kept, Paid
<1> QED BY <1>1, RunInvariant, PTL

\* What the topology and the Gene store learn is the one recorded verdict.
THEOREM FeedbackIsRecorded == Spec => []FeedbackFollowsRecord
<1>1. RunInv => FeedbackFollowsRecord
  BY DEF RunInv, Kept, Taught, Reported, FeedbackFollowsRecord, Event
<1> QED BY <1>1, RunInvariant, PTL

\* Use counts match the adoptions, and a successful feedback has made them all.
THEOREM UsesAreExact == Spec => []UsesMatchFeedback
<1>1. RunInv => UsesMatchFeedback
  BY DEF RunInv, Kept, Reported, UsesMatchFeedback, Event
<1> QED BY <1>1, RunInvariant, PTL
==============================================================================
