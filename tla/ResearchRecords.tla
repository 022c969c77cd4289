---------------------------- MODULE ResearchRecords ----------------------------
(***************************************************************************)
(* The shared records of a research project (swarm/research/service.py,    *)
(* knowledge.py, feedback.py and policy.py): proposals that become tasks   *)
(* of the ledger, contributions one member accepts from another, and the   *)
(* corrections of a branch.  Each member runs a host of its own; a call    *)
(* reads, then writes, in transactions of three separate databases, and    *)
(* another member, or the end of its process, may come between any two.    *)
(* External: what completes in the ledger, and in which order.             *)
(* A definition that stands just before another of the same parameters and *)
(* is used nowhere is a mutated form of it, for the properties to reject.  *)
(***************************************************************************)
EXTENDS Naturals, Sequences, FiniteSets, SequencesExt

CONSTANTS
    Member,               \* the hosts, by worker_id
    Workspace,            \* Workspace[m]: where a host has its tasks worked on
    Content,              \* what a proposal proposes: its dedup key
    TaskLimit,            \* what max_tasks leaves for proposals
    Fact,                 \* the results the trusted projection may come to hold
    Author, Subject, Source, Role, Conclusion,  \* of a fact: by whom, on which asset, ...
    Replays,              \* the facts whose provenance is a replay
    Branch,
    Keepers,              \* Keepers[b]: the members who correct branch b
    Grounds,               \* what a correction is argued from
    Nothing,
    MaxCalls, MaxHistory  \* bounds of the model

ASSUME RecordsAssumption ==
    /\ TaskLimit \in Nat /\ MaxCalls \in Nat /\ MaxHistory \in Nat
    /\ Replays \subseteq Fact /\ Nothing \notin Fact
    /\ Nothing \notin [id : Member \X Nat, status : {"proposed", "accepted", "blocked"}]

VARIABLES
    proposals,      \* what is stored under a content: identity and status
    admitted,       \* the tasks of the ledger that proposals have become
    facts,          \* the trusted results, in the order of their completion
    contributions,  \* the accepted ones, each with its reviewer and review
    superseded,     \* those a supersession was appended for
    history,        \* the corrections of a branch
    doing,          \* the call each member is in
    proposed        \* how many identities a member has drawn

recordVars == <<proposals, admitted, facts, contributions, superseded, history, doing, proposed>>

NoCallYet == [step |-> "none"]

RecordsInit ==
    /\ proposals = [c \in Content |-> Nothing]
    /\ admitted = {}
    /\ facts = <<>>
    /\ contributions = {}
    /\ superseded = {}
    /\ history = [b \in Branch |-> <<>>]
    /\ doing = [m \in Member |-> NoCallYet]
    /\ proposed = [m \in Member |-> 0]

Doing(m, step) == doing[m].step = step
Call(m, call) == doing' = [doing EXCEPT ![m] = call]
Over(m) == Call(m, NoCallYet)

\* The process of a host ends, or the call raises, at any step.
CallLost(m) ==
    /\ ~Doing(m, "none")
    /\ Over(m)
    /\ UNCHANGED <<proposals, admitted, facts, contributions, superseded, history, proposed>>

-----------------------------------------------------------------------------
(* propose_work(): knowledge, then ledger, then knowledge *)

\* put_proposal(): the same content keeps the identity it was first stored under.
Stored(m, c) ==
    IF proposals[c] = Nothing THEN [id |-> <<m, proposed[m] + 1>>, status |-> "proposed"]
                              ELSE proposals[c]

Propose(m, c) ==
    /\ Doing(m, "none")
    /\ proposed[m] < MaxCalls
    /\ LET stored == Stored(m, c)
       IN  /\ proposals' = [proposals EXCEPT ![c] = stored]
           /\ IF stored.status = "accepted" THEN UNCHANGED doing
              ELSE Call(m, [step |-> "enqueue", content |-> c, stored |-> stored,
                            own |-> <<m, proposed[m] + 1>>])
    /\ proposed' = [proposed EXCEPT ![m] = @ + 1]
    /\ UNCHANGED <<admitted, facts, contributions, superseded, history>>

\* The signal and the acceptance enqueue() compares: they carry the proposal as
\* it was stored, its status included.
TaskOwn(m) == [id |-> doing[m].own, content |-> doing[m].content,
               workspace |-> Workspace[m], noted |-> doing[m].stored.status]
TaskOf(m) == [id |-> doing[m].stored.id, content |-> doing[m].content,
              workspace |-> Workspace[m], noted |-> doing[m].stored.status]

SameTask(m) == {t \in admitted : t.id = TaskOf(m).id}
SameEvidence(m) == {t \in admitted : t.content = TaskOf(m).content}
Deduplicated(m) == SameTask(m) = {} /\ \E t \in SameEvidence(m) : t.workspace = TaskOf(m).workspace

ToBind(m, status) ==
    /\ Call(m, [doing[m] EXCEPT !.step = status])
    /\ UNCHANGED <<proposals, facts, contributions, superseded, history, proposed>>

EnqueueKnown(m) ==
    /\ Doing(m, "enqueue")
    /\ TaskOf(m) \in admitted \/ Deduplicated(m)
    /\ ToBind(m, "accepted")
    /\ UNCHANGED admitted

EnqueueConflict(m) ==
    /\ Doing(m, "enqueue")
    /\ TaskOf(m) \notin admitted /\ ~Deduplicated(m)
    /\ SameTask(m) \cup SameEvidence(m) # {}
    /\ ToBind(m, "blocked")
    /\ UNCHANGED admitted

EnqueueNew(m) ==
    /\ Doing(m, "enqueue")
    /\ SameTask(m) \cup SameEvidence(m) = {}
    /\ Cardinality(admitted) < TaskLimit
    /\ admitted' = admitted \cup {TaskOf(m)}
    /\ ToBind(m, "accepted")

\* RunLimitReached is not a conflict: it leaves the proposal as it is.
EnqueueRefused(m) ==
    /\ Doing(m, "enqueue")
    /\ SameTask(m) \cup SameEvidence(m) = {}
    /\ Cardinality(admitted) >= TaskLimit
    /\ Over(m)
    /\ UNCHANGED <<proposals, admitted, facts, contributions, superseded, history, proposed>>

BindProposal(m) ==
    /\ doing[m].step \in {"accepted", "blocked"}
    /\ proposals' = [proposals EXCEPT ![doing[m].content].status = doing[m].step]
    /\ Over(m)
    /\ UNCHANGED <<admitted, facts, contributions, superseded, history, proposed>>

-----------------------------------------------------------------------------
(* accept_result() and record_supersession() *)

TaskCompletes(f) ==
    /\ f \notin Range(facts)
    /\ facts' = Append(facts, f)
    /\ UNCHANGED <<proposals, admitted, contributions, superseded, history, doing, proposed>>

\* _review(): the first result of the reviewer that repeats the fact.
Repeats(g, f, m) ==
    /\ Author[g] = m /\ m # Author[f]
    /\ Subject[g] = Subject[f] /\ g # f
    /\ g \notin Replays
    /\ Conclusion[g] = Conclusion[f] /\ Conclusion[g] \in {"supported", "refuted"}
    /\ Role[g] \in {"reproduction", "counterexample"}
Reviews(f, m) == {k \in DOMAIN facts : Repeats(facts[k], f, m)}
LastReview(f, m) == IF Reviews(f, m) = {} THEN Nothing ELSE facts[Max(Reviews(f, m))]
Review(f, m) == IF Reviews(f, m) = {} THEN Nothing ELSE facts[Min(Reviews(f, m))]

AcceptRead(m, f) ==
    /\ Doing(m, "none")
    /\ f \in Range(facts) \ Replays
    /\ Review(f, m) # Nothing
    /\ Call(m, [step |-> "accept", fact |-> f, review |-> Review(f, m)])
    /\ UNCHANGED <<proposals, admitted, facts, contributions, superseded, history, proposed>>

\* dedup_keys(): a result, and the source it rests on, count once.
KeysOfResult(f) == {<<"result", f>>}
Keys(f) == {<<"result", f>>, <<"source", Source[f]>>}
Seen == UNION {Keys(c.fact) : c \in contributions}

AcceptCommit(m) ==
    /\ Doing(m, "accept")
    /\ contributions' =
           IF Keys(doing[m].fact) \cap Seen # {} THEN contributions
           ELSE contributions \cup
                    {[fact |-> doing[m].fact, reviewer |-> m, review |-> doing[m].review]}
    /\ Over(m)
    /\ UNCHANGED <<proposals, admitted, facts, superseded, history, proposed>>

Contributed == {c.fact : c \in contributions}

SupersedeRead(m, f) ==
    /\ Doing(m, "none")
    /\ f \in Contributed \ superseded
    /\ Author[f] # m
    /\ Call(m, [step |-> "supersede", fact |-> f])
    /\ UNCHANGED <<proposals, admitted, facts, contributions, superseded, history, proposed>>

SupersedeCommit(m) ==
    /\ Doing(m, "supersede")
    /\ superseded' = superseded \cup {doing[m].fact}
    /\ Over(m)
    /\ UNCHANGED <<proposals, admitted, facts, contributions, history, proposed>>

\* What advisory() counts: effective_contributions() whose fact and review are
\* found again.
Advised == {c \in contributions :
               /\ c.fact \notin superseded
               /\ c.fact \in Range(facts) \ Replays
               /\ Review(c.fact, c.reviewer) = c.review}

-----------------------------------------------------------------------------
(* record_correction() *)

Kinds == {"sleep", "downgrade", "reopen"}

\* apply_correction(): the status after a correction, or "illegal". A stored branch
\* starts as proposed, and only corrections change its status.
Correct(status, kind) ==
    CASE kind \in {"sleep", "downgrade"} /\ status = "proposed" -> "dormant"
      [] kind = "reopen" /\ status = "dormant"                 -> "proposed"
      [] OTHER                                                  -> "illegal"

Status(events) ==
    LET after[n \in 0 .. Len(events)] ==
            IF n = 0 THEN "proposed" ELSE Correct(after[n - 1], events[n].kind)
    IN  after[Len(events)]

\* The same correction of the same member is returned as it was recorded.
CorrectRead(m, b, kind, reason) ==
    /\ Doing(m, "none")
    /\ m \in Keepers[b]
    /\ Len(history[b]) < MaxHistory
    /\ [kind |-> kind, reason |-> reason, actor |-> m] \notin Range(history[b])
    /\ Call(m, [step |-> "check", branch |-> b, kind |-> kind, reason |-> reason])
    /\ UNCHANGED <<proposals, admitted, facts, contributions, superseded, history, proposed>>

Legal(status, kind) == Correct(status, kind) # "illegal"

CorrectCheck(m) ==
    /\ Doing(m, "check")
    /\ IF Legal(Status(history[doing[m].branch]), doing[m].kind)
       THEN Call(m, [doing[m] EXCEPT !.step = "correct"])
       ELSE Over(m)
    /\ UNCHANGED <<proposals, admitted, facts, contributions, superseded, history, proposed>>

CorrectCommit(m) ==
    /\ Doing(m, "correct")
    /\ history' = [history EXCEPT ![doing[m].branch] =
                      Append(@, [kind |-> doing[m].kind, reason |-> doing[m].reason, actor |-> m])]
    /\ Over(m)
    /\ UNCHANGED <<proposals, admitted, facts, contributions, superseded, proposed>>

-----------------------------------------------------------------------------
ProposeNext(m) ==
    \/ \E c \in Content : Propose(m, c)
    \/ EnqueueKnown(m) \/ EnqueueConflict(m) \/ EnqueueNew(m) \/ EnqueueRefused(m)
    \/ BindProposal(m)

ReviewNext(m) ==
    \/ \E f \in Fact : TaskCompletes(f) \/ AcceptRead(m, f) \/ SupersedeRead(m, f)
    \/ AcceptCommit(m) \/ SupersedeCommit(m)

CorrectNext(m) ==
    \/ \E b \in Branch, kind \in Kinds, reason \in Grounds : CorrectRead(m, b, kind, reason)
    \/ CorrectCheck(m) \/ CorrectCommit(m)

RecordsNext == \E m \in Member : ProposeNext(m) \/ ReviewNext(m) \/ CorrectNext(m) \/ CallLost(m)

RecordsSpec == RecordsInit /\ [][RecordsNext]_recordVars

-----------------------------------------------------------------------------
(* Properties *)

\* However proposals repeat, race and break off between the two databases, an
\* accepted one has its task, no content has two, and a task carries the identity
\* its proposal is stored under (propose_work).
AdmittedOnce ==
    /\ \A c \in Content : proposals[c] # Nothing /\ proposals[c].status = "accepted" =>
           \E t \in admitted : t.id = proposals[c].id /\ t.content = c
    /\ \A t, u \in admitted : t.content = u.content => t = u
    /\ \A t \in admitted : proposals[t.content] # Nothing /\ proposals[t.content].id = t.id

\* Two members who accept results of one source at the same time make one
\* contribution, and it is not of their own work (accept, dedup_keys).
OnePerSource ==
    /\ \A c, d \in contributions : Source[c.fact] = Source[d.fact] => c = d
    /\ \A c \in contributions : Author[c.fact] # c.reviewer /\ Author[c.review] = c.reviewer

\* The advice of a project stands: an accepted contribution that nobody superseded
\* stays in it, whatever its reviewer or others complete later, and the corrections
\* of a branch that one member looks after can be replayed, without which there is
\* no advice at all (advisory, _review, _research_branches).
AdviceStands ==
    /\ \A c \in contributions : c.fact \in superseded \/ c \in Advised
    /\ \A b \in Branch : (\E m \in Member : Keepers[b] = {m}) => Status(history[b]) # "illegal"
=============================================================================
