------------------------------ MODULE LearnedField ------------------------------
(***************************************************************************)
(* What is learned from completed tasks (swarm/pheromone.py, feedback.py): *)
(* an index of routing preferences in SQLite, derived from facts that the  *)
(* task ledger and the asset store establish.  There are two such files:   *)
(* the workers add one fact at a time to theirs, the hosts of the research *)
(* service rebuild theirs from every fact they read.  A weight is the fold *)
(* of its samples with decay between them, so a row stands here as the     *)
(* sequence of its samples: two rows have one weight when they agree.      *)
(* External: which results the ledger and the asset store come to confirm. *)
(* A definition that stands just before another of the same parameters and *)
(* is used nowhere is a mutated form of it, for the properties to reject.  *)
(***************************************************************************)
EXTENDS Naturals, Sequences, FiniteSets

CONSTANTS
    Learner,      \* the workers, each of one capability: the keys of a history
    Operated,     \* the hosts that share the policy field
    Completion,   \* the results of completed tasks, by source_id
    Rejection,    \* the sample of reward zero
    NoPair,
    MaxTime, MaxRejections   \* bounds of the model

ASSUME FieldAssumption ==
    /\ Completion \subseteq Nat /\ Rejection \notin Completion
    /\ MaxTime \in Nat /\ MaxRejections \in Nat
    /\ NoPair \notin [of : Completion, calls : SUBSET {"signal", "history"}]

VARIABLES
    hour,        \* the clock of the ledger
    completed,   \* when each completed result was, and whose it is
    trusted,     \* the results trusted_facts() confirms
    learned,     \* learned[f]: the table learning_facts of a field
    raised,      \* raised[f]: the tasks with a row in learned_signals
    samples,     \* samples[f][w]: the row of learned_history
    pipe,        \* pipe[w]: the row of pipe_history in the field of the workers
    marked,      \* the results whose feedback_started is durable
    pairing,     \* pairing[w]: the trusted_pair() a worker is in
    reading      \* reading[h]: <<>> or the facts a host has read and will write

fieldVars == <<hour, completed, trusted, learned, raised, samples, pipe, marked, pairing, reading>>
index == <<learned, raised, samples>>

Field == {"workers", "policy"}
Finished == DOMAIN completed
OfLearner(w) == {r \in Finished : completed[r].by = w}

\* sorted() by completion time, then by identity.
Earlier(r, s) ==
    \/ completed[r].at < completed[s].at
    \/ completed[r].at = completed[s].at /\ r < s

FieldInit ==
    /\ hour = 0
    /\ completed = <<>>
    /\ trusted = {}
    /\ learned = [f \in Field |-> {}]
    /\ raised = [f \in Field |-> {}]
    /\ samples = [f \in Field |-> [w \in Learner |-> <<>>]]
    /\ pipe = [w \in Learner |-> <<>>]
    /\ marked = {}
    /\ pairing = [w \in Learner |-> NoPair]
    /\ reading = [h \in Operated |-> <<>>]

-----------------------------------------------------------------------------
(* The ledger and the asset store *)

\* A task completes. A result that consumed an asset is not confirmed before
\* its adoption is recorded.
CompleteTask(r, w) ==
    /\ r \notin Finished
    /\ completed' = [s \in Finished \cup {r} |->
                        IF s = r THEN [by |-> w, at |-> hour] ELSE completed[s]]
    /\ \E direct \in BOOLEAN : trusted' = IF direct THEN trusted \cup {r} ELSE trusted
    /\ UNCHANGED <<hour, index, pipe, marked, pairing, reading>>

RecordAdoption(r) ==
    /\ r \in Finished \ trusted
    /\ trusted' = trusted \cup {r}
    /\ UNCHANGED <<hour, completed, index, pipe, marked, pairing, reading>>

HourPasses ==
    /\ hour < MaxTime
    /\ hour' = hour + 1
    /\ UNCHANGED <<completed, trusted, index, pipe, marked, pairing, reading>>

-----------------------------------------------------------------------------
(* synchronize(): the facts are written and the index made again from all *)

Sorted(results) ==
    CHOOSE s \in [1 .. Cardinality(results) -> results] :
        /\ \A r \in results : \E k \in DOMAIN s : s[k] = r
        /\ \A j, k \in DOMAIN s : j < k => Earlier(s[j], s[k])

\* project(), for one history; the rows that were there are deleted.
ProjectOnTop(f, facts, w) ==
    samples[f][w] \o Sorted(OfLearner(w) \cap (facts \ learned[f]))
Project(f, facts, w) == Sorted(OfLearner(w) \cap facts)

Synchronize(f, facts) ==
    /\ learned' = [learned EXCEPT ![f] = facts]
    /\ raised' = [raised EXCEPT ![f] = facts]
    /\ samples' = [samples EXCEPT ![f] = [w \in Learner |-> Project(f, facts, w)]]

-----------------------------------------------------------------------------
(* A worker: the feedback of its own result, and a rejection *)

\* pipe_history(): a learned row hides the other.
Weighed(w) == IF samples["workers"][w] # <<>> THEN samples["workers"][w] ELSE pipe[w]

Pair(w, pair) == pairing' = [pairing EXCEPT ![w] = pair]

\* feedback_started is durable before anything else: there is no second try.
StartFeedback(w, r) ==
    /\ pairing[w] = NoPair
    /\ r \in OfLearner(w) \ marked
    /\ marked' = marked \cup {r}
    /\ Pair(w, [of |-> r, calls |-> {}])
    /\ UNCHANGED <<hour, completed, trusted, index, pipe, reading>>

\* feedback() and reinforce() write nothing while the pair is open.
RewardSignal(w) ==
    /\ pairing[w] # NoPair
    /\ pairing[w].of \in trusted /\ pairing[w].calls = {}
    /\ Pair(w, [pairing[w] EXCEPT !.calls = {"signal"}])
    /\ UNCHANGED <<hour, completed, trusted, index, pipe, marked, reading>>

RewardHistory(w) ==
    /\ pairing[w] # NoPair
    /\ pairing[w].calls = {"signal"}
    /\ Pair(w, [pairing[w] EXCEPT !.calls = @ \cup {"history"}])
    /\ UNCHANGED <<hour, completed, trusted, index, pipe, marked, reading>>

\* replace=False: what other workers have learned stays.
AfterPairReplaced(w) == {pairing[w].of}
AfterPair(w) == learned["workers"] \cup {pairing[w].of}

CommitPair(w) ==
    /\ pairing[w] # NoPair
    /\ pairing[w].calls = {"signal", "history"}
    /\ Synchronize("workers", AfterPair(w))
    /\ Pair(w, NoPair)
    /\ UNCHANGED <<hour, completed, trusted, pipe, marked, reading>>

\* An exception, no fact that fits, or the end of the process: for review.
AbandonPair(w) ==
    /\ pairing[w] # NoPair
    /\ Pair(w, NoPair)
    /\ UNCHANGED <<hour, completed, trusted, index, pipe, marked, reading>>

\* reject_task(): the row of pipe_history becomes what is read with one sample
\* more. The signal of the task, which is not completed, is left out.
Rejections(row) == Cardinality({k \in DOMAIN row : row[k] = Rejection})

RejectTask(w) ==
    /\ pairing[w] = NoPair
    /\ Rejections(pipe[w]) < MaxRejections
    /\ pipe' = [pipe EXCEPT ![w] = Append(Weighed(w), Rejection)]
    /\ UNCHANGED <<hour, completed, trusted, index, marked, pairing, reading>>

-----------------------------------------------------------------------------
(* A host of the research service: discover(), or the end of a submission *)

ReadFacts(h) ==
    /\ reading[h] = <<>>
    /\ reading' = [reading EXCEPT ![h] = <<trusted>>]
    /\ UNCHANGED <<hour, completed, trusted, index, pipe, marked, pairing>>

\* replace=True: the facts read, however long ago, are all there is.
RebuildPolicy(h) ==
    /\ reading[h] # <<>>
    /\ Synchronize("policy", reading[h][1])
    /\ reading' = [reading EXCEPT ![h] = <<>>]
    /\ UNCHANGED <<hour, completed, trusted, pipe, marked, pairing>>

HostDies(h) ==
    /\ reading[h] # <<>>
    /\ reading' = [reading EXCEPT ![h] = <<>>]
    /\ UNCHANGED <<hour, completed, trusted, index, pipe, marked, pairing>>

LearnerStep(w) ==
    \/ \E r \in Completion : CompleteTask(r, w) \/ StartFeedback(w, r)
    \/ RewardSignal(w) \/ RewardHistory(w) \/ CommitPair(w) \/ AbandonPair(w)
    \/ RejectTask(w)

HostStep(h) == ReadFacts(h) \/ RebuildPolicy(h) \/ HostDies(h)

FieldNext ==
    \/ HourPasses
    \/ \E r \in Completion : RecordAdoption(r)
    \/ \E w \in Learner : LearnerStep(w)
    \/ \E h \in Operated : HostStep(h)

FieldSpec == FieldInit /\ [][FieldNext]_fieldVars

-----------------------------------------------------------------------------
(* Properties *)

\* Every variable has its type.
FieldTypeOK ==
    /\ hour \in 0 .. MaxTime
    /\ Finished \subseteq Completion
    /\ completed \in [Finished -> [by : Learner, at : 0 .. MaxTime]]
    /\ trusted \subseteq Finished
    /\ learned \in [Field -> SUBSET Completion]
    /\ raised \in [Field -> SUBSET Completion]
    /\ samples \in [Field -> [Learner -> Seq(Completion)]]
    /\ pipe \in [Learner -> Seq(Completion \cup {Rejection})]
    /\ marked \subseteq Finished
    /\ pairing \in [Learner -> [of : Completion, calls : SUBSET {"signal", "history"}] \cup {NoPair}]
    /\ reading \in [Operated -> {<<>>} \cup {<<facts>> : facts \in SUBSET Completion}]

\* One completed result earns one reward (feedback.py `trusted_facts',
\* pheromone.py `project'): the samples of a history are confirmed results of its
\* worker, each once and in the order of their completion, in whatever order they
\* were confirmed, read and written; and the tasks whose signal rose are exactly
\* those, so that no pair of updates is ever half applied.
RewardsInOrder ==
    \A f \in Field :
        /\ raised[f] = UNION {{samples[f][w][k] : k \in DOMAIN samples[f][w]} : w \in Learner}
        /\ \A w \in Learner : \A k \in DOMAIN samples[f][w] :
              LET r == samples[f][w][k] IN
              /\ r \in trusted /\ completed[r].by = w
              /\ \A j \in 1 .. k - 1 : Earlier(samples[f][w][j], r)

\* What was learned is forgotten only where that is repaired (pheromone.py
\* `synchronize'): the workers, who add a fact once and never again, lose none;
\* the policy field loses one only to a host whose reading was begun before the
\* fact was confirmed, so that its reading does not hold the fact.
OnlyOldReadingsForget ==
    [][\A f \in Field : \A r \in learned[f] \ learned'[f] :
          f = "policy" /\ \E h \in Operated : reading[h] # <<>> /\ r \notin reading[h][1]]_fieldVars
=============================================================================
