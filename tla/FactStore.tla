------------------------------- MODULE FactStore -------------------------------
(***************************************************************************)
(* The file of failure facts (swarm/fault_observations.py): JSON lines, an *)
(* index of them in SQLite, and the position a recovery remembers.  A call *)
(* holds the write lock of the index from its first step to its last, so   *)
(* one call is in progress at a time; it may end by an exception or with   *)
(* its process anywhere.  The power may fail, which keeps the bytes that   *)
(* were synced and any part of those after them.  The file system keeps    *)
(* the name of a file whose bytes it has synced.                           *)
(* A definition that stands just before another of the same parameters and *)
(* is used nowhere is a mutated form of it, for the properties to reject.  *)
(***************************************************************************)
EXTENDS Integers, Sequences, FiniteSets, SequencesExt

CONSTANTS
    Key,         \* (run_id, request_id, attempt)
    Identity,    \* observation_id
    Body,        \* every other fact of a request attempt
    Torn,        \* a line that is not a valid record
    NoCall,
    MaxLines, MaxCheckpoints     \* bounds of the model

ASSUME LinesAssumption == MaxLines \in Nat /\ MaxCheckpoints \in Nat

Observation == [key : Key, id : Identity, body : Body]
Line == Observation \cup {Torn}
ASSUME NullAssumption == Torn \notin Observation /\ NoCall \notin Seq(Line) \X BOOLEAN

VARIABLES
    file,         \* the lines of the file; the last one may lack its newline
    ended,        \* the file ends with a newline, or is empty
    durable,      \* what a power failure leaves: how many lines, and the newline of the last
    index,        \* the records of the committed index
    signature,    \* the file the index was saved for
    call,         \* the append() in progress
    accepted,     \* every observation append() has returned for
    checkpoints   \* the positions taken, with the facts there were then

factVars == <<file, ended, durable, index, signature, call, accepted, checkpoints>>
stored == <<file, ended, durable>>
indexed == <<index, signature>>

SameFacts(o, p) == o.key = p.key /\ o.body = p.body

\* The numbers of the lines that _read_all() returns: a valid record whose
\* key and identity no earlier returned one has.
ReadLines(f) ==
    LET upTo[n \in 0 .. Len(f)] ==
            IF n = 0 THEN {}
            ELSE IF f[n] # Torn /\ \A k \in upTo[n - 1] : f[k].key # f[n].key /\ f[k].id # f[n].id
            THEN upTo[n - 1] \cup {n}
            ELSE upTo[n - 1]
    IN  upTo[Len(f)]

Records(f) == {f[k] : k \in ReadLines(f)}
Whole == [lines |-> Len(file), ended |-> ended]

FactsInit ==
    /\ file = <<>> /\ ended = TRUE
    /\ durable = [lines |-> 0, ended |-> TRUE]
    /\ index = {} /\ signature = NoCall
    /\ call = NoCall
    /\ accepted = {}
    /\ checkpoints = {}

-----------------------------------------------------------------------------
(* append() *)

At(step) == call # NoCall /\ call.at = step
Continue(step) == call' = [call EXCEPT !.at = step]

AppendBegin(o) ==
    /\ call = NoCall
    /\ call' = [obs |-> o, at |-> "ensure", index |-> index, signature |-> signature]
    /\ UNCHANGED <<stored, indexed, accepted, checkpoints>>

\* _ensure_index(): a changed file is read again, and synced before an index
\* that includes its bytes can be committed.
RebuildUnsynced ==
    /\ call' = [call EXCEPT !.at = "check", !.index = Records(file), !.signature = <<file, ended>>]
    /\ UNCHANGED durable
Rebuild ==
    /\ call' = [call EXCEPT !.at = "check", !.index = Records(file), !.signature = <<file, ended>>]
    /\ durable' = Whole

EnsureIndex ==
    /\ At("ensure")
    /\ IF call.signature = <<file, ended>> THEN Continue("check") /\ UNCHANGED durable ELSE Rebuild
    /\ UNCHANGED <<file, ended, indexed, accepted, checkpoints>>

Existing == {o \in call.index : o.key = call.obs.key}
Conflict ==
    \/ \E o \in Existing : ~SameFacts(o, call.obs)
    \/ \E o \in call.index : o.id = call.obs.id /\ o.key # call.obs.key

\* The transaction commits and append() returns.
Return ==
    /\ index' = call.index /\ signature' = call.signature
    /\ accepted' = accepted \cup {call.obs}
    /\ call' = NoCall

AppendReplay ==
    /\ At("check") /\ ~Conflict /\ Existing # {}
    /\ Return
    /\ UNCHANGED <<stored, checkpoints>>

AppendNew ==
    /\ At("check") /\ ~Conflict /\ Existing = {}
    /\ Len(file) < MaxLines
    /\ Continue("write")
    /\ UNCHANGED <<stored, indexed, accepted, checkpoints>>

\* A line is added; the newline the file may lack is written before it.
Add(line, newline) ==
    /\ file' = Append(file, line)
    /\ ended' = newline

Write ==
    /\ At("write")
    /\ Add(call.obs, TRUE)
    /\ Continue("sync")
    /\ UNCHANGED <<durable, indexed, accepted, checkpoints>>

\* What an interrupted write leaves: the newline of the line before, a part of
\* the record, or all of it but the newline.
WriteCut ==
    /\ At("write")
    /\ \/ ended' = TRUE /\ UNCHANGED file
       \/ Add(Torn, FALSE)
       \/ Add(call.obs, FALSE)
    /\ call' = NoCall
    /\ UNCHANGED <<durable, indexed, accepted, checkpoints>>

Sync ==
    /\ At("sync")
    /\ durable' = Whole
    /\ Continue("commit")
    /\ UNCHANGED <<file, ended, indexed, accepted, checkpoints>>

Commit ==
    /\ At("commit")
    /\ index' = call.index \cup {call.obs} /\ signature' = <<file, ended>>
    /\ accepted' = accepted \cup {call.obs}
    /\ call' = NoCall
    /\ UNCHANGED <<stored, checkpoints>>

\* A conflict, an error of the file system or the end of the process: the
\* transaction is rolled back, the bytes stay.
Rollback ==
    /\ call # NoCall
    /\ call' = NoCall
    /\ UNCHANGED <<stored, indexed, accepted, checkpoints>>

-----------------------------------------------------------------------------
(* checkpoint(), and the power *)

PositionOfNewlines == IF ended THEN Len(file) ELSE Len(file) - 1
Position == Len(file)

Checkpoint ==
    /\ call = NoCall
    /\ Cardinality(checkpoints) < MaxCheckpoints
    /\ checkpoints' = checkpoints \cup {[at |-> Position, before |-> Records(file)]}
    /\ UNCHANGED <<stored, indexed, call, accepted>>

\* The lines up to k survive, and maybe a part of the next one.  A checkpoint
\* beyond what survives has lost its meaning: nothing syncs what it counted.
PowerFails(k, part) ==
    /\ durable.lines <= k /\ k <= Len(file)
    /\ part => k < Len(file)
    /\ file' = SubSeq(file, 1, k) \o (IF part THEN <<Torn>> ELSE <<>>)
    /\ ended' \in BOOLEAN
    /\ part => ~ended'
    /\ k = Len(file) /\ ended' => ended
    /\ k = 0 \/ (k = durable.lines /\ durable.ended) => part \/ ended'
    /\ durable' = [lines |-> Len(file'), ended |-> ended']
    /\ checkpoints' = {c \in checkpoints : c.at <= k}
    /\ call' = NoCall
    /\ UNCHANGED <<indexed, accepted>>

FactsNext ==
    \/ \E o \in Observation : AppendBegin(o)
    \/ EnsureIndex \/ AppendReplay \/ AppendNew \/ Write \/ WriteCut \/ Sync \/ Commit
    \/ Rollback \/ Checkpoint
    \/ \E k \in 0 .. MaxLines, part \in BOOLEAN : PowerFails(k, part)

FactsSpec == FactsInit /\ [][FactsNext]_factVars

-----------------------------------------------------------------------------
(* Properties *)

\* What append() has returned for, as new or as a replay, is read from then on
\* with the facts it had, whatever crashes, torn lines, failed syncs and power
\* failures come after (append, _ensure_index: the sync precedes the commit).
AcceptedForGood ==
    \A o \in accepted : \E k \in ReadLines(file) : k <= durable.lines /\ SameFacts(file[k], o)

\* A recovery checkpoint separates the facts before it from those after it by
\* their line numbers, also when the file ended in a torn line or lacked its
\* newline (checkpoint, after_recovery).
CheckpointsSeparate ==
    \A c \in checkpoints : \A k \in ReadLines(file) : file[k] \in c.before <=> k <= c.at
=============================================================================
